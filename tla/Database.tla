------------------------------ MODULE Database ------------------------------
(***************************************************************************)
(* The SQLite store of the indexer (storage/src/db.rs).  Every operation   *)
(* that writes runs as one transaction while it holds the connection's     *)
(* mutex, so each one is a single step here; an operation that fails rolls *)
(* its transaction back and changes nothing.                               *)
(*                                                                         *)
(* The tables are kept by what the operations read of them: an event row   *)
(* by its table, its AUTOINCREMENT _id, the block and the index of the     *)
(* matched event it was made from; a journal entry by its table_name,      *)
(* row_id and block_height; _indexer_state by how many rows each block     *)
(* has in it, for no constraint makes a row of that table unique.          *)
(***************************************************************************)
EXTENDS BlockTree, Sequences, FiniteSets

CONSTANTS Tables,   \* the event tables that the configuration declares
          Matched   \* for each block, the tables of its matched events in order

ASSUME MatchedAssumption == Matched \in [Blocks -> Seq(Tables)]

VARIABLES eventRows,     \* the rows of all event tables
          reorgJournal,  \* _reorg_journal
          indexerState,  \* how many rows of _indexer_state each block has
          lastRowId,     \* sqlite_sequence: the last _id given out in a table
          prunedTo       \* history: the highest cutoff ever pruned with

dbVars == <<eventRows, reorgJournal, indexerState, lastRowId, prunedTo>>

Positions(b) == 1 .. Len(Matched[b])

Heights == {HeightOf[b] : b \in Blocks}

Row == [table : Tables, id : Nat \ {0}, block : Blocks, pos : Nat \ {0}]

JournalEntry == [table : Tables, id : Nat \ {0}, height : Heights]

-----------------------------------------------------------------------------
(* Reading the tip.                                                        *)

Stored == {b \in Blocks : indexerState[b] > 0}

(* "ORDER BY block_height DESC LIMIT 1": SQLite may return any of the rows *)
(* that share the greatest height.                                         *)
TipBlocks == {b \in Stored : \A c \in Stored : HeightOf[c] <= HeightOf[b]}

(* The height get_last_processed_block returns; (0, "") when none is stored. *)
LastHeight ==
    IF TipBlocks = {} THEN 0 ELSE HeightOf[CHOOSE b \in TipBlocks : TRUE]

-----------------------------------------------------------------------------
(* Writing.                                                                *)

(* Definitions named Mutant... are wrong versions of the one that follows  *)
(* them: slips the properties below are able to tell from the code.        *)

(* last_insert_rowid read once for the whole block.                        *)
MutantOrdinalConstant(b, i) == 1

(* How many of the first i matched events of b go to the table of the i-th. *)
Ordinal(b, i) == Cardinality({j \in 1 .. i : Matched[b][j] = Matched[b][i]})

RowFor(b, i) ==
    [table |-> Matched[b][i],
     id    |-> lastRowId[Matched[b][i]] + Ordinal(b, i),
     block |-> b,
     pos   |-> i]

EntryFor(r) == [table |-> r.table, id |-> r.id, height |-> HeightOf[r.block]]

NewRows(b) == {RowFor(b, i) : i \in Positions(b)}

(* INSERT OR REPLACE into _indexer_state, but not into the event tables.   *)
MutantApplyBlockReplace(b) ==
    /\ eventRows' = eventRows \cup NewRows(b)
    /\ reorgJournal' = reorgJournal \cup {EntryFor(r) : r \in NewRows(b)}
    /\ indexerState' = [indexerState EXCEPT ![b] = 1]
    /\ lastRowId' =
          [t \in Tables |->
              lastRowId[t] + Cardinality({i \in Positions(b) : Matched[b][i] = t})]
    /\ UNCHANGED prunedTo

(* apply_block: a row and a journal entry for each matched event, and the  *)
(* block's row in _indexer_state, in one transaction.                      *)
ApplyBlock(b) ==
    /\ eventRows' = eventRows \cup NewRows(b)
    /\ reorgJournal' = reorgJournal \cup {EntryFor(r) : r \in NewRows(b)}
    /\ indexerState' = [indexerState EXCEPT ![b] = @ + 1]
    /\ lastRowId' =
          [t \in Tables |->
              lastRowId[t] + Cardinality({i \in Positions(b) : Matched[b][i] = t})]
    /\ UNCHANGED prunedTo

(* "block_height > ?1" when the entries to undo are selected.              *)
MutantUndoneAbove(r, h) ==
    \E e \in reorgJournal : e.table = r.table /\ e.id = r.id /\ e.height > h

(* The table_name of an entry is forgotten.                                *)
MutantUndoneAnyTable(r, h) ==
    \E e \in reorgJournal : e.id = r.id /\ e.height >= h

(* The whole journal is replayed.                                          *)
MutantUndoneAll(r, h) ==
    \E e \in reorgJournal : e.table = r.table /\ e.id = r.id

(* Does the journal order row r to be deleted when rolling back from h?    *)
Undone(r, h) ==
    \E e \in reorgJournal : e.table = r.table /\ e.id = r.id /\ e.height >= h

(* The replayed entries stay in the journal.                               *)
MutantRollbackKeepsJournal(h) ==
    /\ eventRows' = {r \in eventRows : ~ Undone(r, h)}
    /\ indexerState' =
          [b \in Blocks |-> IF HeightOf[b] >= h THEN 0 ELSE indexerState[b]]
    /\ UNCHANGED <<reorgJournal, lastRowId, prunedTo>>

(* rollback_from_height: replay the journal from h up, then forget h and up. *)
RollbackFromHeight(h) ==
    /\ eventRows' = {r \in eventRows : ~ Undone(r, h)}
    /\ reorgJournal' = {e \in reorgJournal : e.height < h}
    /\ indexerState' =
          [b \in Blocks |-> IF HeightOf[b] >= h THEN 0 ELSE indexerState[b]]
    /\ UNCHANGED <<lastRowId, prunedTo>>

(* "block_height <= ?1".                                                   *)
MutantDeleteJournalUpTo(cutoff) ==
    /\ reorgJournal' = {e \in reorgJournal : e.height > cutoff}
    /\ prunedTo' = IF cutoff > prunedTo THEN cutoff ELSE prunedTo
    /\ UNCHANGED <<eventRows, indexerState, lastRowId>>

(* The DELETE of prune_journal, with the cutoff its earlier read gave.     *)
DeleteJournalBelow(cutoff) ==
    /\ reorgJournal' = {e \in reorgJournal : e.height >= cutoff}
    /\ prunedTo' = IF cutoff > prunedTo THEN cutoff ELSE prunedTo
    /\ UNCHANGED <<eventRows, indexerState, lastRowId>>

-----------------------------------------------------------------------------
(* The store on its own, its operations called in any order: what holds    *)
(* here holds whatever the callers do.                                     *)

Cutoffs == UNION {0 .. HeightOf[b] : b \in Blocks}

DatabaseInit ==
    /\ eventRows = {}
    /\ reorgJournal = {}
    /\ indexerState = [b \in Blocks |-> 0]
    /\ lastRowId = [t \in Tables |-> 0]
    /\ prunedTo = 0

DatabaseNext ==
    \/ \E b \in Blocks : ApplyBlock(b)
    \/ \E h \in Heights : RollbackFromHeight(h)
    \/ \E c \in Cutoffs : DeleteJournalBelow(c)

DatabaseSpec == DatabaseInit /\ [][DatabaseNext]_dbVars

-----------------------------------------------------------------------------
(* Properties.                                                             *)

DatabaseTypeOK ==
    /\ eventRows \subseteq Row
    /\ reorgJournal \subseteq JournalEntry
    /\ indexerState \in [Blocks -> Nat]
    /\ lastRowId \in [Tables -> Nat]
    /\ prunedTo \in Nat

(* An _id names one row of its table, and none beyond the last one given   *)
(* out: an _id in the journal can never come to name a later row (db.rs    *)
(* deletes rows by _id alone).                                             *)
RowIdsUnique ==
    /\ \A r \in eventRows : r.id <= lastRowId[r.table]
    /\ \A r, s \in eventRows : r.table = s.table /\ r.id = s.id => r = s

(* Every journal entry names a row that is still there, and carries the    *)
(* height of that row's block: replaying it deletes what it was written    *)
(* for and nothing else.                                                   *)
JournalSound ==
    \A e \in reorgJournal :
        \E r \in eventRows :
            r.table = e.table /\ r.id = e.id /\ e.height = HeightOf[r.block]

(* A row that a rollback could not find was let go by a prune: only rows   *)
(* below the highest cutoff have no journal entry.                         *)
RowsJournaled ==
    \A r \in eventRows :
        EntryFor(r) \in reorgJournal \/ HeightOf[r.block] < prunedTo

(* A rollback deletes the rows of every block it forgets: a row whose      *)
(* block has no row in _indexer_state lies below a pruned height.          *)
NoOrphans ==
    \A r \in eventRows : r.block \in Stored \/ HeightOf[r.block] < prunedTo

(* A block in _indexer_state has all its matched events in the tables,     *)
(* whatever was rolled back or pruned around it.                           *)
StoredComplete ==
    \A b \in Stored : \A i \in Positions(b) :
        \E r \in eventRows : r.block = b /\ r.pos = i

RowsOf(b, i) == {r \in eventRows : r.block = b /\ r.pos = i}

(* At heights that no prune has touched, each matched event of a block has *)
(* exactly as many rows as the block has rows in _indexer_state: the two   *)
(* never drift apart.                                                      *)
RowsPerState ==
    \A b \in Blocks : HeightOf[b] >= prunedTo =>
        \A i \in Positions(b) : Cardinality(RowsOf(b, i)) = indexerState[b]

(* No step deletes a row of a block that stays in _indexer_state, and none *)
(* changes the rows that stay.                                             *)
RowsLeaveWithTheirBlock ==
    [][\A r \in eventRows \ eventRows' : indexerState'[r.block] = 0]_dbVars
=============================================================================
