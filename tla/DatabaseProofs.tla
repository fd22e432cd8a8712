--------------------------- MODULE DatabaseProofs ---------------------------
(***************************************************************************)
(* What holds of the store whatever its callers do, for every block tree,  *)
(* every set of tables and every outcome of the matcher: _ids are unique,  *)
(* the journal is sound, a rollback leaves no row behind but below a       *)
(* pruned height, and a stored block keeps all its rows.                   *)
(***************************************************************************)
EXTENDS Database, FiniteSetTheorems, TLAPS

(* The inductive invariant: that _ids are unique is what makes a journal   *)
(* entry point to one row, and that the journal is sound is what makes a   *)
(* rollback delete the rows of the blocks it forgets and no others.        *)
StoreInv ==
    /\ DatabaseTypeOK
    /\ RowIdsUnique
    /\ JournalSound
    /\ RowsJournaled
    /\ NoOrphans
    /\ StoredComplete

-----------------------------------------------------------------------------
(* The _ids that apply_block gives out.                                    *)

Earlier(b, i) == {j \in 1 .. i : Matched[b][j] = Matched[b][i]}

Into(b, t) == {i \in Positions(b) : Matched[b][i] = t}

LEMMA MatchedType ==
    ASSUME NEW b \in Blocks
    PROVE  /\ Len(Matched[b]) \in Nat
           /\ \A i \in Positions(b) : Matched[b][i] \in Tables /\ i \in Nat \ {0}
  BY MatchedAssumption DEF Positions

LEMMA IntoFinite ==
    ASSUME NEW b \in Blocks, NEW t
    PROVE  IsFiniteSet(Into(b, t)) /\ Cardinality(Into(b, t)) \in Nat
  <1>1. Len(Matched[b]) \in Nat
    BY MatchedType
  <1>2. IsFiniteSet(1 .. Len(Matched[b]))
    BY <1>1, FS_Interval
  <1>3. Into(b, t) \subseteq 1 .. Len(Matched[b])
    BY DEF Into, Positions
  <1> QED BY <1>2, <1>3, FS_Subset, FS_CardinalityType

(* The i-th event is the Ordinal(b, i)-th of its table, and no table gets  *)
(* more _ids than apply_block adds to its last one.                        *)
LEMMA OrdinalInRange ==
    ASSUME NEW b \in Blocks, NEW i \in Positions(b)
    PROVE  /\ Ordinal(b, i) \in Nat \ {0}
           /\ Ordinal(b, i) <= Cardinality(Into(b, Matched[b][i]))
           /\ Cardinality(Into(b, Matched[b][i])) \in Nat
  <1>1. i \in Nat \ {0} /\ Len(Matched[b]) \in Nat /\ i <= Len(Matched[b])
    BY MatchedType DEF Positions
  <1>2. IsFiniteSet(Into(b, Matched[b][i])) /\ Cardinality(Into(b, Matched[b][i])) \in Nat
    BY IntoFinite
  <1>3. Earlier(b, i) \subseteq Into(b, Matched[b][i])
    BY <1>1 DEF Earlier, Into, Positions
  <1>4. IsFiniteSet(Earlier(b, i)) /\ Cardinality(Earlier(b, i)) \in Nat
        /\ Cardinality(Earlier(b, i)) <= Cardinality(Into(b, Matched[b][i]))
    BY <1>2, <1>3, FS_Subset, FS_CardinalityType
  <1>5. i \in Earlier(b, i)
    BY <1>1 DEF Earlier
  <1>6. Cardinality(Earlier(b, i)) # 0
    BY <1>4, <1>5, FS_EmptySet
  <1> QED BY <1>2, <1>4, <1>6 DEF Ordinal, Earlier

(* Two events of a block that go to one table have different ordinals.     *)
LEMMA OrdinalDistinct ==
    ASSUME NEW b \in Blocks, NEW i \in Positions(b), NEW j \in Positions(b),
           Matched[b][i] = Matched[b][j], i < j
    PROVE  Ordinal(b, i) # Ordinal(b, j)
  <1>1. i \in Nat \ {0} /\ j \in Nat \ {0}
    BY MatchedType
  <1>2. IsFiniteSet(Earlier(b, j))
    <2>1. IsFiniteSet(1 .. j)
      BY <1>1, FS_Interval
    <2> QED BY <2>1, FS_Subset DEF Earlier
  <1>3. Earlier(b, i) \subseteq Earlier(b, j)
    BY <1>1 DEF Earlier
  <1>4. j \in Earlier(b, j) /\ j \notin Earlier(b, i)
    BY <1>1 DEF Earlier
  <1>5. Earlier(b, i) # Earlier(b, j)
    BY <1>4
  <1>6. Cardinality(Earlier(b, i)) # Cardinality(Earlier(b, j))
    BY <1>2, <1>3, <1>5, FS_Subset
  <1> QED BY <1>6 DEF Ordinal, Earlier

-----------------------------------------------------------------------------
(* The rows apply_block inserts.                                           *)

LEMMA NewRow ==
    ASSUME DatabaseTypeOK, NEW b \in Blocks, NEW i \in Positions(b)
    PROVE  /\ RowFor(b, i) \in Row
           /\ RowFor(b, i).id > lastRowId[RowFor(b, i).table]
           /\ RowFor(b, i).id <= lastRowId[RowFor(b, i).table]
                                    + Cardinality(Into(b, RowFor(b, i).table))
  <1>1. Matched[b][i] \in Tables /\ i \in Nat \ {0}
    BY MatchedType
  <1>2. lastRowId[Matched[b][i]] \in Nat
    BY <1>1 DEF DatabaseTypeOK
  <1>3. /\ Ordinal(b, i) \in Nat \ {0}
        /\ Ordinal(b, i) <= Cardinality(Into(b, Matched[b][i]))
        /\ Cardinality(Into(b, Matched[b][i])) \in Nat
    BY OrdinalInRange
  <1>4. lastRowId[Matched[b][i]] + Ordinal(b, i) \in Nat \ {0}
    BY <1>2, <1>3
  <1> QED BY <1>1, <1>2, <1>3, <1>4 DEF RowFor, Row

(* No two of them share table and _id.                                     *)
LEMMA NewRowsDistinct ==
    ASSUME DatabaseTypeOK, NEW b \in Blocks,
           NEW i \in Positions(b), NEW j \in Positions(b),
           RowFor(b, i).table = RowFor(b, j).table,
           RowFor(b, i).id = RowFor(b, j).id
    PROVE  i = j
  <1>1. Matched[b][i] = Matched[b][j] /\ Matched[b][i] \in Tables
        /\ i \in Nat /\ j \in Nat
    BY MatchedType DEF RowFor
  <1>2. Ordinal(b, i) = Ordinal(b, j)
    <2>1. lastRowId[Matched[b][i]] + Ordinal(b, i) = lastRowId[Matched[b][i]] + Ordinal(b, j)
      BY <1>1 DEF RowFor
    <2>2. lastRowId[Matched[b][i]] \in Nat /\ Ordinal(b, i) \in Nat /\ Ordinal(b, j) \in Nat
      BY <1>1, OrdinalInRange DEF DatabaseTypeOK
    <2> QED BY <2>1, <2>2
  <1>3. ~ (i < j) /\ ~ (j < i)
    BY <1>1, <1>2, OrdinalDistinct
  <1> QED BY <1>1, <1>3

-----------------------------------------------------------------------------
(* Each operation keeps the store's types.                                 *)

LEMMA ApplyType ==
    ASSUME DatabaseTypeOK, NEW b \in Blocks, ApplyBlock(b)
    PROVE  DatabaseTypeOK'
  <1>1. NewRows(b) \subseteq Row
    BY NewRow DEF NewRows
  <1>2. \A r \in Row : EntryFor(r) \in JournalEntry
    BY HeightAssumption DEF Row, EntryFor, JournalEntry, Heights
  <1>3. eventRows' \subseteq Row
    BY <1>1 DEF DatabaseTypeOK, ApplyBlock
  <1>4. reorgJournal' \subseteq JournalEntry
    BY <1>1, <1>2 DEF DatabaseTypeOK, ApplyBlock
  <1>5. indexerState' \in [Blocks -> Nat]
    BY DEF DatabaseTypeOK, ApplyBlock
  <1>6. lastRowId' \in [Tables -> Nat]
    <2>1. \A t \in Tables : Cardinality(Into(b, t)) \in Nat
      BY IntoFinite
    <2> QED BY <2>1 DEF DatabaseTypeOK, ApplyBlock, Into
  <1> QED BY <1>3, <1>4, <1>5, <1>6 DEF DatabaseTypeOK, ApplyBlock

LEMMA RollbackType ==
    ASSUME DatabaseTypeOK, NEW h \in Heights, RollbackFromHeight(h)
    PROVE  DatabaseTypeOK'
  BY DEF DatabaseTypeOK, RollbackFromHeight

LEMMA PruneType ==
    ASSUME DatabaseTypeOK, NEW c \in Nat, DeleteJournalBelow(c)
    PROVE  DatabaseTypeOK'
  BY DEF DatabaseTypeOK, DeleteJournalBelow

LEMMA CutoffsType == Cutoffs \subseteq Nat
  BY HeightAssumption DEF Cutoffs

-----------------------------------------------------------------------------
(* apply_block preserves the invariant: the new _ids lie above all the old *)
(* ones, so no old row and no old journal entry is confused with a new one. *)
LEMMA ApplyInv ==
    ASSUME StoreInv, NEW b \in Blocks, ApplyBlock(b)
    PROVE  StoreInv'
  <1> USE DEF StoreInv
  <1>1. DatabaseTypeOK'
    BY ApplyType
  <1>2. \A i \in Positions(b) :
           /\ RowFor(b, i) \in Row
           /\ RowFor(b, i).id > lastRowId[RowFor(b, i).table]
           /\ RowFor(b, i).id <= lastRowId'[RowFor(b, i).table]
           /\ RowFor(b, i).block = b
           /\ RowFor(b, i).pos = i
    <2>1. ASSUME NEW i \in Positions(b)
          PROVE  RowFor(b, i).id <= lastRowId'[RowFor(b, i).table]
      <3>1. RowFor(b, i).table \in Tables
        BY MatchedType DEF RowFor
      <3> QED BY <3>1, NewRow DEF ApplyBlock, Into
    <2> QED BY <2>1, NewRow DEF RowFor
  <1>3. \A t \in Tables : lastRowId'[t] >= lastRowId[t] /\ lastRowId'[t] \in Nat /\ lastRowId[t] \in Nat
    <2>1. \A t \in Tables : Cardinality(Into(b, t)) \in Nat
      BY IntoFinite
    <2>2. \A t \in Tables : lastRowId'[t] = lastRowId[t] + Cardinality(Into(b, t))
      BY DEF ApplyBlock, Into
    <2>3. \A t \in Tables : lastRowId[t] \in Nat
      BY DEF DatabaseTypeOK
    <2> QED BY <2>1, <2>2, <2>3
  <1>4. RowIdsUnique'
    <2>1. ASSUME NEW r \in eventRows'
          PROVE  r.id <= lastRowId'[r.table]
      <3>1. CASE r \in eventRows
        BY <3>1, <1>3 DEF RowIdsUnique, DatabaseTypeOK, Row
      <3>2. CASE r \in NewRows(b)
        BY <3>2, <1>2 DEF NewRows
      <3> QED BY <3>1, <3>2 DEF ApplyBlock
    <2>2. ASSUME NEW r \in eventRows', NEW s \in eventRows',
                 r.table = s.table, r.id = s.id
          PROVE  r = s
      <3>1. CASE r \in eventRows /\ s \in eventRows
        BY <3>1, <2>2 DEF RowIdsUnique
      <3>2. ASSUME NEW x \in eventRows, NEW y \in NewRows(b), x.table = y.table, x.id = y.id
            PROVE  FALSE
        BY <3>2, <1>2, <1>3 DEF RowIdsUnique, NewRows, DatabaseTypeOK, Row
      <3>3. CASE r \in NewRows(b) /\ s \in NewRows(b)
        BY <3>3, <2>2, NewRowsDistinct DEF NewRows
      <3> QED BY <2>2, <3>1, <3>2, <3>3 DEF ApplyBlock
    <2> QED BY <2>1, <2>2 DEF RowIdsUnique
  <1>5. JournalSound'
    <2>1. ASSUME NEW e \in reorgJournal'
          PROVE  \E r \in eventRows' :
                    r.table = e.table /\ r.id = e.id /\ e.height = HeightOf[r.block]
      <3>1. CASE e \in reorgJournal
        BY <3>1 DEF JournalSound, ApplyBlock
      <3>2. CASE \E r \in NewRows(b) : e = EntryFor(r)
        BY <3>2 DEF EntryFor, ApplyBlock
      <3> QED BY <3>1, <3>2 DEF ApplyBlock
    <2> QED BY <2>1 DEF JournalSound
  <1>6. RowsJournaled'
    BY DEF RowsJournaled, ApplyBlock, EntryFor
  <1>7. \A c \in Blocks : c \in Stored' <=> (c \in Stored \/ c = b)
    BY DEF Stored, ApplyBlock, DatabaseTypeOK
  <1>8. NoOrphans'
    <2>1. \A r \in eventRows : r.block \in Blocks
      BY DEF DatabaseTypeOK, Row
    <2>2. \A r \in NewRows(b) : r.block = b
      BY DEF NewRows, RowFor
    <2> QED BY <1>7, <2>1, <2>2 DEF NoOrphans, ApplyBlock
  <1>9. StoredComplete'
    <2>1. ASSUME NEW c \in Stored', NEW i \in Positions(c)
          PROVE  \E r \in eventRows' : r.block = c /\ r.pos = i
      <3>1. CASE c \in Stored
        BY <3>1 DEF StoredComplete, ApplyBlock
      <3>2. CASE c = b
        <4>1. RowFor(b, i) \in eventRows'
          BY <3>2 DEF ApplyBlock, NewRows
        <4> QED BY <4>1, <3>2, <1>2
      <3> QED BY <3>1, <3>2, <1>7 DEF Stored
    <2> QED BY <2>1 DEF StoredComplete
  <1> QED BY <1>1, <1>4, <1>5, <1>6, <1>8, <1>9

(* A row is undone by a rollback from h just when its own entry is in the  *)
(* journal and its block is at h or above: no entry is another row's.      *)
LEMMA UndoneEntry ==
    ASSUME StoreInv, NEW r \in eventRows, NEW h
    PROVE  Undone(r, h) <=> EntryFor(r) \in reorgJournal /\ HeightOf[r.block] >= h
  <1>1. ASSUME NEW e \in reorgJournal, e.table = r.table, e.id = r.id
        PROVE  e = EntryFor(r)
    <2>1. PICK s \in eventRows : s.table = e.table /\ s.id = e.id /\ e.height = HeightOf[s.block]
      BY DEF StoreInv, JournalSound
    <2>2. s = r
      BY <2>1, <1>1 DEF StoreInv, RowIdsUnique
    <2>3. e \in JournalEntry
      BY DEF StoreInv, DatabaseTypeOK
    <2> QED BY <2>1, <2>2, <2>3, <1>1 DEF JournalEntry, EntryFor
  <1> QED BY <1>1 DEF Undone, EntryFor

(* rollback_from_height preserves it: a row it deletes is one whose block  *)
(* it forgets, and a row it leaves at those heights was pruned.            *)
LEMMA RollbackInv ==
    ASSUME StoreInv, NEW h \in Heights, RollbackFromHeight(h)
    PROVE  StoreInv'
  <1> USE DEF StoreInv
  <1>1. DatabaseTypeOK'
    BY RollbackType
  <1>2. h \in Nat /\ \A b \in Blocks : HeightOf[b] \in Nat
    BY HeightAssumption DEF Heights
  <1>3. \A r \in eventRows : r \in Row
    BY DEF DatabaseTypeOK
  <1>4. ASSUME NEW r \in eventRows
        PROVE  Undone(r, h) <=> EntryFor(r) \in reorgJournal /\ HeightOf[r.block] >= h
    BY UndoneEntry
  <1>5. RowIdsUnique'
    BY DEF RowIdsUnique, RollbackFromHeight
  <1>6. JournalSound'
    <2>1. ASSUME NEW e \in reorgJournal'
          PROVE  \E r \in eventRows' :
                    r.table = e.table /\ r.id = e.id /\ e.height = HeightOf[r.block]
      <3>1. e \in reorgJournal /\ e.height < h
        BY DEF RollbackFromHeight
      <3>2. PICK r \in eventRows : r.table = e.table /\ r.id = e.id /\ e.height = HeightOf[r.block]
        BY <3>1 DEF JournalSound
      <3>3. r.block \in Blocks
        BY <1>3 DEF Row
      <3>4. ~ Undone(r, h)
        BY <1>2, <1>4, <3>1, <3>2, <3>3
      <3> QED BY <3>2, <3>4 DEF RollbackFromHeight
    <2> QED BY <2>1 DEF JournalSound
  <1>7. RowsJournaled'
    <2>1. ASSUME NEW r \in eventRows'
          PROVE  EntryFor(r) \in reorgJournal' \/ HeightOf[r.block] < prunedTo'
      <3>1. r \in eventRows /\ ~ Undone(r, h)
        BY DEF RollbackFromHeight
      <3>2. r.block \in Blocks /\ EntryFor(r).height = HeightOf[r.block]
        BY <3>1, <1>3 DEF Row, EntryFor
      <3> QED BY <3>1, <3>2, <1>2, <1>4 DEF RowsJournaled, RollbackFromHeight, EntryFor
    <2> QED BY <2>1 DEF RowsJournaled, EntryFor
  <1>8. \A c \in Blocks : c \in Stored' <=> (c \in Stored /\ HeightOf[c] < h)
    BY <1>2 DEF Stored, RollbackFromHeight
  <1>9. NoOrphans'
    <2>1. ASSUME NEW r \in eventRows'
          PROVE  r.block \in Stored' \/ HeightOf[r.block] < prunedTo'
      <3>1. r \in eventRows /\ ~ Undone(r, h) /\ prunedTo' = prunedTo
        BY DEF RollbackFromHeight
      <3>2. r.block \in Blocks
        BY <3>1, <1>3 DEF Row
      <3>3. CASE HeightOf[r.block] < h
        BY <3>1, <3>2, <3>3, <1>8 DEF NoOrphans
      <3>4. CASE HeightOf[r.block] >= h
        BY <3>1, <3>4, <1>4 DEF RowsJournaled
      <3> QED BY <3>2, <3>3, <3>4, <1>2
    <2> QED BY <2>1 DEF NoOrphans
  <1>10. StoredComplete'
    <2>1. ASSUME NEW c \in Stored', NEW i \in Positions(c)
          PROVE  \E r \in eventRows' : r.block = c /\ r.pos = i
      <3>1. c \in Blocks /\ c \in Stored /\ HeightOf[c] < h
        BY <1>8 DEF Stored
      <3>2. PICK r \in eventRows : r.block = c /\ r.pos = i
        BY <3>1 DEF StoredComplete
      <3>3. ~ Undone(r, h)
        BY <3>1, <3>2, <1>2, <1>4
      <3> QED BY <3>2, <3>3 DEF RollbackFromHeight
    <2> QED BY <2>1 DEF StoredComplete
  <1> QED BY <1>1, <1>5, <1>6, <1>7, <1>9, <1>10

(* A prune only forgets journal entries, and remembers up to where.        *)
LEMMA PruneInv ==
    ASSUME StoreInv, NEW c \in Nat, DeleteJournalBelow(c)
    PROVE  StoreInv'
  <1> USE DEF StoreInv
  <1>1. DatabaseTypeOK'
    BY PruneType
  <1>2. \A b \in Blocks : HeightOf[b] \in Nat
    BY HeightAssumption
  <1>3. prunedTo' >= prunedTo /\ prunedTo' >= c /\ prunedTo \in Nat /\ prunedTo' \in Nat
    BY DEF DeleteJournalBelow, DatabaseTypeOK
  <1>4. \A r \in eventRows : r.block \in Blocks
    BY DEF DatabaseTypeOK, Row
  <1>5. RowIdsUnique'
    BY DEF RowIdsUnique, DeleteJournalBelow
  <1>6. JournalSound'
    BY DEF JournalSound, DeleteJournalBelow
  <1>7. RowsJournaled'
    <2>1. ASSUME NEW r \in eventRows
          PROVE  EntryFor(r) \in reorgJournal' \/ HeightOf[r.block] < prunedTo'
      <3>1. r.block \in Blocks /\ HeightOf[r.block] \in Nat /\ EntryFor(r).height = HeightOf[r.block]
        BY <1>2, <1>4 DEF EntryFor
      <3> QED BY <3>1, <1>3 DEF RowsJournaled, DeleteJournalBelow
    <2> QED BY <2>1 DEF RowsJournaled, EntryFor, DeleteJournalBelow
  <1>8. Stored' = Stored
    BY DEF Stored, DeleteJournalBelow
  <1>9. NoOrphans'
    BY <1>2, <1>3, <1>4, <1>8 DEF NoOrphans, DeleteJournalBelow
  <1>10. StoredComplete'
    BY <1>8 DEF StoredComplete, DeleteJournalBelow
  <1> QED BY <1>1, <1>5, <1>6, <1>7, <1>9, <1>10

-----------------------------------------------------------------------------
LEMMA StoreInitInv == DatabaseInit => StoreInv
  BY DEF DatabaseInit, StoreInv, DatabaseTypeOK, RowIdsUnique, JournalSound,
         RowsJournaled, NoOrphans, StoredComplete, Stored, Row, JournalEntry

LEMMA StoreNextInv == StoreInv /\ [DatabaseNext]_dbVars => StoreInv'
  <1> SUFFICES ASSUME StoreInv, [DatabaseNext]_dbVars PROVE StoreInv'
    OBVIOUS
  <1>1. ASSUME NEW b \in Blocks, ApplyBlock(b) PROVE StoreInv'
    BY <1>1, ApplyInv
  <1>2. ASSUME NEW h \in Heights, RollbackFromHeight(h) PROVE StoreInv'
    BY <1>2, RollbackInv
  <1>3. ASSUME NEW c \in Cutoffs, DeleteJournalBelow(c) PROVE StoreInv'
    BY <1>3, CutoffsType, PruneInv
  <1>4. CASE UNCHANGED dbVars
    BY <1>4 DEF dbVars, StoreInv, DatabaseTypeOK, RowIdsUnique, JournalSound,
                RowsJournaled, NoOrphans, StoredComplete, Stored, EntryFor
  <1> QED BY <1>1, <1>2, <1>3, <1>4 DEF DatabaseNext

(* The store's invariant, whatever order its operations are called in.     *)
THEOREM StoreCorrect == DatabaseSpec => []StoreInv
  BY StoreInitInv, StoreNextInv, PTL DEF DatabaseSpec

(* The tables hold what the code puts there, with _ids that only grow.     *)
THEOREM StoreTypes == DatabaseSpec => []DatabaseTypeOK
  <1>1. StoreInv => DatabaseTypeOK
    BY DEF StoreInv
  <1> QED BY <1>1, StoreCorrect, PTL

(* No _id ever names two rows, so "DELETE ... WHERE _id" deletes the one   *)
(* row its journal entry was written for.                                  *)
THEOREM StoreIdsUnique == DatabaseSpec => []RowIdsUnique
  <1>1. StoreInv => RowIdsUnique
    BY DEF StoreInv
  <1> QED BY <1>1, StoreCorrect, PTL

(* Every journal entry names a live row of the height it is filed under.   *)
THEOREM StoreJournalSound == DatabaseSpec => []JournalSound
  <1>1. StoreInv => JournalSound
    BY DEF StoreInv
  <1> QED BY <1>1, StoreCorrect, PTL

(* Only a prune parts a row from its journal entry: what a rollback could  *)
(* not find lies below the highest cutoff.                                 *)
THEOREM StoreRowsJournaled == DatabaseSpec => []RowsJournaled
  <1>1. StoreInv => RowsJournaled
    BY DEF StoreInv
  <1> QED BY <1>1, StoreCorrect, PTL

(* A rollback leaves no row of a block it forgot, but below a height that  *)
(* was pruned.                                                             *)
THEOREM StoreNoOrphans == DatabaseSpec => []NoOrphans
  <1>1. StoreInv => NoOrphans
    BY DEF StoreInv
  <1> QED BY <1>1, StoreCorrect, PTL

(* A block in _indexer_state has every one of its matched events.          *)
THEOREM StoreComplete == DatabaseSpec => []StoredComplete
  <1>1. StoreInv => StoredComplete
    BY DEF StoreInv
  <1> QED BY <1>1, StoreCorrect, PTL

(* No step deletes a row of a block that stays in _indexer_state.          *)
THEOREM StoreRowsLeave == DatabaseSpec => RowsLeaveWithTheirBlock
  <1>1. StoreInv /\ [DatabaseNext]_dbVars
           => [\A r \in eventRows \ eventRows' : indexerState'[r.block] = 0]_dbVars
    <2> SUFFICES ASSUME StoreInv, DatabaseNext, NEW r \in eventRows \ eventRows'
                 PROVE  indexerState'[r.block] = 0
      OBVIOUS
    <2>1. ASSUME NEW h \in Heights, RollbackFromHeight(h)
          PROVE  indexerState'[r.block] = 0
      <3>1. PICK e \in reorgJournal : e.table = r.table /\ e.id = r.id /\ e.height >= h
        BY <2>1 DEF RollbackFromHeight, Undone
      <3>2. PICK s \in eventRows : s.table = e.table /\ s.id = e.id /\ e.height = HeightOf[s.block]
        BY DEF StoreInv, JournalSound
      <3>3. s = r
        BY <3>1, <3>2 DEF StoreInv, RowIdsUnique
      <3>4. r.block \in Blocks
        BY DEF StoreInv, DatabaseTypeOK, Row
      <3> QED BY <2>1, <3>1, <3>2, <3>3, <3>4 DEF RollbackFromHeight
    <2> QED BY <2>1 DEF DatabaseNext, ApplyBlock, DeleteJournalBelow
  <1> QED BY <1>1, StoreCorrect, PTL DEF DatabaseSpec, RowsLeaveWithTheirBlock

-----------------------------------------------------------------------------
(* As many rows of each event as its block has in _indexer_state.          *)

(* RowsPerState counts rows, so it needs that there are finitely many.     *)
RowsFinite == \A b \in Blocks : \A i \in Positions(b) : IsFiniteSet(RowsOf(b, i))

CountInv == StoreInv /\ RowsFinite /\ RowsPerState

(* apply_block adds one row to those of each event of its block, and none  *)
(* to those of another.                                                    *)
LEMMA ApplyRows ==
    ASSUME StoreInv, NEW b \in Blocks, ApplyBlock(b),
           NEW c \in Blocks, NEW i \in Positions(c)
    PROVE  IF c = b
           THEN /\ RowsOf(c, i)' = RowsOf(c, i) \cup {RowFor(b, i)}
                /\ RowFor(b, i) \notin RowsOf(c, i)
           ELSE RowsOf(c, i)' = RowsOf(c, i)
  <1>1. CASE c = b
    <2>1. RowFor(b, i) \notin eventRows
      <3>1. RowFor(b, i) \in Row /\ RowFor(b, i).id > lastRowId[RowFor(b, i).table]
        BY <1>1, NewRow DEF StoreInv
      <3>2. lastRowId[RowFor(b, i).table] \in Nat /\ RowFor(b, i).id \in Nat
        BY <3>1 DEF StoreInv, DatabaseTypeOK, Row
      <3>3. ~ (RowFor(b, i).id <= lastRowId[RowFor(b, i).table])
        BY <3>1, <3>2
      <3> QED BY <3>3 DEF StoreInv, RowIdsUnique
    <2>2. \A j \in Positions(b) : RowFor(b, j).block = b /\ RowFor(b, j).pos = j
      BY DEF RowFor
    <2> QED BY <1>1, <2>1, <2>2 DEF RowsOf, ApplyBlock, NewRows
  <1>2. CASE c # b
    BY <1>2 DEF RowsOf, ApplyBlock, NewRows, RowFor
  <1> QED BY <1>1, <1>2

LEMMA ApplyKeepsCount ==
    ASSUME StoreInv, NEW b \in Blocks, ApplyBlock(b),
           NEW c \in Blocks, NEW i \in Positions(c), IsFiniteSet(RowsOf(c, i))
    PROVE  /\ IsFiniteSet(RowsOf(c, i)')
           /\ Cardinality(RowsOf(c, i)) = indexerState[c]
                 => Cardinality(RowsOf(c, i)') = indexerState'[c]
  <1>1. indexerState \in [Blocks -> Nat]
    BY DEF StoreInv, DatabaseTypeOK
  <1>2. CASE c = b
    <2>1. /\ IsFiniteSet(RowsOf(c, i)')
          /\ Cardinality(RowsOf(c, i)') = Cardinality(RowsOf(c, i)) + 1
      BY <1>2, ApplyRows, FS_AddElement
    <2> QED BY <1>1, <1>2, <2>1 DEF ApplyBlock
  <1>3. CASE c # b
    BY <1>1, <1>3, ApplyRows DEF ApplyBlock
  <1> QED BY <1>2, <1>3

(* A rollback takes away all the rows of a block it forgets, unless they   *)
(* were pruned, and none of a block that it leaves.                        *)
LEMMA RollbackKeepsCount ==
    ASSUME StoreInv, NEW h \in Heights, RollbackFromHeight(h),
           NEW c \in Blocks, NEW i \in Positions(c), IsFiniteSet(RowsOf(c, i))
    PROVE  /\ IsFiniteSet(RowsOf(c, i)')
           /\ /\ HeightOf[c] < h \/ HeightOf[c] >= prunedTo
              /\ Cardinality(RowsOf(c, i)) = indexerState[c]
              => Cardinality(RowsOf(c, i)') = indexerState'[c]
  <1>1. h \in Nat /\ HeightOf[c] \in Nat /\ prunedTo \in Nat
    BY HeightAssumption DEF Heights, StoreInv, DatabaseTypeOK
  <1>2. IsFiniteSet(RowsOf(c, i)')
    <2>1. RowsOf(c, i)' \subseteq RowsOf(c, i)
      BY DEF RowsOf, RollbackFromHeight
    <2> QED BY <2>1, FS_Subset
  <1>3. CASE HeightOf[c] < h
    <2>1. \A r \in RowsOf(c, i) : ~ Undone(r, h)
      BY <1>1, <1>3, UndoneEntry DEF RowsOf
    <2>2. RowsOf(c, i)' = RowsOf(c, i)
      BY <2>1 DEF RowsOf, RollbackFromHeight
    <2> QED BY <1>1, <1>2, <1>3, <2>2 DEF RollbackFromHeight
  <1>4. CASE HeightOf[c] >= h /\ HeightOf[c] >= prunedTo
    <2>1. \A r \in RowsOf(c, i) : Undone(r, h)
      BY <1>1, <1>4, UndoneEntry DEF RowsOf, StoreInv, RowsJournaled
    <2>2. RowsOf(c, i)' = {}
      BY <2>1 DEF RowsOf, RollbackFromHeight
    <2> QED BY <1>1, <1>2, <1>4, <2>2, FS_EmptySet DEF RollbackFromHeight
  <1> QED BY <1>1, <1>2, <1>3, <1>4

LEMMA ApplyCount ==
    ASSUME CountInv, NEW b \in Blocks, ApplyBlock(b)
    PROVE  (RowsFinite /\ RowsPerState)'
  <1>1. ASSUME NEW c \in Blocks, NEW i \in Positions(c)
        PROVE  /\ IsFiniteSet(RowsOf(c, i)')
               /\ HeightOf[c] >= prunedTo
                     => Cardinality(RowsOf(c, i)') = indexerState'[c]
    BY ApplyKeepsCount DEF CountInv, RowsFinite, RowsPerState
  <1> QED BY <1>1 DEF RowsFinite, RowsPerState, ApplyBlock, Positions

LEMMA RollbackCount ==
    ASSUME CountInv, NEW h \in Heights, RollbackFromHeight(h)
    PROVE  (RowsFinite /\ RowsPerState)'
  <1>1. ASSUME NEW c \in Blocks, NEW i \in Positions(c)
        PROVE  /\ IsFiniteSet(RowsOf(c, i)')
               /\ HeightOf[c] >= prunedTo
                     => Cardinality(RowsOf(c, i)') = indexerState'[c]
    BY RollbackKeepsCount DEF CountInv, RowsFinite, RowsPerState
  <1> QED BY <1>1 DEF RowsFinite, RowsPerState, RollbackFromHeight, Positions

(* A prune leaves the rows alone.                                          *)
LEMMA PruneCount ==
    ASSUME CountInv, NEW c \in Nat, DeleteJournalBelow(c)
    PROVE  (RowsFinite /\ RowsPerState)'
  <1>1. prunedTo' >= prunedTo /\ prunedTo \in Nat /\ prunedTo' \in Nat
    BY DEF DeleteJournalBelow, CountInv, StoreInv, DatabaseTypeOK
  <1>2. \A b \in Blocks : HeightOf[b] \in Nat
    BY HeightAssumption
  <1> QED BY <1>1, <1>2
     DEF CountInv, RowsFinite, RowsPerState, RowsOf, DeleteJournalBelow, Positions

LEMMA CountInit == DatabaseInit => CountInv
  <1> SUFFICES ASSUME DatabaseInit PROVE RowsFinite /\ RowsPerState
    BY StoreInitInv DEF CountInv
  <1>1. \A b \in Blocks : \A i \in Positions(b) : RowsOf(b, i) = {}
    BY DEF DatabaseInit, RowsOf
  <1> QED BY <1>1, FS_EmptySet DEF DatabaseInit, RowsFinite, RowsPerState

LEMMA CountNext == CountInv /\ [DatabaseNext]_dbVars => CountInv'
  <1> SUFFICES ASSUME CountInv, [DatabaseNext]_dbVars
               PROVE  (RowsFinite /\ RowsPerState)'
    BY StoreNextInv DEF CountInv
  <1>1. ASSUME NEW b \in Blocks, ApplyBlock(b) PROVE (RowsFinite /\ RowsPerState)'
    BY <1>1, ApplyCount
  <1>2. ASSUME NEW h \in Heights, RollbackFromHeight(h)
        PROVE  (RowsFinite /\ RowsPerState)'
    BY <1>2, RollbackCount
  <1>3. ASSUME NEW c \in Cutoffs, DeleteJournalBelow(c)
        PROVE  (RowsFinite /\ RowsPerState)'
    BY <1>3, CutoffsType, PruneCount
  <1>4. CASE UNCHANGED dbVars
    BY <1>4 DEF dbVars, CountInv, RowsFinite, RowsPerState, RowsOf, Positions
  <1> QED BY <1>1, <1>2, <1>3, <1>4 DEF DatabaseNext

LEMMA StoreCounts == DatabaseSpec => []CountInv
  BY CountInit, CountNext, PTL DEF DatabaseSpec

(* Above every pruned height, the rows of an event and the rows of its     *)
(* block in _indexer_state are as many: after no sequence of blocks stored *)
(* once or again, rollbacks and prunes do the two drift apart.             *)
THEOREM StoreRowsPerState == DatabaseSpec => []RowsPerState
  <1>1. CountInv => RowsPerState
    BY DEF CountInv
  <1> QED BY <1>1, StoreCounts, PTL
=============================================================================
