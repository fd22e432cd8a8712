------------------------------ MODULE Queries ------------------------------
(***************************************************************************)
(* A client that reads an event table page by page (query_table in         *)
(* storage/src/db.rs, the query fields of server/src/graphql.rs) while the *)
(* pipeline stores blocks, rolls them back and prunes.  Every page is read *)
(* under its own acquisition of the database's mutex, so any number of     *)
(* writes falls between two pages.                                         *)
(*                                                                         *)
(* The pipeline's threads may store a block below one that is stored, or   *)
(* the same block twice (Indexer), so here blocks are stored in any order  *)
(* and rolled back from any height: a rollback may take the first rows of  *)
(* the table and leave later ones.                                         *)
(***************************************************************************)
EXTENDS Database, SequencesExt

CONSTANTS Table,    \* the table that is read
          Limit,    \* rows per page
          Amounts,  \* for each block, the amount in each event's payload, or NoText
          Wheres,   \* the where arguments that clients give
          MaxRows   \* bound: _ids given out in the table

NoText == <<>>

(* Texts by their characters; the digits are themselves.                   *)
ASSUME QueryAssumption ==
    /\ Table \in Tables /\ Limit \in Nat \ {0} /\ MaxRows \in Nat
    /\ \A b \in Blocks : Amounts[b] \in [Positions(b) -> Seq(Nat)]

VARIABLES client,     \* "idle", "paging" or "finished"
          query,      \* the order by _id and the where argument
          offset,     \* the offset of the next page
          got,        \* the rows received, in order
          lasting,    \* history: the rows that matched all the time so far
          rolledBack  \* history: was a block rolled back since the first page?

clientVars == <<client, query, offset, got, lasting, rolledBack>>
vars == <<dbVars, clientVars>>

Queried == [order : {"ASC", "DESC"}, where : Wheres]

-----------------------------------------------------------------------------
(* Filters.  SQLite's values: NULL, and below every text any integer.      *)

Null == [class |-> "null", number |-> 0, text |-> <<>>]
Integer(n) == [class |-> "integer", number |-> n, text |-> <<>>]
Text(t) == [class |-> "text", number |-> 0, text |-> t]

IsNumber(t) == t # <<>> /\ \A i \in DOMAIN t : t[i] \in 0..9

(* JSON has no number with leading zeros.                                  *)
IsJsonNumber(t) == IsNumber(t) /\ (t[1] # 0 \/ Len(t) = 1)

NumberIn(t) == FoldLeft(LAMBDA n, d : 10 * n + d, 0, t)

(* Byte by byte.                                                           *)
TextLess(s, t) ==
    \E i \in 1..Len(t) :
        /\ i - 1 <= Len(s)
        /\ SubSeq(s, 1, i - 1) = SubSeq(t, 1, i - 1)
        /\ i <= Len(s) => s[i] < t[i]

Less(v, w) ==
    \/ v.class = "integer" /\ w.class = "text"
    \/ v.class = "integer" /\ w.class = "integer" /\ v.number < w.number
    \/ v.class = "text" /\ w.class = "text" /\ TextLess(v.text, w.text)

(* parse_where: of "field:op:value" the value as JSON, as a text if it is  *)
(* none.  A part that does not have three pieces is passed over.           *)
ParseWhere(where) ==
    LET parts == SelectSeq(where, LAMBDA part : Len(part) = 3)
        value(piece) == IF ~ piece.quoted /\ IsJsonNumber(piece.text)
                        THEN Integer(NumberIn(piece.text)) ELSE Text(piece.text)
    IN  [i \in DOMAIN parts |->
            [field |-> parts[i][1], op |-> parts[i][2], value |-> value(parts[i][3])]]

SystemFields == {"_id", "_block_height"}

(* A system column, or json_extract of the payload.                        *)
Column(r, field) ==
    CASE field = "_id"           -> Integer(r.id)
      [] field = "_block_height" -> Integer(HeightOf[r.block])
      [] field = "amount"        -> IF Amounts[r.block][r.pos] = NoText THEN Null
                                    ELSE Text(Amounts[r.block][r.pos])
      [] OTHER                   -> Null

(* A text that looks like a number is one next to an INTEGER column.       *)
Operand(field, value) ==
    IF field \in SystemFields /\ value.class = "text" /\ IsNumber(value.text)
    THEN Integer(NumberIn(value.text)) ELSE value

(* Definitions named Mutant... are wrong versions of the one that follows. *)

(* "gte" => ">".                                                           *)
MutantHoldsStrict(op, v, w) ==
    CASE op = "neq" -> v # w
      [] op \in {"gt", "gte"} -> Less(w, v)
      [] op = "lt"  -> Less(v, w)
      [] op = "lte" -> ~ Less(w, v)
      [] OTHER      -> v = w

(* The operators but like; an unknown one is "=".                          *)
Holds(op, v, w) ==
    CASE op = "neq" -> v # w
      [] op = "gt"  -> Less(w, v)
      [] op = "gte" -> ~ Less(v, w)
      [] op = "lt"  -> Less(v, w)
      [] op = "lte" -> ~ Less(w, v)
      [] OTHER      -> v = w

(* NULL is in no relation.                                                 *)
Selects(filter, r) ==
    /\ Column(r, filter.field) # Null
    /\ Holds(filter.op, Column(r, filter.field), Operand(filter.field, filter.value))

(* "WHERE ... AND ...".                                                    *)
Matching(q) ==
    {r \in eventRows :
        r.table = Table /\ \A filter \in Range(ParseWhere(q.where)) : Selects(filter, r)}

(* "ORDER BY _id" with its direction: the row in each place is the one     *)
(* that as many rows are before.                                           *)
Ahead(q, r) ==
    {s \in Matching(q) : IF q.order = "ASC" THEN s.id < r.id ELSE s.id > r.id}

Place(q, r) == Cardinality(Ahead(q, r)) + 1

Ordered(q) ==
    [k \in 1 .. Cardinality(Matching(q)) |-> CHOOSE r \in Matching(q) : Place(q, r) = k]

(* OFFSET counted from one.                                                *)
MutantPageFromOne(q, o) ==
    LET rows == Ordered(q)
    IN  SubSeq(rows, o + 2, IF o + Limit < Len(rows) THEN o + Limit ELSE Len(rows))

(* orderDir is ignored.                                                    *)
MutantPageDescending(q, o) ==
    LET rows == Ordered([q EXCEPT !.order = "DESC"])
    IN  SubSeq(rows, o + 1, IF o + Limit < Len(rows) THEN o + Limit ELSE Len(rows))

(* LIMIT one too small.                                                    *)
MutantPageShort(q, o) ==
    LET rows == Ordered(q)
    IN  SubSeq(rows, o + 1,
               IF o + Limit < Len(rows) THEN o + Limit - 1 ELSE Len(rows) - 1)

(* query_table: LIMIT Limit OFFSET o.                                      *)
Page(q, o) ==
    LET rows == Ordered(q)
    IN  SubSeq(rows, o + 1, IF o + Limit < Len(rows) THEN o + Limit ELSE Len(rows))

Init ==
    /\ DatabaseInit
    /\ client = "idle"
    /\ query \in Queried
    /\ offset = 0
    /\ got = <<>>
    /\ lasting = {}
    /\ rolledBack = FALSE

-----------------------------------------------------------------------------
(* The client.                                                             *)

Receive(page) ==
    /\ got' = got \o page
    /\ offset' = offset + Limit
    /\ client' = IF Len(page) < Limit THEN "finished" ELSE "paging"

FirstPage ==
    /\ client = "idle"
    /\ Receive(Page(query, 0))
    /\ lasting' = Matching(query)
    /\ UNCHANGED <<dbVars, query, rolledBack>>

NextPage ==
    /\ client = "paging"
    /\ Receive(Page(query, offset))
    /\ UNCHANGED <<dbVars, query, lasting, rolledBack>>

-----------------------------------------------------------------------------
(* The pipeline.                                                           *)

Store(b) ==
    /\ lastRowId[Table] + Len(Matched[b]) <= MaxRows
    /\ ApplyBlock(b)
    /\ UNCHANGED clientVars

Rollback(h) ==
    /\ \E b \in Stored : HeightOf[b] >= h
    /\ RollbackFromHeight(h)
    /\ lasting' = lasting \cap eventRows'
    /\ rolledBack' = (rolledBack \/ client = "paging")
    /\ UNCHANGED <<client, query, offset, got>>

Prune(cutoff) ==
    /\ cutoff > prunedTo
    /\ DeleteJournalBelow(cutoff)
    /\ UNCHANGED clientVars

Next ==
    \/ FirstPage
    \/ NextPage
    \/ \E b \in Blocks : Store(b)
    \/ \E h \in Heights : Rollback(h)
    \/ \E c \in Cutoffs : Prune(c)

Spec == Init /\ [][Next]_vars

-----------------------------------------------------------------------------
(* Properties.                                                             *)

(* By ascending _id, no row comes twice and none out of order, whatever is *)
(* stored or rolled back between two pages, and in whatever order: _ids    *)
(* are not given out again, and a rollback only brings rows forward.       *)
AscendingInOrder ==
    query.order = "ASC" =>
        \A i, j \in DOMAIN got : i < j => got[i].id < got[j].id

(* By ascending _id, the client misses no more of the rows that were there *)
(* all the time than it received rows that a rollback has since taken:     *)
(* each of those moves the rows behind it one place forward, past the next *)
(* offset.  It misses none when all it received is still there.            *)
AscendingMissesAsTaken ==
    query.order = "ASC" /\ client = "finished" =>
        Cardinality(lasting \ ToSet(got)) <= Cardinality(ToSet(got) \ eventRows)

(* By descending _id, which is the default, no such row is missed unless a *)
(* block is rolled back between two pages (but rows may come twice).       *)
DescendingMissesNothing ==
    query.order = "DESC" /\ client = "finished" /\ ~ rolledBack
        => lasting \subseteq ToSet(got)

Complement ==
    [eq |-> "neq", neq |-> "eq", gt |-> "lte", lte |-> "gt", lt |-> "gte", gte |-> "lt"]

(* A client that asks with an operator and once more with its opposite has *)
(* every row that has the field, and none twice, whether the field is a    *)
(* number or a text and however the value is written.  For a system column *)
(* it is the number that counts, quoted or not.                            *)
FiltersSplit ==
    \A r \in eventRows, where \in Wheres :
        \A filter \in Range(ParseWhere(where)) :
            filter.op \in DOMAIN Complement /\ Column(r, filter.field) # Null =>
                /\ Selects(filter, r) <=> ~ Selects([filter EXCEPT !.op = Complement[@]], r)
                /\ filter.field \in SystemFields /\ IsNumber(filter.value.text) =>
                        Selects(filter, r)
                        <=> Selects([filter EXCEPT !.value = Integer(NumberIn(@.text))], r)
=============================================================================
