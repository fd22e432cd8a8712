--------------------------- MODULE QueriesProofs ---------------------------
(***************************************************************************)
(* What a client that reads a table page by page gets, for every tree of   *)
(* blocks, every page size and all filters, whatever is stored, rolled     *)
(* back and pruned between two pages, and in whatever order.               *)
(***************************************************************************)
EXTENDS Queries, DatabaseProofs, FunctionTheorems, SequenceTheorems

ClientType ==
    /\ client \in {"idle", "paging", "finished"}
    /\ query \in Queried
    /\ offset \in Nat
    /\ got \in Seq(Row)
    /\ lasting \subseteq Matching(query)
    /\ client = "idle" => offset = 0 /\ got = <<>> /\ lasting = {}
    /\ client = "paging" => Len(got) = offset
    /\ \A i \in DOMAIN got : /\ got[i].table = Table
                             /\ got[i] \in eventRows => got[i] \in Matching(query)

(* Rows that come later in ascending order have higher _ids than any that  *)
(* were received, those to be stored too.                                  *)
AheadOfGot ==
    /\ \A i \in DOMAIN got : got[i].id <= lastRowId[Table]
    /\ query.order = "ASC" =>
          \A r \in Matching(query) : Place(query, r) > offset =>
              \A i \in DOMAIN got : got[i].id < r.id

(* Unless a rollback moved them, the rows in the places before the offset  *)
(* that were there all the time have been received.                        *)
Received ==
    ~ rolledBack =>
        /\ client = "paging" =>
              \A r \in lasting : Place(query, r) <= offset => r \in ToSet(got)
        /\ client = "finished" => lasting \subseteq ToSet(got)

QueryInv ==
    /\ StoreInv
    /\ ClientType
    /\ AscendingInOrder
    /\ AheadOfGot
    /\ Received
    /\ AscendingMissesAsTaken

-----------------------------------------------------------------------------
(* The places of the rows: as many as rows, no two the same, none empty.   *)

LEMMA MatchingRows ==
    ASSUME StoreInv, NEW q
    PROVE  /\ Matching(q) \subseteq eventRows
           /\ \A r \in Matching(q) : r \in Row /\ r.table = Table /\ r.id \in Nat
           /\ \A r, s \in Matching(q) : r.id = s.id => r = s
           /\ lastRowId[Table] \in Nat
           /\ \A r \in Matching(q) : r.id \in 1 .. lastRowId[Table]
  <1>1. Matching(q) \subseteq eventRows /\ \A r \in Matching(q) : r.table = Table
    BY DEF Matching
  <1>2. /\ \A r \in Matching(q) : r \in Row /\ r.id \in Nat \ {0}
        /\ lastRowId[Table] \in Nat
    BY <1>1, QueryAssumption DEF StoreInv, DatabaseTypeOK, Row
  <1> QED BY <1>1, <1>2 DEF StoreInv, RowIdsUnique

LEMMA MatchingFinite ==
    ASSUME StoreInv, NEW q
    PROVE  IsFiniteSet(Matching(q)) /\ Cardinality(Matching(q)) \in Nat
  <1> DEFINE M == Matching(q)
             I == 1 .. lastRowId[Table]
             f == [r \in M |-> r.id]
  <1>1. f \in [M -> I] /\ \A r, s \in M : f[r] = f[s] => r = s
    BY MatchingRows
  <1>2. f \in Injection(M, I)
    BY <1>1, Fun_IsInj
  <1>3. IsFiniteSet(I)
    <2>1. lastRowId[Table] \in Int
      BY QueryAssumption DEF StoreInv, DatabaseTypeOK
    <2> QED BY <2>1, FS_Interval
  <1> HIDE DEF M, I, f
  <1>4. IsFiniteSet(M)
    BY <1>2, <1>3, FS_Injection
  <1> QED BY <1>4, FS_CardinalityType DEF M

LEMMA AheadFinite ==
    ASSUME StoreInv, NEW q, NEW r
    PROVE  /\ IsFiniteSet(Ahead(q, r)) /\ Cardinality(Ahead(q, r)) \in Nat
           /\ Place(q, r) \in Nat /\ Place(q, r) >= 1
  <1>1. Ahead(q, r) \subseteq Matching(q)
    BY DEF Ahead
  <1>2. IsFiniteSet(Matching(q)) /\ Ahead(q, r) \in SUBSET Matching(q)
    BY <1>1, MatchingFinite
  <1>3. IsFiniteSet(Ahead(q, r))
    BY <1>2, FS_Subset
  <1>4. Cardinality(Ahead(q, r)) \in Nat
    BY <1>3, FS_CardinalityType
  <1> QED BY <1>3, <1>4 DEF Place

(* A row is ahead of another just when its place is.                       *)
Before(q, r, s) == IF q.order = "ASC" THEN r.id < s.id ELSE r.id > s.id

LEMMA PlaceOrder ==
    ASSUME StoreInv, NEW q, NEW r \in Matching(q), NEW s \in Matching(q)
    PROVE  Place(q, r) < Place(q, s) <=> Before(q, r, s)
  <1>1. ASSUME NEW x \in Matching(q), NEW y \in Matching(q), Before(q, x, y)
        PROVE  Place(q, x) < Place(q, y)
    <2>1. Ahead(q, x) \subseteq Ahead(q, y) /\ x \in Ahead(q, y) /\ x \notin Ahead(q, x)
      BY <1>1, MatchingRows DEF Ahead, Before
    <2>2. Cardinality(Ahead(q, x)) <= Cardinality(Ahead(q, y))
          /\ Cardinality(Ahead(q, x)) # Cardinality(Ahead(q, y))
      BY <2>1, AheadFinite, FS_Subset
    <2> QED BY <2>2, AheadFinite DEF Place
  <1>2. r = s \/ Before(q, r, s) \/ Before(q, s, r)
    BY MatchingRows DEF Before
  <1>3. Place(q, r) \in Nat /\ Place(q, s) \in Nat
    BY AheadFinite
  <1>4. ~ (Before(q, r, s) /\ Before(q, s, r)) /\ ~ Before(q, r, r)
    BY MatchingRows DEF Before
  <1> QED BY <1>1, <1>2, <1>3, <1>4

LEMMA PlaceRange ==
    ASSUME StoreInv, NEW q, NEW r \in Matching(q)
    PROVE  Place(q, r) \in 1 .. Cardinality(Matching(q))
  <1>1. Ahead(q, r) \subseteq Matching(q) /\ r \notin Ahead(q, r)
    BY MatchingRows DEF Ahead
  <1>2. /\ Cardinality(Ahead(q, r)) <= Cardinality(Matching(q))
        /\ Cardinality(Ahead(q, r)) # Cardinality(Matching(q))
    BY <1>1, MatchingFinite, AheadFinite, FS_Subset
  <1> QED BY <1>2, MatchingFinite, AheadFinite DEF Place

LEMMA PlaceTaken ==
    ASSUME StoreInv, NEW q, NEW k \in 1 .. Cardinality(Matching(q))
    PROVE  \E r \in Matching(q) : Place(q, r) = k
  <1> DEFINE M == Matching(q)
             I == 1 .. Cardinality(M)
             f == [r \in M |-> Place(q, r)]
  <1>1. f \in [M -> I]
    BY PlaceRange
  <1>2. ASSUME NEW r \in M, NEW s \in M, f[r] = f[s]
        PROVE  r = s
    <2>1. ~ (Place(q, r) < Place(q, s)) /\ ~ (Place(q, s) < Place(q, r))
      BY <1>2, AheadFinite
    <2>2. ~ Before(q, r, s) /\ ~ Before(q, s, r)
      BY <2>1, PlaceOrder
    <2> QED BY <2>2, MatchingRows DEF Before
  <1>3. f \in Injection(M, I)
    BY <1>1, <1>2, Fun_IsInj
  <1>4. IsFiniteSet(I) /\ Cardinality(I) = Cardinality(M)
    BY MatchingFinite, FS_Interval
  <1>5. f \in Surjection(M, I)
    <2> HIDE DEF M, I, f
    <2> QED BY <1>3, <1>4, FS_Injection
  <1>6. k \in I
    OBVIOUS
  <1>7. \E r \in M : f[r] = k
    <2> HIDE DEF M, I, f
    <2> QED BY <1>5, <1>6, Fun_SurjectionProperties
  <1> QED BY <1>7

(* A page: the rows in the places after the offset, in their order.        *)
LEMMA PageRows ==
    ASSUME StoreInv, NEW q, NEW o \in Nat
    PROVE  /\ Page(q, o) \in Seq(Row)
           /\ Len(Page(q, o)) \in Nat /\ Len(Page(q, o)) <= Limit
           /\ \A i \in 1 .. Len(Page(q, o)) :
                 Page(q, o)[i] \in Matching(q) /\ Place(q, Page(q, o)[i]) = o + i
           /\ \A r \in Matching(q) :
                 o < Place(q, r) /\ Place(q, r) <= o + Limit => r \in ToSet(Page(q, o))
           /\ Len(Page(q, o)) < Limit => \A r \in Matching(q) : Place(q, r) <= o + Limit
  <1> DEFINE n == Cardinality(Matching(q))
             rows == Ordered(q)
             e == IF o + Limit < n THEN o + Limit ELSE n
             p == Page(q, o)
  <1>1. n \in Nat /\ Limit \in Nat /\ e \in Nat
    BY MatchingFinite, QueryAssumption
  <1>2. \A k \in 1 .. n : rows[k] \in Matching(q) /\ Place(q, rows[k]) = k
    BY PlaceTaken DEF Ordered
  <1>3. Len(rows) = n
    BY <1>1 DEF Ordered
  <1>4. p = SubSeq(rows, o + 1, e)
    BY <1>3 DEF Page
  <1>5. \A i \in o + 1 .. e : i \in 1 .. n /\ rows[i] \in Row
    BY <1>1, <1>2, MatchingRows
  <1>6. /\ p \in Seq(Row)
        /\ Len(p) = IF o + 1 <= e THEN e - (o + 1) + 1 ELSE 0
        /\ \A i \in 1 .. e - (o + 1) + 1 : p[i] = rows[(o + 1) + i - 1]
    <2> HIDE DEF rows, e, p
    <2> QED BY <1>1, <1>4, <1>5, SubSeqProperties
  <1> HIDE DEF n, rows, e, p
  <1>7. Len(p) \in Nat /\ Len(p) <= Limit /\ Len(p) = IF o < e THEN e - o ELSE 0
    BY <1>1, <1>6 DEF e
  <1>8. ASSUME NEW i \in 1 .. Len(p)
        PROVE  p[i] \in Matching(q) /\ Place(q, p[i]) = o + i
    <2>1. i \in 1 .. e - (o + 1) + 1 /\ (o + 1) + i - 1 = o + i /\ o + i \in 1 .. n
      BY <1>1, <1>7 DEF e
    <2> QED BY <1>2, <1>6, <2>1
  <1>9. ASSUME NEW r \in Matching(q), o < Place(q, r), Place(q, r) <= o + Limit
        PROVE  r \in ToSet(p)
    <2> DEFINE k == Place(q, r) - o
    <2>1. Place(q, r) \in 1 .. n
      BY PlaceRange DEF n
    <2>2. k \in 1 .. Len(p)
      BY <1>1, <1>7, <1>9, <2>1 DEF e
    <2>3. p[k] \in Matching(q) /\ Place(q, p[k]) = Place(q, r)
      BY <1>8, <2>1, <2>2
    <2>4. p[k] = r
      BY <2>1, <2>3, PlaceOrder, MatchingRows DEF Before
    <2>5. k \in DOMAIN p
      BY <1>6, <2>2
    <2> QED BY <2>4, <2>5 DEF ToSet
  <1>10. ASSUME Len(p) < Limit, NEW r \in Matching(q)
         PROVE  Place(q, r) <= o + Limit
    <2>1. Place(q, r) \in 1 .. n
      BY PlaceRange DEF n
    <2> QED BY <1>1, <1>7, <1>10, <2>1 DEF e
  <1> QED BY <1>6, <1>7, <1>8, <1>9, <1>10 DEF p

-----------------------------------------------------------------------------
(* What the pipeline's steps do to the rows that match and their places.   *)

LEMMA AheadFiniteNext == (StoreInv => \A q, r : IsFiniteSet(Ahead(q, r)))'
  <1>1. StoreInv => \A q, r : IsFiniteSet(Ahead(q, r))
    BY AheadFinite
  <1> QED BY <1>1, PTL

LEMMA PipelineNext ==
    ASSUME QueryInv,
           \/ \E b \in Blocks : Store(b)
           \/ \E h \in Heights : Rollback(h)
           \/ \E c \in Cutoffs : Prune(c)
    PROVE  StoreInv'
  <1>1. [DatabaseNext]_dbVars
    BY DEF Store, Rollback, Prune, DatabaseNext
  <1> QED BY <1>1, StoreNextInv DEF QueryInv

(* Rows are added with higher _ids than any before.                        *)
LEMMA StoreRows ==
    ASSUME QueryInv, NEW b \in Blocks, Store(b)
    PROVE  /\ eventRows \subseteq eventRows'
           /\ \A r \in eventRows' \ eventRows :
                 r.table \in Tables /\ r.id \in Nat /\ r.id > lastRowId[r.table]
           /\ lastRowId'[Table] >= lastRowId[Table]
           /\ lastRowId[Table] \in Nat /\ lastRowId'[Table] \in Nat
  <1>1. DatabaseTypeOK /\ DatabaseTypeOK'
    BY PipelineNext DEF QueryInv, StoreInv
  <1>2. eventRows' = eventRows \cup NewRows(b)
    BY DEF Store, ApplyBlock
  <1>3. ASSUME NEW r \in NewRows(b)
        PROVE  r.table \in Tables /\ r.id \in Nat /\ r.id > lastRowId[r.table]
    <2>1. PICK i \in Positions(b) : r = RowFor(b, i)
      BY DEF NewRows
    <2>2. RowFor(b, i) \in Row /\ RowFor(b, i).id > lastRowId[RowFor(b, i).table]
      BY <1>1, NewRow
    <2> QED BY <2>1, <2>2 DEF Row
  <1>4. lastRowId[Table] \in Nat /\ lastRowId'[Table] \in Nat
    BY <1>1, QueryAssumption DEF DatabaseTypeOK
  <1>5. lastRowId'[Table] >= lastRowId[Table]
    <2> DEFINE I == {i \in Positions(b) : Matched[b][i] = Table}
    <2>1. lastRowId'[Table] = lastRowId[Table] + Cardinality(I)
      BY QueryAssumption DEF Store, ApplyBlock
    <2>2. Cardinality(I) \in Nat
      BY IntoFinite DEF Into
    <2> QED BY <1>4, <2>1, <2>2
  <1> QED BY <1>2, <1>3, <1>4, <1>5

(* So in ascending order the rows there keep their places, in descending   *)
(* order they get later ones.                                              *)
LEMMA StorePlaces ==
    ASSUME QueryInv, NEW b \in Blocks, Store(b)
    PROVE  /\ query' = query
           /\ Matching(query) \subseteq Matching(query)'
           /\ \A r \in Matching(query)' \ Matching(query) : r.id > lastRowId[Table]
           /\ \A r \in Matching(query) :
                 /\ Place(query, r) <= Place(query, r)'
                 /\ query.order = "ASC" => Place(query, r) = Place(query, r)'
                 /\ Place(query, r) \in Nat /\ Place(query, r)' \in Nat
  <1>1. query' = query
    BY DEF Store, clientVars
  <1>2. /\ Matching(query) \subseteq Matching(query)'
        /\ \A r \in Matching(query)' \ Matching(query) :
              r \in eventRows' \ eventRows /\ r.table = Table
    BY <1>1, StoreRows DEF Matching
  <1>3. \A r \in Matching(query)' \ Matching(query) : r.id > lastRowId[Table]
    BY <1>2, StoreRows
  <1>4. ASSUME NEW r \in Matching(query)
        PROVE  /\ Place(query, r) <= Place(query, r)'
               /\ query.order = "ASC" => Place(query, r) = Place(query, r)'
               /\ Place(query, r) \in Nat /\ Place(query, r)' \in Nat
    <2>1. Ahead(query, r) \subseteq Ahead(query, r)'
      BY <1>1, <1>2 DEF Ahead
    <2>2. IsFiniteSet(Ahead(query, r)')
      BY PipelineNext, AheadFiniteNext
    <2>3. /\ Cardinality(Ahead(query, r)) <= Cardinality(Ahead(query, r)')
          /\ Cardinality(Ahead(query, r)') \in Nat /\ Cardinality(Ahead(query, r)) \in Nat
      BY <2>1, <2>2, AheadFinite, FS_Subset, FS_CardinalityType DEF QueryInv
    <2>4. ASSUME query.order = "ASC"
          PROVE  Ahead(query, r)' = Ahead(query, r)
      <3>1. r.id <= lastRowId[Table] /\ r.id \in Nat /\ lastRowId[Table] \in Nat
        BY MatchingRows DEF QueryInv
      <3>2. ASSUME NEW s \in Ahead(query, r)' PROVE s \in Matching(query)
        <4>1. s \in Matching(query)' /\ s.id < r.id
          BY <1>1, <2>4 DEF Ahead
        <4>2. CASE s \notin Matching(query)
          <5>1. s.id > lastRowId[Table] /\ s.id \in Nat
            BY <1>2, <1>3, <4>1, <4>2, StoreRows
          <5> QED BY <3>1, <4>1, <5>1
        <4> QED BY <4>2
      <3> QED BY <1>1, <2>1, <3>2 DEF Ahead
    <2> QED BY <2>3, <2>4 DEF Place
  <1> QED BY <1>1, <1>2, <1>3, <1>4

(* A rollback takes rows from wherever they are, and so brings none of the *)
(* others back.                                                            *)
LEMMA RollbackPlaces ==
    ASSUME QueryInv, NEW h \in Heights, Rollback(h)
    PROVE  /\ query' = query
           /\ eventRows' \subseteq eventRows
           /\ Matching(query)' = Matching(query) \cap eventRows'
           /\ \A r \in Matching(query)' :
                 /\ Place(query, r)' <= Place(query, r)
                 /\ Place(query, r) \in Nat /\ Place(query, r)' \in Nat
  <1>1. query' = query /\ StoreInv
    BY DEF Rollback, QueryInv
  <1>2. eventRows' \subseteq eventRows
    BY DEF Rollback, RollbackFromHeight
  <1>3. Matching(query)' = Matching(query) \cap eventRows'
    BY <1>1, <1>2 DEF Matching
  <1>4. ASSUME NEW r \in Matching(query)'
        PROVE  /\ Place(query, r)' <= Place(query, r)
               /\ Place(query, r) \in Nat /\ Place(query, r)' \in Nat
    <2>1. Ahead(query, r)' \subseteq Ahead(query, r)
      BY <1>1, <1>3 DEF Ahead
    <2>2. IsFiniteSet(Ahead(query, r)) /\ Cardinality(Ahead(query, r)) \in Nat
      BY <1>1, AheadFinite
    <2>3. /\ IsFiniteSet(Ahead(query, r)')
          /\ Cardinality(Ahead(query, r)') <= Cardinality(Ahead(query, r))
      BY <2>1, <2>2, FS_Subset
    <2>4. Cardinality(Ahead(query, r)') \in Nat
      BY <2>3, FS_CardinalityType
    <2> QED BY <2>2, <2>3, <2>4 DEF Place
  <1> QED BY <1>1, <1>2, <1>3, <1>4

(* As many rows as places in the sequence, when none comes twice.          *)
LEMMA ReceivedFinite ==
    ASSUME got \in Seq(Row)
    PROVE  /\ IsFiniteSet(ToSet(got))
           /\ (\A i, j \in DOMAIN got : got[i] = got[j] => i = j)
                 => Cardinality(ToSet(got)) = Len(got)
  <1> DEFINE I == 1 .. Len(got)
             G == ToSet(got)
  <1>1. DOMAIN got = I /\ Len(got) \in Nat
    OBVIOUS
  <1>2. got \in [I -> G] /\ \A g \in G : \E i \in I : got[i] = g
    <2>1. got \in [I -> Row]
      OBVIOUS
    <2>2. G = {got[i] : i \in I}
      BY <1>1 DEF ToSet
    <2> HIDE DEF I, G
    <2> QED BY <2>1, <2>2
  <1>3. IsFiniteSet(I) /\ Cardinality(I) = Len(got)
    BY <1>1, FS_Interval
  <1> HIDE DEF I, G
  <1>4. got \in Surjection(I, G)
    BY <1>2, Fun_IsSurj
  <1>5. IsFiniteSet(G) /\ (Cardinality(G) = Cardinality(I) <=> got \in Injection(I, G))
    BY <1>3, <1>4, FS_Surjection
  <1>6. ASSUME \A i, j \in I : got[i] = got[j] => i = j
        PROVE  got \in Injection(I, G)
    BY <1>2, <1>6, Fun_IsInj
  <1> QED BY <1>1, <1>3, <1>5, <1>6 DEF G

(* In ascending order: of the rows in the places before the offset, no     *)
(* more have not been received than received rows are gone.                *)
LEMMA MissedBeforeOffset ==
    ASSUME QueryInv, query.order = "ASC", client = "idle" \/ client = "paging",
           NEW X, X \subseteq {r \in Matching(query) : Place(query, r) <= offset} \ ToSet(got)
    PROVE  /\ IsFiniteSet(ToSet(got)) /\ IsFiniteSet(X)
           /\ Cardinality(X) <= Cardinality(ToSet(got) \ eventRows)
  <1> DEFINE M == Matching(query)
             P == {r \in M : Place(query, r) <= offset}
             G == ToSet(got)
             I == 1 .. offset
  <1>1. /\ StoreInv /\ ClientType /\ AscendingInOrder /\ AheadOfGot
        /\ got \in Seq(Row) /\ offset \in Nat /\ Len(got) = offset
    BY DEF QueryInv, ClientType
  <1>2. DOMAIN got = I
    BY <1>1
  <1>3. IsFiniteSet(I) /\ Cardinality(I) = offset
    BY <1>1, FS_Interval
  <1>4. IsFiniteSet(G) /\ Cardinality(G) = offset
    <2>1. ASSUME NEW i \in I, NEW j \in I, got[i] = got[j] PROVE i = j
      <3>1. got[i].id \in Nat /\ got[j].id \in Nat
        <4>1. got[i] \in Row /\ got[j] \in Row
          BY <1>1, <1>2
        <4> QED BY <4>1 DEF Row
      <3>2. ~ (i < j) /\ ~ (j < i)
        BY <1>1, <1>2, <2>1, <3>1 DEF AscendingInOrder
      <3> QED BY <1>1, <3>2
    <2> QED BY <1>1, <1>2, <2>1, ReceivedFinite
  <1>5. IsFiniteSet(P) /\ Cardinality(P) <= offset
    <2> DEFINE f == [r \in P |-> Place(query, r)]
    <2>1. f \in [P -> I]
      BY <1>1, AheadFinite
    <2>2. ASSUME NEW r \in P, NEW s \in P, f[r] = f[s] PROVE r = s
      <3>1. ~ (Place(query, r) < Place(query, s)) /\ ~ (Place(query, s) < Place(query, r))
        BY <1>1, <2>2, AheadFinite
      <3>2. ~ Before(query, r, s) /\ ~ Before(query, s, r)
        BY <1>1, <3>1, PlaceOrder
      <3> QED BY <1>1, <3>2, MatchingRows DEF Before
    <2> HIDE DEF P, I, f
    <2>3. f \in Injection(P, I)
      BY <2>1, <2>2, Fun_IsInj
    <2> QED BY <1>3, <2>3, FS_Injection
  <1>6. G \cap eventRows \subseteq P
    <2> SUFFICES ASSUME NEW i \in I, got[i] \in eventRows PROVE got[i] \in P
      BY <1>2 DEF ToSet
    <2>1. got[i] \in M /\ got[i].id \in Nat /\ Place(query, got[i]) \in Nat
      BY <1>1, <1>2, MatchingRows, AheadFinite DEF ClientType
    <2>2. ~ (Place(query, got[i]) > offset)
      BY <1>1, <1>2, <2>1 DEF AheadOfGot
    <2> QED BY <1>1, <2>1, <2>2
  <1>7. P \subseteq eventRows /\ X \subseteq P \ G
    BY DEF Matching
  <1> HIDE DEF M, P, G, I
  <1>8. P \cap G = G \cap eventRows
    BY <1>6, <1>7
  <1>9. /\ Cardinality(P \ G) = Cardinality(P) - Cardinality(P \cap G)
        /\ IsFiniteSet(P \ G) /\ IsFiniteSet(P \cap G)
    BY <1>5, FS_Difference, FS_Intersection
  <1>10. Cardinality(G \ eventRows) = Cardinality(G) - Cardinality(G \cap eventRows)
    BY <1>4, FS_Difference
  <1>11. IsFiniteSet(X) /\ Cardinality(X) <= Cardinality(P \ G)
    BY <1>7, <1>9, FS_Subset
  <1>12. /\ Cardinality(P) \in Nat /\ Cardinality(P \cap G) \in Nat
         /\ Cardinality(X) \in Nat /\ Cardinality(P \ G) \in Nat
    BY <1>5, <1>9, <1>11, FS_CardinalityType
  <1>13. Cardinality(X) <= Cardinality(G \ eventRows)
    <2>1. /\ Cardinality(G) = offset /\ Cardinality(P) <= offset
          /\ Cardinality(P \ G) = Cardinality(P) - Cardinality(P \cap G)
          /\ Cardinality(G \ eventRows) = Cardinality(G) - Cardinality(P \cap G)
          /\ Cardinality(X) <= Cardinality(P \ G)
      BY <1>4, <1>5, <1>8, <1>9, <1>10, <1>11
    <2> QED BY <1>1, <1>12, <2>1
  <1> QED BY <1>4, <1>11, <1>13 DEF G

-----------------------------------------------------------------------------
(* Each step keeps the invariant.                                          *)

LEMMA ReceiveNext ==
    ASSUME QueryInv, FirstPage \/ NextPage
    PROVE  QueryInv'
  <1> DEFINE M == Matching(query)
             page == Page(query, offset)
  <1>1. /\ StoreInv /\ ClientType
        /\ AscendingInOrder /\ AheadOfGot /\ Received /\ offset \in Nat
    BY DEF QueryInv, ClientType
  <1>2. UNCHANGED <<dbVars, query, rolledBack>>
    BY DEF FirstPage, NextPage
  <1>3. StoreInv'
    <2>1. [DatabaseNext]_dbVars
      BY <1>2
    <2> QED BY <1>1, <2>1, StoreNextInv
  <1>4. Matching(query)' = M /\ \A r : Place(query, r)' = Place(query, r)
    <2>1. Matching(query)' = M
      BY <1>2 DEF Matching, dbVars
    <2> QED BY <1>2, <2>1 DEF Place, Ahead
  <1>5. got' = got \o page /\ offset' = offset + Limit
        /\ client' = (IF Len(page) < Limit THEN "finished" ELSE "paging")
    BY <1>1 DEF FirstPage, NextPage, Receive, ClientType
  <1>6. /\ page \in Seq(Row) /\ Len(page) \in Nat /\ Len(page) <= Limit
        /\ \A i \in 1 .. Len(page) : page[i] \in M /\ Place(query, page[i]) = offset + i
        /\ \A r \in M : offset < Place(query, r) /\ Place(query, r) <= offset + Limit
                           => r \in ToSet(page)
        /\ Len(page) < Limit => \A r \in M : Place(query, r) <= offset + Limit
    BY <1>1, PageRows
  <1>7. got \in Seq(Row) /\ Limit \in Nat
    BY <1>1, QueryAssumption DEF ClientType
  <1> HIDE DEF page
  <1>8. /\ got' \in Seq(Row) /\ Len(got) \in Nat /\ Len(got') = Len(got) + Len(page)
        /\ \A i \in 1 .. Len(got) : got'[i] = got[i]
        /\ \A i \in 1 .. Len(page) : got'[Len(got) + i] = page[i]
        /\ \A i \in DOMAIN got' : \/ i \in DOMAIN got
                                  \/ i - Len(got) \in 1 .. Len(page)
        /\ DOMAIN got = 1 .. Len(got) /\ DOMAIN page = 1 .. Len(page)
        /\ DOMAIN got' = 1 .. Len(got')
    BY <1>5, <1>6, <1>7
  <1>9. ToSet(got') = ToSet(got) \cup ToSet(page)
    <2>1. \A i \in 1 .. Len(got) : got[i] \in ToSet(got')
      BY <1>8 DEF ToSet
    <2>2. \A i \in 1 .. Len(page) : page[i] \in ToSet(got')
      <3>1. TAKE i \in 1 .. Len(page)
      <3>2. Len(got) + i \in DOMAIN got' /\ got'[Len(got) + i] = page[i]
        BY <1>6, <1>8
      <3> QED BY <3>2 DEF ToSet
    <2>3. \A i \in DOMAIN got' : got'[i] \in ToSet(got) \cup ToSet(page)
      <3>1. TAKE i \in DOMAIN got'
      <3>2. CASE i \in DOMAIN got
        BY <1>8, <3>2 DEF ToSet
      <3>3. CASE i - Len(got) \in 1 .. Len(page)
        <4>1. got'[i] = page[i - Len(got)]
          BY <1>8, <3>3
        <4> QED BY <1>8, <3>3, <4>1 DEF ToSet
      <3> QED BY <1>8, <3>2, <3>3
    <2> QED BY <1>8, <2>1, <2>2, <2>3 DEF ToSet
  <1>10. /\ lasting' \subseteq M
         /\ \/ client = "paging" /\ lasting' = lasting
            \/ client = "idle" /\ offset = 0
    BY <1>1 DEF FirstPage, NextPage, ClientType
  <1>11. ClientType'
    <2>1. ASSUME client' = "paging" PROVE Len(got') = offset'
      <3>1. Len(got) = offset
        BY <1>1, <1>10 DEF ClientType
      <3> QED BY <1>5, <1>6, <1>7, <1>8, <2>1, <3>1
    <2>2. ASSUME NEW i \in DOMAIN got'
          PROVE  got'[i].table = Table /\ (got'[i] \in eventRows => got'[i] \in M)
      <3>1. CASE i \in DOMAIN got
        BY <1>1, <1>8, <2>2, <3>1 DEF ClientType
      <3>2. CASE i - Len(got) \in 1 .. Len(page)
        <4>1. got'[i] = page[i - Len(got)]
          BY <1>8, <3>2
        <4>2. page[i - Len(got)] \in M
          BY <1>6, <3>2
        <4> QED BY <1>1, <4>1, <4>2, MatchingRows
      <3> QED BY <1>8, <3>1, <3>2
    <2>3. /\ client' \in {"paging", "finished"} /\ offset' \in Nat
          /\ query' = query /\ query \in Queried /\ eventRows' = eventRows
      BY <1>1, <1>2, <1>5, <1>7 DEF ClientType, dbVars
    <2> QED BY <1>4, <1>8, <1>10, <2>1, <2>2, <2>3 DEF ClientType
  <1>12. ASSUME NEW i \in 1 .. Len(page)
         PROVE  /\ page[i].id \in Nat /\ page[i].id <= lastRowId[Table]
                /\ query.order = "ASC" =>
                      \A r \in M : Place(query, r) > offset + i => page[i].id < r.id
                /\ query.order = "ASC" => \A j \in DOMAIN got : got[j].id < page[i].id
    <2>1. page[i] \in M /\ Place(query, page[i]) = offset + i
      BY <1>6
    <2>2. page[i].id \in Nat /\ page[i].id <= lastRowId[Table]
      BY <1>1, <2>1, MatchingRows
    <2>3. ASSUME query.order = "ASC", NEW r \in M, Place(query, r) > offset + i
          PROVE  page[i].id < r.id
      <3>1. Place(query, page[i]) < Place(query, r)
        BY <1>1, <2>1, <2>3, AheadFinite
      <3> QED BY <1>1, <2>1, <2>3, <3>1, PlaceOrder DEF Before
    <2>4. query.order = "ASC" => \A j \in DOMAIN got : got[j].id < page[i].id
      BY <1>1, <2>1 DEF AheadOfGot
    <2> QED BY <2>2, <2>3, <2>4
  <1>13. AscendingInOrder'
    <2> SUFFICES ASSUME query.order = "ASC", NEW i \in DOMAIN got', NEW j \in DOMAIN got', i < j
                 PROVE  got'[i].id < got'[j].id
      BY <1>2 DEF AscendingInOrder
    <2>1. CASE i \in DOMAIN got /\ j \in DOMAIN got
      BY <1>1, <1>8, <2>1 DEF AscendingInOrder
    <2>2. CASE i \in DOMAIN got /\ j - Len(got) \in 1 .. Len(page)
      <3>1. got'[i] = got[i] /\ got'[j] = page[j - Len(got)]
        BY <1>8, <2>2
      <3> QED BY <1>12, <2>2, <3>1
    <2>3. CASE i - Len(got) \in 1 .. Len(page) /\ j - Len(got) \in 1 .. Len(page)
      <3> DEFINE k == i - Len(got)
                 l == j - Len(got)
      <3>1. got'[i] = page[k] /\ got'[j] = page[l] /\ k < l
        BY <1>8, <2>3
      <3>2. page[l] \in M /\ Place(query, page[l]) = offset + l /\ offset + l > offset + k
        BY <1>1, <1>6, <2>3, <3>1
      <3> QED BY <1>12, <2>3, <3>1, <3>2
    <2>4. ~ (i - Len(got) \in 1 .. Len(page) /\ j \in DOMAIN got)
      BY <1>8
    <2> QED BY <1>8, <2>1, <2>2, <2>3, <2>4
  <1>14. AheadOfGot'
    <2>1. ASSUME NEW i \in DOMAIN got'
          PROVE  /\ got'[i].id <= lastRowId[Table]
                 /\ query.order = "ASC" =>
                       \A r \in M : Place(query, r) > offset + Limit => got'[i].id < r.id
      <3>1. \A r \in M : Place(query, r) \in Nat
        BY <1>1, AheadFinite
      <3>2. CASE i \in DOMAIN got
        BY <1>1, <1>7, <1>8, <3>1, <3>2 DEF AheadOfGot
      <3>3. CASE i - Len(got) \in 1 .. Len(page)
        <4> DEFINE k == i - Len(got)
        <4>1. got'[i] = page[k] /\ k \in 1 .. Len(page)
          BY <1>8, <3>3
        <4>2. ASSUME NEW r \in M, Place(query, r) > offset + Limit
              PROVE  Place(query, r) > offset + k
          <5>1. k <= Limit
            BY <1>6, <1>7, <4>1
          <5> QED BY <1>1, <1>7, <3>1, <4>1, <4>2, <5>1
        <4> QED BY <1>12, <4>1, <4>2
      <3> QED BY <1>8, <3>2, <3>3
    <2> QED BY <1>2, <1>4, <1>5, <2>1 DEF AheadOfGot, dbVars
  <1>15. Received'
    <2> SUFFICES ASSUME ~ rolledBack
                 PROVE  /\ client' = "paging" =>
                              \A r \in lasting' : Place(query, r) <= offset + Limit => r \in ToSet(got')
                        /\ client' = "finished" => lasting' \subseteq ToSet(got')
      BY <1>2, <1>4, <1>5 DEF Received
    <2>1. ASSUME NEW r \in lasting', Place(query, r) <= offset + Limit
          PROVE  r \in ToSet(got')
      <3>1. r \in M /\ Place(query, r) \in Nat /\ Place(query, r) >= 1
        BY <1>1, <1>10, AheadFinite
      <3>2. CASE Place(query, r) <= offset
        <4>1. client = "paging" /\ r \in lasting
          BY <1>10, <3>1, <3>2
        <4> QED BY <1>1, <1>9, <3>2, <4>1 DEF Received
      <3>3. CASE ~ (Place(query, r) <= offset)
        BY <1>1, <1>6, <1>9, <2>1, <3>1, <3>3
      <3> QED BY <3>2, <3>3
    <2>2. client' = "finished" => \A r \in lasting' : Place(query, r) <= offset + Limit
      BY <1>5, <1>6, <1>10
    <2> QED BY <2>1, <2>2
  <1>16. AscendingMissesAsTaken'
    <2> SUFFICES ASSUME query.order = "ASC", client' = "finished"
                 PROVE  Cardinality(lasting' \ ToSet(got')) <= Cardinality(ToSet(got') \ eventRows)
      BY <1>2 DEF AscendingMissesAsTaken, dbVars
    <2> DEFINE X == lasting' \ ToSet(got')
    <2>1. X \subseteq {r \in M : Place(query, r) <= offset} \ ToSet(got)
      <3> SUFFICES ASSUME NEW r \in X
                   PROVE  r \in M /\ Place(query, r) <= offset /\ r \notin ToSet(got)
        OBVIOUS
      <3>1. r \in M /\ Place(query, r) \in Nat /\ Place(query, r) <= offset + Limit
        BY <1>1, <1>5, <1>6, <1>10, AheadFinite
      <3>2. r \notin ToSet(got) /\ r \notin ToSet(page)
        BY <1>9
      <3> QED BY <1>1, <1>6, <3>1, <3>2
    <2>2. client = "idle" \/ client = "paging"
      BY <1>10
    <2>3. IsFiniteSet(ToSet(got)) /\ Cardinality(X) <= Cardinality(ToSet(got) \ eventRows)
      <3> HIDE DEF X
      <3> QED BY <2>1, <2>2, MissedBeforeOffset
    <2>4. ToSet(got) \ eventRows = ToSet(got') \ eventRows
      <3>1. \A g \in ToSet(page) : g \in eventRows
        BY <1>6, <1>8 DEF ToSet, Matching
      <3> QED BY <1>9, <3>1
    <2> QED BY <2>3, <2>4
  <1> QED BY <1>3, <1>11, <1>13, <1>14, <1>15, <1>16 DEF QueryInv

LEMMA StoreKeeps ==
    ASSUME QueryInv, NEW b \in Blocks, Store(b)
    PROVE  QueryInv'
  <1>1. /\ ClientType /\ AscendingInOrder /\ AheadOfGot /\ Received
        /\ AscendingMissesAsTaken
        /\ UNCHANGED <<client, query, offset, got, lasting, rolledBack>>
    BY DEF QueryInv, Store, clientVars
  <1>2. StoreInv'
    BY PipelineNext
  <1>4. got \in Seq(Row) /\ \A i \in DOMAIN got : got[i].id \in Nat
    <2>1. got \in Seq(Row)
      BY <1>1 DEF ClientType
    <2>2. \A i \in DOMAIN got : got[i] \in Row
      BY <2>1
    <2> QED BY <2>1, <2>2 DEF Row
  <1>7. \A i \in DOMAIN got : got[i].table = Table
    BY <1>1 DEF ClientType
  <1>8. ASSUME NEW i \in DOMAIN got, got[i] \in eventRows' PROVE got[i] \in eventRows
    <2>1. got[i].id <= lastRowId[Table] /\ lastRowId[Table] \in Nat
      BY <1>1, StoreRows DEF AheadOfGot
    <2> QED BY <1>4, <1>7, <1>8, <2>1, StoreRows
  <1>3. ClientType' /\ AscendingInOrder'
    BY <1>1, <1>8, StorePlaces DEF ClientType, AscendingInOrder
  <1>9. AscendingMissesAsTaken'
    <2>1. ToSet(got) \ eventRows' = ToSet(got) \ eventRows
      BY <1>8, StoreRows DEF ToSet
    <2> QED BY <1>1, <2>1 DEF AscendingMissesAsTaken
  <1>5. AheadOfGot'
    <2>1. \A i \in DOMAIN got : got[i].id <= lastRowId'[Table]
      BY <1>1, <1>4, StoreRows DEF AheadOfGot
    <2>2. ASSUME query.order = "ASC", NEW r \in Matching(query)', Place(query, r)' > offset,
                 NEW i \in DOMAIN got
          PROVE  got[i].id < r.id
      <3>1. CASE r \in Matching(query)
        BY <1>1, <2>2, <3>1, StorePlaces DEF AheadOfGot
      <3>2. CASE r \notin Matching(query)
        <4>1. r.id > lastRowId[Table] /\ r.id \in Nat
          <5>1. r \in eventRows' /\ r.id > lastRowId[Table]
            BY <3>2, StorePlaces DEF Matching
          <5>2. eventRows' \subseteq Row
            BY <1>2 DEF StoreInv, DatabaseTypeOK
          <5> QED BY <5>1, <5>2 DEF Row
        <4>2. got[i].id <= lastRowId[Table] /\ lastRowId[Table] \in Nat
          BY <1>1, StoreRows DEF AheadOfGot
        <4> QED BY <1>4, <4>1, <4>2
      <3> QED BY <3>1, <3>2
    <2> QED BY <1>1, <2>1, <2>2 DEF AheadOfGot
  <1>6. Received'
    <2>1. ASSUME client = "paging", ~ rolledBack,
                 NEW r \in lasting, Place(query, r)' <= offset
          PROVE  r \in ToSet(got)
      <3>1. r \in Matching(query) /\ offset \in Nat
        BY <1>1 DEF ClientType
      <3>2. Place(query, r) <= offset
        BY <2>1, <3>1, StorePlaces
      <3> QED BY <1>1, <2>1, <3>2 DEF Received
    <2> QED BY <1>1, <2>1 DEF Received
  <1> QED BY <1>2, <1>3, <1>5, <1>6, <1>9 DEF QueryInv

LEMMA RollbackKeeps ==
    ASSUME QueryInv, NEW h \in Heights, Rollback(h)
    PROVE  QueryInv'
  <1>1. /\ ClientType /\ AscendingInOrder /\ AheadOfGot /\ Received
        /\ AscendingMissesAsTaken
        /\ UNCHANGED <<client, query, offset, got, lastRowId>>
        /\ lasting' = lasting \cap eventRows'
        /\ rolledBack' = (rolledBack \/ client = "paging")
    BY DEF QueryInv, Rollback, RollbackFromHeight
  <1>2. StoreInv' /\ eventRows' \subseteq eventRows
    BY PipelineNext, RollbackPlaces
  <1>3. ClientType' /\ AscendingInOrder'
    BY <1>1, RollbackPlaces DEF ClientType, AscendingInOrder
  <1>4. AheadOfGot'
    <2>1. ASSUME query.order = "ASC", NEW r \in Matching(query)', Place(query, r)' > offset,
                 NEW i \in DOMAIN got
          PROVE  got[i].id < r.id
      <3>1. r \in Matching(query) /\ offset \in Nat
        BY <1>1, RollbackPlaces DEF ClientType
      <3>2. Place(query, r) > offset
        BY <2>1, <3>1, RollbackPlaces
      <3> QED BY <1>1, <2>1, <3>1, <3>2 DEF AheadOfGot
    <2> QED BY <1>1, <2>1 DEF AheadOfGot
  <1>5. Received'
    BY <1>1 DEF Received
  <1>6. AscendingMissesAsTaken'
    <2> SUFFICES ASSUME query.order = "ASC", client = "finished"
                 PROVE  Cardinality(lasting' \ ToSet(got)) <= Cardinality(ToSet(got) \ eventRows')
      BY <1>1 DEF AscendingMissesAsTaken
    <2>1. Cardinality(lasting \ ToSet(got)) <= Cardinality(ToSet(got) \ eventRows)
      BY <1>1 DEF AscendingMissesAsTaken
    <2>2. IsFiniteSet(lasting \ ToSet(got)) /\ IsFiniteSet(ToSet(got))
      <3>1. lasting \ ToSet(got) \subseteq Matching(query) /\ got \in Seq(Row)
        BY <1>1 DEF ClientType
      <3>2. IsFiniteSet(Matching(query))
        BY MatchingFinite DEF QueryInv
      <3>3. IsFiniteSet(lasting \ ToSet(got))
        BY <3>1, <3>2, FS_Subset
      <3>4. IsFiniteSet(ToSet(got))
        BY <3>1, ReceivedFinite
      <3> QED BY <3>3, <3>4
    <2>3. /\ lasting' \ ToSet(got) \subseteq lasting \ ToSet(got)
          /\ ToSet(got) \ eventRows \subseteq ToSet(got) \ eventRows'
          /\ ToSet(got) \ eventRows' \subseteq ToSet(got)
      BY <1>1, <1>2
    <2>4. /\ IsFiniteSet(ToSet(got) \ eventRows') /\ IsFiniteSet(lasting' \ ToSet(got))
          /\ Cardinality(lasting' \ ToSet(got)) <= Cardinality(lasting \ ToSet(got))
      BY <2>2, <2>3, FS_Subset
    <2>5. /\ IsFiniteSet(ToSet(got) \ eventRows)
          /\ Cardinality(ToSet(got) \ eventRows) <= Cardinality(ToSet(got) \ eventRows')
      BY <2>3, <2>4, FS_Subset
    <2>6. /\ Cardinality(lasting' \ ToSet(got)) \in Nat /\ Cardinality(lasting \ ToSet(got)) \in Nat
          /\ Cardinality(ToSet(got) \ eventRows) \in Nat
          /\ Cardinality(ToSet(got) \ eventRows') \in Nat
      BY <2>2, <2>4, <2>5, FS_CardinalityType
    <2> QED BY <2>1, <2>4, <2>5, <2>6
  <1> QED BY <1>2, <1>3, <1>4, <1>5, <1>6 DEF QueryInv

(* A step that leaves the rows and the client alone.                       *)
LEMMA RestKeeps ==
    ASSUME QueryInv, StoreInv', UNCHANGED <<eventRows, lastRowId, clientVars>>
    PROVE  QueryInv'
  <1>1. UNCHANGED <<eventRows, lastRowId, client, query, offset, got, lasting, rolledBack>>
    BY DEF clientVars
  <1>2. Matching(query)' = Matching(query)
    BY <1>1 DEF Matching
  <1>3. \A r : Place(query, r)' = Place(query, r)
    BY <1>1, <1>2 DEF Place, Ahead
  <1> QED BY <1>1, <1>2, <1>3 DEF QueryInv, ClientType, AscendingInOrder, AheadOfGot,
                                  Received, AscendingMissesAsTaken

LEMMA QueryInit == Init => QueryInv
  <1> SUFFICES ASSUME Init PROVE QueryInv
    OBVIOUS
  <1>1. StoreInv /\ eventRows = {}
    BY StoreInitInv DEF Init, DatabaseInit
  <1> QED BY <1>1 DEF Init, QueryInv, ClientType, AscendingInOrder, AheadOfGot,
                      Received, AscendingMissesAsTaken, Matching

LEMMA QueryNext == QueryInv /\ [Next]_vars => QueryInv'
  <1> SUFFICES ASSUME QueryInv, [Next]_vars PROVE QueryInv'
    OBVIOUS
  <1>1. CASE FirstPage \/ NextPage
    BY <1>1, ReceiveNext
  <1>2. ASSUME NEW b \in Blocks, Store(b) PROVE QueryInv'
    BY <1>2, StoreKeeps
  <1>3. ASSUME NEW h \in Heights, Rollback(h) PROVE QueryInv'
    BY <1>3, RollbackKeeps
  <1>4. ASSUME NEW c \in Cutoffs, Prune(c) PROVE QueryInv'
    <2>1. UNCHANGED <<eventRows, lastRowId, clientVars>>
      BY <1>4 DEF Prune, DeleteJournalBelow
    <2> QED BY <1>4, <2>1, PipelineNext, RestKeeps
  <1>5. CASE UNCHANGED vars
    <2>1. UNCHANGED <<eventRows, lastRowId, clientVars, dbVars>>
      BY <1>5 DEF vars, dbVars
    <2>2. StoreInv'
      BY <2>1, StoreNextInv DEF QueryInv
    <2> QED BY <2>1, <2>2, RestKeeps
  <1> QED BY <1>1, <1>2, <1>3, <1>4, <1>5 DEF Next

LEMMA QueryAlways == Spec => []QueryInv
  BY QueryInit, QueryNext, PTL DEF Spec

-----------------------------------------------------------------------------
(* By ascending _id a client gets no row twice and none out of order,      *)
(* whatever the pipeline stores or rolls back between its pages, and in    *)
(* whatever order.                                                         *)
THEOREM PagesAscend == Spec => []AscendingInOrder
  <1>1. QueryInv => AscendingInOrder
    BY DEF QueryInv
  <1> QED BY <1>1, QueryAlways, PTL

(* And of the rows that were there from its first page to its last it      *)
(* misses no more than rollbacks took of those it had received.            *)
THEOREM PagesMissAsTaken == Spec => []AscendingMissesAsTaken
  <1>1. QueryInv => AscendingMissesAsTaken
    BY DEF QueryInv
  <1> QED BY <1>1, QueryAlways, PTL

(* By descending _id it misses none, as long as no block is rolled         *)
(* back between two pages: new rows move it back, never forth.             *)
THEOREM PagesDescendMissNothing == Spec => []DescendingMissesNothing
  <1>1. QueryInv => DescendingMissesNothing
    BY DEF QueryInv, Received, DescendingMissesNothing
  <1> QED BY <1>1, QueryAlways, PTL

-----------------------------------------------------------------------------
(* Filters.                                                                *)

(* What parse_where makes of the pieces of a condition: a number or a text,*)
(* and a number has no text left.                                          *)
LEMMA ParsedFilter ==
    ASSUME NEW where, NEW filter \in Range(ParseWhere(where))
    PROVE  /\ filter = [field |-> filter.field, op |-> filter.op, value |-> filter.value]
           /\ \/ \E n : filter.value = Integer(n)
              \/ \E t : filter.value = Text(t)
  <1> DEFINE parts == SelectSeq(where, LAMBDA part : Len(part) = 3)
             value(piece) == IF ~ piece.quoted /\ IsJsonNumber(piece.text)
                             THEN Integer(NumberIn(piece.text)) ELSE Text(piece.text)
             f == [i \in DOMAIN parts |->
                     [field |-> parts[i][1], op |-> parts[i][2], value |-> value(parts[i][3])]]
  <1>1. ParseWhere(where) = f
    BY DEF ParseWhere
  <1>2. \A piece : \/ \E n : value(piece) = Integer(n)
                   \/ \E t : value(piece) = Text(t)
    OBVIOUS
  <1> HIDE DEF value
  <1>3. ASSUME NEW i \in DOMAIN parts
        PROVE  /\ f[i] = [field |-> f[i].field, op |-> f[i].op, value |-> f[i].value]
               /\ f[i].value = value(parts[i][3])
    <2> HIDE DEF parts
    <2> QED OBVIOUS
  <1>4. PICK i \in DOMAIN parts : filter = f[i]
    <2> HIDE DEF f
    <2>1. PICK i \in DOMAIN f : filter = f[i]
      BY <1>1 DEF Range
    <2>2. DOMAIN f = DOMAIN parts
      <3> HIDE DEF parts
      <3> QED BY DEF f
    <2> QED BY <2>1, <2>2
  <1> HIDE DEF parts, f
  <1> QED BY <1>2, <1>3, <1>4

(* A condition and its opposite split the rows that have the field.        *)
LEMMA OppositeSplits ==
    ASSUME NEW filter, filter = [field |-> filter.field, op |-> filter.op, value |-> filter.value],
           filter.op \in DOMAIN Complement, NEW r, Column(r, filter.field) # Null
    PROVE  Selects(filter, r)
              <=> ~ Selects([filter EXCEPT !.op = Complement[@]], r)
  <1> DEFINE other == [filter EXCEPT !.op = Complement[@]]
             v == Column(r, filter.field)
             w == Operand(filter.field, filter.value)
  <1>1. /\ other.field = filter.field /\ other.value = filter.value
        /\ other.op = Complement[filter.op]
    OBVIOUS
  <1>2. /\ Selects(filter, r) <=> Holds(filter.op, v, w)
        /\ Selects(other, r) <=> Holds(Complement[filter.op], v, w)
    <2> HIDE DEF other
    <2> QED BY <1>1 DEF Selects
  <1>3. Holds(filter.op, v, w) <=> ~ Holds(Complement[filter.op], v, w)
    <2> HIDE DEF v, w
    <2> QED BY DEF Complement, Holds
  <1> QED BY <1>2, <1>3

(* Next to a system column a quoted number is the number.                  *)
LEMMA QuotedNumber ==
    ASSUME NEW filter, filter = [field |-> filter.field, op |-> filter.op, value |-> filter.value],
           \/ \E n : filter.value = Integer(n)
           \/ \E t : filter.value = Text(t),
           filter.field \in SystemFields, IsNumber(filter.value.text), NEW r
    PROVE  Selects(filter, r)
              <=> Selects([filter EXCEPT !.value = Integer(NumberIn(@.text))], r)
  <1> DEFINE n == NumberIn(filter.value.text)
             other == [filter EXCEPT !.value = Integer(NumberIn(@.text))]
  <1>1. filter.value.class = "text"
    BY DEF Integer, Text, IsNumber
  <1>2. /\ other.field = filter.field /\ other.op = filter.op
        /\ other.value = Integer(n) /\ other.value.class = "integer"
    BY DEF Integer
  <1>3. Operand(filter.field, filter.value) = Integer(n)
    BY <1>1 DEF Operand
  <1>4. Operand(other.field, other.value) = Integer(n)
    <2> HIDE DEF other, n
    <2> QED BY <1>2 DEF Operand
  <1> HIDE DEF other, n
  <1> QED BY <1>2, <1>3, <1>4 DEF Selects, other, n

(* Asking with an operator and once more with its opposite gives every row *)
(* that has the field, and none twice, for all texts and numbers.          *)
THEOREM ConditionsSplit == Spec => []FiltersSplit
  <1>1. ASSUME NEW where, NEW filter \in Range(ParseWhere(where)),
               filter.op \in DOMAIN Complement, NEW r, Column(r, filter.field) # Null
        PROVE  /\ Selects(filter, r)
                     <=> ~ Selects([filter EXCEPT !.op = Complement[@]], r)
               /\ filter.field \in SystemFields /\ IsNumber(filter.value.text) =>
                     (Selects(filter, r)
                        <=> Selects([filter EXCEPT !.value = Integer(NumberIn(@.text))], r))
    BY <1>1, ParsedFilter, OppositeSplits, QuotedNumber
  <1>2. FiltersSplit
    BY <1>1 DEF FiltersSplit
  <1> QED BY <1>2, PTL
=============================================================================
