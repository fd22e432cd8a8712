--------------------------- MODULE MatcherProofs ---------------------------
(***************************************************************************)
(* What the matcher selects, for every set of configurations, every event  *)
(* and blocks of any length.                                               *)
(***************************************************************************)
EXTENDS Matcher, FiniteSetTheorems, FunctionTheorems, SequenceTheorems,
        WellFoundedInduction, TLAPS

MatchedEvent == [event : Nat, table : STRING, contract : Seq(STRING)]

(* The rule at a position is for an event, and the event gets to it.       *)
Selected(c, p, raw) ==
    Parses(raw) /\ raw.committed /\ MatchesRule(RuleAt(c, p), raw)

(* An event is in just the tables of the rules that matched it.            *)
MatchedExactly ==
    \A i \in DOMAIN seen :
        TablesMatched(i) =
            {RuleAt(config, p).table :
                p \in {q \in RulePositions(config) : Selected(config, q, seen[i])}}

MatcherType ==
    /\ config \in Configs \cup {NoConfig}
    /\ status \in {"loading", "rejected", "running"}
    /\ seen \in Seq(RawEvents)
    /\ matched \in Seq(MatchedEvent)
    /\ status = "running" => config \in Configs /\ Valid(config)
    /\ status # "running" => seen = <<>> /\ matched = <<>>

MatcherInv ==
    /\ MatcherType
    /\ \A k \in DOMAIN matched : matched[k].event \in DOMAIN seen
    /\ OnceInBlockOrder
    /\ MatchedExactly

-----------------------------------------------------------------------------
(* The rules: finitely many, visited one after another.                    *)

LEMMA Elements ==
    ASSUME NEW S, NEW s \in Seq(S)
    PROVE  /\ IsFiniteSet(DOMAIN s) /\ DOMAIN s \subseteq Nat
           /\ \A i \in DOMAIN s : s[i] \in S
  <1>1. DOMAIN s = 1 .. Len(s) /\ Len(s) \in Int
    OBVIOUS
  <1>2. IsFiniteSet(DOMAIN s)
    BY <1>1, FS_Interval
  <1> QED BY <1>1, <1>2

EventConfig == [type : STRING, table : STRING]
SourceConfig == [contract : Seq(STRING), events : Seq(EventConfig)]

LEMMA PositionTypes ==
    ASSUME NEW c \in Config, NEW p \in RulePositions(c)
    PROVE  /\ p[1] \in Nat /\ p[2] \in Nat /\ p = <<p[1], p[2]>>
           /\ p[1] \in DOMAIN c.sources
           /\ RuleAt(c, p).table \in STRING
           /\ RuleAt(c, p).contract = c.sources[p[1]].contract
           /\ RuleAt(c, p).contract \in Seq(STRING)
  <1>1. PICK i \in DOMAIN c.sources : p \in {i} \X DOMAIN c.sources[i].events
    BY DEF RulePositions
  <1>2. p[1] = i /\ p[2] \in DOMAIN c.sources[i].events /\ p = <<p[1], p[2]>>
    BY <1>1
  <1>3. c.sources \in Seq(SourceConfig)
    BY DEF Config, SourceConfig, EventConfig
  <1>4. i \in Nat /\ c.sources[i] \in SourceConfig
    BY <1>3, Elements
  <1>5. c.sources[i].events \in Seq(EventConfig) /\ c.sources[i].contract \in Seq(STRING)
    BY <1>4 DEF SourceConfig
  <1>6. p[2] \in Nat /\ c.sources[i].events[p[2]] \in EventConfig
    BY <1>2, <1>5, Elements
  <1> QED BY <1>2, <1>4, <1>5, <1>6 DEF RuleAt, EventConfig

LEMMA PositionsFinite ==
    ASSUME NEW c \in Config
    PROVE  IsFiniteSet(RulePositions(c))
  <1> DEFINE Part(i) == {i} \X DOMAIN c.sources[i].events
             Parts == {Part(i) : i \in DOMAIN c.sources}
             f == [i \in DOMAIN c.sources |-> Part(i)]
  <1>1. c.sources \in Seq(SourceConfig)
    BY DEF Config, SourceConfig, EventConfig
  <1>2. IsFiniteSet(DOMAIN c.sources)
    BY <1>1, Elements
  <1>3. ASSUME NEW i \in DOMAIN c.sources
        PROVE  IsFiniteSet(Part(i))
    <2>1. c.sources[i] \in SourceConfig
      BY <1>1, Elements
    <2>2. c.sources[i].events \in Seq(EventConfig)
      BY <2>1 DEF SourceConfig
    <2>3. IsFiniteSet(DOMAIN c.sources[i].events) /\ IsFiniteSet({i})
      BY <2>2, Elements, FS_Singleton
    <2> QED BY <2>3, FS_Product
  <1>4. f \in Surjection(DOMAIN c.sources, Parts)
    BY Fun_IsSurj
  <1> HIDE DEF f, Part
  <1>5. IsFiniteSet(Parts)
    BY <1>2, <1>4, FS_Surjection
  <1>6. \A P \in Parts : IsFiniteSet(P)
    BY <1>3
  <1>7. IsFiniteSet(UNION Parts)
    BY <1>5, <1>6, FS_UNION
  <1> QED BY <1>7 DEF RulePositions, Part

LEMMA HitsFinite ==
    ASSUME NEW c \in Config, NEW hits \in SUBSET RulePositions(c)
    PROVE  /\ IsFiniteSet(hits) /\ Cardinality(hits) \in Nat
           /\ \A p : Rank(hits, p) \in Nat
  <1>1. IsFiniteSet(hits)
    BY PositionsFinite, FS_Subset
  <1>2. ASSUME NEW p
        PROVE  Rank(hits, p) \in Nat
    <2>1. {q \in hits : VisitedBefore(q, p)} \in SUBSET hits
      OBVIOUS
    <2>2. IsFiniteSet({q \in hits : VisitedBefore(q, p)})
      BY <1>1, <2>1, FS_Subset
    <2> QED BY <2>2, FS_CardinalityType DEF Rank
  <1> QED BY <1>1, <1>2, FS_CardinalityType

LEMMA RankOrder ==
    ASSUME NEW c \in Config, NEW hits \in SUBSET RulePositions(c),
           NEW p \in hits, NEW q \in hits, p # q
    PROVE  Rank(hits, p) # Rank(hits, q)
  <1>1. ASSUME NEW x \in hits, NEW y \in hits, VisitedBefore(x, y)
        PROVE  Rank(hits, x) # Rank(hits, y)
    <2> DEFINE A == {z \in hits : VisitedBefore(z, x)}
               B == {z \in hits : VisitedBefore(z, y)}
    <2>1. \A z \in hits : z[1] \in Nat /\ z[2] \in Nat
      BY PositionTypes
    <2>2. A \subseteq B /\ x \in B /\ x \notin A /\ B \subseteq hits
      BY <1>1, <2>1 DEF VisitedBefore
    <2>3. Rank(hits, x) = Cardinality(A) + 1 /\ Rank(hits, y) = Cardinality(B) + 1
      BY DEF Rank
    <2> HIDE DEF A, B
    <2>4. IsFiniteSet(B) /\ A \in SUBSET B
      BY <2>2, HitsFinite, FS_Subset
    <2>5. IsFiniteSet(A) /\ Cardinality(A) # Cardinality(B)
      BY <2>2, <2>4, FS_Subset
    <2>6. Cardinality(A) \in Nat /\ Cardinality(B) \in Nat
      BY <2>4, <2>5, FS_CardinalityType
    <2> QED BY <2>3, <2>5, <2>6
  <1>2. VisitedBefore(p, q) \/ VisitedBefore(q, p)
    <2>1. /\ p[1] \in Nat /\ p[2] \in Nat /\ p = <<p[1], p[2]>>
          /\ q[1] \in Nat /\ q[2] \in Nat /\ q = <<q[1], q[2]>>
      BY PositionTypes
    <2>2. p[1] # q[1] \/ p[2] # q[2]
      BY <2>1
    <2> QED BY <2>1, <2>2 DEF VisitedBefore
  <1> QED BY <1>1, <1>2

LEMMA RankRange ==
    ASSUME NEW c \in Config, NEW hits \in SUBSET RulePositions(c), NEW p \in hits
    PROVE  Rank(hits, p) \in 1 .. Cardinality(hits)
  <1> DEFINE A == {z \in hits : VisitedBefore(z, p)}
  <1>1. p[1] \in Nat /\ p[2] \in Nat
    BY PositionTypes
  <1>2. A \in SUBSET hits /\ p \notin A
    BY <1>1 DEF VisitedBefore
  <1>3. Rank(hits, p) = Cardinality(A) + 1
    BY DEF Rank
  <1> HIDE DEF A
  <1>4. IsFiniteSet(A) /\ Cardinality(A) <= Cardinality(hits) /\ Cardinality(A) # Cardinality(hits)
    BY <1>2, HitsFinite, FS_Subset
  <1>5. Cardinality(A) \in Nat
    BY <1>4, FS_CardinalityType
  <1> QED BY <1>3, <1>4, <1>5, HitsFinite

(* Every rank up to the number of hits is one position's, and Nth finds it.*)
LEMMA NthHit ==
    ASSUME NEW c \in Config, NEW hits \in SUBSET RulePositions(c),
           NEW k \in 1 .. Cardinality(hits)
    PROVE  Nth(hits, k) \in hits /\ Rank(hits, Nth(hits, k)) = k
  <1> DEFINE I == 1 .. Cardinality(hits)
             f == [p \in hits |-> Rank(hits, p)]
  <1>1. f \in [hits -> I] /\ \A p, q \in hits : f[p] = f[q] => p = q
    BY RankRange, RankOrder
  <1>2. f \in Injection(hits, I)
    BY <1>1, Fun_IsInj
  <1>3. IsFiniteSet(I) /\ Cardinality(I) = Cardinality(hits)
    <2>1. Cardinality(hits) \in Nat
      BY HitsFinite
    <2>2. 1 \in Int /\ Cardinality(hits) \in Int
      BY <2>1
    <2>3. IsFiniteSet(I) /\ Cardinality(I) = (IF 1 > Cardinality(hits) THEN 0 ELSE Cardinality(hits) - 1 + 1)
      BY <2>2, FS_Interval
    <2> HIDE DEF I
    <2> QED BY <2>1, <2>3
  <1>4. k \in I
    OBVIOUS
  <1>5. \A p \in hits : f[p] = Rank(hits, p)
    OBVIOUS
  <1> HIDE DEF I, f
  <1>6. f \in Surjection(hits, I)
    BY <1>2, <1>3, FS_Injection
  <1>7. \E p \in hits : f[p] = k
    BY <1>4, <1>6 DEF Surjection
  <1> QED BY <1>5, <1>7 DEF Nth

(* What is pushed for one event: the tables of the rules that matched it,  *)
(* each once.                                                              *)
LEMMA EventMatches ==
    ASSUME NEW c \in Config, NEW raw, NEW index \in Nat
    PROVE  LET m == MatchEvent(c, raw, index)
           IN  /\ m \in Seq(MatchedEvent)
               /\ \A k \in DOMAIN m : m[k].event = index
               /\ {m[k].table : k \in DOMAIN m} =
                      {RuleAt(c, p).table :
                          p \in {q \in RulePositions(c) : Selected(c, q, raw)}}
               /\ Valid(c) => \A k, l \in DOMAIN m : m[k].table = m[l].table => k = l
  <1> DEFINE m == MatchEvent(c, raw, index)
             hits == {q \in RulePositions(c) : MatchesRule(RuleAt(c, q), raw)}
             n == Cardinality(hits)
             wanted == {RuleAt(c, p).table :
                           p \in {q \in RulePositions(c) : Selected(c, q, raw)}}
  <1> SUFFICES /\ m \in Seq(MatchedEvent)
               /\ \A k \in DOMAIN m : m[k].event = index
               /\ {m[k].table : k \in DOMAIN m} = wanted
               /\ Valid(c) => \A k, l \in DOMAIN m : m[k].table = m[l].table => k = l
    OBVIOUS
  <1>1. CASE ~ (Parses(raw) /\ raw.committed)
    <2>1. m = <<>>
      BY <1>1 DEF MatchEvent
    <2>2. wanted = {}
      BY <1>1 DEF Selected
    <2>3. DOMAIN m = {} /\ m \in Seq(MatchedEvent)
      BY <2>1
    <2> HIDE DEF m, wanted
    <2> QED BY <2>2, <2>3
  <1>2. CASE Parses(raw) /\ raw.committed
    <2>1. m = Pushed(c, hits, index)
      BY <1>2 DEF MatchEvent
    <2>2. wanted = {RuleAt(c, p).table : p \in hits}
      BY <1>2 DEF Selected
    <2>3. hits \in SUBSET RulePositions(c)
      OBVIOUS
    <2> HIDE DEF m, wanted, hits
    <2>4. n \in Nat
      BY <2>3, HitsFinite
    <2>5. \A k \in 1 .. n : Nth(hits, k) \in hits /\ Rank(hits, Nth(hits, k)) = k
      BY <2>3, NthHit
    <2>6. \A k \in 1 .. n : /\ RuleAt(c, Nth(hits, k)).table \in STRING
                            /\ RuleAt(c, Nth(hits, k)).contract \in Seq(STRING)
      BY <2>3, <2>5, PositionTypes
    <2>7. /\ DOMAIN m = 1 .. n
          /\ \A k \in 1 .. n : m[k] = [event    |-> index,
                                       table    |-> RuleAt(c, Nth(hits, k)).table,
                                       contract |-> RuleAt(c, Nth(hits, k)).contract]
          /\ m = [k \in 1 .. n |-> m[k]]
      BY <2>1 DEF Pushed
    <2>8. \A k \in 1 .. n : /\ m[k] \in MatchedEvent /\ m[k].event = index
                            /\ m[k].table = RuleAt(c, Nth(hits, k)).table
      BY <2>6, <2>7 DEF MatchedEvent
    <2>9. m \in Seq(MatchedEvent)
      <3>1. m \in [1 .. n -> MatchedEvent]
        BY <2>7, <2>8
      <3> QED BY <2>4, <3>1
    <2>10. {m[k].table : k \in DOMAIN m} = wanted
      <3>1. ASSUME NEW p \in hits
            PROVE  \E k \in 1 .. n : Nth(hits, k) = p
        <4>1. Rank(hits, p) \in 1 .. n
          BY <2>3, RankRange
        <4>2. Nth(hits, Rank(hits, p)) \in hits
              /\ Rank(hits, Nth(hits, Rank(hits, p))) = Rank(hits, p)
          BY <2>5, <4>1
        <4>3. Nth(hits, Rank(hits, p)) = p
          BY <2>3, <4>2, RankOrder
        <4> QED BY <4>1, <4>3
      <3>2. ASSUME NEW t
            PROVE  (\E k \in 1 .. n : t = m[k].table)
                       <=> (\E p \in hits : t = RuleAt(c, p).table)
        BY <2>5, <2>8, <3>1
      <3> QED BY <2>2, <2>7, <3>2
    <2>11. Valid(c) => \A k, l \in DOMAIN m : m[k].table = m[l].table => k = l
      <3> SUFFICES ASSUME Valid(c), NEW k \in 1 .. n, NEW l \in 1 .. n,
                          m[k].table = m[l].table
                   PROVE  k = l
        BY <2>7
      <3>1. Nth(hits, k) \in RulePositions(c) /\ Nth(hits, l) \in RulePositions(c)
        BY <2>3, <2>5
      <3>2. RuleAt(c, Nth(hits, k)).table = RuleAt(c, Nth(hits, l)).table
        BY <2>8
      <3>3. Nth(hits, k) = Nth(hits, l)
        BY <3>1, <3>2 DEF Valid
      <3> QED BY <2>5, <3>3
    <2> QED BY <2>7, <2>8, <2>9, <2>10, <2>11
  <1> QED BY <1>1, <1>2

-----------------------------------------------------------------------------
LEMMA MatcherInit == Init => MatcherInv
  <1> SUFFICES ASSUME Init PROVE MatcherInv
    OBVIOUS
  <1>1. /\ config = NoConfig /\ status = "loading" /\ seen = <<>> /\ matched = <<>>
    BY DEF Init
  <1>2. MatcherType
    BY <1>1 DEF MatcherType
  <1>3. DOMAIN matched = {} /\ DOMAIN seen = {}
    BY <1>1
  <1> QED BY <1>2, <1>3 DEF MatcherInv, OnceInBlockOrder, MatchedExactly

LEMMA MatcherNext == MatcherInv /\ [Next]_vars => MatcherInv'
  <1> SUFFICES ASSUME MatcherInv, [Next]_vars PROVE MatcherInv'
    OBVIOUS
  <1> USE MatcherAssumption DEF MatcherInv, MatcherType
  <1>1. ASSUME NEW c \in Configs, LoadConfig(c)
        PROVE  MatcherInv'
    <2>1. /\ config' = c /\ seen' = <<>> /\ matched' = <<>>
          /\ status' = IF Valid(c) THEN "running" ELSE "rejected"
      BY <1>1 DEF LoadConfig
    <2>2. DOMAIN matched' = {} /\ DOMAIN seen' = {}
      BY <2>1
    <2>3. config' \in Configs /\ seen' \in Seq(RawEvents) /\ matched' \in Seq(MatchedEvent)
      BY <2>1
    <2> QED BY <2>1, <2>2, <2>3 DEF OnceInBlockOrder, MatchedExactly
  <1>2. ASSUME NEW raw \in RawEvents, NextEvent(raw)
        PROVE  MatcherInv'
    <2> DEFINE n == Len(seen)
               m == MatchEvent(config, raw, n + 1)
               l == Len(matched)
    <2>1. /\ status = "running" /\ config \in Configs /\ Valid(config)
          /\ seen' = Append(seen, raw) /\ matched' = matched \o m
          /\ config' = config /\ status' = status
      BY <1>2 DEF NextEvent
    <2>2. n \in Nat /\ n + 1 \in Nat
      OBVIOUS
    <2>3. /\ m \in Seq(MatchedEvent)
          /\ \A k \in DOMAIN m : m[k].event = n + 1
          /\ {m[k].table : k \in DOMAIN m} =
                 {RuleAt(config, p).table :
                     p \in {q \in RulePositions(config) : Selected(config, q, raw)}}
          /\ \A i, j \in DOMAIN m : m[i].table = m[j].table => i = j
      BY <2>1, <2>2, EventMatches
    <2> HIDE DEF m
    <2>4. /\ l \in Nat /\ DOMAIN matched = 1 .. l /\ DOMAIN m = 1 .. Len(m) /\ Len(m) \in Nat
          /\ matched' \in Seq(MatchedEvent) /\ DOMAIN matched' = 1 .. (l + Len(m))
          /\ \A k \in 1 .. l : matched'[k] = matched[k]
          /\ \A k \in 1 .. Len(m) : matched'[l + k] = m[k]
          /\ \A k \in 1 .. (l + Len(m)) : k > l => k - l \in 1 .. Len(m) /\ matched'[k] = m[k - l]
      BY <2>1, <2>3
    <2>5. /\ seen' \in Seq(RawEvents) /\ DOMAIN seen = 1 .. n /\ DOMAIN seen' = 1 .. (n + 1)
          /\ \A i \in 1 .. n : seen'[i] = seen[i]
          /\ seen'[n + 1] = raw
      BY <2>1
    <2>6. MatcherType'
      BY <2>1, <2>4, <2>5
    <2>7. \A k \in DOMAIN matched : matched[k].event \in 1 .. n
      BY <2>5
    <2>8. \A k \in DOMAIN matched' : matched'[k].event =
              IF k <= l THEN matched[k].event ELSE n + 1
      <3> SUFFICES ASSUME NEW k \in 1 .. (l + Len(m))
                   PROVE  matched'[k].event = IF k <= l THEN matched[k].event ELSE n + 1
        BY <2>4
      <3>1. CASE k <= l
        <4>1. k \in 1 .. l /\ matched'[k] = matched[k]
          BY <2>4, <3>1
        <4> QED BY <3>1, <4>1
      <3>2. CASE ~ (k <= l)
        <4>1. k - l \in DOMAIN m /\ matched'[k] = m[k - l]
          BY <2>4, <3>2
        <4>2. m[k - l].event = n + 1
          BY <2>3, <4>1
        <4> QED BY <3>2, <4>1, <4>2
      <3> QED BY <3>1, <3>2
    <2>9. (\A k \in DOMAIN matched : matched[k].event \in DOMAIN seen)'
      BY <2>2, <2>4, <2>5, <2>7, <2>8
    <2>10. OnceInBlockOrder'
      <3> SUFFICES ASSUME NEW i \in DOMAIN matched', NEW j \in DOMAIN matched', i < j
                   PROVE  /\ matched'[i].event <= matched'[j].event
                          /\ matched'[i].table = matched'[j].table =>
                                 matched'[i].event # matched'[j].event
        BY DEF OnceInBlockOrder
      <3>1. CASE j <= l
        <4>1. i \in DOMAIN matched /\ j \in DOMAIN matched
          BY <2>4, <3>1
        <4> QED BY <2>4, <3>1, <4>1 DEF OnceInBlockOrder
      <3>2. CASE i <= l /\ j > l
        <4>1. matched'[i].event \in 1 .. n /\ matched'[j].event = n + 1
          BY <2>4, <2>7, <2>8, <3>2
        <4> QED BY <2>2, <4>1
      <3>3. CASE i > l
        <4>1. /\ i - l \in DOMAIN m /\ matched'[i] = m[i - l]
              /\ j - l \in DOMAIN m /\ matched'[j] = m[j - l]
              /\ i - l # j - l
          BY <2>4, <3>3
        <4>2. matched'[i].table # matched'[j].table /\ matched'[i].event = n + 1
              /\ matched'[j].event = n + 1
          BY <2>3, <4>1
        <4> QED BY <2>2, <4>2
      <3> QED BY <2>4, <3>1, <3>2, <3>3
    <2>11. MatchedExactly'
      <3> SUFFICES ASSUME NEW i \in 1 .. (n + 1)
                   PROVE  TablesMatched(i)' =
                              {RuleAt(config, p).table :
                                  p \in {q \in RulePositions(config) :
                                            Selected(config, q, seen'[i])}}
        BY <2>1, <2>5 DEF MatchedExactly
      <3>1. CASE i \in 1 .. n
        <4>1. \A k \in DOMAIN matched' : matched'[k].event = i <=>
                  k \in DOMAIN matched /\ matched[k].event = i
          BY <2>2, <2>4, <2>8, <3>1
        <4>2. {k \in DOMAIN matched' : matched'[k].event = i} =
                  {k \in DOMAIN matched : matched[k].event = i}
          BY <2>4, <4>1
        <4>3. TablesMatched(i)' = TablesMatched(i)
          BY <2>4, <4>2 DEF TablesMatched
        <4> QED BY <2>5, <3>1, <4>3 DEF MatchedExactly
      <3>2. CASE i = n + 1
        <4>1. ASSUME NEW t
              PROVE  (\E k \in DOMAIN matched' : matched'[k].event = i /\ t = matched'[k].table)
                         <=> (\E k \in DOMAIN m : t = m[k].table)
          <5>1. ASSUME NEW k \in DOMAIN matched', matched'[k].event = i, t = matched'[k].table
                PROVE  \E j \in DOMAIN m : t = m[j].table
            <6>1. k > l
              BY <2>2, <2>4, <2>7, <2>8, <3>2, <5>1
            <6> QED BY <2>4, <5>1, <6>1
          <5>2. ASSUME NEW k \in DOMAIN m, t = m[k].table
                PROVE  \E j \in DOMAIN matched' : matched'[j].event = i /\ t = matched'[j].table
            <6>1. l + k \in DOMAIN matched' /\ matched'[l + k] = m[k] /\ m[k].event = i
              BY <2>3, <2>4, <3>2
            <6> QED BY <5>2, <6>1
          <5> QED BY <5>1, <5>2
        <4>2. TablesMatched(i)' = {m[k].table : k \in DOMAIN m}
          BY <4>1 DEF TablesMatched
        <4>3. seen'[i] = raw
          BY <2>5, <3>2
        <4> QED BY <2>3, <4>2, <4>3
      <3> QED BY <2>2, <3>1, <3>2
    <2> QED BY <2>6, <2>9, <2>10, <2>11
  <1>3. CASE UNCHANGED vars
    <2>1. config' = config /\ status' = status /\ seen' = seen /\ matched' = matched
      BY <1>3 DEF vars
    <2>2. MatcherType' /\ (\A k \in DOMAIN matched : matched[k].event \in DOMAIN seen)'
      BY <2>1
    <2>3. OnceInBlockOrder' /\ MatchedExactly'
      <3>1. \A i : TablesMatched(i)' = TablesMatched(i)
        BY <2>1 DEF TablesMatched
      <3>2. MatchedExactly'
        BY <2>1, <3>1 DEF MatchedExactly
      <3>3. OnceInBlockOrder'
        BY <2>1 DEF OnceInBlockOrder
      <3> QED BY <3>2, <3>3
    <2> QED BY <2>2, <2>3
  <1> QED BY <1>1, <1>2, <1>3 DEF Next

LEMMA MatcherAlways == Spec => []MatcherInv
  BY MatcherInit, MatcherNext, PTL DEF Spec

-----------------------------------------------------------------------------
(* Contracts and assets.                                                   *)

LEMMA PrefixElements ==
    ASSUME NEW s \in Seq(STRING), NEW t \in Seq(STRING)
    PROVE  IsPrefix(s, t) <=>
               /\ Len(s) <= Len(t)
               /\ \A i \in 1 .. Len(s) : s[i] = t[i]
  <1>1. Len(s) \in Nat /\ Len(t) \in Nat
    OBVIOUS
  <1>2. SubSeq(s, 1, Len(s)) = s
    OBVIOUS
  <1>3. Len(s) <= Len(t) =>
            /\ Len(SubSeq(t, 1, Len(s))) = Len(s)
            /\ SubSeq(t, 1, Len(s)) \in Seq(STRING)
            /\ \A i \in 1 .. Len(s) : SubSeq(t, 1, Len(s))[i] = t[i]
    OBVIOUS
  <1> QED BY <1>1, <1>2, <1>3 DEF IsPrefix

LEMMA AssetContractCut ==
    ASSUME NEW id \in Seq(STRING)
    PROVE  /\ IsPrefix(AssetContract(id), id)
           /\ \A contract \in Seq(STRING) :
                  IsPrefix(contract, id) /\ ~ Contains(contract, "::") =>
                      IsPrefix(contract, AssetContract(id))
  <1> DEFINE I == {i \in 1 .. Len(id) : id[i] = "::"}
             k == IF I # {} THEN Min(I) ELSE 0
  <1>1. AssetContract(id) = IF k = 0 THEN id ELSE SubSeq(id, 1, k - 1)
    BY DEF AssetContract, SelectInSeq
  <1>2. k = 0 \/ (k \in 1 .. Len(id) /\ id[k] = "::")
    <2>1. CASE I = {}
      BY <2>1
    <2>2. CASE I # {}
      <3> DEFINE less == {xy \in Nat \X Nat : xy[1] < xy[2]}
      <3>1. I \subseteq Nat
        OBVIOUS
      <3>2. IsWellFoundedOn(less, Nat)
        BY NatLessThanWellFounded DEF OpToRel
      <3>3. PICK i \in I : \A j \in I : ~ (<<j, i>> \in less)
        BY <2>2, <3>1, <3>2, WFMin
      <3>4. ASSUME NEW j \in I
            PROVE  i <= j
        <4>1. i \in Nat /\ j \in Nat
          BY <3>1
        <4>2. j < i => <<j, i>> \in less
          BY <4>1
        <4> QED BY <3>3, <4>1, <4>2
      <3>5. Min(I) \in I
        BY <3>4 DEF Min
      <3> QED BY <2>2, <3>5
    <2> QED BY <2>1, <2>2
  <1> HIDE DEF k
  <1>3. CASE k = 0
    BY <1>1, <1>3 DEF IsPrefix
  <1>4. CASE k # 0
    <2>1. /\ k \in 1 .. Len(id) /\ id[k] = "::" /\ AssetContract(id) = SubSeq(id, 1, k - 1)
      BY <1>1, <1>2, <1>4
    <2>2. /\ AssetContract(id) \in Seq(STRING) /\ Len(AssetContract(id)) = k - 1
          /\ \A i \in 1 .. k - 1 : AssetContract(id)[i] = id[i]
      <3>1. \A i \in 1 .. k - 1 : id[i] \in STRING
        BY <2>1
      <3>2. 1 \in Int /\ k - 1 \in Int
        BY <2>1
      <3>3. /\ SubSeq(id, 1, k - 1) \in Seq(STRING)
            /\ Len(SubSeq(id, 1, k - 1)) = (IF 1 <= k - 1 THEN (k - 1) - 1 + 1 ELSE 0)
            /\ \A i \in 1 .. (k - 1) - 1 + 1 : SubSeq(id, 1, k - 1)[i] = id[1 + i - 1]
        BY <3>1, <3>2, SubSeqProperties
      <3> QED BY <2>1, <3>3
    <2>3. IsPrefix(AssetContract(id), id)
      <3>1. Len(AssetContract(id)) <= Len(id)
        BY <2>1, <2>2
      <3>2. \A i \in 1 .. Len(AssetContract(id)) : AssetContract(id)[i] = id[i]
        BY <2>2
      <3> QED BY <2>2, <3>1, <3>2, PrefixElements
    <2>4. ASSUME NEW contract \in Seq(STRING),
                 IsPrefix(contract, id), ~ Contains(contract, "::")
          PROVE  IsPrefix(contract, AssetContract(id))
      <3>1. /\ Len(contract) <= Len(id)
            /\ \A i \in 1 .. Len(contract) : contract[i] = id[i]
        BY <2>4, PrefixElements
      <3>2. Len(contract) < k
        BY <2>1, <2>4, <3>1 DEF Contains
      <3>3. Len(contract) <= Len(AssetContract(id))
        BY <2>1, <2>2, <3>2
      <3>4. \A i \in 1 .. Len(contract) : contract[i] = AssetContract(id)[i]
        BY <2>1, <2>2, <3>1, <3>2
      <3> QED BY <2>2, <3>3, <3>4, PrefixElements
    <2> QED BY <2>3, <2>4
  <1> QED BY <1>3, <1>4

LEMMA TypesOfEvents ==
    /\ Discriminator["print_event"] \notin RawTypesOf(AssetTypes)
    /\ \A ty \in AssetTypes : Discriminator[ty] \in RawTypesOf(AssetTypes)
    /\ AssetTypes \subseteq EventTypes /\ "print_event" \in EventTypes
    /\ AssetTypes \cap StxTypes = {} /\ "print_event" \notin AssetTypes
    /\ "print_event" \notin StxTypes
    /\ EventTypes = {"print_event"} \cup AssetTypes \cup StxTypes
  <1>1. /\ Discriminator["print_event"] = "contract_event"
        /\ Discriminator["ft_transfer"] = "ft_transfer_event"
        /\ Discriminator["ft_mint"] = "ft_mint_event"
        /\ Discriminator["ft_burn"] = "ft_burn_event"
        /\ Discriminator["nft_transfer"] = "nft_transfer_event"
        /\ Discriminator["nft_mint"] = "nft_mint_event"
        /\ Discriminator["nft_burn"] = "nft_burn_event"
    BY DEF Discriminator, EventTypes, AssetTypes, StxTypes
  <1>2. RawTypesOf(AssetTypes) =
            {"ft_transfer_event", "ft_mint_event", "ft_burn_event",
             "nft_transfer_event", "nft_mint_event", "nft_burn_event"}
    BY <1>1 DEF RawTypesOf, AssetTypes
  <1>3. /\ AssetTypes \subseteq EventTypes /\ "print_event" \in EventTypes
        /\ AssetTypes \cap StxTypes = {} /\ "print_event" \notin AssetTypes
        /\ "print_event" \notin StxTypes
        /\ EventTypes = {"print_event"} \cup AssetTypes \cup StxTypes
    BY DEF AssetTypes, EventTypes, StxTypes
  <1> QED BY <1>1, <1>2, <1>3 DEF RawTypesOf

(* An event that should match a rule does.                                 *)
LEMMA ShouldMatchMatches ==
    ASSUME NEW rule, NEW raw \in RawEvent,
           rule.type \in EventTypes, ShouldMatch(rule, raw)
    PROVE  Parses(raw) /\ raw.committed /\ MatchesRule(rule, raw)
  <1>1. /\ Parses(raw) /\ raw.committed /\ raw.type = Discriminator[rule.type]
        /\ OwnContract(rule, raw)
    BY DEF ShouldMatch
  <1>2. CASE rule.contract = Wildcard \/ rule.type \in StxTypes
    BY <1>1, <1>2 DEF MatchesRule
  <1>3. CASE rule.contract = ContractIdentifier(raw) /\ rule.type = "print_event"
    <2>1. ContractIdentifier(raw) = raw.id
      BY <1>1, <1>3, TypesOfEvents DEF ContractIdentifier
    <2> QED BY <1>1, <1>3, <2>1 DEF MatchesRule
  <1>4. CASE rule.contract = ContractIdentifier(raw) /\ rule.type \in AssetTypes
    <2>1. ContractIdentifier(raw) = AssetContract(raw.id)
      BY <1>1, <1>4, TypesOfEvents DEF ContractIdentifier
    <2>2. raw.id \in Seq(STRING)
      BY DEF RawEvent
    <2>3. IsPrefix(rule.contract, raw.id)
      BY <1>4, <2>1, <2>2, AssetContractCut
    <2> QED BY <1>1, <1>4, <2>3 DEF MatchesRule
  <1> QED BY <1>1, <1>2, <1>3, <1>4, TypesOfEvents DEF OwnContract

(* No name of a configured contract begins the name of another contract    *)
(* that has assets, and a contract's identifier ends before any "::".      *)
NamesApart ==
    \A c \in Configs, raw \in RawEvents :
        Valid(c) /\ raw.type \in RawTypesOf(AssetTypes) =>
            \A i \in DOMAIN c.sources :
                /\ ~ Contains(c.sources[i].contract, "::")
                /\ IsPrefix(c.sources[i].contract, AssetContract(raw.id)) =>
                       c.sources[i].contract = AssetContract(raw.id)

(* An event that a rule matches should match it, when names are apart.     *)
LEMMA MatchesShouldMatch ==
    ASSUME NamesApart, NEW c \in Configs, Valid(c), NEW p \in RulePositions(c),
           NEW raw \in RawEvents, Selected(c, p, raw)
    PROVE  ShouldMatch(RuleAt(c, p), raw)
  <1> DEFINE rule == RuleAt(c, p)
  <1>1. c \in Config /\ raw \in RawEvent
    BY MatcherAssumption
  <1>2. raw.id \in Seq(STRING)
    BY <1>1 DEF RawEvent
  <1>3. /\ rule.contract = c.sources[p[1]].contract /\ rule.contract \in Seq(STRING)
        /\ p[1] \in DOMAIN c.sources
    BY <1>1, PositionTypes
  <1> HIDE DEF rule
  <1>4. /\ Parses(raw) /\ raw.committed /\ MatchesRule(rule, raw)
        /\ raw.type = Discriminator[rule.type] /\ rule.type \in EventTypes
    BY DEF Selected, MatchesRule, rule
  <1>5. OwnContract(rule, raw)
    <2>1. CASE rule.contract = Wildcard \/ rule.type \in StxTypes
      BY <2>1 DEF OwnContract
    <2>2. CASE rule.type = "print_event" /\ raw.id = rule.contract
      <3>1. ContractIdentifier(raw) = raw.id
        BY <1>4, <2>2, TypesOfEvents DEF ContractIdentifier
      <3> QED BY <2>2, <3>1 DEF OwnContract
    <2>3. CASE rule.type \in AssetTypes /\ IsPrefix(rule.contract, raw.id)
      <3>1. raw.type \in RawTypesOf(AssetTypes)
        BY <1>4, <2>3, TypesOfEvents
      <3>2. /\ ~ Contains(rule.contract, "::")
            /\ IsPrefix(rule.contract, AssetContract(raw.id)) =>
                   rule.contract = AssetContract(raw.id)
        BY <1>3, <3>1 DEF NamesApart
      <3>3. rule.contract = AssetContract(raw.id)
        BY <1>2, <1>3, <2>3, <3>2, AssetContractCut
      <3> QED BY <3>1, <3>3 DEF OwnContract, ContractIdentifier
    <2> QED BY <1>4, <2>1, <2>2, <2>3 DEF MatchesRule
  <1> QED BY <1>4, <1>5 DEF ShouldMatch, rule

-----------------------------------------------------------------------------
(* A block's event goes into a table at most once, and the rows of a table *)
(* are in the order of the block's events (match_events, validate).        *)
THEOREM MatchedInOrder == Spec => []OnceInBlockOrder
  <1>1. MatcherInv => OnceInBlockOrder
    BY DEF MatcherInv
  <1> QED BY <1>1, MatcherAlways, PTL

(* match_events leaves out no committed event that a rule names.           *)
THEOREM MatcherMissesNothing == Spec => []NothingMissed
  <1>1. MatcherInv => NothingMissed
    <2> SUFFICES ASSUME MatcherInv, NEW i \in DOMAIN seen, NEW r \in Rules(config),
                        ShouldMatch(r, seen[i])
                 PROVE  r.table \in TablesMatched(i)
      BY DEF NothingMissed
    <2>1. status = "running" /\ Valid(config) /\ seen \in Seq(RawEvents)
      BY DEF MatcherInv, MatcherType
    <2>2. seen[i] \in RawEvent
      BY <2>1, MatcherAssumption
    <2>3. PICK p \in RulePositions(config) : r = RuleAt(config, p)
      BY DEF Rules
    <2>4. r.type \in EventTypes
      BY <2>1 DEF Valid
    <2>5. Selected(config, p, seen[i])
      BY <2>2, <2>3, <2>4, ShouldMatchMatches DEF Selected
    <2> QED BY <2>3, <2>5 DEF MatcherInv, MatchedExactly
  <1> QED BY <1>1, MatcherAlways, PTL

(* What match_events selects by prefix is what contract_identifier names,  *)
(* where the names of contracts are apart.  Without that it is not so: the *)
(* run prefix_match shows the rule of a contract match its second version. *)
THEOREM MatcherOnlyConfigured ==
    ASSUME NamesApart
    PROVE  Spec => []OnlyConfigured
  <1>1. MatcherInv => OnlyConfigured
    <2> SUFFICES ASSUME MatcherInv, NEW i \in DOMAIN seen, NEW r \in Rules(config),
                        r.table \in TablesMatched(i)
                 PROVE  ShouldMatch(r, seen[i])
      BY DEF OnlyConfigured
    <2>1. /\ status = "running" /\ Valid(config) /\ config \in Configs
          /\ seen \in Seq(RawEvents)
      BY DEF MatcherInv, MatcherType
    <2>2. seen[i] \in RawEvents
      BY <2>1
    <2>3. PICK p \in RulePositions(config) : r = RuleAt(config, p)
      BY DEF Rules
    <2>4. PICK q \in RulePositions(config) :
              Selected(config, q, seen[i]) /\ r.table = RuleAt(config, q).table
      BY DEF MatcherInv, MatchedExactly
    <2>5. p = q
      BY <2>1, <2>3, <2>4 DEF Valid
    <2> QED BY <2>1, <2>2, <2>3, <2>4, <2>5, MatchesShouldMatch
  <1> QED BY <1>1, MatcherAlways, PTL
=============================================================================
