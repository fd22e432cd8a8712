--------------------------- MODULE BackfillProofs ---------------------------
(***************************************************************************)
(* What backfill keeps of the stored heights, whatever the live pipeline   *)
(* stores between its runs: for every tree of blocks, every way the node's *)
(* tip moves, and any number of failures, stops, power failures, resets    *)
(* and runs.                                                               *)
(***************************************************************************)
EXTENDS Backfill, DatabaseProofs, WellFoundedInduction

In(states) == {b \in Blocks : states[b] > 0}

(* What holds of the store, and of its image on the disk: the heights are  *)
(* bounded, so that there is a highest one.                                *)
GoodStore(states, fromLive) ==
    /\ states \in [Blocks -> Nat]
    /\ fromLive \subseteq In(states)
    /\ \A b \in In(states) :
          HeightOf[b] > 1 /\ (~ \E c \in In(states) : HeightOf[c] + 1 = HeightOf[b])
             => b \in fromLive
    /\ \A b \in In(states) :
          states[b] = 1 /\ \A c \in In(states) : HeightOf[b] = HeightOf[c] => b = c
    /\ \E n \in Nat : \A b \in In(states) : HeightOf[b] <= n

Below(h) == \A b \in Stored : HeightOf[b] < h

(* A block at height h has one to stand on.                                *)
Founded(h) == h > 1 => \E c \in Stored : HeightOf[c] + 1 = h

(* What the local variables say of the store: of backfill_gaps, that its   *)
(* loop goes up from the last height; of process_block, that what it       *)
(* stores comes to lie above all that is left.                             *)
LoopInv ==
    /\ at = "tip" => lastHeight = LastHeight
    /\ at \in {"fetch", "apply"} => height > 0 /\ Below(height) /\ Founded(height)
    /\ at = "apply" => block \in Blocks /\ HeightOf[block] = height
    /\ at \in LiveSteps => block \in Blocks
    /\ at = "store" => Below(HeightOf[block])

IInv ==
    /\ TypeOK
    /\ GoodStore(indexerState, live)
    /\ GoodStore(disk.states, disk.live)
    /\ FillsToTip
    /\ LoopInv

-----------------------------------------------------------------------------
(* The highest height.                                                     *)

(* Blocks of bounded heights have a highest one: the one that is least far *)
(* from the bound.                                                         *)
LEMMA HighestBlock ==
  ASSUME NEW S, S \subseteq Blocks, S # {},
         NEW n \in Nat, \A b \in S : HeightOf[b] <= n
  PROVE  \E top \in S : \A b \in S : HeightOf[b] <= HeightOf[top]
<1> DEFINE D == {n - HeightOf[b] : b \in S}
           R == OpToRel(<, Nat)
<1>1. \A b \in S : HeightOf[b] \in Nat
  BY HeightAssumption
<1>2. D \subseteq Nat /\ D # {}
  BY <1>1
<1>3. IsWellFoundedOn(R, Nat)
  BY NatLessThanWellFounded
<1>4. \A x, y \in Nat : <<y, x>> \in R <=> y < x
  BY DEF OpToRel
<1>5. \E x \in D : \A y \in D : ~ (<<y, x>> \in R)
  <2> HIDE DEF D, R
  <2> QED
    BY <1>2, <1>3, WFMin
<1>6. PICK x \in D : \A y \in D : ~ (y < x)
  <2> HIDE DEF D, R
  <2> QED
    BY <1>2, <1>4, <1>5
<1>7. PICK top \in S : x = n - HeightOf[top]
  BY <1>6
<1>8. ASSUME NEW b \in S PROVE HeightOf[b] <= HeightOf[top]
  <2>1. n - HeightOf[b] \in D
    OBVIOUS
  <2>2. ~ (n - HeightOf[b] < n - HeightOf[top])
    <3> HIDE DEF D
    <3> QED
      BY <1>6, <1>7, <2>1
  <2>3. HeightOf[b] \in Nat /\ HeightOf[top] \in Nat
    BY <1>1
  <2> HIDE DEF D
  <2> QED
    BY <2>2, <2>3
<1> QED
  BY <1>8

LEMMA LastHeightTop ==
  ASSUME GoodStore(indexerState, live)
  PROVE  /\ LastHeight \in Nat
         /\ \A b \in Stored : HeightOf[b] <= LastHeight /\ HeightOf[b] \in Nat
         /\ LastHeight > 0 => \E c \in Stored : HeightOf[c] = LastHeight
<1>1. Stored \subseteq Blocks /\ \A b \in Stored : HeightOf[b] \in Nat
  BY HeightAssumption DEF Stored
<1>2. TipBlocks # {} \/ Stored = {}
  <2>1. PICK n \in Nat : \A b \in Stored : HeightOf[b] <= n
    BY DEF GoodStore, In, Stored
  <2>2. CASE Stored # {}
    <3>1. \E top \in Stored : \A b \in Stored : HeightOf[b] <= HeightOf[top]
      BY <1>1, <2>1, <2>2, HighestBlock
    <3> QED
      BY <3>1 DEF TipBlocks
  <2> QED
    BY <2>2
<1>3. CASE TipBlocks = {}
  BY <1>2, <1>3 DEF LastHeight
<1>4. CASE TipBlocks # {}
  <2>1. PICK c \in TipBlocks : LastHeight = HeightOf[c]
    BY <1>4 DEF LastHeight
  <2>2. c \in Stored /\ \A b \in Stored : HeightOf[b] <= HeightOf[c]
    BY <2>1 DEF TipBlocks
  <2> QED
    BY <1>1, <2>1, <2>2
<1> QED
  BY <1>3, <1>4

(* Steps that leave the store alone leave what is said of it alone.        *)
LEMMA SameStore ==
  ASSUME UNCHANGED dbVars
  PROVE  /\ Stored' = Stored /\ LastHeight' = LastHeight
         /\ DatabaseTypeOK' = DatabaseTypeOK
         /\ \A h : Below(h)' = Below(h) /\ Founded(h)' = Founded(h)
  BY DEF dbVars, Stored, TipBlocks, LastHeight, DatabaseTypeOK, Below, Founded

(* A block stored above all others becomes the last one.                   *)
LEMMA ApplyAbove ==
  ASSUME IInv, block \in Blocks, Below(HeightOf[block]), ApplyBlock(block),
         \/ live' = live \ {block} /\ Founded(HeightOf[block])
         \/ live' = live \cup {block}
  PROVE  /\ DatabaseTypeOK' /\ GoodStore(indexerState', live')
         /\ Stored' = Stored \cup {block} /\ live' \subseteq Stored'
         /\ LastHeight' = HeightOf[block]
<1>1. /\ DatabaseTypeOK /\ Stored = In(indexerState) /\ Stored \subseteq Blocks
      /\ GoodStore(indexerState, live) /\ indexerState \in [Blocks -> Nat]
  BY DEF IInv, TypeOK, GoodStore, Stored, In
<1>2. DatabaseTypeOK'
  BY <1>1, ApplyType
<1>3. \A b \in Stored \cup {block} : b \in Blocks /\ HeightOf[b] \in Nat
  BY <1>1, HeightAssumption
<1>4. block \notin Stored /\ indexerState[block] = 0
  <2>1. block \notin Stored
    BY <1>3 DEF Below
  <2> QED
    BY <1>1, <2>1 DEF Stored
<1>5. indexerState' = [indexerState EXCEPT ![block] = 1]
  BY <1>1, <1>4 DEF ApplyBlock
<1>6. In(indexerState') = Stored \cup {block} /\ Stored' = Stored \cup {block}
  BY <1>1, <1>5 DEF Stored, In
<1>7. \A b \in Stored : HeightOf[b] < HeightOf[block]
  BY DEF Below
<1>8. LastHeight' = HeightOf[block]
  <2>1. TipBlocks' = {block}
    BY <1>3, <1>6, <1>7 DEF TipBlocks
  <2> QED
    BY <2>1 DEF LastHeight
<1>9. live \subseteq Stored /\ live' \subseteq Stored \cup {block}
  BY <1>1 DEF GoodStore
<1>10. GoodStore(indexerState', live')
  <2>1. indexerState' \in [Blocks -> Nat] /\ live' \subseteq In(indexerState')
    BY <1>2, <1>4, <1>6, <1>9 DEF DatabaseTypeOK
  <2>2. ASSUME NEW b \in In(indexerState'), HeightOf[b] > 1,
               ~ \E c \in In(indexerState') : HeightOf[c] + 1 = HeightOf[b]
        PROVE  b \in live'
    <3>1. CASE b = block
      BY <1>6, <2>2, <3>1 DEF Founded
    <3>2. CASE b \in Stored /\ b # block
      BY <1>1, <1>6, <2>2, <3>2 DEF GoodStore
    <3> QED
      BY <1>6, <3>1, <3>2
  <2>3. ASSUME NEW b \in In(indexerState')
        PROVE  /\ indexerState'[b] = 1
               /\ \A c \in In(indexerState') : HeightOf[b] = HeightOf[c] => b = c
    <3>1. indexerState'[b] = 1
      BY <1>1, <1>3, <1>5, <1>6 DEF GoodStore
    <3>2. \A c \in In(indexerState') : HeightOf[b] = HeightOf[c] => b = c
      BY <1>1, <1>3, <1>6, <1>7 DEF GoodStore
    <3> QED
      BY <3>1, <3>2
  <2>4. \A b \in In(indexerState') : HeightOf[b] <= HeightOf[block]
    BY <1>3, <1>6, <1>7
  <2> QED
    BY <1>3, <2>1, <2>2, <2>3, <2>4 DEF GoodStore
<1> QED
  BY <1>2, <1>6, <1>8, <1>9, <1>10

(* A rollback leaves a store whose gaps are where they were.               *)
LEMMA RollbackGood ==
  ASSUME IInv, block \in Blocks, LiveRollback
  PROVE  /\ DatabaseTypeOK' /\ GoodStore(indexerState', live') /\ live' \subseteq Stored'
         /\ Below(HeightOf[block])'
<1> DEFINE h == HeightOf[block]
<1>1. /\ DatabaseTypeOK /\ Stored = In(indexerState) /\ Stored \subseteq Blocks
      /\ GoodStore(indexerState, live) /\ h \in Nat /\ h \in Heights
      /\ \A b \in Blocks : HeightOf[b] \in Nat
  BY HeightAssumption DEF IInv, TypeOK, GoodStore, Stored, In, Heights
<1>2. DatabaseTypeOK'
  BY <1>1, RollbackType DEF LiveRollback
<1>3. indexerState' = [b \in Blocks |-> IF HeightOf[b] >= h THEN 0 ELSE indexerState[b]]
      /\ live' = {b \in live : HeightOf[b] < h}
  BY DEF LiveRollback, RollbackFromHeight
<1>4. Stored' = {b \in Stored : HeightOf[b] < h} /\ In(indexerState') = Stored'
  BY <1>1, <1>3 DEF Stored, In
<1>5. GoodStore(indexerState', live')
  <2>1. indexerState' \in [Blocks -> Nat] /\ live' \subseteq In(indexerState')
    BY <1>1, <1>2, <1>3, <1>4 DEF DatabaseTypeOK, GoodStore
  <2>2. ASSUME NEW b \in Stored', HeightOf[b] > 1,
               ~ \E c \in Stored' : HeightOf[c] + 1 = HeightOf[b]
        PROVE  b \in live'
    <3>1. ~ \E c \in Stored : HeightOf[c] + 1 = HeightOf[b]
      BY <1>1, <1>4, <2>2
    <3> QED
      BY <1>1, <1>3, <1>4, <2>2, <3>1 DEF GoodStore
  <2>3. \A b \in Stored' : indexerState'[b] = indexerState[b]
    BY <1>1, <1>3, <1>4
  <2>4. \A b \in Stored' :
           indexerState'[b] = 1 /\ \A c \in Stored' : HeightOf[b] = HeightOf[c] => b = c
    BY <1>1, <1>4, <2>3 DEF GoodStore
  <2>5. \A b \in Stored' : HeightOf[b] <= h
    BY <1>1, <1>4
  <2> QED
    BY <1>1, <1>4, <2>1, <2>2, <2>4, <2>5 DEF GoodStore
<1>6. Below(h)'
  BY <1>4 DEF Below, LiveRollback, localVars
<1>7. block' = block
  BY DEF LiveRollback, localVars
<1> QED
  BY <1>2, <1>4, <1>5, <1>6, <1>7 DEF GoodStore

-----------------------------------------------------------------------------
(* Each step keeps the invariant.                                          *)

LEMMA EmptyGood == EmptyImage \in ImageType /\ GoodStore(EmptyImage.states, EmptyImage.live)
<1>1. In(EmptyImage.states) = {}
  BY DEF In, EmptyImage, Image
<1>2. 0 \in Nat
  OBVIOUS
<1>3. EmptyImage \in ImageType
  BY DEF EmptyImage, Image, ImageType
<1> QED
  BY <1>1, <1>2, <1>3 DEF GoodStore, EmptyImage, Image

LEMMA InitIInv == Init => IInv
<1> SUFFICES ASSUME Init PROVE IInv
  OBVIOUS
<1>1. DatabaseTypeOK
  BY StoreInitInv DEF Init, StoreInv
<1>2. indexerState = EmptyImage.states /\ live = EmptyImage.live /\ disk = EmptyImage
  BY DEF Init, DatabaseInit, EmptyImage, Image
<1>3. GoodStore(indexerState, live) /\ GoodStore(disk.states, disk.live) /\ disk \in ImageType
  BY <1>2, EmptyGood
<1> QED
  BY <1>1, <1>3 DEF Init, IInv, TypeOK, FillsToTip, LoopInv, LiveSteps

(* The loop starts above the last stored height, which it stands on.       *)
LEMMA GetChainTipIInv ==
  ASSUME IInv, GetChainTip
  PROVE  IInv'
<1>1. UNCHANGED dbVars /\ UNCHANGED <<indexerState, live, disk>>
  BY DEF GetChainTip, dbVars
<1>2. /\ LastHeight = lastHeight /\ lastHeight \in Nat /\ TipHeight \in Nat
      /\ height \in Nat
  BY LastHeightTop, HeightAssumption DEF IInv, LoopInv, TypeOK, TipHeight, GetChainTip
<1>3. /\ \A b \in Stored : HeightOf[b] <= lastHeight /\ HeightOf[b] \in Nat
      /\ lastHeight > 0 => \E c \in Stored : HeightOf[c] = lastHeight
  BY <1>2, LastHeightTop DEF IInv
<1>4. GoodStore(indexerState', live') /\ GoodStore(disk'.states, disk'.live)
  BY <1>1 DEF IInv
<1>5. TypeOK'
  BY <1>1, <1>2, SameStore DEF IInv, TypeOK, Ends, BackfillSteps, GetChainTip
<1>6. CASE lastHeight >= TipHeight
  BY <1>1, <1>2, <1>4, <1>5, <1>6, SameStore
     DEF IInv, FillsToTip, LoopInv, LiveSteps, GetChainTip
<1>7. CASE ~ (lastHeight >= TipHeight)
  <2>1. at' = "fetch" /\ height' = lastHeight + 1
    BY <1>7 DEF GetChainTip
  <2>2. Below(height')
    BY <1>2, <1>3, <2>1 DEF Below
  <2>3. Founded(height')
    BY <1>2, <1>3, <2>1 DEF Founded
  <2>4. Below(height)' /\ Founded(height)'
    BY <1>1, <2>2, <2>3 DEF Below, Founded, Stored, dbVars
  <2> QED
    BY <1>2, <1>4, <1>5, <2>1, <2>4 DEF IInv, FillsToTip, LoopInv, LiveSteps
<1> QED
  BY <1>6, <1>7

LEMMA ApplyFetchedIInv ==
  ASSUME IInv, ApplyFetched
  PROVE  IInv'
<1>1. /\ at = "apply" /\ block \in Blocks /\ HeightOf[block] = height
      /\ Below(height) /\ Founded(height) /\ height \in Nat \ {0}
  BY DEF IInv, LoopInv, TypeOK, ApplyFetched
<1>2. /\ DatabaseTypeOK' /\ GoodStore(indexerState', live')
      /\ Stored' = Stored \cup {block} /\ live' \subseteq Stored'
      /\ LastHeight' = height
  BY <1>1, ApplyAbove DEF ApplyFetched
<1>3. Stored \subseteq Blocks /\ \A b \in Stored \cup {block} : HeightOf[b] \in Nat
  BY <1>1, HeightAssumption DEF Stored
<1>4. FillsToTip'
  <2>1. at' = "filled" => height = chainTip /\ chainTip' = chainTip
    BY DEF ApplyFetched
  <2> QED
    BY <1>1, <1>2, <2>1 DEF FillsToTip
<1>5. LoopInv'
  <2>1. CASE height = chainTip
    BY <2>1 DEF ApplyFetched, LoopInv, LiveSteps
  <2>2. CASE height # chainTip
    <3>1. at' = "fetch" /\ height' = height + 1
      BY <2>2 DEF ApplyFetched
    <3>2. Below(height)'
      BY <1>1, <1>2, <1>3, <3>1 DEF Below
    <3>3. Founded(height)'
      BY <1>1, <1>2, <3>1 DEF Founded
    <3> QED
      BY <1>1, <3>1, <3>2, <3>3 DEF LoopInv, LiveSteps
  <2> QED
    BY <2>1, <2>2
<1>6. TypeOK'
  BY <1>1, <1>2 DEF IInv, TypeOK, Ends, BackfillSteps, ApplyFetched
<1>7. GoodStore(disk'.states, disk'.live)
  BY DEF IInv, ApplyFetched
<1> QED
  BY <1>2, <1>4, <1>5, <1>6, <1>7 DEF IInv

(* A block whose parent is the last one stored lies above it; one whose    *)
(* parent is not, above what the rollback leaves.                          *)
LEMMA LiveIInv ==
  ASSUME IInv, LiveDetect \/ LiveRollback \/ LiveStore
  PROVE  IInv'
<1>1. block \in Blocks
  BY DEF IInv, LoopInv, LiveSteps, LiveDetect, LiveRollback, LiveStore
<1>2. GoodStore(disk'.states, disk'.live) /\ UNCHANGED <<head, localVars, disk, faults, runs>>
  BY DEF IInv, LiveDetect, LiveRollback, LiveStore
<1>3. CASE LiveDetect
  <2>1. UNCHANGED dbVars /\ live' = live /\ GoodStore(indexerState', live')
        /\ at' \in {"rollback", "store"}
    BY <1>3 DEF LiveDetect, dbVars, IInv
  <2>2. at' = "store" => Below(HeightOf[block])
    <3>1. CASE Stored = {}
      BY <3>1 DEF Below
    <3>2. CASE Stored # {}
      <4>1. ASSUME at' = "store" PROVE Below(HeightOf[block])
        <5>1. PICK tip \in TipBlocks : ParentOf[block] = tip
          BY <1>3, <3>2, <4>1 DEF LiveDetect
        <5>2. tip \in Blocks /\ \A b \in Stored : HeightOf[b] <= HeightOf[tip]
          BY <5>1 DEF TipBlocks, Stored
        <5>3. HeightOf[block] = HeightOf[tip] + 1 /\ HeightOf[tip] \in Nat
          BY <1>1, <5>1, <5>2, HeightAssumption, NoBlockAssumption
        <5>4. \A b \in Stored : HeightOf[b] \in Nat
          BY HeightAssumption DEF Stored
        <5> QED
          BY <5>2, <5>3, <5>4 DEF Below
      <4> QED
        BY <4>1
    <3> QED
      BY <3>1, <3>2
  <2>3. LoopInv'
    <3>1. block' = block /\ indexerState' = indexerState
      BY <1>2, <2>1 DEF localVars, dbVars
    <3>2. at' = "store" => Below(HeightOf[block])'
      BY <2>2, <3>1 DEF Below, Stored
    <3> QED
      BY <1>1, <2>1, <3>1, <3>2 DEF LoopInv, LiveSteps
  <2>4. TypeOK'
    BY <1>2, <2>1, SameStore DEF IInv, TypeOK, LiveSteps, localVars
  <2> QED
    BY <1>2, <2>1, <2>3, <2>4 DEF IInv, FillsToTip
<1>4. CASE LiveRollback
  <2>1. /\ DatabaseTypeOK' /\ GoodStore(indexerState', live') /\ live' \subseteq Stored'
        /\ Below(HeightOf[block])'
    BY <1>1, <1>4, RollbackGood
  <2>2. at' = "store"
    BY <1>4 DEF LiveRollback
  <2>3. LoopInv'
    BY <1>1, <1>2, <2>1, <2>2 DEF LoopInv, LiveSteps, localVars
  <2>4. TypeOK'
    BY <1>2, <2>1, <2>2 DEF IInv, TypeOK, LiveSteps, localVars
  <2> QED
    BY <1>2, <2>1, <2>2, <2>3, <2>4 DEF IInv, FillsToTip
<1>5. CASE LiveStore
  <2>1. Below(HeightOf[block]) /\ at' = "listening"
    BY <1>5 DEF IInv, LoopInv, LiveStore
  <2>2. /\ DatabaseTypeOK' /\ GoodStore(indexerState', live') /\ live' \subseteq Stored'
    BY <1>1, <1>5, <2>1, ApplyAbove DEF LiveStore
  <2>3. LoopInv'
    BY <2>1 DEF LoopInv, LiveSteps
  <2>4. TypeOK'
    BY <1>2, <2>1, <2>2 DEF IInv, TypeOK, LiveSteps, localVars
  <2> QED
    BY <1>2, <2>1, <2>2, <2>3, <2>4 DEF IInv, FillsToTip
<1> QED
  BY <1>3, <1>4, <1>5

(* The disk holds the store of an earlier moment.                          *)
LEMMA RestoreIInv ==
  ASSUME IInv, PowerFails \/ Reset
  PROVE  IInv'
<1>1. PICK image : /\ image \in ImageType /\ GoodStore(image.states, image.live)
                   /\ Restore(image)
  BY EmptyGood DEF PowerFails, Reset, IInv, TypeOK
<1>2. GoodStore(indexerState', live')
  BY <1>1 DEF Restore
<1>3. Stored' = In(indexerState')
  BY DEF Stored, In
<1>4. DatabaseTypeOK' /\ live' \subseteq Stored'
  <2>1. DatabaseTypeOK'
    BY <1>1 DEF Restore, ImageType, IInv, TypeOK, DatabaseTypeOK
  <2> QED
    BY <1>2, <1>3, <2>1 DEF GoodStore
<1>5. disk' \in ImageType /\ GoodStore(disk'.states, disk'.live)
  BY EmptyGood DEF PowerFails, Reset, IInv, TypeOK
<1>6. at' = "down"
  BY DEF PowerFails, Reset, Gone
<1>7. TypeOK'
  BY <1>4, <1>5, <1>6 DEF IInv, TypeOK, PowerFails, Reset, Gone, localVars
<1> QED
  BY <1>2, <1>5, <1>6, <1>7 DEF IInv, FillsToTip, LoopInv, LiveSteps

(* The steps that only move between the others.                            *)
LEMMA OtherIInv ==
  ASSUME IInv,
         \/ \E b \in Blocks : Adopt(b) \/ Listen(b)
         \/ StartProcess \/ ReadLast \/ FetchBlock \/ FetchFails \/ Fails \/ StopProcess
         \/ Checkpoint \/ UNCHANGED vars
  PROVE  IInv'
<1>1. UNCHANGED dbVars /\ live' = live
  BY DEF Adopt, Listen, StartProcess, ReadLast, FetchBlock, FetchFails, Fails,
         StopProcess, Checkpoint, vars
<1>2. LastHeight \in Nat /\ \A b \in BranchOf(head) : b \in Blocks
  <2>1. LastHeight \in Nat
    BY LastHeightTop DEF IInv
  <2>2. head \in Blocks \cup {NoBlock}
    BY DEF IInv, TypeOK
  <2> QED
    BY <2>1, <2>2 DEF BranchOf, Lineage
<1>3. disk' \in ImageType /\ GoodStore(disk'.states, disk'.live)
  <2>1. CASE Checkpoint
    <3>1. disk' = Image(eventRows, reorgJournal, indexerState, lastRowId, live)
      BY <2>1 DEF Checkpoint
    <3>2. live \in SUBSET Blocks /\ DatabaseTypeOK
      BY DEF IInv, TypeOK, Stored
    <3> QED
      BY <3>1, <3>2 DEF Image, ImageType, IInv, DatabaseTypeOK
  <2>2. CASE disk' = disk
    BY <2>2 DEF IInv, TypeOK
  <2> QED
    BY <2>1, <2>2
       DEF Adopt, Listen, StartProcess, ReadLast, FetchBlock, FetchFails, Fails,
           StopProcess, vars
<1>4. faults' \in Nat /\ runs' \in Nat
  BY DEF IInv, TypeOK, Adopt, Listen, StartProcess, ReadLast, FetchBlock, FetchFails,
         NoAnswer, Fails, StopProcess, Checkpoint, vars
<1>5. /\ at' \in {"down", "listening"} \cup BackfillSteps \cup Ends \cup LiveSteps
      /\ head' \in Blocks \cup {NoBlock} /\ block' \in Blocks \cup {NoBlock}
      /\ lastHeight' \in Nat /\ chainTip' \in Nat /\ height' \in Nat
  BY <1>2 DEF IInv, TypeOK, BackfillSteps, Ends, LiveSteps, Adopt, Listen, StartProcess,
         ReadLast, FetchBlock, FetchFails, Fails, StopProcess, Gone, Checkpoint, vars, localVars
<1>6. TypeOK'
  BY <1>1, <1>3, <1>4, <1>5, SameStore DEF IInv, TypeOK
<1>7. /\ at' = "filled" => at = "filled" /\ chainTip' = chainTip
      /\ at' = "tip" => lastHeight' = LastHeight
      /\ at' \in {"fetch", "apply"} => height' = height /\ at \in {"fetch", "apply"}
      /\ at' = "apply" => block' \in Blocks /\ HeightOf[block'] = height'
      /\ at' \in LiveSteps => block' \in Blocks
      /\ at' = "store" => at = "store" /\ block' = block
  BY <1>2 DEF IInv, LoopInv, BackfillSteps, Ends, LiveSteps, Adopt, Listen, StartProcess,
         ReadLast, FetchBlock, FetchFails, Fails, StopProcess, Gone, Checkpoint, vars, localVars
<1>8. FillsToTip'
  BY <1>1, <1>7, SameStore DEF IInv, FillsToTip
<1>9. LoopInv'
  <2>1. at' \in {"fetch", "apply"} => height' > 0 /\ Below(height') /\ Founded(height')
    BY <1>7 DEF IInv, LoopInv
  <2>2. at' = "store" => Below(HeightOf[block'])
    BY <1>7 DEF IInv, LoopInv
  <2>3. /\ Below(height)' = Below(height') /\ Founded(height)' = Founded(height')
        /\ Below(HeightOf[block])' = Below(HeightOf[block'])
    BY <1>1 DEF Below, Founded, Stored, dbVars
  <2> QED
    BY <1>1, <1>7, <2>1, <2>2, <2>3, SameStore DEF LoopInv
<1>10. GoodStore(indexerState', live')
  BY <1>1 DEF IInv, dbVars
<1> QED
  BY <1>3, <1>6, <1>8, <1>9, <1>10 DEF IInv

-----------------------------------------------------------------------------
(* The invariant that the theorems rest on.                                *)
THEOREM BackfillCorrect == Spec => []IInv
<1>1. IInv /\ [Next]_vars => IInv'
  BY GetChainTipIInv, ApplyFetchedIInv, LiveIInv, RestoreIInv, OtherIInv DEF Next
<1> QED
  BY <1>1, InitIInv, PTL DEF Spec

(* What the store, the disk and the local variables can hold.              *)
THEOREM BackfillTypeCorrect == Spec => []TypeOK
<1>1. IInv => TypeOK
  BY DEF IInv
<1> QED
  BY <1>1, BackfillCorrect, PTL

(* Whatever the live pipeline stores between its runs, backfill_gaps       *)
(* stores no block above a missing height: where a height is missing, the  *)
(* block above it came live.                                               *)
THEOREM BackfillGapsAreLive == Spec => []GapsAreLive
<1>1. IInv => GapsAreLive
  BY DEF IInv, GapsAreLive, GoodStore, In, Stored
<1> QED
  BY <1>1, BackfillCorrect, PTL

(* No height is stored twice, though the node may fork between two runs,   *)
(* and blocks are announced above whatever a run has left.                 *)
THEOREM BackfillOncePerHeight == Spec => []OncePerHeight
<1>1. IInv => OncePerHeight
  BY DEF IInv, OncePerHeight, GoodStore, In, Stored
<1> QED
  BY <1>1, BackfillCorrect, PTL

(* A run that gets to its end has reached the tip it was told.             *)
THEOREM BackfillFillsToTip == Spec => []FillsToTip
<1>1. IInv => FillsToTip
  BY DEF IInv
<1> QED
  BY <1>1, BackfillCorrect, PTL
=============================================================================
