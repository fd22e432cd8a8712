--------------------------- MODULE IndexerProofs ---------------------------
(***************************************************************************)
(* The pipeline for every block tree, every number of threads, deliveries, *)
(* failures and stops: its types, what DatabaseProofs shows of the store   *)
(* for the running indexer, what its rollbacks may leave behind, how often *)
(* it stores a height and what it broadcasts; with one thread, that no     *)
(* height is ever stored twice.  Last, the setting that it is designed     *)
(* for, in which it implements ChainStore.                                 *)
(***************************************************************************)
EXTENDS Indexer, DatabaseProofs

-----------------------------------------------------------------------------
LEMMA HeightsType == Heights \subseteq Nat /\ \A b \in Blocks : HeightOf[b] \in Heights
  BY HeightAssumption DEF Heights

(* The block on the tip; there is one at most while the store is a branch. *)
Tip == IF TipBlocks = {} THEN NoBlock ELSE CHOOSE b \in TipBlocks : TRUE

LEMMA StoredKept == indexerState' = indexerState => Stored' = Stored /\ Tip' = Tip
  BY DEF Stored, TipBlocks, Tip

LEMMA BlockHeights == \A b \in Blocks : HeightOf[b] \in Nat
  BY HeightAssumption

LEMMA LastHeightType == LastHeight \in Heights \cup {0}
  BY HeightsType DEF LastHeight, TipBlocks, Stored

(* What prune_journal computes between its two locks is a cutoff.          *)
LEMMA PruneCutoff ==
    ASSUME LastHeight > KeepBlocks
    PROVE  LastHeight - KeepBlocks \in Cutoffs
  <1>1. LastHeight # 0 /\ KeepBlocks \in Nat
    BY LastHeightType, HeightsType, PruneAssumption
  <1>2. PICK b \in Blocks : LastHeight = HeightOf[b] /\ HeightOf[b] \in Nat
    BY <1>1, LastHeightType, HeightsType DEF Heights
  <1>3. LastHeight - KeepBlocks \in 0 .. HeightOf[b]
    BY <1>1, <1>2
  <1> QED BY <1>3 DEF Cutoffs

-----------------------------------------------------------------------------
(* Types.                                                                  *)

(* The parts of TypeOK apart from the store's, one per variable group.     *)
NodeType == head \in Blocks \cup {NoBlock} /\ deliveries \in [Blocks -> Nat]

ThreadType ==
    /\ pc \in [Threads -> Steps]
    /\ block \in [Threads -> Blocks \cup {NoBlock}]
    /\ \A t \in Threads : block[t] = NoBlock <=> pc[t] = "idle"
    /\ cutoff \in [Threads -> Cutoffs \cup {0}]
    /\ \A t \in Threads : pc[t] = "pruneDelete" => cutoff[t] \in Cutoffs
    /\ sent \in [Threads -> Nat]

OutType ==
    /\ lastBlockHeight \in Heights \cup {0}
    /\ feed \in [Messages -> Nat]
    /\ commits \in [Blocks -> Nat]

ServerType == phase \in {"up", "stopping", "down"} /\ queue \in Seq(Blocks)

BoundType == faults \in Nat /\ stops \in Nat

LEMMA TypeParts ==
    TypeOK <=> /\ DatabaseTypeOK /\ NodeType /\ ThreadType
               /\ OutType /\ ServerType /\ BoundType
  BY DEF TypeOK, NodeType, ThreadType, OutType, ServerType, BoundType

(* Counting one more of anything.                                          *)
LEMMA CountUp ==
    ASSUME NEW S, NEW f \in [S -> Nat], NEW x
    PROVE  [f EXCEPT ![x] = @ + 1] \in [S -> Nat]
  <1>1. ASSUME NEW y \in S PROVE (IF y = x THEN f[x] + 1 ELSE f[y]) \in Nat
    OBVIOUS
  <1> QED BY <1>1

(* A busy thread has a block.                                              *)
LEMMA BusyBlock ==
    ASSUME ThreadType, NEW t \in Threads, pc[t] # "idle"
    PROVE  block[t] \in Blocks
  BY NoBlockAssumption DEF ThreadType

LEMMA ReturnType ==
    ASSUME ThreadType, NEW t \in Threads, Return(t)
    PROVE  ThreadType'
  BY DEF ThreadType, Return, Goto, Steps

LEMMA GotoType ==
    ASSUME ThreadType, NEW t \in Threads, pc[t] # "idle",
           NEW s \in Steps \ {"idle", "pruneDelete"}, Goto(t, s),
           UNCHANGED <<block, cutoff>>, sent' \in [Threads -> Nat]
    PROVE  ThreadType'
  BY DEF ThreadType, Goto, Steps

LEMMA AfterPublishType ==
    ASSUME ThreadType, NEW t \in Threads, pc[t] # "idle", AfterPublish(t)
    PROVE  ThreadType'
  <1>1. CASE HeightOf[block[t]] % PruneEvery = 0
    <2>1. "pruneRead" \in Steps \ {"idle", "pruneDelete"}
      BY DEF Steps
    <2>2. sent' \in [Threads -> Nat]
      BY <1>1 DEF AfterPublish, ThreadType
    <2> QED BY <1>1, <2>1, <2>2, GotoType DEF AfterPublish
  <1>2. CASE HeightOf[block[t]] % PruneEvery # 0
    BY <1>2, ReturnType DEF AfterPublish
  <1> QED BY <1>1, <1>2

LEMMA ReturnEffect ==
    ASSUME ThreadType, NEW t \in Threads, Return(t)
    PROVE  pc'[t] = "idle" /\ block'[t] = NoBlock /\ cutoff'[t] = 0 /\ sent'[t] = 0
  BY DEF ThreadType, Return, Goto

LEMMA GotoEffect ==
    ASSUME ThreadType, NEW t \in Threads, NEW s, Goto(t, s)
    PROVE  pc'[t] = s
  BY DEF ThreadType, Goto

LEMMA AfterPublishEffect ==
    ASSUME ThreadType, NEW t \in Threads, AfterPublish(t)
    PROVE  \/ pc'[t] = "pruneRead" /\ block'[t] = block[t] /\ sent'[t] = sent[t]
           \/ pc'[t] = "idle" /\ sent'[t] = 0
  BY ReturnEffect, GotoEffect DEF AfterPublish

-----------------------------------------------------------------------------
(* Every step leaves the store alone or is one of its operations.          *)

LEMMA StepUsesDatabase ==
    ASSUME TypeOK, [Next]_vars
    PROVE  [DatabaseNext]_dbVars
  <1>1. ThreadType
    BY TypeParts
  <1>2. ASSUME NEW t \in Threads, HandleReorg(t) PROVE DatabaseNext
    <2>1. block[t] \in Blocks
      BY <1>1, <1>2, BusyBlock DEF HandleReorg
    <2> QED BY <1>2, <2>1, HeightsType DEF HandleReorg, DatabaseNext
  <1>3. ASSUME NEW t \in Threads, Store(t) PROVE DatabaseNext
    <2>1. block[t] \in Blocks
      BY <1>1, <1>3, BusyBlock DEF Store
    <2> QED BY <1>3, <2>1 DEF Store, DatabaseNext
  <1>4. ASSUME NEW t \in Threads, PruneDelete(t) PROVE DatabaseNext
    BY <1>1, <1>4 DEF PruneDelete, ThreadType, DatabaseNext
  <1>5. ASSUME NEW t \in Threads, Work(t) PROVE [DatabaseNext]_dbVars
    BY <1>2, <1>3, <1>4, <1>5
       DEF Work, Take, Detect, SetMetrics, PublishBlock, PublishEvent, PruneRead
  <1>6. ASSUME NEW t \in Threads, DatabaseError(t) PROVE UNCHANGED dbVars
    BY <1>6 DEF DatabaseError
  <1>7. ASSUME NEW b \in Blocks, NewBlock(b) \/ MissedBlock(b) PROVE UNCHANGED dbVars
    BY <1>7 DEF NewBlock, MissedBlock
  <1>8. CtrlC \/ CancelQueued \/ Exit \/ Kill \/ Start => UNCHANGED dbVars
    BY DEF CtrlC, CancelQueued, Exit, Kill, Start
  <1>9. CASE UNCHANGED vars
    BY <1>9 DEF vars
  <1> QED BY <1>5, <1>6, <1>7, <1>8, <1>9 DEF Next

LEMMA StoreStepType ==
    ASSUME DatabaseTypeOK, [DatabaseNext]_dbVars
    PROVE  DatabaseTypeOK'
  <1>1. ASSUME NEW b \in Blocks, ApplyBlock(b) PROVE DatabaseTypeOK'
    BY <1>1, ApplyType
  <1>2. ASSUME NEW h \in Heights, RollbackFromHeight(h) PROVE DatabaseTypeOK'
    BY <1>2, RollbackType
  <1>3. ASSUME NEW c \in Cutoffs, DeleteJournalBelow(c) PROVE DatabaseTypeOK'
    BY <1>3, PruneType, CutoffsType
  <1>4. CASE UNCHANGED dbVars
    BY <1>4 DEF dbVars, DatabaseTypeOK
  <1> QED BY <1>1, <1>2, <1>3, <1>4 DEF DatabaseNext

-----------------------------------------------------------------------------
(* Each action keeps the types of the variables outside the store.         *)

RestType == NodeType /\ ThreadType /\ OutType /\ ServerType /\ BoundType

LEMMA AnnounceType ==
    ASSUME RestType, NEW b \in Blocks, NewBlock(b) \/ MissedBlock(b)
    PROVE  RestType'
  <1>1. NodeType'
    BY DEF RestType, NodeType, NewBlock, MissedBlock, Announce, Adopt, Retry, Deliver
  <1>2. ServerType'
    BY DEF RestType, ServerType, NewBlock, MissedBlock
  <1>3. ThreadType' /\ OutType' /\ BoundType'
    BY DEF RestType, ThreadType, OutType, BoundType, NewBlock, MissedBlock,
           threadVars, outVars, boundVars
  <1> QED BY <1>1, <1>2, <1>3 DEF RestType

(* Taking a block from the queue.                                          *)
LEMMA TakeType ==
    ASSUME RestType, NEW t \in Threads, Take(t)
    PROVE  RestType'
  <1>1. Head(queue) \in Blocks /\ Tail(queue) \in Seq(Blocks)
    BY DEF Take, RestType, ServerType
  <1>2. ServerType'
    BY <1>1 DEF Take, RestType, ServerType
  <1>3. ThreadType'
    BY <1>1, NoBlockAssumption DEF Take, RestType, ThreadType, Goto, Steps
  <1>4. NodeType' /\ OutType' /\ BoundType'
    BY DEF Take, RestType, NodeType, OutType, BoundType, nodeVars, outVars, boundVars
  <1> QED BY <1>2, <1>3, <1>4 DEF RestType

(* The steps of process_block that only move the thread on.                *)
LEMMA MoveType ==
    ASSUME RestType, NEW t \in Threads, Detect(t) \/ HandleReorg(t) \/ Store(t)
    PROVE  RestType'
  <1>1. ThreadType'
    <2>1. pc[t] # "idle" /\ UNCHANGED <<block, cutoff>> /\ sent' \in [Threads -> Nat]
      BY DEF Detect, HandleReorg, Store, RestType, ThreadType
    <2>2. PICK s \in {"rollback", "store", "metrics"} : Goto(t, s)
      BY DEF Detect, HandleReorg, Store
    <2>3. s \in Steps \ {"idle", "pruneDelete"}
      BY <2>2 DEF Steps
    <2> QED BY <2>1, <2>2, <2>3, GotoType DEF RestType
  <1>2. NodeType' /\ ServerType' /\ BoundType'
    BY DEF Detect, HandleReorg, Store, RestType, NodeType, ServerType,
           BoundType, nodeVars, boundVars
  <1>3. OutType'
    <2>1. CASE Store(t)
      BY <2>1, CountUp DEF Store, RestType, OutType
    <2>2. CASE Detect(t) \/ HandleReorg(t)
      BY <2>2 DEF Detect, HandleReorg, RestType, OutType, outVars
    <2> QED BY <2>1, <2>2
  <1> QED BY <1>1, <1>2, <1>3 DEF RestType

LEMMA MetricsType ==
    ASSUME RestType, NEW t \in Threads, SetMetrics(t)
    PROVE  RestType'
  <1>1. block[t] \in Blocks
    BY BusyBlock DEF SetMetrics, RestType
  <1>2. ThreadType'
    <2>1. pc[t] # "idle" /\ UNCHANGED <<block, cutoff>> /\ sent' \in [Threads -> Nat]
          /\ Goto(t, "announce") /\ "announce" \in Steps \ {"idle", "pruneDelete"}
      BY DEF SetMetrics, RestType, ThreadType, Steps
    <2> QED BY <2>1, GotoType DEF RestType
  <1>3. OutType'
    BY <1>1, HeightsType DEF SetMetrics, RestType, OutType
  <1>4. NodeType' /\ ServerType' /\ BoundType'
    BY DEF SetMetrics, RestType, NodeType, ServerType, BoundType, nodeVars, boundVars
  <1> QED BY <1>2, <1>3, <1>4 DEF RestType

LEMMA PublishBlockType ==
    ASSUME RestType, NEW t \in Threads, PublishBlock(t)
    PROVE  RestType'
  <1>1. block[t] \in Blocks /\ pc[t] # "idle" /\ ThreadType
    BY BusyBlock DEF PublishBlock, RestType
  <1>2. ThreadType'
    <2>1. CASE Matched[block[t]] = <<>>
      BY <1>1, <2>1, AfterPublishType DEF PublishBlock
    <2>2. CASE Matched[block[t]] # <<>>
      <3>1. UNCHANGED <<block, cutoff>> /\ sent' \in [Threads -> Nat]
            /\ Goto(t, "publish") /\ "publish" \in Steps \ {"idle", "pruneDelete"}
        BY <1>1, <2>2 DEF PublishBlock, ThreadType, Steps
      <3> QED BY <1>1, <3>1, GotoType
    <2> QED BY <2>1, <2>2
  <1>3. OutType'
    BY CountUp DEF PublishBlock, Send, RestType, OutType
  <1>4. NodeType' /\ ServerType' /\ BoundType'
    BY DEF PublishBlock, RestType, NodeType, ServerType, BoundType, nodeVars, boundVars
  <1> QED BY <1>2, <1>3, <1>4 DEF RestType

LEMMA PublishEventType ==
    ASSUME RestType, NEW t \in Threads, PublishEvent(t)
    PROVE  RestType'
  <1>1. block[t] \in Blocks /\ pc[t] # "idle" /\ ThreadType /\ sent[t] \in Nat
    BY BusyBlock DEF PublishEvent, RestType, ThreadType
  <1>2. ThreadType'
    <2>1. CASE sent[t] + 1 = Len(Matched[block[t]])
      BY <1>1, <2>1, AfterPublishType DEF PublishEvent
    <2>2. CASE sent[t] + 1 # Len(Matched[block[t]])
      <3>1. UNCHANGED <<pc, block, cutoff>> /\ sent' = [sent EXCEPT ![t] = sent[t] + 1]
        BY <2>2 DEF PublishEvent
      <3>2. sent' \in [Threads -> Nat]
        BY <1>1, <3>1 DEF ThreadType
      <3> QED BY <1>1, <3>1, <3>2 DEF ThreadType
    <2> QED BY <2>1, <2>2
  <1>3. OutType'
    BY CountUp DEF PublishEvent, Send, RestType, OutType
  <1>4. NodeType' /\ ServerType' /\ BoundType'
    BY DEF PublishEvent, RestType, NodeType, ServerType, BoundType, nodeVars, boundVars
  <1> QED BY <1>2, <1>3, <1>4 DEF RestType

LEMMA PruneStepsType ==
    ASSUME RestType, NEW t \in Threads, PruneRead(t) \/ PruneDelete(t)
    PROVE  RestType'
  <1>1. ThreadType
    BY DEF RestType
  <1>2. ThreadType'
    <2>1. CASE PruneRead(t) /\ LastHeight > KeepBlocks
      <3>1. LastHeight - KeepBlocks \in Cutoffs
        BY <2>1, PruneCutoff
      <3>2. ~ (LastHeight <= KeepBlocks)
        BY <2>1, LastHeightType, HeightsType, PruneAssumption
      <3> QED BY <1>1, <2>1, <3>1, <3>2 DEF PruneRead, ThreadType, Goto, Steps
    <2>2. CASE PruneRead(t) /\ ~ (LastHeight > KeepBlocks)
      <3>1. LastHeight <= KeepBlocks
        BY <2>2, LastHeightType, HeightsType, PruneAssumption
      <3> QED BY <1>1, <2>2, <3>1, ReturnType DEF PruneRead
    <2>3. CASE PruneDelete(t)
      BY <1>1, <2>3, ReturnType DEF PruneDelete
    <2> QED BY <2>1, <2>2, <2>3
  <1>3. NodeType' /\ OutType' /\ ServerType' /\ BoundType'
    BY DEF PruneRead, PruneDelete, RestType, NodeType, OutType, ServerType,
           BoundType, nodeVars, outVars, boundVars
  <1> QED BY <1>2, <1>3 DEF RestType

LEMMA ErrorType ==
    ASSUME RestType, NEW t \in Threads, DatabaseError(t)
    PROVE  RestType'
  <1>1. ThreadType'
    BY ReturnType DEF DatabaseError, RestType
  <1>2. NodeType' /\ OutType' /\ ServerType' /\ BoundType'
    BY DEF DatabaseError, RestType, NodeType, OutType, ServerType, BoundType,
           nodeVars, outVars
  <1> QED BY <1>1, <1>2 DEF RestType

(* Stopping and starting.                                                  *)
LEMMA StopType ==
    ASSUME RestType, CtrlC \/ CancelQueued \/ Exit \/ Kill \/ Start
    PROVE  RestType'
  <1>1. ThreadType'
    <2>1. CASE Kill
      BY <2>1 DEF Kill, RestType, ThreadType, Steps
    <2>2. CASE CtrlC \/ CancelQueued \/ Exit \/ Start
      BY <2>2 DEF CtrlC, CancelQueued, Exit, Start, RestType, ThreadType, threadVars
    <2> QED BY <2>1, <2>2
  <1>2. ServerType'
    <2>1. CASE CancelQueued
      <3>1. Tail(queue) \in Seq(Blocks)
        BY <2>1 DEF CancelQueued, RestType, ServerType
      <3> QED BY <2>1, <3>1 DEF CancelQueued, RestType, ServerType
    <2>2. CASE Kill
      BY <2>2 DEF Kill, ServerType
    <2>3. CASE CtrlC \/ Exit \/ Start
      BY <2>3 DEF CtrlC, Exit, Start, RestType, ServerType
    <2> QED BY <2>1, <2>2, <2>3
  <1>3. OutType'
    BY DEF CtrlC, CancelQueued, Exit, Kill, Start, RestType, OutType, outVars
  <1>4. NodeType' /\ BoundType'
    BY DEF CtrlC, CancelQueued, Exit, Kill, Start, RestType, NodeType, BoundType,
           nodeVars, boundVars
  <1> QED BY <1>1, <1>2, <1>3, <1>4 DEF RestType

LEMMA InitType == Init => TypeOK
  BY StoreInitInv, NoBlockAssumption
     DEF Init, TypeOK, StoreInv, Steps

LEMMA NextType == TypeOK /\ [Next]_vars => TypeOK'
  <1> SUFFICES ASSUME TypeOK, [Next]_vars PROVE TypeOK'
    OBVIOUS
  <1>1. DatabaseTypeOK /\ RestType
    BY TypeParts DEF RestType
  <1>2. DatabaseTypeOK'
    BY <1>1, StepUsesDatabase, StoreStepType
  <1>3. RestType'
    <2>1. ASSUME NEW b \in Blocks, NewBlock(b) \/ MissedBlock(b) PROVE RestType'
      BY <1>1, <2>1, AnnounceType
    <2>2. ASSUME NEW t \in Threads, Work(t) PROVE RestType'
      BY <1>1, <2>2, TakeType, MoveType, MetricsType, PublishBlockType,
         PublishEventType, PruneStepsType DEF Work
    <2>3. ASSUME NEW t \in Threads, DatabaseError(t) PROVE RestType'
      BY <1>1, <2>3, ErrorType
    <2>4. CASE CtrlC \/ CancelQueued \/ Exit \/ Kill \/ Start
      BY <1>1, <2>4, StopType
    <2>5. CASE UNCHANGED vars
      BY <1>1, <2>5 DEF vars, nodeVars, threadVars, outVars, boundVars, RestType,
         NodeType, ThreadType, OutType, ServerType, BoundType
    <2> QED BY <2>1, <2>2, <2>3, <2>4, <2>5 DEF Next
  <1>4. (DatabaseTypeOK /\ RestType)' => TypeOK'
    BY DEF TypeOK, RestType, NodeType, ThreadType, OutType, ServerType, BoundType
  <1> QED BY <1>2, <1>3, <1>4

(* Types of the whole pipeline: among them that a busy thread has a block  *)
(* and that what a prune deletes below was computed from some block.       *)
THEOREM IndexerTypes == Spec => []TypeOK
  BY InitType, NextType, PTL DEF Spec

-----------------------------------------------------------------------------
(* The pipeline writes the store only by the operations of Database.       *)
LEMMA IndexerUsesDatabase == Spec => DatabaseSpec
  <1>1. Init => DatabaseInit
    BY DEF Init
  <1>2. TypeOK /\ [Next]_vars => [DatabaseNext]_dbVars
    BY StepUsesDatabase
  <1> QED BY <1>1, <1>2, IndexerTypes, PTL DEF Spec, DatabaseSpec

(* So a rollback of the running indexer leaves rows only below a height    *)
(* that was pruned, with any number of threads.                            *)
THEOREM IndexerNoOrphans == Spec => []NoOrphans
  BY IndexerUsesDatabase, StoreNoOrphans

(* And a block of _indexer_state is never short of a row.                  *)
THEOREM IndexerComplete == Spec => []StoredComplete
  BY IndexerUsesDatabase, StoreComplete

(* Nor, at heights no prune has touched, has any event a row more or less  *)
(* than its block has in _indexer_state: blocks stored twice by threads    *)
(* that raced have twice the rows, and a rollback takes all of them.       *)
THEOREM IndexerRowsPerState == Spec => []RowsPerState
  BY IndexerUsesDatabase, StoreRowsPerState

-----------------------------------------------------------------------------
(* Steps that neither store anything nor bring a thread to its store.      *)
QuietStep ==
    /\ indexerState' = indexerState
    /\ \A t \in Threads :
          pc'[t] = "store" => pc[t] = "store" /\ block'[t] = block[t]

LEMMA StepKinds ==
    ASSUME TypeOK, [Next]_vars
    PROVE  \/ \E t \in Threads : Detect(t) \/ HandleReorg(t) \/ Store(t)
           \/ QuietStep
  <1>1. ThreadType
    BY TypeParts
  <1>2. ASSUME NEW t \in Threads,
               Take(t) \/ SetMetrics(t) \/ PublishBlock(t) \/ PublishEvent(t)
               \/ PruneRead(t) \/ PruneDelete(t) \/ DatabaseError(t)
        PROVE  QuietStep
    <2>1. indexerState' = indexerState
      BY <1>2 DEF Take, SetMetrics, PublishBlock, PublishEvent, PruneRead, PruneDelete,
                  DatabaseError, DeleteJournalBelow, dbVars
    <2>2. pc'[t] # "store"
      BY <1>1, <1>2 DEF Take, SetMetrics, PublishBlock, PublishEvent, PruneRead,
                  PruneDelete, DatabaseError, AfterPublish, Return, Goto, ThreadType
    <2>3. \A s \in Threads \ {t} : pc'[s] = pc[s] /\ block'[s] = block[s]
      BY <1>1, <1>2 DEF Take, SetMetrics, PublishBlock, PublishEvent, PruneRead,
                  PruneDelete, DatabaseError, AfterPublish, Return, Goto, ThreadType
    <2> QED BY <2>1, <2>2, <2>3 DEF QuietStep
  <1>3. ASSUME NEW b \in Blocks, NewBlock(b) \/ MissedBlock(b) PROVE QuietStep
    BY <1>3 DEF NewBlock, MissedBlock, dbVars, threadVars, QuietStep
  <1>4. CASE CtrlC \/ CancelQueued \/ Exit \/ Kill \/ Start
    BY <1>4 DEF CtrlC, CancelQueued, Exit, Kill, Start, dbVars, threadVars, QuietStep
  <1>5. CASE UNCHANGED vars
    BY <1>5 DEF vars, dbVars, threadVars, QuietStep
  <1> QED BY <1>2, <1>3, <1>4, <1>5 DEF Next, Work

(* A thread goes on from detect_reorg to storing only when nothing is      *)
(* stored at or above its block's height.                                  *)
LEMMA DetectClear ==
    ASSUME TypeOK, NEW t \in Threads, Detect(t), pc'[t] = "store"
    PROVE  \A c \in Stored : HeightOf[c] < HeightOf[block[t]]
  <1>1. block[t] \in Blocks /\ ThreadType
    BY TypeParts, BusyBlock DEF Detect
  <1>2. CASE Stored = {}
    BY <1>2
  <1>3. CASE \E tip \in TipBlocks :
               Goto(t, IF IsReorg(block[t], tip) THEN "rollback" ELSE "store")
    <2>1. PICK tip \in TipBlocks :
               Goto(t, IF IsReorg(block[t], tip) THEN "rollback" ELSE "store")
      BY <1>3
    <2>2. ParentOf[block[t]] = tip
      BY <1>1, <2>1 DEF Goto, ThreadType, IsReorg
    <2>3. tip \in Blocks /\ \A c \in Stored : c \in Blocks /\ HeightOf[c] <= HeightOf[tip]
      BY DEF TipBlocks, Stored
    <2>4. HeightOf[block[t]] = HeightOf[tip] + 1
      BY <1>1, <2>2, <2>3, HeightAssumption, NoBlockAssumption
    <2>5. \A b \in Blocks : HeightOf[b] \in Nat
      BY HeightAssumption
    <2> QED BY <2>3, <2>4, <2>5
  <1> QED BY <1>2, <1>3 DEF Detect

-----------------------------------------------------------------------------
(* One thread.                                                             *)

(* A block about to be stored lies above all that is stored: detect_reorg  *)
(* saw its parent at the tip, or the rollback has just cleared its height. *)
AboveStored ==
    \A t \in Threads : pc[t] = "store" =>
        \A c \in Stored : HeightOf[c] < HeightOf[block[t]]

SerialInv == TypeOK /\ OnePerHeight /\ AboveStored

LEMMA SerialDetect ==
    ASSUME SerialInv, NEW t \in Threads, \A s \in Threads : s = t, Detect(t)
    PROVE  AboveStored'
  <1>1. UNCHANGED <<block, indexerState>>
    BY DEF Detect, dbVars
  <1>2. CASE pc'[t] = "store"
    <2>1. \A c \in Stored : HeightOf[c] < HeightOf[block[t]]
      BY <1>2, DetectClear DEF SerialInv
    <2>2. Stored' = Stored
      BY <1>1 DEF Stored
    <2> QED BY <1>1, <2>1, <2>2 DEF AboveStored
  <1>3. CASE pc'[t] # "store"
    BY <1>3 DEF AboveStored
  <1> QED BY <1>2, <1>3

LEMMA SerialRollback ==
    ASSUME SerialInv, NEW t \in Threads, \A s \in Threads : s = t, HandleReorg(t)
    PROVE  OnePerHeight' /\ AboveStored'
  <1>1. block[t] \in Blocks
    BY TypeParts, BusyBlock DEF SerialInv, HandleReorg
  <1>2. \A b \in Blocks : HeightOf[b] \in Nat
    BY HeightAssumption
  <1>3. \A c \in Stored' : c \in Stored /\ HeightOf[c] < HeightOf[block[t]]
                           /\ indexerState'[c] = indexerState[c]
    BY <1>1, <1>2 DEF HandleReorg, RollbackFromHeight, Stored
  <1> QED BY <1>3 DEF HandleReorg, SerialInv, OnePerHeight, AboveStored

LEMMA SerialStore ==
    ASSUME SerialInv, NEW t \in Threads, \A s \in Threads : s = t, Store(t)
    PROVE  OnePerHeight' /\ AboveStored'
  <1> DEFINE b == block[t]
  <1>1. b \in Blocks /\ ThreadType /\ DatabaseTypeOK
    BY TypeParts, BusyBlock DEF SerialInv, Store
  <1>2. \A c \in Blocks : HeightOf[c] \in Nat
    BY HeightAssumption
  <1>3. \A c \in Stored : c \in Blocks /\ HeightOf[c] < HeightOf[b]
    BY DEF SerialInv, AboveStored, Store, Stored
  <1>4. b \notin Stored /\ indexerState[b] = 0
    BY <1>1, <1>2, <1>3 DEF Stored, DatabaseTypeOK
  <1>5. \A c \in Blocks :
           indexerState'[c] = IF c = b THEN 1 ELSE indexerState[c]
    BY <1>1, <1>4 DEF Store, ApplyBlock, DatabaseTypeOK
  <1>6. \A c \in Stored' : c = b \/ (c # b /\ c \in Stored)
    BY <1>5 DEF Stored
  <1>7. OnePerHeight'
    <2>1. ASSUME NEW c \in Stored', NEW d \in Stored', HeightOf[c] = HeightOf[d]
          PROVE  indexerState'[c] = 1 /\ c = d
      <3>1. indexerState'[c] = 1
        BY <1>5, <1>6 DEF SerialInv, OnePerHeight, Stored
      <3>2. c = d
        BY <1>1, <1>2, <1>3, <1>6, <2>1 DEF SerialInv, OnePerHeight
      <3> QED BY <3>1, <3>2
    <2> QED BY <2>1 DEF OnePerHeight
  <1>8. AboveStored'
    BY <1>1 DEF Store, Goto, ThreadType, AboveStored
  <1> QED BY <1>7, <1>8

LEMMA SerialStart == Init => SerialInv
  BY InitType DEF Init, DatabaseInit, SerialInv, OnePerHeight, AboveStored, Stored

LEMMA SerialNext ==
    ASSUME \A s, t \in Threads : s = t
    PROVE  SerialInv /\ [Next]_vars => SerialInv'
  <1> SUFFICES ASSUME SerialInv, [Next]_vars PROVE SerialInv'
    OBVIOUS
  <1>1. TypeOK'
    BY NextType DEF SerialInv
  <1>2. ASSUME NEW t \in Threads, Detect(t) PROVE OnePerHeight' /\ AboveStored'
    <2>1. OnePerHeight'
      BY <1>2 DEF Detect, dbVars, SerialInv, OnePerHeight, Stored
    <2> QED BY <1>2, <2>1, SerialDetect
  <1>3. ASSUME NEW t \in Threads, HandleReorg(t) PROVE OnePerHeight' /\ AboveStored'
    BY <1>3, SerialRollback
  <1>4. ASSUME NEW t \in Threads, Store(t) PROVE OnePerHeight' /\ AboveStored'
    BY <1>4, SerialStore
  <1>5. CASE QuietStep
    <2>1. Stored' = Stored
      BY <1>5 DEF QuietStep, Stored
    <2> QED BY <1>1, <1>5, <2>1 DEF QuietStep, SerialInv, OnePerHeight, AboveStored
  <1> QED BY <1>1, <1>2, <1>3, <1>4, <1>5, StepKinds DEF SerialInv

(* Were process_block run by one thread, no height would ever be stored    *)
(* twice, through forks announced without replay, repeated deliveries,     *)
(* failing operations and crashes at any point.                            *)
THEOREM SerialOnePerHeight ==
    ASSUME \A s, t \in Threads : s = t
    PROVE  Spec => []OnePerHeight
  <1>1. Init => SerialInv
    BY SerialStart
  <1>2. SerialInv /\ [Next]_vars => SerialInv'
    BY SerialNext
  <1>3. SerialInv => OnePerHeight
    BY DEF SerialInv
  <1> QED BY <1>1, <1>2, <1>3, PTL DEF Spec

-----------------------------------------------------------------------------
(* One thread: the gauge.                                                  *)

(* From the store on, the height of the thread's block is that of the tip, *)
(* and the gauge is set to it.  A failing operation leaves the gauge       *)
(* behind a rollback.                                                      *)
TipLine(t) ==
    /\ phase = "down" => pc[t] = "idle"
    /\ pc[t] = "metrics" => LastHeight = HeightOf[block[t]]
    /\ phase # "up" => stops > 0
    /\ pc[t] \in {"announce", "publish", "pruneRead", "pruneDelete"} =>
          lastBlockHeight = LastHeight
    /\ pc[t] \in {"idle", "detect"} /\ phase # "down" /\ faults = 0 =>
          \/ lastBlockHeight = LastHeight
          \/ lastBlockHeight = 0 /\ stops > 0

LEMMA LastHeightKept == indexerState' = indexerState => LastHeight' = LastHeight
  BY DEF LastHeight, TipBlocks, Stored

(* A block stored above all others is the tip.                             *)
LEMMA StoreTip ==
    ASSUME SerialInv, NEW t \in Threads, Store(t)
    PROVE  LastHeight' = HeightOf[block[t]]
  <1> DEFINE b == block[t]
  <1>1. b \in Blocks /\ DatabaseTypeOK
    BY TypeParts, BusyBlock DEF SerialInv, Store
  <1>2. \A c \in Stored : c \in Blocks /\ HeightOf[c] < HeightOf[b]
    BY DEF SerialInv, AboveStored, Store, Stored
  <1>3. \A c \in Blocks : HeightOf[c] \in Nat
    BY HeightAssumption
  <1>4. \A c \in Blocks :
           indexerState'[c] = IF c = b THEN indexerState[b] + 1 ELSE indexerState[c]
    BY <1>1 DEF Store, ApplyBlock, DatabaseTypeOK
  <1>5. indexerState[b] \in Nat
    BY <1>1 DEF DatabaseTypeOK
  <1>6. b \in Stored' /\ \A c \in Stored' : c = b \/ (c # b /\ c \in Stored)
    BY <1>1, <1>4, <1>5 DEF Stored
  <1>7. TipBlocks' = {b}
    <2>1. \A c \in Stored' : HeightOf[c] <= HeightOf[b]
      BY <1>1, <1>2, <1>3, <1>6
    <2>2. \A c \in Stored' : HeightOf[b] <= HeightOf[c] => c = b
      BY <1>1, <1>2, <1>3, <1>6
    <2> QED BY <1>6, <2>1, <2>2 DEF TipBlocks
  <1> QED BY <1>7 DEF LastHeight

LEMMA TipWork ==
    ASSUME SerialInv, NEW t \in Threads, TipLine(t), Work(t) \/ DatabaseError(t)
    PROVE  TipLine(t)'
  <1>1. ThreadType /\ faults \in Nat
    BY TypeParts DEF SerialInv, TypeOK
  <1>2. (pc[t] # "idle" => phase # "down") /\ (phase # "up" => stops > 0)
    BY DEF TipLine
  <1>12. stops' = stops
    BY DEF Work, Take, Detect, HandleReorg, Store, SetMetrics, PublishBlock,
           PublishEvent, PruneRead, PruneDelete, DatabaseError, boundVars
  <1>3. CASE Take(t)
    <2>1. /\ pc[t] = "idle" /\ pc'[t] = "detect" /\ phase # "down"
          /\ UNCHANGED <<indexerState, phase, lastBlockHeight, faults>>
      BY <1>1, <1>3 DEF Take, dbVars, outVars, boundVars, Goto, ThreadType
    <2> QED BY <1>2, <1>12, <2>1, LastHeightKept DEF TipLine
  <1>4. CASE Detect(t)
    <2>1. phase' = phase /\ pc[t] = "detect" /\ pc'[t] \in {"store", "rollback"}
      BY <1>1, <1>4 DEF Detect, Goto, ThreadType
    <2> QED BY <1>2, <1>12, <2>1 DEF TipLine
  <1>5. CASE HandleReorg(t)
    <2>1. phase' = phase /\ pc[t] = "rollback" /\ pc'[t] = "store"
      BY <1>1, <1>5 DEF HandleReorg, Goto, ThreadType
    <2> QED BY <1>2, <1>12, <2>1 DEF TipLine
  <1>6. CASE Store(t)
    <2>1. phase' = phase /\ pc[t] = "store" /\ pc'[t] = "metrics" /\ block' = block
      BY <1>1, <1>6 DEF Store, Goto, ThreadType
    <2> QED BY <1>2, <1>6, <1>12, <2>1, StoreTip DEF TipLine
  <1>7. CASE SetMetrics(t)
    <2>1. /\ phase' = phase /\ pc[t] = "metrics" /\ pc'[t] = "announce"
          /\ lastBlockHeight' = HeightOf[block[t]] /\ indexerState' = indexerState
      BY <1>1, <1>7 DEF SetMetrics, Goto, ThreadType, dbVars
    <2> QED BY <1>2, <1>12, <2>1, LastHeightKept DEF TipLine
  <1>8. CASE PublishBlock(t) \/ PublishEvent(t)
    <2>1. /\ pc[t] \in {"announce", "publish"}
          /\ pc'[t] \in {"publish", "pruneRead", "idle"}
          /\ UNCHANGED <<indexerState, phase, lastBlockHeight>>
      BY <1>1, <1>8 DEF PublishBlock, PublishEvent, AfterPublish, Return, Goto,
                        ThreadType, dbVars
    <2> QED BY <1>2, <1>12, <2>1, LastHeightKept DEF TipLine
  <1>9. CASE PruneRead(t)
    <2>1. /\ pc[t] = "pruneRead"
          /\ UNCHANGED <<indexerState, phase, lastBlockHeight>>
          /\ pc'[t] \in {"idle", "pruneDelete"}
      BY <1>1, <1>9 DEF PruneRead, Return, Goto, ThreadType, dbVars, outVars
    <2> QED BY <1>2, <1>12, <2>1, LastHeightKept DEF TipLine
  <1>10. CASE PruneDelete(t)
    <2>1. /\ pc[t] = "pruneDelete" /\ pc'[t] = "idle"
          /\ UNCHANGED <<indexerState, phase, lastBlockHeight>>
      BY <1>1, <1>10 DEF PruneDelete, DeleteJournalBelow, Return, Goto, ThreadType, outVars
    <2> QED BY <1>2, <1>12, <2>1, LastHeightKept DEF TipLine
  <1>11. CASE DatabaseError(t)
    <2>1. pc'[t] = "idle" /\ faults' = faults + 1 /\ phase' = phase
      BY <1>1, <1>11 DEF DatabaseError, Return, Goto, ThreadType
    <2> QED BY <1>1, <1>2, <1>12, <2>1 DEF TipLine
  <1> QED BY <1>3, <1>4, <1>5, <1>6, <1>7, <1>8, <1>9, <1>10, <1>11 DEF Work

LEMMA TipNext ==
    ASSUME \A s, t \in Threads : s = t
    PROVE  SerialInv /\ (\A t \in Threads : TipLine(t)) /\ [Next]_vars
               => (\A t \in Threads : TipLine(t))'
  <1> SUFFICES ASSUME SerialInv, \A t \in Threads : TipLine(t), [Next]_vars,
                      NEW t \in Threads
               PROVE  TipLine(t)'
    OBVIOUS
  <1>1. CASE \E s \in Threads : Work(s) \/ DatabaseError(s)
    BY <1>1, TipWork
  <1>2. ASSUME NEW b \in Blocks, NewBlock(b) \/ MissedBlock(b) PROVE TipLine(t)'
    BY <1>2, LastHeightKept
       DEF NewBlock, MissedBlock, dbVars, threadVars, outVars, boundVars, TipLine
  <1>3. CASE CtrlC
    <2>1. stops' = stops + 1 /\ stops \in Nat
      BY <1>3 DEF CtrlC, SerialInv, TypeOK
    <2> QED BY <1>3, <2>1, LastHeightKept DEF CtrlC, dbVars, threadVars, outVars, TipLine
  <1>4. CASE CancelQueued
    BY <1>4, LastHeightKept DEF CancelQueued, dbVars, threadVars, outVars, boundVars, TipLine
  <1>5. CASE Exit
    BY <1>5 DEF Exit, threadVars, boundVars, TipLine
  <1>6. CASE Kill
    <2>1. stops' = stops + 1 /\ stops \in Nat
      BY <1>6 DEF Kill, SerialInv, TypeOK
    <2> QED BY <1>6, <2>1 DEF Kill, TipLine
  <1>7. CASE Start
    BY <1>7 DEF Start, threadVars, boundVars, TipLine
  <1>8. CASE UNCHANGED vars
    BY <1>8, LastHeightKept DEF vars, dbVars, threadVars, outVars, boundVars, TipLine
  <1> QED BY <1>1, <1>2, <1>3, <1>4, <1>5, <1>6, <1>7, <1>8 DEF Next

LEMMA TipAlways ==
    ASSUME \A s, t \in Threads : s = t
    PROVE  Spec => [](SerialInv /\ \A t \in Threads : TipLine(t))
  <1>1. Init => SerialInv /\ \A t \in Threads : TipLine(t)
    BY InitType, SerialStart DEF Init, DatabaseInit, LastHeight, TipBlocks, Stored, TipLine
  <1>2. SerialInv /\ [Next]_vars => SerialInv'
    BY SerialNext
  <1> QED BY <1>1, <1>2, TipNext, PTL DEF Spec

(* With one thread, and until an operation fails, the gauge shows the tip  *)
(* whenever the pipeline rests (or 0 after a restart): through forks of    *)
(* any depth, replayed or not, late retries, stops and crashes.            *)
THEOREM SerialGauge ==
    ASSUME \A s, t \in Threads : s = t
    PROVE  Spec => [](faults = 0 => GaugeShowsTip)
  <1>1. SerialInv /\ (\A t \in Threads : TipLine(t)) => (faults = 0 => GaugeShowsTip)
    BY ThreadsAssumption DEF TipLine, GaugeShowsTip, Quiescent, Drained
  <1> QED BY <1>1, TipAlways, PTL

-----------------------------------------------------------------------------
(* Any number of threads: how often a height may be stored.                *)

CopiesInv ==
    /\ TypeOK
    /\ \A h \in Heights : IsFiniteSet(StateRows(h))
    /\ CopiesBounded

(* The rows of a height are none when no block of that height is stored,   *)
(* and the same when the rows of its blocks are.                           *)
LEMMA StateRowsEmpty ==
    ASSUME DatabaseTypeOK, NEW h \in Heights, \A c \in Stored : HeightOf[c] # h
    PROVE  StateRows(h) = {}
  <1>1. ASSUME NEW b \in Blocks, HeightOf[b] = h PROVE 1 .. indexerState[b] = {}
    <2>1. indexerState[b] \in Nat /\ ~ (indexerState[b] > 0)
      BY <1>1 DEF DatabaseTypeOK, Stored
    <2> QED BY <2>1
  <1> QED BY <1>1 DEF StateRows

LEMMA StateRowsKept ==
    ASSUME NEW h \in Heights,
           \A b \in Blocks : HeightOf[b] = h => indexerState'[b] = indexerState[b]
    PROVE  StateRows(h)' = StateRows(h)
  BY DEF StateRows

(* The threads committed to a height are some of all.                      *)
LEMMA CommittedFinite ==
    ASSUME IsFiniteSet(Threads), NEW h
    PROVE  /\ IsFiniteSet(Committed(h)) /\ Cardinality(Committed(h)) \in Nat
           /\ IsFiniteSet(Committed(h)') /\ Cardinality(Committed(h)') \in Nat
           /\ Cardinality(Committed(h)') <= Cardinality(Threads)
           /\ Cardinality(Threads) \in Nat
  <1>1. Committed(h) \subseteq Threads /\ Committed(h)' \subseteq Threads
    BY DEF Committed
  <1> QED BY <1>1, FS_Subset, FS_CardinalityType

(* What has to be shown of a height after a step.                          *)
Bounded(h) ==
    /\ IsFiniteSet(StateRows(h))
    /\ Cardinality(StateRows(h)) + Cardinality(Committed(h)) <= Cardinality(Threads)

(* A height with no rows left is bounded, whoever is committed to it.      *)
LEMMA EmptyBounded ==
    ASSUME IsFiniteSet(Threads), NEW h \in Heights, StateRows(h)' = {}
    PROVE  Bounded(h)'
  <1>1. IsFiniteSet(StateRows(h)') /\ Cardinality(StateRows(h)') = 0
    BY FS_EmptySet
  <1> QED BY <1>1, CommittedFinite DEF Bounded

(* So is one whose rows stay and to which no thread becomes committed.     *)
LEMMA KeptBounded ==
    ASSUME IsFiniteSet(Threads), NEW h \in Heights, Bounded(h),
           StateRows(h)' = StateRows(h), Committed(h)' \subseteq Committed(h)
    PROVE  Bounded(h)'
  <1>1. Cardinality(Committed(h)') <= Cardinality(Committed(h))
    BY CommittedFinite, FS_Subset
  <1>2. Cardinality(StateRows(h)) \in Nat
    BY FS_CardinalityType DEF Bounded
  <1> QED BY <1>1, <1>2, CommittedFinite DEF Bounded

LEMMA CopiesDetect ==
    ASSUME IsFiniteSet(Threads), CopiesInv, NEW t \in Threads, Detect(t),
           NEW h \in Heights, Bounded(h)
    PROVE  Bounded(h)'
  <1>1. /\ ThreadType /\ DatabaseTypeOK /\ block' = block
        /\ indexerState' = indexerState
        /\ \A s \in Threads \ {t} : pc'[s] = pc[s]
    BY TypeParts DEF CopiesInv, Detect, dbVars, Goto, ThreadType
  <1>2. StateRows(h)' = StateRows(h)
    BY <1>1, StateRowsKept
  <1>3. CASE pc'[t] = "store" /\ HeightOf[block[t]] = h
    <2>1. \A b \in Blocks : HeightOf[b] \in Nat
      BY HeightAssumption
    <2>2. \A c \in Stored : HeightOf[c] < h /\ c \in Blocks
      BY <1>3, DetectClear DEF CopiesInv, Stored
    <2>3. StateRows(h) = {}
      BY <1>1, <2>1, <2>2, StateRowsEmpty
    <2> QED BY <1>2, <2>3, EmptyBounded
  <1>4. CASE ~ (pc'[t] = "store" /\ HeightOf[block[t]] = h)
    <2>1. Committed(h)' \subseteq Committed(h)
      BY <1>1, <1>4 DEF Committed
    <2> QED BY <1>2, <2>1, KeptBounded
  <1> QED BY <1>3, <1>4

LEMMA CopiesRollback ==
    ASSUME IsFiniteSet(Threads), CopiesInv, NEW t \in Threads, HandleReorg(t),
           NEW h \in Heights, Bounded(h)
    PROVE  Bounded(h)'
  <1> DEFINE k == HeightOf[block[t]]
  <1>1. /\ ThreadType /\ block[t] \in Blocks /\ block' = block
        /\ \A s \in Threads \ {t} : pc'[s] = pc[s]
    BY TypeParts, BusyBlock DEF CopiesInv, HandleReorg, Goto, ThreadType
  <1>2. h \in Nat /\ k \in Nat
    BY <1>1, HeightsType
  <1>3. CASE h >= k
    <2>1. \A b \in Blocks : HeightOf[b] = h => indexerState'[b] = 0
      BY <1>2, <1>3 DEF HandleReorg, RollbackFromHeight
    <2>2. StateRows(h)' = {}
      BY <2>1 DEF StateRows
    <2> QED BY <2>2, EmptyBounded
  <1>4. CASE h < k
    <2>1. \A b \in Blocks : HeightOf[b] = h => indexerState'[b] = indexerState[b]
      BY <1>2, <1>4 DEF HandleReorg, RollbackFromHeight
    <2>2. Committed(h)' \subseteq Committed(h)
      BY <1>1, <1>2, <1>4 DEF Committed
    <2> QED BY <2>1, <2>2, StateRowsKept, KeptBounded
  <1> QED BY <1>2, <1>3, <1>4

LEMMA CopiesStore ==
    ASSUME IsFiniteSet(Threads), CopiesInv, NEW t \in Threads, Store(t),
           NEW h \in Heights, Bounded(h)
    PROVE  Bounded(h)'
  <1> DEFINE b == block[t]
             n == indexerState[b]
  <1>1. ThreadType /\ DatabaseTypeOK /\ b \in Blocks /\ block' = block /\ n \in Nat
    BY TypeParts, BusyBlock DEF CopiesInv, Store, DatabaseTypeOK
  <1>2. \A c \in Blocks : indexerState'[c] = IF c = b THEN n + 1 ELSE indexerState[c]
    BY <1>1 DEF Store, ApplyBlock, DatabaseTypeOK
  <1>3. Committed(h)' = Committed(h) \ {t}
    BY <1>1 DEF Store, Goto, ThreadType, Committed
  <1>4. CASE HeightOf[b] # h
    BY <1>1, <1>2, <1>3, <1>4, StateRowsKept, KeptBounded
  <1>5. CASE HeightOf[b] = h
    <2>1. 1 .. n + 1 = (1 .. n) \cup {n + 1} /\ n + 1 \notin 1 .. n
      BY <1>1
    <2>2. StateRows(h)' = StateRows(h) \cup {<<b, n + 1>>}
      BY <1>1, <1>2, <1>5, <2>1 DEF StateRows
    <2>3. <<b, n + 1>> \notin StateRows(h)
      BY <2>1 DEF StateRows
    <2>4. /\ IsFiniteSet(StateRows(h)')
          /\ Cardinality(StateRows(h)') = Cardinality(StateRows(h)) + 1
      BY <2>2, <2>3, FS_AddElement DEF Bounded
    <2>5. t \in Committed(h)
      BY <1>5 DEF Store, Committed
    <2>6. Cardinality(Committed(h)') = Cardinality(Committed(h)) - 1
      BY <1>3, <2>5, CommittedFinite, FS_RemoveElement
    <2>7. Cardinality(StateRows(h)) \in Nat
      BY FS_CardinalityType DEF Bounded
    <2> QED BY <2>4, <2>6, <2>7, CommittedFinite DEF Bounded
  <1> QED BY <1>4, <1>5

LEMMA CopiesNext ==
    ASSUME IsFiniteSet(Threads)
    PROVE  CopiesInv /\ [Next]_vars => CopiesInv'
  <1> SUFFICES ASSUME CopiesInv, [Next]_vars, NEW h \in Heights PROVE Bounded(h)'
    BY NextType DEF CopiesInv, CopiesBounded, Bounded
  <1>1. Bounded(h)
    BY DEF CopiesInv, CopiesBounded, Bounded
  <1>2. CASE QuietStep
    <2>1. StateRows(h)' = StateRows(h)
      BY <1>2, StateRowsKept DEF QuietStep
    <2>2. Committed(h)' \subseteq Committed(h)
      BY <1>2 DEF QuietStep, Committed
    <2> QED BY <1>1, <2>1, <2>2, KeptBounded
  <1> QED BY <1>1, <1>2, StepKinds, CopiesDetect, CopiesRollback, CopiesStore DEF CopiesInv

(* However many threads race between detect_reorg and apply_block, and     *)
(* however blocks are delivered again, branches change, operations fail    *)
(* and the server stops: no height is stored more often than there are     *)
(* threads.                                                                *)
THEOREM IndexerCopiesBounded ==
    ASSUME IsFiniteSet(Threads)
    PROVE  Spec => []CopiesBounded
  <1>1. Init => CopiesInv
    <2> SUFFICES ASSUME Init, NEW h \in Heights PROVE Bounded(h)
      BY InitType DEF CopiesInv, CopiesBounded, Bounded
    <2>1. StateRows(h) = {}
      BY DEF Init, DatabaseInit, StateRows
    <2>2. Committed(h) = {}
      BY DEF Init, Committed
    <2>3. Cardinality(Threads) \in Nat
      BY FS_CardinalityType
    <2> QED BY <2>1, <2>2, <2>3, FS_EmptySet DEF Bounded
  <1>2. CopiesInv /\ [Next]_vars => CopiesInv'
    BY CopiesNext
  <1>3. CopiesInv => CopiesBounded
    BY DEF CopiesInv
  <1> QED BY <1>1, <1>2, <1>3, PTL DEF Spec

-----------------------------------------------------------------------------
(* Any number of threads: what a prune may take out of a rollback's reach. *)

(* Every block at work or stored was announced, and no cutoff, computed or *)
(* applied, comes nearer than KeepBlocks to the highest block announced.   *)
DeepInv ==
    /\ TypeOK
    /\ \A i \in 1 .. Len(queue) : queue[i] \in Announced
    /\ \A t \in Threads : pc[t] # "idle" => block[t] \in Announced
    /\ Stored \subseteq Announced
    /\ \A t \in Threads : pc[t] = "pruneDelete" /\ cutoff[t] > 0 =>
          \E a \in Announced : cutoff[t] + KeepBlocks <= HeightOf[a]
    /\ prunedTo > 0 => \E a \in Announced : prunedTo + KeepBlocks <= HeightOf[a]

(* A tip above zero is the height of a stored block.                       *)
LEMMA TipIsStored ==
    ASSUME LastHeight # 0
    PROVE  \E a \in Stored : LastHeight = HeightOf[a]
  BY DEF LastHeight, TipBlocks

LEMMA AnnouncedGrows ==
    ASSUME NodeType, [Next]_vars
    PROVE  Announced \subseteq Announced'
  <1>1. ASSUME NEW b \in Blocks, NewBlock(b) \/ MissedBlock(b)
        PROVE  Announced \subseteq Announced'
    <2>1. deliveries' = [deliveries EXCEPT ![b] = @ + 1]
      BY <1>1 DEF NewBlock, MissedBlock, Announce, Adopt, Retry, Deliver
    <2> QED BY <2>1 DEF NodeType, Announced
  <1>2. CASE UNCHANGED deliveries
    BY <1>2 DEF Announced
  <1>3. ASSUME NEW t \in Threads, Work(t) \/ DatabaseError(t) PROVE UNCHANGED deliveries
    BY <1>3 DEF Work, Take, Detect, HandleReorg, Store, SetMetrics, PublishBlock,
                PublishEvent, PruneRead, PruneDelete, DatabaseError, nodeVars
  <1>4. CtrlC \/ CancelQueued \/ Exit \/ Kill \/ Start => UNCHANGED deliveries
    BY DEF CtrlC, CancelQueued, Exit, Kill, Start, nodeVars
  <1>5. UNCHANGED vars => UNCHANGED deliveries
    BY DEF vars, nodeVars
  <1> QED BY <1>1, <1>2, <1>3, <1>4, <1>5 DEF Next

(* What a thread's step does to the queue, its block and the store.        *)
LEMMA DeepWork ==
    ASSUME DeepInv, [Next]_vars, NEW t \in Threads, Work(t) \/ DatabaseError(t)
    PROVE  DeepInv'
  <1>1. ThreadType /\ queue \in Seq(Blocks) /\ DatabaseTypeOK /\ NodeType
    BY TypeParts DEF DeepInv, ServerType
  <1>2. TypeOK' /\ Announced \subseteq Announced'
    BY <1>1, NextType, AnnouncedGrows DEF DeepInv
  <1>3. Announced' = Announced
    BY DEF Work, Take, Detect, HandleReorg, Store, SetMetrics, PublishBlock, PublishEvent,
           PruneRead, PruneDelete, DatabaseError, nodeVars, Announced
  <1>4. \A s \in Threads \ {t} : pc'[s] = pc[s] /\ block'[s] = block[s] /\ cutoff'[s] = cutoff[s]
    BY <1>1 DEF Work, Take, Detect, HandleReorg, Store, SetMetrics, PublishBlock,
                PublishEvent, PruneRead, PruneDelete, DatabaseError, AfterPublish,
                Return, Goto, ThreadType
  <1>5. ASSUME NEW i \in 1 .. Len(queue') PROVE queue'[i] \in Announced
    <2>1. CASE Take(t)
      <3>1. queue # <<>> /\ queue' = Tail(queue)
        BY <2>1 DEF Take
      <3>2. queue'[i] = queue[i + 1] /\ i + 1 \in 1 .. Len(queue)
        BY <1>1, <3>1
      <3> QED BY <3>2 DEF DeepInv
    <2>2. CASE ~ Take(t)
      <3>1. queue' = queue
        BY <2>2 DEF Work, Detect, HandleReorg, Store, SetMetrics, PublishBlock,
                    PublishEvent, PruneRead, PruneDelete, DatabaseError
      <3> QED BY <3>1 DEF DeepInv
    <2> QED BY <2>1, <2>2
  <1>6. ASSUME pc'[t] # "idle" PROVE block'[t] \in Announced
    <2>1. CASE Take(t)
      <3>1. queue # <<>> /\ block'[t] = queue[1] /\ 1 \in 1 .. Len(queue)
        BY <1>1, <2>1 DEF Take, ThreadType
      <3> QED BY <3>1 DEF DeepInv
    <2>2. CASE ~ Take(t)
      <3>1. pc[t] # "idle" /\ block'[t] = block[t]
        BY <1>1, <1>6, <2>2
           DEF Work, Detect, HandleReorg, Store, SetMetrics, PublishBlock, PublishEvent,
               PruneRead, PruneDelete, DatabaseError, AfterPublish, Return, Goto, ThreadType
      <3> QED BY <3>1 DEF DeepInv
    <2> QED BY <2>1, <2>2
  <1>7. Stored' \subseteq Announced
    <2>1. CASE Store(t)
      <3>1. block[t] \in Announced /\ block[t] \in Blocks
        BY <1>1, <2>1, BusyBlock DEF Store, DeepInv
      <3>2. Stored' \subseteq Stored \cup {block[t]}
        BY <1>1, <2>1, <3>1 DEF Store, ApplyBlock, Stored, DatabaseTypeOK
      <3> QED BY <3>1, <3>2 DEF DeepInv
    <2>2. CASE HandleReorg(t)
      BY <2>2 DEF HandleReorg, RollbackFromHeight, Stored, DeepInv
    <2>3. CASE ~ (Store(t) \/ HandleReorg(t))
      <3>1. indexerState' = indexerState
        BY <2>3 DEF Work, Take, Detect, SetMetrics, PublishBlock, PublishEvent, PruneRead,
                    PruneDelete, DeleteJournalBelow, DatabaseError, dbVars
      <3> QED BY <3>1, StoredKept DEF DeepInv
    <2> QED BY <2>1, <2>2, <2>3
  <1>8. ASSUME pc'[t] = "pruneDelete"
        PROVE  \E a \in Announced : cutoff'[t] + KeepBlocks <= HeightOf[a]
    <2>1. PruneRead(t) /\ ~ (LastHeight <= KeepBlocks) /\ cutoff'[t] = LastHeight - KeepBlocks
      <3>1. PruneRead(t)
        BY <1>1, <1>8 DEF Work, Take, Detect, HandleReorg, Store, SetMetrics, PublishBlock,
               PublishEvent, PruneDelete, DatabaseError, AfterPublish, Return, Goto, ThreadType
      <3> QED BY <1>1, <1>8, <3>1, ReturnEffect DEF PruneRead, ThreadType
    <2>2. LastHeight \in Nat /\ KeepBlocks \in Nat
      BY LastHeightType, HeightsType, PruneAssumption
    <2>3. PICK a \in Stored : LastHeight = HeightOf[a]
      BY <2>1, <2>2, TipIsStored
    <2>4. a \in Announced /\ cutoff'[t] + KeepBlocks <= HeightOf[a]
      BY <2>1, <2>2, <2>3 DEF DeepInv
    <2> QED BY <2>4
  <1>9. prunedTo' > 0 => \E a \in Announced : prunedTo' + KeepBlocks <= HeightOf[a]
    <2>1. CASE PruneDelete(t)
      <3>1. /\ pc[t] = "pruneDelete" /\ cutoff[t] \in Nat /\ prunedTo \in Nat
            /\ prunedTo' = IF cutoff[t] > prunedTo THEN cutoff[t] ELSE prunedTo
        BY <1>1, <2>1, CutoffsType
           DEF PruneDelete, DeleteJournalBelow, ThreadType, DatabaseTypeOK
      <3>2. CASE cutoff[t] > prunedTo
        BY <3>1, <3>2 DEF DeepInv
      <3>3. CASE ~ (cutoff[t] > prunedTo)
        BY <3>1, <3>3 DEF DeepInv
      <3> QED BY <3>2, <3>3
    <2>2. CASE ~ PruneDelete(t)
      <3>1. prunedTo' = prunedTo
        BY <2>2 DEF Work, Take, Detect, HandleReorg, RollbackFromHeight, Store, ApplyBlock,
                    SetMetrics, PublishBlock, PublishEvent, PruneRead, DatabaseError, dbVars
      <3> QED BY <3>1 DEF DeepInv
    <2> QED BY <2>1, <2>2
  <1>10. \A s \in Threads : pc'[s] # "idle" => block'[s] \in Announced
    BY <1>4, <1>6 DEF DeepInv
  <1>11. \A s \in Threads : pc'[s] = "pruneDelete" /\ cutoff'[s] > 0 =>
            \E a \in Announced : cutoff'[s] + KeepBlocks <= HeightOf[a]
    BY <1>4, <1>8 DEF DeepInv
  <1> QED BY <1>2, <1>3, <1>5, <1>7, <1>9, <1>10, <1>11 DEF DeepInv

LEMMA DeepNext == DeepInv /\ [Next]_vars => DeepInv'
  <1> SUFFICES ASSUME DeepInv, [Next]_vars PROVE DeepInv'
    OBVIOUS
  <1>1. queue \in Seq(Blocks) /\ NodeType
    BY TypeParts DEF DeepInv, ServerType
  <1>2. TypeOK' /\ Announced \subseteq Announced'
    BY <1>1, NextType, AnnouncedGrows DEF DeepInv
  <1>3. ASSUME UNCHANGED <<indexerState, prunedTo>>,
               \A i \in 1 .. Len(queue') : queue'[i] \in Announced',
               \A t \in Threads : \/ pc'[t] = "idle"
                                  \/ /\ pc'[t] = pc[t] /\ block'[t] = block[t]
                                     /\ cutoff'[t] = cutoff[t]
        PROVE  DeepInv'
    <2>1. Stored' = Stored
      BY <1>3, StoredKept
    <2> QED BY <1>2, <1>3, <2>1 DEF DeepInv
  <1>4. ASSUME NEW b \in Blocks, NewBlock(b) \/ MissedBlock(b) PROVE DeepInv'
    <2>1. UNCHANGED <<indexerState, prunedTo, pc, block, cutoff>>
      BY <1>4 DEF NewBlock, MissedBlock, dbVars, threadVars
    <2>2. b \in Announced'
      <3>1. deliveries' = [deliveries EXCEPT ![b] = @ + 1]
        BY <1>4 DEF NewBlock, MissedBlock, Announce, Adopt, Retry, Deliver
      <3> QED BY <1>1, <3>1 DEF NodeType, Announced
    <2>3. queue' = queue \/ queue' = Append(queue, b)
      BY <1>4 DEF NewBlock, MissedBlock
    <2>4. \A i \in 1 .. Len(queue') : queue'[i] \in Announced'
      <3>1. CASE queue' = queue
        BY <1>2, <3>1 DEF DeepInv
      <3>2. CASE queue' = Append(queue, b)
        BY <1>1, <1>2, <2>2, <3>2 DEF DeepInv
      <3> QED BY <2>3, <3>1, <3>2
    <2> QED BY <1>3, <2>1, <2>4
  <1>5. CASE CtrlC \/ CancelQueued \/ Exit \/ Kill \/ Start
    <2>1. UNCHANGED <<indexerState, prunedTo>>
      BY <1>5 DEF CtrlC, CancelQueued, Exit, Kill, Start, dbVars
    <2>2. \A t \in Threads : \/ pc'[t] = "idle"
                              \/ /\ pc'[t] = pc[t] /\ block'[t] = block[t]
                                 /\ cutoff'[t] = cutoff[t]
      BY <1>5 DEF CtrlC, CancelQueued, Exit, Kill, Start, threadVars
    <2>3. \A i \in 1 .. Len(queue') : queue'[i] \in Announced'
      <3>1. CASE CancelQueued
        <4>1. queue # <<>> /\ queue' = Tail(queue)
          BY <3>1 DEF CancelQueued
        <4>2. \A i \in 1 .. Len(queue') : queue'[i] = queue[i + 1] /\ i + 1 \in 1 .. Len(queue)
          BY <1>1, <4>1
        <4> QED BY <1>2, <4>2 DEF DeepInv
      <3>2. CASE Kill
        <4>1. Len(queue') = 0
          BY <3>2 DEF Kill
        <4> QED BY <4>1
      <3>3. CASE CtrlC \/ Exit \/ Start
        BY <1>2, <3>3 DEF CtrlC, Exit, Start, DeepInv
      <3> QED BY <1>5, <3>1, <3>2, <3>3
    <2> QED BY <1>3, <2>1, <2>2, <2>3
  <1>6. CASE UNCHANGED vars
    <2>1. UNCHANGED <<indexerState, prunedTo, pc, block, cutoff, queue>>
      BY <1>6 DEF vars, dbVars, threadVars
    <2> QED BY <1>2, <1>3, <2>1 DEF DeepInv
  <1> QED BY <1>4, <1>5, <1>6, DeepWork DEF Next

(* Whatever falls between the two locks of prune_journal, with any number  *)
(* of threads, late retries, failures and stops: rows that a rollback      *)
(* leaves behind belong to blocks more than KeepBlocks below the highest   *)
(* block announced.                                                        *)
THEOREM IndexerOrphansDeep == Spec => []OrphansLieDeep
  <1>1. Init => DeepInv
    BY InitType DEF Init, DatabaseInit, DeepInv, Stored
  <1>2. DeepInv /\ NoOrphans => OrphansLieDeep
    <2> SUFFICES ASSUME DeepInv, NoOrphans, NEW r \in eventRows, r.block \notin Stored
                 PROVE  \E a \in Announced : HeightOf[r.block] + KeepBlocks < HeightOf[a]
      BY DEF OrphansLieDeep
    <2>1. /\ r.block \in Blocks /\ HeightOf[r.block] \in Nat
          /\ prunedTo \in Nat /\ KeepBlocks \in Nat
      <3>1. r \in Row /\ prunedTo \in Nat
        BY DEF DeepInv, TypeOK, DatabaseTypeOK
      <3> QED BY <3>1, BlockHeights, PruneAssumption DEF Row
    <2>2. HeightOf[r.block] < prunedTo
      BY DEF NoOrphans
    <2>3. PICK a \in Announced : prunedTo + KeepBlocks <= HeightOf[a]
      BY <2>1, <2>2 DEF DeepInv
    <2>4. HeightOf[a] \in Nat
      BY BlockHeights DEF Announced
    <2> QED BY <2>1, <2>2, <2>3, <2>4
  <1> QED BY <1>1, <1>2, DeepNext, IndexerNoOrphans, PTL DEF Spec

-----------------------------------------------------------------------------
(* Any number of threads: what is broadcast.                               *)

(* The threads that have stored block b and have yet to send its i-th      *)
(* message.                                                                *)
Owing(b, i) ==
    {t \in Threads :
        /\ block[t] = b
        /\ pc[t] \in {"metrics", "announce"} \/ (pc[t] = "publish" /\ sent[t] < i)}

(* A thread has sent none of its block's events until it publishes, and    *)
(* while it does, not all.                                                 *)
SentInv(t) ==
    /\ pc[t] = "publish" => sent[t] < Len(Matched[block[t]])
    /\ pc[t] \notin {"publish", "pruneRead", "pruneDelete"} => sent[t] = 0

(* Each commit of a block has its i-th message sent, or owed by a thread,  *)
(* or lost when the process died; none is owed without the ones after it.  *)
Accounted(b, i) ==
    /\ feed[<<b, i>>] + Cardinality(Owing(b, i)) <= commits[b]
    /\ stops = 0 => feed[<<b, i>>] + Cardinality(Owing(b, i)) = commits[b]
    /\ \A j \in 0 .. i :
          feed[<<b, i>>] + Cardinality(Owing(b, i) \ Owing(b, j)) <= feed[<<b, j>>]

FeedInv ==
    /\ TypeOK
    /\ \A t \in Threads : SentInv(t)
    /\ \A b \in Blocks : \A i \in 0 .. Len(Matched[b]) : Accounted(b, i)

LEMMA OwingFinite ==
    ASSUME IsFiniteSet(Threads), NEW b, NEW i, NEW j
    PROVE  /\ IsFiniteSet(Owing(b, i)) /\ Cardinality(Owing(b, i)) \in Nat
           /\ IsFiniteSet(Owing(b, i) \ Owing(b, j))
           /\ Cardinality(Owing(b, i) \ Owing(b, j)) \in Nat
  <1>1. Owing(b, i) \subseteq Threads /\ Owing(b, i) \ Owing(b, j) \subseteq Threads
    BY DEF Owing
  <1> QED BY <1>1, FS_Subset, FS_CardinalityType

LEMMA MessageTypes ==
    ASSUME TypeOK, NEW b \in Blocks, NEW i \in 0 .. Len(Matched[b])
    PROVE  /\ Len(Matched[b]) \in Nat /\ i \in Nat
           /\ <<b, i>> \in Messages
           /\ feed[<<b, i>>] \in Nat /\ commits[b] \in Nat /\ stops \in Nat
           /\ \A j \in 0 .. i : j \in 0 .. Len(Matched[b])
  <1>1. Len(Matched[b]) \in Nat /\ i \in Nat
    BY MatchedType
  <1>2. <<b, i>> \in Messages
    BY DEF Messages
  <1> QED BY <1>1, <1>2 DEF TypeOK

(* A step that broadcasts nothing, stores nothing and owes as before.      *)
LEMMA AccountsKept ==
    ASSUME FeedInv, NEW b \in Blocks, NEW i \in 0 .. Len(Matched[b]),
           UNCHANGED <<feed, commits>>, stops' = 0 => stops = 0,
           \A j \in 0 .. Len(Matched[b]) : Owing(b, j)' = Owing(b, j)
    PROVE  Accounted(b, i)'
  <1>1. \A j \in 0 .. i : j \in 0 .. Len(Matched[b])
    BY MessageTypes DEF FeedInv
  <1>2. Accounted(b, i)
    BY DEF FeedInv
  <1>3. Owing(b, i)' = Owing(b, i)
    OBVIOUS
  <1>4. ASSUME NEW j \in 0 .. i
        PROVE  (feed[<<b, i>>] + Cardinality(Owing(b, i) \ Owing(b, j)) <= feed[<<b, j>>])'
    <2>1. Owing(b, j)' = Owing(b, j)
      BY <1>1
    <2> QED BY <1>2, <1>3, <2>1 DEF Accounted
  <1>5. /\ (feed[<<b, i>>] + Cardinality(Owing(b, i)) <= commits[b])'
        /\ stops' = 0 => (feed[<<b, i>>] + Cardinality(Owing(b, i)) = commits[b])'
    BY <1>2, <1>3 DEF Accounted
  <1> QED BY <1>4, <1>5 DEF Accounted

(* The process dies: whatever was owed is lost.                            *)
LEMMA AccountsLost ==
    ASSUME FeedInv, IsFiniteSet(Threads),
           NEW b \in Blocks, NEW i \in 0 .. Len(Matched[b]), Kill
    PROVE  Accounted(b, i)'
  <1>1. UNCHANGED <<feed, commits>> /\ stops' = stops + 1
    BY DEF Kill, outVars
  <1>2. \A j : Owing(b, j)' = {}
    BY DEF Kill, Owing
  <1>3. /\ feed[<<b, i>>] \in Nat /\ commits[b] \in Nat /\ stops \in Nat
        /\ \A j \in 0 .. i : j \in 0 .. Len(Matched[b])
    BY MessageTypes DEF FeedInv
  <1>4. Cardinality({}) = 0 /\ {} \ {} = {}
    BY FS_EmptySet
  <1>5. feed[<<b, i>>] <= commits[b]
    <2>1. Cardinality(Owing(b, i)) \in Nat
      BY OwingFinite
    <2>2. feed[<<b, i>>] + Cardinality(Owing(b, i)) <= commits[b]
      BY DEF FeedInv, Accounted
    <2> QED BY <1>3, <2>1, <2>2
  <1>6. ASSUME NEW j \in 0 .. i PROVE feed[<<b, i>>] <= feed[<<b, j>>]
    <2>1. feed[<<b, j>>] \in Nat
      BY <1>3, MessageTypes DEF FeedInv
    <2>2. feed[<<b, i>>] + Cardinality(Owing(b, i) \ Owing(b, j)) <= feed[<<b, j>>]
      BY DEF FeedInv, Accounted
    <2>3. Cardinality(Owing(b, i) \ Owing(b, j)) \in Nat
      BY OwingFinite
    <2> QED BY <1>3, <2>1, <2>2, <2>3
  <1>7. ~ (stops' = 0)
    BY <1>1, <1>3
  <1>8. ASSUME NEW j \in 0 .. i
        PROVE  (feed[<<b, i>>] + Cardinality(Owing(b, i) \ Owing(b, j)) <= feed[<<b, j>>])'
    <2>1. Cardinality(Owing(b, i)' \ Owing(b, j)') = 0
      BY <1>2, <1>4
    <2> QED BY <1>1, <1>3, <1>6, <2>1
  <1>9. (feed[<<b, i>>] + Cardinality(Owing(b, i)) <= commits[b])'
    <2>1. Cardinality(Owing(b, i)') = 0
      BY <1>2, <1>4
    <2> QED BY <1>1, <1>3, <1>5, <2>1
  <1> QED BY <1>7, <1>8, <1>9 DEF Accounted

(* A store puts the thread in debt for every message of its block.         *)
LEMMA AccountsStore ==
    ASSUME FeedInv, IsFiniteSet(Threads), NEW t \in Threads, Store(t),
           NEW b \in Blocks, NEW i \in 0 .. Len(Matched[b])
    PROVE  Accounted(b, i)'
  <1>1. /\ feed[<<b, i>>] \in Nat /\ commits[b] \in Nat
        /\ \A j \in 0 .. i : j \in 0 .. Len(Matched[b])
    BY MessageTypes DEF FeedInv
  <1>2. /\ ThreadType /\ pc[t] = "store" /\ pc'[t] = "metrics"
        /\ UNCHANGED <<block, sent, feed, stops>>
        /\ \A s \in Threads \ {t} : pc'[s] = pc[s]
        /\ commits' = [commits EXCEPT ![block[t]] = @ + 1] /\ commits \in [Blocks -> Nat]
    BY TypeParts DEF FeedInv, Store, Goto, ThreadType, OutType, boundVars
  <1>3. CASE block[t] = b
    <2>1. \A j : Owing(b, j)' = Owing(b, j) \cup {t} /\ t \notin Owing(b, j)
      BY <1>2, <1>3 DEF Owing
    <2>2. Cardinality(Owing(b, i)') = Cardinality(Owing(b, i)) + 1
      BY <2>1, OwingFinite, FS_AddElement
    <2>3. \A j : Owing(b, i)' \ Owing(b, j)' = Owing(b, i) \ Owing(b, j)
      BY <2>1
    <2>4. commits'[b] = commits[b] + 1
      BY <1>2, <1>3
    <2>5. Accounted(b, i) /\ Cardinality(Owing(b, i)) \in Nat
      BY OwingFinite DEF FeedInv
    <2>6. ASSUME NEW j \in 0 .. i
          PROVE  (feed[<<b, i>>] + Cardinality(Owing(b, i) \ Owing(b, j)) <= feed[<<b, j>>])'
      <3>1. Owing(b, i)' \ Owing(b, j)' = Owing(b, i) \ Owing(b, j)
        BY <2>3
      <3> QED BY <1>2, <2>5, <3>1 DEF Accounted
    <2>7. /\ (feed[<<b, i>>] + Cardinality(Owing(b, i)) <= commits[b])'
          /\ stops' = 0 => (feed[<<b, i>>] + Cardinality(Owing(b, i)) = commits[b])'
      BY <1>1, <1>2, <2>2, <2>4, <2>5 DEF Accounted
    <2> QED BY <2>6, <2>7 DEF Accounted
  <1>4. CASE block[t] # b
    <2>1. \A j : Owing(b, j)' = Owing(b, j)
      BY <1>2, <1>4 DEF Owing
    <2>2. commits'[b] = commits[b]
      BY <1>2, <1>4
    <2>3. Accounted(b, i)
      BY DEF FeedInv
    <2>4. ASSUME NEW j \in 0 .. i
          PROVE  (feed[<<b, i>>] + Cardinality(Owing(b, i) \ Owing(b, j)) <= feed[<<b, j>>])'
      <3>1. Owing(b, i)' = Owing(b, i) /\ Owing(b, j)' = Owing(b, j)
        BY <2>1
      <3> QED BY <1>2, <2>3, <3>1 DEF Accounted
    <2>5. /\ (feed[<<b, i>>] + Cardinality(Owing(b, i)) <= commits[b])'
          /\ stops' = 0 => (feed[<<b, i>>] + Cardinality(Owing(b, i)) = commits[b])'
      <3>1. Owing(b, i)' = Owing(b, i)
        BY <2>1
      <3> QED BY <1>2, <2>2, <2>3, <3>1 DEF Accounted
    <2> QED BY <2>4, <2>5 DEF Accounted
  <1> QED BY <1>3, <1>4

(* The message a thread sends next.                                        *)
NextMessage(t) == IF pc[t] = "announce" THEN 0 ELSE sent[t] + 1

LEMMA SendEffect ==
    ASSUME FeedInv, NEW t \in Threads, PublishBlock(t) \/ PublishEvent(t)
    PROVE  /\ block[t] \in Blocks
           /\ NextMessage(t) \in 0 .. Len(Matched[block[t]])
           /\ feed' = [feed EXCEPT ![<<block[t], NextMessage(t)>>] = @ + 1]
           /\ UNCHANGED <<commits, stops>>
           /\ SentInv(t)'
           /\ \A c \in Blocks : \A i \in 0 .. Len(Matched[c]) :
                 Owing(c, i)' = IF c = block[t] /\ i = NextMessage(t)
                                THEN Owing(c, i) \ {t} ELSE Owing(c, i)
           /\ t \in Owing(block[t], NextMessage(t))
           /\ \A j \in 0 .. NextMessage(t) - 1 : t \notin Owing(block[t], j)
  <1> DEFINE b == block[t]
             k == NextMessage(t)
             n == Len(Matched[b])
  <1>1. /\ ThreadType /\ SentInv(t) /\ b \in Blocks /\ n \in Nat /\ sent[t] \in Nat
        /\ (Matched[b] = <<>> <=> n = 0)
        /\ pc[t] \in {"announce", "publish"}
    <2>1. ThreadType /\ SentInv(t) /\ pc[t] \in {"announce", "publish"}
      BY TypeParts DEF FeedInv, PublishBlock, PublishEvent
    <2>2. b \in Blocks /\ sent[t] \in Nat
      BY <2>1, BusyBlock DEF ThreadType
    <2>3. Matched[b] \in Seq(Tables)
      BY <2>2, MatchedAssumption
    <2> QED BY <2>1, <2>2, <2>3
  <1>2. /\ k \in 0 .. n
        /\ feed' = [feed EXCEPT ![<<b, k>>] = @ + 1] /\ commits' = commits /\ stops' = stops
    BY <1>1 DEF PublishBlock, PublishEvent, Send, NextMessage, SentInv, boundVars
  <1>3. \A s \in Threads \ {t} : pc'[s] = pc[s] /\ block'[s] = block[s] /\ sent'[s] = sent[s]
    BY <1>1 DEF PublishBlock, PublishEvent, AfterPublish, Return, Goto, ThreadType
  <1>4. \/ k < n /\ pc'[t] = "publish" /\ block'[t] = b /\ sent'[t] = k
        \/ k = n /\ pc'[t] = "pruneRead" /\ block'[t] = b
        \/ k = n /\ pc'[t] = "idle" /\ sent'[t] = 0
    <2>1. CASE PublishBlock(t)
      <3>1. k = 0 /\ sent[t] = 0 /\ pc[t] = "announce"
        BY <2>1, <1>1 DEF PublishBlock, NextMessage, SentInv
      <3>2. CASE Matched[b] = <<>>
        BY <1>1, <2>1, <3>1, <3>2, AfterPublishEffect DEF PublishBlock
      <3>3. CASE Matched[b] # <<>>
        BY <1>1, <2>1, <3>1, <3>3, GotoEffect DEF PublishBlock
      <3> QED BY <3>2, <3>3
    <2>2. CASE PublishEvent(t)
      <3>1. k = sent[t] + 1 /\ pc[t] = "publish" /\ sent[t] < n
        BY <2>2, <1>1 DEF PublishEvent, NextMessage, SentInv
      <3>2. CASE sent[t] + 1 = n
        BY <1>1, <2>2, <3>1, <3>2, AfterPublishEffect DEF PublishEvent
      <3>3. CASE sent[t] + 1 # n
        <4>1. /\ sent' = [sent EXCEPT ![t] = @ + 1] /\ sent \in [Threads -> Nat]
              /\ UNCHANGED <<pc, block>>
          BY <1>1, <2>2, <3>3 DEF PublishEvent, ThreadType
        <4>2. sent'[t] = k
          BY <3>1, <4>1
        <4> QED BY <1>1, <3>1, <3>3, <4>1, <4>2
      <3> QED BY <3>2, <3>3
    <2> QED BY <2>1, <2>2
  <1>5. SentInv(t)'
    BY <1>1, <1>4 DEF SentInv
  <1>6. ASSUME NEW c \in Blocks, NEW i \in 0 .. Len(Matched[c])
        PROVE  Owing(c, i)' = IF c = b /\ i = k THEN Owing(c, i) \ {t} ELSE Owing(c, i)
    <2>1. \A s \in Threads \ {t} : s \in Owing(c, i)' <=> s \in Owing(c, i)
      BY <1>3 DEF Owing
    <2>2. t \in Owing(c, i) <=> c = b /\ i >= k
      BY <1>1 DEF Owing, NextMessage
    <2>3. t \in Owing(c, i)' <=> c = b /\ i > k
      <3>1. c = b => i <= n /\ i \in Nat
        BY <1>1
      <3>2. CASE c = b
        BY <1>1, <1>2, <1>4, <3>1, <3>2, NoBlockAssumption DEF Owing
      <3>3. CASE c # b
        BY <1>4, <3>3 DEF Owing
      <3> QED BY <3>2, <3>3
    <2>4. i \in Nat /\ k \in Nat
      BY <1>1, <1>2, MatchedType
    <2>5. Owing(c, i) \subseteq Threads /\ Owing(c, i)' \subseteq Threads
      BY DEF Owing
    <2>6. CASE c = b /\ i = k
      BY <2>1, <2>2, <2>3, <2>4, <2>5, <2>6
    <2>7. CASE ~ (c = b /\ i = k)
      <3>1. t \in Owing(c, i)' <=> t \in Owing(c, i)
        BY <2>2, <2>3, <2>4, <2>7
      <3>2. Owing(c, i)' = Owing(c, i)
        BY <2>1, <2>5, <3>1
      <3> QED BY <2>7, <3>2
    <2> QED BY <2>6, <2>7
  <1>7. t \in Owing(b, k) /\ \A j \in 0 .. k - 1 : t \notin Owing(b, j)
    BY <1>1, <1>2 DEF Owing, NextMessage
  <1> QED BY <1>1, <1>2, <1>5, <1>6, <1>7

(* Sending pays the debt of one message, after those before it.            *)
LEMMA AccountsSend ==
    ASSUME FeedInv, IsFiniteSet(Threads), NEW t \in Threads,
           PublishBlock(t) \/ PublishEvent(t),
           NEW b \in Blocks, NEW i \in 0 .. Len(Matched[b])
    PROVE  Accounted(b, i)'
  <1> DEFINE c == block[t]
             k == NextMessage(t)
  <1>1. /\ c \in Blocks /\ k \in 0 .. Len(Matched[c])
        /\ feed' = [feed EXCEPT ![<<c, k>>] = @ + 1]
        /\ commits' = commits /\ stops' = stops
    BY SendEffect
  <1>2. ASSUME NEW j \in 0 .. Len(Matched[b])
        PROVE  /\ Owing(b, j)' = IF b = c /\ j = k THEN Owing(b, j) \ {t} ELSE Owing(b, j)
               /\ feed'[<<b, j>>] = IF b = c /\ j = k THEN feed[<<b, j>>] + 1 ELSE feed[<<b, j>>]
               /\ feed[<<b, j>>] \in Nat
    <2>1. <<b, j>> \in Messages /\ feed \in [Messages -> Nat]
      BY DEF FeedInv, TypeOK, Messages
    <2>2. <<b, j>> = <<c, k>> <=> b = c /\ j = k
      OBVIOUS
    <2>3. feed'[<<b, j>>] = IF b = c /\ j = k THEN feed[<<b, j>>] + 1 ELSE feed[<<b, j>>]
      BY <1>1, <2>1, <2>2
    <2>4. Owing(b, j)' = IF b = c /\ j = k THEN Owing(b, j) \ {t} ELSE Owing(b, j)
      <3>1. \A d \in Blocks : \A l \in 0 .. Len(Matched[d]) :
               Owing(d, l)' = IF d = c /\ l = k THEN Owing(d, l) \ {t} ELSE Owing(d, l)
        BY SendEffect, Zenon
      <3> HIDE DEF c, k
      <3> QED BY <3>1, Zenon
    <2> QED BY <2>1, <2>3, <2>4
  <1>3. t \in Owing(c, k) /\ \A j \in 0 .. k - 1 : t \notin Owing(c, j)
    BY SendEffect
  <1>4. /\ i \in Nat /\ commits[b] \in Nat
        /\ \A j \in 0 .. i : j \in 0 .. Len(Matched[b])
    BY MessageTypes DEF FeedInv
  <1>5. Accounted(b, i)
    BY DEF FeedInv
  <1>6. feed'[<<b, i>>] + Cardinality(Owing(b, i)') = feed[<<b, i>>] + Cardinality(Owing(b, i))
    <2>1. CASE b = c /\ i = k
      <3>1. IsFiniteSet(Owing(b, i)) /\ Cardinality(Owing(b, i)) \in Nat
        BY OwingFinite
      <3>2. Owing(b, i)' = Owing(b, i) \ {t} /\ t \in Owing(b, i)
        BY <1>2, <1>3, <2>1
      <3>3. Cardinality(Owing(b, i) \ {t}) = Cardinality(Owing(b, i)) - 1
        BY <3>1, <3>2, FS_RemoveElement
      <3>4. feed'[<<b, i>>] = feed[<<b, i>>] + 1 /\ feed[<<b, i>>] \in Nat
        BY <1>2, <2>1
      <3> QED BY <3>1, <3>2, <3>3, <3>4
    <2>2. CASE ~ (b = c /\ i = k)
      BY <1>2, <2>2
    <2> QED BY <2>1, <2>2
  <1>7. ASSUME NEW j \in 0 .. i
        PROVE  feed'[<<b, i>>] + Cardinality(Owing(b, i)' \ Owing(b, j)') <= feed'[<<b, j>>]
    <2> DEFINE D == Owing(b, i) \ Owing(b, j)
               E == Owing(b, i)' \ Owing(b, j)'
    <2> SUFFICES feed'[<<b, i>>] + Cardinality(E) <= feed'[<<b, j>>]
      OBVIOUS
    <2>1. /\ j \in 0 .. Len(Matched[b]) /\ IsFiniteSet(D) /\ Cardinality(D) \in Nat
          /\ feed[<<b, i>>] + Cardinality(D) <= feed[<<b, j>>]
          /\ feed[<<b, i>>] \in Nat /\ feed[<<b, j>>] \in Nat
      <3>1. IsFiniteSet(D) /\ Cardinality(D) \in Nat
        BY OwingFinite
      <3>2. feed[<<b, i>>] + Cardinality(D) <= feed[<<b, j>>]
        BY <1>5 DEF Accounted
      <3> QED BY <1>2, <1>4, <3>1, <3>2
    <2>2. CASE b = c /\ i = k /\ j # k
      <3>1. t \in D /\ E = D \ {t}
        <4>1. t \in Owing(b, i) /\ t \notin Owing(b, j)
          BY <1>3, <1>4, <2>2
        <4>2. Owing(b, i)' = Owing(b, i) \ {t} /\ Owing(b, j)' = Owing(b, j)
          BY <1>2, <2>1, <2>2
        <4> QED BY <4>1, <4>2
      <3>3. feed'[<<b, i>>] = feed[<<b, i>>] + 1 /\ feed'[<<b, j>>] = feed[<<b, j>>]
        BY <1>2, <2>1, <2>2
      <3> HIDE DEF D, E
      <3>2. Cardinality(E) = Cardinality(D) - 1
        BY <2>1, <3>1, FS_RemoveElement
      <3> QED BY <2>1, <3>2, <3>3
    <2>3. CASE b = c /\ j = k /\ i # k
      <3>1. E \subseteq D \cup {t}
        <4>1. Owing(b, i)' = Owing(b, i) /\ Owing(b, j)' = Owing(b, j) \ {t}
          BY <1>2, <2>1, <2>3
        <4> QED BY <4>1
      <3>2. IsFiniteSet(D \cup {t}) /\ Cardinality(D \cup {t}) <= Cardinality(D) + 1
        <4> HIDE DEF D
        <4>1. CASE t \in D
          <5>1. D \cup {t} = D
            BY <4>1
          <5>2. IsFiniteSet(D \cup {t}) /\ Cardinality(D \cup {t}) = Cardinality(D)
            BY <2>1, <5>1
          <5> QED BY <2>1, <5>2
        <4>2. CASE t \notin D
          <5>1. IsFiniteSet(D \cup {t}) /\ Cardinality(D \cup {t}) = Cardinality(D) + 1
            BY <2>1, <4>2, FS_AddElement
          <5> QED BY <2>1, <5>1
        <4> QED BY <4>1, <4>2
      <3>3. Cardinality(E) <= Cardinality(D) + 1 /\ Cardinality(E) \in Nat
        <4> HIDE DEF D, E
        <4>1. Cardinality(E) <= Cardinality(D \cup {t}) /\ IsFiniteSet(E)
          BY <3>1, <3>2, FS_Subset
        <4>2. Cardinality(E) \in Nat /\ Cardinality(D \cup {t}) \in Nat
          BY <3>2, <4>1, FS_CardinalityType
        <4> QED BY <2>1, <3>2, <4>1, <4>2
      <3>4. feed'[<<b, i>>] = feed[<<b, i>>] /\ feed'[<<b, j>>] = feed[<<b, j>>] + 1
        BY <1>2, <2>1, <2>3
      <3> HIDE DEF D, E
      <3> QED BY <2>1, <3>3, <3>4
    <2>4. CASE b = c /\ i = j
      <3>1. E = {} /\ Cardinality(E) = 0
        BY <2>4, FS_EmptySet
      <3>2. feed'[<<b, i>>] \in Nat /\ feed'[<<b, i>>] = feed'[<<b, j>>]
        <4>1. feed'[<<b, i>>] \in Nat
          BY <1>2
        <4> QED BY <2>4, <4>1
      <3> HIDE DEF E
      <3> QED BY <3>1, <3>2
    <2>5. CASE b # c \/ (i # k /\ j # k)
      <3>1. /\ Owing(b, i)' = Owing(b, i) /\ Owing(b, j)' = Owing(b, j)
            /\ feed'[<<b, i>>] = feed[<<b, i>>] /\ feed'[<<b, j>>] = feed[<<b, j>>]
        BY <1>2, <2>1, <2>5
      <3> QED BY <2>1, <3>1
    <2> QED BY <2>2, <2>3, <2>4, <2>5
  <1> QED BY <1>1, <1>5, <1>6, <1>7 DEF Accounted

(* All steps but the store and the broadcasts leave the accounts alone.    *)
LEMMA OwingKept ==
    ASSUME FeedInv, NEW t \in Threads,
           \/ Take(t) \/ Detect(t) \/ HandleReorg(t) \/ SetMetrics(t)
           \/ PruneRead(t) \/ PruneDelete(t) \/ DatabaseError(t)
    PROVE  /\ UNCHANGED <<feed, commits, stops>>
           /\ SentInv(t)'
           /\ \A b \in Blocks : \A i : Owing(b, i)' = Owing(b, i)
  <1>1. ThreadType /\ SentInv(t)
    BY TypeParts DEF FeedInv
  <1>2. UNCHANGED <<feed, commits, stops>>
    BY DEF Take, Detect, HandleReorg, SetMetrics, PruneRead, PruneDelete, DatabaseError,
           outVars, boundVars
  <1>3. \A s \in Threads \ {t} : pc'[s] = pc[s] /\ block'[s] = block[s] /\ sent'[s] = sent[s]
    BY <1>1 DEF Take, Detect, HandleReorg, SetMetrics, PruneRead, PruneDelete,
                DatabaseError, Return, Goto, ThreadType
  <1>4. \/ pc[t] = "metrics" /\ pc'[t] = "announce" /\ block'[t] = block[t] /\ sent'[t] = sent[t]
        \/ /\ pc[t] \notin {"metrics", "announce", "publish"}
           /\ pc'[t] \notin {"metrics", "announce", "publish"}
           /\ pc'[t] = "pruneDelete" \/ sent'[t] = 0
    <2>1. CASE Take(t) \/ Detect(t) \/ HandleReorg(t) \/ SetMetrics(t)
      BY <1>1, <2>1 DEF Take, Detect, HandleReorg, SetMetrics, SentInv, Goto, ThreadType
    <2>2. CASE PruneRead(t) \/ PruneDelete(t) \/ DatabaseError(t)
      BY <1>1, <2>2, ReturnEffect, GotoEffect DEF PruneRead, PruneDelete, DatabaseError
    <2> QED BY <2>1, <2>2
  <1>5. SentInv(t)'
    BY <1>1, <1>4 DEF SentInv
  <1>6. ASSUME NEW b \in Blocks, NEW i PROVE Owing(b, i)' = Owing(b, i)
    <2>1. t \in Owing(b, i)' <=> t \in Owing(b, i)
      BY <1>4 DEF Owing
    <2>2. \A s \in Threads \ {t} : s \in Owing(b, i)' <=> s \in Owing(b, i)
      BY <1>3 DEF Owing
    <2>3. Owing(b, i) \subseteq Threads /\ Owing(b, i)' \subseteq Threads
      BY DEF Owing
    <2> QED BY <2>1, <2>2, <2>3
  <1> QED BY <1>2, <1>5, <1>6

LEMMA FeedNext ==
    ASSUME IsFiniteSet(Threads)
    PROVE  FeedInv /\ [Next]_vars => FeedInv'
  <1> SUFFICES ASSUME FeedInv, [Next]_vars PROVE FeedInv'
    OBVIOUS
  <1>1. TypeOK' /\ ThreadType /\ stops \in Nat
    BY NextType, TypeParts DEF FeedInv, BoundType
  <1>2. ASSUME NEW t \in Threads, Work(t) \/ DatabaseError(t) PROVE FeedInv'
    <2>1. \A s \in Threads \ {t} :
             pc'[s] = pc[s] /\ block'[s] = block[s] /\ sent'[s] = sent[s]
      BY <1>1, <1>2 DEF Work, Take, Detect, HandleReorg, Store, SetMetrics, PublishBlock,
                PublishEvent, PruneRead, PruneDelete, DatabaseError, AfterPublish,
                Return, Goto, ThreadType
    <2>2. \A s \in Threads \ {t} : SentInv(s)'
      BY <2>1 DEF FeedInv, SentInv
    <2>3. CASE Store(t)
      <3>1. pc'[t] = "metrics" /\ sent'[t] = sent[t] /\ pc[t] = "store"
        BY <1>1, <2>3 DEF Store, Goto, ThreadType
      <3>2. SentInv(t)'
        BY <3>1 DEF FeedInv, SentInv
      <3>3. \A b \in Blocks : \A i \in 0 .. Len(Matched[b]) : Accounted(b, i)'
        BY <2>3, AccountsStore
      <3> QED BY <1>1, <2>2, <3>2, <3>3 DEF FeedInv
    <2>4. CASE PublishBlock(t) \/ PublishEvent(t)
      <3>1. \A b \in Blocks : \A i \in 0 .. Len(Matched[b]) : Accounted(b, i)'
        BY <2>4, AccountsSend
      <3> QED BY <1>1, <2>2, <2>4, <3>1, SendEffect DEF FeedInv
    <2>5. CASE \/ Take(t) \/ Detect(t) \/ HandleReorg(t) \/ SetMetrics(t)
               \/ PruneRead(t) \/ PruneDelete(t) \/ DatabaseError(t)
      <3>1. \A b \in Blocks : \A i \in 0 .. Len(Matched[b]) : Accounted(b, i)'
        BY <2>5, OwingKept, AccountsKept
      <3> QED BY <1>1, <2>2, <2>5, <3>1, OwingKept DEF FeedInv
    <2> QED BY <1>2, <2>3, <2>4, <2>5 DEF Work
  <1>3. ASSUME UNCHANGED <<pc, block, sent, feed, commits>>, stops' = 0 => stops = 0
        PROVE  FeedInv'
    <2>1. \A t \in Threads : SentInv(t)'
      BY <1>3 DEF FeedInv, SentInv
    <2>2. \A b \in Blocks : \A i : Owing(b, i)' = Owing(b, i)
      BY <1>3 DEF Owing
    <2>3. \A b \in Blocks : \A i \in 0 .. Len(Matched[b]) : Accounted(b, i)'
      BY <1>3, <2>2, AccountsKept
    <2> QED BY <1>1, <2>1, <2>3 DEF FeedInv
  <1>4. CASE Kill
    <2>1. \A t \in Threads : SentInv(t)'
      BY <1>4 DEF Kill, SentInv
    <2>2. \A b \in Blocks : \A i \in 0 .. Len(Matched[b]) : Accounted(b, i)'
      BY <1>4, AccountsLost
    <2> QED BY <1>1, <2>1, <2>2 DEF FeedInv
  <1>5. ASSUME NEW b \in Blocks, NewBlock(b) \/ MissedBlock(b) PROVE FeedInv'
    BY <1>3, <1>5 DEF NewBlock, MissedBlock, threadVars, outVars, boundVars
  <1>6. CASE CtrlC
    <2>1. stops' = stops + 1 /\ UNCHANGED <<pc, block, sent, feed, commits>>
      BY <1>6 DEF CtrlC, threadVars, outVars
    <2> QED BY <1>1, <1>3, <2>1
  <1>7. CASE CancelQueued \/ Exit \/ Start \/ UNCHANGED vars
    BY <1>3, <1>7 DEF CancelQueued, Exit, Start, vars, threadVars, outVars, boundVars
  <1> QED BY <1>2, <1>4, <1>5, <1>6, <1>7 DEF Next

(* Whatever threads broadcast side by side, and whatever is delivered      *)
(* again, fails or stops: no message is sent more often than its block was *)
(* committed or than the message before it, and none is left unsent when   *)
(* the pipeline has drained, unless the process was stopped.               *)
THEOREM IndexerFeedMatches ==
    ASSUME IsFiniteSet(Threads)
    PROVE  Spec => []FeedMatchesCommits
  <1>1. Init => FeedInv
    <2> SUFFICES ASSUME Init PROVE FeedInv
      OBVIOUS
    <2>1. \A t \in Threads : SentInv(t)
      BY DEF Init, SentInv
    <2>2. ASSUME NEW b \in Blocks, NEW i \in 0 .. Len(Matched[b]) PROVE Accounted(b, i)
      <3>1. \A j \in 0 .. i : j \in 0 .. Len(Matched[b])
        BY InitType, MessageTypes
      <3>2. \A j \in 0 .. Len(Matched[b]) : feed[<<b, j>>] = 0
        BY DEF Init, Messages
      <3>3. commits[b] = 0 /\ \A j : Owing(b, j) = {}
        BY DEF Init, Owing
      <3>4. Cardinality({}) = 0
        BY FS_EmptySet
      <3>5. Cardinality(Owing(b, i)) = 0 /\ \A j : Cardinality(Owing(b, i) \ Owing(b, j)) = 0
        BY <3>3, <3>4
      <3> QED BY <3>1, <3>2, <3>3, <3>5 DEF Accounted
    <2> QED BY <2>1, <2>2, InitType DEF FeedInv
  <1>2. FeedInv => FeedMatchesCommits
    <2> SUFFICES ASSUME FeedInv, NEW b \in Blocks, NEW i \in 0 .. Len(Matched[b])
                 PROVE  /\ feed[<<b, i>>] <= commits[b]
                        /\ \A j \in 0 .. i : feed[<<b, i>>] <= feed[<<b, j>>]
                        /\ Drained /\ stops = 0 => feed[<<b, i>>] = commits[b]
      BY DEF FeedMatchesCommits
    <2>1. /\ feed[<<b, i>>] \in Nat /\ commits[b] \in Nat /\ Accounted(b, i)
          /\ \A j \in 0 .. i : j \in 0 .. Len(Matched[b])
      BY MessageTypes DEF FeedInv
    <2>2. feed[<<b, i>>] <= commits[b]
      <3>1. Cardinality(Owing(b, i)) \in Nat
        BY OwingFinite
      <3>2. feed[<<b, i>>] + Cardinality(Owing(b, i)) <= commits[b]
        BY <2>1 DEF Accounted
      <3> QED BY <2>1, <3>1, <3>2
    <2>3. ASSUME NEW j \in 0 .. i PROVE feed[<<b, i>>] <= feed[<<b, j>>]
      <3>1. feed[<<b, j>>] \in Nat
        BY <2>1, MessageTypes DEF FeedInv
      <3>2. Cardinality(Owing(b, i) \ Owing(b, j)) \in Nat
        BY OwingFinite
      <3>3. feed[<<b, i>>] + Cardinality(Owing(b, i) \ Owing(b, j)) <= feed[<<b, j>>]
        BY <2>1 DEF Accounted
      <3> QED BY <2>1, <3>1, <3>2, <3>3
    <2>4. ASSUME Drained, stops = 0 PROVE feed[<<b, i>>] = commits[b]
      <3>1. Owing(b, i) = {}
        BY <2>4 DEF Drained, Owing
      <3>2. Cardinality(Owing(b, i)) = 0
        BY <3>1, FS_EmptySet
      <3> QED BY <2>1, <2>4, <3>2 DEF Accounted
    <2> QED BY <2>2, <2>3, <2>4
  <1> QED BY <1>1, <1>2, FeedNext, PTL DEF Spec

-----------------------------------------------------------------------------
(* What the design of the indexer intends (README, "Reorgs"), and what it  *)
(* takes for it to be so: one thread that processes the blocks, a node     *)
(* that replays the branches it turns to and retries nothing but its       *)
(* newest block, forks less deep than the journal is kept, no failing      *)
(* operation and no stop.  Then the index is at every moment what          *)
(* ChainStore promises readers, however branches change and whatever is    *)
(* delivered again, for every tree of blocks.                              *)

SerialSetting ==
    /\ \A s, t \in Threads : s = t
    /\ ReplayForks /\ ~ LateRetries
    /\ ForkDepth <= KeepBlocks + 1
    /\ MaxFaults = 0 /\ MaxStops = 0
    /\ \A b \in Blocks : ParentOf[b] = NoBlock =>
          \A c \in Blocks : HeightOf[b] <= HeightOf[c]

-----------------------------------------------------------------------------
(* The inductive invariant.                                                *)

(* The steps of process_block before its own block is stored and after it. *)
Before == {"detect", "rollback"}
After == {"metrics", "announce", "publish", "pruneRead", "pruneDelete"}

(* What is stored while a block is processed: the branch of the block      *)
(* before it, then what that branch shares with the new one, then the      *)
(* branch of the new one.                                                  *)
StageInv(t) ==
    /\ pc[t] \in Before \cup {"idle"} => Stored = BranchOf(Tip)
    /\ pc[t] = "store" => Stored = Lineage[block[t]] \ {block[t]}
    /\ pc[t] \in After => Stored = Lineage[block[t]]
    /\ pc[t] \in Before => ParentOf[block[t]] \in BranchOf(Tip) \cup {NoBlock}

(* The block that the head of the queue was announced after.               *)
Current(t) == IF pc[t] = "idle" THEN Tip ELSE block[t]

(* The queue holds the blocks in the order the node announced them: each   *)
(* has its parent in the branch of the one before.                         *)
QueueInv(t) ==
    /\ queue # <<>> => ParentOf[queue[1]] \in BranchOf(Current(t)) \cup {NoBlock}
    /\ \A i \in 1 .. Len(queue) - 1 :
          ParentOf[queue[i + 1]] \in BranchOf(queue[i]) \cup {NoBlock}
    /\ head = IF queue = <<>> THEN Current(t) ELSE queue[Len(queue)]

(* No block that is still to be processed forks off below a pruned height. *)
DepthInv(t) ==
    /\ \A i \in 1 .. Len(queue) :
          /\ queue[i] \in Announced
          /\ HeightOf[queue[i]] >= prunedTo
          /\ \A j \in 1 .. i - 1 : HeightOf[queue[j]] < HeightOf[queue[i]] + ForkDepth
          /\ pc[t] # "idle" => HeightOf[block[t]] < HeightOf[queue[i]] + ForkDepth
    /\ pc[t] # "idle" => block[t] \in Announced
    /\ pc[t] \in Before => HeightOf[block[t]] >= prunedTo
    /\ pc[t] = "pruneDelete" => cutoff[t] + KeepBlocks = HeightOf[block[t]]
    /\ prunedTo > 0 => \E a \in Announced : prunedTo + KeepBlocks <= HeightOf[a]

(* With no rollback at a pruned height, rows are exact at every height.    *)
RowsExact ==
    \A b \in Blocks : \A i \in Positions(b) :
        IsFiniteSet(RowsOf(b, i)) /\ Cardinality(RowsOf(b, i)) = indexerState[b]

DesignInv ==
    /\ SerialInv
    /\ StoreInv
    /\ phase = "up"
    /\ RowsExact
    /\ \A t \in Threads :
          StageInv(t) /\ QueueInv(t) /\ DepthInv(t)

-----------------------------------------------------------------------------
(* The branch of a block.                                                  *)

LEMMA ParentType ==
    ASSUME NEW b \in Blocks
    PROVE  ParentOf[b] = NoBlock \/ ParentOf[b] \in Blocks
  BY ParentAssumption

LEMMA ParentHeight ==
    ASSUME NEW b \in Blocks, ParentOf[b] \in Blocks
    PROVE  HeightOf[b] = HeightOf[ParentOf[b]] + 1
  BY HeightAssumption, NoBlockAssumption

(* A branch is in every set that holds its end and is closed.              *)
LEMMA LineageLeast ==
    ASSUME NEW b \in Blocks, NEW S \in SUBSET Blocks, b \in S, ParentClosed(S)
    PROVE  Lineage[b] \subseteq S
  BY DEF Lineage

LEMMA LineageClosed ==
    ASSUME NEW b \in Blocks
    PROVE  b \in Lineage[b] /\ Lineage[b] \subseteq Blocks /\ ParentClosed(Lineage[b])
  <1>1. b \in Lineage[b] /\ Lineage[b] \subseteq Blocks
    BY DEF Lineage
  <1>2. ASSUME NEW x \in Lineage[b], ParentOf[x] # NoBlock
        PROVE  ParentOf[x] \in Lineage[b]
    <2>1. ParentOf[x] \in Blocks
      BY <1>1, <1>2, ParentType
    <2>2. \A S \in SUBSET Blocks : b \in S /\ ParentClosed(S) => ParentOf[x] \in S
      <3>1. TAKE S \in SUBSET Blocks
      <3>2. HAVE b \in S /\ ParentClosed(S)
      <3>3. x \in S
        BY <3>2, LineageLeast
      <3> QED BY <3>2, <3>3, <1>2 DEF ParentClosed
    <2> QED BY <2>1, <2>2 DEF Lineage
  <1> QED BY <1>1, <1>2 DEF ParentClosed

(* A block's branch is the block on top of its parent's branch.            *)
LEMMA LineageStep ==
    ASSUME NEW b \in Blocks
    PROVE  Lineage[b] = {b} \cup BranchOf(ParentOf[b])
  <1>1. CASE ParentOf[b] = NoBlock
    <2>1. ParentClosed({b})
      BY <1>1 DEF ParentClosed
    <2> QED BY <1>1, <2>1, LineageLeast, LineageClosed DEF BranchOf
  <1>2. CASE ParentOf[b] \in Blocks
    <2> DEFINE p == ParentOf[b]
    <2>1. p # NoBlock
      BY <1>2, NoBlockAssumption
    <2>2. p \in Lineage[p] /\ Lineage[p] \subseteq Blocks /\ ParentClosed(Lineage[p])
      BY <1>2, LineageClosed
    <2>3. ParentClosed({b} \cup Lineage[p])
      BY <2>2 DEF ParentClosed
    <2>4. Lineage[b] \subseteq {b} \cup Lineage[p]
      BY <2>2, <2>3, LineageLeast
    <2>5. b \in Lineage[b] /\ Lineage[b] \subseteq Blocks /\ ParentClosed(Lineage[b])
      BY LineageClosed
    <2>6. p \in Lineage[b]
      BY <2>1, <2>5 DEF ParentClosed
    <2>7. Lineage[p] \subseteq Lineage[b]
      BY <1>2, <2>5, <2>6, LineageLeast
    <2> QED BY <2>1, <2>4, <2>5, <2>7 DEF BranchOf
  <1> QED BY <1>1, <1>2, ParentType

(* Its other blocks are lower.                                             *)
LEMMA LineageBelow ==
    ASSUME NEW b \in Blocks, NEW a \in Lineage[b]
    PROVE  a \in Blocks /\ HeightOf[a] <= HeightOf[b] /\ (a # b => HeightOf[a] < HeightOf[b])
  <1>1. ASSUME NEW c \in Blocks
        PROVE  \A x \in Lineage[c] : x \in Blocks /\ HeightOf[x] <= HeightOf[c]
    <2> DEFINE S == {x \in Blocks : HeightOf[x] <= HeightOf[c]}
    <2>1. ASSUME NEW x \in S PROVE ParentOf[x] \in S \cup {NoBlock}
      <3>1. CASE ParentOf[x] \in Blocks
        <4>1. /\ HeightOf[x] = HeightOf[ParentOf[x]] + 1
              /\ HeightOf[x] \in Nat /\ HeightOf[ParentOf[x]] \in Nat /\ HeightOf[c] \in Nat
          BY <3>1, ParentHeight, BlockHeights
        <4> QED BY <3>1, <4>1
      <3> QED BY <3>1, ParentType
    <2>2. c \in S
      BY BlockHeights
    <2>3. Lineage[c] \subseteq S
      BY <2>1, <2>2, LineageLeast DEF ParentClosed
    <2> QED BY <2>3
  <1>2. ASSUME a # b PROVE HeightOf[a] < HeightOf[b]
    <2> DEFINE p == ParentOf[b]
    <2>1. a \in BranchOf(p)
      BY <1>2, LineageStep
    <2>2. p \in Blocks /\ a \in Lineage[p]
      BY <2>1, ParentType DEF BranchOf
    <2>3. HeightOf[a] <= HeightOf[p] /\ a \in Blocks
      BY <1>1, <2>2
    <2>4. /\ HeightOf[b] = HeightOf[p] + 1
          /\ HeightOf[a] \in Nat /\ HeightOf[b] \in Nat /\ HeightOf[p] \in Nat
      BY <2>2, <2>3, ParentHeight, BlockHeights
    <2> QED BY <2>3, <2>4
  <1> QED BY <1>1, <1>2

(* A branch is a line: it holds the whole branch of each of its blocks,    *)
(* and that is all it holds up to that block's height.                     *)
LEMMA LineageLine ==
    ASSUME NEW m \in Blocks, NEW p \in Lineage[m]
    PROVE  Lineage[p] = {c \in Lineage[m] : HeightOf[c] <= HeightOf[p]}
  <1> DEFINE L == Lineage[m]
             S == {x \in L : \A y \in L :
                     /\ HeightOf[x] <= HeightOf[y] => x \in Lineage[y]
                     /\ HeightOf[y] <= HeightOf[x] => y \in Lineage[x]}
  <1>1. m \in L /\ L \subseteq Blocks /\ ParentClosed(L)
    BY LineageClosed
  <1>2. m \in S
    <2>1. ASSUME NEW y \in L, HeightOf[m] <= HeightOf[y] PROVE y = m
      BY <1>1, <2>1, LineageBelow, BlockHeights
    <2> QED BY <1>1, <2>1
  <1>3. ASSUME NEW x \in S, ParentOf[x] # NoBlock PROVE ParentOf[x] \in S
    <2> DEFINE q == ParentOf[x]
    <2>1. x \in Blocks /\ q \in L /\ q \in Blocks
      BY <1>1, <1>3 DEF ParentClosed
    <2>2. HeightOf[x] = HeightOf[q] + 1 /\ HeightOf[x] \in Nat /\ HeightOf[q] \in Nat
      BY <2>1, ParentHeight, BlockHeights
    <2>3. ASSUME NEW y \in L, HeightOf[y] <= HeightOf[q] PROVE y \in Lineage[q]
      <3>1. HeightOf[y] \in Nat /\ y # x
        BY <1>1, <2>2, <2>3, BlockHeights
      <3>2. y \in Lineage[x]
        BY <2>2, <2>3, <3>1
      <3> QED BY <1>3, <2>1, <3>1, <3>2, LineageStep DEF BranchOf
    <2>4. ASSUME NEW y \in L, HeightOf[q] <= HeightOf[y] PROVE q \in Lineage[y]
      <3>1. y \in Blocks /\ HeightOf[y] \in Nat
        BY <1>1, BlockHeights
      <3>2. CASE HeightOf[y] = HeightOf[q]
        <4>1. y \in Lineage[q]
          BY <2>2, <2>3, <3>2
        <4>2. y = q
          BY <2>1, <2>2, <3>2, <4>1, LineageBelow
        <4> QED BY <3>1, <4>2, LineageClosed
      <3>3. CASE HeightOf[y] # HeightOf[q]
        <4>1. HeightOf[x] <= HeightOf[y]
          BY <2>2, <2>4, <3>1, <3>3
        <4>2. x \in Lineage[y]
          BY <4>1
        <4> QED BY <1>3, <3>1, <4>2, LineageClosed DEF ParentClosed
      <3> QED BY <3>2, <3>3
    <2> QED BY <2>1, <2>3, <2>4
  <1>4. L \subseteq S
    <2>1. ParentClosed(S)
      BY <1>3 DEF ParentClosed
    <2>2. S \in SUBSET Blocks
      BY <1>1
    <2> HIDE DEF S
    <2> QED BY <1>2, <2>1, <2>2, LineageLeast
  <1>5. Lineage[p] \subseteq L
    BY <1>1, LineageLeast
  <1>6. \A c \in Lineage[p] : HeightOf[c] <= HeightOf[p]
    BY <1>1, LineageBelow
  <1>7. ASSUME NEW c \in L, HeightOf[c] <= HeightOf[p] PROVE c \in Lineage[p]
    <2>1. p \in S
      BY <1>4
    <2> QED BY <1>7, <2>1
  <1> QED BY <1>5, <1>6, <1>7

-----------------------------------------------------------------------------
(* What a branch in the store says of its tip, and where branches part.    *)

LEMMA BranchTip ==
    ASSUME NEW b \in Blocks, Stored = Lineage[b]
    PROVE  TipBlocks = {b} /\ Tip = b /\ LastHeight = HeightOf[b]
  <1>1. b \in Stored /\ \A c \in Stored : c \in Blocks /\ HeightOf[c] <= HeightOf[b]
    BY LineageClosed, LineageBelow
  <1>2. ASSUME NEW c \in Stored, c # b PROVE ~ (HeightOf[b] <= HeightOf[c])
    <2>1. HeightOf[c] < HeightOf[b] /\ HeightOf[c] \in Nat /\ HeightOf[b] \in Nat
      BY <1>1, <1>2, LineageBelow, BlockHeights
    <2> QED BY <2>1
  <1>3. TipBlocks = {b}
    BY <1>1, <1>2 DEF TipBlocks
  <1> QED BY <1>1, <1>3 DEF LastHeight, Tip

(* Below a block, the branch before it holds just that block's ancestors:  *)
(* detect_reorg finds them to be all that is stored, or handle_reorg       *)
(* leaves them alone.                                                      *)
LEMMA ForkPoint ==
    ASSUME SerialSetting, NEW b \in Blocks, NEW m \in Blocks \cup {NoBlock},
           ParentOf[b] \in BranchOf(m) \cup {NoBlock}
    PROVE  {c \in BranchOf(m) : HeightOf[c] < HeightOf[b]} = Lineage[b] \ {b}
  <1>1. BranchOf(m) \subseteq Blocks
    BY LineageClosed DEF BranchOf
  <1>2. CASE ParentOf[b] = NoBlock
    <2>1. ASSUME NEW c \in BranchOf(m) PROVE ~ (HeightOf[c] < HeightOf[b])
      BY <1>1, <1>2, BlockHeights DEF SerialSetting
    <2>2. Lineage[b] \ {b} = {}
      BY <1>2, LineageStep DEF BranchOf
    <2> QED BY <2>1, <2>2
  <1>3. CASE ParentOf[b] # NoBlock
    <2> DEFINE p == ParentOf[b]
    <2>1. p \in BranchOf(m) /\ p \in Blocks /\ m \in Blocks /\ BranchOf(m) = Lineage[m]
      BY <1>1, <1>3 DEF BranchOf
    <2>2. HeightOf[b] = HeightOf[p] + 1
      BY <2>1, ParentHeight
    <2>3. \A c \in BranchOf(m) : HeightOf[c] < HeightOf[b] <=> HeightOf[c] <= HeightOf[p]
      BY <1>1, <2>1, <2>2, BlockHeights
    <2>4. Lineage[p] = {c \in BranchOf(m) : HeightOf[c] < HeightOf[b]}
      BY <2>1, <2>3, LineageLine
    <2>5. b \notin Lineage[p]
      <3>1. ~ (HeightOf[b] < HeightOf[b])
        BY BlockHeights
      <3> QED BY <2>4, <3>1
    <2>6. Lineage[b] = {b} \cup Lineage[p]
      BY <1>3, LineageStep DEF BranchOf
    <2> QED BY <2>4, <2>5, <2>6
  <1> QED BY <1>2, <1>3

(* Only the empty branch is empty.                                         *)
LEMMA BranchEmpty ==
    ASSUME NEW m \in Blocks \cup {NoBlock}
    PROVE  /\ BranchOf(m) = {} <=> m = NoBlock
           /\ BranchOf(m) \subseteq Blocks
           /\ m # NoBlock => BranchOf(m) = Lineage[m] /\ m \in Blocks
  BY LineageClosed DEF BranchOf

-----------------------------------------------------------------------------
(* One thread at work and a node that announces: nothing else happens.     *)

LEMMA SettingSteps ==
    ASSUME SerialSetting, DesignInv, [Next]_vars
    PROVE  \/ \E b \in Blocks : NewBlock(b)
           \/ \E t \in Threads : Work(t)
           \/ UNCHANGED vars
  <1>1. phase = "up" /\ faults \in Nat /\ stops \in Nat
    BY DEF DesignInv, SerialInv, TypeOK
  <1>2. ~ (faults < MaxFaults) /\ ~ (stops < MaxStops)
    BY <1>1 DEF SerialSetting
  <1> QED BY <1>1, <1>2 DEF Next, MissedBlock, DatabaseError, CtrlC, CancelQueued,
                            Exit, Kill, Start

LEMMA TipType == Tip \in Blocks \cup {NoBlock}
  BY DEF Tip, TipBlocks, Stored

LEMMA DesignTypes ==
    ASSUME DesignInv
    PROVE  DatabaseTypeOK /\ NodeType /\ ThreadType /\ OutType /\ ServerType /\ BoundType
  BY TypeParts DEF DesignInv, SerialInv

-----------------------------------------------------------------------------
(* Each step keeps the invariant's parts about branch and queue.           *)

LineInv(t) == StageInv(t) /\ QueueInv(t)

(* What a thread does with its block once that is stored has no part in    *)
(* the store's branch or the queue; when it is done, its block is the tip. *)
LEMMA AfterLine ==
    ASSUME DesignInv, NEW t \in Threads,
           SetMetrics(t) \/ PublishBlock(t) \/ PublishEvent(t)
           \/ PruneRead(t) \/ PruneDelete(t)
    PROVE  LineInv(t)'
  <1> DEFINE b == block[t]
  <1>1. StageInv(t) /\ QueueInv(t) /\ ThreadType
    BY DesignTypes DEF DesignInv
  <1>2. pc[t] \in After /\ b \in Blocks
    BY <1>1, BusyBlock DEF SetMetrics, PublishBlock, PublishEvent, PruneRead, PruneDelete,
                           After
  <1>3. UNCHANGED <<indexerState, queue, head>>
    BY DEF SetMetrics, PublishBlock, PublishEvent, PruneRead, PruneDelete,
           DeleteJournalBelow, dbVars, nodeVars
  <1>4. \/ pc'[t] = "idle"
        \/ pc'[t] \in After /\ block'[t] = b
    <2>1. CASE SetMetrics(t)
      BY <1>1, <2>1, GotoEffect DEF SetMetrics, After
    <2>2. CASE PublishBlock(t)
      BY <1>1, <2>2, AfterPublishEffect, GotoEffect DEF PublishBlock, After
    <2>3. CASE PublishEvent(t)
      BY <1>1, <1>2, <2>3, AfterPublishEffect DEF PublishEvent, After
    <2>4. CASE PruneRead(t) \/ PruneDelete(t)
      BY <1>1, <2>4, ReturnEffect, GotoEffect DEF PruneRead, PruneDelete, After
    <2> QED BY <2>1, <2>2, <2>3, <2>4
  <1>5. Stored' = Stored /\ Tip' = Tip /\ Stored = Lineage[b] /\ Tip = b
    BY <1>1, <1>2, <1>3, StoredKept, BranchTip DEF StageInv
  <1>6. BranchOf(b) = Lineage[b]
    BY <1>2, BranchEmpty, NoBlockAssumption
  <1>7. StageInv(t)'
    BY <1>4, <1>5, <1>6 DEF StageInv, Before, After
  <1>8. QueueInv(t)'
    <2>1. Current(t)' = b /\ Current(t) = b
      BY <1>2, <1>4, <1>5 DEF Current, After
    <2> QED BY <1>1, <1>3, <2>1 DEF QueueInv
  <1> QED BY <1>7, <1>8 DEF LineInv

LEMMA TailOf ==
    ASSUME NEW S, NEW s \in Seq(S), s # <<>>
    PROVE  /\ Len(s) \in Nat /\ Len(s) > 0
           /\ Tail(s) \in Seq(S) /\ Len(Tail(s)) = Len(s) - 1
           /\ \A i \in 1 .. Len(Tail(s)) : Tail(s)[i] = s[i + 1]
           /\ Tail(s) = <<>> <=> Len(Tail(s)) = 0
  <1> DEFINE r == Tail(s)
  <1>1. /\ Len(s) \in Nat /\ Len(s) > 0
        /\ r \in Seq(S) /\ Len(r) = Len(s) - 1
        /\ \A i \in 1 .. Len(r) : r[i] = s[i + 1]
    OBVIOUS
  <1>2. r = <<>> <=> Len(r) = 0
    <2> HIDE DEF r
    <2> QED BY <1>1
  <1> QED BY <1>1, <1>2

LEMMA TakeLine ==
    ASSUME DesignInv, NEW t \in Threads, Take(t)
    PROVE  LineInv(t)'
  <1>1. StageInv(t) /\ QueueInv(t) /\ ThreadType /\ queue \in Seq(Blocks)
    BY DesignTypes DEF DesignInv, ServerType
  <1>2. /\ pc[t] = "idle" /\ pc'[t] = "detect"
        /\ queue # <<>> /\ block'[t] = queue[1] /\ queue' = Tail(queue)
        /\ UNCHANGED <<indexerState, head>>
    BY <1>1 DEF Take, Goto, ThreadType, dbVars, nodeVars
  <1>3. Tip' = Tip /\ Stored' = Stored
    BY <1>2, StoredKept
  <1>4. StageInv(t)'
    BY <1>1, <1>2, <1>3 DEF StageInv, QueueInv, Current, Before, After
  <1>6. QueueInv(t)'
    <2>1. /\ Len(queue) \in Nat /\ Len(queue) > 0 /\ Len(queue') = Len(queue) - 1
          /\ \A i \in 1 .. Len(queue') : queue'[i] = queue[i + 1]
          /\ queue' = <<>> <=> Len(queue') = 0
      BY <1>1, <1>2, TailOf
    <2>2. Current(t)' = queue[1]
      BY <1>2 DEF Current
    <2>3. queue' # <<>> => ParentOf[queue'[1]] \in BranchOf(queue[1]) \cup {NoBlock}
      BY <1>1, <2>1 DEF QueueInv
    <2>4. ASSUME NEW i \in 1 .. Len(queue') - 1
          PROVE  ParentOf[queue'[i + 1]] \in BranchOf(queue'[i]) \cup {NoBlock}
      <3>1. /\ i \in 1 .. Len(queue') /\ i + 1 \in 1 .. Len(queue')
            /\ i + 1 \in 1 .. Len(queue) - 1
        BY <2>1
      <3>2. queue'[i] = queue[i + 1] /\ queue'[i + 1] = queue[(i + 1) + 1]
        BY <2>1, <3>1
      <3> QED BY <1>1, <3>1, <3>2 DEF QueueInv
    <2>5. head' = IF queue' = <<>> THEN queue[1] ELSE queue'[Len(queue')]
      BY <1>1, <1>2, <2>1 DEF QueueInv
    <2> QED BY <2>2, <2>3, <2>4, <2>5 DEF QueueInv
  <1> QED BY <1>4, <1>6 DEF LineInv

(* The steps from the first look at the tip to the store leave the queue   *)
(* alone.                                                                  *)
LEMMA EarlySteps ==
    ASSUME DesignInv, NEW t \in Threads, Detect(t) \/ HandleReorg(t) \/ Store(t)
    PROVE  /\ block[t] \in Blocks /\ block'[t] = block[t]
           /\ Tip \in Blocks \cup {NoBlock}
           /\ pc[t] \in Before \cup {"store"}
           /\ pc'[t] \in {"rollback", "store", "metrics"}
           /\ QueueInv(t)'
  <1>1. StageInv(t) /\ QueueInv(t) /\ ThreadType
    BY DesignTypes DEF DesignInv
  <1>2. /\ pc[t] \in Before \cup {"store"} /\ pc'[t] \in {"rollback", "store", "metrics"}
        /\ UNCHANGED <<block, queue, head>>
    BY <1>1, GotoEffect DEF Detect, HandleReorg, Store, Before, nodeVars
  <1>3. block[t] \in Blocks /\ Tip \in Blocks \cup {NoBlock}
    BY <1>1, <1>2, BusyBlock, TipType DEF Before
  <1>4. QueueInv(t)'
    <2>1. Current(t)' = Current(t)
      BY <1>2, <1>3 DEF Current, Before
    <2> QED BY <1>1, <1>2, <2>1 DEF QueueInv
  <1> QED BY <1>2, <1>3, <1>4

LEMMA DetectLine ==
    ASSUME SerialSetting, DesignInv, NEW t \in Threads, Detect(t)
    PROVE  LineInv(t)'
  <1> DEFINE b == block[t]
  <1>1. b \in Blocks /\ Tip \in Blocks \cup {NoBlock} /\ block'[t] = b /\ QueueInv(t)'
    BY EarlySteps
  <1>2. /\ pc'[t] \in {"rollback", "store"}
        /\ Stored' = Stored /\ Tip' = Tip /\ Stored = BranchOf(Tip)
        /\ ParentOf[b] \in BranchOf(Tip) \cup {NoBlock}
    BY GotoEffect, StoredKept, DesignTypes DEF Detect, dbVars, DesignInv, StageInv, Before
  <1>3. ASSUME pc'[t] = "store" PROVE Stored = Lineage[b] \ {b}
    <2>1. \A c \in Stored : HeightOf[c] < HeightOf[b]
      BY <1>3, DetectClear DEF DesignInv, SerialInv
    <2>2. Stored = {c \in BranchOf(Tip) : HeightOf[c] < HeightOf[b]}
      BY <1>2, <2>1
    <2> QED BY <1>1, <1>2, <2>2, ForkPoint
  <1>4. StageInv(t)'
    BY <1>1, <1>2, <1>3 DEF StageInv, Before, After
  <1> QED BY <1>1, <1>4 DEF LineInv

LEMMA RollbackLine ==
    ASSUME SerialSetting, DesignInv, NEW t \in Threads, HandleReorg(t)
    PROVE  LineInv(t)'
  <1> DEFINE b == block[t]
  <1>1. b \in Blocks /\ Tip \in Blocks \cup {NoBlock} /\ block'[t] = b /\ QueueInv(t)'
    BY EarlySteps
  <1>2. /\ pc'[t] = "store" /\ Stored = BranchOf(Tip)
        /\ ParentOf[b] \in BranchOf(Tip) \cup {NoBlock}
    BY GotoEffect, DesignTypes DEF HandleReorg, DesignInv, StageInv, Before
  <1>3. Stored' = {c \in Stored : HeightOf[c] < HeightOf[b]}
    BY <1>1, BlockHeights DEF HandleReorg, RollbackFromHeight, Stored
  <1>4. StageInv(t)'
    BY <1>1, <1>2, <1>3, ForkPoint DEF StageInv, Before, After
  <1> QED BY <1>1, <1>4 DEF LineInv

LEMMA StoreLine ==
    ASSUME DesignInv, NEW t \in Threads, Store(t)
    PROVE  /\ LineInv(t)'
           /\ Stored' = Stored \cup {block[t]}
           /\ Stored = Lineage[block[t]] \ {block[t]}
  <1> DEFINE b == block[t]
  <1>1. b \in Blocks /\ block'[t] = b /\ QueueInv(t)'
    BY EarlySteps
  <1>2. pc'[t] = "metrics" /\ Stored = Lineage[b] \ {b}
    BY GotoEffect, DesignTypes DEF Store, DesignInv, StageInv
  <1>3. Stored' = Stored \cup {b}
    BY <1>1, DesignTypes DEF Store, ApplyBlock, Stored, DatabaseTypeOK
  <1>4. StageInv(t)'
    BY <1>1, <1>2, <1>3, LineageClosed DEF StageInv, Before, After
  <1> QED BY <1>1, <1>2, <1>3, <1>4 DEF LineInv

(* A block announced after another, or again, goes behind it in the queue. *)
LEMMA AnnounceLine ==
    ASSUME SerialSetting, DesignInv, NEW t \in Threads, NEW b \in Blocks, NewBlock(b)
    PROVE  LineInv(t)'
  <1>1. /\ StageInv(t) /\ QueueInv(t)
        /\ queue \in Seq(Blocks) /\ ReplayForks /\ ~ LateRetries
    BY DesignTypes DEF DesignInv, ServerType, SerialSetting
  <1>2. /\ queue' = Append(queue, b)
        /\ UNCHANGED <<indexerState, pc, block>>
    BY DEF NewBlock, dbVars, threadVars
  <1>3. head' = b /\ ParentOf[b] \in {NoBlock} \cup BranchOf(head)
    <2>1. CASE Adopt(b)
      BY <1>1, <2>1 DEF Adopt, KnownParents
    <2>2. CASE Retry(b)
      <3>1. b = head /\ head' = b
        BY <1>1, <2>2 DEF Retry
      <3>2. b \in Lineage[b] /\ ParentClosed(Lineage[b]) /\ BranchOf(b) = Lineage[b]
        BY LineageClosed, NoBlockAssumption DEF BranchOf
      <3> QED BY <3>1, <3>2 DEF ParentClosed
    <2> QED BY <2>1, <2>2 DEF NewBlock, Announce
  <1>4. Stored' = Stored /\ Tip' = Tip /\ Current(t)' = Current(t)
    BY <1>2, StoredKept DEF Current
  <1>5. StageInv(t)'
    BY <1>1, <1>2, <1>4 DEF StageInv
  <1>6. QueueInv(t)'
    <2> DEFINE n == Len(queue)
    <2>1. /\ n \in Nat /\ Len(queue') = n + 1 /\ queue'[n + 1] = b /\ queue' # <<>>
          /\ \A i \in 1 .. n : queue'[i] = queue[i]
          /\ queue = <<>> <=> n = 0
      BY <1>1, <1>2
    <2>2. ParentOf[queue'[1]] \in BranchOf(Current(t)) \cup {NoBlock}
      BY <1>1, <1>3, <2>1 DEF QueueInv
    <2>3. ASSUME NEW i \in 1 .. n
          PROVE  ParentOf[queue'[i + 1]] \in BranchOf(queue'[i]) \cup {NoBlock}
      <3>1. CASE i = n
        <4>1. queue # <<>> /\ queue'[i] = queue[n] /\ queue'[i + 1] = b /\ head = queue[n]
          BY <1>1, <2>1, <3>1 DEF QueueInv
        <4> QED BY <1>3, <4>1
      <3>2. CASE i # n
        <4>1. i \in 1 .. n - 1 /\ i + 1 \in 1 .. n
          BY <2>1, <3>2
        <4>2. queue'[i] = queue[i] /\ queue'[i + 1] = queue[i + 1]
          BY <2>1, <4>1
        <4> QED BY <1>1, <4>1, <4>2 DEF QueueInv
      <3> QED BY <3>1, <3>2
    <2> QED BY <1>3, <1>4, <2>1, <2>2, <2>3 DEF QueueInv
  <1> QED BY <1>5, <1>6 DEF LineInv

-----------------------------------------------------------------------------
(* The journal still reaches below every block that is to be processed.    *)

LEMMA DepthTypes ==
    ASSUME DesignInv
    PROVE  /\ queue \in Seq(Blocks) /\ prunedTo \in Nat /\ Announced \subseteq Blocks
           /\ \A i \in 1 .. Len(queue) : queue[i] \in Blocks /\ HeightOf[queue[i]] \in Nat
           /\ \A a \in Announced : HeightOf[a] \in Nat
           /\ KeepBlocks \in Nat /\ ForkDepth \in Nat
           /\ \A t \in Threads : pc[t] # "idle" =>
                 block[t] \in Blocks /\ HeightOf[block[t]] \in Nat
  <1>1. queue \in Seq(Blocks) /\ prunedTo \in Nat /\ ThreadType
    BY DesignTypes DEF ServerType, DatabaseTypeOK
  <1>2. \A i \in 1 .. Len(queue) : queue[i] \in Blocks
    BY <1>1
  <1> QED BY <1>1, <1>2, BusyBlock, BlockHeights, PruneAssumption, ForkAssumption
          DEF Announced

(* Going on with a block, or being done with it.                           *)
LEMMA DepthKept ==
    ASSUME NEW t \in Threads, DepthInv(t), UNCHANGED <<queue, deliveries, prunedTo>>,
           \/ pc'[t] = "idle"
           \/ /\ pc[t] # "idle" /\ block'[t] = block[t]
              /\ pc'[t] \in Before => pc[t] \in Before
              /\ pc'[t] = "pruneDelete" => cutoff'[t] + KeepBlocks = HeightOf[block[t]]
    PROVE  DepthInv(t)'
  <1>1. Announced' = Announced
    BY DEF Announced
  <1> QED BY <1>1 DEF DepthInv, Before

LEMMA AnnounceDepth ==
    ASSUME SerialSetting, DesignInv, NEW t \in Threads, NEW b \in Blocks, NewBlock(b)
    PROVE  DepthInv(t)'
  <1> DEFINE n == Len(queue)
  <1>1. /\ DepthInv(t) /\ queue \in Seq(Blocks) /\ deliveries \in [Blocks -> Nat]
        /\ b \in Blocks /\ HeightOf[b] \in Nat /\ ForkDepth <= KeepBlocks + 1
    BY DesignTypes, BlockHeights DEF DesignInv, ServerType, NodeType, SerialSetting
  <1>2. /\ queue' = Append(queue, b) /\ deliveries' = [deliveries EXCEPT ![b] = @ + 1]
        /\ \A a \in Announced : HeightOf[a] < HeightOf[b] + ForkDepth
        /\ UNCHANGED <<pc, block, cutoff, prunedTo>>
    BY DEF NewBlock, Announce, Adopt, Retry, Deliver, dbVars, threadVars
  <1>3. b \in Announced' /\ Announced \subseteq Announced'
    BY <1>1, <1>2 DEF Announced
  <1>4. HeightOf[b] >= prunedTo
    <2>1. CASE prunedTo > 0
      <3>1. PICK a \in Announced : prunedTo + KeepBlocks <= HeightOf[a]
        BY <1>1, <2>1 DEF DepthInv
      <3>2. HeightOf[a] < HeightOf[b] + ForkDepth /\ HeightOf[a] \in Nat
        BY <1>2, DepthTypes
      <3>3. /\ HeightOf[b] \in Nat /\ prunedTo \in Nat
            /\ KeepBlocks \in Nat /\ ForkDepth \in Nat /\ ForkDepth <= KeepBlocks + 1
        BY <1>1, DepthTypes
      <3> QED BY <3>1, <3>2, <3>3
    <2>2. CASE ~ (prunedTo > 0)
      BY <1>1, <2>2, DepthTypes
    <2> QED BY <2>1, <2>2
  <1>5. /\ n \in Nat /\ Len(queue') = n + 1 /\ queue'[n + 1] = b
        /\ \A i \in 1 .. n : queue'[i] = queue[i]
    BY <1>1, <1>2
  <1>6. ASSUME NEW i \in 1 .. Len(queue')
        PROVE  /\ queue'[i] \in Announced'
               /\ HeightOf[queue'[i]] >= prunedTo'
               /\ \A j \in 1 .. i - 1 : HeightOf[queue'[j]] < HeightOf[queue'[i]] + ForkDepth
               /\ pc'[t] # "idle" => HeightOf[block'[t]] < HeightOf[queue'[i]] + ForkDepth
    <2>1. CASE i \in 1 .. n
      <3>1. \A j \in 1 .. i - 1 : j \in 1 .. n
        BY <1>5, <2>1
      <3> QED BY <1>1, <1>2, <1>3, <1>5, <2>1, <3>1 DEF DepthInv
    <2>2. CASE i = n + 1
      <3>1. \A j \in 1 .. i - 1 : j \in 1 .. n
        BY <1>5, <2>2
      <3> QED BY <1>1, <1>2, <1>3, <1>4, <1>5, <2>2, <3>1 DEF DepthInv
    <2> QED BY <1>5, <2>1, <2>2
  <1>7. prunedTo' > 0 => \E a \in Announced' : prunedTo' + KeepBlocks <= HeightOf[a]
    BY <1>1, <1>2, <1>3 DEF DepthInv
  <1>8. /\ pc'[t] # "idle" => block'[t] \in Announced'
        /\ pc'[t] \in Before => HeightOf[block'[t]] >= prunedTo'
        /\ pc'[t] = "pruneDelete" => cutoff'[t] + KeepBlocks = HeightOf[block'[t]]
    BY <1>1, <1>2, <1>3 DEF DepthInv
  <1> QED BY <1>6, <1>7, <1>8 DEF DepthInv

LEMMA TakeDepth ==
    ASSUME DesignInv, NEW t \in Threads, Take(t)
    PROVE  DepthInv(t)'
  <1>1. DepthInv(t) /\ ThreadType /\ queue \in Seq(Blocks)
    BY DesignTypes DEF DesignInv, ServerType
  <1>2. /\ pc[t] = "idle" /\ pc'[t] = "detect" /\ queue # <<>>
        /\ block'[t] = queue[1] /\ queue' = Tail(queue)
        /\ UNCHANGED <<deliveries, prunedTo>>
    BY <1>1 DEF Take, Goto, ThreadType, dbVars, nodeVars
  <1>3. Announced' = Announced
    BY <1>2 DEF Announced
  <1>4. /\ Len(queue) \in Nat /\ Len(queue) > 0 /\ Len(queue') = Len(queue) - 1
        /\ \A i \in 1 .. Len(queue') : queue'[i] = queue[i + 1]
    BY <1>1, <1>2, TailOf
  <1>5. ASSUME NEW i \in 1 .. Len(queue')
        PROVE  /\ queue'[i] \in Announced
               /\ HeightOf[queue'[i]] >= prunedTo
               /\ \A j \in 1 .. i - 1 : HeightOf[queue'[j]] < HeightOf[queue'[i]] + ForkDepth
               /\ HeightOf[queue[1]] < HeightOf[queue'[i]] + ForkDepth
    <2>1. i + 1 \in 1 .. Len(queue) /\ queue'[i] = queue[i + 1]
      BY <1>4
    <2>2. \A j \in 1 .. (i + 1) - 1 : HeightOf[queue[j]] < HeightOf[queue[i + 1]] + ForkDepth
      BY <1>1, <2>1 DEF DepthInv
    <2>3. ASSUME NEW j \in 1 .. i - 1
          PROVE  HeightOf[queue'[j]] < HeightOf[queue'[i]] + ForkDepth
      <3>1. j + 1 \in 1 .. (i + 1) - 1 /\ queue'[j] = queue[j + 1]
        BY <1>4
      <3> QED BY <2>1, <2>2, <3>1
    <2>4. 1 \in 1 .. (i + 1) - 1
      OBVIOUS
    <2> QED BY <1>1, <2>1, <2>2, <2>3, <2>4 DEF DepthInv
  <1>6. queue[1] \in Announced /\ HeightOf[queue[1]] >= prunedTo
    BY <1>1, <1>4 DEF DepthInv
  <1> QED BY <1>1, <1>2, <1>3, <1>5, <1>6 DEF DepthInv

LEMMA PruneReadDepth ==
    ASSUME DesignInv, NEW t \in Threads, PruneRead(t)
    PROVE  DepthInv(t)'
  <1>1. DepthInv(t) /\ StageInv(t) /\ ThreadType /\ block[t] \in Blocks /\ pc[t] = "pruneRead"
    BY DesignTypes, BusyBlock DEF DesignInv, PruneRead
  <1>2. LastHeight = HeightOf[block[t]]
    BY <1>1, BranchTip DEF StageInv, After
  <1>3. UNCHANGED <<queue, deliveries, prunedTo>>
    BY DEF PruneRead, dbVars, nodeVars
  <1>4. CASE LastHeight <= KeepBlocks
    <2>1. pc'[t] = "idle"
      BY <1>1, <1>4, ReturnEffect DEF PruneRead
    <2> QED BY <1>1, <1>3, <2>1, DepthKept
  <1>5. CASE ~ (LastHeight <= KeepBlocks)
    <2>1. /\ pc'[t] = "pruneDelete" /\ block'[t] = block[t]
          /\ cutoff'[t] = LastHeight - KeepBlocks
      BY <1>1, <1>5, GotoEffect DEF PruneRead, ThreadType
    <2>2. cutoff'[t] + KeepBlocks = HeightOf[block[t]]
      BY <1>1, <1>2, <2>1, BlockHeights, PruneAssumption
    <2> QED BY <1>1, <1>3, <2>1, <2>2, DepthKept DEF Before
  <1> QED BY <1>4, <1>5

LEMMA PruneDeleteDepth ==
    ASSUME SerialSetting, DesignInv, NEW t \in Threads, PruneDelete(t)
    PROVE  DepthInv(t)'
  <1> DEFINE h == HeightOf[block[t]]
             c == cutoff[t]
  <1>1. /\ DepthInv(t) /\ pc[t] = "pruneDelete" /\ pc'[t] = "idle"
        /\ UNCHANGED <<queue, deliveries>>
        /\ prunedTo' = IF c > prunedTo THEN c ELSE prunedTo
    BY DesignTypes, ReturnEffect
       DEF DesignInv, PruneDelete, DeleteJournalBelow, nodeVars
  <1>2. /\ c + KeepBlocks = h /\ h \in Nat /\ KeepBlocks \in Nat /\ c \in Nat
        /\ block[t] \in Announced
    BY <1>1, DepthTypes, DesignTypes, CutoffsType DEF DepthInv, ThreadType
  <1>3. Announced' = Announced
    BY <1>1 DEF Announced
  <1>4. prunedTo' > 0 => \E a \in Announced : prunedTo' + KeepBlocks <= HeightOf[a]
    <2>1. CASE c > prunedTo
      BY <1>1, <1>2, <2>1
    <2>2. CASE ~ (c > prunedTo)
      BY <1>1, <2>2 DEF DepthInv
    <2> QED BY <2>1, <2>2
  <1>5. ASSUME NEW i \in 1 .. Len(queue)
        PROVE  HeightOf[queue[i]] >= prunedTo'
    <2>1. h < HeightOf[queue[i]] + ForkDepth /\ HeightOf[queue[i]] >= prunedTo
      BY <1>1 DEF DepthInv
    <2>2. ForkDepth <= KeepBlocks + 1 /\ ForkDepth \in Nat /\ HeightOf[queue[i]] \in Nat
      BY DepthTypes DEF SerialSetting
    <2>3. c <= HeightOf[queue[i]]
      BY <1>2, <2>1, <2>2
    <2> QED BY <1>1, <2>1, <2>3
  <1> QED BY <1>1, <1>3, <1>4, <1>5 DEF DepthInv, Before

LEMMA GoOnDepth ==
    ASSUME DesignInv, NEW t \in Threads,
           \/ Detect(t) \/ HandleReorg(t) \/ Store(t) \/ SetMetrics(t)
           \/ PublishBlock(t) \/ PublishEvent(t)
    PROVE  DepthInv(t)'
  <1>1. DepthInv(t) /\ ThreadType
    BY DesignTypes DEF DesignInv
  <1>2. UNCHANGED <<queue, deliveries, prunedTo>>
    BY DEF Detect, HandleReorg, RollbackFromHeight, Store, ApplyBlock, SetMetrics,
           PublishBlock, PublishEvent, dbVars, nodeVars
  <1>3. CASE Detect(t) \/ HandleReorg(t) \/ Store(t) \/ SetMetrics(t)
    <2>1. pc[t] # "idle" /\ block'[t] = block[t] /\ pc'[t] # "pruneDelete"
          /\ (pc'[t] \in Before => pc[t] \in Before)
      BY <1>1, <1>3, GotoEffect DEF Detect, HandleReorg, Store, SetMetrics, Before
    <2> QED BY <1>1, <1>2, <2>1, DepthKept
  <1>4. CASE PublishBlock(t) \/ PublishEvent(t)
    <2>1. pc[t] \in {"announce", "publish"}
      BY <1>4 DEF PublishBlock, PublishEvent
    <2>2. \/ pc'[t] = "idle"
          \/ pc'[t] \in {"publish", "pruneRead"} /\ block'[t] = block[t]
      BY <1>1, <1>4, AfterPublishEffect, GotoEffect DEF PublishBlock, PublishEvent
    <2> QED BY <1>1, <1>2, <2>1, <2>2, DepthKept DEF Before
  <1> QED BY <1>3, <1>4

-----------------------------------------------------------------------------
(* Rows and branch go together: no rollback comes to a pruned height.      *)

LEMMA RowsStep ==
    ASSUME DesignInv, NEW t \in Threads, Work(t)
    PROVE  RowsExact'
  <1>1. StoreInv /\ RowsExact /\ DepthInv(t) /\ ThreadType /\ prunedTo \in Nat
    BY DesignTypes DEF DesignInv, DatabaseTypeOK
  <1>2. CASE HandleReorg(t)
    <2> DEFINE h == HeightOf[block[t]]
    <2>1. block[t] \in Blocks /\ h \in Heights /\ h \in Nat /\ h >= prunedTo
          /\ RollbackFromHeight(h)
      BY <1>1, <1>2, BusyBlock, HeightsType, BlockHeights DEF HandleReorg, DepthInv, Before
    <2>2. ASSUME NEW b \in Blocks, NEW i \in Positions(b)
          PROVE  IsFiniteSet(RowsOf(b, i)') /\ Cardinality(RowsOf(b, i)') = indexerState'[b]
      <3>1. HeightOf[b] < h \/ HeightOf[b] >= prunedTo
        BY <1>1, <2>1, BlockHeights
      <3>2. IsFiniteSet(RowsOf(b, i)) /\ Cardinality(RowsOf(b, i)) = indexerState[b]
        BY <1>1 DEF RowsExact
      <3> QED BY <1>1, <2>1, <3>1, <3>2, RollbackKeepsCount
    <2> QED BY <2>2 DEF RowsExact, Positions
  <1>3. CASE Store(t)
    <2>1. block[t] \in Blocks /\ ApplyBlock(block[t])
      BY <1>1, <1>3, BusyBlock DEF Store
    <2>2. ASSUME NEW b \in Blocks, NEW i \in Positions(b)
          PROVE  IsFiniteSet(RowsOf(b, i)') /\ Cardinality(RowsOf(b, i)') = indexerState'[b]
      <3>1. IsFiniteSet(RowsOf(b, i)) /\ Cardinality(RowsOf(b, i)) = indexerState[b]
        BY <1>1 DEF RowsExact
      <3> QED BY <1>1, <2>1, <3>1, ApplyKeepsCount
    <2> QED BY <2>2 DEF RowsExact, Positions
  <1>4. CASE ~ (HandleReorg(t) \/ Store(t))
    <2>1. UNCHANGED <<eventRows, indexerState>>
      BY <1>4 DEF Work, Take, Detect, SetMetrics, PublishBlock, PublishEvent,
                  PruneRead, PruneDelete, DeleteJournalBelow, dbVars
    <2> QED BY <1>1, <2>1 DEF RowsExact, RowsOf, Positions
  <1> QED BY <1>2, <1>3, <1>4

-----------------------------------------------------------------------------
(* The invariant is inductive.                                             *)

LEMMA DesignInit == Init => DesignInv
  <1> SUFFICES ASSUME Init PROVE DesignInv
    OBVIOUS
  <1>1. SerialInv
    BY InitType DEF Init, DatabaseInit, SerialInv, OnePerHeight, AboveStored, Stored
  <1>2. StoreInv /\ phase = "up"
    BY StoreInitInv DEF Init
  <1>3. RowsExact
    <2>1. \A b \in Blocks : \A i \in Positions(b) : RowsOf(b, i) = {}
      BY DEF Init, DatabaseInit, RowsOf
    <2> QED BY <2>1, FS_EmptySet DEF Init, DatabaseInit, RowsExact
  <1>4. ASSUME NEW t \in Threads
        PROVE  StageInv(t) /\ QueueInv(t) /\ DepthInv(t)
    <2>1. /\ pc[t] = "idle" /\ queue = <<>> /\ head = NoBlock
          /\ prunedTo = 0 /\ Len(queue) = 0
      BY <1>4 DEF Init, DatabaseInit
    <2>2. Stored = {} /\ Tip = NoBlock /\ BranchOf(NoBlock) = {}
      BY BranchEmpty DEF Init, DatabaseInit, Stored, Tip, TipBlocks
    <2>3. StageInv(t)
      BY <2>1, <2>2 DEF StageInv, Before, After
    <2>4. QueueInv(t) /\ DepthInv(t)
      BY <2>1, <2>2 DEF QueueInv, DepthInv, Current, Before
    <2> QED BY <2>3, <2>4
  <1> QED BY <1>1, <1>2, <1>3, <1>4 DEF DesignInv

LEMMA DesignNext ==
    ASSUME SerialSetting
    PROVE  DesignInv /\ [Next]_vars => DesignInv'
  <1> SUFFICES ASSUME DesignInv, [Next]_vars PROVE DesignInv'
    OBVIOUS
  <1> USE DEF LineInv
  <1>1. SerialInv'
    BY SerialNext DEF DesignInv, SerialSetting
  <1>2. StoreInv'
    BY StepUsesDatabase, StoreNextInv DEF DesignInv, SerialInv
  <1>3. ASSUME NEW b \in Blocks, NewBlock(b)
        PROVE  DesignInv'
    <2>1. UNCHANGED <<phase, eventRows, indexerState>>
      BY <1>3 DEF NewBlock, dbVars
    <2>2. phase' = "up" /\ RowsExact'
      BY <2>1 DEF DesignInv, RowsExact, RowsOf, Positions
    <2>3. \A t \in Threads : LineInv(t)' /\ DepthInv(t)'
      BY <1>3, AnnounceLine, AnnounceDepth
    <2> QED BY <1>1, <1>2, <2>2, <2>3 DEF DesignInv
  <1>4. ASSUME NEW t \in Threads, Work(t)
        PROVE  DesignInv'
    <2>1. phase' = "up"
      BY <1>4 DEF Work, Take, Detect, HandleReorg, Store, SetMetrics, PublishBlock,
                  PublishEvent, PruneRead, PruneDelete, DesignInv
    <2>2. RowsExact'
      BY <1>4, RowsStep
    <2>3. LineInv(t)'
      BY <1>4, TakeLine, DetectLine, RollbackLine, StoreLine, AfterLine
         DEF Work
    <2>4. DepthInv(t)'
      BY <1>4, TakeDepth, GoOnDepth, PruneReadDepth, PruneDeleteDepth DEF Work
    <2>5. \A s \in Threads : s = t
      BY DEF SerialSetting
    <2>6. \A s \in Threads : LineInv(s)' /\ DepthInv(s)'
      BY <2>3, <2>4, <2>5
    <2> QED BY <1>1, <1>2, <2>1, <2>2, <2>6 DEF DesignInv
  <1>5. CASE UNCHANGED vars
    <2>1. UNCHANGED <<dbVars, nodeVars, phase, queue, threadVars, outVars>>
      BY <1>5 DEF vars
    <2>2. phase' = "up" /\ RowsExact'
      BY <2>1 DEF DesignInv, RowsExact, RowsOf, Positions, dbVars
    <2>3. Stored' = Stored /\ Tip' = Tip /\ Announced' = Announced
      BY <2>1, StoredKept DEF Announced, dbVars, nodeVars
    <2>4. \A t \in Threads : StageInv(t)'
      BY <2>1, <2>3 DEF DesignInv, StageInv, threadVars
    <2>5. \A t \in Threads : QueueInv(t)' /\ DepthInv(t)'
      BY <2>1, <2>3 DEF DesignInv, QueueInv, Current, DepthInv, dbVars, nodeVars, threadVars
    <2> QED BY <1>1, <1>2, <2>2, <2>4, <2>5 DEF DesignInv
  <1> QED BY <1>3, <1>4, <1>5, SettingSteps

LEMMA DesignAlways ==
    ASSUME SerialSetting
    PROVE  Spec => []DesignInv
  BY DesignInit, DesignNext, PTL DEF Spec

-----------------------------------------------------------------------------
(* What the invariant says of the properties the runs check.               *)

LEMMA DesignQuiet ==
    ASSUME DesignInv, Quiescent
    PROVE  IndexMatchesBranch
  <1>1. PICK t \in Threads : TRUE
    BY ThreadsAssumption
  <1>2. /\ pc[t] = "idle" /\ queue = <<>>
        /\ StageInv(t) /\ QueueInv(t)
        /\ OnePerHeight /\ RowsExact /\ indexerState \in [Blocks -> Nat]
    BY DesignTypes DEF DesignInv, SerialInv, Quiescent, Drained, DatabaseTypeOK
  <1>3. Stored = BranchOf(head)
    BY <1>2 DEF StageInv, QueueInv, Current
  <1>4. ASSUME NEW b \in Blocks
        PROVE  indexerState[b] = IF b \in BranchOf(head) THEN 1 ELSE 0
    BY <1>2, <1>3 DEF OnePerHeight, Stored
  <1>5. indexerState = [b \in Blocks |-> IF b \in BranchOf(head) THEN 1 ELSE 0]
    BY <1>2, <1>4
  <1> QED BY <1>2, <1>5 DEF IndexMatchesBranch, RowsExact

(* Whenever the pipeline rests, the index is the branch the node is on:    *)
(* each of its blocks once, each of their matched events in one row, and   *)
(* nothing else - for every tree of blocks, every order of forks and every *)
(* number of repeated deliveries of the setting.                           *)
THEOREM DesignMatchesBranch ==
    ASSUME SerialSetting
    PROVE  Spec => []IndexMatchesBranch
  <1>1. DesignInv => IndexMatchesBranch
    BY DesignQuiet DEF IndexMatchesBranch
  <1> QED BY <1>1, DesignAlways, PTL

(* The rollback of handle_reorg ends at the fork point, as its comment     *)
(* says, when the node replays the branch it turns to (run fork_point      *)
(* shows that it does not when the node does not).                         *)
THEOREM DesignForkPoint ==
    ASSUME SerialSetting
    PROVE  Spec => []RolledBackToForkPoint
  <1>1. DesignInv => RolledBackToForkPoint
    BY DEF DesignInv, StageInv, RolledBackToForkPoint
  <1> QED BY <1>1, DesignAlways, PTL

-----------------------------------------------------------------------------
(* The refinement.                                                         *)

LEMMA ShownExact ==
    ASSUME DesignInv
    PROVE  Shown = Chain!EventsOf(Stored)
  <1>1. /\ RowsExact /\ OnePerHeight /\ indexerState \in [Blocks -> Nat]
    BY DesignTypes DEF DesignInv, SerialInv, DatabaseTypeOK
  <1> DEFINE E == UNION {{b} \X Positions(b) : b \in Blocks}
  <1>2. ASSUME NEW e \in E
        PROVE  Cardinality(RowsOf(e[1], e[2])) = IF e[1] \in Stored THEN 1 ELSE 0
    <2>1. e[1] \in Blocks /\ e[2] \in Positions(e[1])
      BY <1>2
    <2>2. Cardinality(RowsOf(e[1], e[2])) = indexerState[e[1]]
      BY <1>1, <2>1 DEF RowsExact
    <2> QED BY <1>1, <2>1, <2>2 DEF OnePerHeight, Stored
  <1>3. Chain!EventsOf(Stored) = [e \in E |-> IF e[1] \in Stored THEN 1 ELSE 0]
    BY DEF Chain!EventsOf, Chain!Events, Positions
  <1>4. Shown = [e \in E |-> Cardinality(RowsOf(e[1], e[2]))]
    BY DEF Shown
  <1> QED BY <1>2, <1>3, <1>4

LEMMA ShownExactNext == (DesignInv => Shown = Chain!EventsOf(Stored))'
  <1>1. DesignInv => Shown = Chain!EventsOf(Stored)
    BY ShownExact
  <1> QED BY <1>1, PTL

LEMMA ShownKept ==
    ASSUME DesignInv, DesignInv'
    PROVE  Shown = Chain!EventsOf(Stored) /\ Shown' = Chain!EventsOf(Stored')
  BY ShownExact, ShownExactNext DEF Chain!EventsOf, Chain!Events

(* Storing a block puts it on the tip of its branch.                       *)
LEMMA StoreExtends ==
    ASSUME DesignInv, DesignInv', NEW t \in Threads, Store(t)
    PROVE  Chain!Extend(block[t])
  <1> DEFINE b == block[t]
             p == ParentOf[b]
  <1>1. b \in Blocks /\ Stored' = Stored \cup {b} /\ Stored = Lineage[b] \ {b}
    BY EarlySteps, StoreLine
  <1>2. Shown' = Chain!EventsOf(Stored')
    BY ShownKept
  <1>3. ASSUME Stored # {}
        PROVE  Chain!IsTip(p)
    <2>1. p \in Blocks /\ Stored \subseteq Lineage[p]
      BY <1>1, <1>3, LineageStep, ParentType DEF BranchOf
    <2>2. p \in Lineage[p] /\ p # b
      <3>1. HeightOf[b] = HeightOf[p] + 1 /\ HeightOf[p] \in Nat
        BY <1>1, <2>1, ParentHeight, BlockHeights
      <3> QED BY <2>1, <3>1, LineageClosed
    <2>3. p \in Stored
      BY <1>1, <2>1, <2>2, LineageStep, NoBlockAssumption DEF BranchOf
    <2>4. \A c \in Stored : HeightOf[c] <= HeightOf[p]
      BY <2>1, LineageBelow
    <2> QED BY <2>3, <2>4 DEF Chain!IsTip
  <1> QED BY <1>1, <1>2, <1>3 DEF Chain!Extend

LEMMA RollbackRewinds ==
    ASSUME DesignInv, DesignInv', NEW t \in Threads, HandleReorg(t)
    PROVE  block[t] \in Blocks /\ Chain!Rewind(HeightOf[block[t]])
  <1>1. block[t] \in Blocks
    BY DesignTypes, BusyBlock DEF HandleReorg
  <1>2. Stored' = {c \in Stored : HeightOf[c] < HeightOf[block[t]]}
    BY <1>1, BlockHeights DEF HandleReorg, RollbackFromHeight, Stored
  <1>3. Shown' = Chain!EventsOf(Stored')
    BY ShownKept
  <1> QED BY <1>1, <1>2, <1>3 DEF Chain!Rewind

(* All other steps leave what readers see as it is.                        *)
LEMMA OthersStutter ==
    ASSUME DesignInv, DesignInv', indexerState' = indexerState
    PROVE  UNCHANGED <<Stored, Shown>>
  <1>1. Stored' = Stored
    BY StoredKept
  <1> QED BY <1>1, ShownKept

(* The indexer implements ChainStore: at every moment, in the midst of a   *)
(* reorg too, readers see a chain of linked blocks with exactly its        *)
(* events, which grows at its tip and shrinks from it.                     *)
THEOREM DesignImplementsChainStore ==
    ASSUME SerialSetting
    PROVE  Spec => ImplementsChainStore
  <1>1. Init => Chain!Init
    <2> SUFFICES ASSUME Init PROVE Chain!Init
      OBVIOUS
    <2>1. Stored = {}
      BY DEF Init, DatabaseInit, Stored
    <2> QED BY <2>1, DesignInit, ShownExact DEF Chain!Init
  <1>2. ASSUME DesignInv, DesignInv', [Next]_vars
        PROVE  [Chain!Next]_<<Stored, Shown>>
    <2>1. ASSUME NEW t \in Threads, Work(t)
          PROVE  [Chain!Next]_<<Stored, Shown>>
      <3>1. CASE Store(t)
        BY <1>2, <3>1, StoreExtends, EarlySteps DEF Chain!Next
      <3>2. CASE HandleReorg(t)
        BY <1>2, <3>2, RollbackRewinds DEF Chain!Next
      <3>3. CASE ~ (Store(t) \/ HandleReorg(t))
        <4>1. indexerState' = indexerState
          BY <2>1, <3>3 DEF Work, Take, Detect, SetMetrics, PublishBlock, PublishEvent,
                            PruneRead, PruneDelete, DeleteJournalBelow, dbVars
        <4> QED BY <1>2, <4>1, OthersStutter
      <3> QED BY <3>1, <3>2, <3>3
    <2>2. ASSUME NEW b \in Blocks, NewBlock(b)
          PROVE  UNCHANGED <<Stored, Shown>>
      BY <1>2, <2>2, OthersStutter DEF NewBlock, dbVars
    <2>3. UNCHANGED vars => UNCHANGED <<Stored, Shown>>
      BY <1>2, OthersStutter DEF vars, dbVars
    <2> QED BY <1>2, <2>1, <2>2, <2>3, SettingSteps
  <1>3. Spec => []DesignInv /\ [][Next]_vars
    BY DesignAlways, PTL DEF Spec
  <1>4. Spec => Chain!Init
    BY <1>1 DEF Spec
  <1>5. [][Next]_vars /\ []DesignInv => [][Chain!Next]_<<Stored, Shown>>
    BY <1>2, PTL
  <1> QED BY <1>3, <1>4, <1>5, PTL DEF ImplementsChainStore, Chain!Spec

-----------------------------------------------------------------------------
(* What readers may conclude from ChainStore: proved of any store that     *)
(* implements it, and so of the indexer.                                   *)

LEMMA ChainLineage == Chain!Lineage = Lineage
  BY DEF Chain!Lineage, Lineage, Chain!ParentClosed, ParentClosed

(* A block on the tip of a linked chain makes a linked chain.              *)
LEMMA ExtendLinks ==
    ASSUME Chain!Linked, NEW b \in Blocks, Chain!Extend(b)
    PROVE  Chain!Linked'
  <1> DEFINE p == ParentOf[b]
  <1>1. /\ Stored' = Stored \cup {b} /\ Stored \subseteq Blocks
        /\ \A x, y \in Stored : HeightOf[x] <= HeightOf[y] => x \in Lineage[y]
    BY ChainLineage DEF Chain!Extend, Chain!Linked, Stored
  <1>2. ASSUME NEW x \in Stored'
        PROVE  /\ x \in Lineage[b]
               /\ HeightOf[b] <= HeightOf[x] => b \in Lineage[x]
    <2>1. CASE x = b
      BY <2>1, LineageClosed
    <2>2. CASE x # b
      <3>1. x \in Stored /\ p \in Stored /\ HeightOf[x] <= HeightOf[p]
        BY <1>1, <2>2 DEF Chain!Extend, Chain!IsTip
      <3>2. p \in Blocks /\ p # NoBlock /\ x \in Lineage[p]
        BY <1>1, <3>1, NoBlockAssumption
      <3>3. x \in Lineage[b]
        BY <3>2, LineageStep DEF BranchOf
      <3>4. ~ (HeightOf[b] <= HeightOf[x])
        BY <1>1, <3>1, <3>2, ParentHeight, BlockHeights
      <3> QED BY <3>3, <3>4
    <2> QED BY <2>1, <2>2
  <1>3. ASSUME NEW x \in Stored', NEW y \in Stored', HeightOf[x] <= HeightOf[y]
        PROVE  x \in Lineage[y]
    <2>1. CASE x \in Stored /\ y \in Stored
      BY <1>1, <1>3, <2>1
    <2>2. CASE x = b \/ y = b
      BY <1>2, <1>3, <2>2
    <2> QED BY <1>1, <2>1, <2>2
  <1> QED BY <1>3, ChainLineage DEF Chain!Linked

(* Readers of the store see a linked chain at every moment.                *)
THEOREM ChainLinked == Chain!Spec => []Chain!Linked
  <1>1. Chain!Init => Chain!Linked
    BY DEF Chain!Init, Chain!Linked
  <1>2. Chain!Linked /\ [Chain!Next]_<<Stored, Shown>> => Chain!Linked'
    <2> SUFFICES ASSUME Chain!Linked, [Chain!Next]_<<Stored, Shown>> PROVE Chain!Linked'
      OBVIOUS
    <2>1. ASSUME NEW b \in Blocks, Chain!Extend(b) PROVE Chain!Linked'
      BY <2>1, ExtendLinks
    <2>2. ASSUME NEW b \in Blocks, Chain!Rewind(HeightOf[b]) PROVE Chain!Linked'
      BY <2>2 DEF Chain!Linked, Chain!Rewind, Chain!Lineage
    <2>3. CASE UNCHANGED <<Stored, Shown>>
      BY <2>3 DEF Chain!Linked, Chain!Lineage
    <2> QED BY <2>1, <2>2, <2>3 DEF Chain!Next
  <1> QED BY <1>1, <1>2, PTL DEF Chain!Spec

(* Readers of the store see exactly the events of the chain they see.      *)
THEOREM ChainExact == Chain!Spec => []Chain!Exact
  <1>1. Chain!Init => Chain!Exact
    BY DEF Chain!Init, Chain!Exact
  <1>2. Chain!Exact /\ [Chain!Next]_<<Stored, Shown>> => Chain!Exact'
    BY DEF Chain!Exact, Chain!Next, Chain!Extend, Chain!Rewind, Chain!EventsOf, Chain!Events
  <1> QED BY <1>1, <1>2, PTL DEF Chain!Spec

(* So do readers of the indexer, between any two steps of process_block.   *)
THEOREM DesignReaders ==
    ASSUME SerialSetting
    PROVE  Spec => [](Chain!Linked /\ Chain!Exact)
  <1>1. Spec => Chain!Spec
    BY DesignImplementsChainStore DEF ImplementsChainStore
  <1> QED BY <1>1, ChainLinked, ChainExact, PTL
=============================================================================
