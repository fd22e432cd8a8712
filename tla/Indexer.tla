------------------------------ MODULE Indexer ------------------------------
(***************************************************************************)
(* The indexing pipeline (server/src/http.rs, storage/src/reorg.rs) around *)
(* the store of Database.tla.  POST /new_block is answered 200 at once and *)
(* queues process_block on tokio's blocking pool; the pool's threads take  *)
(* the blocks in order and work side by side.  process_block takes the     *)
(* database's mutex several times and releases it in between: each of      *)
(* those critical sections is a step of a thread, and so is each message   *)
(* it broadcasts.                                                          *)
(*                                                                         *)
(* The node announces blocks parents first.  It retries a request it got   *)
(* no answer to, so a block may arrive again, at once or after newer ones; *)
(* a block announced while the server is down is lost.                     *)
(***************************************************************************)
EXTENDS Database

CONSTANTS Threads,       \* the threads of tokio's blocking pool
          KeepBlocks,    \* prune_journal(100): how far below the tip the journal is kept
          PruneEvery,    \* "block_height % 100 == 0"
          ReplayForks,   \* the node announces every block of a branch it turns to
          LateRetries,   \* a retry may arrive after blocks announced later
          ForkDepth,     \* the node abandons only blocks less than this below the highest
          MaxDeliveries, \* bound: how often a block is announced
          MaxRepeated,   \* bound: blocks that are announced more than once
          MaxFaults,     \* bound: failing database operations
          MaxStops       \* bound: times the server goes down

ASSUME ThreadsAssumption == Threads # {}

ASSUME PruneAssumption == KeepBlocks \in Nat /\ PruneEvery \in Nat \ {0}

ASSUME ForkAssumption ==
    ReplayForks \in BOOLEAN /\ LateRetries \in BOOLEAN /\ ForkDepth \in Nat

ASSUME BoundsAssumption ==
    /\ MaxDeliveries \in Nat /\ MaxRepeated \in Nat
    /\ MaxFaults \in Nat /\ MaxStops \in Nat

VARIABLES
    \* the node
    head,        \* the tip of the node's own branch
    deliveries,  \* how often each block was announced
    \* the server
    phase,       \* "up", "stopping" or "down"
    queue,       \* blocks whose process_block waits for a thread
    pc,          \* the step each thread is at
    block,       \* the block each thread works on
    cutoff,      \* the cutoff a thread computed in prune_journal
    sent,        \* how many of its block's events a thread has broadcast
    lastBlockHeight, \* the gauge stacks_indexer_last_block_height
    feed,        \* history: how often each message was broadcast
    commits,     \* history: how often apply_block stored each block
    \* bounds
    faults, stops

nodeVars   == <<head, deliveries>>
threadVars == <<pc, block, cutoff, sent>>
outVars    == <<lastBlockHeight, feed, commits>>
boundVars  == <<faults, stops>>
vars == <<dbVars, nodeVars, phase, queue, threadVars, outVars, boundVars>>

Steps == {"idle", "detect", "rollback", "store", "metrics",
          "announce", "publish", "pruneRead", "pruneDelete"}

(* Broadcast messages: <<b, 0>> is the "new_block" message of a block,     *)
(* <<b, i>> the one of its i-th matched event.                             *)
Messages == UNION {{b} \X (0 .. Len(Matched[b])) : b \in Blocks}

Announced == {b \in Blocks : deliveries[b] > 0}

Init ==
    /\ DatabaseInit
    /\ head = NoBlock
    /\ deliveries = [b \in Blocks |-> 0]
    /\ phase = "up"
    /\ queue = <<>>
    /\ pc = [t \in Threads |-> "idle"]
    /\ block = [t \in Threads |-> NoBlock]
    /\ cutoff = [t \in Threads |-> 0]
    /\ sent = [t \in Threads |-> 0]
    /\ lastBlockHeight = 0
    /\ feed = [m \in Messages |-> 0]
    /\ commits = [b \in Blocks |-> 0]
    /\ faults = 0
    /\ stops = 0

-----------------------------------------------------------------------------
(* The node.                                                               *)

(* A node that replays forks announces, after a block, only blocks that    *)
(* extend its branch: turning to another branch it starts again at the     *)
(* fork.  One that does not announces any block whose parent it has.       *)
KnownParents ==
    {NoBlock} \cup (IF ReplayForks THEN BranchOf(head) ELSE Announced)

(* Either leaves alone the blocks too deep below the highest one.          *)
Deliver(b) ==
    /\ deliveries[b] < MaxDeliveries
    /\ b \in Announced =>
          Cardinality({a \in Blocks \ {b} : deliveries[a] > 1}) < MaxRepeated
    /\ \A a \in Announced : HeightOf[a] < HeightOf[b] + ForkDepth
    /\ deliveries' = [deliveries EXCEPT ![b] = @ + 1]

(* The node's branch comes to end in b, and the node announces it.         *)
Adopt(b) ==
    /\ b \notin BranchOf(head)
    /\ ParentOf[b] \in KnownParents
    /\ Deliver(b)
    /\ head' = b

(* The node sends a block once more that it announced already; its branch  *)
(* stays what it is.                                                       *)
Retry(b) ==
    /\ b = head \/ (LateRetries /\ b \in Announced)
    /\ Deliver(b)
    /\ UNCHANGED head

Announce(b) == Adopt(b) \/ Retry(b)

(* handle_new_block: answer 200, spawn_blocking(process_block).            *)
NewBlock(b) ==
    /\ phase = "up"
    /\ Announce(b)
    /\ queue' = Append(queue, b)
    /\ UNCHANGED <<dbVars, phase, threadVars, outVars, boundVars>>

(* Nobody listens: the announcement is lost.                               *)
MissedBlock(b) ==
    /\ phase = "down"
    /\ Announce(b)
    /\ UNCHANGED <<dbVars, phase, queue, threadVars, outVars, boundVars>>

-----------------------------------------------------------------------------
(* process_block, one critical section at a time.                          *)

Goto(t, step) == pc' = [pc EXCEPT ![t] = step]

(* The block is not let go on return.                                      *)
MutantReturnKeepsBlock(t) ==
    /\ Goto(t, "idle")
    /\ cutoff' = [cutoff EXCEPT ![t] = 0]
    /\ sent' = [sent EXCEPT ![t] = 0]
    /\ UNCHANGED block

(* process_block returns and the thread is free again.                     *)
Return(t) ==
    /\ Goto(t, "idle")
    /\ block' = [block EXCEPT ![t] = NoBlock]
    /\ cutoff' = [cutoff EXCEPT ![t] = 0]
    /\ sent' = [sent EXCEPT ![t] = 0]

(* A thread of the pool takes the oldest queued block.                     *)
Take(t) ==
    /\ pc[t] = "idle"
    /\ queue # <<>>
    /\ phase \in {"up", "stopping"}
    /\ queue' = Tail(queue)
    /\ Goto(t, "detect")
    /\ block' = [block EXCEPT ![t] = Head(queue)]
    /\ UNCHANGED <<dbVars, nodeVars, phase, cutoff, sent, outVars, boundVars>>

(* Forks go unnoticed.                                                     *)
MutantIsReorgNever(b, tip) == FALSE

(* detect_reorg: is the block's parent the tip?  Any block fits when none  *)
(* is stored.                                                              *)
IsReorg(b, tip) == ParentOf[b] # tip

(* process_block gives up a block that does not extend the tip.            *)
MutantDetectReturns(t) ==
    /\ pc[t] = "detect"
    /\ \/ /\ Stored = {}
          /\ Goto(t, "store")
          /\ UNCHANGED <<block, cutoff, sent>>
       \/ \E tip \in TipBlocks :
             IF IsReorg(block[t], tip)
             THEN Return(t)
             ELSE Goto(t, "store") /\ UNCHANGED <<block, cutoff, sent>>
    /\ UNCHANGED <<dbVars, nodeVars, phase, queue, outVars, boundVars>>

(* process_block waits until the parent of its block is stored.            *)
MutantDetectWaits(t) ==
    /\ pc[t] = "detect"
    /\ ParentOf[block[t]] \in Stored \cup {NoBlock}
    /\ \/ /\ Stored = {}
          /\ Goto(t, "store")
       \/ \E tip \in TipBlocks :
             Goto(t, IF IsReorg(block[t], tip) THEN "rollback" ELSE "store")
    /\ UNCHANGED <<dbVars, nodeVars, phase, queue, block, cutoff, sent, outVars, boundVars>>

Detect(t) ==
    /\ pc[t] = "detect"
    /\ \/ /\ Stored = {}
          /\ Goto(t, "store")
       \/ \E tip \in TipBlocks :
             Goto(t, IF IsReorg(block[t], tip) THEN "rollback" ELSE "store")
    /\ UNCHANGED <<dbVars, nodeVars, phase, queue, block, cutoff, sent, outVars, boundVars>>

(* Roll back the blocks above the new one's height only.                   *)
MutantHandleReorgAbove(t) ==
    /\ pc[t] = "rollback"
    /\ RollbackFromHeight(HeightOf[block[t]] + 1)
    /\ Goto(t, "store")
    /\ UNCHANGED <<nodeVars, phase, queue, block, cutoff, sent, outVars, boundVars>>

(* Return after the rollback, without the block that caused it.            *)
MutantHandleReorgReturns(t) ==
    /\ pc[t] = "rollback"
    /\ RollbackFromHeight(HeightOf[block[t]])
    /\ Return(t)
    /\ UNCHANGED <<nodeVars, phase, queue, outVars, boundVars>>

(* handle_reorg: roll back from the height of the new block.               *)
HandleReorg(t) ==
    /\ pc[t] = "rollback"
    /\ RollbackFromHeight(HeightOf[block[t]])
    /\ Goto(t, "store")
    /\ UNCHANGED <<nodeVars, phase, queue, block, cutoff, sent, outVars, boundVars>>

(* match_events does not touch shared state; apply_block does.             *)
Store(t) ==
    /\ pc[t] = "store"
    /\ ApplyBlock(block[t])
    /\ commits' = [commits EXCEPT ![block[t]] = @ + 1]
    /\ Goto(t, "metrics")
    /\ UNCHANGED <<nodeVars, phase, queue, block, cutoff, sent, lastBlockHeight,
                   feed, boundVars>>

(* The gauge never goes back.                                              *)
MutantSetMetricsMax(t) ==
    /\ pc[t] = "metrics"
    /\ lastBlockHeight' =
          IF HeightOf[block[t]] > lastBlockHeight THEN HeightOf[block[t]]
          ELSE lastBlockHeight
    /\ Goto(t, "announce")
    /\ UNCHANGED <<dbVars, nodeVars, phase, queue, block, cutoff, sent,
                   feed, commits, boundVars>>

SetMetrics(t) ==
    /\ pc[t] = "metrics"
    /\ lastBlockHeight' = HeightOf[block[t]]
    /\ Goto(t, "announce")
    /\ UNCHANGED <<dbVars, nodeVars, phase, queue, block, cutoff, sent,
                   feed, commits, boundVars>>

(* After the last message: prune at every PruneEvery-th height, or return. *)
AfterPublish(t) ==
    IF HeightOf[block[t]] % PruneEvery = 0
    THEN Goto(t, "pruneRead") /\ UNCHANGED <<block, cutoff, sent>>
    ELSE Return(t)

(* event_tx.send of the i-th message of block b.                           *)
Send(b, i) == feed' = [feed EXCEPT ![<<b, i>>] = @ + 1] /\ UNCHANGED commits

(* The "new_block" message.                                                *)
PublishBlock(t) ==
    /\ pc[t] = "announce"
    /\ Send(block[t], 0)
    /\ IF Matched[block[t]] = <<>>
       THEN AfterPublish(t)
       ELSE Goto(t, "publish") /\ UNCHANGED <<block, cutoff, sent>>
    /\ UNCHANGED <<dbVars, nodeVars, phase, queue, lastBlockHeight, boundVars>>

(* The events counted from zero.                                           *)
MutantPublishEventFromZero(t) ==
    /\ pc[t] = "publish"
    /\ Send(block[t], sent[t])
    /\ IF sent[t] + 1 = Len(Matched[block[t]])
       THEN AfterPublish(t)
       ELSE /\ sent' = [sent EXCEPT ![t] = @ + 1]
            /\ UNCHANGED <<pc, block, cutoff>>
    /\ UNCHANGED <<dbVars, nodeVars, phase, queue, lastBlockHeight, boundVars>>

(* The message of the next matched event.                                  *)
PublishEvent(t) ==
    /\ pc[t] = "publish"
    /\ Send(block[t], sent[t] + 1)
    /\ IF sent[t] + 1 = Len(Matched[block[t]])
       THEN AfterPublish(t)
       ELSE /\ sent' = [sent EXCEPT ![t] = @ + 1]
            /\ UNCHANGED <<pc, block, cutoff>>
    /\ UNCHANGED <<dbVars, nodeVars, phase, queue, lastBlockHeight, boundVars>>

(* One block too many is pruned.                                           *)
MutantPruneReadOneMore(t) ==
    /\ pc[t] = "pruneRead"
    /\ IF LastHeight <= KeepBlocks
       THEN Return(t)
       ELSE /\ cutoff' = [cutoff EXCEPT ![t] = LastHeight - KeepBlocks + 1]
            /\ Goto(t, "pruneDelete")
            /\ UNCHANGED <<block, sent>>
    /\ UNCHANGED <<dbVars, nodeVars, phase, queue, outVars, boundVars>>

(* prune_journal reads the tip under one lock ...                          *)
PruneRead(t) ==
    /\ pc[t] = "pruneRead"
    /\ IF LastHeight <= KeepBlocks
       THEN Return(t)
       ELSE /\ cutoff' = [cutoff EXCEPT ![t] = LastHeight - KeepBlocks]
            /\ Goto(t, "pruneDelete")
            /\ UNCHANGED <<block, sent>>
    /\ UNCHANGED <<dbVars, nodeVars, phase, queue, outVars, boundVars>>

(* ... and deletes under another.                                          *)
PruneDelete(t) ==
    /\ pc[t] = "pruneDelete"
    /\ DeleteJournalBelow(cutoff[t])
    /\ Return(t)
    /\ UNCHANGED <<nodeVars, phase, queue, outVars, boundVars>>

(* A database operation fails: its transaction changes nothing, and        *)
(* process_block logs the error and returns (it ignores one of the prune,  *)
(* with which it ends anyway).                                             *)
DatabaseError(t) ==
    /\ pc[t] \in {"detect", "rollback", "store", "pruneRead", "pruneDelete"}
    /\ faults < MaxFaults
    /\ faults' = faults + 1
    /\ Return(t)
    /\ UNCHANGED <<dbVars, nodeVars, phase, queue, outVars, stops>>

-----------------------------------------------------------------------------
(* Going down and coming up again.                                         *)

(* run() returns on ctrl-c: the listeners close and the runtime begins to  *)
(* shut the blocking pool down.                                            *)
CtrlC ==
    /\ phase = "up"
    /\ stops < MaxStops
    /\ stops' = stops + 1
    /\ phase' = "stopping"
    /\ UNCHANGED <<dbVars, nodeVars, queue, threadVars, outVars, faults>>

(* While it shuts down the pool may cancel a block that no thread has      *)
(* taken yet ...                                                           *)
CancelQueued ==
    /\ phase = "stopping"
    /\ queue # <<>>
    /\ queue' = Tail(queue)
    /\ UNCHANGED <<dbVars, nodeVars, phase, threadVars, outVars, boundVars>>

(* ... and it waits for the blocks being processed.                        *)
Exit ==
    /\ phase = "stopping"
    /\ queue = <<>>
    /\ \A t \in Threads : pc[t] = "idle"
    /\ phase' = "down"
    /\ UNCHANGED <<dbVars, nodeVars, queue, threadVars, outVars, boundVars>>

(* The process is killed: only the database file is left.                  *)
Kill ==
    /\ phase \in {"up", "stopping"}
    /\ stops < MaxStops
    /\ stops' = stops + 1
    /\ phase' = "down"
    /\ queue' = <<>>
    /\ pc' = [t \in Threads |-> "idle"]
    /\ block' = [t \in Threads |-> NoBlock]
    /\ cutoff' = [t \in Threads |-> 0]
    /\ sent' = [t \in Threads |-> 0]
    /\ UNCHANGED <<dbVars, nodeVars, outVars, faults>>

(* run(): new metrics, and no backfill.                                    *)
Start ==
    /\ phase = "down"
    /\ phase' = "up"
    /\ lastBlockHeight' = 0
    /\ UNCHANGED <<dbVars, nodeVars, queue, threadVars, feed, commits, boundVars>>

-----------------------------------------------------------------------------
Work(t) ==
    \/ Take(t)
    \/ Detect(t)
    \/ HandleReorg(t)
    \/ Store(t)
    \/ SetMetrics(t)
    \/ PublishBlock(t)
    \/ PublishEvent(t)
    \/ PruneRead(t)
    \/ PruneDelete(t)

Next ==
    \/ \E b \in Blocks : NewBlock(b) \/ MissedBlock(b)
    \/ \E t \in Threads : Work(t) \/ DatabaseError(t)
    \/ CtrlC \/ CancelQueued \/ Exit \/ Kill \/ Start

Spec == Init /\ [][Next]_vars

(* The pool's threads are OS threads: each goes on taking steps while it   *)
(* can.  Nothing makes the node announce or the server stop.               *)
FairSpec == Spec /\ \A t \in Threads : WF_vars(Work(t))

-----------------------------------------------------------------------------
(* Properties.                                                             *)

TypeOK ==
    /\ DatabaseTypeOK
    /\ head \in Blocks \cup {NoBlock}
    /\ deliveries \in [Blocks -> Nat]
    /\ phase \in {"up", "stopping", "down"}
    /\ queue \in Seq(Blocks)
    /\ pc \in [Threads -> Steps]
    /\ block \in [Threads -> Blocks \cup {NoBlock}]
    /\ \A t \in Threads : block[t] = NoBlock <=> pc[t] = "idle"
    /\ cutoff \in [Threads -> Cutoffs \cup {0}]
    /\ \A t \in Threads : pc[t] = "pruneDelete" => cutoff[t] \in Cutoffs
    /\ sent \in [Threads -> Nat]
    /\ lastBlockHeight \in Heights \cup {0}
    /\ feed \in [Messages -> Nat]
    /\ commits \in [Blocks -> Nat]
    /\ faults \in Nat
    /\ stops \in Nat

Drained == queue = <<>> /\ \A t \in Threads : pc[t] = "idle"

Quiescent == phase = "up" /\ Drained

(* Whenever every block it accepted is processed, the index is the node's  *)
(* own branch: each of its blocks in _indexer_state once, each of their    *)
(* matched events in one row, and nothing else, however the branches       *)
(* changed and however often the newest block was delivered again.  (A     *)
(* retry that comes after a newer block is taken for a reorg; the setting  *)
(* of this property has none.)                                             *)
IndexMatchesBranch ==
    Quiescent =>
        /\ indexerState = [b \in Blocks |-> IF b \in BranchOf(head) THEN 1 ELSE 0]
        /\ \A b \in Blocks : \A i \in Positions(b) :
              Cardinality(RowsOf(b, i)) = indexerState[b]

(* With one thread, no height is stored twice, neither by two blocks nor   *)
(* by one block twice, through forks and repeated deliveries.  (The run    *)
(* has no failing operation and no stop; the theorem has.)                 *)
OnePerHeight ==
    \A b \in Stored :
        /\ indexerState[b] = 1
        /\ \A c \in Stored : HeightOf[b] = HeightOf[c] => b = c

(* The rows of _indexer_state for the blocks of a height, numbered for     *)
(* each block.                                                             *)
StateRows(h) ==
    UNION {{b} \X (1 .. indexerState[b]) : b \in {c \in Blocks : HeightOf[c] = h}}

(* Threads that have checked the tip for a block of height h, or rolled    *)
(* back for it, and not stored it yet.                                     *)
Committed(h) == {t \in Threads : pc[t] = "store" /\ HeightOf[block[t]] = h}

(* Detecting a reorg and storing are not one transaction, so threads that  *)
(* check the same tip store a height more than once; but no height is ever *)
(* stored more often than the pool has threads, however many deliveries    *)
(* there are.                                                              *)
CopiesBounded ==
    \A h \in Heights :
        Cardinality(StateRows(h)) + Cardinality(Committed(h)) <= Cardinality(Threads)

(* handle_reorg (reorg.rs) rolls back "to the fork point": what is left    *)
(* when the new block is about to be stored is below it on its own branch. *)
RolledBackToForkPoint ==
    \A t \in Threads :
        pc[t] = "store" => Stored \subseteq Lineage[block[t]] \ {block[t]}

(* Every block that was accepted while the server stayed up and no         *)
(* operation failed is stored once all are processed (a chain without      *)
(* forks).                                                                 *)
AcceptedBlocksAreStored ==
    Quiescent /\ faults = 0 /\ stops = 0 => Announced \subseteq Stored

(* The gauge agrees with the store when the pipeline rests, through forks  *)
(* that lower the tip too; only a restart leaves it at 0 until the next    *)
(* block.                                                                  *)
GaugeShowsTip ==
    Quiescent => \/ lastBlockHeight = LastHeight
                 \/ lastBlockHeight = 0 /\ stops > 0

(* prune_journal deletes "entries older than keep_blocks behind the tip",  *)
(* for a tip that another thread may have rolled back by then.  Whatever   *)
(* falls between its two locks, a rollback still leaves no row behind but  *)
(* of a block more than KeepBlocks below the highest one ever announced.   *)
OrphansLieDeep ==
    \A r \in eventRows : r.block \notin Stored =>
        \E a \in Announced : HeightOf[r.block] + KeepBlocks < HeightOf[a]

(* What subscribers are sent, by threads that broadcast side by side: a    *)
(* block's messages only once for each time it was stored, none ahead of   *)
(* the one before it, and when all is processed, unless the process was    *)
(* stopped, every one of them as often as the block was stored - blocks    *)
(* stored twice by a race or a retry twice, blocks whose transaction       *)
(* failed not at all.                                                      *)
FeedMatchesCommits ==
    \A b \in Blocks : \A i \in 0 .. Len(Matched[b]) :
        /\ feed[<<b, i>>] <= commits[b]
        /\ \A j \in 0 .. i : feed[<<b, i>>] <= feed[<<b, j>>]
        /\ Drained /\ stops = 0 => feed[<<b, i>>] = commits[b]

(* The pipeline always empties again: no accepted block is left waiting    *)
(* or half processed for ever, whatever fails or goes down.                *)
Drains == []<>Drained

(* The index settles on the branch the node ends on.                       *)
Converges == <>[](Stored = BranchOf(head))

(* What the indexer shows its readers, for the refinement of ChainStore.   *)
Shown ==
    [e \in UNION {{b} \X Positions(b) : b \in Blocks} |->
        Cardinality(RowsOf(e[1], e[2]))]

Chain == INSTANCE ChainStore WITH chain <- Stored, shown <- Shown

(* Every reader sees a linked chain with exactly its events, at any moment *)
(* of any sequence of forks.                                               *)
ImplementsChainStore == Chain!Spec
=============================================================================
