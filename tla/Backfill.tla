----------------------------- MODULE Backfill -----------------------------
(***************************************************************************)
(* backfill_gaps (storage/src/backfill.rs) on the store of Database.tla,   *)
(* run each time the process starts, before it listens, as the head of the *)
(* file describes.  However it ends, the indexer goes on "in live-listen   *)
(* mode": blocks are announced to it and stored by process_block, here one *)
(* after the other (Indexer has the threads, the broadcast and the prune). *)
(* The node goes on adopting blocks between its answers and while the      *)
(* process does not listen.  The process may stop, the power may fail, and *)
(* the reset command (cli/src/main.rs) may empty the store between runs.   *)
(***************************************************************************)
EXTENDS Database

CONSTANTS MaxFaults,   \* bound: requests and operations that fail
          MaxRuns      \* bound: starts of the process

ASSUME BackfillAssumption == MaxFaults \in Nat /\ MaxRuns \in Nat

VARIABLES head,       \* the node's tip
          at,         \* the step of backfill_gaps or process_block, or "down"
          lastHeight, \* last_height
          chainTip,   \* chain_tip
          height,     \* the loop's height
          block,      \* the block that was fetched or announced
          disk,       \* the store as it would be after a power failure
          live,       \* history: the stored blocks that process_block stored
          faults, runs

localVars == <<lastHeight, chainTip, height, block>>
vars == <<dbVars, head, at, localVars, disk, live, faults, runs>>

(* How backfill_gaps can end: the loop is through, it broke off at a       *)
(* failed fetch (both Ok), or an error was returned.                       *)
Ends == {"filled", "stopped", "failed"}

BackfillSteps == {"read", "tip", "fetch", "apply"}
LiveSteps == {"detect", "rollback", "store"}

TipHeight == IF head = NoBlock THEN 0 ELSE HeightOf[head]

Image(rows, journal, states, ids, fromLive) ==
    [rows |-> rows, journal |-> journal, states |-> states, ids |-> ids, live |-> fromLive]

EmptyImage ==
    Image({}, {}, [b \in Blocks |-> 0], [t \in Tables |-> 0], {})

Init ==
    /\ DatabaseInit
    /\ head = NoBlock
    /\ at = "down"
    /\ lastHeight = 0
    /\ chainTip = 0
    /\ height = 0
    /\ block = NoBlock
    /\ disk = EmptyImage
    /\ live = {}
    /\ faults = 0
    /\ runs = 0

-----------------------------------------------------------------------------
(* The node.                                                               *)

(* It may adopt a block above its branch, or one that forks off it.        *)
Adoptable(b) ==
    /\ b \notin BranchOf(head)
    /\ ParentOf[b] \in BranchOf(head) \cup {NoBlock}

(* A block that nobody is listening for.                                   *)
Adopt(b) ==
    /\ at \notin LiveSteps \cup {"listening"}
    /\ Adoptable(b)
    /\ head' = b
    /\ UNCHANGED <<dbVars, at, localVars, disk, live, faults, runs>>

-----------------------------------------------------------------------------
(* backfill_gaps.  Definitions named Mutant... are wrong versions of the   *)
(* one that follows.                                                       *)

StartProcess ==
    /\ at = "down"
    /\ runs < MaxRuns
    /\ runs' = runs + 1
    /\ at' = "read"
    /\ UNCHANGED <<dbVars, head, localVars, disk, live, faults>>

(* get_last_processed_block                                                *)
ReadLast ==
    /\ at = "read"
    /\ lastHeight' = LastHeight
    /\ at' = "tip"
    /\ UNCHANGED <<dbVars, head, chainTip, height, block, disk, live, faults, runs>>

(* The last block is fetched once more.                                    *)
MutantGetChainTipAgain ==
    /\ at = "tip"
    /\ chainTip' = TipHeight
    /\ IF lastHeight >= TipHeight
       THEN at' = "filled" /\ UNCHANGED height
       ELSE at' = "fetch" /\ height' = IF lastHeight = 0 THEN 1 ELSE lastHeight
    /\ UNCHANGED <<dbVars, head, lastHeight, block, disk, live, faults, runs>>

(* GET /v2/info: the loop's end is fixed here.                             *)
GetChainTip ==
    /\ at = "tip"
    /\ chainTip' = TipHeight
    /\ IF lastHeight >= TipHeight
       THEN at' = "filled" /\ UNCHANGED height
       ELSE at' = "fetch" /\ height' = lastHeight + 1
    /\ UNCHANGED <<dbVars, head, lastHeight, block, disk, live, faults, runs>>

(* GET /v3/blocks/{height}: the block the node has there at this moment.   *)
FetchBlock ==
    /\ at = "fetch"
    /\ \E b \in BranchOf(head) : HeightOf[b] = height /\ block' = b
    /\ at' = "apply"
    /\ UNCHANGED <<dbVars, head, lastHeight, chainTip, height, disk, live, faults, runs>>

(* The request fails, or the node's branch has become too short for it.    *)
NoAnswer ==
    \/ /\ \A b \in BranchOf(head) : HeightOf[b] # height
       /\ UNCHANGED faults
    \/ faults < MaxFaults /\ faults' = faults + 1

(* "continue" in place of "break".                                         *)
MutantFetchFailsContinues ==
    /\ at = "fetch"
    /\ NoAnswer
    /\ IF height = chainTip
       THEN at' = "filled" /\ UNCHANGED height
       ELSE height' = height + 1 /\ UNCHANGED at
    /\ UNCHANGED <<dbVars, head, lastHeight, chainTip, block, disk, live, runs>>

(* "break": what was filled so far is kept.                                *)
FetchFails ==
    /\ at = "fetch"
    /\ NoAnswer
    /\ at' = "stopped"
    /\ UNCHANGED <<dbVars, head, localVars, disk, live, runs>>

(* "(last_height + 1)..chain_tip".                                         *)
MutantApplyFetchedExclusive ==
    /\ at = "apply"
    /\ ApplyBlock(block)
    /\ live' = live \ {block}
    /\ IF height + 1 >= chainTip
       THEN at' = "filled" /\ UNCHANGED height
       ELSE at' = "fetch" /\ height' = height + 1
    /\ UNCHANGED <<head, lastHeight, chainTip, block, disk, faults, runs>>

(* match_events and apply_block, then the next height.                     *)
ApplyFetched ==
    /\ at = "apply"
    /\ ApplyBlock(block)
    /\ live' = live \ {block}
    /\ IF height = chainTip
       THEN at' = "filled" /\ UNCHANGED height
       ELSE at' = "fetch" /\ height' = height + 1
    /\ UNCHANGED <<head, lastHeight, chainTip, block, disk, faults, runs>>

-----------------------------------------------------------------------------
(* The live pipeline.                                                      *)

(* The node adopts a block and announces it, or announces one once more.   *)
Listen(b) ==
    /\ at \in Ends \cup {"listening"}
    /\ \/ Adoptable(b) /\ head' = b
       \/ b \in BranchOf(head) /\ UNCHANGED head
    /\ block' = b
    /\ at' = "detect"
    /\ UNCHANGED <<dbVars, lastHeight, chainTip, height, disk, live, faults, runs>>

(* detect_reorg                                                            *)
LiveDetect ==
    /\ at = "detect"
    /\ IF Stored = {}
       THEN at' = "store"
       ELSE \E tip \in TipBlocks : at' = IF ParentOf[block] # tip THEN "rollback" ELSE "store"
    /\ UNCHANGED <<dbVars, head, localVars, disk, live, faults, runs>>

(* handle_reorg                                                            *)
LiveRollback ==
    /\ at = "rollback"
    /\ RollbackFromHeight(HeightOf[block])
    /\ live' = {b \in live : HeightOf[b] < HeightOf[block]}
    /\ at' = "store"
    /\ UNCHANGED <<head, localVars, disk, faults, runs>>

LiveStore ==
    /\ at = "store"
    /\ ApplyBlock(block)
    /\ live' = live \cup {block}
    /\ at' = "listening"
    /\ UNCHANGED <<head, localVars, disk, faults, runs>>

-----------------------------------------------------------------------------
(* What goes wrong.                                                        *)

(* "?": an error of the store or of /v2/info ends backfill_gaps; an error  *)
(* in process_block ends the processing of its block.                      *)
Fails ==
    /\ at \in (BackfillSteps \ {"fetch"}) \cup LiveSteps
    /\ faults < MaxFaults
    /\ faults' = faults + 1
    /\ at' = IF at \in LiveSteps THEN "listening" ELSE "failed"
    /\ UNCHANGED <<dbVars, head, localVars, disk, live, runs>>

Gone ==
    /\ at' = "down"
    /\ lastHeight' = 0
    /\ chainTip' = 0
    /\ height' = 0
    /\ block' = NoBlock

(* The process stops, or dies anywhere on the way.                         *)
StopProcess ==
    /\ at # "down"
    /\ Gone
    /\ UNCHANGED <<dbVars, head, disk, live, faults, runs>>

(* The commits so far reach the disk, in their order: at what moments they *)
(* do is up to SQLite and the system ("synchronous = NORMAL").             *)
Checkpoint ==
    /\ disk' = Image(eventRows, reorgJournal, indexerState, lastRowId, live)
    /\ disk' # disk
    /\ UNCHANGED <<dbVars, head, at, localVars, live, faults, runs>>

Restore(image) ==
    /\ eventRows' = image.rows
    /\ reorgJournal' = image.journal
    /\ indexerState' = image.states
    /\ lastRowId' = image.ids
    /\ live' = image.live
    /\ UNCHANGED prunedTo

(* The machine goes down, and with it the commits that had not reached the *)
(* disk.                                                                   *)
PowerFails ==
    /\ Restore(disk)
    /\ Gone
    /\ UNCHANGED <<head, disk, faults, runs>>

(* reset_db: the files are removed.                                        *)
Reset ==
    /\ at = "down"
    /\ Restore(EmptyImage)
    /\ disk' = EmptyImage
    /\ UNCHANGED <<head, at, localVars, faults, runs>>

Next ==
    \/ \E b \in Blocks : Adopt(b)
    \/ StartProcess
    \/ ReadLast
    \/ GetChainTip
    \/ FetchBlock
    \/ FetchFails
    \/ ApplyFetched
    \/ \E b \in Blocks : Listen(b)
    \/ LiveDetect
    \/ LiveRollback
    \/ LiveStore
    \/ Fails
    \/ StopProcess
    \/ Checkpoint
    \/ PowerFails
    \/ Reset

Spec == Init /\ [][Next]_vars

-----------------------------------------------------------------------------
(* Properties.                                                             *)

ImageType ==
    [rows : SUBSET Row, journal : SUBSET JournalEntry, states : [Blocks -> Nat],
     ids : [Tables -> Nat], live : SUBSET Blocks]

TypeOK ==
    /\ DatabaseTypeOK
    /\ head \in Blocks \cup {NoBlock}
    /\ at \in {"down", "listening"} \cup BackfillSteps \cup Ends \cup LiveSteps
    /\ lastHeight \in Nat /\ chainTip \in Nat /\ height \in Nat
    /\ block \in Blocks \cup {NoBlock}
    /\ disk \in ImageType
    /\ live \subseteq Stored
    /\ faults \in Nat /\ runs \in Nat

(* Wherever fetches or the store fail, the node forks, the process stops   *)
(* or the power fails, on this run or an earlier one: backfill_gaps stores *)
(* no block above a missing height.  Each gap lies below a block that the  *)
(* live pipeline stored although its parent was missing; that gap stays,   *)
(* for later runs look at the last height alone.                           *)
GapsAreLive ==
    \A b \in Stored :
        HeightOf[b] > 1 /\ (~ \E c \in Stored : HeightOf[c] + 1 = HeightOf[b]) => b \in live

(* No run stores a height that is stored, though the node may have another *)
(* block there by now, and no block announced after it is stored beside it.*)
OncePerHeight ==
    \A b \in Stored :
        /\ indexerState[b] = 1
        /\ \A c \in Stored : HeightOf[b] = HeightOf[c] => b = c

(* A run that gets to its end has reached the tip that it was told.        *)
FillsToTip == at = "filled" => LastHeight >= chainTip
=============================================================================
