------------------------------ MODULE Runtime ------------------------------
(***************************************************************************)
(* The threads of the server and the one mutex they share.  #[tokio::main] *)
(* (cli/src/main.rs) gives the program a few worker threads, which poll    *)
(* the handlers and resolvers, and a pool of threads for spawn_blocking.   *)
(* Database (storage/src/db.rs) keeps its connection in a std Mutex: who   *)
(* finds it taken waits with its whole thread, a worker like any other.    *)
(*                                                                         *)
(* A thread's step is a critical section, "lock" while it waits for the    *)
(* mutex and "run" while it has it.  What the sections read and write is   *)
(* in Indexer and Queries; here their outcome is any that the code has a   *)
(* branch for.                                                             *)
(***************************************************************************)
EXTENDS Naturals, FiniteSets

CONSTANTS Workers,   \* tokio's worker threads
          Pool,      \* the threads of its blocking pool
          Posts,     \* requests for /new_block
          Reads,     \* reads of the store: /health, each field of a /graphql query
          NoThread, NoRequest

Threads == Workers \cup Pool

Requests == Posts \cup Reads

ASSUME RuntimeAssumption ==
    /\ Workers \cap Pool = {} /\ Posts \cap Reads = {}
    /\ NoThread \notin Threads /\ NoRequest \notin Requests

VARIABLES request, \* what became of each request
          serving, \* the request a worker polls the handler of
          at,      \* the critical section each thread is at
          holder,  \* the thread that has the mutex
          backlog, \* calls of process_block that no thread has taken
          phase    \* "up", "stopping" or "down"

vars == <<request, serving, at, holder, backlog, phase>>

(* What readers do, and what process_block does in turn: ask for the tip's *)
(* hash, for its height, roll back, apply, and, every hundredth block, ask *)
(* for the tip and prune.                                                  *)
Sections == {"read", "detect", "height", "rollback", "apply", "tip", "prune"}

Idle == [section |-> "none", stage |-> "none"]

Waits(section) == [section |-> section, stage |-> "lock"]

Runs(section) == [section |-> section, stage |-> "run"]

Init ==
    /\ request = [r \in Requests |-> "none"]
    /\ serving = [w \in Workers |-> NoRequest]
    /\ at = [t \in Threads |-> Idle]
    /\ holder = NoThread
    /\ backlog = 0
    /\ phase = "up"

-----------------------------------------------------------------------------
(* Definitions named Mutant... are wrong versions of the one that follows. *)

Arrive(r) ==
    /\ phase = "up"
    /\ request[r] = "none"
    /\ request' = [request EXCEPT ![r] = "waiting"]
    /\ UNCHANGED <<serving, at, holder, backlog, phase>>

(* process_block is called by the handler itself.                          *)
MutantNewBlockInline(w, r) ==
    /\ phase = "up"
    /\ at[w] = Idle
    /\ request[r] = "waiting"
    /\ request' = [request EXCEPT ![r] = "answered"]
    /\ at' = [at EXCEPT ![w] = Waits("detect")]
    /\ UNCHANGED <<serving, holder, backlog, phase>>

(* handle_new_block: spawn_blocking and 200, in one poll.                  *)
NewBlock(w, r) ==
    /\ phase = "up"
    /\ at[w] = Idle
    /\ request[r] = "waiting"
    /\ request' = [request EXCEPT ![r] = "answered"]
    /\ backlog' = backlog + 1
    /\ UNCHANGED <<serving, at, holder, phase>>

(* handle_health, indexerStatus, a table's query: all lock at once.        *)
Read(w, r) ==
    /\ phase = "up"
    /\ at[w] = Idle
    /\ request[r] = "waiting"
    /\ request' = [request EXCEPT ![r] = "polled"]
    /\ serving' = [serving EXCEPT ![w] = r]
    /\ at' = [at EXCEPT ![w] = Waits("read")]
    /\ UNCHANGED <<holder, backlog, phase>>

(* A thread of the pool takes up a call of process_block.                  *)
Take(p) ==
    /\ phase \in {"up", "stopping"}
    /\ at[p] = Idle
    /\ backlog > 0
    /\ backlog' = backlog - 1
    /\ at' = [at EXCEPT ![p] = Waits("detect")]
    /\ UNCHANGED <<request, serving, holder, phase>>

(* self.conn.lock(): the mutex goes to any of those that wait.             *)
Lock(t) ==
    /\ at[t].stage = "lock"
    /\ holder = NoThread
    /\ holder' = t
    /\ at' = [at EXCEPT ![t] = Runs(at[t].section)]
    /\ UNCHANGED <<request, serving, backlog, phase>>

(* The resolver asks for the tip with the connection still locked.         *)
MutantFinishReadNested(w) ==
    /\ at[w] = Runs("read")
    /\ at' = [at EXCEPT ![w] = Waits("read")]
    /\ UNCHANGED <<request, serving, holder, backlog, phase>>

(* The answer is written after the guard of the mutex is dropped.          *)
FinishRead(w) ==
    /\ at[w] = Runs("read")
    /\ at' = [at EXCEPT ![w] = Idle]
    /\ holder' = NoThread
    /\ request' = [request EXCEPT ![serving[w]] = "answered"]
    /\ serving' = [serving EXCEPT ![w] = NoRequest]
    /\ UNCHANGED <<backlog, phase>>

(* Where process_block goes from a section: on, or back after an error.    *)
Successors(section) ==
    CASE section = "detect"   -> {Waits("height"), Waits("apply"), Idle}
      [] section = "height"   -> {Waits("rollback"), Idle}
      [] section = "rollback" -> {Waits("apply"), Idle}
      [] section = "apply"    -> {Waits("tip"), Idle}
      [] section = "tip"      -> {Waits("prune"), Idle}
      [] section = "prune"    -> {Idle}

(* prune_journal locks before it calls get_last_processed_block.           *)
MutantFinishSectionNested(p) ==
    /\ at[p].stage = "run"
    /\ \E next \in Successors(at[p].section) : at' = [at EXCEPT ![p] = next]
    /\ holder' = IF at'[p] = Waits("tip") THEN p ELSE NoThread
    /\ UNCHANGED <<request, serving, backlog, phase>>

(* Every section of process_block drops the guard at its end.              *)
FinishSection(p) ==
    /\ at[p].stage = "run"
    /\ holder' = NoThread
    /\ \E next \in Successors(at[p].section) : at' = [at EXCEPT ![p] = next]
    /\ UNCHANGED <<request, serving, backlog, phase>>

-----------------------------------------------------------------------------
(* run returns on ctrl-c, main returns, and the runtime is dropped: no     *)
(* handler is polled again.                                                *)
CtrlC ==
    /\ phase = "up"
    /\ phase' = "stopping"
    /\ UNCHANGED <<request, serving, at, holder, backlog>>

(* Dropped without a look whether there is something to drop.              *)
MutantCancelQueuedBlind ==
    /\ phase = "stopping"
    /\ backlog' = backlog - 1
    /\ UNCHANGED <<request, serving, at, holder, phase>>

(* What no thread has taken yet may be dropped ...                         *)
CancelQueued ==
    /\ phase = "stopping"
    /\ backlog > 0
    /\ backlog' = backlog - 1
    /\ UNCHANGED <<request, serving, at, holder, phase>>

(* The requests that came in are to be answered first.                     *)
MutantExitGraceful ==
    /\ phase = "stopping"
    /\ backlog = 0
    /\ \A t \in Threads : at[t] = Idle
    /\ \A r \in Requests : request[r] # "waiting"
    /\ phase' = "down"
    /\ UNCHANGED <<request, serving, at, holder, backlog>>

(* ... and every thread is waited for, whatever it does.                   *)
Exit ==
    /\ phase = "stopping"
    /\ backlog = 0
    /\ \A t \in Threads : at[t] = Idle
    /\ phase' = "down"
    /\ UNCHANGED <<request, serving, at, holder, backlog>>

Poll(w) ==
    \/ \E r \in Posts : NewBlock(w, r)
    \/ \E r \in Reads : Read(w, r)
    \/ Lock(w)
    \/ FinishRead(w)

Process(p) == Take(p) \/ Lock(p) \/ FinishSection(p)

ShutDown == CancelQueued \/ Exit

Next ==
    \/ \E r \in Requests : Arrive(r)
    \/ \E w \in Workers : Poll(w)
    \/ \E p \in Pool : Process(p)
    \/ CtrlC
    \/ ShutDown

Spec == Init /\ [][Next]_vars

(* Threads are run by the operating system.  The mutex is not fair: a      *)
(* thread that waits gets it only if it is free and stays so.              *)
FairSpec ==
    /\ Spec
    /\ \A w \in Workers : WF_vars(Poll(w))
    /\ \A p \in Pool : WF_vars(Process(p))
    /\ WF_vars(ShutDown)

-----------------------------------------------------------------------------
(* Properties.                                                             *)

TypeOK ==
    /\ request \in [Requests -> {"none", "waiting", "polled", "answered"}]
    /\ serving \in [Workers -> Reads \cup {NoRequest}]
    /\ at \in [Threads -> {Idle} \cup [section : Sections, stage : {"lock", "run"}]]
    /\ holder \in Threads \cup {NoThread}
    /\ backlog \in Nat
    /\ phase \in {"up", "stopping", "down"}

(* A std Mutex is not reentrant: no function of Database may call another  *)
(* that locks while it has the connection itself (prune_journal asks for   *)
(* the tip).  And the mutex is held by the one thread that is inside.      *)
NeverWaitsForItself ==
    \A t \in Threads :
        /\ holder = t => at[t].stage = "run"
        /\ at[t].stage = "run" => holder = t

(* "Respond 200 immediately ... then process the block in the background"  *)
(* (http.rs): blocks that are being processed take no worker away from     *)
(* those that arrive.  Only requests that read the store can.              *)
BusyOnlyWithReads ==
    \A w \in Workers :
        at[w] # Idle =>
            /\ serving[w] \in Reads /\ request[serving[w]] = "polled"
            /\ \A v \in Workers \ {w} : serving[v] # serving[w]

(* Every request is answered, however many blocks and queries compete for  *)
(* the mutex, unless the server is stopped.                                *)
Answered ==
    \A r \in Requests : request[r] = "waiting" ~> request[r] = "answered" \/ phase # "up"

(* After ctrl-c the process ends: no thread is waited for in vain.         *)
Stops == phase = "stopping" ~> phase = "down"
=============================================================================
