--------------------------- MODULE RuntimeProofs ---------------------------
(***************************************************************************)
(* Proofs about Runtime: for any number of threads and requests, no thread *)
(* waits for a mutex that it holds itself, and blocks keep no worker busy. *)
(***************************************************************************)
EXTENDS Runtime, TLAPS

(* Workers are only ever inside a read, and the pool only in process_block *)
(* (FinishSection would not know where to go from a read).  An idle worker *)
(* serves nobody: its next request cannot be somebody else's.              *)
Separation ==
    /\ \A w \in Workers : at[w] = Idle \/ at[w].section = "read"
    /\ \A w \in Workers : at[w] = Idle => serving[w] = NoRequest
    /\ \A p \in Pool : at[p] = Idle \/ at[p].section # "read"

IInv == TypeOK /\ NeverWaitsForItself /\ BusyOnlyWithReads /\ Separation

LEMMA StagesDiffer ==
    /\ Idle.stage = "none" /\ Idle.section = "none"
    /\ \A s : /\ Waits(s).stage = "lock" /\ Waits(s).section = s /\ Waits(s) # Idle
             /\ Runs(s).stage = "run" /\ Runs(s).section = s /\ Runs(s) # Idle
  BY DEF Idle, Waits, Runs

(* Where a call of process_block can be after one of its sections.         *)
LEMMA SuccessorsWait ==
    ASSUME NEW s \in Sections, s # "read", NEW next \in Successors(s)
    PROVE  \/ next = Idle
           \/ \E q \in Sections \ {"read"} : next = Waits(q)
  BY DEF Successors, Sections

LEMMA InitIInv == Init => IInv
  BY RuntimeAssumption, StagesDiffer
  DEF Init, IInv, TypeOK, NeverWaitsForItself, BusyOnlyWithReads, Separation,
      Threads, Requests

LEMMA NextIInv == IInv /\ [Next]_vars => IInv'
<1> SUFFICES ASSUME IInv, [Next]_vars PROVE IInv'
  OBVIOUS
<1> USE DEF IInv
<1>1. ASSUME NEW r \in Requests, Arrive(r) PROVE IInv'
  <2>1. \A w \in Workers : at[w] # Idle => request'[serving[w]] = request[serving[w]]
    BY <1>1 DEF Arrive, TypeOK, BusyOnlyWithReads, Requests
  <2> QED
    BY <1>1, <2>1 DEF Arrive, TypeOK, NeverWaitsForItself, BusyOnlyWithReads, Separation
<1>2. ASSUME NEW w \in Workers, NEW r \in Posts, NewBlock(w, r) PROVE IInv'
  <2>1. \A v \in Workers : serving[v] # r
    BY RuntimeAssumption, <1>2 DEF TypeOK, Requests
  <2> QED
    BY <1>2, <2>1
    DEF NewBlock, TypeOK, NeverWaitsForItself, BusyOnlyWithReads, Separation, Requests
<1>3. ASSUME NEW w \in Workers, NEW r \in Reads, Read(w, r) PROVE IInv'
  <2>1. \A v \in Workers : serving[v] # r
    BY RuntimeAssumption, <1>3 DEF Read, BusyOnlyWithReads, Separation, Requests
  <2>2. TypeOK'
    BY <1>3 DEF Read, TypeOK, Threads, Requests, Waits, Sections
  <2>3. /\ at'[w] = Waits("read") /\ serving'[w] = r /\ request'[r] = "polled"
        /\ \A t \in Threads \ {w} : at'[t] = at[t]
        /\ \A v \in Workers \ {w} : serving'[v] = serving[v]
        /\ \A q \in Requests \ {r} : request'[q] = request[q]
        /\ holder' = holder
    BY <1>3 DEF Read, TypeOK, Threads, Requests
  <2>4. holder # w
    BY <1>3, StagesDiffer DEF Read, NeverWaitsForItself, Threads
  <2>5. NeverWaitsForItself'
    BY <2>3, <2>4, StagesDiffer DEF NeverWaitsForItself
  <2>6. BusyOnlyWithReads'
    BY <2>1, <2>3 DEF BusyOnlyWithReads, Threads, Requests
  <2>7. Separation'
    BY <2>3, StagesDiffer, RuntimeAssumption DEF Separation, Threads
  <2> QED
    BY <2>2, <2>5, <2>6, <2>7
<1>4. ASSUME NEW p \in Pool, Take(p) PROVE IInv'
  <2>1. TypeOK'
    BY <1>4 DEF Take, TypeOK, Threads, Waits, Sections
  <2>2. /\ at'[p] = Waits("detect")
        /\ \A t \in Threads \ {p} : at'[t] = at[t]
        /\ p \notin Workers
        /\ holder' = holder /\ serving' = serving /\ request' = request
    BY <1>4, RuntimeAssumption DEF Take, TypeOK, Threads
  <2>3. holder # p
    BY <1>4, StagesDiffer DEF Take, NeverWaitsForItself, Threads
  <2>4. NeverWaitsForItself'
    BY <2>2, <2>3, StagesDiffer DEF NeverWaitsForItself
  <2>5. BusyOnlyWithReads' /\ Separation'
    BY <2>2, StagesDiffer DEF BusyOnlyWithReads, Separation, Threads
  <2> QED
    BY <2>1, <2>4, <2>5
<1>5. ASSUME NEW t \in Threads, Lock(t) PROVE IInv'
  <2>1. at[t] # Idle /\ at[t].section \in Sections
    BY <1>5, StagesDiffer DEF Lock, TypeOK
  <2>2. TypeOK'
    BY <1>5, <2>1 DEF Lock, TypeOK, Runs
  <2>3. /\ at'[t] = Runs(at[t].section) /\ at'[t] # Idle
        /\ at'[t].stage = "run" /\ at'[t].section = at[t].section
        /\ \A u \in Threads \ {t} : at'[u] = at[u]
        /\ holder' = t /\ serving' = serving /\ request' = request
    BY <1>5, StagesDiffer DEF Lock, TypeOK
  <2>4. NeverWaitsForItself'
    BY <1>5, <2>3, RuntimeAssumption DEF Lock, NeverWaitsForItself
  <2>5. BusyOnlyWithReads' /\ Separation'
    BY <2>1, <2>3 DEF BusyOnlyWithReads, Separation, Threads
  <2> QED
    BY <2>2, <2>4, <2>5
<1>6. ASSUME NEW w \in Workers, FinishRead(w) PROVE IInv'
  <2>1. at[w] # Idle /\ holder = w
    BY <1>6, StagesDiffer DEF FinishRead, NeverWaitsForItself, Threads
  <2>2. TypeOK'
    BY <1>6 DEF FinishRead, TypeOK
  <2>3. /\ at'[w] = Idle /\ serving'[w] = NoRequest
        /\ \A t \in Threads \ {w} : at'[t] = at[t]
        /\ \A v \in Workers \ {w} : serving'[v] = serving[v]
        /\ \A q \in Requests \ {serving[w]} : request'[q] = request[q]
        /\ holder' = NoThread
    BY <1>6 DEF FinishRead, TypeOK, Threads
  <2>4. NeverWaitsForItself'
    BY <2>1, <2>3, StagesDiffer, RuntimeAssumption DEF NeverWaitsForItself
  <2>5. BusyOnlyWithReads'
    <3> SUFFICES ASSUME NEW v \in Workers, at'[v] # Idle
                 PROVE  /\ serving'[v] \in Reads /\ request'[serving'[v]] = "polled"
                        /\ \A u \in Workers \ {v} : serving'[u] # serving'[v]
      BY DEF BusyOnlyWithReads
    <3>1. v # w /\ at[v] # Idle /\ serving'[v] = serving[v]
      BY <2>3 DEF Threads
    <3>2. /\ serving[v] \in Reads /\ request[serving[v]] = "polled"
          /\ \A u \in Workers \ {v} : serving[u] # serving[v]
      BY <3>1 DEF BusyOnlyWithReads
    <3>3. request'[serving'[v]] = "polled"
      BY <2>3, <3>1, <3>2 DEF Requests
    <3>4. \A u \in Workers \ {v} : serving'[u] # serving'[v]
      BY <2>3, <3>1, <3>2, RuntimeAssumption DEF Requests
    <3> QED
      BY <3>1, <3>2, <3>3, <3>4
  <2>6. Separation'
    BY <2>3, RuntimeAssumption DEF Separation, Threads
  <2> QED
    BY <2>2, <2>4, <2>5, <2>6
<1>7. ASSUME NEW p \in Pool, FinishSection(p) PROVE IInv'
  <2>1. /\ at[p] # Idle /\ holder = p
        /\ at[p].section \in Sections \ {"read"}
    BY <1>7, StagesDiffer
    DEF FinishSection, NeverWaitsForItself, Separation, TypeOK, Threads
  <2>2. PICK next \in Successors(at[p].section) : at' = [at EXCEPT ![p] = next]
    BY <1>7 DEF FinishSection
  <2>3. next = Idle \/ \E q \in Sections \ {"read"} : next = Waits(q)
    BY <2>1, <2>2, SuccessorsWait
  <2>4. TypeOK'
    <3>1. next \in {Idle} \cup [section : Sections, stage : {"lock", "run"}]
      BY <2>3 DEF Waits
    <3> QED
      BY <1>7, <2>2, <3>1 DEF FinishSection, TypeOK
  <2>5. /\ at'[p] = next
        /\ \A t \in Threads \ {p} : at'[t] = at[t]
        /\ p \notin Workers
        /\ holder' = NoThread /\ serving' = serving /\ request' = request
    BY <1>7, <2>2, RuntimeAssumption DEF FinishSection, TypeOK, Threads
  <2>6. next.stage # "run" /\ (next = Idle \/ next.section # "read")
    BY <2>3, StagesDiffer
  <2>7. NeverWaitsForItself'
    BY <2>1, <2>5, <2>6, RuntimeAssumption DEF NeverWaitsForItself
  <2>8. BusyOnlyWithReads' /\ Separation'
    BY <2>5, <2>6 DEF BusyOnlyWithReads, Separation, Threads
  <2> QED
    BY <2>4, <2>7, <2>8
<1>8. CASE CtrlC \/ ShutDown
  BY <1>8 DEF CtrlC, ShutDown, CancelQueued, Exit, TypeOK, NeverWaitsForItself,
              BusyOnlyWithReads, Separation
<1>9. CASE UNCHANGED vars
  BY <1>9 DEF vars, TypeOK, NeverWaitsForItself, BusyOnlyWithReads, Separation
<1> QED
  BY <1>1, <1>2, <1>3, <1>4, <1>5, <1>6, <1>7, <1>8, <1>9
  DEF Next, Poll, Process, Threads

(* However many threads and requests there are, every state is well typed. *)
THEOREM TypeCorrect == Spec => []TypeOK
  BY InitIInv, NextIInv, PTL DEF Spec, IInv

(* No function of Database calls another that locks with the mutex taken.  *)
THEOREM NoSelfDeadlock == Spec => []NeverWaitsForItself
  BY InitIInv, NextIInv, PTL DEF Spec, IInv

(* A worker that is not free serves a read: never a block.                 *)
THEOREM BlocksTakeNoWorker == Spec => []BusyOnlyWithReads
  BY InitIInv, NextIInv, PTL DEF Spec, IInv
=============================================================================
