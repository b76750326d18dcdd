---------------------------- MODULE WorkerPool ----------------------------
(***************************************************************************)
(* core/utils/workers.py, BoundedWorkerPool: blocking calls made by tasks  *)
(* of several Event Loops run on one executor of MaxWorkers threads.  Each *)
(* loop admits as many calls as there are threads, so work waits in the    *)
(* executor only behind the work of other loops.                           *)
(*                                                                         *)
(* The semaphore of a loop is asyncio's: it admits its callers in the      *)
(* order they came, and a caller cancelled while it waits holds no slot.   *)
(* A thread that started a function runs it to its end.                    *)
(***************************************************************************)
EXTENDS Integers, FiniteSets, SequencesExt

CONSTANTS
  Calls,       \* calls of run and run_guarded, each in a task of its own
  Guarded,     \* the calls that were given a guard
  Loops,       \* the Event Loops
  LoopOf,      \* the loop each call is made on
  MaxWorkers   \* max_workers

ASSUME PoolAssumption ==
  /\ IsFiniteSet(Calls) /\ Guarded \subseteq Calls
  /\ LoopOf \in [Calls -> Loops]
  /\ MaxWorkers \in Nat \ {0}

VARIABLES
  phase,      \* where each call is
  cancelled,  \* calls cancelled while their work settles
  free,       \* the value of each loop's semaphore
  waiters,    \* the calls that wait for it, first come first
  active,     \* BoundedWorkerPool._active
  work,       \* the executor's future of each call
  closed      \* the executor was shut down

vars == <<phase, cancelled, free, waiters, active, work, closed>>

InPhase(S) == {c \in Calls : phase[c] \in S}
WorkIn(S) == {c \in Calls : work[c] \in S}
Admitted(l) == {c \in InPhase({"guarding", "settling"}) : LoopOf[c] = l}

TypeOK ==
  /\ phase \in [Calls -> {"idle", "waiting", "guarding", "settling", "left"}]
  /\ cancelled \subseteq Calls
  /\ free \in [Loops -> Nat] /\ active \in Int
  /\ waiters \in [Loops -> Seq(Calls)]
  /\ work \in [Calls -> {"none", "queued", "running", "done"}]
  /\ closed \in BOOLEAN

\* mutated form: the semaphore has one slot more than the pool has threads
InitOneMore ==
  /\ phase = [c \in Calls |-> "idle"] /\ cancelled = {}
  /\ free = [l \in Loops |-> MaxWorkers + 1]
  /\ waiters = [l \in Loops |-> <<>>]
  /\ active = 0
  /\ work = [c \in Calls |-> "none"] /\ closed = FALSE

Init ==
  /\ phase = [c \in Calls |-> "idle"] /\ cancelled = {}
  /\ free = [l \in Loops |-> MaxWorkers]
  /\ waiters = [l \in Loops |-> <<>>]
  /\ active = 0
  /\ work = [c \in Calls |-> "none"] /\ closed = FALSE

Enter(c) ==
  /\ phase[c] = "idle"
  /\ phase' = [phase EXCEPT ![c] = "waiting"]
  /\ waiters' = [waiters EXCEPT ![LoopOf[c]] = Append(@, c)]
  /\ UNCHANGED <<cancelled, free, active, work, closed>>

Admit(c) ==
  LET l == LoopOf[c] IN
  /\ phase[c] = "waiting" /\ free[l] > 0
  /\ waiters[l] # <<>> /\ Head(waiters[l]) = c
  /\ waiters' = [waiters EXCEPT ![l] = Tail(@)]
  /\ free' = [free EXCEPT ![l] = @ - 1]
  /\ active' = active + 1
  /\ phase' = [phase EXCEPT ![c] = "guarding"]
  /\ UNCHANGED <<cancelled, work, closed>>

CancelWaiting(c) ==
  LET l == LoopOf[c] IN
  /\ phase[c] = "waiting"
  /\ phase' = [phase EXCEPT ![c] = "left"]
  /\ \E i \in DOMAIN waiters[l] :
       waiters[l][i] = c /\ waiters' = [waiters EXCEPT ![l] = RemoveAt(@, i)]
  /\ UNCHANGED <<cancelled, free, active, work, closed>>

(* The two finally blocks of _run_with_guard. *)
Leaves(c) ==
  /\ phase' = [phase EXCEPT ![c] = "left"]
  /\ active' = active - 1
  /\ free' = [free EXCEPT ![LoopOf[c]] = @ + 1]

\* mutated form: a refused call keeps its slot
GuardEndsKeepingSlot(c) ==
  /\ phase[c] = "guarding" /\ c \in Guarded
  /\ phase' = [phase EXCEPT ![c] = "left"]
  /\ active' = active - 1
  /\ UNCHANGED <<free, cancelled, waiters, work, closed>>

(* The guard refuses the call, or the call is cancelled while it runs. *)
GuardEnds(c) ==
  /\ phase[c] = "guarding" /\ c \in Guarded
  /\ Leaves(c)
  /\ UNCHANGED <<cancelled, waiters, work, closed>>

(* run_in_executor raises once the executor is shut down. *)
Submit(c) ==
  /\ phase[c] = "guarding"
  /\ IF closed
     THEN Leaves(c) /\ UNCHANGED work
     ELSE /\ phase' = [phase EXCEPT ![c] = "settling"]
          /\ work' = [work EXCEPT ![c] = "queued"]
          /\ UNCHANGED <<active, free>>
  /\ UNCHANGED <<cancelled, waiters, closed>>

ThreadStarts(c) ==
  /\ work[c] = "queued" /\ Cardinality(WorkIn({"running"})) < MaxWorkers
  /\ work' = [work EXCEPT ![c] = "running"]
  /\ UNCHANGED <<phase, cancelled, free, waiters, active, closed>>

ThreadEnds(c) ==
  /\ work[c] = "running"
  /\ work' = [work EXCEPT ![c] = "done"]
  /\ UNCHANGED <<phase, cancelled, free, waiters, active, closed>>

CancelSettling(c) ==
  /\ phase[c] = "settling"
  /\ cancelled' = cancelled \cup {c}
  /\ UNCHANGED <<phase, free, waiters, active, work, closed>>

(* settle_before_cancelling: cancelled or not, a caller goes on, with the  *)
(* result or the cancellation, when its work has ended.                    *)
Settle(c) ==
  /\ phase[c] = "settling" /\ work[c] = "done"
  /\ Leaves(c)
  /\ UNCHANGED <<cancelled, waiters, work, closed>>

\* mutated form: queued work is dropped and its caller never told
ShutdownDrops ==
  /\ ~closed
  /\ closed' = TRUE
  /\ work' = [c \in Calls |-> IF work[c] = "queued" THEN "none" ELSE work[c]]
  /\ UNCHANGED <<phase, cancelled, free, waiters, active>>

(* shutdown(wait=False, cancel_futures=True): what no thread has begun is  *)
(* cancelled, what a thread runs goes on.                                  *)
Shutdown ==
  /\ ~closed
  /\ closed' = TRUE
  /\ work' = [c \in Calls |-> IF work[c] = "queued" THEN "done" ELSE work[c]]
  /\ UNCHANGED <<phase, cancelled, free, waiters, active>>

Next ==
  \/ Shutdown
  \/ \E c \in Calls :
       \/ Enter(c) \/ Admit(c) \/ CancelWaiting(c) \/ GuardEnds(c) \/ Submit(c)
       \/ ThreadStarts(c) \/ ThreadEnds(c) \/ CancelSettling(c) \/ Settle(c)

Spec == Init /\ [][Next]_vars

(* Loops run what is ready, guards end, threads take and finish work; a    *)
(* cancellation or a shutdown need never come.                             *)
FairSpec ==
  /\ Spec
  /\ \A c \in Calls :
       /\ WF_vars(Admit(c)) /\ WF_vars(Submit(c)) /\ WF_vars(Settle(c))
       /\ WF_vars(ThreadStarts(c)) /\ WF_vars(ThreadEnds(c))

(* A thread never works, and no work is left for one, on behalf of a call  *)
(* that has returned or raised: a cancelled mutation is not abandoned.     *)
WorkIsOwned ==
  \A c \in Calls : work[c] \in {"queued", "running"} => phase[c] = "settling"

(* Refused, cancelled, failed and shut down calls give back the one slot   *)
(* they took: the semaphores and the gauge never drift.                    *)
SlotsAreHonest ==
  /\ \A l \in Loops : free[l] + Cardinality(Admitted(l)) = MaxWorkers
  /\ active = Cardinality(InPhase({"guarding", "settling"}))

(* Work that passed its guard waits behind every thread only for calls of  *)
(* other loops: on the only loop it starts at once, however many callers.  *)
WaitsOnlyForOtherLoops ==
  \A l \in Loops :
    LET own == {c \in Calls : LoopOf[c] = l} IN
    own \cap WorkIn({"queued"}) # {} =>
      \/ Cardinality(WorkIn({"running"})) < MaxWorkers
      \/ WorkIn({"running"}) \ own # {}

(* Every call ends: nobody waits for a slot that is not given back, and a  *)
(* shutdown strands no caller.                                             *)
EveryCallLeaves == \A c \in Calls : (phase[c] # "idle") ~> (phase[c] = "left")
=============================================================================
