------------------------- MODULE SharedWorkersProofs -------------------------
(***************************************************************************)
(* Proofs about the two components of core/utils/workers.py: WorkerPool,   *)
(* for any number of calls, loops and threads, and SharedRefresh, for any  *)
(* number of callers, tasks and changes.                                   *)
(*                                                                         *)
(* The value of a loop's semaphore and the calls it admitted add up to the *)
(* number of threads, and the gauge counts the admitted calls of all loops *)
(* (SlotsAreHonest): one step changes both sides by the same call.  Then a *)
(* loop whose own work fills every thread has admitted no further call.    *)
(*                                                                         *)
(* Of a refresh, the waiting task is the only one created and not started, *)
(* the running one the only one that refreshes, and the first waits for    *)
(* the second (TasksInvariant).  What a call asked for was there when its  *)
(* task started, at the latest (CallsInvariant), so what the task read is  *)
(* not older.                                                              *)
(***************************************************************************)
EXTENDS WorkerPool, SharedRefresh, FiniteSetTheorems, TLAPS

(* ----------------------------------------------------------------------- *)
(* WorkerPool.                                                             *)

Phases == {"idle", "waiting", "guarding", "settling", "left"}
Slots == {"guarding", "settling"}
Holders == InPhase(Slots)

CountTypes ==
  /\ phase \in [Calls -> Phases]
  /\ free \in [Loops -> Nat] /\ active \in Int
  /\ work \in [Calls -> {"none", "queued", "running", "done"}]

QueueTypes ==
  cancelled \subseteq Calls /\ waiters \in [Loops -> Seq(Calls)] /\ closed \in BOOLEAN

Inv == CountTypes /\ SlotsAreHonest /\ WorkIsOwned

\* The property in terms of the calls that hold a slot, here and after a step.
LEMMA SlotsSum ==
  /\ SlotsAreHonest <=> /\ \A l \in Loops : free[l] + Cardinality(Admitted(l)) = MaxWorkers
                        /\ active = Cardinality(Holders)
  /\ SlotsAreHonest' <=> /\ \A l \in Loops : free'[l] + Cardinality(Admitted(l)') = MaxWorkers
                         /\ active' = Cardinality(Holders')
BY DEF SlotsAreHonest, Holders, Slots

LEMMA FiniteSlots ==
  /\ \A l \in Loops : IsFiniteSet(Admitted(l)) /\ Cardinality(Admitted(l)) \in Nat
  /\ IsFiniteSet(Holders) /\ Cardinality(Holders) \in Nat
<1>1. IsFiniteSet(Calls)
  BY PoolAssumption
<1>2. \A S \in SUBSET Calls : IsFiniteSet(S) /\ Cardinality(S) \in Nat
  BY <1>1, FS_Subset, FS_CardinalityType
<1>3. Holders \in SUBSET Calls /\ \A l \in Loops : Admitted(l) \in SUBSET Calls
  BY DEF Holders, InPhase, Admitted
<1> QED BY <1>2, <1>3

LEMMA InitInv == Init => Inv
<1> SUFFICES ASSUME Init PROVE Inv
  OBVIOUS
<1>1. Holders = {} /\ \A l \in Loops : Admitted(l) = {}
  BY DEF Init, Holders, InPhase, Admitted, Slots
<1>2. Cardinality({}) = 0
  BY FS_EmptySet
<1>3. SlotsAreHonest
  <2>1. active = Cardinality(Holders)
    BY <1>1, <1>2 DEF Init
  <2>2. ASSUME NEW l \in Loops PROVE free[l] + Cardinality(Admitted(l)) = MaxWorkers
    <3>1. free[l] = MaxWorkers
      BY DEF Init
    <3> QED BY <1>1, <1>2, <3>1, PoolAssumption
  <2> QED BY <2>1, <2>2, SlotsSum
<1>4. CountTypes /\ WorkIsOwned
  BY PoolAssumption DEF Init, CountTypes, WorkIsOwned, Phases
<1> QED BY <1>3, <1>4 DEF Inv

-----------------------------------------------------------------------------
(* What a step does to the sets that are counted. *)

LEMMA SlotTaken ==
  ASSUME Inv, NEW c \in Calls, phase[c] \notin Slots, NEW p \in Slots,
         phase' = [phase EXCEPT ![c] = p]
  PROVE  /\ Cardinality(Holders') = Cardinality(Holders) + 1
         /\ Cardinality(Admitted(LoopOf[c])') = Cardinality(Admitted(LoopOf[c])) + 1
         /\ \A l \in Loops \ {LoopOf[c]} : Admitted(l)' = Admitted(l)
<1> DEFINE own == Admitted(LoopOf[c])
<1>0. phase'[c] \in Slots /\ \A d \in Calls \ {c} : phase'[d] = phase[d]
  BY DEF Inv, CountTypes
<1>1. Holders' = Holders \cup {c} /\ c \notin Holders
  BY <1>0 DEF Holders, InPhase
<1>2. own' = own \cup {c} /\ c \notin own
  BY <1>0 DEF Admitted, InPhase, Slots
<1>3. \A l \in Loops \ {LoopOf[c]} : Admitted(l)' = Admitted(l)
  BY <1>0 DEF Admitted, InPhase
<1>4. LoopOf[c] \in Loops
  BY PoolAssumption
<1> HIDE DEF own, Holders
<1>5. IsFiniteSet(Holders) /\ IsFiniteSet(own)
  BY <1>4, FiniteSlots DEF own
<1>6. Cardinality(Holders') = Cardinality(Holders) + 1
  BY <1>1, <1>5, FS_AddElement
<1>7. Cardinality(own') = Cardinality(own) + 1
  BY <1>2, <1>5, FS_AddElement
<1> QED BY <1>3, <1>6, <1>7 DEF own

LEMMA SlotGiven ==
  ASSUME Inv, NEW c \in Calls, phase[c] \in Slots, NEW p \in Phases \ Slots,
         phase' = [phase EXCEPT ![c] = p]
  PROVE  /\ Cardinality(Holders') = Cardinality(Holders) - 1
         /\ Cardinality(Admitted(LoopOf[c])') = Cardinality(Admitted(LoopOf[c])) - 1
         /\ \A l \in Loops \ {LoopOf[c]} : Admitted(l)' = Admitted(l)
<1> DEFINE own == Admitted(LoopOf[c])
<1>0. phase'[c] \notin Slots /\ \A d \in Calls \ {c} : phase'[d] = phase[d]
  BY DEF Inv, CountTypes
<1>1. Holders' = Holders \ {c} /\ c \in Holders
  BY <1>0 DEF Holders, InPhase
<1>2. own' = own \ {c} /\ c \in own
  BY <1>0 DEF Admitted, InPhase, Slots
<1>3. \A l \in Loops \ {LoopOf[c]} : Admitted(l)' = Admitted(l)
  BY <1>0 DEF Admitted, InPhase
<1>4. LoopOf[c] \in Loops
  BY PoolAssumption
<1> HIDE DEF own, Holders
<1>5. IsFiniteSet(Holders) /\ IsFiniteSet(own)
  BY <1>4, FiniteSlots DEF own
<1>6. Cardinality(Holders') = Cardinality(Holders) - 1
  BY <1>1, <1>5, FS_RemoveElement
<1>7. Cardinality(own') = Cardinality(own) - 1
  BY <1>2, <1>5, FS_RemoveElement
<1> QED BY <1>3, <1>6, <1>7 DEF own

\* Moving a call outside the slots, or between the two of them, counts nothing.
LEMMA SlotKept ==
  ASSUME Inv, NEW c \in Calls, NEW p \in Phases, p \in Slots <=> phase[c] \in Slots,
         phase' = [phase EXCEPT ![c] = p], UNCHANGED <<free, active>>
  PROVE  SlotsAreHonest'
<1>1. \A d \in Calls : phase'[d] \in Slots <=> phase[d] \in Slots
  BY DEF Inv, CountTypes
<1>2. Holders' = Holders /\ \A l \in Loops : Admitted(l)' = Admitted(l)
  BY <1>1 DEF Holders, InPhase, Admitted, Slots
<1> QED BY <1>2 DEF Inv, SlotsAreHonest, Holders, Slots

\* The two finally blocks give back what the call took.
LEMMA LeavesKeepsSlots ==
  ASSUME Inv, NEW c \in Calls, phase[c] \in Slots, Leaves(c)
  PROVE  SlotsAreHonest' /\ free' \in [Loops -> Nat] /\ active' \in Int
<1>1. "left" \in Phases \ Slots /\ phase' = [phase EXCEPT ![c] = "left"]
  BY DEF Phases, Slots, Leaves
<1>2. LoopOf[c] \in Loops
  BY PoolAssumption
<1>3. free'[LoopOf[c]] = free[LoopOf[c]] + 1 /\ active' = active - 1
      /\ \A l \in Loops \ {LoopOf[c]} : free'[l] = free[l]
  BY <1>2 DEF Leaves, Inv, CountTypes
<1>4. free' \in [Loops -> Nat] /\ active' \in Int
  BY <1>2 DEF Leaves, Inv, CountTypes
<1>5. SlotsAreHonest'
  <2>1. /\ Cardinality(Holders') = Cardinality(Holders) - 1
        /\ Cardinality(Admitted(LoopOf[c])') = Cardinality(Admitted(LoopOf[c])) - 1
        /\ \A l \in Loops \ {LoopOf[c]} : Admitted(l)' = Admitted(l)
    BY <1>1, SlotGiven
  <2>2. active' = Cardinality(Holders')
    BY <1>3, <2>1, SlotsSum DEF Inv
  <2>3. ASSUME NEW l \in Loops PROVE free'[l] + Cardinality(Admitted(l)') = MaxWorkers
    <3>1. free[l] + Cardinality(Admitted(l)) = MaxWorkers
      BY SlotsSum DEF Inv
    <3>2. free[l] \in Nat /\ Cardinality(Admitted(l)) \in Nat
      BY FiniteSlots DEF Inv, CountTypes
    <3>3. CASE l = LoopOf[c]
      BY <1>3, <2>1, <3>1, <3>2, <3>3, PoolAssumption
    <3>4. CASE l # LoopOf[c]
      BY <1>3, <2>1, <3>1, <3>4
    <3> QED BY <3>3, <3>4
  <2> QED BY <2>2, <2>3, SlotsSum
<1> QED BY <1>4, <1>5

-----------------------------------------------------------------------------
LEMMA EntryKeepsInv ==
  ASSUME Inv, NEW c \in Calls, Enter(c) \/ CancelWaiting(c) PROVE Inv'
<1>1. PICK p \in {"waiting", "left"} : phase' = [phase EXCEPT ![c] = p]
  BY DEF Enter, CancelWaiting
<1>2. phase[c] \in {"idle", "waiting"} /\ UNCHANGED <<free, active, work>>
  BY DEF Enter, CancelWaiting
<1>3. SlotsAreHonest'
  BY <1>1, <1>2, SlotKept DEF Slots, Phases
<1>4. CountTypes' /\ WorkIsOwned'
  BY <1>1, <1>2 DEF Inv, CountTypes, WorkIsOwned, Phases
<1> QED BY <1>3, <1>4 DEF Inv

LEMMA AdmitKeepsInv == ASSUME Inv, NEW c \in Calls, Admit(c) PROVE Inv'
<1>1. /\ phase[c] \notin Slots /\ "guarding" \in Slots
      /\ phase' = [phase EXCEPT ![c] = "guarding"]
  BY DEF Admit, Slots
<1>2. LoopOf[c] \in Loops
  BY PoolAssumption
<1>3. /\ free[LoopOf[c]] > 0 /\ free'[LoopOf[c]] = free[LoopOf[c]] - 1 /\ active' = active + 1
      /\ \A l \in Loops \ {LoopOf[c]} : free'[l] = free[l]
  BY <1>2 DEF Admit, Inv, CountTypes
<1>4. SlotsAreHonest'
  <2>1. /\ Cardinality(Holders') = Cardinality(Holders) + 1
        /\ Cardinality(Admitted(LoopOf[c])') = Cardinality(Admitted(LoopOf[c])) + 1
        /\ \A l \in Loops \ {LoopOf[c]} : Admitted(l)' = Admitted(l)
    BY <1>1, SlotTaken
  <2>2. active' = Cardinality(Holders')
    BY <1>3, <2>1, SlotsSum DEF Inv
  <2>3. ASSUME NEW l \in Loops PROVE free'[l] + Cardinality(Admitted(l)') = MaxWorkers
    <3>1. free[l] + Cardinality(Admitted(l)) = MaxWorkers
      BY SlotsSum DEF Inv
    <3>2. free[l] \in Nat /\ Cardinality(Admitted(l)) \in Nat
      BY FiniteSlots DEF Inv, CountTypes
    <3>3. CASE l = LoopOf[c]
      BY <1>3, <2>1, <3>1, <3>2, <3>3, PoolAssumption
    <3>4. CASE l # LoopOf[c]
      BY <1>3, <2>1, <3>1, <3>4
    <3> QED BY <3>3, <3>4
  <2> QED BY <2>2, <2>3, SlotsSum
<1>5. CountTypes'
  BY <1>1, <1>2, <1>3 DEF Admit, Inv, CountTypes, Phases
<1>6. WorkIsOwned'
  BY DEF Admit, Inv, CountTypes, WorkIsOwned
<1> QED BY <1>4, <1>5, <1>6 DEF Inv

LEMMA GuardEndsKeepsInv == ASSUME Inv, NEW c \in Calls, GuardEnds(c) PROVE Inv'
<1>1. SlotsAreHonest' /\ free' \in [Loops -> Nat] /\ active' \in Int
  BY LeavesKeepsSlots DEF GuardEnds, Slots
<1>2. CountTypes' /\ WorkIsOwned'
  BY <1>1 DEF GuardEnds, Leaves, Inv, CountTypes, WorkIsOwned, Phases
<1> QED BY <1>1, <1>2 DEF Inv

LEMMA SettleKeepsInv == ASSUME Inv, NEW c \in Calls, Settle(c) PROVE Inv'
<1>1. SlotsAreHonest' /\ free' \in [Loops -> Nat] /\ active' \in Int
  BY LeavesKeepsSlots DEF Settle, Slots
<1>2. CountTypes' /\ WorkIsOwned'
  BY <1>1 DEF Settle, Leaves, Inv, CountTypes, WorkIsOwned, Phases
<1> QED BY <1>1, <1>2 DEF Inv

LEMMA SubmitKeepsInv == ASSUME Inv, NEW c \in Calls, Submit(c) PROVE Inv'
<1>1. CASE closed
  <2>1. Leaves(c) /\ phase[c] = "guarding" /\ work' = work
    BY <1>1 DEF Submit
  <2>2. SlotsAreHonest' /\ free' \in [Loops -> Nat] /\ active' \in Int
    BY <2>1, LeavesKeepsSlots DEF Slots
  <2>3. CountTypes' /\ WorkIsOwned'
    BY <2>1, <2>2 DEF Leaves, Inv, CountTypes, WorkIsOwned, Phases
  <2> QED BY <2>2, <2>3 DEF Inv
<1>2. CASE ~closed
  <2>1. /\ phase[c] = "guarding" /\ phase' = [phase EXCEPT ![c] = "settling"]
        /\ work' = [work EXCEPT ![c] = "queued"] /\ UNCHANGED <<free, active>>
    BY <1>2 DEF Submit
  <2>2. SlotsAreHonest'
    BY <2>1, SlotKept DEF Slots, Phases
  <2>3. CountTypes' /\ WorkIsOwned'
    BY <2>1 DEF Inv, CountTypes, WorkIsOwned, Phases
  <2> QED BY <2>2, <2>3 DEF Inv
<1> QED BY <1>1, <1>2

\* Threads, cancellations and the shutdown move no call and no slot.
LEMMA StillKeepsInv ==
  ASSUME Inv, UNCHANGED <<phase, free, active>>,
         work' \in [Calls -> {"none", "queued", "running", "done"}],
         \A c \in Calls : work'[c] \in {"queued", "running"} => work[c] \in {"queued", "running"}
  PROVE  Inv'
BY DEF Inv, CountTypes, SlotsAreHonest, WorkIsOwned, Admitted, InPhase

LEMMA WorkKeepsInv ==
  ASSUME Inv,
         \/ Shutdown
         \/ \E c \in Calls : ThreadStarts(c) \/ ThreadEnds(c) \/ CancelSettling(c)
  PROVE  Inv'
<1>1. /\ UNCHANGED <<phase, free, active>>
      /\ work' \in [Calls -> {"none", "queued", "running", "done"}]
      /\ \A c \in Calls : work'[c] \in {"queued", "running"} => work[c] \in {"queued", "running"}
  BY DEF Shutdown, ThreadStarts, ThreadEnds, CancelSettling, Inv, CountTypes
<1> QED BY <1>1, StillKeepsInv

LEMMA NextKeepsInv == ASSUME Inv, [Next]_vars PROVE Inv'
<1>1. ASSUME NEW c \in Calls, \/ Enter(c) \/ CancelWaiting(c) \/ Admit(c) \/ GuardEnds(c)
                              \/ Submit(c) \/ Settle(c)
      PROVE  Inv'
  BY <1>1, EntryKeepsInv, AdmitKeepsInv, GuardEndsKeepsInv, SubmitKeepsInv, SettleKeepsInv
<1>2. CASE \/ Shutdown
           \/ \E c \in Calls : ThreadStarts(c) \/ ThreadEnds(c) \/ CancelSettling(c)
  BY <1>2, WorkKeepsInv
<1>3. CASE UNCHANGED vars
  BY <1>3 DEF vars, Inv, CountTypes, SlotsAreHonest, WorkIsOwned, Admitted, InPhase
<1> QED BY <1>1, <1>2, <1>3 DEF Next

-----------------------------------------------------------------------------
(* The inductive invariant: slots add up and work has an owner             *)
(* (_run_with_guard, _run_admitted).                                       *)
THEOREM PoolInvariant == Spec => []Inv
BY InitInv, NextKeepsInv, PTL DEF Spec

\* The queues of the semaphores stay queues of calls.
LEMMA NextKeepsQueues == ASSUME QueueTypes, [Next]_vars PROVE QueueTypes'
<1> USE DEF QueueTypes
<1>1. ASSUME NEW c \in Calls, Enter(c) \/ Admit(c) \/ CancelWaiting(c) PROVE QueueTypes'
  <2>1. LoopOf[c] \in Loops /\ waiters[LoopOf[c]] \in Seq(Calls)
    BY PoolAssumption
  <2>2. Append(waiters[LoopOf[c]], c) \in Seq(Calls)
    BY <2>1
  <2>3. waiters[LoopOf[c]] # <<>> => Tail(waiters[LoopOf[c]]) \in Seq(Calls)
    BY <2>1
  <2>4. \A i \in DOMAIN waiters[LoopOf[c]] : RemoveAt(waiters[LoopOf[c]], i) \in Seq(Calls)
    BY <2>1 DEF RemoveAt
  <2>5. CASE Enter(c)
    BY <2>2, <2>5 DEF Enter
  <2>6. CASE Admit(c)
    BY <2>3, <2>6 DEF Admit
  <2>7. CASE CancelWaiting(c)
    BY <2>4, <2>7 DEF CancelWaiting
  <2> QED BY <1>1, <2>5, <2>6, <2>7
<1>2. ASSUME NEW c \in Calls, \/ GuardEnds(c) \/ Submit(c) \/ ThreadStarts(c) \/ ThreadEnds(c)
                              \/ CancelSettling(c) \/ Settle(c)
      PROVE  QueueTypes'
  BY <1>2 DEF GuardEnds, Submit, ThreadStarts, ThreadEnds, CancelSettling, Settle
<1>3. CASE Shutdown
  BY <1>3 DEF Shutdown
<1>4. CASE UNCHANGED vars
  BY <1>4 DEF vars
<1> QED BY <1>1, <1>2, <1>3, <1>4 DEF Next

(* The variables keep their types; a semaphore is never below zero.        *)
THEOREM TypeCorrect == Spec => []TypeOK
<1>1. Init => QueueTypes
  <2>1. <<>> \in Seq(Calls)
    OBVIOUS
  <2>2. Init => waiters \in [Loops -> Seq(Calls)]
    BY <2>1, Zenon DEF Init
  <2> QED BY <2>2 DEF Init, QueueTypes
<1>2. Inv /\ QueueTypes => TypeOK
  BY DEF Inv, CountTypes, QueueTypes, TypeOK, Phases
<1> QED BY <1>1, <1>2, NextKeepsQueues, PoolInvariant, PTL DEF Spec

(* However calls are refused, cancelled, failed and shut down, no slot is  *)
(* lost and none given back twice.                                         *)
THEOREM SlotsAddUp == Spec => []SlotsAreHonest
<1>1. Inv => SlotsAreHonest
  BY DEF Inv
<1> QED BY <1>1, PoolInvariant, PTL

(* No thread works for a call that has returned or raised.                 *)
THEOREM WorkHasAnOwner == Spec => []WorkIsOwned
<1>1. Inv => WorkIsOwned
  BY DEF Inv
<1> QED BY <1>1, PoolInvariant, PTL

\* A loop whose work fills every thread has no further call admitted.
LEMMA LoopsFit == Inv => WaitsOnlyForOtherLoops
<1> SUFFICES ASSUME Inv, NEW l \in Loops, NEW c \in Calls, LoopOf[c] = l, work[c] = "queued",
                    ~(Cardinality(WorkIn({"running"})) < MaxWorkers),
                    WorkIn({"running"}) \subseteq {d \in Calls : LoopOf[d] = l}
             PROVE  FALSE
  BY DEF WaitsOnlyForOtherLoops, WorkIn
<1> DEFINE busy == WorkIn({"running"})
<1>1. busy \cup {c} \subseteq Admitted(l) /\ c \notin busy
  BY DEF Inv, WorkIsOwned, WorkIn, Admitted, InPhase
<1>2. IsFiniteSet(busy) /\ Cardinality(busy) \in Nat
  <2>1. busy \subseteq Calls
    BY DEF WorkIn
  <2> QED BY <2>1, PoolAssumption, FS_Subset, FS_CardinalityType
<1> HIDE DEF busy
<1>3. Cardinality(busy \cup {c}) = Cardinality(busy) + 1
  BY <1>1, <1>2, FS_AddElement
<1>4. Cardinality(busy \cup {c}) =< Cardinality(Admitted(l))
  BY <1>1, FiniteSlots, FS_Subset
<1>5. Cardinality(Admitted(l)) =< MaxWorkers
  BY FiniteSlots, PoolAssumption DEF Inv, CountTypes, SlotsAreHonest
<1> QED BY <1>2, <1>3, <1>4, <1>5, FiniteSlots, PoolAssumption DEF busy

(* Work that passed its guard waits behind every thread only for the calls *)
(* of other loops ("work waits in the executor only behind other loops").  *)
THEOREM NobodyWaitsForItsOwn == Spec => []WaitsOnlyForOtherLoops
BY LoopsFit, PoolInvariant, PTL

(* ----------------------------------------------------------------------- *)
(* SharedRefresh.                                                          *)

Started == {"refreshing", "done"}

\* Which task may wait and which may refresh.
TasksInvariant ==
  /\ \A t \in Tasks : status[t] = "created" <=> waiting = t
  /\ \A t \in Tasks : status[t] = "refreshing" => running = t
  /\ \A t, u \in Tasks : status[t] = "created" /\ status[u] = "refreshing" => previous[t] = u
  /\ running # None => status[running] \in Started

\* How old the marks and the outcomes may be.
VersionsInvariant ==
  /\ announced =< contents
  /\ \A t \in Tasks : began[t] =< contents
  /\ \A t \in Tasks : status[t] = "done" => outcome[t] \in began[t]..contents \cup {Failed}
  /\ running # None => mark =< began[running]

CallIsSound(c) ==
  /\ task[c] = None => asked[c] = None /\ answer[c] = None
  /\ task[c] # None => /\ asked[c] \in 0..contents
                       /\ status[task[c]] # "free"
                       /\ status[task[c]] \in Started => asked[c] =< began[task[c]]
  /\ answer[c] # None => answer[c] \in asked[c]..contents \cup {Failed}
CallsInvariant == \A c \in Callers : CallIsSound(c)

RefreshInv == RefreshTypeOK /\ TasksInvariant /\ VersionsInvariant /\ CallsInvariant

LEMMA RefreshInitInv == RefreshInit => RefreshInv
BY NoneAssumption DEF RefreshInit, RefreshInv, RefreshTypeOK, TasksInvariant, VersionsInvariant,
   CallsInvariant, CallIsSound, Started

LEMMA NewTaskIsUnused == ASSUME Unused # {} PROVE NewTask \in Tasks /\ status[NewTask] = "free"
BY DEF Unused, NewTask

\* A task that waits is the created one; one that is live and runs refreshes.
LEMMA LiveTasks ==
  ASSUME RefreshInv
  PROVE  /\ Live(waiting) <=> waiting # None
         /\ Live(waiting) => status[waiting] = "created"
         /\ Live(running) => running \in Tasks /\ status[running] = "refreshing"
BY DEF RefreshInv, RefreshTypeOK, TasksInvariant, Live, Started

LEMMA EnvironmentKeepsInv == ASSUME RefreshInv, Change \/ Announce PROVE RefreshInv'
<1>1. CASE Change
  BY <1>1, CountAssumption DEF Change, taskVars, callVars, RefreshInv, RefreshTypeOK,
     TasksInvariant, VersionsInvariant, CallsInvariant, CallIsSound, Started
<1>2. CASE Announce
  BY <1>2 DEF Announce, taskVars, callVars, RefreshInv, RefreshTypeOK, TasksInvariant,
     VersionsInvariant, CallsInvariant, CallIsSound, Started
<1> QED BY <1>1, <1>2

\* A call joins a task that nobody started since what it asks for.
LEMMA AwaitsKeepsCalls ==
  ASSUME RefreshInv, NEW c \in Callers, NEW t \in Tasks, NEW v \in 0..contents,
         task[c] = None, Awaits(c, t, v),
         status' \in [Tasks -> {"free", "created", "refreshing", "done"}],
         \A u \in Tasks : status[u] # "free" => status'[u] = status[u],
         status'[t] # "free", status'[t] \in Started => v =< began[t],
         began' = began
  PROVE  CallsInvariant'
<1> SUFFICES ASSUME NEW d \in Callers PROVE CallIsSound(d)'
  BY DEF CallsInvariant
<1>1. CASE d = c
  BY <1>1, NoneAssumption DEF RefreshInv, RefreshTypeOK, CallsInvariant, CallIsSound, Awaits
<1>2. CASE d # c
  BY <1>2, NoneAssumption DEF RefreshInv, RefreshTypeOK, CallsInvariant, CallIsSound, Awaits
<1> QED BY <1>1, <1>2

LEMMA WantedIsThere ==
  ASSUME RefreshInv, NEW marked \in BOOLEAN
  PROVE  Wanted(marked) \in 0..contents
BY DEF Wanted, RefreshInv, RefreshTypeOK, VersionsInvariant

LEMMA JoinWaitingKeepsInv ==
  ASSUME RefreshInv, NEW c \in Callers, NEW marked \in BOOLEAN, JoinWaiting(c, marked)
  PROVE  RefreshInv'
<1>1. waiting \in Tasks /\ status[waiting] = "created"
  BY LiveTasks DEF JoinWaiting, RefreshInv, RefreshTypeOK, Live
<1>2. CallsInvariant'
  <2> HIDE DEF RefreshInv, Awaits, CallsInvariant
  <2>1. status' = status /\ began' = began
    BY DEF JoinWaiting, taskVars
  <2> QED BY <1>1, <2>1, WantedIsThere, AwaitsKeepsCalls DEF JoinWaiting, RefreshInv,
     RefreshTypeOK, Started
<1> QED BY <1>1, <1>2, WantedIsThere DEF JoinWaiting, Awaits, taskVars, RefreshInv, RefreshTypeOK,
   TasksInvariant, VersionsInvariant, Started

LEMMA JoinRunningKeepsInv == ASSUME RefreshInv, NEW c \in Callers, JoinRunning(c) PROVE RefreshInv'
<1>1. running \in Tasks /\ status[running] = "refreshing"
  BY LiveTasks DEF JoinRunning
<1>2. announced \in 0..contents /\ announced =< began[running]
  BY <1>1, NoneAssumption DEF JoinRunning, RefreshInv, RefreshTypeOK, VersionsInvariant
<1>3. CallsInvariant'
  <2> HIDE DEF RefreshInv, Awaits, CallsInvariant
  <2>1. status' = status /\ began' = began
    BY DEF JoinRunning, taskVars
  <2> QED BY <1>1, <1>2, <2>1, AwaitsKeepsCalls DEF JoinRunning, RefreshInv, RefreshTypeOK
<1> QED BY <1>1, <1>2, <1>3 DEF JoinRunning, Awaits, taskVars, RefreshInv, RefreshTypeOK,
   TasksInvariant, VersionsInvariant, Started

LEMMA CreateKeepsInv ==
  ASSUME RefreshInv, NEW c \in Callers, NEW marked \in BOOLEAN, Create(c, marked) PROVE RefreshInv'
<1> DEFINE t == NewTask
<1>1. t \in Tasks /\ status[t] = "free"
  BY NewTaskIsUnused DEF Create
<1>2. waiting = None /\ \A u \in Tasks : status[u] # "created"
  BY LiveTasks, NoneAssumption DEF Create, RefreshInv, TasksInvariant
<1>3. /\ status' = [status EXCEPT ![t] = "created"]
      /\ previous' = [previous EXCEPT ![t] = IF Live(running) THEN running ELSE None]
      /\ waiting' = t /\ Awaits(c, t, Wanted(marked)) /\ task[c] = None
      /\ UNCHANGED <<outcome, forgotten, began, contents, announced, running, mark, leaving,
                     answer>>
  BY DEF Create, Awaits
<1> HIDE DEF t
<1>4. CallsInvariant'
  <2> HIDE DEF RefreshInv, Awaits, CallsInvariant
  <2> QED BY <1>1, <1>3, WantedIsThere, AwaitsKeepsCalls DEF RefreshInv, RefreshTypeOK, Started
<1>5. RefreshTypeOK'
  BY <1>1, <1>3, WantedIsThere DEF RefreshInv, RefreshTypeOK, Awaits, Live
<1>6. TasksInvariant'
  BY <1>1, <1>2, <1>3, NoneAssumption DEF RefreshInv, RefreshTypeOK, TasksInvariant, Live, Started
<1>7. VersionsInvariant'
  BY <1>1, <1>3 DEF RefreshInv, RefreshTypeOK, VersionsInvariant
<1> QED BY <1>4, <1>5, <1>6, <1>7 DEF RefreshInv

LEMMA StartKeepsInv == ASSUME RefreshInv, NEW t \in Tasks, Start(t) PROVE RefreshInv'
<1>1. waiting = t /\ \A u \in Tasks : status[u] # "refreshing"
  BY NoneAssumption DEF Start, RefreshInv, RefreshTypeOK, TasksInvariant, Live
<1>2. RefreshTypeOK'
  BY DEF Start, callVars, RefreshInv, RefreshTypeOK
<1>3. TasksInvariant'
  BY <1>1, NoneAssumption DEF Start, callVars, RefreshInv, RefreshTypeOK, TasksInvariant, Started
<1>4. VersionsInvariant'
  BY DEF Start, callVars, RefreshInv, RefreshTypeOK, VersionsInvariant
<1>5. CallsInvariant'
  <2> SUFFICES ASSUME NEW c \in Callers PROVE CallIsSound(c)'
    BY DEF CallsInvariant
  <2> QED BY NoneAssumption DEF Start, callVars, RefreshInv, RefreshTypeOK, CallsInvariant,
     CallIsSound, Started
<1> QED BY <1>2, <1>3, <1>4, <1>5 DEF RefreshInv

LEMMA FinishKeepsInv == ASSUME RefreshInv, NEW t \in Tasks, Finish(t) PROVE RefreshInv'
<1>1. RefreshTypeOK'
  BY DEF Finish, callVars, RefreshInv, RefreshTypeOK
<1>2. TasksInvariant'
  BY DEF Finish, callVars, RefreshInv, RefreshTypeOK, TasksInvariant, Started
<1>3. VersionsInvariant'
  BY DEF Finish, callVars, RefreshInv, RefreshTypeOK, VersionsInvariant
<1>4. CallsInvariant'
  BY NoneAssumption DEF Finish, callVars, RefreshInv, RefreshTypeOK, CallsInvariant, CallIsSound,
     Started
<1> QED BY <1>1, <1>2, <1>3, <1>4 DEF RefreshInv

LEMMA ForgetKeepsInv == ASSUME RefreshInv, NEW t \in Tasks, Forget(t) PROVE RefreshInv'
BY NoneAssumption DEF Forget, callVars, RefreshInv, RefreshTypeOK, TasksInvariant,
   VersionsInvariant, CallsInvariant, CallIsSound, Started

\* What a call returns was read after what it asked for.
LEMMA ReturnsFresh ==
  ASSUME RefreshInv, NEW c \in Callers, Return(c)
  PROVE  /\ asked[c] \in Nat /\ answer[c] = None
         /\ outcome[task[c]] \in asked[c]..contents \cup {Failed}
         /\ answer' = [answer EXCEPT ![c] = outcome[task[c]]]
<1>1. task[c] \in Tasks /\ status[task[c]] = "done"
  BY DEF Return, Live, RefreshInv, RefreshTypeOK
<1> QED BY <1>1, NoneAssumption DEF Return, RefreshInv, RefreshTypeOK, VersionsInvariant,
   CallsInvariant, CallIsSound, Started

LEMMA ReturnKeepsInv == ASSUME RefreshInv, NEW c \in Callers, Return(c) PROVE RefreshInv'
<1>1. RefreshTypeOK'
  BY ReturnsFresh DEF Return, taskVars, RefreshInv, RefreshTypeOK
<1>2. CallsInvariant'
  <2> SUFFICES ASSUME NEW d \in Callers PROVE CallIsSound(d)'
    BY DEF CallsInvariant
  <2> QED BY ReturnsFresh, NoneAssumption DEF Return, taskVars, RefreshInv, RefreshTypeOK,
     CallsInvariant, CallIsSound, Started
<1> QED BY <1>1, <1>2 DEF Return, taskVars, RefreshInv, TasksInvariant, VersionsInvariant

LEMMA CancelKeepsInv == ASSUME RefreshInv, NEW c \in Callers, Cancel(c) PROVE RefreshInv'
BY DEF Cancel, taskVars, RefreshInv, RefreshTypeOK, TasksInvariant, VersionsInvariant,
   CallsInvariant, CallIsSound, Started

LEMMA RefreshNextKeepsInv == ASSUME RefreshInv, [RefreshNext]_refreshVars PROVE RefreshInv'
<1>1. CASE Change \/ Announce
  BY <1>1, EnvironmentKeepsInv
<1>2. ASSUME NEW c \in Callers, Call(c) PROVE RefreshInv'
  BY <1>2, JoinWaitingKeepsInv, CreateKeepsInv, JoinRunningKeepsInv DEF Call
<1>3. ASSUME NEW c \in Callers, Return(c) \/ Cancel(c) PROVE RefreshInv'
  BY <1>3, ReturnKeepsInv, CancelKeepsInv
<1>4. ASSUME NEW t \in Tasks, Start(t) \/ Finish(t) \/ Forget(t) PROVE RefreshInv'
  BY <1>4, StartKeepsInv, FinishKeepsInv, ForgetKeepsInv
<1>5. CASE UNCHANGED refreshVars
  BY <1>5 DEF refreshVars, taskVars, callVars, RefreshInv, RefreshTypeOK, TasksInvariant,
     VersionsInvariant, CallsInvariant, CallIsSound, Started
<1> QED BY <1>1, <1>2, <1>3, <1>4, <1>5 DEF RefreshNext

-----------------------------------------------------------------------------
(* The inductive invariant: who waits, who runs, and how old what they saw *)
(* may be (_start, _forget, run).                                          *)
THEOREM RefreshInvariant == RefreshSpec => []RefreshInv
BY RefreshInitInv, RefreshNextKeepsInv, PTL DEF RefreshSpec

(* The variables keep their types; at any time a call has asked for what   *)
(* some caller could name.                                                 *)
THEOREM RefreshTypesCorrect == RefreshSpec => []RefreshTypeOK
<1>1. RefreshInv => RefreshTypeOK
  BY DEF RefreshInv
<1> QED BY <1>1, RefreshInvariant, PTL

(* However many callers come, at most one run refreshes and at most one    *)
(* more waits behind it.                                                   *)
THEOREM OneRunsAndOneWaits == RefreshSpec => []RefreshesDoNotPileUp
<1>1. RefreshInv => RefreshesDoNotPileUp
  BY DEF RefreshInv, TasksInvariant, RefreshesDoNotPileUp
<1> QED BY <1>1, RefreshInvariant, PTL

(* The version a caller is given is no older than what it asked for.       *)
THEOREM CallersSeeFreshState == RefreshSpec => []AnswersAreFresh
<1>1. RefreshInv => AnswersAreFresh
  BY NoneAssumption DEF RefreshInv, RefreshTypeOK, CallsInvariant, CallIsSound, AnswersAreFresh
<1> QED BY <1>1, RefreshInvariant, PTL

\* Every step is one of the promise's, or none.
LEMMA StepRefines == ASSUME RefreshInv, [RefreshNext]_refreshVars PROVE [Reads!Next]_(Reads!vars)
<1> USE DEF Reads!Next, Reads!vars
<1>1. CASE Change
  BY <1>1 DEF Change, callVars, Reads!Change
<1>2. CASE Announce
  BY <1>2 DEF Announce, callVars
<1>3. ASSUME NEW c \in Callers, Call(c) PROVE [Reads!Next]_(Reads!vars)
  <2>1. asked[c] = None
    BY <1>3 DEF Call, JoinWaiting, JoinRunning, Create, RefreshInv, CallsInvariant, CallIsSound
  <2>2. announced \in 0..contents /\ contents \in 0..contents
    BY DEF RefreshInv, RefreshTypeOK, VersionsInvariant
  <2>3. \E v \in 0..contents : /\ asked' = [asked EXCEPT ![c] = v]
                               /\ UNCHANGED <<contents, answer>>
    BY <1>3, <2>2 DEF Call, JoinWaiting, JoinRunning, Create, Awaits, Wanted
  <2> QED BY <2>1, <2>3 DEF Reads!Ask
<1>4. ASSUME NEW c \in Callers, Return(c) PROVE [Reads!Next]_(Reads!vars)
  <2>1. asked[c] # None /\ answer[c] = None
    BY <1>4, ReturnsFresh, NoneAssumption
  <2>2. \E v \in asked[c]..contents \cup {Failed} : answer' = [answer EXCEPT ![c] = v]
    BY <1>4, ReturnsFresh
  <2>3. UNCHANGED <<contents, asked>>
    BY <1>4 DEF Return
  <2> QED BY <2>1, <2>2, <2>3 DEF Reads!Answer
<1>5. ASSUME NEW c \in Callers, Cancel(c) PROVE [Reads!Next]_(Reads!vars)
  BY <1>5 DEF Cancel
<1>6. ASSUME NEW t \in Tasks, Start(t) \/ Finish(t) \/ Forget(t)
      PROVE  [Reads!Next]_(Reads!vars)
  BY <1>6 DEF Start, Finish, Forget, callVars
<1>7. CASE UNCHANGED refreshVars
  BY <1>7 DEF refreshVars, callVars
<1> QED BY <1>1, <1>2, <1>3, <1>4, <1>5, <1>6, <1>7 DEF RefreshNext

(* Each call for itself is an atomic read, at a moment after it asked.     *)
THEOREM ImplementsFreshRead == RefreshSpec => EachCallReadsAfterItAsked
<1>1. RefreshInit => Reads!Init
  BY DEF RefreshInit, Reads!Init
<1> QED BY <1>1, RefreshInvariant, StepRefines, PTL DEF RefreshSpec, EachCallReadsAfterItAsked,
   Reads!Spec
=============================================================================
