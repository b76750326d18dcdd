----------------------------- MODULE RunManager -----------------------------
(***************************************************************************)
(* core/runs: ChatRunManager (one Run per Session, the FIFO Queue behind   *)
(* it, steering, cancellation, waiting-work limits, shutdown), together    *)
(* with the durable side of ordinary input: the receipts of                *)
(* sessions/_store_accessor_inputs.py, the Run rows of                     *)
(* sessions/_store_runs.py and the mutations of chat/_accessor_inputs.py.  *)
(*                                                                         *)
(* An element of Inputs is one accepted request, its QueuedRunItem and the *)
(* Run started for it.  One asyncio event loop runs the code, so an action *)
(* is the code between two awaits; a database call is one await, and its   *)
(* commit and the code that resumes after it are one action, since a crash *)
(* between the two leaves what a crash after both leaves.  Whoever awaits  *)
(* inside the manager's lock holds the variable lock meanwhile.            *)
(***************************************************************************)
EXTENDS Integers, FiniteSets, SequencesExt

CONSTANTS
  Inputs, Sessions,
  SessionOf,      \* the Session each input is for
  Durable,        \* inputs with an Accessor receipt (accessor_input_id)
  Steerable,      \* QueuedRunItem.steerable
  Selected,       \* inputs enqueued with steering set (Session messages)
  Editable,       \* QueuedRunItem.editable
  Removable,      \* inputs their user may remove from the Queue
  Abandonable,    \* transient inputs whose waiter may be cancelled
  Refusable,      \* inputs whose admission or start may be refused when drained
  WaitingLimit,   \* DEFAULT_WAITING_WORK_LIMIT
  ScopeLimit,     \* scope_limit of the one reserving scope
  Faults,         \* database calls that may fail
  Endings,        \* how an executor that was not cancelled may end
  MaxCrashes,     \* bound: process deaths in one behaviour
  None

ASSUME InputAssumption ==
  /\ IsFiniteSet(Inputs)
  /\ SessionOf \in [Inputs -> Sessions]
  /\ Durable \subseteq Inputs /\ Steerable \subseteq Inputs /\ Selected \subseteq Steerable
  /\ Editable \subseteq Inputs /\ Removable \subseteq Inputs /\ Refusable \subseteq Inputs
  /\ Abandonable \subseteq Inputs \ Durable
  /\ Endings \subseteq {"completed", "failed", "interrupted"}
  /\ None \notin Inputs \cup Sessions

ASSUME LimitAssumption ==
  /\ WaitingLimit \in Nat \ {0} /\ ScopeLimit \in Nat \ {0} /\ MaxCrashes \in Nat

VARIABLES
  up, crashes,    \* the process is alive; how often it died
  closed,         \* _closed
  lock,           \* who holds _lock across an await, and for what
  queue,          \* _queues
  active,         \* _active_by_session
  reserved,       \* _waiting_work_admissions, by the input that will use each
  scoped,         \* inputs that came through a reservation
  call,           \* the producer's call: unsent, sent, or awaiting admission
  future,         \* QueuedRunItem.future
  steering, inflight, withdrawn,  \* the item's flags
  phase,          \* where _execute is
  verdict,        \* the outcome _execute has settled on; Run.status from mark_* on
  cancelRequested,
  walk,           \* the rest of the selection deliver_steering walks
  append,         \* the item it is appending
  receipt,        \* durable: state of session_accessor_inputs
  wantsSteering,  \* durable: payload "steering"
  row,            \* durable: runs.status
  carried,        \* durable: User messages in History for the input
  edited,         \* the live item has the edited content
  rewritten,      \* durable: the receipt's payload has it
  arrivals,       \* order of acceptance; for durable inputs, of input_key
  entered         \* how often the input's executor was entered

itemVars == <<future, steering, inflight, withdrawn>>
runVars == <<phase, verdict, cancelRequested, walk, append, entered>>
ticketVars == <<reserved, scoped>>
storeVars == <<receipt, wantsSteering, row, carried>>
editVars == <<edited, rewritten>>
processVars == <<up, crashes, closed>>
vars == <<processVars, lock, queue, active, ticketVars, call, itemVars, runVars, storeVars,
          editVars, arrivals>>

-----------------------------------------------------------------------------
Outcomes == {"completed", "failed", "interrupted", "cancelled"}
Free == [use |-> "idle", item |-> None, session |-> None, rest |-> <<>>]
Holds(use, i, rest) == [use |-> use, item |-> i, session |-> SessionOf[i], rest |-> rest]

Queued(i) == i \in ToSet(queue[SessionOf[i]])
FutureDone(i) == future[i] \notin {"none", "pending"}
Running(i) == phase[i] \notin {"none", "releasing", "over"}
SessionBusy(s) == active[s] # None /\ Running(active[s])
\* Mutated form: a Run past its terminal event no longer blocks.
IdleIgnoringQueue(s) == ~SessionBusy(s)
\* A waiting Queue is a barrier even after its Run ended.
Idle(s) == ~SessionBusy(s) /\ queue[s] = <<>>
\* Mutated form: enqueue does not take the lock.
AdmitsUnlocked == up /\ ~closed
Admits == up /\ ~closed /\ lock = Free
\* Mutated form: drain trusts the abandoned item's callback to have run.
AbandonedAssumedGone(i) == FALSE
\* The guard in drain and deliver_steering: nobody waits for a transient item.
Abandoned(i) == i \notin Durable /\ FutureDone(i)
\* The items of q that are in S, in their order: SelectSeq, with a set for the
\* test and written as a function, which a proof can open.
Kept(q, S) ==
  LET kept[n \in 0..Len(q)] ==
        IF n = 0 THEN <<>>
        ELSE IF q[n] \in S THEN Append(kept[n - 1], q[n]) ELSE kept[n - 1]
  IN  kept[Len(q)]
\* The place of the first item of q that is in S, past the end if none is.
FirstIn(q, S) ==
  CHOOSE n \in 1..(Len(q) + 1) :
    (\A m \in 1..(n - 1) : q[m] \notin S) /\ (n =< Len(q) => q[n] \in S)
Before(q, i, j) == \E m, n \in 1..Len(q) : m < n /\ q[m] = i /\ q[n] = j
Without(q, gone) == Kept(q, Inputs \ gone)
\* The stable sort of _drain_next_locked.
SteeringFirst(q, flag) == Kept(q, {i \in Inputs : flag[i]}) \o Kept(q, {i \in Inputs : ~flag[i]})

\* The item a durable acceptance holds a waiting slot for.
Accepting == IF lock.use = "accept_queue" THEN {lock.item} ELSE {}
WaitingInputs == reserved \cup Accepting \cup UNION {ToSet(queue[s]) : s \in Sessions}
WaitingWork == Cardinality(WaitingInputs)

Init ==
  /\ up = TRUE /\ crashes = 0 /\ closed = FALSE /\ lock = Free
  /\ queue = [s \in Sessions |-> <<>>] /\ active = [s \in Sessions |-> None]
  /\ reserved = {} /\ scoped = {}
  /\ call = [i \in Inputs |-> "unsent"] /\ future = [i \in Inputs |-> "none"]
  /\ steering = [i \in Inputs |-> FALSE] /\ inflight = [i \in Inputs |-> FALSE]
  /\ withdrawn = [i \in Inputs |-> FALSE]
  /\ phase = [i \in Inputs |-> "none"] /\ verdict = [i \in Inputs |-> "completed"]
  /\ cancelRequested = [i \in Inputs |-> FALSE]
  /\ walk = [i \in Inputs |-> <<>>] /\ append = [i \in Inputs |-> None]
  /\ receipt = [i \in Inputs |-> "none"] /\ wantsSteering = [i \in Inputs |-> FALSE]
  /\ row = [i \in Inputs |-> "none"] /\ carried = [i \in Inputs |-> 0]
  /\ edited = [i \in Inputs |-> FALSE] /\ rewritten = [i \in Inputs |-> FALSE]
  /\ arrivals = <<>> /\ entered = [i \in Inputs |-> 0]

-----------------------------------------------------------------------------
(* Producers *)

\* reserve_waiting_work, called by ingress before it downloads anything.
ReserveWaitingWork(i) ==
  /\ up /\ ~closed /\ i \notin Durable /\ call[i] = "unsent" /\ i \notin reserved
  /\ WaitingWork < WaitingLimit
  /\ Cardinality(scoped \cap WaitingInputs) < ScopeLimit
  /\ reserved' = reserved \cup {i} /\ scoped' = scoped \cup {i}
  /\ UNCHANGED <<processVars, editVars, lock, queue, active, call, itemVars, runVars,
                 storeVars, arrivals>>

\* release_waiting_work: ingress ends without a Run.
ReleaseWaitingWork(i) ==
  /\ up /\ i \in reserved
  /\ reserved' = reserved \ {i} /\ call' = [call EXCEPT ![i] = "sent"]
  /\ UNCHANGED <<processVars, editVars, lock, queue, active, scoped, itemVars, runVars,
                 storeVars, arrivals>>

Consumes(i) == reserved' = reserved \ {i}
\* A reservation is used up by enqueue; a call without one needs a free slot.
HasSlot(i) == i \in reserved \/ WaitingWork < WaitingLimit

\* Installation of a Run: _start_run_locked and the item's future.
Installed(i) == phase[i] = "none" /\ phase' = [phase EXCEPT ![i] = "admitting"]

\* enqueue with an idle Session, and no receipt to write.
EnqueueStarts(i) ==
  /\ Admits /\ call[i] = "unsent" /\ i \notin Durable
  /\ Idle(SessionOf[i])
  /\ call' = [call EXCEPT ![i] = "sent"] /\ future' = [future EXCEPT ![i] = "run"]
  /\ active' = [active EXCEPT ![SessionOf[i]] = i] /\ Installed(i)
  /\ Consumes(i) /\ arrivals' = Append(arrivals, i)
  /\ steering' = [steering EXCEPT ![i] = i \in Selected]
  /\ UNCHANGED <<processVars, editVars, lock, queue, scoped, inflight, withdrawn, verdict,
                 cancelRequested, walk, append, entered, storeVars>>

\* enqueue with a busy Session, and no receipt to write.
EnqueueWaits(i) ==
  /\ Admits /\ call[i] = "unsent" /\ i \notin Durable
  /\ ~Idle(SessionOf[i]) /\ HasSlot(i)
  /\ call' = [call EXCEPT ![i] = "sent"] /\ future' = [future EXCEPT ![i] = "pending"]
  /\ queue' = [queue EXCEPT ![SessionOf[i]] = Append(@, i)]
  /\ Consumes(i) /\ arrivals' = Append(arrivals, i)
  /\ steering' = [steering EXCEPT ![i] = i \in Selected]
  /\ UNCHANGED <<processVars, editVars, lock, active, scoped, inflight, withdrawn, runVars,
                 storeVars>>

\* enqueue up to persist_input: the path is chosen, the lock kept.
AcceptBegins(i) ==
  /\ Admits /\ call[i] = "unsent" /\ i \in Durable
  /\ \A j \in Inputs : call[j] # "awaiting"        \* ChatAccessorInputs._lock
  /\ Idle(SessionOf[i]) \/ WaitingWork < WaitingLimit
  /\ lock' = Holds(IF Idle(SessionOf[i]) THEN "accept_start" ELSE "accept_queue", i, <<>>)
  /\ call' = [call EXCEPT ![i] = "sent"] /\ future' = [future EXCEPT ![i] = "pending"]
  /\ UNCHANGED <<processVars, editVars, queue, active, ticketVars, steering, inflight,
                 withdrawn, runVars, storeVars, arrivals>>

\* accept commits the receipt, then enqueue installs the Run or the item.
Accepts(i) ==
  /\ receipt' = [receipt EXCEPT ![i] = "queued"] /\ arrivals' = Append(arrivals, i)
  /\ wantsSteering' = [wantsSteering EXCEPT ![i] = i \in Selected]
  /\ steering' = [steering EXCEPT ![i] = i \in Selected]
  /\ lock' = Free
  /\ UNCHANGED <<processVars, editVars, ticketVars, inflight, withdrawn, verdict,
                 cancelRequested, walk, append, entered, row, carried>>

AcceptStarts(i) ==
  /\ up /\ lock.use = "accept_start" /\ lock.item = i
  /\ Accepts(i)
  /\ active' = [active EXCEPT ![SessionOf[i]] = i] /\ Installed(i)
  /\ future' = [future EXCEPT ![i] = "run"] /\ call' = [call EXCEPT ![i] = "awaiting"]
  /\ UNCHANGED queue

AcceptWaits(i) ==
  /\ up /\ lock.use = "accept_queue" /\ lock.item = i
  /\ Accepts(i)
  /\ queue' = [queue EXCEPT ![SessionOf[i]] = Append(@, i)]
  /\ UNCHANGED <<active, phase, future, call>>

\* _submit resumes from wait_admitted; a Run that ended before its admission
\* takes its receipt along.
SubmitReturns(i) ==
  /\ up /\ call[i] = "awaiting"
  /\ row[i] # "none" \/ phase[i] \in {"releasing", "over"}
  /\ call' = [call EXCEPT ![i] = "sent"]
  /\ receipt' = [receipt EXCEPT ![i] = IF row[i] = "none" /\ @ = "queued" THEN "removed" ELSE @]
  /\ UNCHANGED <<processVars, editVars, lock, queue, active, ticketVars, itemVars, runVars,
                 wantsSteering, row, carried, arrivals>>

\* Cancelling the task that awaits a transient item's bare Future ...
AbandonWaiter(i) ==
  /\ up /\ i \in Abandonable /\ future[i] = "pending"
  /\ future' = [future EXCEPT ![i] = "abandoned"]
  /\ UNCHANGED <<processVars, editVars, lock, queue, active, ticketVars, call, steering,
                 inflight, withdrawn, runVars, storeVars, arrivals>>

\* ... runs remove_abandoned_item in a later turn of the event loop.
RemoveAbandoned(i) ==
  /\ up /\ future[i] = "abandoned"
  /\ future' = [future EXCEPT ![i] = "cancelled"]
  /\ queue' = IF inflight[i] THEN queue
              ELSE [queue EXCEPT ![SessionOf[i]] = Without(@, {i})]
  /\ UNCHANGED <<processVars, editVars, lock, active, ticketVars, call, steering, inflight,
                 withdrawn, runVars, storeVars, arrivals>>

-----------------------------------------------------------------------------
(* The Queue drain *)

\* _drain_next_locked from its loop on, over the rest q of Session s's Queue:
\* abandoned items and refused transient ones are passed over; the next item
\* starts, or is a refused durable one whose receipt must be removed first.
Drain(s, q, refused) ==
  LET passed == {i \in Inputs : Abandoned(i) \/ (i \in refused /\ i \notin Durable)}
      k == FirstIn(q, Inputs \ passed)
      failed == {q[m] : m \in 1..(k - 1)}
      starts == k =< Len(q) /\ q[k] \notin refused
      fails(i) == i \in failed /\ ~FutureDone(i)
      resolves(i) == starts /\ i = q[k] /\ ~FutureDone(i)
  IN  /\ queue' = [queue EXCEPT ![s] = SubSeq(q, k + 1, Len(q))]
      /\ future' = [i \in Inputs |->
                      CASE fails(i) -> "failed" [] resolves(i) -> "run" [] OTHER -> future[i]]
      /\ lock' = IF k =< Len(q) /\ ~starts THEN Holds("drain", q[k], <<>>) ELSE Free
      /\ active' = [active EXCEPT ![s] = IF starts THEN q[k] ELSE None]
      /\ phase' = [i \in Inputs |->
                     IF starts /\ i = q[k] THEN "admitting"
                     ELSE IF phase[i] = "releasing" /\ active[s] = i THEN "over" ELSE phase[i]]

\* The tail of _execute: the lock, the Session's release, the drain.
Release(i) ==
  LET s == SessionOf[i] IN
  /\ up /\ lock = Free /\ phase[i] = "releasing" /\ active[s] = i
  /\ IF closed
     THEN /\ active' = [active EXCEPT ![s] = None] /\ phase' = [phase EXCEPT ![i] = "over"]
          /\ queue' = [queue EXCEPT ![s] = <<>>]
          /\ future' = [j \in Inputs |-> IF j \in ToSet(queue[s]) /\ ~FutureDone(j)
                                         THEN "cancelled" ELSE future[j]]
          /\ UNCHANGED lock
     ELSE \E refused \in SUBSET Refusable : Drain(s, SteeringFirst(queue[s], steering), refused)
  /\ UNCHANGED <<processVars, editVars, ticketVars, call, steering, inflight, withdrawn,
                 verdict, cancelRequested, walk, append, entered, storeVars, arrivals>>

\* Mutated form: the drain ends at the refused item.
DrainStops(i) ==
  /\ up /\ lock.use = "drain" /\ lock.item = i
  /\ receipt' = [receipt EXCEPT ![i] = IF @ = "queued" THEN "removed" ELSE @]
  /\ future' = [future EXCEPT ![i] = "failed"] /\ lock' = Free
  /\ UNCHANGED <<processVars, editVars, queue, active, ticketVars, call, steering, inflight,
                 withdrawn, runVars, wantsSteering, row, carried, arrivals>>
\* The refused item's receipt is removed, its owner told, and the drain goes on.
DrainGoesOn(i) ==
  LET s == SessionOf[i] IN
  /\ up /\ lock.use = "drain" /\ lock.item = i
  /\ receipt' = [receipt EXCEPT ![i] = IF @ = "queued" THEN "removed" ELSE @]
  /\ \E refused \in SUBSET Refusable : Drain(s, queue[s], refused)
  /\ UNCHANGED <<processVars, editVars, ticketVars, call, steering, inflight, withdrawn,
                 verdict, cancelRequested, walk, append, entered, wantsSteering, row, carried,
                 arrivals>>

-----------------------------------------------------------------------------
(* Queue mutations: queued_input_mutation and clear_queued_many *)

\* Mutated form: an item whose append is in flight is left alone.
WithdrawsAtRest(s, gone, flag) ==
  LET leaving == {i \in gone : Queued(i) /\ ~inflight[i]} IN
  /\ queue' = [queue EXCEPT ![s] = Without(@, leaving)]
  /\ future' = [i \in Inputs |-> IF i \in leaving /\ ~FutureDone(i) THEN "cancelled" ELSE future[i]]
  /\ UNCHANGED withdrawn
\* What withdrawing the items gone does in memory: remove_queued for those
\* that can leave, withdrawn for those whose append is in flight.
Withdraws(s, gone, flag) ==
  LET leaving == {i \in gone : Queued(i) /\ ~inflight[i]} IN
  /\ queue' = [queue EXCEPT ![s] = Without(@, leaving)]
  /\ future' = [i \in Inputs |-> IF i \in leaving /\ ~FutureDone(i) THEN "cancelled" ELSE future[i]]
  /\ withdrawn' = [i \in Inputs |-> withdrawn[i] \/ (flag /\ i \in gone /\ inflight[i])]

\* Mutated form: the live Queue changes before the receipt does.
RemoveBeginsInMemory(i) ==
  /\ up /\ lock = Free /\ i \in Removable /\ Queued(i) /\ ~inflight[i]
  /\ Withdraws(SessionOf[i], {i}, FALSE)
  /\ lock' = IF i \in Durable THEN Holds("remove", i, <<>>) ELSE lock
  /\ UNCHANGED <<processVars, editVars, active, ticketVars, call, steering, inflight, runVars,
                 storeVars, arrivals>>
\* ChatAccessorInputs.remove
RemoveBegins(i) ==
  /\ up /\ lock = Free /\ i \in Removable /\ Queued(i) /\ ~inflight[i]
  /\ IF i \in Durable
     THEN lock' = Holds("remove", i, <<>>) /\ UNCHANGED <<queue, future, withdrawn>>
     ELSE Withdraws(SessionOf[i], {i}, FALSE) /\ UNCHANGED lock
  /\ UNCHANGED <<processVars, editVars, active, ticketVars, call, steering, inflight, runVars,
                 storeVars, arrivals>>

Removes(i) ==
  /\ up /\ lock.use = "remove" /\ lock.item = i
  /\ receipt' = [receipt EXCEPT ![i] = IF @ = "queued" THEN "removed" ELSE @]
  /\ Withdraws(SessionOf[i], {i}, FALSE)
  /\ lock' = Free
  /\ UNCHANGED <<processVars, editVars, active, ticketVars, call, steering, inflight, runVars,
                 wantsSteering, row, carried, arrivals>>

\* ChatAccessorInputs.update, behind the lock it takes; an input is edited once.
EditBegins(i) ==
  /\ up /\ lock = Free /\ i \in Editable /\ Queued(i) /\ ~steering[i] /\ ~edited[i]
  /\ IF i \in Durable
     THEN lock' = Holds("edit", i, <<>>) /\ UNCHANGED edited
     ELSE edited' = [edited EXCEPT ![i] = TRUE] /\ UNCHANGED lock
  /\ UNCHANGED <<processVars, rewritten, queue, active, ticketVars, call, itemVars, runVars,
                 storeVars, arrivals>>

Edits(i) ==
  /\ up /\ lock.use = "edit" /\ lock.item = i
  /\ IF receipt[i] = "queued"
     THEN /\ rewritten' = [rewritten EXCEPT ![i] = TRUE]
          /\ edited' = [edited EXCEPT ![i] = @ \/ (Queued(i) /\ ~steering[i])]
     ELSE UNCHANGED editVars
  /\ lock' = Free
  /\ UNCHANGED <<processVars, queue, active, ticketVars, call, itemVars, runVars, storeVars,
                 arrivals>>

\* ChatAccessorInputs.steer
SteerBegins(i) ==
  /\ up /\ lock = Free /\ i \in Steerable /\ Queued(i) /\ ~steering[i]
  /\ IF i \in Durable
     THEN lock' = Holds("steer", i, <<>>) /\ UNCHANGED steering
     ELSE steering' = [steering EXCEPT ![i] = TRUE] /\ UNCHANGED lock
  /\ UNCHANGED <<processVars, editVars, queue, active, ticketVars, call, future, inflight,
                 withdrawn, runVars, storeVars, arrivals>>

Steers(i) ==
  /\ up /\ lock.use = "steer" /\ lock.item = i
  /\ IF receipt[i] = "queued"
     THEN /\ wantsSteering' = [wantsSteering EXCEPT ![i] = TRUE]
          /\ steering' = [steering EXCEPT ![i] = @ \/ Queued(i)]
     ELSE UNCHANGED <<wantsSteering, steering>>
  /\ lock' = Free
  /\ UNCHANGED <<processVars, editVars, queue, active, ticketVars, call, future, inflight,
                 withdrawn, runVars, receipt, row, carried, arrivals>>

\* clear_queued_many works through a snapshot and awaits at each durable item:
\* the items before the first of those need no await.
ClearsUpTo(s, gone, rest) ==
  LET k == FirstIn(rest, Durable)
      left == SubSeq(rest, k + 1, Len(rest))
  IN  /\ Withdraws(s, gone \cup {rest[m] : m \in 1..(k - 1)}, TRUE)
      /\ lock' = IF k =< Len(rest) THEN Holds("clear", rest[k], left) ELSE Free

ClearBegins(s) ==
  /\ up /\ lock = Free /\ queue[s] # <<>>
  /\ ClearsUpTo(s, {}, queue[s])
  /\ UNCHANGED <<processVars, editVars, active, ticketVars, call, steering, inflight, runVars,
                 storeVars, arrivals>>

ClearGoesOn(i) ==
  /\ up /\ lock.use = "clear" /\ lock.item = i
  /\ receipt' = [receipt EXCEPT ![i] = IF @ = "queued" THEN "removed" ELSE @]
  /\ ClearsUpTo(SessionOf[i], {i}, lock.rest)
  /\ UNCHANGED <<processVars, editVars, active, ticketVars, call, steering, inflight, runVars,
                 wantsSteering, row, carried, arrivals>>

\* The database call awaited under the lock fails: the exception passes
\* through the lock, and nothing the code would have done after it happens.
LockedCallFails ==
  /\ up /\ lock.use # "idle" /\ lock.use \in Faults
  /\ lock' = Free
  /\ UNCHANGED <<processVars, editVars, queue, active, ticketVars, call, itemVars, runVars,
                 storeVars, arrivals>>

-----------------------------------------------------------------------------
(* Run.deliver_steering *)

\* From a resumption on: end the delivery, honour a cancellation, or begin
\* the next append.  gone are the items this segment took from the Queue.
\* An item that left the Queue, or whose transient waiter went, is skipped.
Delivers(r, rest, gone) ==
  LET left == Kept(rest, {i \in Inputs \ gone : Queued(i) /\ ~Abandoned(i)})
      ends == left = <<>> \/ cancelRequested[r]
  IN  /\ walk' = [walk EXCEPT ![r] = IF ends THEN <<>> ELSE Tail(left)]
      /\ append' = [append EXCEPT ![r] = IF ends THEN None ELSE Head(left)]
      /\ inflight' = [i \in Inputs |->
                        IF i \in gone THEN FALSE
                        ELSE inflight[i] \/ (~ends /\ i = Head(left))]
      /\ phase' = [phase EXCEPT ![r] = IF left # <<>> /\ cancelRequested[r] THEN "cleanup" ELSE @]

\* A safe Model-request boundary: the selection is pending_steering's snapshot.
Boundary(r) ==
  LET s == SessionOf[r]
      selected == {i \in Inputs : steering[i] /\ (i \in Durable \/ future[i] \notin {"abandoned", "cancelled"})}
      snapshot == Kept(queue[s], selected)
  IN  /\ up /\ phase[r] = "executing" /\ append[r] = None /\ carried[r] > 0
      /\ ~cancelRequested[r] /\ snapshot # <<>>
      /\ Delivers(r, snapshot, {})
      /\ UNCHANGED <<processVars, editVars, lock, queue, active, ticketVars, call, future,
                     steering, withdrawn, verdict, cancelRequested, entered, storeVars,
                     arrivals>>

\* Mutated form: the append does not check the receipt.
SteerClaimUnchecked(r, i) == receipt' = [receipt EXCEPT ![i] = IF i \in Durable THEN "steered" ELSE @]
\* prepare_steering and commit_steering: only a queued receipt joins a running Run.
SteerClaim(r, i) ==
  /\ i \in Durable => receipt[i] = "queued" /\ row[r] = "running"
  /\ receipt' = [receipt EXCEPT ![i] = IF i \in Durable THEN "steered" ELSE @]

\* The append and, for a durable item, its receipt's "steered" commit; Chat's
\* boundary absorbs a cancellation from there on, and the item leaves the Queue.
AppendCommits(r) ==
  LET i == append[r]
      s == SessionOf[r]
  IN  /\ up /\ i \in Inputs
      /\ SteerClaim(r, i)
      /\ carried' = [carried EXCEPT ![i] = @ + 1]
      /\ queue' = [queue EXCEPT ![s] = Without(@, {i})]
      /\ future' = [future EXCEPT ![i] = IF FutureDone(i) THEN @ ELSE "steered"]
      /\ Delivers(r, walk[r], {i})
      /\ UNCHANGED <<processVars, editVars, lock, active, ticketVars, call, steering,
                     withdrawn, verdict, cancelRequested, entered, wantsSteering, row, arrivals>>

\* The append fails, finds its receipt gone, or is cancelled before Chat's
\* protected boundary: the item keeps its place unless it was withdrawn, and
\* the exception ends the executor.
AppendFails(r) ==
  LET i == append[r]
      s == SessionOf[r]
  IN  /\ up /\ i # None
      /\ \/ "append" \in Faults \/ cancelRequested[r]
         \/ i \in Durable /\ receipt[i] # "queued"
      /\ queue' = IF withdrawn[i] THEN [queue EXCEPT ![s] = Without(@, {i})] ELSE queue
      /\ future' = [future EXCEPT ![i] = IF withdrawn[i] /\ ~FutureDone(i) THEN "cancelled" ELSE @]
      /\ inflight' = [inflight EXCEPT ![i] = FALSE]
      /\ append' = [append EXCEPT ![r] = None] /\ walk' = [walk EXCEPT ![r] = <<>>]
      /\ phase' = [phase EXCEPT ![r] = IF cancelRequested[r] THEN "cleanup" ELSE "closing"]
      /\ verdict' = [verdict EXCEPT ![r] = IF cancelRequested[r] THEN "cancelled" ELSE "failed"]
      /\ UNCHANGED <<processVars, editVars, lock, active, ticketVars, call, steering,
                     withdrawn, cancelRequested, entered, storeVars, arrivals>>

-----------------------------------------------------------------------------
(* ChatRunManager._execute *)

\* Mutated form: the step's own code swallows the cancellation.
EndsUncancelled(r, how) ==
  /\ phase' = [phase EXCEPT ![r] = IF cancelRequested[r] THEN @ ELSE "closing"]
  /\ verdict' = [verdict EXCEPT ![r] = how]
\* A failed or finished step of _execute: cancellation wins, and cleans up.
Ends(r, how) ==
  /\ phase' = [phase EXCEPT ![r] = IF cancelRequested[r] THEN "cleanup" ELSE "closing"]
  /\ verdict' = [verdict EXCEPT ![r] = IF cancelRequested[r] THEN "cancelled" ELSE how]

\* Mutated form: the receipt stays queued while its Run executes.
ClaimLater(r) == UNCHANGED receipt
\* claim: only a queued receipt starts a Run.
Claim(r) ==
  /\ r \in Durable => receipt[r] = "queued"
  /\ receipt' = [receipt EXCEPT ![r] = IF r \in Durable THEN "started" ELSE @]

\* start_run: the receipt's claim and the Run row are one transaction.
AdmitCommits(r) ==
  /\ up /\ phase[r] = "admitting"
  /\ Claim(r)
  /\ row' = [row EXCEPT ![r] = "running"]
  /\ IF cancelRequested[r]
     THEN Ends(r, "cancelled") /\ UNCHANGED entered
     ELSE /\ phase' = [phase EXCEPT ![r] = "executing"]
          /\ entered' = [entered EXCEPT ![r] = @ + 1]
          /\ UNCHANGED verdict
  /\ UNCHANGED <<processVars, editVars, lock, queue, active, ticketVars, call, itemVars,
                 cancelRequested, walk, append, wantsSteering, carried, arrivals>>

AdmitFails(r) ==
  /\ up /\ phase[r] = "admitting"
  /\ "admit" \in Faults \/ (r \in Durable /\ receipt[r] # "queued")
  /\ Ends(r, "failed")
  /\ UNCHANGED <<processVars, editVars, lock, queue, active, ticketVars, call, itemVars,
                 cancelRequested, walk, append, entered, storeVars, arrivals>>

\* The executor appends its own User message first.
WriteInput(r) ==
  /\ up /\ phase[r] = "executing" /\ carried[r] = 0
  /\ carried' = [carried EXCEPT ![r] = 1]
  /\ UNCHANGED <<processVars, editVars, lock, queue, active, ticketVars, call, itemVars,
                 runVars, receipt, wantsSteering, row, arrivals>>

\* The executor returns or raises.
ExecutorEnds(r, how) ==
  /\ up /\ phase[r] = "executing" /\ append[r] = None
  /\ how = "completed" => carried[r] > 0
  /\ Ends(r, how)
  /\ UNCHANGED <<processVars, editVars, lock, queue, active, ticketVars, call, itemVars,
                 cancelRequested, walk, append, entered, storeVars, arrivals>>

\* Mutated form: only a Run that has not started yet is cancelled.
CancellableBeforeStart(r) == phase[r] = "admitting" /\ ~cancelRequested[r]
\* request_cancel acts on a running Run whose outcome is not frozen yet.
Cancellable(r) == phase[r] \in {"admitting", "executing"} /\ ~cancelRequested[r]

RequestCancel(r) ==
  /\ up /\ Cancellable(r)
  /\ cancelRequested' = [cancelRequested EXCEPT ![r] = TRUE]
  /\ UNCHANGED <<processVars, editVars, lock, queue, active, ticketVars, call, itemVars, phase,
                 verdict, walk, append, entered, storeVars, arrivals>>

\* _wait_for_cancel_cleanup returns, at its deadline at the latest, and the
\* outcome is frozen.
CleanupEnds(r) ==
  /\ up /\ phase[r] = "cleanup"
  /\ phase' = [phase EXCEPT ![r] = "closing"] /\ verdict' = [verdict EXCEPT ![r] = "cancelled"]
  /\ UNCHANGED <<processVars, editVars, lock, queue, active, ticketVars, call, itemVars,
                 cancelRequested, walk, append, entered, storeVars, arrivals>>

\* materialize_unwritten_input for the Runs a transaction settles.
Materialized(runs) ==
  [i \in Inputs |-> IF i \in runs \cap Durable /\ carried[i] = 0 THEN 1 ELSE carried[i]]

\* finish_run, which also writes an input the executor never wrote; a Run that
\* was not admitted withdraws its receipt instead.
FinishCommits(r) ==
  /\ up /\ phase[r] = "closing"
  /\ phase' = [phase EXCEPT ![r] = "notifying"]
  /\ IF row[r] = "running"
     THEN /\ row' = [row EXCEPT ![r] = verdict[r]]
          /\ carried' = Materialized({r})
          /\ UNCHANGED receipt
     ELSE /\ receipt' = [receipt EXCEPT ![r] = IF @ = "queued" THEN "removed" ELSE @]
          /\ UNCHANGED <<row, carried>>
  /\ UNCHANGED <<processVars, editVars, lock, queue, active, ticketVars, call, itemVars,
                 verdict, cancelRequested, walk, append, entered, wantsSteering, arrivals>>

\* Mutated form: the outcome is published although its commit failed.
FinishFailsUnseen(r) ==
  /\ up /\ phase[r] = "closing" /\ row[r] = "running" /\ "finish" \in Faults
  /\ phase' = [phase EXCEPT ![r] = "notifying"]
  /\ UNCHANGED <<processVars, editVars, lock, queue, active, ticketVars, call, itemVars,
                 verdict, cancelRequested, walk, append, entered, storeVars, arrivals>>
FinishFails(r) ==
  /\ up /\ phase[r] = "closing"
  /\ IF row[r] = "running" THEN "finish" \in Faults ELSE "withdraw" \in Faults /\ r \in Durable
  /\ phase' = [phase EXCEPT ![r] = "notifying"] /\ verdict' = [verdict EXCEPT ![r] = "failed"]
  /\ UNCHANGED <<processVars, editVars, lock, queue, active, ticketVars, call, itemVars,
                 cancelRequested, walk, append, entered, storeVars, arrivals>>

\* notify_completion returns; mark_* publishes the terminal event.
MarkTerminal(r) ==
  /\ up /\ phase[r] = "notifying"
  /\ phase' = [phase EXCEPT ![r] = "releasing"]
  /\ UNCHANGED <<processVars, editVars, lock, queue, active, ticketVars, call, itemVars,
                 verdict, cancelRequested, walk, append, entered, storeVars, arrivals>>

-----------------------------------------------------------------------------
(* Shutdown, crash and restart *)

Aclose ==
  LET dropped == UNION {ToSet(queue[s]) : s \in Sessions} IN
  /\ up /\ ~closed /\ lock = Free
  /\ closed' = TRUE /\ reserved' = {}
  /\ queue' = [s \in Sessions |-> <<>>]
  /\ future' = [i \in Inputs |-> IF i \in dropped /\ ~FutureDone(i) THEN "cancelled" ELSE future[i]]
  /\ cancelRequested' = [i \in Inputs |-> cancelRequested[i] \/ Cancellable(i)]
  /\ UNCHANGED <<up, crashes, editVars, lock, active, scoped, call, steering, inflight, withdrawn,
                 phase, verdict, walk, append, entered, storeVars, arrivals>>

\* The process ends, at any moment: only the database survives.
Crash ==
  /\ up /\ crashes < MaxCrashes
  /\ up' = FALSE /\ crashes' = crashes + 1 /\ closed' = FALSE /\ lock' = Free
  /\ queue' = [s \in Sessions |-> <<>>] /\ active' = [s \in Sessions |-> None]
  /\ reserved' = {}
  /\ call' = [i \in Inputs |-> IF i \in reserved \/ call[i] = "awaiting" THEN "sent" ELSE call[i]]
  /\ future' = [i \in Inputs |-> "none"] /\ steering' = [i \in Inputs |-> FALSE]
  /\ inflight' = [i \in Inputs |-> FALSE] /\ withdrawn' = [i \in Inputs |-> FALSE]
  /\ phase' = [i \in Inputs |-> "none"] /\ verdict' = [i \in Inputs |-> "completed"]
  /\ cancelRequested' = [i \in Inputs |-> FALSE]
  /\ walk' = [i \in Inputs |-> <<>>] /\ append' = [i \in Inputs |-> None]
  /\ edited' = [i \in Inputs |-> FALSE]
  /\ UNCHANGED <<rewritten, scoped, entered, storeVars, arrivals>>

\* queued: the receipts a Session still owes an answer, by input_key.
Owed(s) == Kept(arrivals, {i \in Inputs : SessionOf[i] = s /\ receipt[i] = "queued"})
\* Mutated form: only selected input is restored.
RestoredSteeringOnly(s) == Kept(Owed(s), {i \in Inputs : wantsSteering[i]})
\* ChatAccessorInputs.prepare orders them as drain would.
Restored(s) == SteeringFirst(Owed(s), wantsSteering)

\* recover_interrupted_runs: the Runs a stopped process left end interrupted.
RunsRecovered ==
  LET left == {i \in Inputs : row[i] = "running"} IN
  /\ row' = [i \in Inputs |-> IF i \in left THEN "interrupted" ELSE row[i]]
  /\ carried' = Materialized(left)

\* Recovery of Runs, then the synchronous restore of queued receipts.
Restart ==
  LET first(i) == Restored(SessionOf[i]) # <<>> /\ i = Head(Restored(SessionOf[i]))
  IN  /\ ~up /\ up' = TRUE
      /\ RunsRecovered
      /\ active' = [s \in Sessions |-> IF Restored(s) = <<>> THEN None ELSE Head(Restored(s))]
      /\ queue' = [s \in Sessions |-> IF Restored(s) = <<>> THEN <<>> ELSE Tail(Restored(s))]
      /\ phase' = [i \in Inputs |-> IF first(i) THEN "admitting" ELSE "none"]
      /\ future' = [i \in Inputs |->
                      CASE first(i) -> "run" [] receipt[i] = "queued" /\ ~first(i) -> "pending"
                        [] OTHER -> "none"]
      /\ steering' = [i \in Inputs |-> receipt[i] = "queued" /\ wantsSteering[i]]
      /\ edited' = [i \in Inputs |-> receipt[i] = "queued" /\ rewritten[i]]
      /\ UNCHANGED <<crashes, closed, rewritten, lock, ticketVars, call, inflight, withdrawn,
                     verdict, cancelRequested, walk, append, receipt, wantsSteering, arrivals, entered>>

-----------------------------------------------------------------------------
Producer(i) ==
  \/ ReserveWaitingWork(i) \/ ReleaseWaitingWork(i) \/ EnqueueStarts(i) \/ EnqueueWaits(i)
  \/ AcceptBegins(i) \/ AbandonWaiter(i)
User(i) == RemoveBegins(i) \/ EditBegins(i) \/ SteerBegins(i) \/ RequestCancel(i)
\* Resumptions of calls awaited under the lock.
LockHolder(i) ==
  \/ AcceptStarts(i) \/ AcceptWaits(i) \/ Removes(i) \/ Edits(i) \/ Steers(i) \/ ClearGoesOn(i)
  \/ DrainGoesOn(i)
Steering(r) == Boundary(r) \/ AppendCommits(r) \/ AppendFails(r)
\* What the event loop and the database do unprompted for a Run.
RunStep(r) ==
  \/ AdmitCommits(r) \/ AdmitFails(r) \/ WriteInput(r) \/ CleanupEnds(r)
  \/ FinishCommits(r) \/ FinishFails(r) \/ MarkTerminal(r)
ExecutorStops(r) == \E how \in Endings : ExecutorEnds(r, how)

Next ==
  \/ \E i \in Inputs :
       \/ Producer(i) \/ SubmitReturns(i) \/ RemoveAbandoned(i) \/ User(i) \/ LockHolder(i)
       \/ Steering(i) \/ RunStep(i) \/ Release(i) \/ ExecutorStops(i)
  \/ \E s \in Sessions : ClearBegins(s)
  \/ LockedCallFails \/ Aclose \/ Crash \/ Restart

Spec == Init /\ [][Next]_vars

\* The event loop keeps scheduling what is ready, the database answers, a
\* cancelled executor stops, the supervisor restarts the process; nobody is
\* forced to ask for anything, and an executor may run as long as it likes.
LoopFairness ==
  /\ \A i \in Inputs :
       /\ WF_vars(SubmitReturns(i)) /\ WF_vars(RemoveAbandoned(i)) /\ WF_vars(RunStep(i))
       /\ WF_vars(AppendCommits(i) \/ AppendFails(i))
       /\ WF_vars(cancelRequested[i] /\ ExecutorStops(i))
  /\ WF_vars(\E i \in Inputs : LockHolder(i))
  /\ WF_vars(Restart)
  /\ \A i \in Inputs : SF_vars(Release(i))    \* asyncio.Lock is first come, first served
FairSpec == Spec /\ LoopFairness

-----------------------------------------------------------------------------
(* Properties *)

Phases == {"none", "admitting", "executing", "cleanup", "closing", "notifying", "releasing", "over"}
Receipts == {"none", "queued", "started", "steered", "removed"}
ControlTypes ==
  /\ phase \in [Inputs -> Phases]
  /\ verdict \in [Inputs -> Outcomes]
  /\ call \in [Inputs -> {"unsent", "sent", "awaiting"}]
TableTypes ==
  /\ receipt \in [Inputs -> Receipts]
  /\ row \in [Inputs -> {"none", "running"} \cup Outcomes]
  /\ carried \in [Inputs -> Nat] /\ entered \in [Inputs -> Nat]

\* A Run's progress and the session tables keep their types: the states of
\* session_accessor_inputs and runs, and the messages counted in History.
TypeOK == ControlTypes /\ TableTypes

\* One Session executes one Run at a time: every Run that has not published
\* its terminal event is the one _active_by_session names, and it is in no Queue.
OneRunPerSession ==
  \A i \in Inputs : Running(i) => active[SessionOf[i]] = i /\ ~Queued(i)

\* A Queue with items always has someone who will drain it: the Session's Run
\* up to its release, or a drain awaiting the database under the lock.
QueueIsServed ==
  up => \A s \in Sessions :
    queue[s] # <<>> =>
      \/ active[s] # None /\ phase[active[s]] # "over"
      \/ lock.use = "drain" /\ lock.session = s

\* Accepted durable input is represented while the process serves: it waits in
\* the Queue, its Run is on the way to its claim, or its removal is under way.
\* (Shutdown and a crash drop the Queue and leave the receipt to the restart.)
NothingAcceptedIsLost ==
  up /\ ~closed => \A i \in Durable :
    receipt[i] = "queued" =>
      \/ Queued(i) \/ phase[i] \in {"admitting", "cleanup", "closing"}
      \/ lock.item = i

\* No mutation leaves the live Queue and the receipts apart: outside the lock
\* and outside an append, every durable item of a Queue has a queued receipt,
\* and what the item will say is what the receipt would say after a restart.
QueueMatchesReceipts ==
  up => \A s \in Sessions : \A i \in ToSet(queue[s]) \cap Durable :
    \/ receipt[i] = "queued" /\ (edited[i] <=> rewritten[i])
    \/ inflight[i] \/ lock.item = i

\* A receipt is used once: whatever crashes, cancellations and removals
\* happen, an input is executed or steered into a Run, never both and never
\* after its removal, and History holds its message at most once.
InputsRunOnce ==
  \A i \in Durable :
    /\ entered[i] + (IF receipt[i] = "steered" THEN 1 ELSE 0) =< 1
    /\ receipt[i] \in {"none", "queued", "removed"} => entered[i] = 0 /\ carried[i] = 0
    /\ carried[i] =< 1 /\ (receipt[i] = "steered" => carried[i] = 1)

\* A claimed input is in History as soon as its Run's row is terminal, even if
\* the Run was cancelled, failed or crashed before it wrote its message.
ClaimedInputIsKept ==
  \A i \in Durable : receipt[i] = "started" => row[i] # "none" /\ (row[i] # "running" => carried[i] = 1)

\* Transient work whose waiter went, or that was removed, never runs.
WithdrawnWorkNeverRuns ==
  \A i \in Inputs \ Durable : future[i] \in {"abandoned", "cancelled", "failed"} => phase[i] = "none"

\* A published outcome is the committed one, unless the terminal commit failed
\* and the Run reports that; a cancelled Run is never reported as completed.
OutcomeIsDurable ==
  \A i \in Inputs :
    /\ phase[i] \in {"releasing", "over"} /\ row[i] # "none" =>
         row[i] = verdict[i] \/ (row[i] = "running" /\ verdict[i] = "failed")
    /\ cancelRequested[i] => row[i] \notin {"completed", "interrupted"}

\* Input does not overtake: of two inputs of a Session that nobody steered,
\* the later does not run while the earlier waits.
Earlier(i, j) == Before(arrivals, i, j)
NoOvertaking ==
  \A i, j \in Inputs :
    SessionOf[i] = SessionOf[j] /\ Earlier(i, j) /\ Queued(i) /\ ~steering[j] => phase[j] = "none"

\* The receipts, Run rows and History together keep the promise of
\* InputLedger: each accepted input is answered at most once, and kept.
Ledger == INSTANCE InputLedger WITH
  Inputs <- Durable,
  fate <- [i \in Durable |-> receipt[i]],
  told <- {i \in Durable : carried[i] > 0},
  ended <- {i \in Durable : row[i] \in Outcomes}
RefinesInputLedger == Ledger!Spec

\* Executors end by themselves, sooner or later: what the promise to those who
\* wait in a Queue needs, and the two about stopping do not.
ExecutorsEnd == \A i \in Inputs : []<>(phase[i] # "executing")

\* Accepted durable input is claimed, steered into a Run or withdrawn, across
\* process deaths, unless the manager shuts down first.
AcceptedInputIsAnswered ==
  ExecutorsEnd => \A i \in Durable : receipt[i] = "queued" ~> (receipt[i] # "queued" \/ closed)

\* A cancelled Run ends and gives its Session back, whether or not any
\* executor would have ended by itself.
StopReleasesSession ==
  \A i \in Inputs : cancelRequested[i] ~> active[SessionOf[i]] # i

\* Shutdown ends: no Run stays active once the manager has closed.
ShutdownDrains == closed ~> (~closed \/ \A s \in Sessions : active[s] = None)
=============================================================================
