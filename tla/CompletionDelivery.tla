------------------------- MODULE CompletionDelivery -------------------------
(* The delivery of background results to one Session                       *)
(* (core/automation/_completion.py): a result joins the next request of an *)
(* active Run, else one follow-up Run carries what is ready, else a System *)
(* Reminder keeps it.  Every action is the code between two awaits.        *)
EXTENDS Integers, FiniteSets

CONSTANTS
  Notices,       \* results that producers may submit
  Waking,        \* those submitted with wake=True
  MaxRuns,       \* bound: Runs after which no other ingress starts one
  MaxIterations, \* bound: answered requests of one Run
  MaxFaults      \* bound: failing database calls, failed and blocked starts

ASSUME CompletionAssumption ==
  /\ IsFiniteSet(Notices) /\ Waking \subseteq Notices
  /\ MaxRuns \in Nat /\ MaxIterations \in Nat /\ MaxFaults \in Nat

VARIABLES
  bucket,   \* held notice -> its fields, and its rank in the order of submission
  future,   \* notice -> its delivered future
  pc,       \* where the delivery task waits
  batch,    \* its local list of notices
  message,  \* those whose body the message it hands over holds
  awaited,  \* the Run it waits for
  lock,     \* who holds the Session's write lock
  run,      \* the active Run
  count,    \* Run -> iteration_count
  stopped,  \* Runs that the user has stopped
  started,  \* Runs started so far
  closed,   \* aclose was called
  faults,   \* failures so far
  stored,   \* notice -> how often its body was written to the Session
  shown,    \* notices in the request whose answer the active Run awaits
  seen,     \* notices the Model answered a request with
  astray    \* notices that two messages may carry (see Astray, InputCutOff, NotesKept, Close)

task == <<pc, batch, message, awaited>>
runs == <<run, count, stopped, started, shown, seen>>
vars == <<bucket, future, task, lock, runs, closed, faults, stored, astray>>

Held == DOMAIN bucket
Unsent == -1
\* Bound: a result has one follow-up Run at most.
RunLimit == MaxRuns + Cardinality(Notices)
Runs == 1..RunLimit
NoRun == [id |-> 0, at |-> "none", carries |-> {}, bodies |-> {}]
Fields ==
  [rank : Nat, boundary : Runs \cup {0}, suppress : BOOLEAN, readAfter : Nat \cup {Unsent},
   claimed : BOOLEAN]
Places == {"none", "scheduled", "waiting", "turn", "surface", "starting", "refused",
           "backoff", "following", "persist", "loading", "writing", "landing", "retry"}

NoticeTypes ==
  /\ Held \subseteq Notices /\ \A n \in Held : bucket[n] \in Fields
  /\ future \in [Notices -> {"new", "pending", "done", "withdrawn", "cancelled"}]
TaskTypes ==
  /\ pc \in Places /\ batch \subseteq Notices /\ message \subseteq Notices
  /\ awaited \in Runs \cup {0} /\ lock \in {"free", "run", "task"}
RunTypes ==
  /\ run \in [id : Runs \cup {0}, carries : SUBSET Notices, bodies : SUBSET Notices,
              at : {"none", "admitted", "input", "failed", "cut", "last", "ready", "appending",
                    "asking"}]
  /\ count \in [Runs -> Nat] /\ stopped \subseteq Runs /\ started \in Runs \cup {0}
SessionTypes ==
  /\ closed \in BOOLEAN /\ faults \in 0..MaxFaults /\ stored \in [Notices -> Nat]
  /\ shown \subseteq Notices /\ seen \subseteq Notices /\ astray \subseteq Notices

\* Results, the delivery task, Runs and the Session keep their types.
TypeOK == NoticeTypes /\ TaskTypes /\ RunTypes /\ SessionTypes

Init ==
  /\ bucket = [n \in {} |-> {}] /\ future = [n \in Notices |-> "new"]
  /\ pc = "none" /\ batch = {} /\ message = {} /\ awaited = 0 /\ lock = "free"
  /\ run = NoRun /\ count = [r \in Runs |-> 0] /\ stopped = {} /\ started = 0
  /\ closed = FALSE /\ faults = 0
  /\ stored = [n \in Notices |-> 0] /\ shown = {} /\ seen = {} /\ astray = {}

-----------------------------------------------------------------------------
(* What the steps are made of *)

Fault == faults < MaxFaults /\ faults' = faults + 1

\* Mutated form: off by one, the request itself counts as its answer.
ReadAtOnce(n) ==
  /\ bucket[n].boundary # 0 /\ bucket[n].readAfter # Unsent
  /\ count[bucket[n].boundary] >= bucket[n].readAfter
\* Whether the Model answered a request of the boundary Run that carried n.
Read(n) ==
  /\ bucket[n].boundary # 0 /\ bucket[n].readAfter # Unsent
  /\ count[bucket[n].boundary] > bucket[n].readAfter

\* The bucket b after something happened to its notices S.
Without(b, S) == [n \in DOMAIN b \ S |-> b[n]]
Claim(b, S) == [n \in DOMAIN b |-> IF n \in S THEN [b[n] EXCEPT !.claimed = TRUE] ELSE b[n]]
Release(b, S) == [n \in DOMAIN b |-> IF n \in S THEN [b[n] EXCEPT !.claimed = FALSE] ELSE b[n]]
Suppress(b, S) == [n \in DOMAIN b |-> IF n \in S THEN [b[n] EXCEPT !.suppress = TRUE] ELSE b[n]]
Detach(b, S) == [n \in DOMAIN b |-> IF n \in S THEN [b[n] EXCEPT !.boundary = 0] ELSE b[n]]
Carried(b, S, at) ==
  [n \in DOMAIN b |-> IF n \in S THEN [b[n] EXCEPT !.readAfter = at] ELSE b[n]]

\* They are handed to the next request of Run r.  One already in the Session
\* is in every request of a later Run.
Join(b, S, r) ==
  [n \in DOMAIN b |->
     IF n \notin S THEN b[n]
     ELSE [b[n] EXCEPT !.boundary = r, !.readAfter = IF @ = Unsent THEN @ ELSE 0]]

\* The head of the loop, with the bucket b.
First(b) == CHOOSE n \in DOMAIN b : \A m \in DOMAIN b : b[n].rank =< b[m].rank
LoopHead(b) ==
  /\ awaited' = IF DOMAIN b = {} THEN 0 ELSE b[First(b)].boundary
  /\ pc' = IF DOMAIN b = {} THEN "none" ELSE IF awaited' = 0 THEN "turn" ELSE "waiting"
  /\ batch' = {} /\ message' = {}

\* The task waits at a place with the notices S in hand.
WaitsAt(place, S) == pc' = place /\ batch' = S /\ message' = {} /\ awaited' = 0

\* Producers of S learn that their results are in the Session.
Confirmed(S) ==
  [n \in Notices |-> IF n \in S /\ future[n] = "pending" THEN "done" ELSE future[n]]

Written(S) == [n \in Notices |-> IF n \in S THEN stored[n] + 1 ELSE stored[n]]

\* An attempt to persist is over: the loop goes on, or closing drops the rest.
Settled(b, f) ==
  IF closed
  THEN /\ bucket' = Without(b, DOMAIN b) /\ WaitsAt("none", {})
       /\ future' = [n \in Notices |-> IF n \in DOMAIN b /\ f[n] = "pending" THEN "cancelled"
                                                                           ELSE f[n]]
  ELSE bucket' = b /\ future' = f /\ LoopHead(b)

-----------------------------------------------------------------------------
(* Producers *)

\* A producer submits a result; the user may have stopped the Run it is from.
Submit(n, fromStopped) ==
  /\ future[n] = "new" /\ (fromStopped => stopped # {})
  /\ IF closed
     THEN future' = [future EXCEPT ![n] = "cancelled"] /\ UNCHANGED <<bucket, pc>>
     ELSE /\ future' = [future EXCEPT ![n] = "pending"]
          /\ bucket' = [m \in Held \cup {n} |->
               IF m # n THEN bucket[m]
               ELSE [rank |-> 1 + Cardinality({k \in Notices : future[k] # "new"}),
                     boundary |-> run.id, suppress |-> fromStopped, readAfter |-> Unsent,
                     claimed |-> FALSE]]
          /\ pc' = IF pc = "none" THEN "scheduled" ELSE pc
  /\ UNCHANGED <<batch, message, awaited, lock, runs, closed, faults, stored, astray>>

\* Mutated form: a claimed result can be taken back.
WithdrawClaimed(n) ==
  /\ n \in Held /\ bucket[n].readAfter = Unsent
  /\ bucket' = Without(bucket, {n})
  /\ future' = [future EXCEPT ![n] = IF @ = "pending" THEN "withdrawn" ELSE @]
  /\ UNCHANGED <<task, lock, runs, closed, faults, stored, astray>>
\* A producer takes a result back before a delivery claimed it.
Withdraw(n) ==
  /\ n \in Held /\ ~bucket[n].claimed /\ bucket[n].readAfter = Unsent
  /\ bucket' = Without(bucket, {n})
  /\ future' = [future EXCEPT ![n] = IF @ = "pending" THEN "withdrawn" ELSE @]
  /\ UNCHANGED <<task, lock, runs, closed, faults, stored, astray>>

-----------------------------------------------------------------------------
(* The active Run *)

\* Another ingress starts a Run in the idle Session.
RunStarts ==
  /\ run.id = 0 /\ started < MaxRuns
  /\ run' = [NoRun EXCEPT !.id = started + 1, !.at = "ready"] /\ started' = started + 1
  /\ UNCHANGED <<bucket, future, task, lock, count, stopped, shown, seen, closed, faults, stored,
                 astray>>

\* The Run's next request goes out with what the Session holds.
Asks(b, s) ==
  /\ run' = [run EXCEPT !.at = "asking", !.carries = {}, !.bodies = {}]
  /\ shown' = {n \in DOMAIN b : s[n] > 0}

\* A notice is astray when a request takes it while the delivery task has it
\* in hand: the message of a follow-up Run may carry it too.
Astray(S) ==
  IF pc \in {"surface", "starting", "refused", "following"} THEN astray \cup (S \cap batch)
                                                        ELSE astray

\* A request boundary takes the notices that are ready for this Run.
Boundary ==
  LET joined == IF closed THEN bucket
                ELSE Join(bucket, {n \in Held : bucket[n].boundary = 0}, run.id)
      taken  == {n \in Held : /\ ~closed /\ joined[n].boundary = run.id
                              /\ ~joined[n].suppress /\ joined[n].readAfter = Unsent}
  IN
  /\ run.at = "ready" /\ lock = "free"
  /\ IF taken = {}
     THEN bucket' = joined /\ Asks(joined, stored) /\ UNCHANGED <<lock, astray>>
     ELSE /\ bucket' = Claim(joined, taken) /\ astray' = Astray(taken)
          /\ run' = [run EXCEPT !.at = "appending", !.carries = taken, !.bodies = taken]
          /\ lock' = "run" /\ UNCHANGED shown
  /\ UNCHANGED <<future, task, count, stopped, started, seen, closed, faults, stored>>

\* Their note is in the Session.  A waking notice is held until the Model has
\* answered; a cancelled Run finishes the append first.
BoundaryStores ==
  /\ run.at = "appending"
  /\ stored' = Written(run.bodies) /\ future' = Confirmed(run.carries)
  /\ bucket' = Without(Carried(bucket, run.carries, count[run.id]), run.carries \ Waking)
  /\ Asks(bucket', stored') /\ lock' = "free"
  /\ UNCHANGED <<task, count, stopped, started, seen, closed, faults, astray>>

BoundaryFails ==
  /\ run.at = "appending" /\ Fault
  /\ bucket' = Release(bucket, run.carries)
  /\ Asks(bucket, stored) /\ lock' = "free"
  /\ UNCHANGED <<future, task, count, stopped, started, seen, closed, stored, astray>>

\* The Model answers the request.
Answers ==
  /\ run.at = "asking" /\ count[run.id] < MaxIterations
  /\ count' = [count EXCEPT ![run.id] = @ + 1]
  /\ run' = [run EXCEPT !.at = "ready"]
  /\ seen' = seen \cup shown /\ shown' = {}
  /\ UNCHANGED <<bucket, future, task, lock, stopped, started, closed, faults, stored, astray>>

Ends(byUser) ==
  /\ run' = NoRun /\ shown' = {}
  /\ stopped' = IF byUser THEN stopped \cup {run.id} ELSE stopped

\* The Run ends: it is done, fails, or is cancelled, maybe by the user.
RunEnds(byUser) ==
  /\ run.at \in {"admitted", "ready", "asking"} /\ Ends(byUser)
  /\ UNCHANGED <<bucket, future, task, lock, count, started, seen, closed, faults, stored,
                 astray>>

\* A follow-up Run writes its input, the message of the delivery.
InputBegins ==
  /\ run.at = "admitted" /\ lock = "free"
  /\ run' = [run EXCEPT !.at = "input"] /\ lock' = "run"
  /\ UNCHANGED <<bucket, future, task, count, stopped, started, shown, seen, closed, faults,
                 stored, astray>>

\* The input is in the Session and the delivery's callback acknowledges it.
InputStores ==
  /\ run.at = "input"
  /\ stored' = Written(run.bodies)
  /\ bucket' = Without(bucket, run.carries) /\ future' = Confirmed(run.carries \cap Held)
  /\ run' = [run EXCEPT !.at = "ready", !.carries = {}, !.bodies = {}] /\ lock' = "free"
  /\ UNCHANGED <<task, count, stopped, started, shown, seen, closed, faults, astray>>

\* The Run is cancelled during the append, which settles first: the input is
\* in the Session, and nobody calls the callback.
InputCutOff(byUser) ==
  /\ run.at = "input"
  /\ stored' = Written(run.bodies) /\ Ends(byUser) /\ lock' = "free"
  /\ astray' = astray \cup run.bodies
  /\ UNCHANGED <<bucket, future, task, count, started, seen, closed, faults>>

\* The append fails, or the Run is cancelled before a thread has begun it.  The
\* input is still a deferred note, and is written again.
InputUndone ==
  /\ run.at = "input" /\ lock' = "free"
  /\ \/ Fault /\ run' = [run EXCEPT !.at = "failed"]
     \/ run' = [run EXCEPT !.at = "cut"] /\ UNCHANGED faults
  /\ UNCHANGED <<bucket, future, task, count, stopped, started, shown, seen, closed, stored,
                 astray>>

\* The same happens to the second attempt.  A Run is cancelled once.
NotesUndone ==
  /\ run.at \in {"failed", "cut"} /\ run' = [run EXCEPT !.at = "last"]
  /\ Fault \/ (run.at = "failed" /\ UNCHANGED faults)
  /\ UNCHANGED <<bucket, future, task, lock, count, stopped, started, shown, seen, closed,
                 stored, astray>>

\* An attempt of the Run's cleanup (without the Session's lock), or the last one
\* at its end, succeeds: the input is there, and nobody calls the callback.
NotesKept(byUser) ==
  /\ run.at \in {"failed", "cut", "last"} /\ (run.at = "last" => lock = "free")
  /\ stored' = Written(run.bodies) /\ Ends(byUser)
  /\ astray' = astray \cup run.bodies
  /\ UNCHANGED <<bucket, future, task, lock, count, started, seen, closed, faults>>

\* The last attempt fails too.
NotesLost(byUser) ==
  /\ run.at = "last" /\ lock = "free" /\ Fault /\ Ends(byUser)
  /\ UNCHANGED <<bucket, future, task, lock, count, started, seen, closed, stored, astray>>

-----------------------------------------------------------------------------
(* The delivery task *)

\* The task runs for the first time, or its backoff is over.
Begins ==
  /\ pc \in {"scheduled", "backoff"} /\ LoopHead(bucket)
  /\ UNCHANGED <<bucket, future, lock, runs, closed, faults, stored, astray>>

\* What becomes of the notices that a pass of the loop collected from b.
Decide(b, pending) ==
  LET quiet == {n \in pending : b[n].suppress \/ n \notin Waking} IN
  \/ pending = {} /\ bucket' = b /\ LoopHead(b)
  \/ quiet # {} /\ bucket' = b /\ WaitsAt("persist", quiet)
  \/ /\ pending # {} /\ quiet = {}
     /\ IF run.id # 0 THEN bucket' = Join(b, pending, run.id) /\ LoopHead(bucket')
                      ELSE bucket' = b /\ WaitsAt("surface", pending)

\* Mutated form: a Stop of the boundary Run is not noticed.
BoundaryRunOverUnstopped ==
  LET joined == {n \in Held : bucket[n].boundary = awaited}
      read   == {n \in joined : Read(n)}
  IN
  /\ pc = "waiting" /\ run.id # awaited
  /\ Decide(Without(bucket, read), joined \ read)
  /\ UNCHANGED <<future, lock, runs, closed, faults, stored, astray>>
\* Mutated form: what the Model read stays in the bucket.
BoundaryRunOverKeepsRead ==
  LET joined == {n \in Held : bucket[n].boundary = awaited}
      b      == IF awaited \in stopped THEN Suppress(bucket, joined) ELSE bucket
  IN
  /\ pc = "waiting" /\ run.id # awaited
  /\ Decide(b, {n \in joined : ~Read(n)})
  /\ UNCHANGED <<future, lock, runs, closed, faults, stored, astray>>
\* The boundary Run has ended.  What the Model read is dropped; after a Stop
\* the rest is kept without a Run.
BoundaryRunOver ==
  LET joined == {n \in Held : bucket[n].boundary = awaited}
      read   == {n \in joined : Read(n)}
      b      == IF awaited \in stopped THEN Suppress(bucket, joined) ELSE bucket
  IN
  /\ pc = "waiting" /\ run.id # awaited
  /\ Decide(Without(b, read), joined \ read)
  /\ UNCHANGED <<future, lock, runs, closed, faults, stored, astray>>

\* One turn of the loop collects what became ready in an idle Session.
Collects ==
  LET idle == {n \in Held : bucket[n].boundary = 0} IN
  /\ pc = "turn"
  /\ IF run.id # 0 THEN bucket' = Join(bucket, idle, run.id) /\ LoopHead(bucket')
                   ELSE Decide(bucket, idle)
  /\ UNCHANGED <<future, lock, runs, closed, faults, stored, astray>>

\* The reply surface is known: the message is built from what is still held.
Claims ==
  LET pending == batch \cap Held IN
  /\ pc = "surface"
  /\ IF pending = {} THEN LoopHead(bucket) /\ UNCHANGED bucket
     ELSE /\ bucket' = Claim(bucket, pending)
          /\ pc' = "starting" /\ batch' = pending /\ UNCHANGED awaited
          /\ message' = {n \in pending : bucket[n].readAfter = Unsent}
  /\ UNCHANGED <<future, lock, runs, closed, faults, stored, astray>>

FollowUpStarts ==
  /\ pc = "starting" /\ run.id = 0 /\ started < RunLimit
  /\ run' = [id |-> started + 1, at |-> "admitted", carries |-> batch, bodies |-> message]
  /\ started' = started + 1
  /\ pc' = "following" /\ awaited' = started + 1 /\ message' = {}
  /\ UNCHANGED <<bucket, future, batch, lock, count, stopped, shown, seen, closed, faults,
                 stored, astray>>

\* Another Run is active, and start_run raises once its preparation is undone.
StartRefused ==
  /\ pc = "starting" /\ run.id # 0 /\ pc' = "refused" /\ message' = {}
  /\ UNCHANGED <<bucket, future, batch, awaited, lock, runs, closed, faults, stored, astray>>

\* Its next request may take the notices, unless it has ended meanwhile.
Refused ==
  /\ pc = "refused"
  /\ IF run.id # 0
     THEN bucket' = Join(Release(bucket, batch), batch, run.id) /\ LoopHead(bucket')
     ELSE bucket' = Release(bucket, batch) /\ WaitsAt("backoff", {})
  /\ UNCHANGED <<future, lock, runs, closed, faults, stored, astray>>

\* A guard holds the admission, or work waits in the Queue.
StartBlocked ==
  /\ pc = "starting" /\ run.id = 0 /\ Fault
  /\ bucket' = Release(bucket, batch) /\ WaitsAt("backoff", {})
  /\ UNCHANGED <<future, lock, runs, closed, stored, astray>>

\* The start fails: the notices are kept without a Run.
StartFails ==
  LET pending == batch \cap Held IN
  /\ pc = "starting" /\ Fault
  /\ bucket' = Detach(Release(bucket, batch), batch)
  /\ IF pending = {} THEN LoopHead(bucket') ELSE WaitsAt("persist", pending)
  /\ UNCHANGED <<future, lock, runs, closed, stored, astray>>

\* The follow-up Run has ended.  What did not reach the Session is kept
\* without another Run.
FollowUpOver ==
  LET there == {n \in batch \cap Held : bucket[n].readAfter # Unsent}
      undelivered == {n \in batch : future'[n] = "pending"}
  IN
  /\ pc = "following" /\ run.id # awaited
  /\ future' = Confirmed(there)
  /\ bucket' = Suppress(Release(Without(bucket, there), undelivered), undelivered)
  /\ IF undelivered = {} THEN LoopHead(bucket') ELSE WaitsAt("persist", undelivered)
  /\ UNCHANGED <<lock, runs, closed, faults, stored, astray>>

\* Mutated form: what a request carried meanwhile is persisted all the same.
PersistLocksUnaware ==
  /\ pc = "persist" /\ lock = "free"
  /\ IF batch \cap Held = {}
     THEN Settled(bucket, future) /\ UNCHANGED lock
     ELSE /\ lock' = "task" /\ pc' = "loading"
          /\ UNCHANGED <<bucket, future, batch, message, awaited>>
  /\ UNCHANGED <<runs, closed, faults, stored, astray>>
\* _persist_once takes the Session's write lock.  What a request carried
\* meanwhile is in the Session.
PersistLocks ==
  LET there == {n \in batch \cap Held : bucket[n].readAfter # Unsent} IN
  /\ pc = "persist" /\ lock = "free"
  /\ IF batch \cap Held = there
     THEN Settled(Without(bucket, there), Confirmed(there)) /\ UNCHANGED lock
     ELSE /\ bucket' = Without(bucket, there) /\ future' = Confirmed(there)
          /\ lock' = "task" /\ pc' = "loading" /\ UNCHANGED <<batch, message, awaited>>
  /\ UNCHANGED <<runs, closed, faults, stored, astray>>

\* The Session is loaded: what was not withdrawn meanwhile is written.
Loads ==
  LET pending == batch \cap Held IN
  /\ pc = "loading"
  /\ IF pending = {} THEN Settled(bucket, future) /\ lock' = "free"
     ELSE /\ bucket' = Claim(bucket, pending) /\ pc' = "writing" /\ batch' = pending
          /\ UNCHANGED <<future, lock, message, awaited>>
  /\ UNCHANGED <<runs, closed, faults, stored, astray>>

\* An error while the Session is loaded or written: the attempt is repeated,
\* the last one of a closing service is not.
PersistFails ==
  LET b == IF pc = "writing" THEN Release(bucket, batch) ELSE bucket IN
  /\ pc \in {"loading", "writing"} /\ Fault /\ lock' = "free"
  /\ IF closed THEN Settled(b, future)
     ELSE bucket' = b /\ pc' = "retry" /\ UNCHANGED <<future, batch, message, awaited>>
  /\ UNCHANGED <<runs, closed, stored, astray>>

Retries ==
  /\ pc = "retry" /\ pc' = "persist"
  /\ UNCHANGED <<bucket, future, batch, message, awaited, lock, runs, closed, faults, stored,
                 astray>>

\* The System Reminder is in the Session.
Writes ==
  /\ pc = "writing"
  /\ stored' = Written(batch) /\ lock' = "free"
  /\ Settled(Without(bucket, batch), Confirmed(batch \cap Held))
  /\ UNCHANGED <<runs, closed, faults, astray>>

-----------------------------------------------------------------------------
(* Closing *)

\* aclose persists what is left once the delivery task has ended.
PersistRest(b) == WaitsAt(IF DOMAIN b = {} THEN "none" ELSE "persist", DOMAIN b)

\* aclose cancels the delivery task, whose started append lands first.  A
\* follow-up Run that was admitted goes on, also if start_run has not returned
\* yet: what it has left to do changes nothing here.
Close ==
  /\ ~closed /\ closed' = TRUE
  /\ IF pc = "writing" THEN pc' = "landing" /\ UNCHANGED <<batch, message, awaited, lock>>
     ELSE PersistRest(bucket) /\ lock' = IF pc = "loading" THEN "free" ELSE lock
  /\ astray' = IF run.at \in {"admitted", "input", "failed", "cut", "last"}
             THEN astray \cup run.bodies ELSE astray
  /\ UNCHANGED <<bucket, future, runs, faults, stored>>

Lands ==
  /\ pc = "landing" /\ lock' = "free"
  /\ stored' = Written(batch) /\ future' = Confirmed(batch \cap Held)
  /\ bucket' = Without(bucket, batch) /\ PersistRest(bucket')
  /\ UNCHANGED <<runs, closed, faults, astray>>

LandingFails ==
  /\ pc = "landing" /\ Fault /\ lock' = "free"
  /\ bucket' = Release(bucket, batch) /\ PersistRest(bucket)
  /\ UNCHANGED <<future, runs, closed, stored, astray>>

-----------------------------------------------------------------------------

Producer == \E n \in Notices : Withdraw(n) \/ \E stop \in BOOLEAN : Submit(n, stop)
RunStep ==
  \/ Boundary \/ BoundaryStores \/ BoundaryFails \/ Answers
  \/ InputBegins \/ InputStores \/ InputUndone \/ NotesUndone
  \/ \E byUser \in BOOLEAN :
       RunEnds(byUser) \/ InputCutOff(byUser) \/ NotesKept(byUser) \/ NotesLost(byUser)
TaskStep ==
  \/ Begins \/ BoundaryRunOver \/ Collects \/ Claims
  \/ FollowUpStarts \/ StartRefused \/ Refused \/ StartBlocked \/ StartFails \/ FollowUpOver
  \/ PersistLocks \/ Loads \/ PersistFails \/ Retries \/ Writes \/ Lands \/ LandingFails

Next == Producer \/ RunStarts \/ RunStep \/ TaskStep \/ Close

Spec == Init /\ [][Next]_vars

(* Runs end, and the delivery task goes on.  Nobody has to submit, withdraw, *)
(* start a Run or close.                                                     *)
FairSpec == Spec /\ WF_vars(RunStep) /\ WF_vars(TaskStep)

-----------------------------------------------------------------------------
(* Properties *)

\* A result's body is written to the Session once, unless a second message
\* took it or an input was written without its callback.
StoredOnce == \A n \in Notices : stored[n] =< 1 \/ n \in astray

\* Who is told that a result was delivered finds it in the Session, who was
\* told that it was withdrawn does not, but for the same notices.
ProducersLearnTheTruth ==
  \A n \in Notices :
    /\ future[n] = "done" => stored[n] > 0
    /\ future[n] = "withdrawn" => stored[n] = 0 \/ n \in astray

\* A result counts as read only if the Model answered a request with it.
ReadWasAnswered == \A n \in Held : Read(n) => n \in seen \/ n \in astray

\* No Run is started to deliver what a Run that the user stopped left behind.
StopWakesNobody ==
  [][FollowUpStarts => \A n \in batch \ astray :
       bucket[n].boundary \notin stopped /\ ~bucket[n].suppress]_vars

\* Every result leaves delivery: no failure and no race strands it.
EveryResultSettles == \A n \in Notices : n \in Held ~> n \notin Held
=============================================================================
