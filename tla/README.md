# vBot in TLA+

Specifications of the concurrent core of vBot: what is published to clients, how Runs
are admitted, queued, steered, edited, cancelled and recovered, how lifecycle transitions
keep work out, how a Tool call waits for its approval, how blocking work is shared and bounded, how
a background result reaches its Session, how a one-time job fires once, and how a data snapshot shows
one instant. They are translated from the
Python source; each definition's lines are in the `map` of `PROJECT.json`.

## 1. The system and what makes it hard

vBot is an agent server. Most of its core is one asyncio event loop: code between two
`await`s is atomic, and everything hard happens because something else runs during an
`await`, because the process dies between two database commits, or because a worker thread
is still at work when its caller has gone.

| Part | State | Operations | Talks to | What is hard |
|---|---|---|---|---|
| Event stream `core/event_stream.py` | retained window, subscribers with bounded queues | publish, subscribe, compact, settle | Runs and terminals publish; the server forwards | moving from replay to live delivery while events are published and trimmed; overflow |
| Run manager `core/runs/runs.py`, `run.py` | active Run and Queue of each Session, waiting reservations, futures, flags of items, one lock | start, enqueue, steer, remove, clear, cancel, drain, close | Chat executes Runs; Sessions persist them | the lock is held across some awaits and not across others; abandonment, removal and clearing race delivery |
| Durable inputs `core/chat/_accessor_inputs.py`, `core/sessions/_store_*.py` | receipts, Run rows, History | accept, claim, steer, remove, finish, recover | called by the Run manager inside and outside its lock | receipts and live Queue are two copies of one fact; the process may die between them |
| Transition guards `core/runs/runs.py` | guarded Sessions, Agents, Projects; admission preparations | prepare, bind, commit; guard and release | Agents, Projects, Archive hold guards | work is prepared over awaits, and its subject can be renamed or removed meanwhile |
| Approvals `core/runs/_approvals.py` | pending decisions, rejections of a Run | request, resolve, end of Run | Tools wait, a person answers | answer, rejection of a sibling, cancellation and end race |
| Shared workers `core/utils/workers.py` | semaphores, a running and a waiting refresh | run, call, drain, refresh | every domain with blocking work | a cancelled caller leaves its thread running; freshness of a shared result |
| Data snapshots `core/database/snapshot_barrier.py` | mutations in flight, freezes | compound mutation, member change, capture | every writer of the data directory | copies taken one after another must look like one instant |
| Completion delivery `core/automation/_completion.py` | notices by Session, claims | submit, withdraw, read into a request, deliver | subagents and jobs submit, Chat reads | withdrawal against claim; append fails after the claim |
| Jobs `core/automation/_cron*.py`, `core/calendar` | jobs, claims of one-time fires | schedule, fire, reschedule | Run manager | a crash between claim and Run |
| Subagents `core/subagents` | links, silenced Runs | start, forward, stop | completion delivery | the link changes while the answer is assembled |
| Archive `core/archive` | ledger of moved trees | archive, restore, purge, settle | Sessions, Agents | a move interrupted between files and ledger |
| Channels `core/channels` | FIFO and worker of each conversation | receive, process, retire | waiting-work reservations | a worker retires as work arrives |
| Update `core/database/update_rollback.py`, `cli/application` | data snapshot before an update | snapshot, install, roll back | the process supervisor | data changes while it is copied |
| Everything else | configuration, text, protocols of providers, user interfaces | | | sequential, or I/O |

`PROJECT.json` lists every part with its status, and under `hazards` each place where the
code is hard to test, with the properties that would catch it going wrong or the reason why
none does yet.

What makes these parts correct:

* stream: a subscriber sees what was published from where it began, in order, without
  gaps, or learns that it lagged; memory stays bounded; nobody waits on a settled stream;
* Run manager: one Run per Session, first come first served, nothing stranded, nothing
  withdrawn executed, cancellation and shutdown end;
* durable inputs: accepted input is answered at most once and never forgotten, whatever
  fails; the outcome reported is the outcome committed;
* guards: a transition and the work it would invalidate never coexist;
* approvals: a rejection lasts for the Run, a cancelled or finished Run releases its calls, and a request is announced to who follows the Run;
* shared workers: a slot is held exactly as long as its thread works, and a shared answer is never older than the question;
* completion delivery: a result is written to its Session once, its producer learns what became of it, the Model gets to
  answer it, a user's Stop wakes nobody, and no failure strands it;
* jobs: an instant fires at most once whatever fails and whenever the process dies, and a job scheduled for another instant keeps that fire;
* data snapshots: the copies show one instant at which no compound mutation was half done, or
  there is no snapshot; nobody waits for what waits for it, and every wait ends.

## 2. Modules

| Module | Models | Extended or instantiated by |
|---|---|---|
| `EventStream` | `ReplayEventStream` and its subscriptions | `MCEventStream`, `EventStreamProofs` |
| `OrderedFeed` | abstract: the feed one subscription is promised | `EventStream` (refinement mapping `Feed`) |
| `RunManager` | `ChatRunManager`, `Run`, Chat's input mutations and the tables they write | `MCRunManager` |
| `InputLedger` | abstract: what accepting an input promises | `RunManager` (refinement mapping `Ledger`) |
| `AdmissionGuards` | preparations, guards and admission tests of `ChatRunManager` | `MCAdmissionGuards`, `AdmissionGuardsProofs` |
| `SnapshotBarrier` | `SnapshotBarrier`, `member_change`, `capture_members` | `MCSnapshotBarrier`, `SnapshotBarrierProofs` |
| `InstantSnapshot` | abstract: what a data snapshot promises | `SnapshotBarrier` (refinement mapping `Abstract`) |
| `RunApprovals` | `RunApprovals`, `ToolContext.request_approval`, `Run.watch_approvals` | `MCRunApprovals`, `RunApprovalsProofs` |
| `SharedRefresh` | `SharedRefresh` of `core/utils/workers.py` | `MCSharedRefresh`, `SharedWorkersProofs` |
| `FreshRead` | abstract: what a caller of a refresh is promised | `SharedRefresh` (`Reads`: its calls are `Callers`, its variables those of the same names) |
| `WorkerPool` | `BoundedWorkerPool` and `settle_before_cancelling` | `MCWorkerPool`, `SharedWorkersProofs` |
| `CompletionDelivery` | one Session's bucket of `_CompletionDeliveryCoordinator`, its delivery task, and the Runs it meets | `MCCompletionDelivery`, `CompletionDeliveryProofs` |
| `OnceFire` | the one-time fire of a Cron job, its ordered writer and its claim file | `MCOnceFire`, `OnceFireProofs` |
| `EventStreamProofs`, `RunManagerProofs`, `AdmissionGuardsProofs`, `SnapshotBarrierProofs`, `SharedWorkersProofs`, `RunApprovalsProofs`, `CompletionDeliveryProofs`, `OnceFireProofs` | invariants and theorems | |

An operator whose comment begins "Mutated form" is not part of a model: it is the
definition after it as a plausible bug would write it, and `mutants` in `PROJECT.json`
names the property that notices the exchange. The operators above a module's properties that are in
no `map` entry are variables, tuples of variables and such forms.

### EventStream

Events are the numbers `1..Len(log)`; an event has a kind (plain, transient, terminal) and a
size. The deque is the window `lo..Len(log)`. A subscription is an async generator, which runs
alone until it yields or waits, so the variable `turn` names the generator that is executing and
publishers act only when none is. `pc` follows the generator: replay of the retained events, the
catch-up rounds, draining the queue, waiting. `queue`, `queuedBytes`, `catchingUp` and
`slot` are the fields of `_Subscriber`; `todo` is the rest of the list being walked. Publication,
trimming, fan-out and eviction are one action, `Publish`, as they are one synchronous call in the
code. `Sizes` holds the sizes events may have; the assumption that an event fits the byte limit by
itself is what every producer of the repository ensures.

### RunManager

An element of `Inputs` stands for one accepted request, the `QueuedRunItem` made for it and the
Run started for it, so `future`, `steering`, `inflight`, `withdrawn` are the item's and `phase`,
`verdict`, `cancelRequested`, `walk`, `append` the Run's. `receipt`, `wantsSteering`, `row` and
`carried` are in the database and survive `Crash`; everything else does not.

Correspondence worth knowing when reading it beside the code:

* An action is the code between two awaits. A database call is one await; its commit and the
  code that resumes after it are one action, because a process that dies between the two leaves
  what one that dies after both leaves. `lock` names who holds `_lock` across an await.
* `enqueue` is `EnqueueStarts`/`EnqueueWaits` without a receipt and `AcceptBegins` followed by
  `AcceptStarts`/`AcceptWaits` with one. `start()` on a busy Session raises and changes nothing, on an
  idle one it is `EnqueueStarts`.
* Phase `admitting` joins the creation of a Run's task and its `start_run` commit: nothing in
  between is observable except cancellation, which both allow.
* `Drain` is the loop of `_drain_next_locked` up to its next await; the set `refused` is what
  admission refuses in this pass. Only a refused durable item makes the loop await.
* Steering is `Boundary` (the snapshot at a model-request boundary), then one append at a
  time: the snapshot is walked while others change the Queue, which is where its races are.
* Which inputs are refused, removed, abandoned, steered or enqueued as steering
  (`Refusable` ... `Selected`) is fixed by constants, so that a configuration chooses the
  combinations it explores; `Faults` names the database calls that may fail, `Endings` how an
  executor may end.
* `Restart` joins `recover_interrupted_runs` and the synchronous restore of queued receipts:
  the runtime performs them before any producer runs.
* One reserving scope stands for the scopes of channel ingress.

* `EditBegins` and `Edits` are an edit of a queued input: the lock of the queue, the write of the receipt, then
  the exchange of the live item's text. `rewritten` is what the receipt says, `edited` what the item says, and the
  two must agree whenever no edit is between its two steps.

Not in this model: attachments, cancel callbacks of single tool calls (`RunApprovals` has those of approvals), and
clearing several addresses in one call.

### AdmissionGuards

`prep` holds a producer's `_AdmissionPreparation`, `work` what it installed (an active Run or a queued
item: the guards treat them alike), `guardedSessions`, `guardedAgents`, `guardedProjects` the
guards. A Session transition guards a set of addresses at once, so `guardedSessions` is a set
of sets, one for each held guard. Agents are keyed by their anchor, as in the code: an Agent of a
Project and an Identity Agent of the same name are two. `version` counts the ended transitions of a
Project; the code has no such counter, it is what `BoundProjectUnchanged` compares.

### SnapshotBarrier

An actor is a worker thread or a task of the event loop (`LoopTasks`); only which of the two it is
decides whether it may wait. `changes` is its nest of `member_change` entries, whose length the code
keeps in `_thread_depths`, `compounds` how many compound mutations it is inside of. Each entry and
exit runs under a condition variable's lock and is one action; `Commit` is a transaction or a document
replaced in between. A worker waiting on a condition variable and a task waiting on a future are both in `asleep`, and
`Woken` says which of them a notification reaches. `pc` follows a capture through `capture_members`: barrier,
freeze, drain, copies, thaw, end of the exclusive part, trailing copies. `Attempts` is `CAPTURE_ATTEMPTS`.

* Held databases are copied by name and the documents after them; the model copies the held members in
  any order, since nothing depends on it. The documents are one held member.
* The waits of a capture have deadlines, or are cancelled: giving up is possible whenever what is waited for has
  not happened, and time is not modelled.
* A compound mutation is entered outside any change, as its doc demands and its callers do. A change that must not wait and
  gets `MemberFrozenError` changes nothing and is left out.
* `contents` are versions; `instant` remembers what they were when the anchor was copied. It is history and no guard reads it.

### RunApprovals

A call is a Tool call that asks for one access of its Run; `stage` follows `ToolContext.request_approval` (its cancellation is
registered, it asks, it takes its execution slots again), `future` is the future of its request. `pending`, `rejected` and
`shown` are the registry's requests, its rejections by Run, and the snapshot accessors were last given; `Covers` stands for
`_rejection_covers`, which compares two accesses. An observer is the task of a Channel reply that follows the Run: it walks a
copy of `_approval_ids`, claims a notice before it announces it, and sleeps on `_approvals_changed`.

* Observers overlap only if they stay: an engine is replaced, never doubled, so `Leave` needs that no other observer follows. This
  matters. Two observers share one `asyncio.Event`, and one that left between its wake-up and its claim would
  leave the other asleep with a request unannounced; the code gives no such pair a chance.
* Granting a Session rule beside an answer, and the wording of a request, change nothing that is asked here and are left out.

### SharedRefresh and WorkerPool

`SharedRefresh` is one refresh on one Event Loop. `contents` is a version of what is reread, `announced` the newest change that was
announced (the event bus's last sequence, which callers pass as their mark). A run reads the contents at one unknown moment between
its start and its end. `asked` remembers what a call may expect: what was announced, or without a mark everything there was.
A done task stays in `running` or `waiting` until its callback has run, a turn of the loop later: `Live` is the `done()` test.

In `WorkerPool` several loops share an executor. `free` and `waiters` are a loop's semaphore, `work` the executor's future of each call,
`phase` is where the call is in `_run_with_guard`. A cancelled caller stays in `settling` until its thread has ended.

### CompletionDelivery

One Session. `bucket` maps a held notice to its fields; `rank` is its place in the order of submission, which decides what the loop looks at first. `pc` is
where the delivery task waits, in `_deliver`, `_persist_once` or `aclose`; `batch` is its local list of notices and `message` those of them whose body the
message of the follow-up Run holds (one already in History is replaced by `UNREAD_COMPLETION_TEXT`). `run` is the active Run of the Session, started
by other ingress or by the delivery: it alternates between a request boundary (`ready`, `appending`) and a request (`asking`), and a follow-up Run first writes its
input (`admitted`, `input`). An input that was not written is still a deferred note and has two more attempts: the cleanup of the Run, without the lock (`failed`, `cut`), and its end (`last`). `lock` is the Session's write lock. A Run's `count` is its `iteration_count`.

* An action is the code between two awaits, from the head of the loop to the next wait. An append is two actions: what it carries is fixed by the first one, and the
  second one is its commit with the code that resumes after it, or its failure.
* `Decide` is what both passes of the loop do with the notices they collected: keep the quiet ones as a System Reminder first, give the rest to an active Run or take them to a follow-up Run.
* `shown` and `seen` are history: what is in the request whose answer is awaited, and what the Model answered a request with. No guard reads them.
* `astray` collects the notices that two messages may carry, and those whose input was written without its callback. They are the cases under Findings, and the properties hold for every other notice.
* `start_run` returns some awaits after the Run is registered, and raises some awaits after another Run refused it. The first gap is merged with the wait for the Run, which is the same to every other
  step (`Close` in it is `FollowUpStarts`, then `Close`); the second one is `refused`, since the other Run may end in it (`_completion.py:603`).
* `RunLimit` never binds: a result has at most one follow-up Run.

Not in this model: results with an owner, execution groups, Sessions that move, are replaced or are missing, the relay of a follow-up Run to a Channel, and what a
schedule adds to a start.

### OnceFire

One job. `mem` is the job in `_jobs`, `disk` the job in `jobs.json`, `claim` the claim file, `writer` the queue of the `OrderedWorker` that all
writes of the service go through, each with the caller that waits for it: the task (`fire`), the edit, the task of a stopped
service, or nobody. `phase` follows `_run_once_job` with the calls it makes; `admitted`, `pending` and `held` are the service's
`_admitted_once_runs`, `_pending_restarts` and the jobs held because their claim could not be read.

* A write lands in the step in which its caller goes on, in the order in which writes were handed over; what the loop does in between reads neither file.
  All retries of one save are one write.
* `Replaces` is `_cancel_job_task` followed by `_restart_job_task`: a task in the middle of a fire is left alone and started again
  when it ends, any other one is replaced.
* `Undo` is the path of a failed save of an edit or a delete; `TakenBack` is `_take_back_edit` with `_restore_once_budget`.
* `Stop` cancels the tasks. A Run may still be admitted for the cancelled fire, since the cancellation of `trigger_run` may come after it.
* `left` is `runs_left`, 0 or 1 for a one-time job.

Not in this model: recurring and event jobs, several jobs (they share the writer and the edit lock, which makes one job see
longer queues only), a job's count set by hand, alerts and notifications.

## 3. Runs

| Run | Instance | States | Shows |
|---|---|---|---|
| `event_stream` | one subscriber, window 3, queue 2, byte limit 3, sizes 0 and 2, five events | 306,218 | `LiveQueueComplete`, `MemoryBounded`, refinement of `OrderedFeed`, `EveryEventArrives`, `SettledStreamReleases` |
| `run_queue` | one Session, two durable inputs and a transient one, steered, removed, refused, abandoned; a process death | 826,866 | `OneRunPerSession`, `QueueIsServed`, `NoOvertaking`, `WithdrawnWorkNeverRuns`, `InputsRunOnce`, refinement of `InputLedger` |
| `run_faults` | two durable inputs, steered, edited, removed and refused at one waiting slot; failing database calls, two process deaths | 45,701 | `NothingAcceptedIsLost`, `QueueMatchesReceipts`, `OutcomeIsDurable`, `AcceptedInputIsAnswered`, `StopReleasesSession`, `ShutdownDrains` |
| `run_remove_race` | durable input both steered and removed | | violated: see Findings |
| `run_approvals` | a Run with a reading and a writing call, two observers | 91,715 | `RejectionsLast`, `RequestsAreAnnounced`, `CallsAreReleased` |
| `admission_guards` | an Agent of a Project with two Sessions, an Identity Agent, two producers, two guards | 30,332 | `GuardsExcludeWork`, `GuardsExcludePreparations`, `BoundProjectUnchanged` |
| `snapshot_barrier` | a worker and a loop task, nesting two deep; a held member, anchor and trailing member, two attempts | 319,228 | `WaitersHoldNothing`, refinement of `InstantSnapshot`, `WaitersEnter`, `CapturesEnd`, no deadlock |
| `shared_refresh` | three callers with and without a mark, two runs, one change | 290,599 | refinement of `FreshRead`, `EveryCallIsAnswered` |
| `worker_pool` | two threads, three calls of one loop and one of another, two guarded | 25,906 | `SlotsAreHonest`, `WaitsOnlyForOtherLoops`, `EveryCallLeaves` |
| `completion_delivery` | a waking and a quiet result, two Runs of other ingress with one answered request each, two faults | 664,591 | `StoredOnce`, `ProducersLearnTheTruth`, `ReadWasAnswered`, `StopWakesNobody`, `EveryResultSettles` |
| `once_fire` | two instants, two edits, eight failing writes, two ends of the process | 565,537 | `FiresOnceUnlessPutBack`, `ReplacementKeepsItsFire`, `ArmedJobSettles` |
| `once_fire_delete` | one edit, one failing write | | violated: see Findings |

Types are not checked by runs: `TypeCorrect` of each proof module proves them (`RefreshTypesCorrect` those of `SharedRefresh`, whose names begin with `Refresh` because one
module proves both parts of `workers.py`).

Bounds. Every limit of the code (window, queue, waiting work, scope, threads, attempts) is a constant and is given a value
that the instance exceeds, so trimming, overflow and rejection happen. `MaxEvents`, `MaxCrashes`, `MaxChanges`, `MaxEdits`, `MaxFaults`,
`MaxGuards`, `MaxNesting`, `MaxRuns`, `MaxIterations` and `MaxVersion` bound a behaviour's length and appear only in the guard of the action they
bound. Three inputs are enough for the Queue: a running one, one waiting ahead and one behind; Sessions
share only the waiting limit, for which it does not matter whose input fills it. Subscribers do not interact except through the order
of publication, which one subscriber already sees in every form. One commit to each member tells
copies from before and after it apart, two attempts show that a retry keeps nothing of the first, and nesting two deep puts each
kind of entry inside each other. Three calls and two tasks have a refresh start, be joined and be waited for. A loop needs more calls than
the pool has threads, and another loop whose work is in the way. A waking and a quiet result take every way through delivery and meet on it; with one Run that is asked once and one that follows, a result can be carried
by one and read in the other, and one fault reaches each place where a call fails or a start is refused. The faults of `once_fire` are as many as matter: with six, every save of a fire and of the edit around it fails, and
a claim is replaced while no save has recorded its fire; with fewer, that case does not happen, and fourteen add none.

Two choices in the passing runs are not bounds. (a) `Faults` leaves out `drain` and `withdraw`, the failure of
withdrawing a refused or never admitted receipt: such a receipt stays queued with no live item
until a restart restores it, and the hazards list says so. (b) No durable input is both `Steerable` and
`Removable`: that combination is the finding below, and `run_remove_race` isolates it.

`CHECK_DEADLOCK FALSE`, in all but `snapshot_barrier`: these systems may really stop. A stream that has settled, a manager that has closed,
a job that has fired and an instance whose inputs are used up have nothing left to do. That nothing stops too early is
what the liveness properties check.

Fairness. No user action and no fault is fair in any module.

* `EventStream`: a generator that can run, runs, and readers that were woken read on; no publisher is obliged to publish.
* `RunManager`: `LoopFairness` says that the event loop schedules what is ready, the database answers, a cancelled executor stops (the code
  cancels its task), and a supervisor restarts a dead process. `Release` has strong fairness because `asyncio.Lock` wakes its waiters in
  order, while the lock can be taken between two of its attempts. That executors end by themselves (`ExecutorsEnd`) is a hypothesis of
  `AcceptedInputIsAnswered` only; `StopReleasesSession` and `ShutdownDrains` hold without it.
* `SnapshotBarrier`: a capture goes on (its waits end, at the latest with their budgets) and an actor which was notified looks again; nobody is obliged to
  leave a change or a compound mutation.
* `RunApprovals`: calls and observers go on, and an ended Run is finished; nobody has to answer, and a Run need not end.
* `SharedRefresh`, `WorkerPool`: tasks, callbacks and threads run, and a refresh, a guard and a function on a thread end, which is the contract of what is
  handed to them. Cancellation and shutdown need never come.
* `CompletionDelivery`: the delivery task goes on, as the event loop schedules it and its waits end, and Runs end, having a bounded number of requests. Nobody has to submit, withdraw, start a Run or
  close, and `EveryResultSettles` does not assume that the service ever closes.
* `OnceFire`: the task and the writer go on, Runs end, and time passes.

## 4. Findings

`run_remove_race`. `ChatAccessorInputs.remove` (`core/chat/_accessor_inputs.py:383`) tests `steering_in_flight`, then awaits
the durable removal. Delivery of steering does not take that lock. In the await it can begin the item's append: the
receipt is removed under it, `remove_queued` refuses (the user is told that nothing was removed), the
append's commit finds the receipt gone and the active Run fails, and the item stays in the Queue without a
receipt, to start later a Run that cannot be claimed. The domain map `runs/queue-and-admission.md:27` says that in-flight
persistence rejects removal and line 54 that the receipt write and the change in memory are serialized.

`once_fire_delete`. `CronService.delete_job` (`core/automation/cron.py:1257`) puts the removed record back when the save of the deletion
fails, without the correction that the undo of an edit makes (`_restore_once_budget`, line 994). If the Run of the fire was admitted while
the job was gone, the record returns with its fire unspent: the task that admitted the Run saves the job as active, removes the claim,
and the restarted task fires the same instant again. The comment at `_cron_scheduler.py:377` and `.vorch/domain-maps/automation/cron.md:62` say that an admitted Run consumes the
fire.

`FiresOnceUnlessPutBack` holds apart from that case and two more, which all go through `putBack`. (a) The undo of an edit of a job that was held at start restarts the
job's task (`cron.py:996`), although its claim could not be read and the comment at `_cron_scheduler.py:63` keeps such a job from firing. (b) Every save of a
fire that had its Run fails, so that only its claim records it; an edit schedules another instant, which comes; the new fire's claim replaces the old one, since a job has one claim
file; and the save of that edit, which was waiting in the queue ahead of the claim, had failed. `jobs.json` still names the first instant, nothing guards it, and a
crash then lets it fire again. It takes six failing writes in a row, and was met while proving the invariant.

`CompletionDelivery`: the cases of `astray`. The comment at `_completion.py:663` says of what a follow-up Run leaves behind that it ended before its message reached the Session, and
`.vorch/domain-maps/automation/completion-delivery.md` (lines 9 and 48) that results are never stored twice, that a claimed result is delivered once, as submitted, and that only closing makes delivery at-least-once.
`StoredOnce`, `ProducersLearnTheTruth`, `ReadWasAnswered` and `StopWakesNobody` hold for every notice but these:

* The input append of a follow-up Run fails, or the Run is cancelled before a thread has begun it. The body is still a deferred note (`core/chat/_run_execution.py:371`), which the cleanup at line 446 writes all the same ("Deferred notes left by
  a failed input append still persist"), or, if that fails too, the Run's end (line 620). The callback at line 437 is skipped. The result is in the Session, but `_completion.py:662` releases its claim and persists it a second time as a System Reminder, and until that
  claims it a withdrawal succeeds. One failing call, or one cancellation, is enough. It contradicts line 9 of `completion-delivery.md` ("so they are never stored twice") and the comment at `_completion.py:663`. In the model: `InputUndone`, `NotesKept`, `FollowUpOver`, `PersistLocks`,
  `Loads`, `Writes`; without the entry in `astray` that `NotesKept` makes, TLC reports `StoredOnce` violated after these steps, and `ProducersLearnTheTruth` after `FollowUpOver`, `Withdraw`.
* A request boundary takes a notice that the delivery task has in hand (places `surface`, `starting`, `refused`, `following`: `_deliver` awaits the reply surface and the start of the follow-up Run at lines 490 and 532,
  and `deliver_to_request` takes any notice that is ready for its Run, line 390, claimed or not). The refused start then releases the claim (line 595) while the request's append is under way: a withdrawal succeeds although the
  body is stored, or the join resets `read_after`, so that the notice counts as read before an answer. If the other Run ends first, the follow-up Run stores the body a second time, even after a user's Stop of that other Run.
* The follow-up Run is cancelled while it appends its input. The append settles first and commits; the callback that acknowledges the notices is skipped (`core/chat/_run_execution.py:398`). The delivery takes the input for lost and persists
  the notices again as a System Reminder, and until then a withdrawal succeeds.
* The service closes while the follow-up Run has not written its input: both may store the body. This one is documented, as at-least-once.

The second and the third need a second Run to start, or a cancellation to come, within one await of the delivery; the first one does not. They are excluded by name in the properties, not by the model's guards.

## 5. Proofs

The proof modules are checked by TLAPS for every value of the constants that satisfies the named assumptions.

* `EventStream`. Assumed: limits are positive, sizes fit the byte limit, `Idle` is no subscriber. `StreamInv` strengthens the checked
  invariants: retention is a window that ends with the last event; a subscriber past catch-up has as queue exactly
  the events after its cursor; during catch-up its queue is an increasing sequence and whatever is missing from it is still
  to be found by a rescan or shows as a gap; the list being walked is a run of consecutive events. None of `LiveQueueComplete` and
  `NormalEndSawEverything` is inductive alone: overflow during catch-up is harmless only because of what the rescan will find. One
  lemma per action, one step per conjunct. `ImplementsOrderedFeed` then maps each step to a step of the feed or a stutter. `MemoryStaysBounded` has an invariant of its own,
  `MemoryInv`: the running totals of the log grow by the sizes of its events, the retained window fits both limits, and a queue is a run of
  consecutive events that ends with the newest one unless it belongs to a catching-up subscriber and is full. Its bytes are then a difference of two totals, so no sum over a sequence has to be reasoned about.
* `AdmissionGuards`. Assumed: addresses have an Agent and an anchor, `None` is none of them. `GuardInv` adds to the four checked properties
  `ChangesNoted`: a preparation has noted every Project whose guarded transition began or ended since it was registered. Without it
  `BoundProjectUnchanged` is not inductive, since a transition may begin and end between registration and binding.
* `SnapshotBarrier`. Assumed: member roles are disjoint, there is at most one anchor, `None` is no capture, version or copy. `BarrierInv` says
  that `mutations` and `inFlight` are the cardinalities of the sets of entries they count (so a counter at zero means that nobody
  is inside), that one capture holds the barrier and the freeze is its own, that an undisturbed freeze has no held change in
  flight, and what the copies made so far are worth. `SnapshotIsOneInstant` rests on the last two: while nothing disturbs a freeze, held contents
  cannot move, so copies taken one after another equal the contents at the anchor's copy. `ImplementsInstantSnapshot` maps that copy to
  the abstract `Take`, a disturbance to `Drop`, the return of `capture_members` to `Publish`.

* `RunManager`. Assumed: a Session for every input. `Inv` (`InputIsSound` for each input) says what receipt, Run row, History and executor of one input may be together; it ranges over one
  input at a time, because inputs share nothing durable. `InputsRunOnce` and `ClaimedInputIsKept` follow from it. Most of the thirty-odd actions touch the tables of no
  input: a quiet step changes neither tables nor phase, and one lemma disposes of all of them. `ImplementsInputLedger` maps the commits of accepting, claiming, steering, removing,
  writing and finishing to the ledger's steps and everything else to a stutter.
  The Queue needs to know where an input is. `PlaceInv` says it: who waits has not begun and waits once; a Session names the one Run that may still act on it, and every
  Run that is not over is named; an input is known from its acceptance on; what the holder of the lock found (an idle Session, a drain's Session without a Run) still holds when its call returns;
  nothing runs while the process is down. `FlagInv` says that an item is in flight exactly while an executing Run of its Session appends it. The two are inductive together, and `OneRunPerSession` is part of the first.
  The argument goes over three kinds of step: most only let items leave and Runs go on (`Calm`), five accept an input (`Installs`, `Joins`), two drain (`DrainEffect`). On top of it stands one invariant for each promise:
  * `FutureInv` (what an item's Future may be in each place) for `WithdrawnWorkNeverRuns`. A drain starts no abandoned item, although the callback that takes it out may not have run yet.
  * `OrderInv` for `NoOvertaking`: waiting items that nobody steered are in the order of `arrivals`, and a drain that awaits the database goes through a Queue that is already sorted. Steering an item behind
    its back would break the order it relies on, and cannot happen because it holds the lock.
  * `ServedInv` for `QueueIsServed`, provided that `"drain"` is not in `Faults`. The code does not repeat the removal of a receipt that a drain awaits; if it fails, the Queue is left without a Run and the property does not hold (§3, the hazard at `runs.py:1237`).
  * `WithdrawnInv` and `HeldInv` for `NothingAcceptedIsLost`, provided that neither that removal nor the one of a Run that ends unadmitted (`"withdraw"`) fails, for the same reason. Every other call may fail.
  * `OutcomeInv` for `OutcomeIsDurable`: which row a Run may have in each phase, and that a cancellation is never overwritten by another verdict than a failed commit.
  * `AgreeInv` for `QueueMatchesReceipts`. It holds of every item except one that its user may remove and steer; that exception is the finding of `run_remove_race`, and `MutationsAgree` says, without any hypothesis, that nothing else
    can part the Queue and the receipts. `QueueIsDurable` is the property itself where there is no such item, which is how `run_faults` is instantiated.
* `SharedRefresh`. Assumed: versions are numbers, `None` and `Failed` are not. `RefreshInv` (`TasksInvariant`, `VersionsInvariant`, `CallsInvariant`) says that a created task is the waiting one and waits for whatever runs, that
  a running task is the one `running` names and began after its mark was announced, and that a call's task will answer with a version the call accepts. `OneRunsAndOneWaits` and the refinement of
  `FreshRead` follow: a caller that joins the running task may do so only because the mark did not move since it began.
* `WorkerPool`. Assumed: finitely many calls, at least one thread. `Inv` (`SlotsAreHonest`, `WorkIsOwned`) ties `free` and `active` to the cardinalities of the admitted calls, and a call's phase to its work. `NobodyWaitsForItsOwn` is then a counting argument:
  if a call's work is queued and every thread works for its own loop, that loop has admitted more calls than its semaphore has slots.
* `RunApprovals`. Assumed: every call and observer has a Run, an access covers itself. `Inv` (`PendingCallsAsk`, `RejectionsKept`) says that a pending request waits in a Run that is not finished, that the rejections of a Run are
  the ones the operator gave, and that no pending request is covered by one of them; `RejectionsAreFinal` is an action property that follows from it.
* `CompletionDelivery`. Assumed: finitely many notices. `Inv` (`LockInv`, and `NoticeInv` for each notice) says of a notice that is not astray: as long as it is held, the Session has its body exactly if a request carried
  it; and a message on its way to the Session (a request's note, the input of a follow-up Run, a reminder) carries only held, claimed and unsent notices, of which no other message under way has one. `StoredOnce` and `ProducersLearnTheTruth`
  are not inductive without the second half: a withdrawal between the claim and the commit, or a second carrier, would break them one step later. The Session's lock keeps request, input and reminder apart; that a follow-up Run and a request do not share a notice rests on the claim. One lemma
  (`TaskMovesOn`) disposes of the steps of the delivery task that hand nothing over, one (`MessageOverInv`) of the end of a Run's message.
  `ReadInv` stands on `Inv` and is about reading. The code infers that a result was read from two numbers, how many requests its boundary Run has answered and how many it had when the note was appended, so `Unread` says what makes that
  sound: as long as no answered request had n, its boundary Run has answered none since the note, a request under way has it, and any other active Run has answered nothing at all. The last part is what a result needs that passes from a Run that ended
  to the next one and starts from zero there. `Surfaced` says of what the task is about to start a follow-up Run for that nobody suppressed it and that its boundary Run is neither active nor stopped: a Stop that comes while
  the task looks up the reply surface can only be that of an active Run. `ReadWasAnswered` and `StopWakesNobody` follow. Most steps of the task keep `ReadInv` by one lemma (`LeavesReadInv`: notices leave, none gets another Run), the steps that give a notice another Run
  by `RejoinsReadInv`.

* `OnceFire`. Assumed: at least one instant and one attempt, and bounds that are numbers. `Inv` says when a fire that had its Run may still be announced. In memory (`JobInv`): only by a job whose task is
  between the admission and the record of its Run, or that is held. In `jobs.json` (`DiskInv`): only if the claim file names it. By an edit (`EditInv`): the job it would bring back must not be one that has just
  fired, unless the undo corrects it, and the instant it schedules is not fired before its save has landed and claimed its due. None of this is inductive without what may still reach the disk, because writes land long after they were
  handed over and in an order the caller does not see: `QueueInv` says of every waiting write whose it is (`OpCalled`), what it may leave (`OpSafe`: no save brings back a used fire, and no claim is taken from one, except by the
  instant an edit has scheduled) and which two may wait in which order (`PairSafe`). The proof therefore has two parts: lemmas about a queue that grows at its end, loses its head or has its writes renamed (`QueueGrows`, `QueueServes`,
  `QueueOrphans`), where a write lands (`ServedSafely`) and who goes on (`LandsLast`, `LandsMore`); then one lemma per action. `NoFireIsRepeated` and `ReplacementIsNotSpent` follow, and so does `UsedFireIsClaimed`, on which
  `Start` relies after a crash. The case (b) of Findings is the one `putBack` has to name for `OpSafe` to hold.

The lemmas about sequences (`KeptSelects`, `FirstInFound`, `SteeringFirstSorts`, `WithoutLeaves`, `Places`, `HeadFirst`, `RestAfter`) are proved for sequences of any length. The library's induction theorems take an operator as a parameter and cannot be
used; `Induction` here is about a set of numbers instead, and follows from `WFMin` and `NatLessThanWellFounded`. For that the model filters with `Kept`, a recursive function over the positions of the sequence, and not with `SelectSeq`, whose
recursive definition the provers cannot open.

Every invariant that a passing run checks is proved. Only model-checked are the liveness properties (`EveryEventArrives`, `SettledStreamReleases`, `AcceptedInputIsAnswered`, `StopReleasesSession`, `ShutdownDrains`, `RequestsAreAnnounced`, `CallsAreReleased`,
`WaitersEnter`, `CapturesEnd`, `EveryCallIsAnswered`, `EveryCallLeaves`, `EveryResultSettles`, `ArmedJobSettles`), and that `snapshot_barrier` has no deadlock. Conversely `ClaimedInputIsKept`, `RefreshesDoNotPileUp`,
`TrailingIsAhead` and `ConsumedFireIsGuarded` are proved and not checked by a run. That waiting work stays bounded is claimed nowhere: a restart restores every queued input, even beyond the waiting limit. Liveness under fairness is outside what the prover does.

## 6. Plan and what is not modelled

1. Done: `EventStream`, `RunManager` with the edit of queued input, `AdmissionGuards`, `SnapshotBarrier`, `SharedRefresh`, `WorkerPool`, `RunApprovals`, `OnceFire`, `CompletionDelivery`.
2. Done: the proofs named above.
3. Next: the forwarding of subagent results (`core/subagents/forwarding.py`) on top of `CompletionDelivery`, whose bucket then belongs to a Session that the forwarding chooses, with the results that have an owner.
4. Then: the worker of a Channel conversation (`core/channels/engine.py`), the recovery of archive moves (`core/archive/_recovery.py`), whose state is files and their names, and the update with rollback
   (`core/database/update_rollback.py`), which another process performs.
5. `RunManager`: cancellation callbacks of single tool calls, clearing several addresses at once, and a failing withdrawal inside the drain.

Outside the plan: adapters of providers, channels and user interfaces (I/O and wire formats), prompts, compaction, memory and recall (transformation of text), configuration, policies and stored credentials
(sequential decisions over documents), tools, skills and extensions (files, processes, foreign code), and the counters and reports nothing else depends on. The `components` of `PROJECT.json` name each of them.
