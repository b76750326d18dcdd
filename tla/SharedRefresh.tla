--------------------------- MODULE SharedRefresh ---------------------------
(***************************************************************************)
(* core/utils/workers.py, SharedRefresh on one Event Loop: concurrent      *)
(* callers of a rescan share its runs, and each gets the outcome of a run  *)
(* that saw every change made before it asked.                             *)
(*                                                                         *)
(* A change of what the refresh rereads takes effect at any time and is    *)
(* announced later; the mark of a run and of a caller is the newest change *)
(* announced when it is read (server/rpc/skill_methods.py uses the event   *)
(* bus's last sequence).  A run reads the contents at a moment nobody else *)
(* sees, between its start and its end.                                    *)
(***************************************************************************)
EXTENDS Integers

CONSTANTS
  Callers,     \* calls of run()
  Tasks,       \* bound: the tasks run() may create
  MaxChanges,  \* bound: changes of the contents
  None, Failed

ASSUME CountAssumption == MaxChanges \in Nat
ASSUME NoneAssumption ==
  None \notin Tasks \cup Int /\ Failed \notin Int /\ Failed # None

VARIABLES
  contents,   \* the version of what the refresh rereads
  announced,  \* the newest version announced: the current mark
  waiting,    \* SharedRefresh._waiting
  running,    \* the task of SharedRefresh._running
  mark,       \* the mark of SharedRefresh._running
  status,     \* of each task
  previous,   \* the task each task waits for before it starts
  outcome,    \* of each task that is done: the version it read, or Failed
  forgotten,  \* tasks whose done callback has run
  began,      \* history: the contents when each task started
  task,       \* the task each call awaits
  leaving,    \* calls whose caller was cancelled while they waited
  asked,      \* history: the oldest version each call accepts
  answer      \* what each call returned: a version, Failed, or None

taskVars == <<status, previous, outcome, forgotten, began>>
callVars == <<task, leaving, asked, answer>>
refreshVars == <<contents, announced, waiting, running, mark, taskVars, callVars>>

RefreshTypeOK ==
  /\ contents \in Nat /\ announced \in Nat /\ mark \in Nat
  /\ waiting \in Tasks \cup {None} /\ running \in Tasks \cup {None}
  /\ status \in [Tasks -> {"free", "created", "refreshing", "done"}]
  /\ previous \in [Tasks -> Tasks \cup {None}]
  /\ outcome \in [Tasks -> Nat \cup {Failed, None}]
  /\ forgotten \subseteq Tasks
  /\ began \in [Tasks -> Nat]
  /\ task \in [Callers -> Tasks \cup {None}]
  /\ leaving \subseteq Callers
  /\ asked \in [Callers -> Nat \cup {None}]
  /\ answer \in [Callers -> Nat \cup {Failed, None}]

RefreshInit ==
  /\ contents = 0 /\ announced = 0 /\ mark = 0
  /\ waiting = None /\ running = None
  /\ status = [t \in Tasks |-> "free"]
  /\ previous = [t \in Tasks |-> None]
  /\ outcome = [t \in Tasks |-> None]
  /\ forgotten = {}
  /\ began = [t \in Tasks |-> 0]
  /\ task = [c \in Callers |-> None]
  /\ leaving = {}
  /\ asked = [c \in Callers |-> None]
  /\ answer = [c \in Callers |-> None]

Unused == {t \in Tasks : status[t] = "free"}
NewTask == CHOOSE t \in Unused : TRUE

Live(t) == t # None /\ status[t] # "done"

(* The environment. *)
Change ==
  /\ contents < MaxChanges
  /\ contents' = contents + 1
  /\ UNCHANGED <<announced, waiting, running, mark, taskVars, callVars>>

Announce ==
  /\ announced < contents
  /\ announced' = contents
  /\ UNCHANGED <<contents, waiting, running, mark, taskVars, callVars>>

(* run() up to its first await.  A marked caller asks for what has been    *)
(* announced, an unmarked one for everything there is.                     *)
Awaits(c, t, v) ==
  /\ task' = [task EXCEPT ![c] = t]
  /\ asked' = [asked EXCEPT ![c] = v]
  /\ UNCHANGED <<contents, announced, running, mark, leaving, answer>>

Wanted(marked) == IF marked THEN announced ELSE contents

JoinWaiting(c, marked) ==
  /\ task[c] = None
  /\ Live(waiting)
  /\ Awaits(c, waiting, Wanted(marked))
  /\ UNCHANGED <<waiting, taskVars>>

\* mutated form: the running task is joined whatever its mark is
JoinRunningAnyMark(c) ==
  /\ task[c] = None
  /\ ~Live(waiting) /\ Live(running)
  /\ Awaits(c, running, announced)
  /\ UNCHANGED <<waiting, taskVars>>

JoinRunning(c) ==
  /\ task[c] = None
  /\ ~Live(waiting) /\ Live(running) /\ mark = announced
  /\ Awaits(c, running, announced)
  /\ UNCHANGED <<waiting, taskVars>>

Create(c, marked) ==
  /\ task[c] = None
  /\ ~Live(waiting)
  /\ Live(running) => ~(marked /\ mark = announced)
  /\ Unused # {}
  /\ status' = [status EXCEPT ![NewTask] = "created"]
  /\ previous' = [previous EXCEPT ![NewTask] = IF Live(running) THEN running ELSE None]
  /\ waiting' = NewTask
  /\ Awaits(c, NewTask, Wanted(marked))
  /\ UNCHANGED <<outcome, forgotten, began>>

(* _start, once the previous run has settled: one step with the mark.      *)
Start(t) ==
  /\ status[t] = "created" /\ ~Live(previous[t])
  /\ status' = [status EXCEPT ![t] = "refreshing"]
  /\ waiting' = IF waiting = t THEN None ELSE waiting
  /\ running' = t /\ mark' = announced
  /\ began' = [began EXCEPT ![t] = contents]
  /\ UNCHANGED <<contents, announced, previous, outcome, forgotten, callVars>>

Finish(t) ==
  /\ status[t] = "refreshing"
  /\ status' = [status EXCEPT ![t] = "done"]
  /\ \E v \in began[t]..contents \cup {Failed} : outcome' = [outcome EXCEPT ![t] = v]
  /\ UNCHANGED <<contents, announced, waiting, running, mark, previous, forgotten, began,
                 callVars>>

(* The done callback of a task, a turn of the loop after its end. *)
Forget(t) ==
  /\ status[t] = "done" /\ t \notin forgotten
  /\ forgotten' = forgotten \cup {t}
  /\ running' = IF running = t THEN None ELSE running
  /\ waiting' = IF waiting = t THEN None ELSE waiting
  /\ UNCHANGED <<contents, announced, mark, status, previous, outcome, began, callVars>>

\* mutated form: only the run's first caller hears of its end
ReturnFirst(c) ==
  /\ task[c] # None /\ answer[c] = None /\ c \notin leaving
  /\ ~Live(task[c])
  /\ \A d \in Callers \ {c} : task[d] = task[c] => answer[d] = None
  /\ answer' = [answer EXCEPT ![c] = outcome[task[c]]]
  /\ UNCHANGED <<contents, announced, waiting, running, mark, taskVars, task, leaving, asked>>

(* settle_before_cancelling: the caller goes on once its task has settled. *)
Return(c) ==
  /\ task[c] # None /\ answer[c] = None /\ c \notin leaving
  /\ ~Live(task[c])
  /\ answer' = [answer EXCEPT ![c] = outcome[task[c]]]
  /\ UNCHANGED <<contents, announced, waiting, running, mark, taskVars, task, leaving, asked>>

\* A cancelled caller keeps waiting and then raises: it hears no outcome.
Cancel(c) ==
  /\ task[c] # None /\ answer[c] = None /\ c \notin leaving
  /\ leaving' = leaving \cup {c}
  /\ UNCHANGED <<contents, announced, waiting, running, mark, taskVars, task, asked, answer>>

Call(c) ==
  \/ \E marked \in BOOLEAN : JoinWaiting(c, marked) \/ Create(c, marked)
  \/ JoinRunning(c)

RefreshNext ==
  \/ Change \/ Announce
  \/ \E c \in Callers : Call(c) \/ Return(c) \/ Cancel(c)
  \/ \E t \in Tasks : Start(t) \/ Finish(t) \/ Forget(t)

RefreshSpec == RefreshInit /\ [][RefreshNext]_refreshVars

(* The loop runs every ready task and callback, and a refresh ends.        *)
FairRefreshSpec ==
  /\ RefreshSpec
  /\ \A t \in Tasks :
       WF_refreshVars(Start(t)) /\ WF_refreshVars(Finish(t)) /\ WF_refreshVars(Forget(t))
  /\ \A c \in Callers : WF_refreshVars(Return(c))

(* Two refreshes never run at once, and at most one more task waits to     *)
(* start: however many callers come, the rescans do not pile up.           *)
RefreshesDoNotPileUp ==
  /\ \A t, u \in Tasks : status[t] = "refreshing" /\ status[u] = "refreshing" => t = u
  /\ \A t, u \in Tasks : status[t] = "created" /\ status[u] = "created" => t = u

(* The version a caller is given is no older than what it asked for: all   *)
(* of the contents when it called, or with a mark all that was announced.  *)
AnswersAreFresh ==
  \A c \in Callers : answer[c] \notin {None, Failed} => asked[c] <= answer[c]

(* Every caller that nobody cancels hears the outcome of its run, the ones *)
(* that joined a run other callers were cancelled out of included.         *)
EveryCallIsAnswered ==
  \A c \in Callers : (task[c] # None) ~> (answer[c] # None \/ c \in leaving)

(* Each call for itself is an atomic read of the contents.                 *)
Reads == INSTANCE FreshRead WITH Calls <- Callers
EachCallReadsAfterItAsked == Reads!Spec
=============================================================================
