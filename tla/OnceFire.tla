----------------------------- MODULE OnceFire -----------------------------
(***************************************************************************)
(* core/automation: the one-time fire of one Cron job.  Its task claims    *)
(* the fire in a file, has a Run admitted, records what became of it and   *)
(* removes the claim; meanwhile the job is rescheduled, paused, enabled or *)
(* deleted, writes fail, the service stops and the process dies.           *)
(*                                                                         *)
(* Every write of the job file or the claim goes through one OrderedWorker.*)
(* A write lands in the step in which its caller goes on: what the loop    *)
(* does between the two reads neither file.  All retries of one save are   *)
(* one write.  Dues are instants after which the job may fire; the clock   *)
(* moves forward only.  Fields of the job that do not decide whether it    *)
(* fires (last_error, notifications, alerts) are left out.                 *)
(***************************************************************************)
EXTENDS Integers, Sequences

CONSTANTS
  MaxDue,        \* bound: the instants a job may be scheduled for
  MaxAttempts,   \* _ONCE_MAX_FIRE_ATTEMPTS
  MaxEdits, MaxFaults, MaxCrashes,  \* bounds
  Failing        \* the kinds of write that may fail

ASSUME BoundAssumption ==
  /\ MaxDue \in Nat \ {0} /\ MaxAttempts \in Nat \ {0}
  /\ MaxEdits \in Nat /\ MaxFaults \in Nat /\ MaxCrashes \in Nat
  /\ Failing \subseteq {"claim", "unclaim", "fire", "edit", "delete", "boot", "read"}

Dues == 1..MaxDue

VARIABLES
  now,
  process,   \* "up", "stopped" or "down"
  mem,       \* the job in CronService._jobs
  disk,      \* the job in jobs.json
  claim,     \* the run_at of the claim file, 0 without one
  writer,    \* the writes handed to the OrderedWorker, in order
  phase,     \* where _run_once_job is
  due,       \* the fire the task works on
  attempts,  \* failed_fire_attempts
  success,   \* the Run of this fire succeeded
  pending,   \* the job is in _pending_restarts
  held,      \* at start its claim could not be read
  admitted,  \* _admitted_once_runs of the job, 0 without an entry
  editing,   \* the edit that holds the edit lock
  fires,     \* history: the Runs admitted for each due
  putBack,   \* history: the fires a failed edit or delete brought back
  edits, faults, crashes

taskVars == <<phase, due, attempts, success, admitted>>
bounds == <<edits, faults, crashes>>
history == <<fires, putBack>>
vars == <<now, process, mem, disk, claim, writer, taskVars, pending, held, editing, history,
          bounds>>

NoJob == [status |-> "gone", due |-> 0, left |-> 0]
Jobs == {NoJob} \cup
  [status : {"active", "paused", "completed", "failed"}, due : Dues, left : 0..1]
NoEdit == [kind |-> "none", before |-> NoJob, edited |-> NoJob, held |-> FALSE]

\* The phases in which the job is in _executing_jobs.
Executing == {"claiming", "slot", "announcing", "admitting", "started", "recording",
              "running", "orphaned", "ending", "finalizing", "refused", "cancelled",
              "settling", "consuming"}
Phases == Executing \cup {"none", "sleeping", "withdrawing", "abandoning", "abandoned", "ended"}

Writes == [kind : {"save", "claim", "unclaim"}, by : {"fire", "edit", "stopped", "nobody"},
           job : Jobs, due : Dues \cup {0}]

TypeOK ==
  /\ now \in 0..MaxDue /\ process \in {"up", "stopped", "down"}
  /\ mem \in Jobs /\ disk \in Jobs /\ claim \in Dues \cup {0}
  /\ writer \in Seq(Writes)
  /\ phase \in Phases /\ due \in Dues \cup {0} /\ admitted \in Dues \cup {0}
  /\ attempts \in Nat /\ success \in BOOLEAN /\ pending \in BOOLEAN /\ held \in BOOLEAN
  /\ editing \in [kind : {"none", "update", "delete", "clear"}, before : Jobs, edited : Jobs,
                 held : BOOLEAN]
  /\ fires \in [Dues -> Nat] /\ putBack \subseteq Dues
  /\ edits \in 0..MaxEdits /\ faults \in 0..MaxFaults /\ crashes \in 0..MaxCrashes

Init ==
  /\ now = 0 /\ process = "up"
  /\ mem = [status |-> "active", due |-> 1, left |-> 1]
  /\ disk = mem /\ claim = 0 /\ writer = <<>>
  /\ phase = "sleeping" /\ due = 0 /\ attempts = 0 /\ success = FALSE
  /\ pending = FALSE /\ held = FALSE /\ admitted = 0 /\ editing = NoEdit
  /\ fires = [d \in Dues |-> 0] /\ putBack = {}
  /\ edits = 0 /\ faults = 0 /\ crashes = 0

Active(j) == j.status = "active"
Armed(j) == Active(j) /\ j.left # 0

(* ----------------------------------------------------------------------- *)
(* The ordered writer.                                                     *)

Save(by, j) == [kind |-> "save", by |-> by, job |-> j, due |-> 0]
Claim(d) == [kind |-> "claim", by |-> "fire", job |-> NoJob, due |-> d]
Unclaim(by) == [kind |-> "unclaim", by |-> by, job |-> NoJob, due |-> 0]

Kind(op) ==
  IF op.kind # "save" THEN op.kind
  ELSE IF op.by # "edit" THEN "fire"
  ELSE IF op.job = NoJob THEN "delete" ELSE "edit"

(* The oldest write ends, in the file or with an error.                    *)
Written(by, ok) ==
  /\ writer # <<>> /\ Head(writer).by = by
  /\ LET op == Head(writer) IN
     /\ ~ok => faults < MaxFaults /\ Kind(op) \in Failing
     /\ faults' = IF ok THEN faults ELSE faults + 1
     /\ disk' = IF ok /\ op.kind = "save" THEN op.job ELSE disk
     /\ claim' = IF ~ok \/ op.kind = "save" THEN claim ELSE op.due

(* Its caller may then hand the next one over.                             *)
Lands(by, ok, next) == Written(by, ok) /\ writer' = Tail(writer) \o next

Stays == UNCHANGED <<disk, claim, faults>>
HandsOver(op) == writer' = Append(writer, op) /\ Stays

FireOnly == UNCHANGED <<now, process, held, editing, putBack, edits, crashes>>

(* ----------------------------------------------------------------------- *)
(* The task: _run_once_job, _claim_once_fire and _trigger_job_run.         *)

Wake ==
  /\ phase = "sleeping" /\ Active(mem) /\ now >= mem.due
  /\ phase' = "claiming" /\ due' = mem.due
  /\ HandsOver(Claim(mem.due)) /\ FireOnly
  /\ UNCHANGED <<mem, attempts, success, admitted, pending, fires>>

(* A fire that admitted no Run: try again later, or give the job up.       *)
AttemptFailed ==
  LET n == attempts + 1 IN
  IF n < MaxAttempts
  THEN [phase |-> "sleeping", attempts |-> n, mem |-> mem, next |-> <<>>]
  ELSE IF mem = NoJob
  THEN [phase |-> "ended", attempts |-> n, mem |-> mem, next |-> <<>>]
  ELSE LET failed == [mem EXCEPT !.status = "failed"] IN
       [phase |-> "abandoning", attempts |-> n, mem |-> failed,
        next |-> <<Save("fire", failed)>>]

Fails(ok) ==
  LET a == AttemptFailed IN
  /\ phase' = a.phase /\ attempts' = a.attempts /\ mem' = a.mem
  /\ Lands("fire", ok, a.next)

ClaimLands(ok) ==
  /\ phase = "claiming"
  /\ IF pending
     THEN /\ phase' = IF ok THEN "withdrawing" ELSE "ended"
          /\ Lands("fire", ok, IF ok THEN <<Unclaim("fire")>> ELSE <<>>)
          /\ UNCHANGED <<attempts, mem>>
     ELSE IF ok
     THEN phase' = "slot" /\ Lands("fire", ok, <<>>) /\ UNCHANGED <<attempts, mem>>
     ELSE Fails(ok)
  /\ FireOnly /\ UNCHANGED <<due, success, admitted, pending, fires>>

Withdrawn == ~Active(mem) \/ pending

TakeSlot ==
  /\ phase = "slot"
  /\ IF Withdrawn
     THEN phase' = "withdrawing" /\ HandsOver(Unclaim("fire"))
     ELSE phase' = "announcing" /\ HandsOver(Save("fire", mem))
  /\ FireOnly
  /\ UNCHANGED <<mem, due, attempts, success, admitted, pending, fires>>

AnnounceLands(ok) ==
  /\ phase = "announcing"
  /\ IF Withdrawn
     THEN phase' = "withdrawing" /\ Lands("fire", ok, <<Unclaim("fire")>>)
     ELSE phase' = "admitting" /\ Lands("fire", ok, <<>>)
  /\ FireOnly
  /\ UNCHANGED <<mem, due, attempts, success, admitted, pending, fires>>

Admit ==
  /\ phase = "admitting"
  /\ phase' = "started" /\ fires' = [fires EXCEPT ![due] = @ + 1]
  /\ Stays /\ FireOnly
  /\ UNCHANGED <<mem, writer, due, attempts, success, admitted, pending>>

\* mutated form: the Run is counted against whatever the job now is
SpentAlways(j) == [j EXCEPT !.left = 0]

(* The Run uses up this fire, and not the fire of another instant that the *)
(* job was meanwhile scheduled for.                                        *)
Spent(j) == IF j.due = due THEN [j EXCEPT !.left = 0] ELSE j

(* trigger_run returns the Run.                                            *)
Return ==
  /\ phase = "started"
  /\ admitted' = due
  /\ IF mem = NoJob
     THEN phase' = "orphaned" /\ Stays /\ UNCHANGED <<mem, writer>>
     ELSE phase' = "recording" /\ mem' = Spent(mem) /\ HandsOver(Save("fire", mem'))
  /\ FireOnly /\ UNCHANGED <<due, attempts, success, pending, fires>>

(* trigger_run raises before a Run is admitted; a job whose waiting input  *)
(* was cancelled fails for good.                                           *)
Refuse(cancelled) ==
  /\ phase = "admitting"
  /\ IF mem = NoJob
     THEN phase' = "withdrawing" /\ HandsOver(Unclaim("fire"))
     ELSE /\ phase' = IF cancelled THEN "cancelled" ELSE "refused"
          /\ HandsOver(Save("fire", mem))
  /\ FireOnly /\ UNCHANGED <<mem, due, attempts, success, admitted, pending, fires>>

CancelledLands(ok) ==
  /\ phase = "cancelled"
  /\ IF mem # NoJob /\ mem.due = due
     THEN /\ phase' = "refused" /\ mem' = [mem EXCEPT !.status = "failed"]
          /\ Lands("fire", ok, <<Save("fire", mem')>>)
     ELSE phase' = "withdrawing" /\ Lands("fire", ok, <<Unclaim("fire")>>) /\ UNCHANGED mem
  /\ FireOnly /\ UNCHANGED <<due, attempts, success, admitted, pending, fires>>

RefusedLands(ok) ==
  /\ phase = "refused"
  /\ phase' = "withdrawing" /\ Lands("fire", ok, <<Unclaim("fire")>>)
  /\ FireOnly /\ UNCHANGED <<mem, due, attempts, success, admitted, pending, fires>>

WithdrawLands(ok) ==
  /\ phase = "withdrawing"
  /\ IF pending \/ ~Armed(mem)
     THEN phase' = "ended" /\ Lands("fire", ok, <<>>) /\ UNCHANGED <<attempts, mem>>
     ELSE Fails(ok)
  /\ FireOnly /\ UNCHANGED <<due, success, admitted, pending, fires>>

RecordLands(ok) ==
  /\ phase = "recording"
  /\ phase' = "running" /\ Lands("fire", ok, <<>>)
  /\ FireOnly /\ UNCHANGED <<mem, due, attempts, success, admitted, pending, fires>>

RunEnds(succeeds) ==
  /\ phase = "running"
  /\ success' = (succeeds /\ mem # NoJob)
  /\ IF mem = NoJob
     THEN phase' = "ended" /\ admitted' = 0 /\ Stays /\ UNCHANGED writer
     ELSE phase' = "ending" /\ HandsOver(Save("fire", mem)) /\ UNCHANGED admitted
  /\ FireOnly /\ UNCHANGED <<mem, due, attempts, pending, fires>>

(* The end of _run_once_job for an admitted Run: save once more, and only  *)
(* then remove the claim.                                                  *)
Tails(ok) ==
  /\ admitted' = 0
  /\ IF mem = NoJob
     THEN phase' = "ended" /\ Lands("fire", ok, <<>>) /\ UNCHANGED mem
     ELSE /\ phase' = "settling"
          /\ mem' = IF success /\ Active(mem) /\ ~pending
                    THEN [mem EXCEPT !.status = "completed"] ELSE mem
          /\ Lands("fire", ok, <<Save("fire", mem')>>)

EndingLands(ok) ==
  /\ phase = "ending"
  /\ IF Active(mem) /\ mem.left = 0
     THEN /\ phase' = "finalizing"
          /\ mem' = [mem EXCEPT !.status = IF success THEN "completed" ELSE "failed"]
          /\ Lands("fire", ok, <<Save("fire", mem')>>)
          /\ UNCHANGED admitted
     ELSE Tails(ok)
  /\ FireOnly /\ UNCHANGED <<due, attempts, success, pending, fires>>

FinalizeLands(ok) ==
  /\ phase = "finalizing"
  /\ Tails(ok)
  /\ FireOnly /\ UNCHANGED <<due, attempts, success, pending, fires>>

(* The Run of a job that was deleted while it was admitted.                *)
OrphanEnds ==
  /\ phase = "orphaned"
  /\ admitted' = 0
  /\ IF mem = NoJob
     THEN phase' = "ended" /\ Stays /\ UNCHANGED writer
     ELSE phase' = "settling" /\ HandsOver(Save("fire", mem))
  /\ FireOnly /\ UNCHANGED <<mem, due, attempts, success, pending, fires>>

SettleLands(ok) ==
  /\ phase = "settling"
  /\ phase' = IF ok THEN "consuming" ELSE "ended"
  /\ Lands("fire", ok, IF ok THEN <<Unclaim("fire")>> ELSE <<>>)
  /\ FireOnly /\ UNCHANGED <<mem, due, attempts, success, admitted, pending, fires>>

AbandonLands(ok) ==
  /\ phase = "abandoning"
  /\ phase' = "abandoned" /\ Lands("fire", ok, <<Unclaim("fire")>>)
  /\ FireOnly /\ UNCHANGED <<mem, due, attempts, success, admitted, pending, fires>>

LastUnclaimLands(ok) ==
  /\ phase \in {"consuming", "abandoned"}
  /\ phase' = "ended" /\ Lands("fire", ok, <<>>)
  /\ FireOnly /\ UNCHANGED <<mem, due, attempts, success, admitted, pending, fires>>

Started(j) == IF Armed(j) THEN "sleeping" ELSE "none"

\* mutated form: the restart an edit asked for is forgotten
TaskDoneForgets ==
  /\ phase = "ended"
  /\ phase' = "none" /\ pending' = FALSE
  /\ attempts' = 0 /\ due' = 0 /\ success' = FALSE
  /\ Stays /\ FireOnly /\ UNCHANGED <<mem, writer, admitted, fires>>

(* _on_job_task_done, a turn after the task ended.                         *)
TaskDone ==
  /\ phase = "ended"
  /\ phase' = IF pending THEN Started(mem) ELSE "none"
  /\ pending' = FALSE
  /\ attempts' = 0 /\ due' = 0 /\ success' = FALSE
  /\ Stays /\ FireOnly /\ UNCHANGED <<mem, writer, admitted, fires>>

(* ----------------------------------------------------------------------- *)
(* Edits, one at a time under the edit lock.                               *)

\* The write a cancelled task still waits for has no caller any more.
Orphans(q, by) ==
  [i \in DOMAIN q |-> IF q[i].by = "fire" THEN [q[i] EXCEPT !.by = by] ELSE q[i]]

\* mutated form: a fire in progress is cut off by an edit
ReplacesAlways(start, q, next) ==
  /\ phase' = start /\ due' = 0 /\ attempts' = 0 /\ success' = FALSE
  /\ writer' = Orphans(q, "nobody") \o next
  /\ UNCHANGED pending

(* _cancel_job_task and _restart_job_task: a task in the middle of a fire  *)
(* ends by itself and is then started again, any other one is replaced.    *)
Replaces(start, q, next) ==
  IF phase \in Executing
  THEN /\ pending' = TRUE /\ writer' = q \o next
       /\ UNCHANGED <<phase, due, attempts, success>>
  ELSE /\ phase' = start /\ due' = 0 /\ attempts' = 0 /\ success' = FALSE
       /\ writer' = Orphans(q, "nobody") \o next
       /\ UNCHANGED pending

Edited(d, s) ==
  [mem EXCEPT !.due = d, !.status = s,
              !.left = IF d # mem.due \/ (s = "active" /\ mem.status = "failed") THEN 1 ELSE @]

(* _apply_edit: reschedule, pause or enable.  Arming needs a future due.   *)
Edit(d, s) ==
  /\ process = "up" /\ editing = NoEdit /\ edits < MaxEdits
  /\ mem.status \in {"active", "paused", "failed"}
  /\ <<d, s>> # <<mem.due, mem.status>> /\ s \in {"active", "paused", mem.status}
  /\ d # mem.due \/ (s = "active" /\ ~Active(mem)) => d > now
  /\ mem' = Edited(d, s)
  /\ editing' = [kind |-> "update", before |-> mem, edited |-> mem', held |-> held]
  /\ edits' = edits + 1
  /\ Replaces(Started(mem'), writer, <<Save("edit", mem')>>)
  /\ held' = (held /\ phase' = "none")
  /\ Stays /\ UNCHANGED <<now, process, admitted, history, crashes>>

(* _take_back_edit and _restore_once_budget on the live job: fields the    *)
(* edit changed return, what a fire recorded since stays.                  *)
TakenBack ==
  LET b == editing.before
      e == editing.edited
      back == [mem EXCEPT
        !.due = IF @ = e.due THEN b.due ELSE @,
        !.status = IF b.status # e.status /\ @ = e.status THEN b.status ELSE @,
        !.left = IF b.left = e.left THEN @
                 ELSE IF @ = e.left THEN b.left
                 ELSE IF b.left > e.left - @ THEN b.left - (e.left - @) ELSE 0] IN
  IF back.due = admitted THEN [back EXCEPT !.left = 0] ELSE back

EditSaved ==
  /\ editing.kind = "update"
  /\ Lands("edit", TRUE, <<>>)
  /\ editing' = NoEdit
  /\ UNCHANGED <<now, process, mem, taskVars, pending, held, history, edits, crashes>>

(* The save of an edit fails: the job goes back, and so does its task.     *)
Undo(job, restart, again) ==
  /\ Written("edit", FALSE)
  /\ mem' = job /\ editing' = NoEdit
  /\ IF process = "up" /\ restart
     THEN Replaces(Started(job), Tail(writer), <<>>)
     ELSE writer' = Tail(writer) /\ UNCHANGED <<phase, due, attempts, success, pending>>
  /\ held' = (held /\ phase' = "none")
  /\ putBack' = IF again THEN putBack \cup {job.due} ELSE putBack
  /\ UNCHANGED <<now, process, admitted, fires, edits, crashes>>

\* The undo of an edit starts the task of a job that was held; and a claim that
\* was already handed over for the edited due replaces that of an earlier fire
\* whose use no save has recorded.  putBack names the fire in both cases, also
\* when it had no Run yet.
EditFails ==
  LET replaced == \E i \in DOMAIN writer :
                    writer[i].kind = "claim" /\ writer[i].due # TakenBack.due IN
  editing.kind = "update" /\ Undo(TakenBack, TRUE, editing.held \/ replaced)

Delete ==
  /\ process = "up" /\ editing = NoEdit /\ edits < MaxEdits /\ mem # NoJob
  /\ mem' = NoJob
  /\ editing' = [kind |-> "delete", before |-> mem, edited |-> NoJob, held |-> held]
  /\ edits' = edits + 1
  /\ Replaces("none", writer, <<Save("edit", NoJob)>>)
  /\ Stays /\ UNCHANGED <<now, process, admitted, held, history, crashes>>

DeleteSaved ==
  /\ editing.kind = "delete"
  /\ Lands("edit", TRUE, <<Unclaim("edit")>>)
  /\ editing' = [editing EXCEPT !.kind = "clear"]
  /\ UNCHANGED <<now, process, mem, taskVars, pending, held, history, edits, crashes>>

\* The undo of a delete brings the job back with the budget it had before.
DeleteFails ==
  LET before == editing.before IN
  editing.kind = "delete" /\ Undo(before, Active(before), fires[before.due] > 0)

ClearLands(ok) ==
  /\ editing.kind = "clear"
  /\ Lands("edit", ok, <<>>)
  /\ editing' = NoEdit
  /\ UNCHANGED <<now, process, mem, taskVars, pending, held, history, edits, crashes>>

(* ----------------------------------------------------------------------- *)
(* Stop, crash and start.                                                  *)

NoTask == phase' = "none" /\ due' = 0 /\ attempts' = 0 /\ success' = FALSE /\ admitted' = 0

(* Every task is cancelled, one that waits for its claim removes it then.  *)
(* A Run may still be admitted for the cancelled fire.                     *)
Stop ==
  /\ process = "up" /\ crashes < MaxCrashes
  /\ process' = "stopped" /\ crashes' = crashes + 1
  /\ NoTask /\ pending' = FALSE
  /\ writer' = Orphans(writer, IF phase = "claiming" THEN "stopped" ELSE "nobody")
  /\ fires' \in {fires} \cup
        (IF phase = "admitting" THEN {[fires EXCEPT ![due] = @ + 1]} ELSE {})
  /\ Stays /\ UNCHANGED <<now, mem, held, editing, putBack, edits>>

StoppedLands(ok) ==
  /\ Lands("stopped", ok, <<Unclaim("nobody")>>)
  /\ UNCHANGED <<now, process, mem, taskVars, pending, held, editing, history, edits, crashes>>

NobodyLands(ok) ==
  /\ Lands("nobody", ok, <<>>)
  /\ UNCHANGED <<now, process, mem, taskVars, pending, held, editing, history, edits, crashes>>

(* The process ends, after a stop or without one.                          *)
Die ==
  /\ process # "down" /\ (process = "up" => crashes < MaxCrashes)
  /\ process' = "down" /\ crashes' = IF process = "up" THEN crashes + 1 ELSE crashes
  /\ NoTask /\ pending' = FALSE /\ held' = FALSE /\ editing' = NoEdit
  /\ mem' = NoJob /\ writer' = <<>>
  /\ UNCHANGED <<now, disk, claim, faults, history, edits>>

Claimed == Active(disk) /\ claim = disk.due

Restarts ==
  /\ process = "down"
  /\ process' = "up"
  /\ UNCHANGED <<now, due, attempts, success, admitted, writer, pending, editing, history,
                 edits, crashes>>

(* A used-up fire completes its job, and the claim goes after the save.    *)
BootReconciles(saved, removed) ==
  /\ Restarts
  /\ Claimed \/ (Active(disk) /\ disk.left = 0)
  /\ mem' = [disk EXCEPT !.status = "completed"]
  /\ ~saved => "boot" \in Failing /\ faults < MaxFaults
  /\ ~removed => "unclaim" \in Failing /\ faults < MaxFaults
  /\ faults' = IF saved /\ removed THEN faults ELSE faults + 1
  /\ disk' = IF saved THEN mem' ELSE disk
  /\ claim' = IF saved /\ removed /\ Claimed THEN 0 ELSE claim
  /\ UNCHANGED <<phase, held>>

(* A claim that cannot be read holds the job: no task is started for it.   *)
BootHolds ==
  /\ Restarts
  /\ Active(disk) /\ claim # 0 /\ "read" \in Failing /\ faults < MaxFaults
  /\ mem' = disk /\ held' = TRUE /\ faults' = faults + 1
  /\ UNCHANGED <<phase, disk, claim>>

Boot ==
  /\ Restarts
  /\ ~Claimed /\ ~(Active(disk) /\ disk.left = 0)
  /\ mem' = disk /\ phase' = Started(disk)
  /\ UNCHANGED <<disk, claim, faults, held>>

Tick ==
  /\ now < MaxDue /\ now' = now + 1
  /\ UNCHANGED <<process, mem, disk, claim, writer, taskVars, pending, held, editing, history,
                 bounds>>

(* ----------------------------------------------------------------------- *)

\* What the task and the writer do by themselves.
Works ==
  \/ Wake \/ TakeSlot \/ Admit \/ Return \/ OrphanEnds \/ TaskDone
  \/ \E b \in BOOLEAN : Refuse(b) \/ RunEnds(b)
  \/ EditSaved \/ EditFails \/ DeleteSaved \/ DeleteFails
  \/ \E ok \in BOOLEAN :
       \/ ClaimLands(ok) \/ AnnounceLands(ok) \/ RefusedLands(ok) \/ CancelledLands(ok)
       \/ WithdrawLands(ok) \/ RecordLands(ok) \/ EndingLands(ok) \/ FinalizeLands(ok)
       \/ SettleLands(ok) \/ AbandonLands(ok) \/ LastUnclaimLands(ok)
       \/ ClearLands(ok) \/ StoppedLands(ok) \/ NobodyLands(ok)

Next ==
  \/ Works \/ Tick \/ Delete \/ Stop \/ Die \/ Boot \/ BootHolds
  \/ \E d \in Dues, s \in {"active", "paused", "failed"} : Edit(d, s)
  \/ \E saved, removed \in BOOLEAN : BootReconciles(saved, removed)

Spec == Init /\ [][Next]_vars

(* The loop runs what is ready, the writer's thread runs, a Run ends, and  *)
(* time passes.                                                            *)
FairSpec == Spec /\ WF_vars(Works) /\ WF_vars(Tick)

(* ----------------------------------------------------------------------- *)

(* No instant is fired twice, whatever is edited, whatever write fails and *)
(* whenever the process dies (cron.md: at-most-once beats duplicate        *)
(* execution across restarts).                                             *)
FiresOnce == \A d \in Dues : fires[d] <= 1

(* Only three cases let an instant fire again: a failed delete whose undo  *)
(* forgets what was admitted meanwhile, the undo of an edit of a held job, *)
(* and the claim of an edited instant that replaced the claim of a fire    *)
(* no save recorded, when the edit's own save failed.                      *)
FiresOnceUnlessPutBack == \A d \in Dues : fires[d] <= 1 \/ d \in putBack

(* While jobs.json still says that a fire is to come which has already had *)
(* its Run, its claim is on disk: _remove_claim only follows the save of   *)
(* the job's resulting state.                                              *)
ConsumedFireIsGuarded ==
  Armed(disk) /\ fires[disk.due] > 0 => claim = disk.due \/ disk.due \in putBack

(* A job scheduled for another instant while its Run was being admitted    *)
(* keeps the fire of that instant: the earlier fire does not spend it      *)
(* (_replacement_once_fire).                                               *)
ReplacementKeepsItsFire ==
  Active(mem) /\ fires[mem.due] = 0 => mem.left = 1

(* No interleaving of a fire with edits, failed edits and their undoing    *)
(* leaves an armed job without a task (_pending_restarts,                  *)
(* _on_job_task_done), unless its claim could not be read at start.        *)
ArmedJobHasTask ==
  process = "up" /\ Armed(mem) /\ ~held => phase # "none"

(* An armed job whose service stays up fires, is given up or is edited:    *)
(* neither a failed claim nor a withdrawn fire leaves it waiting for ever. *)
ArmedJobSettles ==
  \A d \in Dues :
    (process = "up" /\ Armed(mem) /\ ~held /\ mem.due = d)
      ~> (process # "up" \/ ~Armed(mem) \/ mem.due # d)
=============================================================================
