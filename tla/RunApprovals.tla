---------------------------- MODULE RunApprovals ----------------------------
(***************************************************************************)
(* core/runs/_approvals.py: Tool calls of live Runs wait for the operator. *)
(* A call prepares its request, waits for the decision, takes its          *)
(* execution slots again and goes on.  Meanwhile the operator answers, a   *)
(* call or a Run is cancelled and the Run ends, in any order; a rejection  *)
(* settles what it covers for the rest of the Run.                         *)
(*                                                                         *)
(* Observers (Run.watch_approvals, one for each Channel reply that follows *)
(* the Run) announce a request in their chat, whoever comes first.  The    *)
(* engine of a Channel is replaced, never doubled: an observer leaves only *)
(* while no other one follows.                                             *)
(***************************************************************************)
EXTENDS Naturals

CONSTANTS
  Runs, Calls, Observers,
  RunOf,      \* the Run of each call
  Follows,    \* the Run of each observer
  Wants,      \* the access each call asks for
  Covers,     \* _rejection_covers: pairs of a rejected and a requested access
  None

ASSUME RunAssumption == RunOf \in [Calls -> Runs] /\ Follows \in [Observers -> Runs]
ASSUME CoverAssumption == \A c \in Calls : <<Wants[c], Wants[c]>> \in Covers
ASSUME NoneAssumption == None \notin Calls

VARIABLES
  status,     \* of each Run
  cancelled,  \* the Runs with cancel_requested
  stage,      \* where each call is
  future,     \* of each request
  pending,    \* the calls in RunApprovals._pending
  rejected,   \* RunApprovals._rejected: what each Run may not ask for again
  shown,      \* the snapshot the accessors were last given
  ids,        \* the calls in Run._approval_ids
  announced,  \* those among them whose notice is claimed
  signal,     \* Run._approvals_changed is set
  watch,      \* where each observer is
  todo,       \* what is left of its walk through _approval_ids
  offered,    \* the request it was given and has not claimed
  declined    \* history: what the operator rejected for each Run

runVars == <<status, cancelled, rejected, declined>>
callVars == <<stage, future>>
accessorVars == <<pending, shown>>
noticeVars == <<ids, announced>>
watchVars == <<watch, todo, offered>>
vars == <<runVars, callVars, accessorVars, noticeVars, signal, watchVars>>

Waiting == {"preparing", "asking", "reacquiring"}
Watching == {"looking", "walking", "offering", "waiting"}

TypeOK ==
  /\ status \in [Runs -> {"running", "over", "finished"}] /\ cancelled \subseteq Runs
  /\ stage \in [Calls -> Waiting \cup {"idle", "proceeds", "ended"}]
  /\ future \in [Calls -> {"none", "pending", "allow", "reject", "cancelled"}]
  /\ pending \subseteq Calls /\ shown \subseteq Calls
  /\ ids \subseteq Calls /\ announced \subseteq ids
  /\ rejected \in [Runs -> SUBSET {Wants[c] : c \in Calls}]
  /\ declined \in [Runs -> SUBSET {Wants[c] : c \in Calls}]
  /\ signal \in [Runs -> BOOLEAN]
  /\ watch \in [Observers -> Watching \cup {"away", "gone"}]
  /\ todo \in [Observers -> SUBSET Calls] /\ offered \in [Observers -> Calls \cup {None}]

Init ==
  /\ status = [r \in Runs |-> "running"] /\ cancelled = {}
  /\ stage = [c \in Calls |-> "idle"] /\ future = [c \in Calls |-> "none"]
  /\ pending = {} /\ shown = {} /\ ids = {} /\ announced = {}
  /\ rejected = [r \in Runs |-> {}] /\ declined = [r \in Runs |-> {}]
  /\ signal = [r \in Runs |-> FALSE]
  /\ watch = [w \in Observers |-> "away"] /\ todo = [w \in Observers |-> {}]
  /\ offered = [w \in Observers |-> None]

\* RUNNING, and nobody requested its cancellation.
Live(r) == status[r] = "running" /\ r \notin cancelled
CallsOf(r) == {c \in Calls : RunOf[c] = r}
Covered(accesses, c) == \E a \in accesses : <<a, Wants[c]>> \in Covers
Suppressed(c) == Covered(rejected[RunOf[c]], c)

Goes(c, to) == stage' = [stage EXCEPT ![c] = to]
\* _changed: every accessor gets the requests that are left.
Shows(left) == pending' = left /\ shown' = left
\* _approvals_changed.set(): it wakes every observer that waits for it.
Signals(r) ==
  /\ signal' = [signal EXCEPT ![r] = TRUE]
  /\ watch' = [w \in Observers |->
                 IF Follows[w] = r /\ watch[w] = "waiting" THEN "looking" ELSE watch[w]]
  /\ UNCHANGED <<todo, offered>>
Quiet == UNCHANGED <<signal, watchVars>>

(* ToolContext.request_approval up to the request: its cancellation is     *)
(* registered, and the suggestion of a Session grant is computed.          *)
Prepare(c) ==
  /\ stage[c] = "idle" /\ Live(RunOf[c])
  /\ Goes(c, "preparing")
  /\ Quiet /\ UNCHANGED <<runVars, future, accessorVars, noticeVars>>

(* RunApprovals.request up to its await.                                   *)
Asks(c) ==
  /\ Goes(c, "asking") /\ future' = [future EXCEPT ![c] = "pending"]
  /\ Shows(pending \cup {c})
  /\ ids' = ids \cup {c} /\ Signals(RunOf[c])
  /\ UNCHANGED <<runVars, announced>>

Request(c) ==
  /\ stage[c] = "preparing"
  /\ IF Live(RunOf[c]) /\ ~Suppressed(c)
     THEN Asks(c)
     ELSE Goes(c, "reacquiring") /\ Quiet
          /\ UNCHANGED <<runVars, future, accessorVars, noticeVars>>

(* resolve(id, decision); a rejection settles every request of the Run     *)
(* that it covers.                                                         *)
Settled(c, decision) ==
  {c} \cup (IF decision = "allow" THEN {}
            ELSE {d \in pending : RunOf[d] = RunOf[c]
                                  /\ Covered(rejected[RunOf[c]] \cup {Wants[c]}, d)})
Resolve(c, decision) ==
  LET now == Settled(c, decision)
      adds(f) == IF decision = "allow" THEN f ELSE [f EXCEPT ![RunOf[c]] = @ \cup {Wants[c]}]
  IN  /\ c \in pending
      /\ future' = [d \in Calls |-> IF d \in now /\ future[d] = "pending"
                                    THEN decision ELSE future[d]]
      /\ rejected' = adds(rejected) /\ declined' = adds(declined)
      /\ Shows(pending \ now)
      /\ Quiet /\ UNCHANGED <<status, cancelled, stage, noticeVars>>

\* mutated form: what was rejected meanwhile is not looked at again
GrantedAsDecided(c) == future[c] = "allow" /\ Live(RunOf[c])
Granted(c) == future[c] = "allow" /\ ~Suppressed(c) /\ Live(RunOf[c])

(* The request goes on behind its await, and retires in any case.          *)
Wakes(c) ==
  /\ stage[c] = "asking" /\ future[c] # "pending"
  /\ future' = [future EXCEPT ![c] = IF Granted(c) THEN "allow" ELSE "none"]
  /\ Goes(c, IF future[c] = "cancelled" THEN "ended" ELSE "reacquiring")
  /\ ids' = ids \ {c} /\ announced' = announced \ {c}
  /\ Signals(RunOf[c])
  /\ IF c \in pending THEN Shows(pending \ {c}) ELSE UNCHANGED accessorVars
  /\ UNCHANGED runVars

(* The call has its execution slots again: it goes on if it was granted,   *)
(* unless its Run was cancelled; otherwise it fails or its task ends.      *)
Proceeds(c) ==
  /\ stage[c] = "reacquiring"
  /\ Goes(c, IF RunOf[c] \notin cancelled /\ future[c] = "allow" THEN "proceeds" ELSE "ended")
  /\ future' = [future EXCEPT ![c] = "none"]
  /\ Quiet /\ UNCHANGED <<runVars, accessorVars, noticeVars>>

\* What the cancellation of waiting calls does at once; a request wakes later.
Cancels(cs) ==
  /\ stage' = [c \in Calls |-> IF c \in cs /\ stage[c] \in {"preparing", "reacquiring"}
                               THEN "ended" ELSE stage[c]]
  /\ future' = [c \in Calls |->
                  IF c \notin cs \/ stage[c] \notin {"asking", "reacquiring"} THEN future[c]
                  ELSE IF stage[c] = "asking" THEN "cancelled" ELSE "none"]

\* cancel_tool_call
CancelCall(c) ==
  /\ stage[c] \in Waiting /\ Live(RunOf[c])
  /\ Cancels({c})
  /\ Quiet /\ UNCHANGED <<runVars, accessorVars, noticeVars>>

\* mutated form: the calls that wait are not cancelled with the Run
CancelRunOnly(r) ==
  /\ Live(r) /\ cancelled' = cancelled \cup {r}
  /\ Signals(r)
  /\ UNCHANGED <<status, rejected, declined, callVars, accessorVars, noticeVars>>

(* request_cancel: the Run's observers hear of it, its calls are cancelled.*)
CancelRun(r) ==
  /\ Live(r) /\ cancelled' = cancelled \cup {r}
  /\ Cancels(CallsOf(r)) /\ Signals(r)
  /\ UNCHANGED <<status, rejected, declined, accessorVars, noticeVars>>

(* mark_* and _settle: the Run is over, whatever still waits.              *)
End(r) ==
  /\ status[r] = "running"
  /\ status' = [status EXCEPT ![r] = "over"]
  /\ ids' = ids \ CallsOf(r) /\ announced' = announced \ CallsOf(r)
  /\ Signals(r)
  /\ UNCHANGED <<cancelled, rejected, declined, callVars, accessorVars>>

(* finish, after the Session was given on.                                 *)
Finish(r) ==
  /\ status[r] = "over"
  /\ status' = [status EXCEPT ![r] = "finished"]
  /\ rejected' = [rejected EXCEPT ![r] = {}]
  /\ future' = [c \in Calls |-> IF c \in pending \cap CallsOf(r) /\ future[c] = "pending"
                                THEN "cancelled" ELSE future[c]]
  /\ IF pending \cap CallsOf(r) # {} THEN Shows(pending \ CallsOf(r)) ELSE UNCHANGED accessorVars
  /\ Quiet /\ UNCHANGED <<cancelled, declined, stage, noticeVars>>

-----------------------------------------------------------------------------
(* Observers. *)

Moves(w, to) == watch' = [watch EXCEPT ![w] = to]
Unmoved == UNCHANGED <<runVars, callVars, accessorVars, ids>>

Follow(w) ==
  /\ watch[w] = "away" /\ Moves(w, "looking")
  /\ UNCHANGED <<announced, signal, todo, offered>> /\ Unmoved

Leave(w) ==
  /\ watch[w] \in Watching /\ \A v \in Observers \ {w} : watch[v] \notin Watching
  /\ Moves(w, "gone")
  /\ todo' = [todo EXCEPT ![w] = {}] /\ offered' = [offered EXCEPT ![w] = None]
  /\ UNCHANGED <<announced, signal>> /\ Unmoved

\* The head of the loop, with the snapshot of what is not announced yet.
Look(w) ==
  /\ watch[w] = "looking" /\ Live(Follows[w])
  /\ Moves(w, "walking")
  /\ signal' = [signal EXCEPT ![Follows[w]] = FALSE]
  /\ todo' = [todo EXCEPT ![w] = (ids \ announced) \cap CallsOf(Follows[w])]
  /\ UNCHANGED <<announced, offered>> /\ Unmoved

Stop(w) ==
  /\ watch[w] = "looking" /\ ~Live(Follows[w])
  /\ Moves(w, "gone")
  /\ UNCHANGED <<announced, signal, todo, offered>> /\ Unmoved

Offer(w, c) ==
  /\ watch[w] = "walking" /\ c \in todo[w]
  /\ todo' = [todo EXCEPT ![w] = @ \ {c}]
  /\ IF future[c] = "pending"
     THEN Moves(w, "offering") /\ offered' = [offered EXCEPT ![w] = c]
     ELSE UNCHANGED <<watch, offered>>
  /\ UNCHANGED <<announced, signal>> /\ Unmoved

\* The transport is ready: claim_approval_notice.
Claim(w) ==
  /\ watch[w] = "offering"
  /\ LET c == offered[w] IN
     announced' = IF Live(Follows[w]) /\ c \in ids /\ future[c] = "pending"
                  THEN announced \cup {c} ELSE announced
  /\ Moves(w, "walking") /\ offered' = [offered EXCEPT ![w] = None]
  /\ UNCHANGED <<signal, todo>> /\ Unmoved

\* mutated form: the signal is taken when the observer goes to sleep
RestForgetful(w) ==
  /\ watch[w] = "walking" /\ todo[w] = {}
  /\ Moves(w, "waiting")
  /\ UNCHANGED <<announced, signal, todo, offered>> /\ Unmoved

\* _approvals_changed.wait()
Rest(w) ==
  /\ watch[w] = "walking" /\ todo[w] = {}
  /\ Moves(w, IF signal[Follows[w]] THEN "looking" ELSE "waiting")
  /\ UNCHANGED <<announced, signal, todo, offered>> /\ Unmoved

-----------------------------------------------------------------------------
Call(c) == Prepare(c) \/ CancelCall(c) \/ \E d \in {"allow", "reject"} : Resolve(c, d)
Works(c) == Request(c) \/ Wakes(c) \/ Proceeds(c)
Walks(w) == Look(w) \/ Stop(w) \/ Claim(w) \/ Rest(w) \/ \E c \in Calls : Offer(w, c)

Next ==
  \/ \E c \in Calls : Call(c) \/ Works(c)
  \/ \E r \in Runs : CancelRun(r) \/ End(r) \/ Finish(r)
  \/ \E w \in Observers : Follow(w) \/ Leave(w) \/ Walks(w)

Spec == Init /\ [][Next]_vars

(* The loop runs what is ready and the transports of the Channels connect; *)
(* nobody has to answer, and a Run need not end.                           *)
FairSpec ==
  /\ Spec
  /\ \A c \in Calls : WF_vars(Works(c))
  /\ \A w \in Observers : WF_vars(Walks(w))
  /\ \A r \in Runs : WF_vars(Finish(r))

(* No request is granted that a rejection given before covers, of whatever *)
(* call, and none of a Run that was cancelled or is over: "Rejecting the   *)
(* additional access suppresses that access for the rest of the Run"       *)
(* (permissions/approvals.md).                                             *)
RejectionsLast ==
  [][\A c \in Calls :
       stage[c] = "asking" /\ stage'[c] = "reacquiring" /\ future'[c] = "allow" =>
         ~Covered(declined[RunOf[c]], c) /\ Live(RunOf[c])]_vars

(* What the accessors show is what waits: a request that is shown has a    *)
(* call that waits for it, in a Run that is not finished, and a finished   *)
(* Run leaves nothing behind.                                              *)
ShownRequestsWait ==
  /\ shown = pending
  /\ \A c \in pending : stage[c] = "asking" /\ status[RunOf[c]] # "finished"
  /\ \A r \in Runs : status[r] = "finished" => rejected[r] = {}

(* A request that is pending while somebody follows its Run is announced   *)
(* or settled; one that came while an observer was busy is not missed.     *)
RequestsAreAnnounced ==
  \A c \in Calls, w \in Observers :
    (c \in ids /\ future[c] = "pending" /\ watch[w] \in Watching /\ Follows[w] = RunOf[c])
      ~> (c \in announced \/ c \notin ids \/ future[c] # "pending" \/ watch[w] = "gone")

(* A cancelled or finished Run releases every call that waits.             *)
CallsAreReleased ==
  \A c \in Calls :
    (stage[c] \in Waiting /\ (RunOf[c] \in cancelled \/ status[RunOf[c]] = "finished"))
      ~> stage[c] \notin Waiting
=============================================================================
