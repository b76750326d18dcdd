-------------------------- MODULE RunApprovalsProofs --------------------------
(***************************************************************************)
(* Proofs about RunApprovals, for any number of Runs, calls and observers  *)
(* and any relation of which access covers which.                          *)
(*                                                                         *)
(* The registry forgets nothing of a Run before it is finished             *)
(* (RejectionsKept), and a request stays in it no longer than its call     *)
(* waits and its Run lasts (PendingCallsAsk).                              *)
(***************************************************************************)
EXTENDS RunApprovals, TLAPS

PendingCallsAsk == \A c \in pending : stage[c] = "asking" /\ status[RunOf[c]] # "finished"
RejectionsKept ==
  \A r \in Runs : IF status[r] = "finished" THEN rejected[r] = {} ELSE rejected[r] = declined[r]

Inv == TypeOK /\ shown = pending /\ PendingCallsAsk /\ RejectionsKept

LEMMA InitInv == Init => Inv
BY RunAssumption DEF Init, Inv, TypeOK, PendingCallsAsk, RejectionsKept, Waiting, Watching

LEMMA SignalsType ==
  ASSUME TypeOK, NEW r \in Runs, Signals(r)
  PROVE  /\ signal' \in [Runs -> BOOLEAN]
         /\ watch' \in [Observers -> Watching \cup {"away", "gone"}]
         /\ todo' = todo /\ offered' = offered
BY DEF TypeOK, Signals, Watching

LEMMA PrepareKeepsInv == ASSUME Inv, NEW c \in Calls, Prepare(c) PROVE Inv'
BY RunAssumption DEF Prepare, Goes, Quiet, runVars, accessorVars, noticeVars, watchVars, Inv,
   TypeOK, PendingCallsAsk, RejectionsKept, Waiting

LEMMA RequestKeepsInv == ASSUME Inv, NEW c \in Calls, Request(c) PROVE Inv'
<1>1. CASE Asks(c) /\ Live(RunOf[c])
  <2>1. RunOf[c] \in Runs
    BY RunAssumption
  <2>2. TypeOK'
    BY <1>1, <2>1, SignalsType DEF Asks, Goes, Shows, runVars, Inv, TypeOK, Waiting
  <2>3. PendingCallsAsk' /\ RejectionsKept' /\ shown' = pending'
    BY <1>1, RunAssumption DEF Asks, Goes, Shows, Live, runVars, Inv, TypeOK, PendingCallsAsk,
       RejectionsKept
  <2> QED BY <2>2, <2>3 DEF Inv
<1>2. CASE ~(Live(RunOf[c]) /\ ~Suppressed(c))
  BY <1>2, RunAssumption DEF Request, Goes, Quiet, runVars, accessorVars, noticeVars, watchVars,
     Inv, TypeOK, PendingCallsAsk, RejectionsKept, Waiting
<1> QED BY <1>1, <1>2 DEF Request

LEMMA ResolveKeepsInv ==
  ASSUME Inv, NEW c \in Calls, NEW d \in {"allow", "reject"}, Resolve(c, d) PROVE Inv'
<1>1. c \in pending /\ RunOf[c] \in Runs /\ status[RunOf[c]] # "finished"
  BY RunAssumption DEF Resolve, Inv, PendingCallsAsk
<1>2. /\ \/ rejected' = rejected /\ declined' = declined
         \/ /\ rejected' = [rejected EXCEPT ![RunOf[c]] = @ \cup {Wants[c]}]
            /\ declined' = [declined EXCEPT ![RunOf[c]] = @ \cup {Wants[c]}]
      /\ pending' = pending \ Settled(c, d) /\ shown' = pending'
      /\ UNCHANGED <<status, cancelled, stage, noticeVars, signal, watchVars>>
  BY DEF Resolve, Shows, Quiet
<1>3. future' \in [Calls -> {"none", "pending", "allow", "reject", "cancelled"}]
  BY DEF Resolve, Inv, TypeOK
<1>4. TypeOK'
  BY <1>1, <1>2, <1>3 DEF noticeVars, watchVars, Inv, TypeOK
<1>5. PendingCallsAsk'
  BY <1>2 DEF Inv, PendingCallsAsk
<1>6. RejectionsKept'
  <2> SUFFICES ASSUME NEW r \in Runs
               PROVE  IF status[r] = "finished" THEN rejected'[r] = {}
                      ELSE rejected'[r] = declined'[r]
    BY <1>2 DEF RejectionsKept
  <2>1. IF status[r] = "finished" THEN rejected[r] = {} ELSE rejected[r] = declined[r]
    BY DEF Inv, RejectionsKept
  <2>2. CASE r = RunOf[c]
    <3>1. rejected[r] = declined[r] /\ status[r] # "finished"
      BY <1>1, <2>1, <2>2
    <3>2. CASE rejected' = rejected /\ declined' = declined
      BY <3>1, <3>2
    <3>3. CASE /\ rejected' = [rejected EXCEPT ![RunOf[c]] = @ \cup {Wants[c]}]
               /\ declined' = [declined EXCEPT ![RunOf[c]] = @ \cup {Wants[c]}]
      <4>1. rejected'[r] = rejected[r] \cup {Wants[c]} /\ declined'[r] = declined[r] \cup {Wants[c]}
        BY <2>2, <3>3 DEF Inv, TypeOK
      <4> QED BY <3>1, <4>1
    <3> QED BY <1>2, <3>1, <3>2, <3>3
  <2>3. CASE r # RunOf[c]
    BY <1>1, <1>2, <2>1, <2>3 DEF Inv, TypeOK
  <2> QED BY <2>2, <2>3
<1> QED BY <1>2, <1>4, <1>5, <1>6 DEF Inv

LEMMA WakesKeepsInv == ASSUME Inv, NEW c \in Calls, Wakes(c) PROVE Inv'
<1>1. RunOf[c] \in Runs
  BY RunAssumption
<1>2. pending' = pending \ {c} /\ shown' = pending'
  BY DEF Wakes, Shows, accessorVars, Inv
<1>3. TypeOK'
  BY <1>1, <1>2, SignalsType DEF Wakes, Goes, runVars, Inv, TypeOK, Waiting
<1>4. PendingCallsAsk' /\ RejectionsKept'
  BY <1>2 DEF Wakes, Goes, runVars, Inv, TypeOK, PendingCallsAsk, RejectionsKept
<1> QED BY <1>2, <1>3, <1>4 DEF Inv

LEMMA ProceedsKeepsInv == ASSUME Inv, NEW c \in Calls, Proceeds(c) PROVE Inv'
BY DEF Proceeds, Goes, Quiet, runVars, accessorVars, noticeVars, watchVars, Inv, TypeOK,
   PendingCallsAsk, RejectionsKept, Waiting

\* Cancelling calls leaves those that ask where they are.
LEMMA CancelsType ==
  ASSUME TypeOK, NEW cs \in SUBSET Calls, Cancels(cs)
  PROVE  /\ stage' \in [Calls -> Waiting \cup {"idle", "proceeds", "ended"}]
         /\ future' \in [Calls -> {"none", "pending", "allow", "reject", "cancelled"}]
         /\ \A c \in Calls : stage[c] = "asking" <=> stage'[c] = "asking"
BY DEF TypeOK, Cancels, Waiting

LEMMA CancelCallKeepsInv == ASSUME Inv, NEW c \in Calls, CancelCall(c) PROVE Inv'
<1>1. Cancels({c}) /\ UNCHANGED <<runVars, accessorVars, noticeVars, signal, watchVars>>
  BY DEF CancelCall, Quiet
<1> QED BY <1>1, CancelsType DEF runVars, accessorVars, noticeVars, watchVars, Inv, TypeOK,
     PendingCallsAsk, RejectionsKept

LEMMA CancelRunKeepsInv == ASSUME Inv, NEW r \in Runs, CancelRun(r) PROVE Inv'
<1>1. CallsOf(r) \in SUBSET Calls
  BY DEF CallsOf
<1> QED BY <1>1, CancelsType, SignalsType DEF CancelRun, accessorVars, noticeVars, Inv, TypeOK,
     PendingCallsAsk, RejectionsKept

LEMMA EndKeepsInv == ASSUME Inv, NEW r \in Runs, End(r) PROVE Inv'
<1>1. TypeOK'
  BY SignalsType DEF End, callVars, accessorVars, Inv, TypeOK
<1>2. PendingCallsAsk' /\ RejectionsKept' /\ shown' = pending'
  BY RunAssumption DEF End, callVars, accessorVars, Inv, TypeOK, PendingCallsAsk, RejectionsKept
<1> QED BY <1>1, <1>2 DEF Inv

LEMMA FinishKeepsInv == ASSUME Inv, NEW r \in Runs, Finish(r) PROVE Inv'
<1>1. pending' = pending \ CallsOf(r) /\ shown' = pending'
  BY DEF Finish, Shows, accessorVars, Inv
<1>2. TypeOK'
  BY <1>1 DEF Finish, Quiet, noticeVars, watchVars, Inv, TypeOK
<1>3. PendingCallsAsk'
  BY <1>1, RunAssumption DEF Finish, CallsOf, Inv, TypeOK, PendingCallsAsk
<1>4. RejectionsKept'
  BY DEF Finish, Inv, TypeOK, RejectionsKept
<1> QED BY <1>1, <1>2, <1>3, <1>4 DEF Inv

\* What an observer does is its own business, and whom it announced.
LEMMA ObserverKeepsInv ==
  ASSUME Inv, NEW w \in Observers, Follow(w) \/ Leave(w) \/ Walks(w) PROVE Inv'
<1>1. UNCHANGED <<runVars, callVars, accessorVars, ids>>
  BY DEF Follow, Leave, Walks, Look, Stop, Offer, Claim, Rest, Unmoved
<1>2. /\ announced' \subseteq ids
      /\ signal' \in [Runs -> BOOLEAN]
      /\ watch' \in [Observers -> Watching \cup {"away", "gone"}]
      /\ todo' \in [Observers -> SUBSET Calls]
      /\ offered' \in [Observers -> Calls \cup {None}]
  <2> USE DEF Inv, TypeOK, Watching, Moves
  <2>1. CASE Follow(w)
    BY <2>1 DEF Follow
  <2>2. CASE Leave(w)
    BY <2>2 DEF Leave
  <2>3. CASE Look(w)
    BY <2>3, RunAssumption DEF Look
  <2>4. CASE Stop(w)
    BY <2>4 DEF Stop
  <2>5. CASE Claim(w)
    BY <2>5 DEF Claim
  <2>6. CASE Rest(w)
    BY <2>6 DEF Rest
  <2>7. ASSUME NEW c \in Calls, Offer(w, c)
        PROVE  /\ announced' \subseteq ids
               /\ signal' \in [Runs -> BOOLEAN]
               /\ watch' \in [Observers -> Watching \cup {"away", "gone"}]
               /\ todo' \in [Observers -> SUBSET Calls]
               /\ offered' \in [Observers -> Calls \cup {None}]
    BY <2>7 DEF Offer
  <2> QED BY <2>1, <2>2, <2>3, <2>4, <2>5, <2>6, <2>7 DEF Walks
<1> QED BY <1>1, <1>2 DEF runVars, callVars, accessorVars, Inv, TypeOK, PendingCallsAsk,
     RejectionsKept

LEMMA NextKeepsInv == ASSUME Inv, [Next]_vars PROVE Inv'
<1>1. ASSUME NEW c \in Calls, Call(c) \/ Works(c) PROVE Inv'
  BY <1>1, PrepareKeepsInv, CancelCallKeepsInv, ResolveKeepsInv, RequestKeepsInv, WakesKeepsInv,
     ProceedsKeepsInv DEF Call, Works
<1>2. ASSUME NEW r \in Runs, CancelRun(r) \/ End(r) \/ Finish(r) PROVE Inv'
  BY <1>2, CancelRunKeepsInv, EndKeepsInv, FinishKeepsInv
<1>3. ASSUME NEW w \in Observers, Follow(w) \/ Leave(w) \/ Walks(w) PROVE Inv'
  BY <1>3, ObserverKeepsInv
<1>4. CASE UNCHANGED vars
  BY <1>4 DEF vars, runVars, callVars, accessorVars, noticeVars, watchVars, Inv, TypeOK,
     PendingCallsAsk, RejectionsKept
<1> QED BY <1>1, <1>2, <1>3, <1>4 DEF Next

-----------------------------------------------------------------------------
(* The inductive invariant: what the registry holds of a Run that lasts.   *)
THEOREM ApprovalInvariant == Spec => []Inv
BY InitInv, NextKeepsInv, PTL DEF Spec

(* The variables keep their types; only a request in _approval_ids can be  *)
(* announced.                                                              *)
THEOREM TypeCorrect == Spec => []TypeOK
<1>1. Inv => TypeOK
  BY DEF Inv
<1> QED BY <1>1, ApprovalInvariant, PTL

(* What an accessor is shown is a request somebody waits for, of a Run     *)
(* that is not finished (request, resolve, finish).                        *)
THEOREM ShownRequestsAreLive == Spec => []ShownRequestsWait
<1>1. Inv => ShownRequestsWait
  BY DEF Inv, PendingCallsAsk, RejectionsKept, ShownRequestsWait
<1> QED BY <1>1, ApprovalInvariant, PTL

RejectionLasts(c) ==
  stage[c] = "asking" /\ stage'[c] = "reacquiring" /\ future'[c] = "allow" =>
    ~Covered(declined[RunOf[c]], c) /\ Live(RunOf[c])

\* Only a request that wakes goes on, and it looks at what is rejected.
LEMMA StepKeepsRejections == ASSUME Inv, [Next]_vars, NEW c \in Calls PROVE RejectionLasts(c)
<1> SUFFICES ASSUME stage[c] = "asking", stage'[c] = "reacquiring", future'[c] = "allow"
             PROVE  ~Covered(declined[RunOf[c]], c) /\ Live(RunOf[c])
  BY DEF RejectionLasts
<1>1. CASE Wakes(c)
  <2>1. Granted(c)
    BY <1>1 DEF Wakes, Inv, TypeOK
  <2>2. rejected[RunOf[c]] = declined[RunOf[c]]
    BY <2>1, RunAssumption DEF Granted, Live, Inv, RejectionsKept
  <2> QED BY <2>1, <2>2 DEF Granted, Suppressed
<1>2. ASSUME NEW d \in Calls, Prepare(d) \/ Request(d) \/ Proceeds(d) \/ (Wakes(d) /\ d # c)
      PROVE  FALSE
  BY <1>2 DEF Prepare, Request, Asks, Proceeds, Wakes, Goes, Inv, TypeOK
<1>3. ASSUME NEW d \in Calls, \/ CancelCall(d)
                              \/ \E e \in {"allow", "reject"} : Resolve(d, e)
      PROVE  FALSE
  BY <1>3 DEF CancelCall, Cancels, Resolve, Inv, TypeOK
<1>4. ASSUME NEW r \in Runs, CancelRun(r) \/ End(r) \/ Finish(r) PROVE FALSE
  BY <1>4 DEF CancelRun, Cancels, End, Finish, callVars, Inv, TypeOK
<1>5. ASSUME NEW w \in Observers, Follow(w) \/ Leave(w) \/ Walks(w) PROVE FALSE
  BY <1>5 DEF Follow, Leave, Walks, Look, Stop, Offer, Claim, Rest, Unmoved, callVars
<1>6. CASE UNCHANGED vars
  BY <1>6 DEF vars, callVars
<1> QED BY <1>1, <1>2, <1>3, <1>4, <1>5, <1>6 DEF Next, Call, Works

(* No request is granted that a rejection given before covers, whichever   *)
(* call it was given to and however the steps of the two interleave.       *)
THEOREM RejectionsAreFinal == Spec => RejectionsLast
<1>1. Inv /\ [Next]_vars => [\A c \in Calls : RejectionLasts(c)]_vars
  BY StepKeepsRejections
<1> QED BY <1>1, ApprovalInvariant, PTL DEF Spec, RejectionsLast, RejectionLasts
=============================================================================
