-------------------------- MODULE RunManagerProofs --------------------------
(***************************************************************************)
(* Proofs about RunManager, for any inputs, Sessions, limits and number of *)
(* process deaths, and any faults unless a theorem names those it excludes.*)
(*                                                                         *)
(* Tables.  A receipt leaves "queued" once, and what its input did up to   *)
(* then, and may do afterwards, depends on where it went (InputIsSound).   *)
(* Steps that change no table keep this as long as they let no executor    *)
(* begin and no acceptance be written twice (Quiet).                       *)
(*                                                                         *)
(* Sequences.  What Kept, FirstIn and SteeringFirst do to any sequence, by *)
(* induction over its length with the least counterexample (WFMin).        *)
(*                                                                         *)
(* The Queue.  PlaceInv says where an input is, FlagInv what its flags and *)
(* the deliveries allow; most steps only let items leave and Runs go on    *)
(* (Calm), and the rest accept an input (Accepted) or drain (Drain).  The  *)
(* further invariants rest on those two, each about one hazard: FutureInv, *)
(* OrderInv, ServedInv, HeldInv, OutcomeInv, AgreeInv.                     *)
(***************************************************************************)
EXTENDS RunManager, WellFoundedInduction, TLAPS

\* The acceptance whose receipt is being written under the lock.
BeingAccepted(i) == lock.use \in {"accept_start", "accept_queue"} /\ lock.item = i

InputIsSound(i) ==
  /\ receipt[i] # "started" => row[i] = "none" /\ entered[i] = 0 /\ phase[i] # "executing"
  /\ receipt[i] \in {"none", "queued", "removed"} => carried[i] = 0
  /\ receipt[i] = "steered" => carried[i] = 1
  /\ receipt[i] = "started" => /\ row[i] # "none" /\ entered[i] =< 1 /\ carried[i] =< 1
                               /\ row[i] # "running" => carried[i] = 1
  /\ phase[i] = "executing" => row[i] = "running"
  /\ call[i] = "unsent" \/ BeingAccepted(i) => receipt[i] = "none"

InputsSound == \A i \in Durable : InputIsSound(i)

AcceptancesHeld == \A i \in Inputs : BeingAccepted(i) => i \in Durable /\ call[i] # "unsent"

Inv == ControlTypes /\ TableTypes /\ InputsSound /\ AcceptancesHeld

\* A step that changes no table and begins nothing.
Still == UNCHANGED <<receipt, row, carried, entered>>
Quiet ==
  /\ ControlTypes'
  /\ \A i \in Inputs : phase'[i] = "executing" => phase[i] = "executing"
  /\ \A i \in Inputs : call'[i] = "unsent" => call[i] = "unsent"
  /\ \A i \in Inputs : BeingAccepted(i)' => BeingAccepted(i)
Withdraw(i) ==
  /\ UNCHANGED <<row, carried, entered>>
  /\ \/ receipt' = receipt
     \/ receipt[i] = "queued" /\ receipt' = [receipt EXCEPT ![i] = "removed"]

LEMMA DurableInputs == Durable \subseteq Inputs
BY InputAssumption

LEMMA InitInv == Init => Inv
BY DurableInputs DEF Init, Free, Inv, ControlTypes, TableTypes, InputsSound, InputIsSound,
   AcceptancesHeld, BeingAccepted, Outcomes, Phases, Receipts

LEMMA StillKeepsInv == ASSUME Inv, Still, Quiet PROVE Inv'
BY DurableInputs DEF Still, Quiet, Inv, TableTypes, InputsSound, InputIsSound, AcceptancesHeld

LEMMA WithdrawKeepsInv == ASSUME Inv, NEW i \in Inputs, Withdraw(i), Quiet PROVE Inv'
<1>1. TableTypes'
  BY DEF Withdraw, Inv, TableTypes, Receipts
<1>2. InputsSound'
  BY DurableInputs DEF Withdraw, Quiet, Inv, TableTypes, InputsSound, InputIsSound
<1> QED BY <1>1, <1>2 DEF Quiet, Inv, AcceptancesHeld

-----------------------------------------------------------------------------
(* The steps that are quiet. *)

LEMMA ProducerIsQuiet ==
  ASSUME Inv, NEW i \in Inputs,
         \/ ReserveWaitingWork(i) \/ ReleaseWaitingWork(i) \/ EnqueueStarts(i) \/ EnqueueWaits(i)
         \/ AbandonWaiter(i)
  PROVE  Still /\ Quiet
<1> USE DEF Still, Quiet, Inv, ControlTypes, BeingAccepted, runVars, storeVars, Phases
<1>1. CASE ReserveWaitingWork(i)
  BY <1>1 DEF ReserveWaitingWork
<1>2. CASE ReleaseWaitingWork(i)
  BY <1>2 DEF ReleaseWaitingWork
<1>3. CASE EnqueueStarts(i)
  BY <1>3 DEF EnqueueStarts, Installed
<1>4. CASE EnqueueWaits(i)
  BY <1>4 DEF EnqueueWaits
<1>5. CASE AbandonWaiter(i)
  BY <1>5 DEF AbandonWaiter
<1> QED BY <1>1, <1>2, <1>3, <1>4, <1>5

LEMMA UserIsQuiet ==
  ASSUME Inv, NEW i \in Inputs,
         User(i) \/ RemoveAbandoned(i) \/ Edits(i) \/ Steers(i)
  PROVE  Still /\ Quiet
<1> USE DEF Still, Quiet, Inv, ControlTypes, BeingAccepted, runVars, storeVars, Holds, Free
<1>1. CASE RemoveBegins(i)
  <2>1. /\ lock' = Holds("remove", i, <<>>) \/ lock' = lock
        /\ UNCHANGED <<call, runVars, storeVars>>
    BY <1>1, Zenon DEF RemoveBegins
  <2> QED BY <2>1
<1>5. CASE EditBegins(i)
  BY <1>5 DEF EditBegins
<1>6. CASE SteerBegins(i)
  BY <1>6 DEF SteerBegins
<1>2. CASE RequestCancel(i)
  BY <1>2 DEF RequestCancel
<1>3. CASE RemoveAbandoned(i)
  BY <1>3 DEF RemoveAbandoned
<1>4. CASE Edits(i) \/ Steers(i)
  BY <1>4 DEF Edits, Steers
<1> QED BY <1>1, <1>2, <1>3, <1>4, <1>5, <1>6 DEF User

\* Starting the next item of a Queue admits it; no executor begins.
LEMMA DrainIsQuiet ==
  ASSUME Inv, NEW s \in Sessions, NEW q, NEW refused, Drain(s, q, refused), call' = call,
         verdict' = verdict
  PROVE  Quiet
<1>1. phase' \in [Inputs -> Phases]
      /\ \A i \in Inputs : phase'[i] = "executing" => phase[i] = "executing"
  BY DEF Drain, Inv, ControlTypes, Phases
<1>2. \A i \in Inputs : ~BeingAccepted(i)'
  BY DEF Drain, BeingAccepted, Holds, Free
<1> QED BY <1>1, <1>2 DEF Quiet, Inv, ControlTypes

LEMMA ReleaseIsQuiet == ASSUME Inv, NEW i \in Inputs, Release(i) PROVE Still /\ Quiet
<1>1. Still /\ call' = call /\ verdict' = verdict
  BY DEF Release, Still, storeVars
<1>2. CASE closed
  BY <1>1, <1>2 DEF Release, Quiet, Inv, ControlTypes, BeingAccepted, Phases
<1>3. CASE ~closed
  <2>1. SessionOf[i] \in Sessions
    BY InputAssumption
  <2>2. \E q, refused : Drain(SessionOf[i], q, refused)
    BY <1>3 DEF Release
  <2> QED BY <1>1, <2>1, <2>2, DrainIsQuiet
<1> QED BY <1>1, <1>2, <1>3

LEMMA RunStepIsQuiet ==
  ASSUME Inv, NEW r \in Inputs,
         \/ AdmitFails(r) \/ CleanupEnds(r) \/ FinishFails(r) \/ MarkTerminal(r)
         \/ ExecutorStops(r) \/ Boundary(r) \/ AppendFails(r)
  PROVE  Still /\ Quiet
<1> USE DEF Still, Quiet, Inv, ControlTypes, BeingAccepted, storeVars, Phases, Outcomes
<1>1. CASE AdmitFails(r)
  BY <1>1 DEF AdmitFails, Ends
<1>2. CASE CleanupEnds(r) \/ FinishFails(r) \/ MarkTerminal(r)
  BY <1>2 DEF CleanupEnds, FinishFails, MarkTerminal
<1>3. CASE ExecutorStops(r)
  BY <1>3, InputAssumption DEF ExecutorStops, ExecutorEnds, Ends
<1>4. CASE Boundary(r)
  BY <1>4 DEF Boundary, Delivers
<1>5. CASE AppendFails(r)
  BY <1>5 DEF AppendFails
<1> QED BY <1>1, <1>2, <1>3, <1>4, <1>5

LEMMA ClearsQuiet ==
  ASSUME Inv, NEW s, NEW gone, NEW rest, ClearsUpTo(s, gone, rest),
         UNCHANGED <<phase, verdict, call>>
  PROVE  Quiet
<1>1. \A i \in Inputs : ~BeingAccepted(i)'
  BY DEF ClearsUpTo, BeingAccepted, Holds, Free
<1> QED BY <1>1 DEF Quiet, Inv, ControlTypes

LEMMA ManagerIsQuiet ==
  ASSUME Inv, LockedCallFails \/ Aclose \/ Crash \/ \E s \in Sessions : ClearBegins(s)
  PROVE  Still /\ Quiet
<1>1. CASE LockedCallFails
  BY <1>1 DEF LockedCallFails, Still, Quiet, Inv, ControlTypes, BeingAccepted, runVars, storeVars,
     Free
<1>2. CASE Aclose
  BY <1>2 DEF Aclose, Still, Quiet, Inv, ControlTypes, BeingAccepted, storeVars
<1>3. CASE Crash
  BY <1>3 DEF Crash, Still, Quiet, Inv, ControlTypes, BeingAccepted, storeVars, Free, Phases,
     Outcomes
<1>4. ASSUME NEW s \in Sessions, ClearBegins(s) PROVE Still /\ Quiet
  BY <1>4, ClearsQuiet DEF ClearBegins, Still, runVars, storeVars
<1> QED BY <1>1, <1>2, <1>3, <1>4

-----------------------------------------------------------------------------
(* The steps that withdraw a receipt. *)

LEMMA WithdrawerWithdraws ==
  ASSUME Inv, NEW i \in Inputs,
         SubmitReturns(i) \/ Removes(i) \/ ClearGoesOn(i) \/ DrainGoesOn(i)
  PROVE  Withdraw(i) /\ Quiet
<1>1. CASE SubmitReturns(i)
  BY <1>1 DEF SubmitReturns, Withdraw, Quiet, Inv, ControlTypes, TableTypes, BeingAccepted,
     runVars
<1>2. CASE Removes(i)
  BY <1>2 DEF Removes, Withdraw, Quiet, Inv, ControlTypes, TableTypes, BeingAccepted, Free,
     runVars
<1>3. CASE ClearGoesOn(i)
  <2>1. Withdraw(i) /\ UNCHANGED <<phase, verdict, call>>
    BY <1>3 DEF ClearGoesOn, Withdraw, Inv, TableTypes, runVars
  <2>2. Quiet
    BY <1>3, <2>1, ClearsQuiet DEF ClearGoesOn
  <2> QED BY <2>1, <2>2
<1>4. CASE DrainGoesOn(i)
  <2>1. Withdraw(i) /\ UNCHANGED <<verdict, call>>
    BY <1>4 DEF DrainGoesOn, Withdraw, Inv, TableTypes
  <2>2. SessionOf[i] \in Sessions /\ \E q, refused : Drain(SessionOf[i], q, refused)
    BY <1>4, InputAssumption DEF DrainGoesOn
  <2> QED BY <2>1, <2>2, DrainIsQuiet
<1> QED BY <1>1, <1>2, <1>3, <1>4

-----------------------------------------------------------------------------
(* The steps that make, claim and settle a receipt. *)

LEMMA AcceptBeginsKeepsInv == ASSUME Inv, NEW i \in Inputs, AcceptBegins(i) PROVE Still /\ Inv'
<1>1. Still
  BY DEF AcceptBegins, Still, runVars, storeVars
<1>2. ControlTypes' /\ TableTypes'
  BY <1>1 DEF AcceptBegins, Still, runVars, Inv, ControlTypes, TableTypes
<1>3. InputsSound'
  <2> SUFFICES ASSUME NEW j \in Durable PROVE InputIsSound(j)'
    BY DEF InputsSound
  <2>1. BeingAccepted(j)' => j = i
    BY DEF AcceptBegins, BeingAccepted, Holds
  <2>2. call[i] = "unsent" /\ (call'[j] = "unsent" => call[j] = "unsent") /\ phase' = phase
    BY DurableInputs DEF AcceptBegins, runVars, Inv, ControlTypes
  <2> QED BY <1>1, <2>1, <2>2 DEF Still, Inv, InputsSound, InputIsSound
<1>4. AcceptancesHeld'
  BY DEF AcceptBegins, AcceptancesHeld, BeingAccepted, Holds, Inv, ControlTypes
<1> QED BY <1>1, <1>2, <1>3, <1>4 DEF Inv

\* The receipt is written for the acceptance that holds the lock, once.
LEMMA AcceptKeepsInv ==
  ASSUME Inv, NEW i \in Inputs, AcceptStarts(i) \/ AcceptWaits(i)
  PROVE  /\ i \in Durable /\ receipt[i] = "none"
         /\ receipt' = [receipt EXCEPT ![i] = "queued"] /\ UNCHANGED <<row, carried, entered>>
         /\ Inv'
<1>1. /\ receipt' = [receipt EXCEPT ![i] = "queued"] /\ UNCHANGED <<row, carried, entered>>
      /\ BeingAccepted(i) /\ \A j \in Inputs : ~BeingAccepted(j)'
  BY DEF AcceptStarts, AcceptWaits, Accepts, BeingAccepted, Free
<1>2. i \in Durable /\ receipt[i] = "none" /\ call[i] # "unsent"
  BY <1>1 DEF Inv, InputsSound, InputIsSound, AcceptancesHeld
<1>3. /\ ControlTypes'
      /\ \A j \in Inputs : phase'[j] = "executing" => phase[j] = "executing"
      /\ \A j \in Inputs : call'[j] = "unsent" => call[j] = "unsent"
  BY DEF AcceptStarts, AcceptWaits, Accepts, Installed, Inv, ControlTypes, Phases
<1>4. TableTypes'
  BY <1>1 DEF Inv, TableTypes, Receipts
<1>5. InputsSound'
  <2> SUFFICES ASSUME NEW j \in Durable PROVE InputIsSound(j)'
    BY DEF InputsSound
  <2>1. CASE j = i
    BY <1>1, <1>2, <1>3, <2>1 DEF Inv, TableTypes, InputsSound, InputIsSound
  <2>2. CASE j # i
    BY <1>1, <1>3, <2>2, DurableInputs DEF Inv, TableTypes, InputsSound, InputIsSound
  <2> QED BY <2>1, <2>2
<1> QED BY <1>1, <1>2, <1>3, <1>4, <1>5 DEF Inv, AcceptancesHeld

\* The claim of a receipt and its Run's row are one step.
LEMMA AdmitKeepsInv ==
  ASSUME Inv, NEW r \in Inputs, AdmitCommits(r)
  PROVE  /\ r \in Durable => receipt[r] = "queued"
         /\ receipt' = [receipt EXCEPT ![r] = IF r \in Durable THEN "started" ELSE @]
         /\ row' = [row EXCEPT ![r] = "running"] /\ carried' = carried
         /\ Inv'
<1>1. /\ r \in Durable => receipt[r] = "queued"
      /\ receipt' = [receipt EXCEPT ![r] = IF r \in Durable THEN "started" ELSE @]
      /\ row' = [row EXCEPT ![r] = "running"] /\ UNCHANGED <<carried, call, lock>>
  BY DEF AdmitCommits, Claim
<1>2. /\ entered' = entered \/ entered' = [entered EXCEPT ![r] = @ + 1]
      /\ \A i \in Inputs \ {r} : phase'[i] = phase[i]
  BY DEF AdmitCommits, Ends, Inv, ControlTypes
<1>3. ControlTypes'
  BY DEF AdmitCommits, Ends, Inv, ControlTypes, Phases, Outcomes
<1>4. TableTypes'
  BY <1>1, <1>2 DEF Inv, TableTypes, Receipts
<1>5. InputsSound'
  <2> SUFFICES ASSUME NEW j \in Durable PROVE InputIsSound(j)'
    BY DEF InputsSound
  <2>1. BeingAccepted(j)' = BeingAccepted(j)
    BY <1>1 DEF BeingAccepted
  <2>2. CASE j = r
    BY <1>1, <1>2, <2>1, <2>2 DEF Inv, TableTypes, InputsSound, InputIsSound
  <2>3. CASE j # r
    BY <1>1, <1>2, <2>1, <2>3, DurableInputs DEF Inv, TableTypes, InputsSound, InputIsSound
  <2> QED BY <2>2, <2>3
<1> QED BY <1>1, <1>3, <1>4, <1>5 DEF Inv, AcceptancesHeld, BeingAccepted

\* Only a queued receipt joins another Run, and its message goes to History.
LEMMA AppendKeepsInv ==
  ASSUME Inv, NEW r \in Inputs, AppendCommits(r)
  PROVE  /\ append[r] \in Inputs
         /\ append[r] \in Durable => receipt[append[r]] = "queued"
         /\ receipt' = [receipt EXCEPT ![append[r]] = IF append[r] \in Durable THEN "steered" ELSE @]
         /\ carried' = [carried EXCEPT ![append[r]] = @ + 1] /\ UNCHANGED <<row, entered>>
         /\ Inv'
<1> DEFINE i == append[r]
<1>1. /\ i \in Inputs /\ (i \in Durable => receipt[i] = "queued")
      /\ receipt' = [receipt EXCEPT ![i] = IF i \in Durable THEN "steered" ELSE @]
      /\ carried' = [carried EXCEPT ![i] = @ + 1]
      /\ UNCHANGED <<row, entered, call, lock, verdict>>
  BY DEF AppendCommits, SteerClaim
<1>2. /\ phase' \in [Inputs -> Phases]
      /\ \A j \in Inputs : phase'[j] = "executing" => phase[j] = "executing"
  BY DEF AppendCommits, Delivers, Inv, ControlTypes, Phases
<1> HIDE DEF i
<1>3. ControlTypes'
  BY <1>1, <1>2 DEF Inv, ControlTypes
<1>4. TableTypes'
  BY <1>1 DEF Inv, TableTypes, Receipts
<1>5. InputsSound'
  <2> SUFFICES ASSUME NEW j \in Durable PROVE InputIsSound(j)'
    BY DEF InputsSound
  <2>1. BeingAccepted(j)' = BeingAccepted(j)
    BY <1>1 DEF BeingAccepted
  <2>2. CASE j = i
    BY <1>1, <1>2, <2>1, <2>2 DEF Inv, TableTypes, InputsSound, InputIsSound
  <2>3. CASE j # i
    BY <1>1, <1>2, <2>1, <2>3, DurableInputs DEF Inv, TableTypes, InputsSound, InputIsSound
  <2> QED BY <2>2, <2>3
<1> QED BY <1>1, <1>3, <1>4, <1>5 DEF Inv, AcceptancesHeld, BeingAccepted, i

LEMMA WriteInputKeepsInv ==
  ASSUME Inv, NEW r \in Inputs, WriteInput(r)
  PROVE  /\ phase[r] = "executing" /\ carried[r] = 0
         /\ carried' = [carried EXCEPT ![r] = 1] /\ UNCHANGED <<receipt, row, entered>>
         /\ Inv'
<1>1. /\ phase[r] = "executing" /\ carried[r] = 0 /\ carried' = [carried EXCEPT ![r] = 1]
      /\ UNCHANGED <<receipt, row, entered, call, lock, verdict, phase>>
  BY DEF WriteInput, runVars
<1>2. InputsSound'
  <2> SUFFICES ASSUME NEW j \in Durable PROVE InputIsSound(j)'
    BY DEF InputsSound
  <2>1. BeingAccepted(j)' = BeingAccepted(j)
    BY <1>1 DEF BeingAccepted
  <2> QED BY <1>1, <2>1, DurableInputs DEF Inv, TableTypes, InputsSound, InputIsSound
<1> QED BY <1>1, <1>2 DEF Inv, ControlTypes, TableTypes, AcceptancesHeld, BeingAccepted

\* A settled Run leaves its input in History.
LEMMA FinishKeepsInv ==
  ASSUME Inv, NEW r \in Inputs, FinishCommits(r)
  PROVE  /\ IF row[r] = "running"
            THEN /\ row' = [row EXCEPT ![r] = verdict[r]] /\ verdict[r] \in Outcomes
                 /\ carried' = Materialized({r}) /\ UNCHANGED <<receipt, entered>>
            ELSE Withdraw(r)
         /\ Inv'
<1>1. Quiet
  BY DEF FinishCommits, Quiet, Inv, ControlTypes, BeingAccepted, Phases
<1>2. CASE row[r] # "running"
  <2>1. Withdraw(r)
    BY <1>2 DEF FinishCommits, Withdraw, Inv, TableTypes
  <2> QED BY <1>1, <1>2, <2>1, WithdrawKeepsInv
<1>3. CASE row[r] = "running"
  <2>1. /\ row' = [row EXCEPT ![r] = verdict[r]] /\ verdict[r] \in Outcomes
        /\ carried' = Materialized({r}) /\ UNCHANGED <<receipt, entered>>
        /\ phase'[r] # "executing"
    BY <1>3 DEF FinishCommits, Inv, ControlTypes
  <2>2. TableTypes'
    BY <2>1 DEF Inv, TableTypes, Materialized
  <2>3. InputsSound'
    <3> SUFFICES ASSUME NEW j \in Durable PROVE InputIsSound(j)'
      BY DEF InputsSound
    <3>1. CASE j = r
      BY <1>1, <1>3, <2>1, <3>1 DEF Quiet, Materialized, Outcomes, Inv, TableTypes, InputsSound,
         InputIsSound
    <3>2. CASE j # r
      BY <1>1, <2>1, <3>2, DurableInputs DEF Quiet, Materialized, Inv, TableTypes, InputsSound,
         InputIsSound
    <3> QED BY <3>1, <3>2
  <2> QED BY <1>1, <1>3, <2>1, <2>2, <2>3 DEF Quiet, Inv, AcceptancesHeld
<1> QED BY <1>2, <1>3

LEMMA RestartKeepsInv == ASSUME Inv, Restart PROVE Inv' /\ UNCHANGED receipt
<1>1. /\ row' = [i \in Inputs |-> IF row[i] = "running" THEN "interrupted" ELSE row[i]]
      /\ carried' = Materialized({i \in Inputs : row[i] = "running"})
      /\ UNCHANGED <<receipt, entered, call, lock, verdict>>
  BY DEF Restart, RunsRecovered
<1>2. /\ phase' \in [Inputs -> Phases]
      /\ \A i \in Inputs : phase'[i] # "executing"
  BY DEF Restart, Phases
<1>3. TableTypes' /\ ControlTypes'
  BY <1>1, <1>2 DEF Inv, TableTypes, ControlTypes, Materialized, Outcomes
<1>4. InputsSound'
  <2> SUFFICES ASSUME NEW j \in Durable PROVE InputIsSound(j)'
    BY DEF InputsSound
  <2>1. BeingAccepted(j)' = BeingAccepted(j)
    BY <1>1 DEF BeingAccepted
  <2> QED BY <1>1, <1>2, <2>1, DurableInputs DEF Materialized, Inv, TableTypes, InputsSound,
       InputIsSound
<1> QED BY <1>1, <1>3, <1>4 DEF Inv, AcceptancesHeld, BeingAccepted

\* Every step of Next is one of those above.
LEMMA StepKinds ==
  ASSUME Inv, Next
  PROVE  \/ Still /\ Quiet
         \/ Restart
         \/ \E i \in Inputs : \/ Withdraw(i) /\ Quiet
                            \/ AcceptBegins(i) \/ AcceptStarts(i) \/ AcceptWaits(i)
                            \/ AppendCommits(i) \/ AdmitCommits(i) \/ WriteInput(i)
                            \/ FinishCommits(i)
BY ProducerIsQuiet, UserIsQuiet, ReleaseIsQuiet, RunStepIsQuiet, ManagerIsQuiet,
   WithdrawerWithdraws DEF Next, Producer, LockHolder, Steering, RunStep

LEMMA NextKeepsInv == ASSUME Inv, [Next]_vars PROVE Inv'
<1>1. CASE Next
  BY <1>1, StepKinds, StillKeepsInv, WithdrawKeepsInv, RestartKeepsInv, AcceptBeginsKeepsInv,
     AcceptKeepsInv, AppendKeepsInv, AdmitKeepsInv, WriteInputKeepsInv, FinishKeepsInv
<1>2. CASE UNCHANGED vars
  <2>1. Still /\ Quiet
    BY <1>2 DEF vars, runVars, storeVars, Still, Quiet, Inv, ControlTypes, BeingAccepted
  <2> QED BY <2>1, StillKeepsInv
<1> QED BY <1>1, <1>2

-----------------------------------------------------------------------------
(* The inductive invariant: what the tables hold of an input, by the state *)
(* of its receipt (_store_accessor_inputs.py, _store_runs.py).             *)
THEOREM LedgerInvariant == Spec => []Inv
BY InitInv, NextKeepsInv, PTL DEF Spec

(* The tables and a Run's progress keep their types.                       *)
THEOREM TypeCorrect == Spec => []TypeOK
<1>1. Inv => TypeOK
  BY DEF Inv, TypeOK
<1> QED BY <1>1, LedgerInvariant, PTL

(* An input is executed or steered at most once and never after it was     *)
(* withdrawn, whatever fails, dies or is cancelled.                        *)
THEOREM InputsAreAnsweredOnce == Spec => []InputsRunOnce
<1>1. Inv => InputsRunOnce
  BY DurableInputs DEF Inv, TableTypes, Receipts, InputsSound, InputIsSound, InputsRunOnce
<1> QED BY <1>1, LedgerInvariant, PTL

(* A claimed input is in History once its Run has an outcome.              *)
THEOREM ClaimedInputsAreKept == Spec => []ClaimedInputIsKept
<1>1. Inv => ClaimedInputIsKept
  BY DurableInputs DEF Inv, TableTypes, InputsSound, InputIsSound, ClaimedInputIsKept
<1> QED BY <1>1, LedgerInvariant, PTL

-----------------------------------------------------------------------------
(* RunManager implements InputLedger. *)

\* What the ledger sees: the durable inputs' columns of the tables.
SameLedger ==
  \A j \in Durable : receipt'[j] = receipt[j] /\ row'[j] = row[j] /\ carried'[j] = carried[j]

LEMMA SameLedgerStutters == ASSUME SameLedger PROVE UNCHANGED Ledger!vars
BY DEF SameLedger, Ledger!vars

LEMMA WithdrawIsWithdraw ==
  ASSUME Inv, NEW i \in Inputs, Withdraw(i)
  PROVE  [Ledger!Next]_(Ledger!vars)
<1>1. CASE i \in Durable /\ receipt' # receipt
  <2>1. Ledger!Withdraw(i)
    BY <1>1, DurableInputs DEF Withdraw, Inv, TableTypes, Ledger!Withdraw, Ledger!Moves
  <2> QED BY <1>1, <2>1 DEF Ledger!Next
<1>2. CASE i \notin Durable \/ receipt' = receipt
  <2>1. SameLedger
    BY <1>2, DurableInputs DEF Withdraw, SameLedger, Inv, TableTypes
  <2> QED BY <2>1, SameLedgerStutters
<1> QED BY <1>1, <1>2

LEMMA AcceptIsAccept ==
  ASSUME Inv, NEW i \in Inputs, AcceptStarts(i) \/ AcceptWaits(i)
  PROVE  Ledger!Next
<1>1. /\ i \in Durable /\ receipt[i] = "none"
      /\ receipt' = [receipt EXCEPT ![i] = "queued"] /\ UNCHANGED <<row, carried>>
  BY AcceptKeepsInv
<1>2. Ledger!Accept(i)
  BY <1>1, DurableInputs DEF Inv, TableTypes, Ledger!Accept, Ledger!Moves
<1> QED BY <1>1, <1>2 DEF Ledger!Next

LEMMA AdmitIsClaim ==
  ASSUME Inv, NEW r \in Inputs, AdmitCommits(r)
  PROVE  [Ledger!Next]_(Ledger!vars)
<1>1. /\ r \in Durable => receipt[r] = "queued"
      /\ receipt' = [receipt EXCEPT ![r] = IF r \in Durable THEN "started" ELSE @]
      /\ row' = [row EXCEPT ![r] = "running"] /\ carried' = carried
  BY AdmitKeepsInv
<1>2. CASE r \in Durable
  <2>1. row[r] = "none"
    BY <1>1, <1>2 DEF Inv, InputsSound, InputIsSound
  <2>2. Ledger!Claim(r)
    BY <1>1, <1>2, <2>1, DurableInputs DEF Inv, TableTypes, Outcomes, Ledger!Claim, Ledger!Moves
  <2> QED BY <1>2, <2>2 DEF Ledger!Next
<1>3. CASE r \notin Durable
  <2>1. SameLedger
    BY <1>1, <1>3, DurableInputs DEF SameLedger, Inv, TableTypes
  <2> QED BY <2>1, SameLedgerStutters
<1> QED BY <1>2, <1>3

LEMMA JoiningIsSteer ==
  ASSUME Inv, NEW i \in Inputs, i \in Durable => receipt[i] = "queued",
         receipt' = [receipt EXCEPT ![i] = IF i \in Durable THEN "steered" ELSE @],
         carried' = [carried EXCEPT ![i] = @ + 1], row' = row
  PROVE  [Ledger!Next]_(Ledger!vars)
<1>1. CASE i \in Durable
  <2>1. \A j \in Durable : carried'[j] > 0 <=> carried[j] > 0 \/ j = i
    BY <1>1, DurableInputs DEF Inv, TableTypes
  <2>2. Ledger!Moves(i, "queued", "steered")
    BY <1>1, DurableInputs DEF Inv, TableTypes, Ledger!Moves
  <2>3. Ledger!Steer(i)
    BY <1>1, <2>1, <2>2 DEF Ledger!Steer
  <2> QED BY <1>1, <2>3 DEF Ledger!Next
<1>2. CASE i \notin Durable
  <2>1. SameLedger
    BY <1>2, DurableInputs DEF SameLedger, Inv, TableTypes
  <2> QED BY <2>1, SameLedgerStutters
<1> QED BY <1>1, <1>2

LEMMA AppendIsSteer ==
  ASSUME Inv, NEW r \in Inputs, AppendCommits(r)
  PROVE  [Ledger!Next]_(Ledger!vars)
BY AppendKeepsInv, JoiningIsSteer

LEMMA WriteIsTell ==
  ASSUME Inv, NEW r \in Inputs, WriteInput(r)
  PROVE  [Ledger!Next]_(Ledger!vars)
<1>1. /\ phase[r] = "executing" /\ carried[r] = 0
      /\ carried' = [carried EXCEPT ![r] = 1] /\ UNCHANGED <<receipt, row>>
  BY WriteInputKeepsInv
<1>2. CASE r \in Durable
  <2>1. receipt[r] = "started" /\ row[r] = "running"
    BY <1>1, <1>2 DEF Inv, InputsSound, InputIsSound
  <2>2. Ledger!Tell(r)
    BY <1>1, <1>2, <2>1, DurableInputs DEF Inv, TableTypes, Outcomes, Ledger!Tell
  <2> QED BY <1>2, <2>2 DEF Ledger!Next
<1>3. CASE r \notin Durable
  <2>1. SameLedger
    BY <1>1, <1>3, DurableInputs DEF SameLedger, Inv, TableTypes
  <2> QED BY <2>1, SameLedgerStutters
<1> QED BY <1>2, <1>3

\* A transaction that ends the Runs of S, and writes their unwritten inputs.
LEMMA SettlingIsSettle ==
  ASSUME Inv, NEW S \in SUBSET Inputs, \A i \in S : row[i] = "running",
         \A i \in Inputs : IF i \in S THEN row'[i] \in Outcomes ELSE row'[i] = row[i],
         carried' = Materialized(S), receipt' = receipt
  PROVE  Ledger!Next
<1> DEFINE D == S \cap Durable
<1>1. \A i \in D : receipt[i] = "started" /\ row[i] \notin Outcomes
  BY DEF Inv, InputsSound, InputIsSound, Outcomes
<1>2. \A i \in Durable : carried'[i] > 0 <=> carried[i] > 0 \/ i \in D
  BY DurableInputs DEF Materialized, Inv, TableTypes
<1>3. \A i \in Durable : row'[i] \in Outcomes <=> row[i] \in Outcomes \/ i \in D
  BY DurableInputs
<1>4. Ledger!Settle(D)
  BY <1>1, <1>2, <1>3 DEF Ledger!Settle
<1> QED BY <1>4 DEF Ledger!Next

LEMMA FinishIsSettle ==
  ASSUME Inv, NEW r \in Inputs, FinishCommits(r)
  PROVE  [Ledger!Next]_(Ledger!vars)
<1>1. CASE row[r] = "running"
  <2>1. /\ row' = [row EXCEPT ![r] = verdict[r]] /\ verdict[r] \in Outcomes
        /\ carried' = Materialized({r}) /\ receipt' = receipt
    BY <1>1, FinishKeepsInv
  <2>2. \A i \in Inputs : IF i \in {r} THEN row'[i] \in Outcomes ELSE row'[i] = row[i]
    BY <2>1 DEF Inv, TableTypes
  <2> QED BY <1>1, <2>1, <2>2, SettlingIsSettle
<1>2. CASE row[r] # "running"
  BY <1>2, FinishKeepsInv, WithdrawIsWithdraw
<1> QED BY <1>1, <1>2

LEMMA RestartIsSettle == ASSUME Inv, Restart PROVE Ledger!Next
<1> DEFINE left == {i \in Inputs : row[i] = "running"}
<1>1. /\ row' = [i \in Inputs |-> IF i \in left THEN "interrupted" ELSE row[i]]
      /\ carried' = Materialized(left) /\ receipt' = receipt
  BY DEF Restart, RunsRecovered
<1> QED BY <1>1, SettlingIsSettle DEF Outcomes

LEMMA StepRefines == ASSUME Inv, [Next]_vars PROVE [Ledger!Next]_(Ledger!vars)
<1>1. ASSUME Still PROVE [Ledger!Next]_(Ledger!vars)
  BY <1>1, SameLedgerStutters DEF Still, SameLedger
<1>2. CASE UNCHANGED vars
  BY <1>1, <1>2 DEF vars, runVars, storeVars, Still
<1>3. CASE Next
  <2>1. ASSUME NEW i \in Inputs, AcceptBegins(i) PROVE Still
    BY <2>1, AcceptBeginsKeepsInv
  <2> QED
    BY <1>1, <1>3, <2>1, StepKinds, WithdrawIsWithdraw, AcceptIsAccept, AdmitIsClaim,
       AppendIsSteer, WriteIsTell, FinishIsSettle, RestartIsSettle
<1> QED BY <1>2, <1>3

(* The receipts, Run rows and History are an InputLedger: each accepted    *)
(* input goes one way, once, and History keeps every answered one, across  *)
(* failures, cancellations and process deaths.                             *)
THEOREM ImplementsInputLedger == Spec => RefinesInputLedger
<1>1. Init => Ledger!Init
  BY DurableInputs DEF Init, Ledger!Init, Outcomes
<1> QED BY <1>1, StepRefines, LedgerInvariant, PTL DEF Spec, RefinesInputLedger, Ledger!Spec

-----------------------------------------------------------------------------
(* Queues: what selecting, sorting and cutting a sequence of inputs leaves, *)
(* in terms of its elements (ToSet) and of who stands before whom (Before). *)

NoRepeat(q) == \A i \in Inputs : ~Before(q, i, i)

LEMMA Least ==
  ASSUME NEW T \in SUBSET Nat, T # {}
  PROVE  \E n \in T : \A m \in T : n =< m
<1> DEFINE R == OpToRel(<, Nat)
<1>1. \E x \in T : \A y \in T : ~(<<y, x>> \in R)
  BY NatLessThanWellFounded, WFMin, Zenon
<1>2. \A x, y \in Nat : ~(<<y, x>> \in R) => x =< y
  BY DEF OpToRel
<1> HIDE DEF R
<1> QED BY <1>1, <1>2

LEMMA Induction == ASSUME NEW T \in SUBSET Nat, 0 \in T, \A n \in T : n + 1 \in T PROVE T = Nat
<1>1. SUFFICES ASSUME Nat \ T # {} PROVE FALSE
  OBVIOUS
<1>2. PICK n \in Nat \ T : \A m \in Nat \ T : n =< m
  BY <1>1, Least
<1>3. n # 0 /\ n - 1 \in T
  BY <1>2
<1> QED BY <1>3

\* What Kept computes, place by place.
KeptStep(q, S, g, n) ==
  IF n = 0 THEN <<>> ELSE IF q[n] \in S THEN Append(g[n - 1], q[n]) ELSE g[n - 1]
KeptUpTo(q, S, g, l) == g = [n \in 0..l |-> KeptStep(q, S, g, n)]

LEMMA KeptExists == ASSUME NEW q, NEW S PROVE \A l \in Nat : \E g : KeptUpTo(q, S, g, l)
<1> DEFINE T == {l \in Nat : \E g : KeptUpTo(q, S, g, l)}
<1>1. KeptUpTo(q, S, [n \in 0..0 |-> <<>>], 0)
  BY DEF KeptUpTo, KeptStep
<1>2. ASSUME NEW l \in T PROVE l + 1 \in T
  <2>1. PICK g : KeptUpTo(q, S, g, l)
    OBVIOUS
  <2> DEFINE h == [n \in 0..(l + 1) |-> IF n = l + 1 THEN KeptStep(q, S, g, n) ELSE g[n]]
  <2>2. \A n \in 0..(l + 1) : h[n] = KeptStep(q, S, h, n)
    <3> TAKE n \in 0..(l + 1)
    <3>1. CASE n = l + 1
      <4>1. h[n - 1] = g[n - 1]
        BY <3>1
      <4> QED BY <3>1, <4>1 DEF KeptStep
    <3>2. CASE n # l + 1
      <4>1. n \in 0..l /\ h[n] = g[n] /\ (n # 0 => h[n - 1] = g[n - 1])
        BY <3>2
      <4>2. g[n] = KeptStep(q, S, g, n)
        BY <2>1, <4>1 DEF KeptUpTo
      <4> QED BY <4>1, <4>2 DEF KeptStep
    <3> QED BY <3>1, <3>2
  <2>3. KeptUpTo(q, S, h, l + 1)
    BY <2>2 DEF KeptUpTo
  <2> QED BY <2>3
<1> HIDE DEF T
<1>3. T = Nat
  BY <1>1, <1>2, Induction DEF T
<1> QED BY <1>3 DEF T

LEMMA KeptIsLast ==
  ASSUME NEW q, NEW S, Len(q) \in Nat
  PROVE  \E g : KeptUpTo(q, S, g, Len(q)) /\ Kept(q, S) = g[Len(q)]
<1> DEFINE f == CHOOSE g : KeptUpTo(q, S, g, Len(q))
<1>1. KeptUpTo(q, S, f, Len(q))
  BY KeptExists
<1>2. Kept(q, S) = f[Len(q)]
  BY DEF Kept, KeptUpTo, KeptStep
<1> QED BY <1>1, <1>2
LEMMA KeptEmpty == \A S : Kept(<<>>, S) = <<>>
BY KeptIsLast DEF KeptUpTo, KeptStep

LEMMA KeptAppend ==
  ASSUME NEW A, NEW q \in Seq(A), NEW x \in A, NEW S
  PROVE  Kept(Append(q, x), S) = IF x \in S THEN Append(Kept(q, S), x) ELSE Kept(q, S)
<1> DEFINE p == Append(q, x)
           l == Len(q)
<1>1. l \in Nat /\ Len(p) = l + 1 /\ p[l + 1] = x /\ \A n \in 1..l : p[n] = q[n]
  OBVIOUS
<1> HIDE DEF p, l
<1>2. PICK g : KeptUpTo(q, S, g, l) /\ Kept(q, S) = g[l]
  BY <1>1, KeptIsLast DEF l
<1>3. PICK h : KeptUpTo(p, S, h, Len(p)) /\ Kept(p, S) = h[Len(p)]
  <2>1. Len(p) \in Nat
    BY <1>1
  <2> QED BY <2>1, KeptIsLast
<1>6. /\ \A n \in 0..l : g[n] = KeptStep(q, S, g, n)
      /\ \A n \in 0..(l + 1) : h[n] = KeptStep(p, S, h, n)
  BY <1>1, <1>2, <1>3, Zenon DEF KeptUpTo
<1>4. \A n \in 0..l : g[n] = h[n]
  <2> DEFINE T == {n \in Nat : n =< l => g[n] = h[n]}
  <2>1. 0 \in T
    BY <1>1, <1>6 DEF KeptStep
  <2>2. ASSUME NEW n \in T PROVE n + 1 \in T
    <3> SUFFICES ASSUME n + 1 =< l PROVE g[n + 1] = h[n + 1]
      BY <1>1
    <3>1. g[n] = h[n] /\ p[n + 1] = q[n + 1]
      BY <1>1
    <3>2. g[n + 1] = KeptStep(q, S, g, n + 1) /\ h[n + 1] = KeptStep(p, S, h, n + 1)
      BY <1>1, <1>6
    <3> QED BY <3>1, <3>2 DEF KeptStep
  <2> HIDE DEF T
  <2>3. T = Nat
    BY <2>1, <2>2, Induction DEF T
  <2> QED BY <2>3, <1>1 DEF T
<1>5. h[l + 1] = KeptStep(p, S, h, l + 1) /\ g[l] = h[l]
  BY <1>1, <1>4, <1>6
<1> QED BY <1>1, <1>2, <1>3, <1>5 DEF KeptStep, p

\* What a selection holds, and in which order.
Selects(q, S) ==
  /\ Kept(q, S) \in Seq(Inputs)
  /\ ToSet(Kept(q, S)) = ToSet(q) \cap S
  /\ \A i, j \in Inputs : Before(Kept(q, S), i, j) => Before(q, i, j) /\ i \in S /\ j \in S

LEMMA Appended ==
  ASSUME NEW q \in Seq(Inputs), NEW x \in Inputs
  PROVE  /\ Append(q, x) \in Seq(Inputs) /\ Append(q, x) # <<>>
         /\ ToSet(Append(q, x)) = ToSet(q) \cup {x}
         /\ \A i, j \in Inputs :
              Before(Append(q, x), i, j) <=> Before(q, i, j) \/ (i \in ToSet(q) /\ j = x)
<1> DEFINE p == Append(q, x)
<1>1. /\ p \in Seq(Inputs) /\ p # <<>> /\ Len(p) = Len(q) + 1 /\ p[Len(q) + 1] = x
      /\ Len(q) \in Nat /\ \A n \in 1..Len(q) : p[n] = q[n]
  OBVIOUS
<1>2. DOMAIN p = 1..Len(p) /\ DOMAIN q = 1..Len(q)
  BY <1>1
<1> HIDE DEF p
<1>3. ToSet(p) = ToSet(q) \cup {x}
  <2>1. ASSUME NEW n \in 1..Len(p) PROVE p[n] \in ToSet(q) \cup {x}
    <3>1. n = Len(q) + 1 \/ n \in 1..Len(q)
      BY <1>1
    <3> QED BY <3>1, <1>1, <1>2 DEF ToSet
  <2>2. ASSUME NEW n \in 1..Len(q) PROVE q[n] \in ToSet(p)
    BY <1>1, <1>2 DEF ToSet
  <2>3. x \in ToSet(p)
    BY <1>1, <1>2 DEF ToSet
  <2> QED BY <1>2, <2>1, <2>2, <2>3 DEF ToSet
<1>4. ASSUME NEW i \in Inputs, NEW j \in Inputs
      PROVE  Before(p, i, j) <=> Before(q, i, j) \/ (i \in ToSet(q) /\ j = x)
  <2>1. ASSUME Before(p, i, j) PROVE Before(q, i, j) \/ (i \in ToSet(q) /\ j = x)
    <3>1. PICK m, n \in 1..Len(p) : m < n /\ p[m] = i /\ p[n] = j
      BY <2>1 DEF Before
    <3>2. m \in 1..Len(q) /\ q[m] = i
      BY <1>1, <3>1
    <3>3. CASE n \in 1..Len(q)
      BY <1>1, <3>1, <3>2, <3>3 DEF Before
    <3>4. CASE n = Len(q) + 1
      BY <1>1, <1>2, <3>1, <3>2, <3>4 DEF ToSet
    <3> QED BY <1>1, <3>1, <3>3, <3>4
  <2>2. ASSUME Before(q, i, j) PROVE Before(p, i, j)
    BY <1>1, <2>2 DEF Before
  <2>3. ASSUME i \in ToSet(q), j = x PROVE Before(p, i, j)
    <3>1. PICK m \in 1..Len(q) : q[m] = i
      BY <1>2, <2>3 DEF ToSet
    <3> QED BY <1>1, <2>3, <3>1 DEF Before
  <2> QED BY <2>1, <2>2, <2>3
<1> QED BY <1>1, <1>3, <1>4 DEF p

LEMMA KeptSelects == ASSUME NEW S PROVE \A q \in Seq(Inputs) : Selects(q, S)
<1> DEFINE T == {n \in Nat : \A q \in Seq(Inputs) : Len(q) = n => Selects(q, S)}
<1>1. 0 \in T
  <2> SUFFICES ASSUME NEW q \in Seq(Inputs), Len(q) = 0 PROVE Selects(q, S)
    OBVIOUS
  <2>1. q = <<>> /\ Kept(q, S) = <<>>
    BY KeptEmpty
  <2>2. ToSet(<<>>) = {}
    BY DEF ToSet
  <2>3. \A i, j : ~Before(<<>>, i, j)
    BY DEF Before
  <2>4. <<>> \in Seq(Inputs)
    OBVIOUS
  <2> QED BY <2>1, <2>2, <2>3, <2>4, Zenon DEF Selects
<1>2. ASSUME NEW n \in T PROVE n + 1 \in T
  <2> SUFFICES ASSUME NEW p \in Seq(Inputs), Len(p) = n + 1 PROVE Selects(p, S)
    BY <1>2
  <2>1. PICK q \in Seq(Inputs), x \in Inputs : p = Append(q, x) /\ Len(q) = n
    <3> DEFINE q == SubSeq(p, 1, n)
    <3>1. q \in Seq(Inputs) /\ Len(q) = n /\ p[n + 1] \in Inputs
      OBVIOUS
    <3>2. p = Append(q, p[n + 1])
      OBVIOUS
    <3> QED BY <3>1, <3>2
  <2>2. Selects(q, S)
    BY <2>1
  <2>3. Kept(p, S) = IF x \in S THEN Append(Kept(q, S), x) ELSE Kept(q, S)
    BY <2>1, KeptAppend
  <2>4. /\ ToSet(p) = ToSet(q) \cup {x}
        /\ \A i, j \in Inputs : Before(p, i, j) <=> Before(q, i, j) \/ (i \in ToSet(q) /\ j = x)
    BY <2>1, Appended
  <2> HIDE DEF T
  <2> DEFINE k == Kept(q, S)
  <2>6. k \in Seq(Inputs)
    BY <2>2 DEF Selects
  <2>5. /\ Append(k, x) \in Seq(Inputs)
        /\ ToSet(Append(k, x)) = ToSet(k) \cup {x}
        /\ \A i, j \in Inputs :
             Before(Append(k, x), i, j) <=> Before(k, i, j) \/ (i \in ToSet(k) /\ j = x)
    BY <2>6, Appended
  <2> HIDE DEF k
  <2>7. CASE x \in S
    <3>1. Kept(p, S) = Append(k, x)
      BY <2>3, <2>7 DEF k
    <3>2. ToSet(k) = ToSet(q) \cap S
          /\ \A i, j \in Inputs : Before(k, i, j) => Before(q, i, j) /\ i \in S /\ j \in S
      BY <2>2 DEF Selects, k
    <3>3. ToSet(Append(k, x)) = ToSet(p) \cap S
      BY <2>4, <2>5, <2>7, <3>2
    <3>4. \A i, j \in Inputs : Before(Append(k, x), i, j) => Before(p, i, j) /\ i \in S /\ j \in S
      BY <2>4, <2>5, <2>7, <3>2
    <3> QED BY <2>5, <3>1, <3>3, <3>4 DEF Selects
  <2>8. CASE x \notin S
    BY <2>2, <2>3, <2>4, <2>8 DEF Selects
  <2> QED BY <2>7, <2>8
<1> HIDE DEF T
<1>3. T = Nat
  BY <1>1, <1>2, Induction DEF T
<1> QED BY <1>3 DEF T

LEMMA Places ==
  ASSUME NEW q \in Seq(Inputs)
  PROVE  /\ Len(q) \in Nat /\ \A n \in 1..Len(q) : q[n] \in Inputs /\ q[n] \in ToSet(q)
         /\ \A i \in ToSet(q) : i \in Inputs /\ \E n \in 1..Len(q) : q[n] = i
         /\ \A i, j : Before(q, i, j) => i \in ToSet(q) /\ j \in ToSet(q)
         /\ q = <<>> <=> ToSet(q) = {}
<1>1. DOMAIN q = 1..Len(q) /\ Len(q) \in Nat /\ \A n \in 1..Len(q) : q[n] \in Inputs
  OBVIOUS
<1>2. ToSet(q) = {q[n] : n \in 1..Len(q)}
  BY <1>1 DEF ToSet
<1>3. q = <<>> <=> Len(q) = 0
  OBVIOUS
<1>4. q = <<>> <=> ToSet(q) = {}
  <2>1. CASE Len(q) = 0
    BY <1>1, <1>2, <1>3, <2>1
  <2>2. CASE Len(q) # 0
    <3>1. q[1] \in ToSet(q)
      BY <1>1, <1>2, <2>2
    <3> QED BY <1>3, <2>2, <3>1
  <2> QED BY <2>1, <2>2
<1> QED BY <1>1, <1>2, <1>4 DEF Before

LEMMA WithoutLeaves ==
  ASSUME NEW q \in Seq(Inputs), NEW gone
  PROVE  /\ Without(q, gone) \in Seq(Inputs)
         /\ ToSet(Without(q, gone)) = ToSet(q) \ gone
         /\ \A i, j \in Inputs : Before(Without(q, gone), i, j) => Before(q, i, j)
<1>1. ToSet(q) \subseteq Inputs
  BY Places
<1>2. Selects(q, Inputs \ gone)
  BY KeptSelects
<1> QED BY <1>1, <1>2 DEF Without, Selects

LEMMA Concatenated ==
  ASSUME NEW p \in Seq(Inputs), NEW q \in Seq(Inputs)
  PROVE  /\ p \o q \in Seq(Inputs)
         /\ ToSet(p \o q) = ToSet(p) \cup ToSet(q)
         /\ \A i, j \in Inputs :
              Before(p \o q, i, j) =>
                Before(p, i, j) \/ Before(q, i, j) \/ (i \in ToSet(p) /\ j \in ToSet(q))
<1> DEFINE r == p \o q
<1>1. /\ r \in Seq(Inputs) /\ Len(r) = Len(p) + Len(q) /\ Len(p) \in Nat /\ Len(q) \in Nat
      /\ \A n \in 1..Len(p) : r[n] = p[n]
      /\ \A n \in 1..Len(q) : r[Len(p) + n] = q[n]
      /\ \A n \in 1..Len(r) : n \notin 1..Len(p) => n - Len(p) \in 1..Len(q) /\ r[n] = q[n - Len(p)]
  OBVIOUS
<1> HIDE DEF r
<1>2. /\ \A n \in 1..Len(p) : p[n] \in ToSet(p)
      /\ \A n \in 1..Len(q) : q[n] \in ToSet(q)
      /\ \A n \in 1..Len(r) : r[n] \in ToSet(r)
      /\ \A i \in ToSet(p) : \E n \in 1..Len(p) : p[n] = i
      /\ \A i \in ToSet(q) : \E n \in 1..Len(q) : q[n] = i
      /\ \A i \in ToSet(r) : \E n \in 1..Len(r) : r[n] = i
  BY <1>1, Places
<1>3. ToSet(r) = ToSet(p) \cup ToSet(q)
  <2>1. ASSUME NEW i \in ToSet(r) PROVE i \in ToSet(p) \cup ToSet(q)
    <3>1. PICK n \in 1..Len(r) : r[n] = i
      BY <1>2, <2>1
    <3>2. CASE n \in 1..Len(p)
      BY <1>1, <1>2, <3>1, <3>2
    <3>3. CASE n \notin 1..Len(p)
      BY <1>1, <1>2, <3>1, <3>3
    <3> QED BY <3>2, <3>3
  <2>2. ASSUME NEW i \in ToSet(p) PROVE i \in ToSet(r)
    <3>1. PICK n \in 1..Len(p) : p[n] = i
      BY <1>2, <2>2
    <3> QED BY <1>1, <1>2, <3>1
  <2>3. ASSUME NEW i \in ToSet(q) PROVE i \in ToSet(r)
    <3>1. PICK n \in 1..Len(q) : q[n] = i
      BY <1>2, <2>3
    <3>2. Len(p) + n \in 1..Len(r)
      BY <1>1
    <3> QED BY <1>1, <1>2, <3>1, <3>2
  <2> QED BY <2>1, <2>2, <2>3
<1>4. ASSUME NEW i \in Inputs, NEW j \in Inputs, Before(r, i, j)
      PROVE  Before(p, i, j) \/ Before(q, i, j) \/ (i \in ToSet(p) /\ j \in ToSet(q))
  <2>1. PICK m, n \in 1..Len(r) : m < n /\ r[m] = i /\ r[n] = j
    BY <1>4 DEF Before
  <2>2. CASE n \in 1..Len(p)
    <3>2. m \in 1..Len(p)
      <4>1. m \in Nat /\ n \in Nat /\ 1 =< m /\ m < n /\ n =< Len(p)
        BY <2>1, <2>2, <1>1
      <4> QED BY <4>1, <1>1
    <3>1. m \in 1..Len(p) /\ p[m] = i /\ p[n] = j
      BY <1>1, <2>1, <2>2, <3>2
    <3> QED BY <2>1, <2>2, <3>1 DEF Before
  <2>3. CASE m \notin 1..Len(p)
    <3>1. n \notin 1..Len(p)
      BY <1>1, <2>1, <2>3
    <3>2. /\ m - Len(p) \in 1..Len(q) /\ q[m - Len(p)] = i
          /\ n - Len(p) \in 1..Len(q) /\ q[n - Len(p)] = j
      BY <1>1, <2>1, <2>3, <3>1
    <3>3. m - Len(p) < n - Len(p)
      BY <1>1, <2>1
    <3> QED BY <3>2, <3>3 DEF Before
  <2>4. CASE m \in 1..Len(p) /\ n \notin 1..Len(p)
    BY <1>1, <1>2, <2>1, <2>4
  <2> QED BY <2>2, <2>3, <2>4
<1> QED BY <1>1, <1>3, <1>4 DEF r

LEMMA SteeringFirstSorts ==
  ASSUME NEW q \in Seq(Inputs), NEW flag \in [Inputs -> BOOLEAN]
  PROVE  /\ SteeringFirst(q, flag) \in Seq(Inputs)
         /\ ToSet(SteeringFirst(q, flag)) = ToSet(q)
         /\ \A i, j \in Inputs :
              Before(SteeringFirst(q, flag), i, j) =>
                \/ flag[i] /\ ~flag[j] /\ i \in ToSet(q) /\ j \in ToSet(q)
                \/ (flag[i] <=> flag[j]) /\ Before(q, i, j)
<1> DEFINE Y == {i \in Inputs : flag[i]}
           N == {i \in Inputs : ~flag[i]}
           y == Kept(q, Y)
           n == Kept(q, N)
<1>1. Selects(q, Y) /\ Selects(q, N) /\ ToSet(q) \subseteq Inputs
  BY KeptSelects, Places
<1>2. SteeringFirst(q, flag) = y \o n
  BY DEF SteeringFirst
<1>3. Y \cup N = Inputs /\ (\A i \in Inputs : (i \in Y <=> flag[i]) /\ (i \in N <=> ~flag[i]))
  OBVIOUS
<1> HIDE DEF Y, N
<1>4. /\ y \in Seq(Inputs) /\ n \in Seq(Inputs)
      /\ ToSet(y) = ToSet(q) \cap Y /\ ToSet(n) = ToSet(q) \cap N
      /\ \A i, j \in Inputs : Before(y, i, j) => Before(q, i, j) /\ i \in Y /\ j \in Y
      /\ \A i, j \in Inputs : Before(n, i, j) => Before(q, i, j) /\ i \in N /\ j \in N
  BY <1>1 DEF Selects
<1> HIDE DEF y, n
<1>5. /\ y \o n \in Seq(Inputs)
      /\ ToSet(y \o n) = ToSet(y) \cup ToSet(n)
      /\ \A i, j \in Inputs :
           Before(y \o n, i, j) =>
             Before(y, i, j) \/ Before(n, i, j) \/ (i \in ToSet(y) /\ j \in ToSet(n))
  BY <1>4, Concatenated
<1>6. ToSet(y \o n) = ToSet(q)
  BY <1>1, <1>3, <1>4, <1>5
<1>7. ASSUME NEW i \in Inputs, NEW j \in Inputs, Before(y \o n, i, j)
      PROVE  \/ flag[i] /\ ~flag[j] /\ i \in ToSet(q) /\ j \in ToSet(q)
             \/ (flag[i] <=> flag[j]) /\ Before(q, i, j)
  BY <1>3, <1>4, <1>5, <1>7
<1> QED BY <1>2, <1>5, <1>6, <1>7

LEMMA FirstInFound ==
  ASSUME NEW q, Len(q) \in Nat, NEW S
  PROVE  /\ FirstIn(q, S) \in 1..(Len(q) + 1)
         /\ \A m \in 1..(FirstIn(q, S) - 1) : q[m] \notin S
         /\ FirstIn(q, S) =< Len(q) => q[FirstIn(q, S)] \in S
<1> DEFINE T == {n \in Nat : n \in 1..(Len(q) + 1) /\ (n =< Len(q) => q[n] \in S)}
<1>1. Len(q) + 1 \in T
  OBVIOUS
<1>2. PICK n \in T : \A m \in T : n =< m
  BY <1>1, Least
<1>3. n \in 1..(Len(q) + 1) /\ (n =< Len(q) => q[n] \in S) /\ \A m \in 1..(n - 1) : q[m] \notin S
  BY <1>2
<1> QED BY <1>3 DEF FirstIn

LEMMA RestAfter ==
  ASSUME NEW q \in Seq(Inputs), NEW k \in 1..(Len(q) + 1)
  PROVE  /\ SubSeq(q, k + 1, Len(q)) \in Seq(Inputs)
         /\ ToSet(SubSeq(q, k + 1, Len(q))) \subseteq ToSet(q)
         /\ \A i \in ToSet(q) :
              \/ \E m \in 1..(k - 1) : q[m] = i
              \/ k =< Len(q) /\ q[k] = i
              \/ i \in ToSet(SubSeq(q, k + 1, Len(q)))
         /\ \A i, j \in Inputs : Before(SubSeq(q, k + 1, Len(q)), i, j) => Before(q, i, j)
         /\ \A m \in 1..k : \A j \in ToSet(SubSeq(q, k + 1, Len(q))) : Before(q, q[m], j)
<1> DEFINE r == SubSeq(q, k + 1, Len(q))
<1>1. /\ r \in Seq(Inputs) /\ Len(q) \in Nat /\ k \in Nat /\ Len(r) \in Nat
      /\ \A n \in 1..Len(r) : k + n \in 1..Len(q) /\ r[n] = q[k + n]
      /\ \A n \in (k + 1)..Len(q) : n - k \in 1..Len(r) /\ r[n - k] = q[n]
  OBVIOUS
<1> HIDE DEF r
<1>2. /\ \A n \in 1..Len(q) : q[n] \in ToSet(q)
      /\ \A n \in 1..Len(r) : r[n] \in ToSet(r)
      /\ \A i \in ToSet(q) : \E n \in 1..Len(q) : q[n] = i
      /\ \A i \in ToSet(r) : \E n \in 1..Len(r) : r[n] = i
  BY <1>1, Places
<1>3. ASSUME NEW i \in ToSet(r)
      PROVE  i \in ToSet(q) /\ \A m \in 1..k : Before(q, q[m], i)
  <2>1. PICK n \in 1..Len(r) : r[n] = i
    BY <1>2, <1>3
  <2>2. k + n \in 1..Len(q) /\ q[k + n] = i
    BY <1>1, <2>1
  <2>3. \A m \in 1..k : m \in 1..Len(q) /\ m < k + n
    BY <1>1, <2>2
  <2> QED BY <1>2, <2>2, <2>3 DEF Before
<1>4. ASSUME NEW i \in ToSet(q)
      PROVE  (\E m \in 1..(k - 1) : q[m] = i) \/ (k =< Len(q) /\ q[k] = i) \/ i \in ToSet(r)
  <2>1. PICK n \in 1..Len(q) : q[n] = i
    BY <1>2, <1>4
  <2>2. n \in 1..(k - 1) \/ n = k \/ n \in (k + 1)..Len(q)
    BY <1>1
  <2> QED BY <1>1, <1>2, <2>1, <2>2
<1>5. ASSUME NEW i \in Inputs, NEW j \in Inputs, Before(r, i, j) PROVE Before(q, i, j)
  <2>1. PICK m, n \in 1..Len(r) : m < n /\ r[m] = i /\ r[n] = j
    BY <1>5 DEF Before
  <2>2. k + m < k + n
    BY <1>1, <2>1
  <2> QED BY <1>1, <2>1, <2>2 DEF Before
<1> QED BY <1>1, <1>3, <1>4, <1>5 DEF r

LEMMA HeadFirst ==
  ASSUME NEW q \in Seq(Inputs), q # <<>>
  PROVE  /\ Head(q) \in Inputs /\ Head(q) \in ToSet(q) /\ Tail(q) \in Seq(Inputs)
         /\ ToSet(q) = {Head(q)} \cup ToSet(Tail(q))
         /\ \A i, j \in Inputs : Before(Tail(q), i, j) => Before(q, i, j)
         /\ \A j \in ToSet(Tail(q)) : Before(q, Head(q), j)
<1>1. Tail(q) = SubSeq(q, 2, Len(q)) /\ Head(q) = q[1] /\ 1 \in 1..Len(q) /\ Len(q) \in Nat
  OBVIOUS
<1>2. /\ SubSeq(q, 1 + 1, Len(q)) \in Seq(Inputs)
      /\ ToSet(SubSeq(q, 1 + 1, Len(q))) \subseteq ToSet(q)
      /\ \A i \in ToSet(q) : \/ \E m \in 1..(1 - 1) : q[m] = i
                            \/ (1 =< Len(q) /\ q[1] = i)
                            \/ i \in ToSet(SubSeq(q, 1 + 1, Len(q)))
      /\ \A i, j \in Inputs : Before(SubSeq(q, 1 + 1, Len(q)), i, j) => Before(q, i, j)
      /\ \A m \in 1..1 : \A j \in ToSet(SubSeq(q, 1 + 1, Len(q))) : Before(q, q[m], j)
  <2>1. 1 \in 1..(Len(q) + 1)
    BY <1>1
  <2> QED BY <2>1, RestAfter
<1>3. 1 + 1 = 2 /\ 1..(1 - 1) = {} /\ 1 \in 1..1
  OBVIOUS
<1>4. ToSet(q) = {q[1]} \cup ToSet(SubSeq(q, 2, Len(q))) /\ q[1] \in Inputs /\ q[1] \in ToSet(q)
  BY <1>1, <1>2, <1>3, Places
<1> QED BY <1>1, <1>2, <1>3, <1>4

LEMMA OrderIsStrict ==
  ASSUME NEW q \in Seq(Inputs), NoRepeat(q), NEW i \in Inputs, NEW j \in Inputs,
         Before(q, i, j)
  PROVE  ~Before(q, j, i) /\ i # j
<1>1. PICK m, n \in 1..Len(q) : m < n /\ q[m] = i /\ q[n] = j
  BY DEF Before
<1>2. ASSUME NEW k \in 1..Len(q), NEW l \in 1..Len(q), k < l, q[k] = j, q[l] = i PROVE FALSE
  <2>1. CASE l # m
    BY <1>1, <1>2, <2>1 DEF NoRepeat, Before
  <2>2. CASE l = m
    BY <1>1, <1>2, <2>2 DEF NoRepeat, Before
  <2> QED BY <2>1, <2>2
<1> QED BY <1>2 DEF Before, NoRepeat

-----------------------------------------------------------------------------
(* Where inputs are: the Queue, the Sessions and the lock. *)

Arrived(i) == i \in ToSet(arrivals)
LockUses == {"accept_start", "accept_queue", "drain", "remove", "edit", "steer", "clear"}
LockedBy(l, uses) ==
  l.use \in uses /\ l.item \in Inputs /\ l.session = SessionOf[l.item] /\ l.rest \in Seq(Inputs)

MemoryTypes ==
  /\ queue \in [Sessions -> Seq(Inputs)] /\ active \in [Sessions -> Inputs \cup {None}]
  /\ arrivals \in Seq(Inputs)
  /\ lock = Free \/ LockedBy(lock, LockUses)

\* Who waits has not begun, and waits once.
WaitersWait ==
  \A s \in Sessions : /\ NoRepeat(queue[s])
                      /\ \A i \in ToSet(queue[s]) : SessionOf[i] = s /\ phase[i] = "none"

\* A Session names the one Run that may still act on it.
SessionsNameRuns ==
  /\ \A s \in Sessions :
       active[s] # None => SessionOf[active[s]] = s /\ phase[active[s]] \notin {"none", "over"}
  /\ \A i \in Inputs : Running(i) => active[SessionOf[i]] = i

\* An input is known from its acceptance on, which happens once.
KnownOnceAccepted ==
  /\ NoRepeat(arrivals)
  /\ \A i \in Inputs : Queued(i) \/ phase[i] # "none" \/ receipt[i] # "none" => Arrived(i)
  /\ \A i \in Inputs : call[i] = "unsent" \/ BeingAccepted(i) => ~Arrived(i)
  /\ \A i \in Inputs : receipt[i] # "none" => i \in Durable

\* What the holder of the lock found is still so when its call returns.
LockProtects ==
  /\ lock.use = "accept_start" => Idle(lock.session)
  /\ lock.use = "drain" => active[lock.session] = None /\ ~Queued(lock.item)

NothingWhileDown ==
  ~up => /\ lock = Free
         /\ \A s \in Sessions : queue[s] = <<>> /\ active[s] = None
         /\ \A i \in Inputs : phase[i] = "none"

PlaceInv ==
  /\ MemoryTypes /\ WaitersWait /\ SessionsNameRuns /\ KnownOnceAccepted /\ LockProtects
  /\ NothingWhileDown

LEMMA SessionsOfInputs ==
  /\ None \notin Inputs /\ None \notin Sessions
  /\ \A i \in Inputs : SessionOf[i] \in Sessions /\ i # None
BY InputAssumption

LEMMA InitPlaces == Init => PlaceInv
<1> SUFFICES ASSUME Init PROVE PlaceInv
  OBVIOUS
<1>1. ToSet(<<>>) = {} /\ NoRepeat(<<>>)
  BY DEF ToSet, NoRepeat, Before
<1>2. MemoryTypes
  BY DEF Init, MemoryTypes
<1> QED BY <1>1, <1>2, SessionsOfInputs DEF Init, PlaceInv, WaitersWait, SessionsNameRuns,
     KnownOnceAccepted, LockProtects, NothingWhileDown, Running, Queued, Arrived, BeingAccepted, Free

\* A step that moves nobody into a Queue or a Session: items may leave their
\* Queue, Runs go on, the lock is let go or taken for a mutation.
QueuesShrink ==
  /\ queue' \in [Sessions -> Seq(Inputs)]
  /\ \A s \in Sessions :
       /\ ToSet(queue'[s]) \subseteq ToSet(queue[s])
       /\ \A i, j \in Inputs : Before(queue'[s], i, j) => Before(queue[s], i, j)
RunsGoOn ==
  \A i \in Inputs : /\ phase'[i] = "none" <=> phase[i] = "none"
                    /\ phase'[i] = "over" <=> phase[i] = "over"
                    /\ phase[i] \in {"none", "releasing", "over"} =>
                         phase'[i] \in {"none", "releasing", "over"}
LockCalm ==
  lock' = lock \/ lock' = Free \/ LockedBy(lock', {"remove", "edit", "steer", "clear"})
KnownStay ==
  /\ arrivals' = arrivals
  /\ \A i \in Inputs : receipt'[i] = "none" <=> receipt[i] = "none"
  /\ \A i \in Inputs : call'[i] = "unsent" => call[i] = "unsent"
Calm == up /\ up' /\ active' = active /\ QueuesShrink /\ RunsGoOn /\ LockCalm /\ KnownStay

LEMMA EmptyQueue == ASSUME NEW q \in Seq(Inputs), ToSet(q) \subseteq ToSet(<<>>) PROVE q = <<>>
<1>1. ToSet(<<>>) = {}
  BY DEF ToSet
<1> QED BY <1>1, Places

LEMMA QueuedAreInputs ==
  ASSUME MemoryTypes PROVE \A s \in Sessions : ToSet(queue[s]) \subseteq Inputs
BY Places DEF MemoryTypes

LEMMA CalmKeepsPlaces == ASSUME PlaceInv, Calm PROVE PlaceInv'
<1> USE DEF Calm, QueuesShrink, RunsGoOn, KnownStay
<1>1. MemoryTypes'
  BY DEF PlaceInv, MemoryTypes, LockCalm, LockedBy, LockUses
<1>2. WaitersWait'
  BY QueuedAreInputs DEF PlaceInv, WaitersWait, NoRepeat
<1>3. SessionsNameRuns'
  BY SessionsOfInputs DEF PlaceInv, SessionsNameRuns, Running, MemoryTypes
<1>4. KnownOnceAccepted'
  <2>1. \A i \in Inputs : Queued(i)' => Queued(i)
    BY SessionsOfInputs DEF Queued
  <2>2. \A i \in Inputs : BeingAccepted(i)' => BeingAccepted(i)
    BY DEF BeingAccepted, LockCalm, LockedBy, Free
  <2> QED BY <2>1, <2>2 DEF PlaceInv, KnownOnceAccepted, Arrived
<1>5. LockProtects'
  <2>1. lock'.use \in {"accept_start", "drain"} => lock' = lock
    BY DEF LockCalm, LockedBy, Free
  <2> SUFFICES ASSUME lock' = lock, lock.use \in {"accept_start", "drain"}
               PROVE  LockProtects'
    BY <2>1 DEF LockProtects
  <2>2. lock.item \in Inputs /\ lock.session \in Sessions /\ lock.session = SessionOf[lock.item]
    BY SessionsOfInputs DEF PlaceInv, MemoryTypes, LockedBy, Free
  <2>3. ~Queued(lock.item) => ~Queued(lock.item)'
    BY <2>2 DEF Queued
  <2>4. Idle(lock.session) => Idle(lock.session)'
    <3>1. queue[lock.session] = <<>> => queue'[lock.session] = <<>>
      BY <2>2, EmptyQueue
    <3>2. SessionBusy(lock.session)' => SessionBusy(lock.session)
      BY <2>2 DEF SessionBusy, Running, PlaceInv, MemoryTypes
    <3> QED BY <3>1, <3>2 DEF Idle
  <2> QED BY <2>3, <2>4 DEF PlaceInv, LockProtects
<1> QED BY <1>1, <1>2, <1>3, <1>4, <1>5 DEF PlaceInv, NothingWhileDown

LEMMA QueuesStay == ASSUME MemoryTypes, queue' = queue PROVE QueuesShrink
BY DEF MemoryTypes, QueuesShrink

LEMMA ItemsLeave ==
  ASSUME MemoryTypes, NEW s \in Sessions, NEW gone,
         queue' = [queue EXCEPT ![s] = Without(@, gone)]
  PROVE  /\ QueuesShrink
         /\ ToSet(queue'[s]) = ToSet(queue[s]) \ gone
         /\ \A t \in Sessions \ {s} : queue'[t] = queue[t]
<1> DEFINE q == Without(queue[s], gone)
<1>1. /\ q \in Seq(Inputs) /\ ToSet(q) = ToSet(queue[s]) \ gone
      /\ \A i, j \in Inputs : Before(q, i, j) => Before(queue[s], i, j)
  BY WithoutLeaves DEF MemoryTypes
<1>2. queue' = [queue EXCEPT ![s] = q]
  OBVIOUS
<1> HIDE DEF q
<1> QED BY <1>1, <1>2 DEF MemoryTypes, QueuesShrink

LEMMA WithdrawsShrinks ==
  ASSUME MemoryTypes, NEW s \in Sessions, NEW gone, NEW flag, Withdraws(s, gone, flag)
  PROVE  QueuesShrink
BY ItemsLeave DEF Withdraws

LEMMA ClearsShrinks ==
  ASSUME MemoryTypes, NEW s \in Sessions, NEW gone, NEW rest \in Seq(Inputs),
         ClearsUpTo(s, gone, rest)
  PROVE  QueuesShrink /\ LockCalm
<1> DEFINE k == FirstIn(rest, Durable)
<1>1. /\ k \in 1..(Len(rest) + 1) /\ Len(rest) \in Nat
      /\ SubSeq(rest, k + 1, Len(rest)) \in Seq(Inputs)
      /\ k =< Len(rest) => rest[k] \in Inputs /\ rest[k] \in ToSet(rest)
  <2>1. Len(rest) \in Nat
    OBVIOUS
  <2>2. k \in 1..(Len(rest) + 1)
    BY <2>1, FirstInFound
  <2> HIDE DEF k
  <2>3. SubSeq(rest, k + 1, Len(rest)) \in Seq(Inputs)
    BY <2>2, RestAfter
  <2> QED BY <2>1, <2>2, <2>3, Places
<1>2. /\ lock' = IF k =< Len(rest) THEN Holds("clear", rest[k], SubSeq(rest, k + 1, Len(rest))) ELSE Free
      /\ Withdraws(s, gone \cup {rest[m] : m \in 1..(k - 1)}, TRUE)
  BY DEF ClearsUpTo
<1> HIDE DEF k
<1>3. QueuesShrink
  BY <1>2, WithdrawsShrinks
<1> QED BY <1>1, <1>2, <1>3 DEF LockCalm, LockedBy, Holds

LEMMA ProducerIsCalm ==
  ASSUME Inv, PlaceInv, NEW i \in Inputs,
         \/ ReserveWaitingWork(i) \/ ReleaseWaitingWork(i) \/ SubmitReturns(i)
         \/ AbandonWaiter(i) \/ RemoveAbandoned(i)
  PROVE  Calm
<1> USE QueuesStay DEF Calm, RunsGoOn, KnownStay, LockCalm, PlaceInv, Inv, ControlTypes, TableTypes,
        processVars, runVars, storeVars
<1>1. CASE ReserveWaitingWork(i)
  BY <1>1 DEF ReserveWaitingWork
<1>2. CASE ReleaseWaitingWork(i)
  BY <1>2 DEF ReleaseWaitingWork
<1>3. CASE SubmitReturns(i)
  BY <1>3 DEF SubmitReturns
<1>4. CASE AbandonWaiter(i)
  BY <1>4 DEF AbandonWaiter
<1>5. CASE RemoveAbandoned(i)
  <2>1. QueuesShrink
    BY <1>5, ItemsLeave, SessionsOfInputs DEF RemoveAbandoned
  <2> QED BY <1>5, <2>1 DEF RemoveAbandoned
<1> QED BY <1>1, <1>2, <1>3, <1>4, <1>5

LEMMA HoldsLocks ==
  ASSUME NEW i \in Inputs, NEW uses, NEW use \in uses
  PROVE  LockedBy(Holds(use, i, <<>>), uses)
BY DEF LockedBy, Holds

LEMMA MutationsHold ==
  ASSUME NEW i \in Inputs, NEW use \in {"remove", "edit", "steer", "clear"},
         lock' = lock \/ lock' = Holds(use, i, <<>>)
  PROVE  LockCalm
BY HoldsLocks DEF LockCalm

LEMMA UserIsCalm ==
  ASSUME Inv, PlaceInv, NEW i \in Inputs, User(i) \/ Removes(i) \/ Edits(i) \/ Steers(i)
  PROVE  Calm
<1> USE QueuesStay, SessionsOfInputs DEF Calm, RunsGoOn, KnownStay, PlaceInv, Inv,
        ControlTypes, TableTypes, processVars, runVars, storeVars
<1>1. CASE RemoveBegins(i)
  <2>1. QueuesShrink
    BY <1>1, WithdrawsShrinks DEF RemoveBegins
  <2>2. lock' = lock \/ lock' = Holds("remove", i, <<>>)
    BY <1>1, Zenon DEF RemoveBegins
  <2>3. LockCalm
    BY <2>2, MutationsHold
  <2> QED BY <1>1, <2>1, <2>3 DEF RemoveBegins
<1>2. CASE Removes(i)
  <2>1. QueuesShrink
    BY <1>2, WithdrawsShrinks DEF Removes
  <2> QED BY <1>2, <2>1 DEF Removes, LockCalm
<1>3. CASE EditBegins(i)
  <2>1. lock' = lock \/ lock' = Holds("edit", i, <<>>)
    BY <1>3, Zenon DEF EditBegins
  <2>2. LockCalm
    BY <2>1, MutationsHold
  <2> QED BY <1>3, <2>2 DEF EditBegins
<1>4. CASE SteerBegins(i)
  <2>1. lock' = lock \/ lock' = Holds("steer", i, <<>>)
    BY <1>4, Zenon DEF SteerBegins
  <2>2. LockCalm
    BY <2>1, MutationsHold
  <2> QED BY <1>4, <2>2 DEF SteerBegins
<1>5. CASE RequestCancel(i)
  BY <1>5 DEF RequestCancel, LockCalm
<1>6. CASE Edits(i)
  BY <1>6 DEF Edits, LockCalm
<1>7. CASE Steers(i)
  BY <1>7 DEF Steers, LockCalm
<1> QED BY <1>1, <1>2, <1>3, <1>4, <1>5, <1>6, <1>7 DEF User

LEMMA ClearIsCalm ==
  ASSUME Inv, PlaceInv, (\E s \in Sessions : ClearBegins(s)) \/ (\E i \in Inputs : ClearGoesOn(i))
  PROVE  Calm
<1> USE DEF Calm, RunsGoOn, KnownStay, PlaceInv, Inv, ControlTypes, TableTypes, processVars, runVars,
            storeVars
<1>1. ASSUME NEW s \in Sessions, ClearBegins(s) PROVE Calm
  <2>1. QueuesShrink /\ LockCalm
    BY <1>1, ClearsShrinks DEF ClearBegins, MemoryTypes
  <2> QED BY <1>1, <2>1 DEF ClearBegins
<1>2. ASSUME NEW i \in Inputs, ClearGoesOn(i) PROVE Calm
  <2>1. lock.rest \in Seq(Inputs)
    BY <1>2 DEF ClearGoesOn, MemoryTypes, LockedBy, Free
  <2>2. QueuesShrink /\ LockCalm
    BY <1>2, <2>1, ClearsShrinks, SessionsOfInputs DEF ClearGoesOn
  <2> QED BY <1>2, <2>2 DEF ClearGoesOn
<1> QED BY <1>1, <1>2

LEMMA DeliveryIsCalm ==
  ASSUME Inv, PlaceInv, NEW r \in Inputs, Steering(r), append[r] \in Inputs \cup {None},
         phase[r] = "executing" \/ append[r] = None
  PROVE  Calm
<1> USE SessionsOfInputs
    DEF Calm, RunsGoOn, KnownStay, LockCalm, PlaceInv, Inv, ControlTypes, TableTypes, processVars,
        runVars, storeVars
<1>1. CASE Boundary(r)
  BY <1>1, QueuesStay DEF Boundary, Delivers
<1>2. CASE AppendCommits(r)
  <2>1. QueuesShrink
    BY <1>2, ItemsLeave DEF AppendCommits
  <2>2. append[r] \in Inputs /\ phase[r] = "executing"
    BY <1>2 DEF AppendCommits
  <2> QED BY <1>2, <2>1, <2>2 DEF AppendCommits, Delivers, SteerClaim
<1>3. CASE AppendFails(r)
  <2>1. QueuesShrink
    BY <1>3, ItemsLeave, QueuesStay DEF AppendFails
  <2>2. append[r] \in Inputs /\ phase[r] = "executing"
    BY <1>3 DEF AppendFails
  <2> QED BY <1>3, <2>1, <2>2 DEF AppendFails
<1> QED BY <1>1, <1>2, <1>3 DEF Steering

LEMMA RunStepIsCalm ==
  ASSUME Inv, PlaceInv, NEW r \in Inputs, RunStep(r) \/ ExecutorStops(r)
  PROVE  Calm
<1> USE QueuesStay
    DEF Calm, RunsGoOn, KnownStay, LockCalm, PlaceInv, Inv, ControlTypes, TableTypes, processVars,
        storeVars
<1>1. CASE AdmitCommits(r)
  BY <1>1 DEF AdmitCommits, Claim, Ends
<1>2. CASE AdmitFails(r)
  BY <1>2 DEF AdmitFails, Ends
<1>3. CASE WriteInput(r)
  BY <1>3 DEF WriteInput, runVars
<1>4. CASE ExecutorStops(r)
  BY <1>4 DEF ExecutorStops, ExecutorEnds, Ends
<1>5. CASE CleanupEnds(r) \/ FinishFails(r) \/ MarkTerminal(r)
  BY <1>5 DEF CleanupEnds, FinishFails, MarkTerminal
<1>6. CASE FinishCommits(r)
  BY <1>6 DEF FinishCommits
<1> QED BY <1>1, <1>2, <1>3, <1>4, <1>5, <1>6 DEF RunStep

LEMMA ManagerIsCalm == ASSUME Inv, PlaceInv, LockedCallFails \/ Aclose PROVE Calm
<1> USE DEF Calm, RunsGoOn, KnownStay, LockCalm, PlaceInv, processVars, runVars, storeVars
<1>1. CASE LockedCallFails
  BY <1>1, QueuesStay DEF LockedCallFails
<1>2. CASE Aclose
  <2>1. QueuesShrink
    <3>1. ToSet(<<>>) = {} /\ \A i, j : ~Before(<<>>, i, j)
      BY DEF ToSet, Before
    <3> QED BY <1>2, <3>1 DEF Aclose, QueuesShrink
  <2> QED BY <1>2, <2>1 DEF Aclose
<1> QED BY <1>1, <1>2

-----------------------------------------------------------------------------
(* The steps that put an input into a Session or a Queue. *)

\* Acceptance of a new input i, whose Run starts at once or which joins the Queue.
Accepted(i) ==
  /\ up /\ up' /\ i \in Inputs /\ ~Arrived(i) /\ arrivals' = Append(arrivals, i) /\ lock' = Free
  /\ call'[i] # "unsent" /\ \A j \in Inputs : call'[j] = "unsent" => call[j] = "unsent"
  /\ \A j \in Inputs : receipt'[j] # "none" => receipt[j] # "none" \/ (j = i /\ i \in Durable)
Installs(i) ==
  /\ Accepted(i) /\ Idle(SessionOf[i]) /\ queue' = queue
  /\ active' = [active EXCEPT ![SessionOf[i]] = i] /\ phase' = [phase EXCEPT ![i] = "admitting"]
Joins(i) ==
  /\ Accepted(i) /\ active' = active /\ phase' = phase
  /\ queue' = [queue EXCEPT ![SessionOf[i]] = Append(@, i)]

LEMMA NewInputs ==
  ASSUME PlaceInv, NEW i \in Inputs, ~Arrived(i)
  PROVE  /\ phase[i] = "none" /\ ~Queued(i) /\ receipt[i] = "none"
         /\ \A s \in Sessions : i \notin ToSet(queue[s])
BY DEF PlaceInv, KnownOnceAccepted, WaitersWait, Queued

LEMMA AcceptedIsKnown ==
  ASSUME PlaceInv, NEW i, Accepted(i),
         \A j \in Inputs : Queued(j)' \/ phase'[j] # "none" => j = i \/ Queued(j) \/ phase[j] # "none"
  PROVE  KnownOnceAccepted'
<1>1. /\ arrivals' \in Seq(Inputs) /\ ToSet(arrivals') = ToSet(arrivals) \cup {i} /\ i \in Inputs
      /\ \A j, k \in Inputs :
           Before(arrivals', j, k) <=> Before(arrivals, j, k) \/ (j \in ToSet(arrivals) /\ k = i)
  BY Appended DEF Accepted, PlaceInv, MemoryTypes
<1>2. NoRepeat(arrivals')
  BY <1>1 DEF NoRepeat, PlaceInv, KnownOnceAccepted, Accepted, Arrived
<1>3. \A j \in Inputs : ~BeingAccepted(j)'
  BY DEF Accepted, BeingAccepted, Free
<1> QED BY <1>1, <1>2, <1>3 DEF KnownOnceAccepted, PlaceInv, Accepted, Arrived

LEMMA InstallKeepsPlaces == ASSUME PlaceInv, Inv, NEW i \in Inputs, Installs(i) PROVE PlaceInv'
<1> DEFINE s == SessionOf[i]
<1>1. /\ s \in Sessions /\ phase[i] = "none" /\ queue[s] = <<>> /\ ~SessionBusy(s)
      /\ \A t \in Sessions : i \notin ToSet(queue[t])
  BY NewInputs, SessionsOfInputs DEF Installs, Accepted, Idle
<1>2. MemoryTypes'
  BY <1>1, Appended DEF Installs, Accepted, PlaceInv, MemoryTypes
<1>3. WaitersWait'
  BY <1>1, QueuedAreInputs DEF Installs, PlaceInv, WaitersWait, Inv, ControlTypes
<1>4. SessionsNameRuns'
  <2>1. \A t \in Sessions : active[t] # i
    BY <1>1, SessionsOfInputs DEF PlaceInv, SessionsNameRuns
  <2>2. \A j \in Inputs : Running(j) => SessionOf[j] # s
    BY <1>1, SessionsOfInputs DEF PlaceInv, SessionsNameRuns, SessionBusy
  <2> QED BY <1>1, <2>1, <2>2, SessionsOfInputs DEF Installs, PlaceInv, SessionsNameRuns, Running,
       Inv, ControlTypes, MemoryTypes
<1>5. KnownOnceAccepted'
  BY AcceptedIsKnown DEF Installs, Queued, Inv, ControlTypes
<1> QED BY <1>2, <1>3, <1>4, <1>5 DEF PlaceInv, LockProtects, NothingWhileDown, Installs, Accepted,
     Free

LEMMA JoinKeepsPlaces == ASSUME PlaceInv, Inv, NEW i \in Inputs, Joins(i) PROVE PlaceInv'
<1> DEFINE s == SessionOf[i]
           q == Append(queue[s], i)
<1>1. /\ s \in Sessions /\ phase[i] = "none" /\ queue[s] \in Seq(Inputs)
      /\ \A t \in Sessions : i \notin ToSet(queue[t])
  BY NewInputs, SessionsOfInputs DEF Joins, Accepted, PlaceInv, MemoryTypes
<1>2. /\ q \in Seq(Inputs) /\ ToSet(q) = ToSet(queue[s]) \cup {i}
      /\ \A j, k \in Inputs :
           Before(q, j, k) <=> Before(queue[s], j, k) \/ (j \in ToSet(queue[s]) /\ k = i)
  BY <1>1, Appended
<1>3. queue' = [queue EXCEPT ![s] = q]
  BY DEF Joins
<1> HIDE DEF q
<1>4. MemoryTypes'
  BY <1>1, <1>2, <1>3, Appended DEF Joins, Accepted, PlaceInv, MemoryTypes
<1>5. WaitersWait'
  <2>1. NoRepeat(q)
    BY <1>1, <1>2 DEF NoRepeat, PlaceInv, WaitersWait
  <2> SUFFICES ASSUME NEW t \in Sessions
               PROVE  /\ NoRepeat(queue'[t])
                      /\ \A j \in ToSet(queue'[t]) : SessionOf[j] = t /\ phase[j] = "none"
    BY DEF WaitersWait, Joins, NoRepeat
  <2>2. CASE t = s
    BY <1>1, <1>2, <1>3, <2>1, <2>2 DEF PlaceInv, MemoryTypes, WaitersWait
  <2>3. CASE t # s
    BY <1>3, <2>3 DEF PlaceInv, MemoryTypes, WaitersWait
  <2> QED BY <2>2, <2>3
<1>6. SessionsNameRuns'
  BY DEF Joins, PlaceInv, SessionsNameRuns, Running
<1>7. KnownOnceAccepted'
  <2>1. \A j \in Inputs : Queued(j)' => j = i \/ Queued(j)
    BY <1>1, <1>2, <1>3, SessionsOfInputs DEF Queued, PlaceInv, MemoryTypes
  <2> QED BY <2>1, AcceptedIsKnown DEF Joins
<1> QED BY <1>4, <1>5, <1>6, <1>7 DEF PlaceInv, LockProtects, NothingWhileDown, Joins, Accepted,
     Free

LEMMA EnqueueInstalls == ASSUME PlaceInv, Inv, NEW i \in Inputs, EnqueueStarts(i) PROVE Installs(i)
BY DEF EnqueueStarts, Installs, Accepted, Admits, Installed, PlaceInv, KnownOnceAccepted, storeVars,
   processVars, Inv, ControlTypes

LEMMA EnqueueJoins == ASSUME PlaceInv, Inv, NEW i \in Inputs, EnqueueWaits(i) PROVE Joins(i)
BY DEF EnqueueWaits, Joins, Accepted, Admits, PlaceInv, KnownOnceAccepted, storeVars, runVars,
   processVars, Inv, ControlTypes

LEMMA AcceptanceIsAccepted ==
  ASSUME PlaceInv, Inv, NEW i \in Inputs, AcceptStarts(i) \/ AcceptWaits(i)
  PROVE  Accepted(i) /\ lock.session = SessionOf[i]
<1>1. BeingAccepted(i) /\ ~Arrived(i) /\ i \in Durable /\ call[i] # "unsent"
  BY DEF AcceptStarts, AcceptWaits, BeingAccepted, PlaceInv, KnownOnceAccepted, Inv, AcceptancesHeld
<1>2. lock.session = SessionOf[i]
  BY <1>1 DEF BeingAccepted, PlaceInv, MemoryTypes, LockedBy, Free
<1>3. call' = call \/ call' = [call EXCEPT ![i] = "awaiting"]
  BY DEF AcceptStarts, AcceptWaits
<1> QED BY <1>1, <1>2, <1>3 DEF AcceptStarts, AcceptWaits, Accepts, Accepted, processVars, Inv,
     ControlTypes, TableTypes

LEMMA AcceptInstalls == ASSUME PlaceInv, Inv, NEW i \in Inputs, AcceptStarts(i) PROVE Installs(i)
BY AcceptanceIsAccepted DEF AcceptStarts, Installs, Installed, PlaceInv, LockProtects

LEMMA AcceptJoins == ASSUME PlaceInv, Inv, NEW i \in Inputs, AcceptWaits(i) PROVE Joins(i)
BY AcceptanceIsAccepted DEF AcceptWaits, Joins

\* The acceptance of a durable input takes the lock, and finds what LockProtects says.
LEMMA AcceptBeginsKeepsPlaces ==
  ASSUME PlaceInv, Inv, NEW i \in Inputs, AcceptBegins(i)
  PROVE  PlaceInv'
<1>1. /\ ~Arrived(i) /\ up /\ up' /\ SessionOf[i] \in Sessions
      /\ UNCHANGED <<queue, active, phase, receipt, arrivals>>
      /\ call' = [call EXCEPT ![i] = "sent"]
      /\ \/ Idle(SessionOf[i]) /\ lock' = Holds("accept_start", i, <<>>)
         \/ ~Idle(SessionOf[i]) /\ lock' = Holds("accept_queue", i, <<>>)
  BY SessionsOfInputs DEF AcceptBegins, Admits, processVars, runVars, storeVars, PlaceInv,
     KnownOnceAccepted
<1>2. MemoryTypes'
  <2>1. LockedBy(lock', LockUses)
    BY <1>1, HoldsLocks DEF LockUses
  <2> QED BY <1>1, <2>1 DEF PlaceInv, MemoryTypes
<1>3. WaitersWait' /\ SessionsNameRuns'
  BY <1>1 DEF PlaceInv, WaitersWait, SessionsNameRuns, Running
<1>4. KnownOnceAccepted'
  <2>1. \A j \in Inputs : BeingAccepted(j)' => j = i
    BY <1>1 DEF BeingAccepted, Holds
  <2> QED BY <1>1, <2>1 DEF PlaceInv, KnownOnceAccepted, Queued, Arrived, Inv, ControlTypes
<1>5. LockProtects'
  BY <1>1 DEF LockProtects, Holds, Idle, SessionBusy, Running
<1> QED BY <1>1, <1>2, <1>3, <1>4, <1>5 DEF PlaceInv, NothingWhileDown

-----------------------------------------------------------------------------
(* The drain. *)

\* What Drain does with the queue q of s: it starts item k, refuses it, or
\* finds nobody.  The items before k are transient and are passed over.
DrainsTo(s, q, k, rest) ==
  /\ k \in 1..(Len(q) + 1) /\ rest = SubSeq(q, k + 1, Len(q))
  /\ queue' = [queue EXCEPT ![s] = rest]
  /\ \A m \in 1..(k - 1) : q[m] \notin Durable
DrainStarts(s, q, k) ==
  /\ k =< Len(q) /\ lock' = Free /\ ~Abandoned(q[k]) /\ active' = [active EXCEPT ![s] = q[k]]
  /\ \A j \in Inputs : phase'[j] = IF j = q[k] THEN "admitting"
                                 ELSE IF phase[j] = "releasing" /\ active[s] = j THEN "over"
                                 ELSE phase[j]
DrainRefuses(s, q, k) ==
  /\ active' = [active EXCEPT ![s] = None]
  /\ \A j \in Inputs : phase'[j] = IF phase[j] = "releasing" /\ active[s] = j THEN "over" ELSE phase[j]
  /\ \/ k =< Len(q) /\ q[k] \in Durable /\ lock' = Holds("drain", q[k], <<>>)
     \/ k = Len(q) + 1 /\ lock' = Free

LEMMA DrainEffect ==
  ASSUME NEW s \in Sessions, NEW q \in Seq(Inputs), NEW refused, Drain(s, q, refused)
  PROVE  \E k, rest : DrainsTo(s, q, k, rest) /\ (DrainStarts(s, q, k) \/ DrainRefuses(s, q, k))
<1> DEFINE passed == {i \in Inputs : Abandoned(i) \/ (i \in refused /\ i \notin Durable)}
           k == FirstIn(q, Inputs \ passed)
           starts == k =< Len(q) /\ q[k] \notin refused
           rest == SubSeq(q, k + 1, Len(q))
<1>1. /\ queue' = [queue EXCEPT ![s] = rest]
      /\ lock' = IF k =< Len(q) /\ ~starts THEN Holds("drain", q[k], <<>>) ELSE Free
      /\ active' = [active EXCEPT ![s] = IF starts THEN q[k] ELSE None]
      /\ phase' = [i \in Inputs |->
                     IF starts /\ i = q[k] THEN "admitting"
                     ELSE IF phase[i] = "releasing" /\ active[s] = i THEN "over" ELSE phase[i]]
  BY DEF Drain
<1>2. /\ k \in 1..(Len(q) + 1) /\ Len(q) \in Nat
      /\ \A m \in 1..(k - 1) : q[m] \in passed
      /\ k =< Len(q) => q[k] \in Inputs /\ q[k] \notin passed
  <2>1. Len(q) \in Nat /\ \A n \in 1..Len(q) : q[n] \in Inputs
    OBVIOUS
  <2>2. /\ k \in 1..(Len(q) + 1)
        /\ \A m \in 1..(k - 1) : q[m] \notin Inputs \ passed
        /\ k =< Len(q) => q[k] \in Inputs \ passed
    BY <2>1, FirstInFound
  <2> HIDE DEF k, passed
  <2> QED BY <2>1, <2>2
<1> HIDE DEF k
<1>3. DrainsTo(s, q, k, rest)
  BY <1>1, <1>2 DEF DrainsTo, Abandoned
<1>4. CASE starts
  <2>1. lock' = Free /\ active' = [active EXCEPT ![s] = q[k]] /\ ~Abandoned(q[k]) /\ k =< Len(q)
    BY <1>1, <1>2, <1>4
  <2>2. \A j \in Inputs : phase'[j] = IF j = q[k] THEN "admitting"
                                      ELSE IF phase[j] = "releasing" /\ active[s] = j THEN "over"
                                      ELSE phase[j]
    <3> HIDE DEF starts
    <3> QED BY <1>1, <1>4
  <2> HIDE DEF passed, starts, rest
  <2> QED BY <1>3, <2>1, <2>2 DEF DrainStarts
<1>5. CASE ~starts
  <2>1. active' = [active EXCEPT ![s] = None]
    BY <1>1, <1>5
  <2>2. \A j \in Inputs : phase'[j] = IF phase[j] = "releasing" /\ active[s] = j THEN "over" ELSE phase[j]
    <3> HIDE DEF starts
    <3> QED BY <1>1, <1>5
  <2>3. \/ k =< Len(q) /\ q[k] \in Durable /\ lock' = Holds("drain", q[k], <<>>)
        \/ k = Len(q) + 1 /\ lock' = Free
    <3>1. CASE k =< Len(q)
      <4>1. q[k] \in Durable
        BY <1>2, <1>5, <3>1
      <4> QED BY <1>1, <1>5, <3>1, <4>1
    <3>2. CASE ~(k =< Len(q))
      BY <1>1, <1>2, <1>5, <3>2
    <3> QED BY <3>1, <3>2
  <2> HIDE DEF passed, starts, rest
  <2> QED BY <1>3, <2>1, <2>2, <2>3 DEF DrainRefuses
<1> QED BY <1>4, <1>5

LEMMA DrainKeepsPlaces ==
  ASSUME PlaceInv, Inv, up, up', NEW s \in Sessions, NEW q \in Seq(Inputs), NEW refused,
         ToSet(q) \subseteq ToSet(queue[s]), NoRepeat(q), ~SessionBusy(s), Drain(s, q, refused), KnownStay
  PROVE  PlaceInv'
<1>1. PICK k, rest : DrainsTo(s, q, k, rest) /\ (DrainStarts(s, q, k) \/ DrainRefuses(s, q, k))
  BY DrainEffect
<1>2. /\ rest \in Seq(Inputs) /\ ToSet(rest) \subseteq ToSet(queue[s])
      /\ \A i, j \in Inputs : Before(rest, i, j) => Before(q, i, j)
      /\ k \in Nat /\ Len(q) \in Nat /\ k =< Len(q) + 1
      /\ k =< Len(q) => q[k] \in Inputs /\ q[k] \in ToSet(queue[s]) /\ q[k] \notin ToSet(rest)
  <2>1. k \in 1..(Len(q) + 1) /\ rest = SubSeq(q, k + 1, Len(q))
    BY <1>1 DEF DrainsTo
  <2>2. /\ rest \in Seq(Inputs) /\ ToSet(rest) \subseteq ToSet(q)
        /\ \A i, j \in Inputs : Before(rest, i, j) => Before(q, i, j)
        /\ \A m \in 1..k : \A j \in ToSet(rest) : Before(q, q[m], j)
    BY <2>1, RestAfter
  <2>3. k =< Len(q) => q[k] \in Inputs /\ q[k] \in ToSet(q) /\ q[k] \notin ToSet(rest)
    BY <2>1, <2>2, Places DEF NoRepeat
  <2> QED BY <2>1, <2>2, <2>3
<1>3. queue' = [queue EXCEPT ![s] = rest]
  BY <1>1 DEF DrainsTo
<1>4. \A i \in ToSet(queue[s]) : i \in Inputs /\ SessionOf[i] = s /\ phase[i] = "none"
  BY QueuedAreInputs DEF PlaceInv, WaitersWait
<1>5. \A t \in Sessions \ {s} : queue'[t] = queue[t] /\ active'[t] = active[t]
  BY <1>1, <1>3 DEF DrainStarts, DrainRefuses, PlaceInv, MemoryTypes
<1>6. queue'[s] = rest
  BY <1>3 DEF PlaceInv, MemoryTypes
\* Phases: only the started item leaves "none"; nobody of s was running.
<1>7. \A j \in Inputs : SessionOf[j] = s => ~Running(j)
  BY SessionsOfInputs DEF PlaceInv, SessionsNameRuns, SessionBusy
<1>8. \/ /\ k =< Len(q) /\ lock' = Free /\ active'[s] = q[k] /\ phase'[q[k]] = "admitting"
         /\ \A j \in Inputs \ {q[k]} : phase'[j] = phase[j] \/ (phase[j] = "releasing" /\ phase'[j] = "over" /\ active[s] = j)
      \/ /\ active'[s] = None
         /\ \A j \in Inputs : phase'[j] = phase[j] \/ (phase[j] = "releasing" /\ phase'[j] = "over" /\ active[s] = j)
         /\ lock' = Free \/ (k =< Len(q) /\ lock' = Holds("drain", q[k], <<>>))
  BY <1>1, <1>2 DEF DrainStarts, DrainRefuses, PlaceInv, MemoryTypes
<1>9. active' \in [Sessions -> Inputs \cup {None}]
  BY <1>1, <1>2 DEF DrainStarts, DrainRefuses, PlaceInv, MemoryTypes
<1>10. MemoryTypes'
  <2>1. lock' = Free \/ LockedBy(lock', LockUses)
    BY <1>2, <1>8, HoldsLocks DEF LockUses
  <2> QED BY <1>2, <1>3, <1>9, <2>1 DEF PlaceInv, MemoryTypes, KnownStay
<1>11. WaitersWait'
  <2> SUFFICES ASSUME NEW t \in Sessions
               PROVE  /\ NoRepeat(queue'[t])
                      /\ \A j \in ToSet(queue'[t]) : SessionOf[j] = t /\ phase'[j] = "none"
    BY DEF WaitersWait, NoRepeat
  <2>1. CASE t = s
    <3>1. NoRepeat(rest)
      BY <1>2 DEF NoRepeat
    <3>2. \A j \in ToSet(rest) : SessionOf[j] = s /\ phase'[j] = "none"
      BY <1>2, <1>4, <1>8
    <3> QED BY <1>6, <2>1, <3>1, <3>2
  <2>2. CASE t # s
    <3>1. \A j \in ToSet(queue[t]) : j \in Inputs /\ SessionOf[j] = t /\ phase[j] = "none"
      BY QueuedAreInputs DEF PlaceInv, WaitersWait
    <3> QED BY <1>2, <1>4, <1>5, <1>8, <2>2, <3>1 DEF PlaceInv, WaitersWait
  <2> QED BY <2>1, <2>2
<1>12. SessionsNameRuns'
  <2>1. ASSUME NEW t \in Sessions, active'[t] # None
        PROVE  SessionOf[active'[t]] = t /\ phase'[active'[t]] \notin {"none", "over"}
    <3>1. CASE t = s
      BY <1>2, <1>4, <1>8, <2>1, <3>1
    <3>2. CASE t # s
      <4>1. active[t] \in Inputs /\ SessionOf[active[t]] = t /\ phase[active[t]] \notin {"none", "over"}
        BY <1>5, <2>1, <3>2 DEF PlaceInv, MemoryTypes, SessionsNameRuns
      <4>2. active[s] # active[t]
        <5>1. active[s] # None => SessionOf[active[s]] = s
          BY DEF PlaceInv, SessionsNameRuns
        <5> QED BY <3>2, <4>1, <5>1, SessionsOfInputs
      <4> QED BY <1>2, <1>4, <1>5, <1>8, <3>2, <4>1, <4>2
    <3> QED BY <3>1, <3>2
  <2>2. ASSUME NEW j \in Inputs, Running(j)' PROVE active'[SessionOf[j]] = j
    <3>1. SessionOf[j] \in Sessions
      BY SessionsOfInputs
    <3>2. CASE k =< Len(q) /\ j = q[k] /\ active'[s] = q[k]
      BY <1>2, <1>4, <3>2
    <3>3. CASE Running(j)
      BY <1>5, <1>7, <3>1, <3>3 DEF PlaceInv, SessionsNameRuns
    <3> QED BY <1>8, <2>2, <3>2, <3>3 DEF Running
  <2> QED BY <2>1, <2>2 DEF SessionsNameRuns, Running
<1>13. KnownOnceAccepted'
  <2>1. ASSUME NEW j \in Inputs, Queued(j)' \/ phase'[j] # "none" PROVE Queued(j) \/ phase[j] # "none"
    BY <1>2, <1>4, <1>5, <1>6, <1>8, <2>1, SessionsOfInputs DEF Queued
  <2>2. \A j \in Inputs : ~BeingAccepted(j)'
    BY <1>8 DEF BeingAccepted, Free, Holds
  <2> QED BY <2>1, <2>2 DEF PlaceInv, KnownOnceAccepted, KnownStay, Arrived
<1>14. LockProtects'
  <2>1. CASE lock' = Free
    BY <2>1 DEF LockProtects, Free
  <2>2. CASE k =< Len(q) /\ lock' = Holds("drain", q[k], <<>>) /\ active'[s] = None
    BY <1>2, <1>4, <1>6, <2>2 DEF LockProtects, Holds, Queued
  <2> QED BY <1>8, <2>1, <2>2
<1> QED BY <1>10, <1>11, <1>12, <1>13, <1>14 DEF PlaceInv, NothingWhileDown

LEMMA ReleaseKeepsPlaces ==
  ASSUME PlaceInv, Inv, steering \in [Inputs -> BOOLEAN], NEW i \in Inputs, Release(i)
  PROVE  PlaceInv'
<1> DEFINE s == SessionOf[i]
<1>1. /\ s \in Sessions /\ up /\ up' /\ lock = Free /\ phase[i] = "releasing" /\ active[s] = i
      /\ UNCHANGED <<arrivals, receipt, call>>
  BY SessionsOfInputs DEF Release, processVars, storeVars
<1>2. KnownStay
  BY <1>1 DEF KnownStay
<1>3. ~SessionBusy(s)
  BY <1>1 DEF SessionBusy, Running
<1>4. CASE closed
  <2>1. /\ active' = [active EXCEPT ![s] = None] /\ phase' = [phase EXCEPT ![i] = "over"]
        /\ queue' = [queue EXCEPT ![s] = <<>>] /\ lock' = lock
    BY <1>4 DEF Release
  <2>2. ToSet(<<>>) = {} /\ NoRepeat(<<>>) /\ <<>> \in Seq(Inputs)
    BY DEF ToSet, NoRepeat, Before
  <2> HIDE DEF s
  <2>3. MemoryTypes'
    BY <1>1, <2>1, <2>2 DEF PlaceInv, MemoryTypes
  <2>4. WaitersWait'
    <3> SUFFICES ASSUME NEW t \in Sessions
                 PROVE  /\ NoRepeat(queue'[t])
                        /\ \A j \in ToSet(queue'[t]) : SessionOf[j] = t /\ phase'[j] = "none"
      BY DEF WaitersWait, NoRepeat
    <3>1. CASE t = s
      BY <2>1, <2>2, <3>1 DEF PlaceInv, MemoryTypes
    <3>2. CASE t # s
      BY <1>1, <2>1, <3>2, QueuedAreInputs DEF PlaceInv, MemoryTypes, WaitersWait, Inv, ControlTypes
    <3> QED BY <3>1, <3>2
  <2>5. SessionsNameRuns'
    <3>1. \A t \in Sessions : active'[t] # None => t # s /\ active'[t] = active[t] /\ active[t] # i
      BY <1>1, <2>1, SessionsOfInputs DEF PlaceInv, MemoryTypes, SessionsNameRuns, s
    <3>2. \A j \in Inputs : Running(j)' => Running(j) /\ j # i
      BY <1>1, <2>1 DEF Running, Inv, ControlTypes
    <3>3. \A j \in Inputs : j # i => phase'[j] = phase[j]
      BY <1>1, <2>1 DEF Inv, ControlTypes
    <3>4. \A j \in Inputs : Running(j) /\ j # i => SessionOf[j] # s
      BY <1>1 DEF PlaceInv, SessionsNameRuns
    <3> QED BY <1>1, <2>1, <3>1, <3>2, <3>3, <3>4, SessionsOfInputs
         DEF PlaceInv, MemoryTypes, SessionsNameRuns, Running
  <2>6. KnownOnceAccepted'
    <3>1. \A j \in Inputs : Queued(j)' => Queued(j)
      BY <2>1, <2>2, SessionsOfInputs DEF Queued, PlaceInv, MemoryTypes
    <3>2. \A j \in Inputs : phase'[j] # "none" => phase[j] # "none"
      BY <1>1, <2>1 DEF Inv, ControlTypes
    <3>3. \A j \in Inputs : BeingAccepted(j)' <=> BeingAccepted(j)
      BY <2>1 DEF BeingAccepted
    <3> QED BY <1>1, <3>1, <3>2, <3>3 DEF PlaceInv, KnownOnceAccepted, Arrived
  <2> QED BY <1>1, <2>1, <2>3, <2>4, <2>5, <2>6 DEF PlaceInv, LockProtects, NothingWhileDown, Free
<1>5. CASE ~closed
  <2> DEFINE q == SteeringFirst(queue[s], steering)
  <2>1. PICK refused : Drain(s, q, refused)
    BY <1>5 DEF Release
  <2>2. q \in Seq(Inputs) /\ ToSet(q) = ToSet(queue[s]) /\ NoRepeat(q)
    <3>1. queue[s] \in Seq(Inputs) /\ NoRepeat(queue[s])
      BY <1>1 DEF PlaceInv, MemoryTypes, WaitersWait
    <3> QED BY <3>1, SteeringFirstSorts DEF NoRepeat
  <2> HIDE DEF q, s
  <2> QED BY <1>1, <1>2, <1>3, <2>1, <2>2, DrainKeepsPlaces
<1> QED BY <1>4, <1>5

LEMMA DrainGoesOnKeepsPlaces ==
  ASSUME PlaceInv, Inv, NEW i \in Inputs, DrainGoesOn(i)
  PROVE  PlaceInv'
<1> DEFINE s == SessionOf[i]
<1>1. /\ s \in Sessions /\ up /\ up' /\ lock.use = "drain" /\ lock.item = i
      /\ UNCHANGED <<arrivals, call>> /\ receipt' = [receipt EXCEPT ![i] = IF @ = "queued" THEN "removed" ELSE @]
  BY SessionsOfInputs DEF DrainGoesOn, processVars
<1>2. KnownStay
  BY <1>1 DEF KnownStay, Inv, TableTypes
<1>3. active[s] = None
  BY <1>1 DEF PlaceInv, LockProtects, MemoryTypes, LockedBy, Free
<1>4. ~SessionBusy(s) /\ queue[s] \in Seq(Inputs) /\ NoRepeat(queue[s])
  BY <1>1, <1>3 DEF SessionBusy, PlaceInv, MemoryTypes, WaitersWait
<1>5. PICK refused : Drain(s, queue[s], refused)
  BY DEF DrainGoesOn
<1> HIDE DEF s
<1> QED BY <1>1, <1>2, <1>4, <1>5, DrainKeepsPlaces

LEMMA CrashKeepsPlaces == ASSUME PlaceInv, Inv, Crash PROVE PlaceInv'
<1>1. /\ ~up' /\ lock' = Free /\ arrivals' = arrivals /\ receipt' = receipt
      /\ queue' = [s \in Sessions |-> <<>>] /\ active' = [s \in Sessions |-> None]
      /\ phase' = [j \in Inputs |-> "none"]
      /\ \A j \in Inputs : call'[j] = "unsent" => call[j] = "unsent"
  BY DEF Crash, storeVars
<1>2. ToSet(<<>>) = {} /\ NoRepeat(<<>>) /\ <<>> \in Seq(Inputs)
  BY DEF ToSet, NoRepeat, Before
<1>3. MemoryTypes'
  BY <1>1, <1>2 DEF PlaceInv, MemoryTypes
<1>4. WaitersWait'
  BY <1>1, <1>2 DEF WaitersWait, NoRepeat
<1>5. SessionsNameRuns'
  BY <1>1 DEF SessionsNameRuns, Running
<1>6. KnownOnceAccepted'
  BY <1>1, <1>2, SessionsOfInputs DEF PlaceInv, KnownOnceAccepted, Queued, Arrived, BeingAccepted, Free
<1> QED BY <1>1, <1>3, <1>4, <1>5, <1>6 DEF PlaceInv, LockProtects, NothingWhileDown, Free

\* What a restart brings back: every queued receipt of the Session, once.
LEMMA RestoredOnce ==
  ASSUME PlaceInv, wantsSteering \in [Inputs -> BOOLEAN], NEW s \in Sessions
  PROVE  /\ Restored(s) \in Seq(Inputs) /\ NoRepeat(Restored(s))
         /\ ToSet(Restored(s)) =
              ToSet(arrivals) \cap {i \in Inputs : SessionOf[i] = s /\ receipt[i] = "queued"}
         /\ \A i, j \in Inputs :
              Before(Restored(s), i, j) =>
                (wantsSteering[i] /\ ~wantsSteering[j])
                  \/ ((wantsSteering[i] <=> wantsSteering[j]) /\ Before(arrivals, i, j))
<1> DEFINE S == {i \in Inputs : SessionOf[i] = s /\ receipt[i] = "queued"}
           q == Kept(arrivals, S)
<1>1. arrivals \in Seq(Inputs) /\ NoRepeat(arrivals)
  BY DEF PlaceInv, MemoryTypes, KnownOnceAccepted
<1>2. Selects(arrivals, S)
  BY <1>1, KeptSelects
<1>3. /\ q \in Seq(Inputs) /\ ToSet(q) = ToSet(arrivals) \cap S
      /\ \A i, j \in Inputs : Before(q, i, j) => Before(arrivals, i, j)
  BY <1>2 DEF Selects
<1>4. Restored(s) = SteeringFirst(q, wantsSteering)
  BY DEF Restored, Owed
<1> HIDE DEF q, S
<1>5. /\ Restored(s) \in Seq(Inputs) /\ ToSet(Restored(s)) = ToSet(q)
      /\ \A i, j \in Inputs :
              Before(Restored(s), i, j) =>
                \/ wantsSteering[i] /\ ~wantsSteering[j] /\ i \in ToSet(q) /\ j \in ToSet(q)
                \/ (wantsSteering[i] <=> wantsSteering[j]) /\ Before(q, i, j)
  BY <1>3, <1>4, SteeringFirstSorts
<1>6. NoRepeat(Restored(s))
  BY <1>1, <1>3, <1>5 DEF NoRepeat
<1>7. ToSet(Restored(s)) = ToSet(arrivals) \cap S
  BY <1>3, <1>5
<1>8. ASSUME NEW i \in Inputs, NEW j \in Inputs, Before(Restored(s), i, j)
      PROVE  (wantsSteering[i] /\ ~wantsSteering[j])
               \/ ((wantsSteering[i] <=> wantsSteering[j]) /\ Before(arrivals, i, j))
  <2>1. Before(q, i, j) => Before(arrivals, i, j)
    BY <1>3
  <2>2. (wantsSteering[i] /\ ~wantsSteering[j]) \/ ((wantsSteering[i] <=> wantsSteering[j]) /\ Before(q, i, j))
    BY <1>5, <1>8, Zenon
  <2> QED BY <2>1, <2>2, Zenon
<1> QED BY <1>5, <1>6, <1>7, <1>8 DEF S

LEMMA RestartKeepsPlaces ==
  ASSUME PlaceInv, Inv, wantsSteering \in [Inputs -> BOOLEAN], Restart
  PROVE  PlaceInv'
<1> DEFINE first(i) == Restored(SessionOf[i]) # <<>> /\ i = Head(Restored(SessionOf[i]))
<1>1. /\ ~up /\ up' /\ UNCHANGED <<lock, arrivals, call, receipt>>
      /\ active' = [s \in Sessions |-> IF Restored(s) = <<>> THEN None ELSE Head(Restored(s))]
      /\ queue' = [s \in Sessions |-> IF Restored(s) = <<>> THEN <<>> ELSE Tail(Restored(s))]
      /\ phase' = [i \in Inputs |-> IF first(i) THEN "admitting" ELSE "none"]
  BY Zenon DEF Restart
<1> HIDE DEF first
<1>2. lock = Free
  BY <1>1 DEF PlaceInv, NothingWhileDown
<1>3. ToSet(<<>>) = {} /\ NoRepeat(<<>>) /\ <<>> \in Seq(Inputs)
  BY DEF ToSet, NoRepeat, Before
\* Whom s begins with, and who waits behind.
<1>4. ASSUME NEW s \in Sessions
      PROVE  /\ queue'[s] \in Seq(Inputs) /\ NoRepeat(queue'[s]) /\ active'[s] \in Inputs \cup {None}
             /\ \A i \in ToSet(queue'[s]) :
                  i \in Inputs /\ SessionOf[i] = s /\ receipt[i] = "queued" /\ i # active'[s] /\ Arrived(i)
             /\ active'[s] # None => /\ SessionOf[active'[s]] = s /\ first(active'[s])
                                    /\ receipt[active'[s]] = "queued" /\ Arrived(active'[s])
             /\ \A i \in Inputs : SessionOf[i] = s /\ first(i) => active'[s] = i
  <2> DEFINE q == Restored(s)
  <2>1. /\ q \in Seq(Inputs) /\ NoRepeat(q)
        /\ ToSet(q) = ToSet(arrivals) \cap {i \in Inputs : SessionOf[i] = s /\ receipt[i] = "queued"}
    BY RestoredOnce
  <2>2. CASE q = <<>>
    BY <1>1, <1>3, <2>2 DEF first
  <2>3. CASE q # <<>>
    <3>1. active'[s] = Head(q) /\ queue'[s] = Tail(q)
      BY <1>1, <2>3
    <3> HIDE DEF q
    <3>2. /\ Head(q) \in Inputs /\ Head(q) \in ToSet(q) /\ Tail(q) \in Seq(Inputs)
          /\ ToSet(q) = {Head(q)} \cup ToSet(Tail(q))
          /\ \A i, j \in Inputs : Before(Tail(q), i, j) => Before(q, i, j)
          /\ \A j \in ToSet(Tail(q)) : Before(q, Head(q), j)
      BY <2>1, <2>3, HeadFirst
    <3>3. \A j \in ToSet(Tail(q)) : j # Head(q)
      BY <2>1, <3>2 DEF NoRepeat
    <3>4. NoRepeat(Tail(q))
      BY <2>1, <3>2 DEF NoRepeat
    <3>5. \A i \in ToSet(q) : i \in Inputs /\ SessionOf[i] = s /\ receipt[i] = "queued" /\ Arrived(i)
      BY <2>1 DEF Arrived
    <3>6. \A i \in Inputs : SessionOf[i] = s => (first(i) <=> i = Head(q))
      BY <2>3 DEF first, q
    <3> QED BY <3>1, <3>2, <3>3, <3>4, <3>5, <3>6
  <2> QED BY <2>2, <2>3
<1>5. MemoryTypes'
  BY <1>1, <1>2, <1>4 DEF PlaceInv, MemoryTypes
<1>6. WaitersWait'
  <2> SUFFICES ASSUME NEW t \in Sessions
               PROVE  /\ NoRepeat(queue'[t])
                      /\ \A j \in ToSet(queue'[t]) : SessionOf[j] = t /\ phase'[j] = "none"
    BY DEF WaitersWait, NoRepeat
  <2> QED BY <1>1, <1>4
<1>7. SessionsNameRuns'
  BY <1>1, <1>4, SessionsOfInputs DEF SessionsNameRuns, Running
<1>8. KnownOnceAccepted'
  <2>1. \A j \in Inputs : Queued(j)' => Arrived(j)
    BY <1>4, SessionsOfInputs DEF Queued
  <2>2. \A j \in Inputs : phase'[j] # "none" => Arrived(j)
    BY <1>1, <1>4, SessionsOfInputs
  <2> QED BY <1>1, <2>1, <2>2 DEF PlaceInv, KnownOnceAccepted, Arrived, BeingAccepted
<1> QED BY <1>1, <1>2, <1>5, <1>6, <1>7, <1>8 DEF PlaceInv, LockProtects, NothingWhileDown, Free

-----------------------------------------------------------------------------
(* The flags of the items and the deliveries under way. *)

FlagTypes ==
  /\ steering \in [Inputs -> BOOLEAN] /\ wantsSteering \in [Inputs -> BOOLEAN]
  /\ inflight \in [Inputs -> BOOLEAN] /\ withdrawn \in [Inputs -> BOOLEAN]
  /\ edited \in [Inputs -> BOOLEAN] /\ rewritten \in [Inputs -> BOOLEAN]
  /\ walk \in [Inputs -> Seq(Inputs)] /\ append \in [Inputs -> Inputs \cup {None}]

\* An item is in flight while an executing Run of its Session appends it.
AppendsAreInFlight ==
  /\ \A r \in Inputs : append[r] # None =>
       phase[r] = "executing" /\ SessionOf[append[r]] = SessionOf[r] /\ inflight[append[r]]
  /\ \A i \in Inputs : inflight[i] => \E r \in Inputs : append[r] = i
  /\ \A r \in Inputs : \A i \in ToSet(walk[r]) : SessionOf[i] = SessionOf[r]

FlagInv == FlagTypes /\ AppendsAreInFlight

LEMMA InitFlags == Init => FlagInv
<1>1. ToSet(<<>>) = {}
  BY DEF ToSet
<1> QED BY <1>1 DEF Init, FlagInv, FlagTypes, AppendsAreInFlight

\* A step that leaves the deliveries alone.
Undisturbed ==
  /\ UNCHANGED <<walk, append, inflight>>
  /\ \A r \in Inputs : phase[r] = "executing" => append[r] = None \/ phase'[r] = "executing"

LEMMA UndisturbedKeepsFlags == ASSUME FlagInv, Undisturbed, FlagTypes' PROVE FlagInv'
BY DEF FlagInv, FlagTypes, AppendsAreInFlight, Undisturbed

LEMMA ProducerKeepsFlags ==
  ASSUME Inv, FlagInv, NEW i \in Inputs, Producer(i) \/ SubmitReturns(i) \/ RemoveAbandoned(i)
  PROVE  Undisturbed /\ FlagTypes'
<1> USE DEF Undisturbed, FlagInv, FlagTypes, itemVars, runVars, storeVars, editVars, Inv, ControlTypes
<1>1. CASE ReserveWaitingWork(i)
  BY <1>1 DEF ReserveWaitingWork
<1>2. CASE ReleaseWaitingWork(i)
  BY <1>2 DEF ReleaseWaitingWork
<1>3. CASE EnqueueStarts(i)
  BY <1>3 DEF EnqueueStarts, Installed
<1>4. CASE EnqueueWaits(i)
  BY <1>4 DEF EnqueueWaits
<1>5. CASE AcceptBegins(i)
  BY <1>5 DEF AcceptBegins
<1>6. CASE AbandonWaiter(i)
  BY <1>6 DEF AbandonWaiter
<1>7. CASE SubmitReturns(i)
  BY <1>7 DEF SubmitReturns
<1>8. CASE RemoveAbandoned(i)
  BY <1>8 DEF RemoveAbandoned
<1> QED BY <1>1, <1>2, <1>3, <1>4, <1>5, <1>6, <1>7, <1>8 DEF Producer

LEMMA UserKeepsFlags ==
  ASSUME Inv, FlagInv, NEW i \in Inputs, User(i)
  PROVE  Undisturbed /\ FlagTypes'
<1> USE DEF Undisturbed, FlagInv, FlagTypes, itemVars, runVars, storeVars, editVars, Inv, ControlTypes
<1>1. CASE RemoveBegins(i)
  <2>1. UNCHANGED <<editVars, steering, inflight, runVars, storeVars>>
    BY <1>1 DEF RemoveBegins
  <2>2. withdrawn' \in [Inputs -> BOOLEAN]
    BY <1>1 DEF RemoveBegins, Withdraws
  <2> QED BY <2>1, <2>2
<1>2. CASE EditBegins(i)
  <2>1. UNCHANGED <<rewritten, itemVars, runVars, storeVars>>
    BY <1>2 DEF EditBegins
  <2>2. edited' \in [Inputs -> BOOLEAN]
    BY <1>2 DEF EditBegins
  <2> QED BY <2>1, <2>2
<1>3. CASE SteerBegins(i)
  <2>1. UNCHANGED <<editVars, inflight, withdrawn, runVars, storeVars>>
    BY <1>3 DEF SteerBegins
  <2>2. steering' \in [Inputs -> BOOLEAN]
    BY <1>3 DEF SteerBegins
  <2> QED BY <2>1, <2>2
<1>4. CASE RequestCancel(i)
  BY <1>4 DEF RequestCancel
<1> QED BY <1>1, <1>2, <1>3, <1>4 DEF User

LEMMA ClearsFlags ==
  ASSUME FlagInv, NEW s, NEW gone, NEW rest, ClearsUpTo(s, gone, rest)
  PROVE  withdrawn' \in [Inputs -> BOOLEAN]
BY DEF ClearsUpTo, Withdraws, FlagInv, FlagTypes

LEMMA DrainUndisturbed ==
  ASSUME PlaceInv, Inv, NEW s \in Sessions, NEW q \in Seq(Inputs), NEW refused,
         ToSet(q) \subseteq ToSet(queue[s]), Drain(s, q, refused)
  PROVE  \A r \in Inputs : phase[r] = "executing" => phase'[r] = "executing"
<1>1. PICK k, rest : DrainsTo(s, q, k, rest) /\ (DrainStarts(s, q, k) \/ DrainRefuses(s, q, k))
  BY DrainEffect
<1>2. k =< Len(q) => phase[q[k]] = "none"
  BY <1>1, Places DEF DrainsTo, PlaceInv, WaitersWait
<1> QED BY <1>1, <1>2 DEF DrainStarts, DrainRefuses

LEMMA LockHolderKeepsFlags ==
  ASSUME Inv, PlaceInv, FlagInv, NEW i \in Inputs, LockHolder(i)
  PROVE  Undisturbed /\ FlagTypes'
<1> USE DEF Undisturbed, FlagInv, FlagTypes, itemVars, runVars, storeVars, editVars, Inv, ControlTypes
<1>1. CASE AcceptStarts(i)
  BY <1>1 DEF AcceptStarts, Accepts, Installed
<1>2. CASE AcceptWaits(i)
  BY <1>2 DEF AcceptWaits, Accepts
<1>3. CASE Removes(i)
  BY <1>3 DEF Removes, Withdraws
<1>4. CASE Edits(i)
  <2>1. UNCHANGED <<itemVars, runVars, storeVars>>
    BY <1>4 DEF Edits
  <2>2. edited' \in [Inputs -> BOOLEAN] /\ rewritten' \in [Inputs -> BOOLEAN]
    BY <1>4 DEF Edits
  <2> QED BY <2>1, <2>2
<1>5. CASE Steers(i)
  <2>1. UNCHANGED <<editVars, inflight, withdrawn, runVars>>
    BY <1>5 DEF Steers
  <2>2. steering' \in [Inputs -> BOOLEAN] /\ wantsSteering' \in [Inputs -> BOOLEAN]
    BY <1>5 DEF Steers
  <2> QED BY <2>1, <2>2
<1>6. CASE ClearGoesOn(i)
  <2>1. withdrawn' \in [Inputs -> BOOLEAN]
    BY <1>6, ClearsFlags DEF ClearGoesOn
  <2> QED BY <1>6, <2>1 DEF ClearGoesOn
<1>7. CASE DrainGoesOn(i)
  <2>1. SessionOf[i] \in Sessions /\ queue[SessionOf[i]] \in Seq(Inputs)
    BY SessionsOfInputs DEF PlaceInv, MemoryTypes
  <2>2. \A r \in Inputs : phase[r] = "executing" => phase'[r] = "executing"
    BY <1>7, <2>1, DrainUndisturbed DEF DrainGoesOn
  <2> QED BY <1>7, <2>2 DEF DrainGoesOn
<1> QED BY <1>1, <1>2, <1>3, <1>4, <1>5, <1>6, <1>7 DEF LockHolder

LEMMA RunStepKeepsFlags ==
  ASSUME Inv, FlagInv, NEW r \in Inputs, RunStep(r) \/ ExecutorStops(r)
  PROVE  Undisturbed /\ FlagTypes'
<1> USE DEF Undisturbed, FlagInv, FlagTypes, itemVars, storeVars, editVars, Inv, ControlTypes
<1>1. CASE AdmitCommits(r)
  BY <1>1 DEF AdmitCommits, Claim, Ends
<1>2. CASE AdmitFails(r)
  BY <1>2 DEF AdmitFails, Ends
<1>3. CASE WriteInput(r)
  BY <1>3 DEF WriteInput, runVars
<1>4. CASE ExecutorStops(r)
  BY <1>4 DEF ExecutorStops, ExecutorEnds, Ends
<1>5. CASE CleanupEnds(r) \/ FinishFails(r) \/ MarkTerminal(r)
  BY <1>5 DEF CleanupEnds, FinishFails, MarkTerminal
<1>6. CASE FinishCommits(r)
  BY <1>6 DEF FinishCommits
<1> QED BY <1>1, <1>2, <1>3, <1>4, <1>5, <1>6 DEF RunStep

LEMMA ReleaseKeepsFlags ==
  ASSUME Inv, PlaceInv, FlagInv, NEW i \in Inputs, Release(i)
  PROVE  Undisturbed /\ FlagTypes'
<1> DEFINE s == SessionOf[i]
<1>1. UNCHANGED <<editVars, steering, inflight, withdrawn, walk, append, storeVars>>
      /\ s \in Sessions /\ phase[i] = "releasing"
  BY SessionsOfInputs DEF Release
<1>2. \A r \in Inputs : phase[r] = "executing" => phase'[r] = "executing"
  <2>1. CASE closed
    BY <1>1, <2>1 DEF Release, Inv, ControlTypes
  <2>2. CASE ~closed
    <3> DEFINE q == SteeringFirst(queue[s], steering)
    <3>1. PICK refused : Drain(s, q, refused)
      BY <2>2 DEF Release
    <3>2. q \in Seq(Inputs) /\ ToSet(q) \subseteq ToSet(queue[s])
      BY <1>1, SteeringFirstSorts DEF PlaceInv, MemoryTypes, FlagInv, FlagTypes
    <3> HIDE DEF q, s
    <3> QED BY <1>1, <3>1, <3>2, DrainUndisturbed
  <2> QED BY <2>1, <2>2
<1> QED BY <1>1, <1>2 DEF Undisturbed, FlagInv, FlagTypes, editVars, storeVars

LEMMA ManagerKeepsFlags ==
  ASSUME Inv, FlagInv, (\E s \in Sessions : ClearBegins(s)) \/ LockedCallFails \/ Aclose
  PROVE  Undisturbed /\ FlagTypes'
<1> USE DEF Undisturbed, FlagInv, FlagTypes, itemVars, runVars, storeVars, editVars
<1>1. ASSUME NEW s \in Sessions, ClearBegins(s) PROVE Undisturbed /\ FlagTypes'
  <2>1. withdrawn' \in [Inputs -> BOOLEAN]
    BY <1>1, ClearsFlags DEF ClearBegins
  <2> QED BY <1>1, <2>1 DEF ClearBegins
<1>2. CASE LockedCallFails
  BY <1>2 DEF LockedCallFails
<1>3. CASE Aclose
  BY <1>3 DEF Aclose
<1> QED BY <1>1, <1>2, <1>3

\* A delivery ends, or goes on with the next item i of the rest.
DeliveryEnds(r, gone) ==
  /\ walk' = [walk EXCEPT ![r] = <<>>] /\ append' = [append EXCEPT ![r] = None]
  /\ inflight' = [j \in Inputs |-> j \notin gone /\ inflight[j]]
DeliveryGoesOn(r, rest, gone, i, w) ==
  /\ i \in Inputs \ gone /\ i \in ToSet(rest) /\ Queued(i) /\ ~Abandoned(i)
  /\ w \in Seq(Inputs) /\ ToSet(w) \subseteq ToSet(rest)
  /\ walk' = [walk EXCEPT ![r] = w] /\ append' = [append EXCEPT ![r] = i]
  /\ inflight' = [j \in Inputs |-> (j \notin gone /\ inflight[j]) \/ j = i]
  /\ phase' = phase

LEMMA DeliveryEffect ==
  ASSUME Inv, FlagInv, NEW r \in Inputs, NEW rest \in Seq(Inputs), NEW gone, Delivers(r, rest, gone)
  PROVE  /\ DeliveryEnds(r, gone) \/ \E i, w : DeliveryGoesOn(r, rest, gone, i, w)
         /\ \A t \in Inputs : t # r => phase'[t] = phase[t]
         /\ phase'[r] \in {phase[r], "cleanup"}
<1> DEFINE S == {i \in Inputs \ gone : Queued(i) /\ ~Abandoned(i)}
           left == Kept(rest, S)
           ends == left = <<>> \/ cancelRequested[r]
<1>1. /\ walk' = [walk EXCEPT ![r] = IF ends THEN <<>> ELSE Tail(left)]
      /\ append' = [append EXCEPT ![r] = IF ends THEN None ELSE Head(left)]
      /\ inflight' = [i \in Inputs |-> IF i \in gone THEN FALSE
                                       ELSE inflight[i] \/ (~ends /\ i = Head(left))]
      /\ phase' = [phase EXCEPT ![r] = IF left # <<>> /\ cancelRequested[r] THEN "cleanup" ELSE @]
  BY DEF Delivers
<1>2. left \in Seq(Inputs) /\ ToSet(left) = ToSet(rest) \cap S
  BY KeptSelects DEF Selects
<1> HIDE DEF left
<1>3. phase'[r] \in {phase[r], "cleanup"} /\ \A t \in Inputs : t # r => phase'[t] = phase[t]
  BY <1>1 DEF Inv, ControlTypes
<1>4. CASE ends
  <2>1. inflight' = [j \in Inputs |-> j \notin gone /\ inflight[j]]
    <3>1. \A j \in Inputs : (IF j \in gone THEN FALSE ELSE inflight[j] \/ (~ends /\ j = Head(left)))
                              = (j \notin gone /\ inflight[j])
      <4> HIDE DEF ends
      <4> QED BY <1>4, Zenon DEF FlagInv, FlagTypes
    <3> HIDE DEF ends
    <3> QED BY <1>1, <3>1
  <2> QED BY <1>1, <1>3, <1>4, <2>1 DEF DeliveryEnds
<1>5. CASE ~ends
  <2> DEFINE i == Head(left)
             w == Tail(left)
  <2>1. i \in Inputs /\ i \in S /\ i \in ToSet(rest) /\ w \in Seq(Inputs) /\ ToSet(w) \subseteq ToSet(rest)
    BY <1>2, <1>5, HeadFirst
  <2>2. inflight' = [j \in Inputs |-> (j \notin gone /\ inflight[j]) \/ j = i]
    <3>1. \A j \in Inputs : (IF j \in gone THEN FALSE ELSE inflight[j] \/ (~ends /\ j = i))
                              = ((j \notin gone /\ inflight[j]) \/ j = i)
      <4> HIDE DEF ends
      <4> QED BY <1>5, <2>1, Zenon DEF FlagInv, FlagTypes
    <3> HIDE DEF ends
    <3> QED BY <1>1, <3>1
  <2>3. walk' = [walk EXCEPT ![r] = w] /\ append' = [append EXCEPT ![r] = i]
    BY <1>1, <1>5
  <2>4. phase' = phase
    BY <1>1, <1>5 DEF Inv, ControlTypes
  <2> HIDE DEF i, w
  <2>5. DeliveryGoesOn(r, rest, gone, i, w)
    BY <2>1, <2>2, <2>3, <2>4 DEF DeliveryGoesOn
  <2> QED BY <1>3, <2>5
<1> QED BY <1>4, <1>5

\* Another Run's item is not the one that r lets go.
LEMMA OthersStayInFlight ==
  ASSUME PlaceInv, FlagInv, NEW r \in Inputs, phase[r] = "executing",
         NEW gone, (gone = {} /\ append[r] = None) \/ (gone = {append[r]} /\ append[r] # None),
         \A t \in Inputs : t # r => phase'[t] = phase[t]
  PROVE  \A t \in Inputs : t # r /\ append[t] # None => phase'[t] = "executing" /\ append[t] \notin gone
<1>1. ASSUME NEW t \in Inputs, t # r, append[t] # None, append[t] = append[r] PROVE FALSE
  <2>1. SessionOf[t] = SessionOf[r] /\ phase[t] = "executing"
    BY <1>1 DEF FlagInv, AppendsAreInFlight
  <2> QED BY <1>1, <2>1 DEF PlaceInv, SessionsNameRuns, Running
<1> QED BY <1>1 DEF FlagInv, AppendsAreInFlight

LEMMA EndedDeliveryKeepsAppends ==
  ASSUME PlaceInv, FlagInv, NEW r \in Inputs, phase[r] = "executing",
         NEW gone, (gone = {} /\ append[r] = None) \/ (gone = {append[r]} /\ append[r] # None),
         \A t \in Inputs : t # r => phase'[t] = phase[t],
         DeliveryEnds(r, gone)
  PROVE  AppendsAreInFlight'
<1>1. /\ append'[r] = None /\ walk'[r] = <<>>
      /\ \A t \in Inputs : t # r => append'[t] = append[t] /\ walk'[t] = walk[t]
      /\ \A j \in Inputs : inflight'[j] = (j \notin gone /\ inflight[j])
  BY DEF DeliveryEnds, FlagInv, FlagTypes
<1>2. ToSet(<<>>) = {}
  BY DEF ToSet
<1>3. \A t \in Inputs : append[t] # None => append[t] \in Inputs
  BY DEF FlagInv, FlagTypes
<1>4. \A j \in Inputs : inflight'[j] => \E t \in Inputs : append'[t] = j
  <2> SUFFICES ASSUME NEW j \in Inputs, inflight'[j] PROVE \E t \in Inputs : append'[t] = j
    OBVIOUS
  <2>1. j \notin gone /\ inflight[j] /\ j # None
    BY <1>1, SessionsOfInputs
  <2>2. PICK t \in Inputs : append[t] = j
    BY <2>1 DEF FlagInv, AppendsAreInFlight
  <2> QED BY <1>1, <2>1, <2>2
<1>5. \A t \in Inputs : append'[t] # None =>
        phase'[t] = "executing" /\ SessionOf[append'[t]] = SessionOf[t] /\ inflight'[append'[t]]
  <2> SUFFICES ASSUME NEW t \in Inputs, append'[t] # None
               PROVE  phase'[t] = "executing" /\ SessionOf[append'[t]] = SessionOf[t]
                      /\ inflight'[append'[t]]
    OBVIOUS
  <2>1. t # r /\ append'[t] = append[t] /\ append[t] \in Inputs
    BY <1>1, <1>3
  <2>2. /\ phase'[t] = "executing" /\ append[t] \notin gone
        /\ SessionOf[append[t]] = SessionOf[t] /\ inflight[append[t]]
    BY OthersStayInFlight, <2>1 DEF FlagInv, AppendsAreInFlight
  <2>3. inflight'[append[t]] = (append[t] \notin gone /\ inflight[append[t]])
    BY <1>1, <2>1
  <2> QED BY <2>1, <2>2, <2>3
<1>6. \A t \in Inputs : \A i \in ToSet(walk'[t]) : SessionOf[i] = SessionOf[t]
  BY <1>1, <1>2 DEF FlagInv, AppendsAreInFlight
<1> QED BY <1>4, <1>5, <1>6 DEF AppendsAreInFlight

\* r had the item gone in flight, or none, and goes on with its own Session's items.
LEMMA DeliveryKeepsFlags ==
  ASSUME Inv, PlaceInv, FlagInv, NEW r \in Inputs, NEW rest \in Seq(Inputs), phase[r] = "executing",
         \A i \in ToSet(rest) : SessionOf[i] = SessionOf[r],
         NEW gone, (gone = {} /\ append[r] = None) \/ (gone = {append[r]} /\ append[r] # None),
         Delivers(r, rest, gone),
         UNCHANGED <<steering, wantsSteering, withdrawn, edited, rewritten>>
  PROVE  FlagInv'
<1>1. FlagTypes'
  <2>1. CASE DeliveryEnds(r, gone)
    BY <2>1 DEF DeliveryEnds, FlagInv, FlagTypes
  <2>2. ASSUME NEW i, NEW w, DeliveryGoesOn(r, rest, gone, i, w) PROVE FlagTypes'
    BY <2>2 DEF DeliveryGoesOn, FlagInv, FlagTypes
  <2> QED BY <2>1, <2>2, DeliveryEffect
<1>2. \A t \in Inputs : t # r => phase'[t] = phase[t]
  BY DeliveryEffect
<1>3. \A t \in Inputs : t # r /\ append[t] # None => phase'[t] = "executing" /\ append[t] \notin gone
  BY <1>2, OthersStayInFlight
<1>4. AppendsAreInFlight'
  <2>1. CASE DeliveryEnds(r, gone)
    BY <2>1, <1>2, EndedDeliveryKeepsAppends
  <2>2. ASSUME NEW i, NEW w, DeliveryGoesOn(r, rest, gone, i, w) PROVE AppendsAreInFlight'
    <3>1. /\ append'[r] = i /\ walk'[r] = w /\ i \in Inputs /\ i \notin gone
          /\ SessionOf[i] = SessionOf[r] /\ \A j \in ToSet(w) : SessionOf[j] = SessionOf[r]
          /\ \A t \in Inputs : t # r => append'[t] = append[t] /\ walk'[t] = walk[t]
          /\ \A j \in Inputs : inflight'[j] = ((j \notin gone /\ inflight[j]) \/ j = i)
          /\ phase'[r] = "executing"
      BY <2>2 DEF DeliveryGoesOn, FlagInv, FlagTypes
    <3>2. inflight'[i]
      BY <3>1
    <3>3. \A t \in Inputs : append[t] # None => append[t] \in Inputs
      BY DEF FlagInv, FlagTypes
    <3>4. \A j \in Inputs : inflight'[j] => \E t \in Inputs : append'[t] = j
      <4> SUFFICES ASSUME NEW j \in Inputs, inflight'[j], j # i PROVE \E t \in Inputs : append'[t] = j
        BY <3>1
      <4>1. j \notin gone /\ inflight[j] /\ j # None
        BY <3>1, SessionsOfInputs
      <4>2. PICK t \in Inputs : append[t] = j
        BY <4>1 DEF FlagInv, AppendsAreInFlight
      <4> QED BY <3>1, <4>1, <4>2
    <3>5. \A t \in Inputs : append'[t] # None =>
            phase'[t] = "executing" /\ SessionOf[append'[t]] = SessionOf[t] /\ inflight'[append'[t]]
      BY <1>3, <3>1, <3>2, <3>3 DEF FlagInv, AppendsAreInFlight
    <3>6. \A t \in Inputs : \A j \in ToSet(walk'[t]) : SessionOf[j] = SessionOf[t]
      BY <3>1 DEF FlagInv, AppendsAreInFlight
    <3> QED BY <3>4, <3>5, <3>6 DEF AppendsAreInFlight
  <2> QED BY <2>1, <2>2, DeliveryEffect
<1> QED BY <1>1, <1>4 DEF FlagInv

LEMMA SteeringKeepsFlags ==
  ASSUME Inv, PlaceInv, FlagInv, NEW r \in Inputs, Steering(r)
  PROVE  FlagInv'
<1>1. CASE Boundary(r)
  <2> DEFINE s == SessionOf[r]
             S == {i \in Inputs : steering[i] /\ (i \in Durable \/ future[i] \notin {"abandoned", "cancelled"})}
             rest == Kept(queue[s], S)
  <2>1. /\ phase[r] = "executing" /\ append[r] = None /\ Delivers(r, rest, {})
        /\ UNCHANGED <<steering, wantsSteering, withdrawn, edited, rewritten>>
    BY <1>1 DEF Boundary, storeVars, editVars
  <2>2. s \in Sessions /\ queue[s] \in Seq(Inputs)
    BY SessionsOfInputs DEF PlaceInv, MemoryTypes
  <2>3. rest \in Seq(Inputs) /\ ToSet(rest) \subseteq ToSet(queue[s])
    BY <2>2, KeptSelects DEF Selects
  <2>4. \A i \in ToSet(rest) : SessionOf[i] = s
    BY <2>2, <2>3 DEF PlaceInv, WaitersWait
  <2> HIDE DEF rest, s
  <2>5. \A i \in ToSet(rest) : SessionOf[i] = SessionOf[r]
    BY <2>4 DEF s
  <2> QED BY <2>1, <2>3, <2>5, DeliveryKeepsFlags
<1>2. CASE AppendCommits(r)
  <2>1. /\ append[r] \in Inputs /\ append[r] # None /\ Delivers(r, walk[r], {append[r]})
        /\ UNCHANGED <<steering, wantsSteering, withdrawn, edited, rewritten>>
    BY <1>2, SessionsOfInputs DEF AppendCommits, editVars
  <2>2. phase[r] = "executing" /\ walk[r] \in Seq(Inputs) /\ \A i \in ToSet(walk[r]) : SessionOf[i] = SessionOf[r]
    BY <2>1 DEF FlagInv, FlagTypes, AppendsAreInFlight
  <2> QED BY <2>1, <2>2, DeliveryKeepsFlags
<1>3. CASE AppendFails(r)
  <2>1. /\ append[r] # None /\ walk' = [walk EXCEPT ![r] = <<>>] /\ append' = [append EXCEPT ![r] = None]
        /\ inflight' = [inflight EXCEPT ![append[r]] = FALSE]
        /\ phase' = [phase EXCEPT ![r] = IF cancelRequested[r] THEN "cleanup" ELSE "closing"]
        /\ UNCHANGED <<steering, wantsSteering, withdrawn, edited, rewritten>>
    BY <1>3 DEF AppendFails, editVars, storeVars
  <2>2. phase[r] = "executing" /\ append[r] \in Inputs
    BY <2>1 DEF FlagInv, FlagTypes, AppendsAreInFlight
  <2>3. inflight' = [j \in Inputs |-> j \notin {append[r]} /\ inflight[j]]
    BY <2>1, <2>2 DEF FlagInv, FlagTypes
  <2>4. DeliveryEnds(r, {append[r]})
    BY <2>1, <2>3 DEF DeliveryEnds
  <2>5. FlagTypes'
    BY <2>1, <2>3 DEF FlagInv, FlagTypes
  <2>6. \A t \in Inputs : t # r => phase'[t] = phase[t]
    BY <2>1 DEF Inv, ControlTypes
  <2> QED BY <2>1, <2>2, <2>4, <2>5, <2>6, EndedDeliveryKeepsAppends DEF FlagInv
<1> QED BY <1>1, <1>2, <1>3 DEF Steering

LEMMA CrashKeepsFlags == ASSUME FlagInv, Crash PROVE FlagInv'
<1>1. ToSet(<<>>) = {}
  BY DEF ToSet
<1> QED BY <1>1, SessionsOfInputs DEF Crash, FlagInv, FlagTypes, AppendsAreInFlight, storeVars

\* Nothing is in flight while the process is down, because nothing executes.
LEMMA RestartKeepsFlags == ASSUME PlaceInv, FlagInv, Restart PROVE FlagInv'
<1>1. /\ ~up /\ UNCHANGED <<rewritten, inflight, withdrawn, walk, append, wantsSteering>>
      /\ steering' = [i \in Inputs |-> receipt[i] = "queued" /\ wantsSteering[i]]
      /\ edited' = [i \in Inputs |-> receipt[i] = "queued" /\ rewritten[i]]
  BY Zenon DEF Restart
<1>2. FlagTypes'
  BY <1>1 DEF FlagInv, FlagTypes
<1>3. \A r \in Inputs : append[r] = None
  BY <1>1 DEF PlaceInv, NothingWhileDown, FlagInv, AppendsAreInFlight
<1>4. AppendsAreInFlight'
  BY <1>1, <1>3 DEF FlagInv, AppendsAreInFlight
<1> QED BY <1>2, <1>4 DEF FlagInv

LEMMA NextKeepsFlags == ASSUME Inv, PlaceInv, FlagInv, Next PROVE FlagInv'
<1>1. ASSUME NEW i \in Inputs,
             \/ Producer(i) \/ SubmitReturns(i) \/ RemoveAbandoned(i) \/ User(i) \/ LockHolder(i)
             \/ RunStep(i) \/ Release(i) \/ ExecutorStops(i)
      PROVE  FlagInv'
  BY <1>1, UndisturbedKeepsFlags, ProducerKeepsFlags, UserKeepsFlags, LockHolderKeepsFlags,
     RunStepKeepsFlags, ReleaseKeepsFlags
<1>2. ASSUME NEW i \in Inputs, Steering(i) PROVE FlagInv'
  BY <1>2, SteeringKeepsFlags
<1>3. CASE (\E s \in Sessions : ClearBegins(s)) \/ LockedCallFails \/ Aclose
  BY <1>3, UndisturbedKeepsFlags, ManagerKeepsFlags
<1>4. CASE Crash \/ Restart
  BY <1>4, CrashKeepsFlags, RestartKeepsFlags
<1> QED BY <1>1, <1>2, <1>3, <1>4 DEF Next

LEMMA NextKeepsPlaces == ASSUME Inv, PlaceInv, FlagInv, Next PROVE PlaceInv'
<1> USE DEF FlagInv, FlagTypes
<1>1. ASSUME NEW i \in Inputs, Producer(i) \/ SubmitReturns(i) \/ RemoveAbandoned(i) PROVE PlaceInv'
  BY <1>1, CalmKeepsPlaces, ProducerIsCalm, EnqueueInstalls, EnqueueJoins, InstallKeepsPlaces,
     JoinKeepsPlaces, AcceptBeginsKeepsPlaces DEF Producer
<1>2. ASSUME NEW i \in Inputs, User(i) \/ LockHolder(i) PROVE PlaceInv'
  BY <1>2, CalmKeepsPlaces, UserIsCalm, ClearIsCalm, AcceptInstalls, AcceptJoins,
     InstallKeepsPlaces, JoinKeepsPlaces, DrainGoesOnKeepsPlaces DEF LockHolder
<1>3. ASSUME NEW i \in Inputs, RunStep(i) \/ ExecutorStops(i) \/ Release(i) PROVE PlaceInv'
  BY <1>3, CalmKeepsPlaces, RunStepIsCalm, ReleaseKeepsPlaces
<1>4. ASSUME NEW i \in Inputs, Steering(i) PROVE PlaceInv'
  <2>1. append[i] \in Inputs \cup {None} /\ (phase[i] = "executing" \/ append[i] = None)
    BY DEF AppendsAreInFlight
  <2> QED BY <1>4, <2>1, CalmKeepsPlaces, DeliveryIsCalm
<1>5. CASE (\E s \in Sessions : ClearBegins(s)) \/ LockedCallFails \/ Aclose
  BY <1>5, CalmKeepsPlaces, ClearIsCalm, ManagerIsCalm
<1>6. CASE Crash \/ Restart
  BY <1>6, CrashKeepsPlaces, RestartKeepsPlaces
<1> QED BY <1>1, <1>2, <1>3, <1>4, <1>5, <1>6 DEF Next

LEMMA StutterKeepsPlaces == ASSUME PlaceInv, FlagInv, UNCHANGED vars PROVE PlaceInv' /\ FlagInv'
<1> USE DEF vars, processVars, ticketVars, itemVars, runVars, storeVars, editVars
<1>1. FlagInv'
  BY DEF FlagInv, FlagTypes, AppendsAreInFlight
<1>2. MemoryTypes' /\ SessionsNameRuns'
  BY DEF PlaceInv, MemoryTypes, SessionsNameRuns, LockedBy, Running
<1>3. WaitersWait'
  BY DEF PlaceInv, WaitersWait, NoRepeat
<1>4. KnownOnceAccepted'
  BY DEF PlaceInv, KnownOnceAccepted, Queued, Arrived, BeingAccepted, NoRepeat
<1>5. LockProtects' /\ NothingWhileDown'
  BY DEF PlaceInv, LockProtects, NothingWhileDown, Idle, SessionBusy, Running, Queued
<1> QED BY <1>1, <1>2, <1>3, <1>4, <1>5 DEF PlaceInv

LEMMA QueueInvariant == Spec => [](Inv /\ PlaceInv /\ FlagInv)
<1>1. Init => Inv /\ PlaceInv /\ FlagInv
  BY InitInv, InitPlaces, InitFlags
<1>2. Inv /\ PlaceInv /\ FlagInv /\ [Next]_vars => (Inv /\ PlaceInv /\ FlagInv)'
  BY NextKeepsInv, NextKeepsFlags, NextKeepsPlaces, StutterKeepsPlaces
<1> QED BY <1>1, <1>2, PTL DEF Spec

\* A Session executes one Run at a time, the one _active_by_session names, and
\* what runs waits in no Queue (_start_run_locked, _drain_next_locked, _execute).
THEOREM OneRunAtATime == Spec => []OneRunPerSession
<1>1. PlaceInv => OneRunPerSession
  BY SessionsOfInputs DEF PlaceInv, SessionsNameRuns, WaitersWait, OneRunPerSession, Queued, Running
<1> QED BY <1>1, QueueInvariant, PTL

-----------------------------------------------------------------------------
(* The futures: transient work runs only while its future says so. *)

Futures == {"none", "pending", "run", "abandoned", "cancelled", "failed", "steered"}
FutureInv ==
  /\ future \in [Inputs -> Futures]
  /\ \A i \in Inputs \ Durable : phase[i] # "none" => future[i] = "run"
  /\ \A i \in Inputs : future[i] = "abandoned" => i \in Abandonable

\* A settled future stays settled.
FuturesStay ==
  /\ future' \in [Inputs -> Futures]
  /\ \A i \in Inputs : /\ future[i] = "run" => future'[i] = "run"
                       /\ future'[i] = "abandoned" => i \in Abandonable

LEMMA StayingKeepsFutures ==
  ASSUME FutureInv, FuturesStay, \A i \in Inputs : phase'[i] # "none" => phase[i] # "none"
  PROVE  FutureInv'
BY DEF FutureInv, FuturesStay

LEMMA WithdrawsFutures ==
  ASSUME FutureInv, NEW s, NEW gone, NEW flag, Withdraws(s, gone, flag)
  PROVE  FuturesStay
BY DEF FutureInv, FuturesStay, Withdraws, FutureDone, Futures

LEMMA CalmFutures ==
  ASSUME PlaceInv, FutureInv, NEW i \in Inputs,
         \/ ReserveWaitingWork(i) \/ ReleaseWaitingWork(i) \/ SubmitReturns(i) \/ AbandonWaiter(i)
         \/ RemoveAbandoned(i) \/ User(i) \/ Removes(i) \/ Edits(i) \/ Steers(i) \/ ClearGoesOn(i)
         \/ RunStep(i) \/ ExecutorStops(i) \/ Steering(i)
  PROVE  FuturesStay
<1> USE DEF FutureInv, FuturesStay, Futures, itemVars
<1>1. CASE ReserveWaitingWork(i) \/ ReleaseWaitingWork(i) \/ SubmitReturns(i)
  BY <1>1 DEF ReserveWaitingWork, ReleaseWaitingWork, SubmitReturns
<1>2. CASE AbandonWaiter(i) \/ RemoveAbandoned(i)
  BY <1>2 DEF AbandonWaiter, RemoveAbandoned
<1>3. CASE RemoveBegins(i)
  <2>1. FuturesStay \/ future' = future
    BY <1>3, WithdrawsFutures DEF RemoveBegins
  <2> QED BY <2>1
<1>4. CASE EditBegins(i) \/ SteerBegins(i) \/ RequestCancel(i)
  BY <1>4 DEF EditBegins, SteerBegins, RequestCancel
<1>5. CASE Removes(i)
  BY <1>5, WithdrawsFutures DEF Removes
<1>6. CASE Edits(i) \/ Steers(i)
  BY <1>6 DEF Edits, Steers
<1>7. CASE ClearGoesOn(i)
  BY <1>7, WithdrawsFutures DEF ClearGoesOn, ClearsUpTo
<1>8. CASE RunStep(i) \/ ExecutorStops(i)
  BY <1>8 DEF RunStep, ExecutorStops, AdmitCommits, AdmitFails, WriteInput, CleanupEnds, FinishCommits,
     FinishFails, MarkTerminal, ExecutorEnds
<1>9. CASE Boundary(i)
  BY <1>9 DEF Boundary
<1>10. CASE AppendCommits(i) \/ AppendFails(i)
  BY <1>10 DEF AppendCommits, AppendFails, FutureDone
<1> QED BY <1>1, <1>2, <1>3, <1>4, <1>5, <1>6, <1>7, <1>8, <1>9, <1>10 DEF User, Steering

LEMMA ManagerFutures ==
  ASSUME FutureInv, (\E s \in Sessions : ClearBegins(s)) \/ LockedCallFails \/ Aclose
  PROVE  FuturesStay
<1> USE DEF FutureInv, FuturesStay, Futures, itemVars
<1>1. CASE \E s \in Sessions : ClearBegins(s)
  BY <1>1, WithdrawsFutures DEF ClearBegins, ClearsUpTo
<1>2. CASE LockedCallFails
  BY <1>2 DEF LockedCallFails
<1>3. CASE Aclose
  BY <1>3 DEF Aclose, FutureDone
<1> QED BY <1>1, <1>2, <1>3

\* The drain starts a transient item only while its future waits.
LEMMA DrainKeepsFutures ==
  ASSUME PlaceInv, FutureInv, NEW s \in Sessions, NEW q \in Seq(Inputs), NEW refused,
         Drain(s, q, refused)
  PROVE  FutureInv'
<1> DEFINE passed == {i \in Inputs : Abandoned(i) \/ (i \in refused /\ i \notin Durable)}
           k == FirstIn(q, Inputs \ passed)
           starts == k =< Len(q) /\ q[k] \notin refused
           fails(i) == i \in {q[m] : m \in 1..(k - 1)} /\ ~FutureDone(i)
           resolves(i) == starts /\ i = q[k] /\ ~FutureDone(i)
<1>1. /\ future' = [i \in Inputs |->
                      CASE fails(i) -> "failed" [] resolves(i) -> "run" [] OTHER -> future[i]]
      /\ phase' = [i \in Inputs |->
                     IF starts /\ i = q[k] THEN "admitting"
                     ELSE IF phase[i] = "releasing" /\ active[s] = i THEN "over" ELSE phase[i]]
  BY DEF Drain
<1>2. /\ \A m \in 1..(k - 1) : q[m] \in passed
      /\ k =< Len(q) => q[k] \in Inputs /\ q[k] \notin passed
  <2>1. Len(q) \in Nat /\ \A n \in 1..Len(q) : q[n] \in Inputs
    OBVIOUS
  <2>2. /\ k \in 1..(Len(q) + 1)
        /\ \A m \in 1..(k - 1) : q[m] \notin Inputs \ passed
        /\ k =< Len(q) => q[k] \in Inputs \ passed
    BY <2>1, FirstInFound
  <2> HIDE DEF k, passed
  <2> QED BY <2>1, <2>2
<1>3. \A i \in Inputs : ~(fails(i) /\ resolves(i))
  BY <1>2
<1> HIDE DEF k
<1>4. starts => q[k] \in Inputs /\ (q[k] \notin Durable => resolves(q[k]))
  BY <1>2 DEF Abandoned
<1>5. \A i \in Inputs : fails(i) \/ resolves(i) => future[i] # "run"
  BY DEF FutureDone
<1> HIDE DEF fails, resolves, starts
<1>6. ASSUME NEW i \in Inputs
      PROVE  future'[i] = IF fails(i) THEN "failed" ELSE IF resolves(i) THEN "run" ELSE future[i]
  <2>1. CASE fails(i)
    BY <1>1, <1>3, <2>1
  <2>2. CASE resolves(i)
    BY <1>1, <1>3, <2>2
  <2>3. CASE ~fails(i) /\ ~resolves(i)
    BY <1>1, <2>3
  <2> QED BY <2>1, <2>2, <2>3
<1>7. \A i \in Inputs : phase'[i] # "none" => phase[i] # "none" \/ (starts /\ i = q[k])
  BY <1>1
<1>8. future' = [i \in Inputs |-> future'[i]] /\ \A i \in Inputs : future'[i] \in Futures
  BY <1>1, <1>6 DEF FutureInv, Futures
<1>9. future' \in [Inputs -> Futures]
  BY <1>8
<1>10. \A i \in Inputs : future'[i] = "abandoned" => i \in Abandonable
  BY <1>6 DEF FutureInv
<1>11. ASSUME NEW i \in Inputs \ Durable, phase'[i] # "none" PROVE future'[i] = "run"
  <2>1. CASE phase[i] # "none"
    <3>1. future[i] = "run"
      BY <2>1 DEF FutureInv
    <3> QED BY <1>5, <1>6, <3>1
  <2>2. CASE starts /\ i = q[k]
    <3>1. resolves(i) /\ ~fails(i)
      BY <1>3, <1>4, <2>2
    <3> QED BY <1>6, <3>1
  <2> QED BY <1>7, <1>11, <2>1, <2>2
<1> QED BY <1>9, <1>10, <1>11 DEF FutureInv

LEMMA AcceptanceKeepsFutures ==
  ASSUME Inv, PlaceInv, FutureInv, NEW i \in Inputs,
         EnqueueStarts(i) \/ EnqueueWaits(i) \/ AcceptBegins(i) \/ AcceptStarts(i) \/ AcceptWaits(i)
  PROVE  FutureInv'
<1> USE DEF FutureInv, Futures, Inv, ControlTypes
<1>1. CASE EnqueueStarts(i)
  BY <1>1 DEF EnqueueStarts, Installed
<1>2. CASE EnqueueWaits(i)
  <2>1. ~Arrived(i)
    BY <1>2 DEF EnqueueWaits, PlaceInv, KnownOnceAccepted
  <2> QED BY <1>2, <2>1, NewInputs DEF EnqueueWaits, runVars
<1>3. CASE AcceptBegins(i)
  <2>1. i \in Durable /\ future' = [future EXCEPT ![i] = "pending"] /\ phase' = phase
    BY <1>3 DEF AcceptBegins, runVars
  <2> QED BY <2>1
<1>4. CASE AcceptStarts(i)
  BY <1>4 DEF AcceptStarts, Installed
<1>5. CASE AcceptWaits(i)
  BY <1>5 DEF AcceptWaits
<1> QED BY <1>1, <1>2, <1>3, <1>4, <1>5

LEMMA ReleaseKeepsFutures ==
  ASSUME Inv, PlaceInv, FlagInv, FutureInv, NEW i \in Inputs, Release(i)
  PROVE  FutureInv'
<1> DEFINE s == SessionOf[i]
<1>1. s \in Sessions /\ phase[i] = "releasing"
  BY SessionsOfInputs DEF Release
<1>2. CASE closed
  <2>1. /\ phase' = [phase EXCEPT ![i] = "over"]
        /\ future' = [j \in Inputs |-> IF j \in ToSet(queue[s]) /\ ~FutureDone(j)
                                       THEN "cancelled" ELSE future[j]]
    BY <1>2 DEF Release
  <2>2. FuturesStay
    BY <2>1 DEF FuturesStay, FutureInv, Futures, FutureDone
  <2>3. \A j \in Inputs : phase'[j] # "none" => phase[j] # "none"
    BY <1>1, <2>1 DEF Inv, ControlTypes
  <2> QED BY <2>2, <2>3, StayingKeepsFutures
<1>3. CASE ~closed
  <2> DEFINE q == SteeringFirst(queue[s], steering)
  <2>1. PICK refused : Drain(s, q, refused)
    BY <1>3 DEF Release
  <2>2. q \in Seq(Inputs)
    BY <1>1, SteeringFirstSorts DEF PlaceInv, MemoryTypes, FlagInv, FlagTypes
  <2> HIDE DEF q, s
  <2> QED BY <1>1, <2>1, <2>2, DrainKeepsFutures
<1> QED BY <1>2, <1>3

LEMMA RestartKeepsFutures ==
  ASSUME PlaceInv, FlagInv, FutureInv, Restart
  PROVE  FutureInv'
<1> DEFINE first(i) == Restored(SessionOf[i]) # <<>> /\ i = Head(Restored(SessionOf[i]))
<1>1. /\ phase' = [i \in Inputs |-> IF first(i) THEN "admitting" ELSE "none"]
      /\ future' = [i \in Inputs |->
                      CASE first(i) -> "run" [] receipt[i] = "queued" /\ ~first(i) -> "pending"
                        [] OTHER -> "none"]
  BY Zenon DEF Restart
<1> HIDE DEF first
<1>2. ASSUME NEW i \in Inputs
      PROVE  future'[i] = IF first(i) THEN "run" ELSE IF receipt[i] = "queued" THEN "pending" ELSE "none"
  <2>1. CASE first(i)
    BY <1>1, <2>1
  <2>2. CASE ~first(i)
    BY <1>1, <2>2
  <2> QED BY <2>1, <2>2
<1>3. future' = [i \in Inputs |-> future'[i]] /\ \A i \in Inputs : future'[i] \in Futures
  BY <1>1, <1>2 DEF Futures
<1>4. future' \in [Inputs -> Futures]
  BY <1>3
<1>5. \A i \in Inputs : future'[i] # "abandoned"
  BY <1>2
<1> QED BY <1>1, <1>2, <1>4, <1>5 DEF FutureInv

LEMMA NextKeepsFutures ==
  ASSUME Inv, PlaceInv, FlagInv, FutureInv, Next PROVE FutureInv'
<1>1. ASSUME NEW i \in Inputs, Producer(i) \/ SubmitReturns(i) \/ RemoveAbandoned(i) PROVE FutureInv'
  <2>1. CASE \/ ReserveWaitingWork(i) \/ ReleaseWaitingWork(i) \/ SubmitReturns(i)
             \/ AbandonWaiter(i) \/ RemoveAbandoned(i)
    BY <2>1, ProducerIsCalm, CalmFutures, StayingKeepsFutures DEF Calm, RunsGoOn
  <2> QED BY <1>1, <2>1, AcceptanceKeepsFutures DEF Producer
<1>2. ASSUME NEW i \in Inputs, User(i) \/ LockHolder(i) PROVE FutureInv'
  <2>1. CASE User(i) \/ Removes(i) \/ Edits(i) \/ Steers(i)
    BY <2>1, UserIsCalm, CalmFutures, StayingKeepsFutures DEF Calm, RunsGoOn
  <2>2. CASE ClearGoesOn(i)
    BY <2>2, ClearIsCalm, CalmFutures, StayingKeepsFutures DEF Calm, RunsGoOn
  <2>3. CASE DrainGoesOn(i)
    <3>1. SessionOf[i] \in Sessions /\ queue[SessionOf[i]] \in Seq(Inputs)
      BY SessionsOfInputs DEF PlaceInv, MemoryTypes
    <3> QED BY <2>3, <3>1, DrainKeepsFutures DEF DrainGoesOn
  <2> QED BY <1>2, <2>1, <2>2, <2>3, AcceptanceKeepsFutures DEF LockHolder
<1>3. ASSUME NEW i \in Inputs, RunStep(i) \/ ExecutorStops(i) PROVE FutureInv'
  BY <1>3, RunStepIsCalm, CalmFutures, StayingKeepsFutures DEF Calm, RunsGoOn
<1>4. ASSUME NEW i \in Inputs, Steering(i) PROVE FutureInv'
  <2>1. append[i] \in Inputs \cup {None} /\ (phase[i] = "executing" \/ append[i] = None)
    BY DEF FlagInv, FlagTypes, AppendsAreInFlight
  <2> QED BY <1>4, <2>1, DeliveryIsCalm, CalmFutures, StayingKeepsFutures DEF Calm, RunsGoOn
<1>5. CASE (\E s \in Sessions : ClearBegins(s)) \/ LockedCallFails \/ Aclose
  BY <1>5, ClearIsCalm, ManagerIsCalm, ManagerFutures, StayingKeepsFutures DEF Calm, RunsGoOn
<1>6. CASE Crash
  BY <1>6 DEF Crash, FutureInv, Futures
<1> QED BY <1>1, <1>2, <1>3, <1>4, <1>5, <1>6, ReleaseKeepsFutures, RestartKeepsFutures DEF Next

LEMMA FuturesInvariant == Spec => [](Inv /\ PlaceInv /\ FlagInv /\ FutureInv)
<1>1. Init => FutureInv
  BY DEF Init, FutureInv, Futures
<1>2. Inv /\ PlaceInv /\ FlagInv /\ FutureInv /\ [Next]_vars => FutureInv'
  <2>1. ASSUME FutureInv, UNCHANGED vars PROVE FutureInv'
    BY <2>1 DEF FutureInv, vars, itemVars, runVars
  <2> QED BY <2>1, NextKeepsFutures
<1> QED BY <1>1, <1>2, QueueInvariant, PTL DEF Spec

\* A transient item that was removed, or whose waiter went, never runs: drain
\* passes it over even before the callback of its Future took it out of the Queue.
THEOREM WithdrawnWorkStaysIdle == Spec => []WithdrawnWorkNeverRuns
<1>1. FutureInv => WithdrawnWorkNeverRuns
  BY DEF FutureInv, WithdrawnWorkNeverRuns
<1> QED BY <1>1, FuturesInvariant, PTL

-----------------------------------------------------------------------------
(* The order of a Queue. *)

\* Two waiting inputs that nobody steered are in the order of their arrival, a
\* drain goes through a sorted Queue, and nobody unsteered runs before an earlier one.
OrderInv ==
  /\ \A s \in Sessions : \A i, j \in Inputs :
       Before(queue[s], i, j) /\ ~steering[i] /\ ~steering[j] => Earlier(i, j)
  /\ lock.use = "drain" =>
       \A i, j \in Inputs : Before(queue[lock.session], i, j) /\ steering[j] => steering[i]
  /\ NoOvertaking

\* Nobody stops steering, and nobody begins while another holds the lock; a
\* drain lets go of the lock only when its database call fails.
Persistent ==
  /\ \A i \in Inputs : steering[i] => steering'[i]
  /\ lock # Free /\ lock' = lock => steering' = steering
  /\ lock.use = "drain" => lock' = lock \/ "drain" \in Faults

LEMMA CalmIsPersistent ==
  ASSUME FlagInv, PlaceInv, NEW i \in Inputs,
         \/ ReserveWaitingWork(i) \/ ReleaseWaitingWork(i) \/ SubmitReturns(i) \/ AbandonWaiter(i)
         \/ RemoveAbandoned(i) \/ User(i) \/ Removes(i) \/ Edits(i) \/ Steers(i) \/ ClearGoesOn(i)
         \/ RunStep(i) \/ ExecutorStops(i) \/ Steering(i)
  PROVE  Persistent
<1> USE DEF Persistent, FlagInv, FlagTypes, itemVars
<1>1. CASE \/ ReserveWaitingWork(i) \/ ReleaseWaitingWork(i) \/ SubmitReturns(i) \/ AbandonWaiter(i)
           \/ RemoveAbandoned(i)
  BY <1>1 DEF ReserveWaitingWork, ReleaseWaitingWork, SubmitReturns, AbandonWaiter, RemoveAbandoned
<1>2. CASE User(i)
  <2>1. CASE RemoveBegins(i)
    BY <2>1 DEF RemoveBegins, Free
  <2>2. CASE EditBegins(i)
    BY <2>2 DEF EditBegins, Free
  <2>3. CASE SteerBegins(i)
    <3>1. lock = Free /\ (steering' = steering \/ steering' = [steering EXCEPT ![i] = TRUE])
      BY <2>3 DEF SteerBegins
    <3> QED BY <3>1 DEF Free
  <2>4. CASE RequestCancel(i)
    BY <2>4 DEF RequestCancel
  <2> QED BY <1>2, <2>1, <2>2, <2>3, <2>4 DEF User
<1>3. CASE Removes(i) \/ Edits(i) \/ ClearGoesOn(i)
  BY <1>3 DEF Removes, Edits, ClearGoesOn
<1>4. CASE Steers(i)
  <2>1. \/ steering' = steering
        \/ \E b \in BOOLEAN : (steering[i] => b) /\ steering' = [steering EXCEPT ![i] = b]
    <3>1. (steering[i] \/ Queued(i)) \in BOOLEAN
      OBVIOUS
    <3> QED BY <1>4, <3>1 DEF Steers
  <2>2. lock.use = "steer" /\ lock' = Free
    BY <1>4 DEF Steers
  <2> QED BY <2>1, <2>2 DEF Free
<1>5. CASE RunStep(i) \/ ExecutorStops(i)
  BY <1>5 DEF RunStep, ExecutorStops, AdmitCommits, AdmitFails, WriteInput, CleanupEnds, FinishCommits,
     FinishFails, MarkTerminal, ExecutorEnds
<1>6. CASE Steering(i)
  BY <1>6 DEF Steering, Boundary, AppendCommits, AppendFails
<1> QED BY <1>1, <1>2, <1>3, <1>4, <1>5, <1>6

LEMMA ManagerIsPersistent ==
  ASSUME (\E s \in Sessions : ClearBegins(s)) \/ LockedCallFails \/ Aclose
  PROVE  Persistent
<1> USE DEF Persistent, itemVars
<1>1. CASE \E s \in Sessions : ClearBegins(s)
  BY <1>1 DEF ClearBegins, Free
<1>2. CASE LockedCallFails
  BY <1>2 DEF LockedCallFails
<1>3. CASE Aclose
  BY <1>3 DEF Aclose
<1> QED BY <1>1, <1>2, <1>3

LEMMA CalmKeepsOrder == ASSUME PlaceInv, OrderInv, Calm, Persistent PROVE OrderInv'
<1> USE DEF Calm, QueuesShrink, RunsGoOn, KnownStay, Persistent
<1>1. \A i, j \in Inputs : Earlier(i, j)' <=> Earlier(i, j)
  BY DEF Earlier
<1>2. \A s \in Sessions : \A i, j \in Inputs :
        Before(queue'[s], i, j) /\ ~steering'[i] /\ ~steering'[j] => Earlier(i, j)'
  BY <1>1 DEF OrderInv
<1>3. ASSUME lock'.use = "drain", NEW i \in Inputs, NEW j \in Inputs,
             Before(queue'[lock'.session], i, j), steering'[j]
      PROVE  steering'[i]
  <2>1. lock' = lock /\ lock.use = "drain" /\ steering' = steering
    BY <1>3 DEF LockCalm, LockedBy, Free
  <2>2. lock.session \in Sessions
    BY <2>1, SessionsOfInputs DEF PlaceInv, MemoryTypes, LockedBy, Free
  <2> QED BY <1>3, <2>1, <2>2 DEF OrderInv
<1>4. NoOvertaking'
  <2>1. \A i \in Inputs : Queued(i)' => Queued(i)
    BY SessionsOfInputs DEF Queued
  <2> QED BY <1>1, <2>1 DEF OrderInv, NoOvertaking
<1> QED BY <1>2, <1>3, <1>4 DEF OrderInv

LEMMA InstallKeepsOrder ==
  ASSUME Inv, PlaceInv, OrderInv, NEW i \in Inputs, Installs(i),
         \A j \in Inputs \ {i} : steering'[j] = steering[j]
  PROVE  OrderInv'
<1>1. /\ ~Arrived(i) /\ lock' = Free /\ queue' = queue /\ queue[SessionOf[i]] = <<>>
      /\ \A j \in Inputs \ {i} : phase'[j] = phase[j]
      /\ \A s \in Sessions : i \notin ToSet(queue[s]) /\ queue[s] \in Seq(Inputs)
  BY NewInputs DEF Installs, Accepted, Idle, Inv, ControlTypes, PlaceInv, MemoryTypes
<1>2. \A j, k \in Inputs : Earlier(j, k)' <=> Earlier(j, k) \/ (Arrived(j) /\ k = i)
  BY Appended DEF Installs, Accepted, PlaceInv, MemoryTypes, Earlier, Arrived
<1>3. \A s \in Sessions : \A j, k \in Inputs : Before(queue[s], j, k) => j # i /\ k # i
  BY <1>1, Places
<1>4. \A s \in Sessions : \A j, k \in Inputs :
        Before(queue'[s], j, k) /\ ~steering'[j] /\ ~steering'[k] => Earlier(j, k)'
  BY <1>1, <1>2, <1>3 DEF OrderInv
<1>5. NoOvertaking'
  <2> SUFFICES ASSUME NEW j \in Inputs, NEW k \in Inputs, SessionOf[j] = SessionOf[k], Earlier(j, k)',
                      Queued(j)', ~steering'[k]
               PROVE  phase'[k] = "none"
    BY DEF NoOvertaking
  <2>1. Queued(j) /\ j # i
    BY <1>1, SessionsOfInputs DEF Queued
  <2>2. ToSet(<<>>) = {}
    BY DEF ToSet
  <2>3. k # i
    BY <1>1, <2>1, <2>2 DEF Queued
  <2> QED BY <1>1, <1>2, <2>1, <2>3 DEF OrderInv, NoOvertaking
<1> QED BY <1>1, <1>4, <1>5 DEF OrderInv, Free

LEMMA JoinKeepsOrder ==
  ASSUME Inv, PlaceInv, OrderInv, NEW i \in Inputs, Joins(i),
         \A j \in Inputs \ {i} : steering'[j] = steering[j]
  PROVE  OrderInv'
<1> DEFINE s == SessionOf[i]
           q == Append(queue[s], i)
<1>1. /\ ~Arrived(i) /\ lock' = Free /\ phase' = phase /\ phase[i] = "none" /\ s \in Sessions
      /\ \A t \in Sessions : i \notin ToSet(queue[t]) /\ queue[t] \in Seq(Inputs)
  BY NewInputs, SessionsOfInputs DEF Joins, Accepted, PlaceInv, MemoryTypes
<1>2. \A j, k \in Inputs : Earlier(j, k)' <=> Earlier(j, k) \/ (Arrived(j) /\ k = i)
  BY Appended DEF Joins, Accepted, PlaceInv, MemoryTypes, Earlier, Arrived
<1>3. \A t \in Sessions : \A j, k \in Inputs : Before(queue[t], j, k) => j # i /\ k # i
  BY <1>1, Places
<1>4. /\ ToSet(q) = ToSet(queue[s]) \cup {i}
      /\ \A j, k \in Inputs :
           Before(q, j, k) <=> Before(queue[s], j, k) \/ (j \in ToSet(queue[s]) /\ k = i)
  BY <1>1, Appended
<1>5. queue'[s] = q /\ \A t \in Sessions : t # s => queue'[t] = queue[t]
  BY <1>1 DEF Joins, PlaceInv, MemoryTypes
<1> HIDE DEF q
<1>6. ASSUME NEW t \in Sessions, NEW j \in Inputs, NEW k \in Inputs,
             Before(queue'[t], j, k), ~steering'[j], ~steering'[k]
      PROVE  Earlier(j, k)'
  <2>1. CASE Before(queue[t], j, k)
    BY <1>2, <1>3, <1>6, <2>1 DEF OrderInv
  <2>2. CASE ~Before(queue[t], j, k)
    <3>1. t = s /\ j \in ToSet(queue[s]) /\ k = i
      BY <1>4, <1>5, <1>6, <2>2
    <3>2. Arrived(j)
      BY <1>1, <3>1 DEF PlaceInv, KnownOnceAccepted, WaitersWait, Queued
    <3> QED BY <1>2, <3>1, <3>2
  <2> QED BY <2>1, <2>2
<1>7. NoOvertaking'
  <2> SUFFICES ASSUME NEW j \in Inputs, NEW k \in Inputs, SessionOf[j] = SessionOf[k], Earlier(j, k)',
                      Queued(j)', ~steering'[k]
               PROVE  phase'[k] = "none"
    BY DEF NoOvertaking
  <2>1. CASE k = i
    BY <1>1, <2>1
  <2>2. CASE k # i
    <3>1. Earlier(j, k) /\ Arrived(j)
      BY <1>2, <2>2, Places DEF Earlier, Arrived, PlaceInv, MemoryTypes
    <3>2. Queued(j)
      BY <1>1, <1>4, <1>5, <3>1, SessionsOfInputs DEF Queued
    <3> QED BY <1>1, <2>2, <3>1, <3>2 DEF OrderInv, NoOvertaking
  <2> QED BY <2>1, <2>2
<1> QED BY <1>1, <1>6, <1>7 DEF OrderInv, Free

\* A drain over a Queue in order starts the one that nobody precedes.
InOrder(q) ==
  /\ \A i, j \in Inputs : Before(q, i, j) /\ steering[j] => steering[i]
  /\ \A i, j \in Inputs : Before(q, i, j) /\ ~steering[i] => Earlier(i, j)

LEMMA DrainKeepsOrder ==
  ASSUME Inv, PlaceInv, OrderInv, NEW s \in Sessions, NEW q \in Seq(Inputs), NEW refused,
         ToSet(q) \subseteq ToSet(queue[s]), InOrder(q), Drain(s, q, refused),
         steering' = steering, arrivals' = arrivals
  PROVE  OrderInv'
<1>1. PICK k, rest : DrainsTo(s, q, k, rest) /\ (DrainStarts(s, q, k) \/ DrainRefuses(s, q, k))
  BY DrainEffect
<1>2. /\ rest \in Seq(Inputs) /\ ToSet(rest) \subseteq ToSet(queue[s])
      /\ \A i, j \in Inputs : Before(rest, i, j) => Before(q, i, j)
      /\ k =< Len(q) => /\ q[k] \in Inputs /\ SessionOf[q[k]] = s
                        /\ \A j \in ToSet(rest) : Before(q, q[k], j)
  <2>1. k \in 1..(Len(q) + 1) /\ rest = SubSeq(q, k + 1, Len(q))
    BY <1>1 DEF DrainsTo
  <2>2. /\ rest \in Seq(Inputs) /\ ToSet(rest) \subseteq ToSet(q)
        /\ \A i, j \in Inputs : Before(rest, i, j) => Before(q, i, j)
        /\ \A m \in 1..k : \A j \in ToSet(rest) : Before(q, q[m], j)
    BY <2>1, RestAfter
  <2>3. k =< Len(q) => q[k] \in Inputs /\ q[k] \in ToSet(q)
    BY <2>1, Places
  <2>4. k \in 1..k
    BY <2>1
  <2> QED BY <2>1, <2>2, <2>3, <2>4 DEF PlaceInv, WaitersWait
<1>3. queue'[s] = rest /\ \A t \in Sessions : t # s => queue'[t] = queue[t]
  BY <1>1 DEF DrainsTo, PlaceInv, MemoryTypes
<1>4. \A i, j \in Inputs : Earlier(i, j)' <=> Earlier(i, j)
  BY DEF Earlier
<1>5. ASSUME NEW t \in Sessions, NEW i \in Inputs, NEW j \in Inputs,
             Before(queue'[t], i, j), ~steering[i], ~steering[j]
      PROVE  Earlier(i, j)
  <2>1. CASE t = s
    BY <1>2, <1>3, <1>5, <2>1 DEF InOrder
  <2>2. CASE t # s
    BY <1>3, <1>5, <2>2 DEF OrderInv
  <2> QED BY <2>1, <2>2
<1>6. ASSUME lock'.use = "drain", NEW i \in Inputs, NEW j \in Inputs,
             Before(queue'[lock'.session], i, j), steering[j]
      PROVE  steering[i]
  <2>1. k =< Len(q) /\ lock' = Holds("drain", q[k], <<>>)
    BY <1>1, <1>6 DEF DrainStarts, DrainRefuses, Free
  <2>2. lock'.session = s
    BY <1>2, <2>1 DEF Holds
  <2>3. Before(rest, i, j)
    BY <1>3, <1>6, <2>2
  <2>4. Before(q, i, j)
    BY <1>2, <2>3
  <2> QED BY <1>6, <2>4, Zenon DEF InOrder
<1>7. ASSUME NEW i \in Inputs, NEW j \in Inputs, SessionOf[i] = SessionOf[j], Earlier(i, j),
             Queued(i)', ~steering[j]
      PROVE  phase'[j] = "none"
  <2>1. Queued(i)
    BY <1>2, <1>3, <1>7, SessionsOfInputs DEF Queued
  <2>2. phase[j] = "none"
    BY <1>7, <2>1 DEF OrderInv, NoOvertaking
  <2>3. CASE k =< Len(q) /\ j = q[k]
    <3>1. i \in ToSet(rest)
      BY <1>2, <1>3, <1>7, <2>3 DEF Queued
    <3>2. Before(q, j, i)
      BY <1>2, <2>3, <3>1
    <3>3. Before(arrivals, j, i) /\ Before(arrivals, i, j)
      BY <1>7, <3>2, Zenon DEF InOrder, Earlier
    <3> QED BY <3>3, OrderIsStrict DEF PlaceInv, MemoryTypes, KnownOnceAccepted
  <2>4. CASE ~(k =< Len(q) /\ j = q[k])
    BY <1>1, <2>2, <2>4 DEF DrainStarts, DrainRefuses
  <2> QED BY <2>3, <2>4
<1> QED BY <1>4, <1>5, <1>6, <1>7 DEF OrderInv, NoOvertaking

LEMMA ReleaseKeepsOrder ==
  ASSUME Inv, PlaceInv, FlagInv, OrderInv, NEW i \in Inputs, Release(i)
  PROVE  OrderInv'
<1> DEFINE s == SessionOf[i]
<1>1. /\ s \in Sessions /\ phase[i] = "releasing" /\ lock = Free /\ steering' = steering
      /\ arrivals' = arrivals /\ queue[s] \in Seq(Inputs)
  BY SessionsOfInputs DEF Release, PlaceInv, MemoryTypes
<1>2. CASE closed
  <2>1. /\ phase' = [phase EXCEPT ![i] = "over"] /\ queue' = [queue EXCEPT ![s] = <<>>] /\ lock' = lock
    BY <1>2 DEF Release
  <2>2. ToSet(<<>>) = {} /\ \A j, k \in Inputs : ~Before(<<>>, j, k)
    BY DEF ToSet, Before
  <2>3. /\ \A t \in Sessions : \A j, k \in Inputs : Before(queue'[t], j, k) => Before(queue[t], j, k)
        /\ \A j \in Inputs : Queued(j)' => Queued(j)
    BY <2>1, <2>2, SessionsOfInputs DEF PlaceInv, MemoryTypes, Queued
  <2>4. \A j \in Inputs : phase[j] = "none" => phase'[j] = "none"
    BY <1>1, <2>1 DEF Inv, ControlTypes
  <2>5. \A j, k \in Inputs : Earlier(j, k)' <=> Earlier(j, k)
    BY <1>1 DEF Earlier
  <2> QED BY <1>1, <2>1, <2>3, <2>4, <2>5 DEF OrderInv, NoOvertaking, Free
<1>3. CASE ~closed
  <2> DEFINE q == SteeringFirst(queue[s], steering)
  <2>1. PICK refused : Drain(s, q, refused)
    BY <1>3 DEF Release
  <2>2. /\ q \in Seq(Inputs) /\ ToSet(q) = ToSet(queue[s])
        /\ \A j, k \in Inputs :
              Before(q, j, k) =>
                \/ steering[j] /\ ~steering[k] /\ j \in ToSet(queue[s]) /\ k \in ToSet(queue[s])
                \/ (steering[j] <=> steering[k]) /\ Before(queue[s], j, k)
    BY <1>1, SteeringFirstSorts DEF FlagInv, FlagTypes
  <2> HIDE DEF q, s
  <2>3. InOrder(q)
    <3> SUFFICES ASSUME NEW j \in Inputs, NEW k \in Inputs, Before(q, j, k)
                 PROVE  (steering[k] => steering[j]) /\ (~steering[j] => Earlier(j, k))
      BY Zenon DEF InOrder
    <3>1. \/ steering[j] /\ ~steering[k]
          \/ (steering[j] <=> steering[k]) /\ Before(queue[s], j, k)
      BY <2>2, Zenon
    <3>2. Before(queue[s], j, k) /\ ~steering[j] /\ ~steering[k] => Earlier(j, k)
      BY <1>1 DEF OrderInv
    <3> QED BY <3>1, <3>2, Zenon
  <2> QED BY <1>1, <2>1, <2>2, <2>3, DrainKeepsOrder
<1> QED BY <1>2, <1>3

LEMMA DrainGoesOnKeepsOrder ==
  ASSUME Inv, PlaceInv, OrderInv, NEW i \in Inputs, DrainGoesOn(i)
  PROVE  OrderInv'
<1> DEFINE s == SessionOf[i]
<1>1. /\ s \in Sessions /\ lock.use = "drain" /\ lock.item = i /\ steering' = steering
      /\ arrivals' = arrivals /\ queue[s] \in Seq(Inputs)
  BY SessionsOfInputs DEF DrainGoesOn, PlaceInv, MemoryTypes
<1>2. lock.session = s
  BY <1>1 DEF PlaceInv, MemoryTypes, LockedBy, Free
<1>3. PICK refused : Drain(s, queue[s], refused)
  BY DEF DrainGoesOn
<1> HIDE DEF s
<1>4. InOrder(queue[s])
  <2>1. \A j, k \in Inputs : Before(queue[s], j, k) /\ steering[k] => steering[j]
    BY <1>1, <1>2, Zenon DEF OrderInv
  <2>2. \A j, k \in Inputs : Before(queue[s], j, k) /\ ~steering[j] /\ ~steering[k] => Earlier(j, k)
    BY <1>1, Zenon DEF OrderInv
  <2> QED BY <2>1, <2>2, Zenon DEF InOrder
<1> QED BY <1>1, <1>3, <1>4, DrainKeepsOrder

LEMMA RestartKeepsOrder ==
  ASSUME Inv, PlaceInv, FlagInv, OrderInv, Restart
  PROVE  OrderInv'
<1> DEFINE first(i) == Restored(SessionOf[i]) # <<>> /\ i = Head(Restored(SessionOf[i]))
<1>1. /\ ~up /\ UNCHANGED <<lock, arrivals>>
      /\ queue' = [s \in Sessions |-> IF Restored(s) = <<>> THEN <<>> ELSE Tail(Restored(s))]
      /\ phase' = [i \in Inputs |-> IF first(i) THEN "admitting" ELSE "none"]
      /\ steering' = [i \in Inputs |-> receipt[i] = "queued" /\ wantsSteering[i]]
  BY Zenon DEF Restart
<1> HIDE DEF first
<1>2. lock = Free
  BY <1>1 DEF PlaceInv, NothingWhileDown
<1>3. ToSet(<<>>) = {} /\ \A j, k \in Inputs : ~Before(<<>>, j, k)
  BY DEF ToSet, Before
<1>4. \A j, k \in Inputs : Earlier(j, k)' <=> Earlier(j, k)
  BY <1>1 DEF Earlier
\* Two inputs of a Session that are both restored, neither of them steered.
<1>5. ASSUME NEW s \in Sessions, NEW i \in Inputs, NEW j \in Inputs, Before(Restored(s), i, j),
             ~steering'[i], ~steering'[j]
      PROVE  Earlier(i, j)
  <2>1. /\ Restored(s) \in Seq(Inputs)
        /\ ToSet(Restored(s)) =
             ToSet(arrivals) \cap {k \in Inputs : SessionOf[k] = s /\ receipt[k] = "queued"}
    BY RestoredOnce DEF FlagInv, FlagTypes
  <2>2. receipt[i] = "queued" /\ receipt[j] = "queued"
    BY <1>5, <2>1, Places
  <2>3. ~wantsSteering[i] /\ ~wantsSteering[j]
    BY <1>1, <1>5, <2>2
  <2>4. \/ wantsSteering[i] /\ ~wantsSteering[j]
        \/ (wantsSteering[i] <=> wantsSteering[j]) /\ Before(arrivals, i, j)
    <3>1. wantsSteering \in [Inputs -> BOOLEAN]
      BY DEF FlagInv, FlagTypes
    <3> QED BY <1>5, <3>1, RestoredOnce, Zenon
  <2> QED BY <2>3, <2>4, Zenon DEF Earlier
\* A steered one restored behind another means that the other was steered, too.
<1>6. ASSUME NEW s \in Sessions, NEW i \in Inputs, NEW j \in Inputs, Before(Restored(s), i, j),
             ~steering'[i]
      PROVE  ~steering'[j]
  <2>1. /\ Restored(s) \in Seq(Inputs)
        /\ ToSet(Restored(s)) =
             ToSet(arrivals) \cap {k \in Inputs : SessionOf[k] = s /\ receipt[k] = "queued"}
    BY RestoredOnce DEF FlagInv, FlagTypes
  <2>2. receipt[i] = "queued" /\ receipt[j] = "queued"
    BY <1>6, <2>1, Places
  <2>3. ~wantsSteering[i]
    BY <1>1, <1>6, <2>2
  <2>4. \/ wantsSteering[i] /\ ~wantsSteering[j]
        \/ (wantsSteering[i] <=> wantsSteering[j]) /\ Before(arrivals, i, j)
    <3>1. wantsSteering \in [Inputs -> BOOLEAN]
      BY DEF FlagInv, FlagTypes
    <3> QED BY <1>6, <3>1, RestoredOnce, Zenon
  <2>5. ~wantsSteering[j]
    BY <2>3, <2>4, Zenon
  <2> QED BY <1>1, <2>5
<1>7. ASSUME NEW s \in Sessions
      PROVE  /\ Restored(s) \in Seq(Inputs)
             /\ \A i, j \in Inputs : Before(queue'[s], i, j) => Before(Restored(s), i, j)
             /\ \A i \in ToSet(queue'[s]) : \A j \in Inputs :
                  SessionOf[j] = s /\ first(j) => Before(Restored(s), j, i)
  <2> DEFINE q == Restored(s)
  <2>1. q \in Seq(Inputs)
    BY RestoredOnce DEF FlagInv, FlagTypes
  <2>2. CASE q = <<>>
    BY <1>1, <1>3, <2>1, <2>2
  <2>3. CASE q # <<>>
    <3>1. queue'[s] = Tail(q) /\ \A j \in Inputs : SessionOf[j] = s /\ first(j) => j = Head(q)
      BY <1>1, <2>3 DEF first
    <3> HIDE DEF q
    <3>2. /\ \A i, j \in Inputs : Before(Tail(q), i, j) => Before(q, i, j)
          /\ \A j \in ToSet(Tail(q)) : Before(q, Head(q), j)
      BY <2>1, <2>3, HeadFirst
    <3>3. q = Restored(s)
      BY DEF q
    <3> QED BY <2>1, <3>1, <3>2, <3>3
  <2> QED BY <2>2, <2>3
<1>8. NoOvertaking'
  <2> SUFFICES ASSUME NEW i \in Inputs, NEW j \in Inputs, SessionOf[i] = SessionOf[j], Earlier(i, j),
                      Queued(i)', ~steering'[j], first(j)
               PROVE  FALSE
    BY <1>1, <1>4 DEF NoOvertaking
  <2> DEFINE s == SessionOf[j]
  <2>1. s \in Sessions /\ i \in ToSet(queue'[s])
    BY SessionsOfInputs DEF Queued
  <2>2. Before(Restored(s), j, i)
    BY <1>7, <2>1
  <2>3. Earlier(j, i)
    BY <1>5, <1>6, <2>1, <2>2
  <2> QED BY <2>3, OrderIsStrict DEF PlaceInv, MemoryTypes, KnownOnceAccepted, Earlier
<1> QED BY <1>1, <1>2, <1>4, <1>5, <1>7, <1>8 DEF OrderInv, Free

LEMMA NextKeepsOrder ==
  ASSUME Inv, PlaceInv, FlagInv, OrderInv, Next PROVE OrderInv'
<1>1. ASSUME NEW i \in Inputs, Producer(i) \/ SubmitReturns(i) \/ RemoveAbandoned(i) PROVE OrderInv'
  <2>1. CASE \/ ReserveWaitingWork(i) \/ ReleaseWaitingWork(i) \/ SubmitReturns(i)
             \/ AbandonWaiter(i) \/ RemoveAbandoned(i)
    BY <2>1, ProducerIsCalm, CalmIsPersistent, CalmKeepsOrder
  <2>2. CASE EnqueueStarts(i)
    <3>1. \A j \in Inputs \ {i} : steering'[j] = steering[j]
      BY <2>2 DEF EnqueueStarts, FlagInv, FlagTypes
    <3> QED BY <2>2, <3>1, EnqueueInstalls, InstallKeepsOrder
  <2>3. CASE EnqueueWaits(i)
    <3>1. \A j \in Inputs \ {i} : steering'[j] = steering[j]
      BY <2>3 DEF EnqueueWaits, FlagInv, FlagTypes
    <3> QED BY <2>3, <3>1, EnqueueJoins, JoinKeepsOrder
  <2>4. CASE AcceptBegins(i)
    <3>1. /\ UNCHANGED <<queue, steering, phase, arrivals>>
          /\ lock'.use \in {"accept_start", "accept_queue"}
      BY <2>4 DEF AcceptBegins, runVars, Holds
    <3> QED BY <3>1 DEF OrderInv, NoOvertaking, Earlier, Queued
  <2> QED BY <1>1, <2>1, <2>2, <2>3, <2>4 DEF Producer
<1>2. ASSUME NEW i \in Inputs, User(i) \/ LockHolder(i) PROVE OrderInv'
  <2>1. CASE User(i) \/ Removes(i) \/ Edits(i) \/ Steers(i)
    BY <2>1, UserIsCalm, CalmIsPersistent, CalmKeepsOrder
  <2>2. CASE ClearGoesOn(i)
    BY <2>2, ClearIsCalm, CalmIsPersistent, CalmKeepsOrder
  <2>3. CASE AcceptStarts(i)
    <3>1. \A j \in Inputs \ {i} : steering'[j] = steering[j]
      BY <2>3 DEF AcceptStarts, Accepts, FlagInv, FlagTypes
    <3> QED BY <2>3, <3>1, AcceptInstalls, InstallKeepsOrder
  <2>4. CASE AcceptWaits(i)
    <3>1. \A j \in Inputs \ {i} : steering'[j] = steering[j]
      BY <2>4 DEF AcceptWaits, Accepts, FlagInv, FlagTypes
    <3> QED BY <2>4, <3>1, AcceptJoins, JoinKeepsOrder
  <2> QED BY <1>2, <2>1, <2>2, <2>3, <2>4, DrainGoesOnKeepsOrder DEF LockHolder
<1>3. ASSUME NEW i \in Inputs, RunStep(i) \/ ExecutorStops(i) PROVE OrderInv'
  BY <1>3, RunStepIsCalm, CalmIsPersistent, CalmKeepsOrder
<1>4. ASSUME NEW i \in Inputs, Steering(i) PROVE OrderInv'
  <2>1. append[i] \in Inputs \cup {None} /\ (phase[i] = "executing" \/ append[i] = None)
    BY DEF FlagInv, FlagTypes, AppendsAreInFlight
  <2> QED BY <1>4, <2>1, DeliveryIsCalm, CalmIsPersistent, CalmKeepsOrder
<1>5. CASE (\E s \in Sessions : ClearBegins(s)) \/ LockedCallFails \/ Aclose
  BY <1>5, ClearIsCalm, ManagerIsCalm, ManagerIsPersistent, CalmKeepsOrder
<1>6. CASE Crash
  <2>1. \A j, k \in Inputs : ~Before(<<>>, j, k)
    BY DEF Before
  <2> QED BY <1>6, <2>1 DEF Crash, OrderInv, NoOvertaking, Free
<1> QED BY <1>1, <1>2, <1>3, <1>4, <1>5, <1>6, ReleaseKeepsOrder, RestartKeepsOrder DEF Next

LEMMA OrderInvariant == Spec => [](Inv /\ PlaceInv /\ FlagInv /\ OrderInv)
<1>1. Init => OrderInv
  <2>1. \A j, k \in Inputs : ~Before(<<>>, j, k)
    BY DEF Before
  <2> QED BY <2>1 DEF Init, OrderInv, NoOvertaking, Earlier, Free
<1>2. Inv /\ PlaceInv /\ FlagInv /\ OrderInv /\ [Next]_vars => OrderInv'
  <2>1. ASSUME OrderInv, UNCHANGED vars PROVE OrderInv'
    BY <2>1 DEF OrderInv, NoOvertaking, Earlier, Queued, vars, itemVars, runVars
  <2> QED BY <2>1, NextKeepsOrder
<1> QED BY <1>1, <1>2, QueueInvariant, PTL DEF Spec

\* Input does not overtake: drain and the restore after a restart keep the order
\* of acceptance among what nobody steered, and enqueue waits behind a Queue.
THEOREM NobodyOvertakes == Spec => []NoOvertaking
<1>1. OrderInv => NoOvertaking
  BY DEF OrderInv
<1> QED BY <1>1, OrderInvariant, PTL

-----------------------------------------------------------------------------
(* Who will drain a Queue, if no failed removal ends a drain. *)

ServedInv ==
  /\ up => \A s \in Sessions :
       queue[s] # <<>> => active[s] # None \/ (lock.use = "drain" /\ lock.session = s)
  /\ lock.use = "accept_queue" => active[lock.session] # None

LEMMA CalmKeepsServed ==
  ASSUME PlaceInv, ServedInv, Calm, Persistent, "drain" \notin Faults PROVE ServedInv'
<1> USE DEF Calm, QueuesShrink, Persistent
<1>1. \A s \in Sessions : queue'[s] # <<>> => queue[s] # <<>>
  BY EmptyQueue
<1>2. lock'.use = "accept_queue" => lock' = lock
  BY DEF LockCalm, LockedBy, Free
<1> QED BY <1>1, <1>2 DEF ServedInv

LEMMA InstallKeepsServed ==
  ASSUME PlaceInv, ServedInv, NEW i \in Inputs, Installs(i), lock.use # "drain" PROVE ServedInv'
<1>1. /\ queue' = queue /\ lock' = Free /\ up
      /\ \A s \in Sessions : active'[s] = i \/ active'[s] = active[s]
  BY DEF Installs, Accepted, PlaceInv, MemoryTypes
<1> QED BY <1>1, SessionsOfInputs DEF ServedInv, Free

LEMMA JoinKeepsServed ==
  ASSUME PlaceInv, ServedInv, NEW i \in Inputs, Joins(i), lock.use # "drain",
         active[SessionOf[i]] # None
  PROVE  ServedInv'
<1>1. /\ active' = active /\ lock' = Free /\ up
      /\ \A s \in Sessions : s # SessionOf[i] => queue'[s] = queue[s]
  BY DEF Joins, Accepted, PlaceInv, MemoryTypes
<1> QED BY <1>1 DEF ServedInv, Free

LEMMA DrainKeepsServed ==
  ASSUME PlaceInv, ServedInv, up, NEW s \in Sessions, NEW q \in Seq(Inputs), NEW refused,
         ToSet(q) \subseteq ToSet(queue[s]), Drain(s, q, refused),
         lock = Free \/ (lock.use = "drain" /\ lock.session = s)
  PROVE  ServedInv'
<1>1. PICK k, rest : DrainsTo(s, q, k, rest) /\ (DrainStarts(s, q, k) \/ DrainRefuses(s, q, k))
  BY DrainEffect
<1>2. /\ k \in 1..(Len(q) + 1) /\ rest = SubSeq(q, k + 1, Len(q)) /\ Len(q) \in Nat
      /\ \A n \in 1..Len(q) : q[n] \in Inputs /\ SessionOf[q[n]] = s
  BY <1>1, Places DEF DrainsTo, PlaceInv, WaitersWait
<1>3. queue'[s] = rest /\ \A t \in Sessions : t # s => queue'[t] = queue[t]
  BY <1>1 DEF DrainsTo, PlaceInv, MemoryTypes
<1>4. \A t \in Sessions : t # s => active'[t] = active[t] /\ (queue[t] # <<>> => active[t] # None)
  BY <1>1 DEF DrainStarts, DrainRefuses, PlaceInv, MemoryTypes, ServedInv, Free
<1>5. CASE DrainStarts(s, q, k)
  <2>1. active'[s] = q[k] /\ q[k] # None /\ lock' = Free
    BY <1>2, <1>5, SessionsOfInputs DEF DrainStarts, PlaceInv, MemoryTypes
  <2> QED BY <1>3, <1>4, <2>1 DEF ServedInv, Free
<1>6. CASE DrainRefuses(s, q, k)
  <2>1. CASE k =< Len(q) /\ lock' = Holds("drain", q[k], <<>>)
    <3>1. lock'.use = "drain" /\ lock'.session = s
      BY <1>2, <2>1 DEF Holds
    <3> QED BY <1>3, <1>4, <3>1 DEF ServedInv
  <2>2. CASE k = Len(q) + 1 /\ lock' = Free
    <3>1. rest = <<>>
      BY <1>2, <2>2
    <3> QED BY <1>3, <1>4, <2>2, <3>1 DEF ServedInv, Free
  <2> QED BY <1>6, <2>1, <2>2 DEF DrainRefuses
<1> QED BY <1>1, <1>5, <1>6

LEMMA ReleaseKeepsServed ==
  ASSUME PlaceInv, FlagInv, ServedInv, NEW i \in Inputs, Release(i) PROVE ServedInv'
<1> DEFINE s == SessionOf[i]
<1>1. s \in Sessions /\ up /\ lock = Free /\ queue[s] \in Seq(Inputs)
  BY SessionsOfInputs DEF Release, PlaceInv, MemoryTypes
<1>2. CASE closed
  <2>1. /\ active' = [active EXCEPT ![s] = None] /\ queue' = [queue EXCEPT ![s] = <<>>] /\ lock' = lock
    BY <1>2 DEF Release
  <2> QED BY <1>1, <2>1 DEF ServedInv, PlaceInv, MemoryTypes, Free
<1>3. CASE ~closed
  <2> DEFINE q == SteeringFirst(queue[s], steering)
  <2>1. PICK refused : Drain(s, q, refused)
    BY <1>3 DEF Release
  <2>2. q \in Seq(Inputs) /\ ToSet(q) = ToSet(queue[s])
    BY <1>1, SteeringFirstSorts DEF FlagInv, FlagTypes
  <2> HIDE DEF q, s
  <2> QED BY <1>1, <2>1, <2>2, DrainKeepsServed
<1> QED BY <1>2, <1>3

LEMMA LockHolderKeepsServed ==
  ASSUME Inv, PlaceInv, FlagInv, ServedInv, NEW i \in Inputs, LockHolder(i), "drain" \notin Faults
  PROVE  ServedInv'
<1>1. CASE AcceptStarts(i)
  <2>1. lock.use # "drain"
    BY <1>1 DEF AcceptStarts
  <2> QED BY <1>1, <2>1, AcceptInstalls, InstallKeepsServed
<1>2. CASE AcceptWaits(i)
  <2>1. lock.use = "accept_queue" /\ lock.session = SessionOf[i]
    BY <1>2, AcceptanceIsAccepted DEF AcceptWaits
  <2>2. active[SessionOf[i]] # None
    BY <2>1 DEF ServedInv
  <2> QED BY <1>2, <2>1, <2>2, AcceptJoins, JoinKeepsServed
<1>3. CASE Removes(i) \/ Edits(i) \/ Steers(i)
  BY <1>3, UserIsCalm, CalmIsPersistent, CalmKeepsServed
<1>4. CASE ClearGoesOn(i)
  BY <1>4, ClearIsCalm, CalmIsPersistent, CalmKeepsServed
<1>5. CASE DrainGoesOn(i)
  <2>1. SessionOf[i] \in Sessions /\ queue[SessionOf[i]] \in Seq(Inputs) /\ up
    BY <1>5, SessionsOfInputs DEF PlaceInv, MemoryTypes, DrainGoesOn
  <2>2. lock.use = "drain" /\ lock.session = SessionOf[i]
    BY <1>5 DEF DrainGoesOn, PlaceInv, MemoryTypes, LockedBy, Free
  <2>3. PICK refused : Drain(SessionOf[i], queue[SessionOf[i]], refused)
    BY <1>5 DEF DrainGoesOn
  <2> QED BY <2>1, <2>2, <2>3, DrainKeepsServed
<1> QED BY <1>1, <1>2, <1>3, <1>4, <1>5 DEF LockHolder

LEMMA ProducerKeepsServed ==
  ASSUME Inv, PlaceInv, FlagInv, ServedInv, NEW i \in Inputs, "drain" \notin Faults,
         Producer(i) \/ SubmitReturns(i) \/ RemoveAbandoned(i)
  PROVE  ServedInv'
<1>1. CASE \/ ReserveWaitingWork(i) \/ ReleaseWaitingWork(i) \/ SubmitReturns(i)
           \/ AbandonWaiter(i) \/ RemoveAbandoned(i)
  BY <1>1, ProducerIsCalm, CalmIsPersistent, CalmKeepsServed
<1>2. CASE EnqueueStarts(i)
  <2>1. lock.use # "drain"
    BY <1>2 DEF EnqueueStarts, Admits, Free
  <2> QED BY <1>2, <2>1, EnqueueInstalls, InstallKeepsServed
\* Work waits because a Run is active: without one, nothing would wait.
<1>3. ASSUME up, lock = Free, ~Idle(SessionOf[i]) PROVE active[SessionOf[i]] # None
  BY <1>3, SessionsOfInputs DEF Idle, SessionBusy, ServedInv, Free
<1>4. CASE EnqueueWaits(i)
  <2>1. lock.use # "drain" /\ active[SessionOf[i]] # None
    BY <1>3, <1>4 DEF EnqueueWaits, Admits, Free
  <2> QED BY <1>4, <2>1, EnqueueJoins, JoinKeepsServed
<1>5. CASE AcceptBegins(i)
  <2>1. /\ UNCHANGED <<up, queue, active>> /\ up /\ lock = Free
        /\ \/ Idle(SessionOf[i]) /\ lock' = Holds("accept_start", i, <<>>)
           \/ ~Idle(SessionOf[i]) /\ lock' = Holds("accept_queue", i, <<>>)
    BY <1>5 DEF AcceptBegins, Admits, processVars
  <2>2. lock'.use = "accept_queue" => active[lock'.session] # None
    BY <1>3, <2>1 DEF Holds
  <2> QED BY <2>1, <2>2 DEF ServedInv, Free
<1> QED BY <1>1, <1>2, <1>4, <1>5 DEF Producer

LEMMA RestartKeepsServed == ASSUME PlaceInv, FlagInv, Restart PROVE ServedInv'
<1>1. /\ ~up /\ lock' = lock
      /\ active' = [s \in Sessions |-> IF Restored(s) = <<>> THEN None ELSE Head(Restored(s))]
      /\ queue' = [s \in Sessions |-> IF Restored(s) = <<>> THEN <<>> ELSE Tail(Restored(s))]
  BY Zenon DEF Restart
<1>2. \A s \in Sessions : Restored(s) # <<>> => Head(Restored(s)) # None
  BY RestoredOnce, HeadFirst, SessionsOfInputs DEF FlagInv, FlagTypes
<1>3. lock = Free
  BY <1>1 DEF PlaceInv, NothingWhileDown
<1> QED BY <1>1, <1>2, <1>3 DEF ServedInv, Free

LEMMA NextKeepsServed ==
  ASSUME Inv, PlaceInv, FlagInv, ServedInv, Next, "drain" \notin Faults PROVE ServedInv'
<1>1. ASSUME NEW i \in Inputs, User(i) PROVE ServedInv'
  BY <1>1, UserIsCalm, CalmIsPersistent, CalmKeepsServed
<1>2. ASSUME NEW i \in Inputs, RunStep(i) \/ ExecutorStops(i) PROVE ServedInv'
  BY <1>2, RunStepIsCalm, CalmIsPersistent, CalmKeepsServed
<1>3. ASSUME NEW i \in Inputs, Steering(i) PROVE ServedInv'
  <2>1. append[i] \in Inputs \cup {None} /\ (phase[i] = "executing" \/ append[i] = None)
    BY DEF FlagInv, FlagTypes, AppendsAreInFlight
  <2> QED BY <1>3, <2>1, DeliveryIsCalm, CalmIsPersistent, CalmKeepsServed
<1>4. CASE (\E s \in Sessions : ClearBegins(s)) \/ LockedCallFails \/ Aclose
  BY <1>4, ClearIsCalm, ManagerIsCalm, ManagerIsPersistent, CalmKeepsServed
<1>5. CASE Crash
  BY <1>5 DEF Crash, ServedInv, Free
<1> QED BY <1>1, <1>2, <1>3, <1>4, <1>5, ProducerKeepsServed, LockHolderKeepsServed, ReleaseKeepsServed,
     RestartKeepsServed DEF Next

\* A Queue with items always has someone who will drain it, provided that the
\* removal which _drain_next_locked awaits does not fail: that failure ends the
\* drain, and the rest of the Queue then waits behind no Run at all.
THEOREM QueuesAreServed == "drain" \notin Faults => (Spec => []QueueIsServed)
<1> SUFFICES ASSUME "drain" \notin Faults PROVE Spec => []QueueIsServed
  OBVIOUS
<1>1. Init => ServedInv
  BY DEF Init, ServedInv, Free
<1>2. Inv /\ PlaceInv /\ FlagInv /\ ServedInv /\ [Next]_vars => ServedInv'
  <2>1. ASSUME ServedInv, UNCHANGED vars PROVE ServedInv'
    BY <2>1 DEF ServedInv, vars, processVars
  <2> QED BY <2>1, NextKeepsServed
<1>3. PlaceInv /\ ServedInv => QueueIsServed
  BY DEF PlaceInv, SessionsNameRuns, ServedInv, QueueIsServed
<1> QED BY <1>1, <1>2, <1>3, QueueInvariant, PTL DEF Spec

-----------------------------------------------------------------------------
(* Where accepted durable input is, if no removal that the drain or an       *)
(* unadmitted Run awaits fails.                                              *)

Underway == {"admitting", "cleanup", "closing"}
WithdrawnInv ==
  /\ \A i \in Inputs : inflight[i] => Arrived(i)
  /\ \A i \in Durable : withdrawn[i] => Arrived(i) /\ receipt[i] # "queued"
HeldInv ==
  up /\ ~closed => \A i \in Durable :
    receipt[i] = "queued" =>
      Queued(i) \/ phase[i] \in Underway \/ (lock.use = "drain" /\ lock.item = i)

\* What a step that moves nobody does to the inputs whose receipt stays queued.
Keeps ==
  /\ \A i \in Durable : receipt'[i] = "queued" =>
       /\ receipt[i] = "queued" /\ (Queued(i) => Queued(i)')
       /\ phase[i] \in Underway => phase'[i] \in Underway
       /\ withdrawn'[i] => withdrawn[i]
  /\ \A i \in Inputs : (withdrawn'[i] => withdrawn[i] \/ inflight[i])
                       /\ (inflight'[i] => inflight[i] \/ Queued(i))

LEMMA KeepsWithdrawn == ASSUME PlaceInv, WithdrawnInv, Keeps, arrivals' = arrivals PROVE WithdrawnInv'
BY DurableInputs DEF WithdrawnInv, Keeps, PlaceInv, KnownOnceAccepted, Arrived

LEMMA KeepsHeld ==
  ASSUME PlaceInv, HeldInv, Calm, Persistent, Keeps, "drain" \notin Faults, closed' = closed
  PROVE  HeldInv'
BY DEF HeldInv, Keeps, Calm, Persistent

LEMMA WithdrawsOthers ==
  ASSUME PlaceInv, FlagInv, NEW s \in Sessions, NEW gone, NEW flag, Withdraws(s, gone, flag)
  PROVE  /\ \A i \in Inputs : i \notin gone =>
              (Queued(i) => Queued(i)') /\ (withdrawn'[i] => withdrawn[i])
         /\ \A i \in Inputs : withdrawn'[i] => withdrawn[i] \/ inflight[i]
<1> DEFINE leaving == {i \in gone : Queued(i) /\ ~inflight[i]}
<1>1. queue' = [queue EXCEPT ![s] = Without(@, leaving)]
  BY DEF Withdraws
<1>2. leaving \subseteq gone
  OBVIOUS
<1> HIDE DEF leaving
<1>3. /\ ToSet(queue'[s]) = ToSet(queue[s]) \ leaving
      /\ \A t \in Sessions \ {s} : queue'[t] = queue[t]
  BY <1>1, ItemsLeave DEF PlaceInv
<1>4. \A i \in Inputs : i \notin gone => (Queued(i) => Queued(i)')
  BY <1>2, <1>3, SessionsOfInputs DEF Queued
<1>5. \A i \in Inputs : withdrawn'[i] = (withdrawn[i] \/ (flag /\ i \in gone /\ inflight[i]))
  BY DEF Withdraws
<1>6. \A i \in Inputs : (i \notin gone => (withdrawn'[i] => withdrawn[i]))
                        /\ (withdrawn'[i] => withdrawn[i] \/ inflight[i])
  BY <1>5, Zenon
<1> QED BY <1>4, <1>6

LEMMA ProducerKeeps ==
  ASSUME Inv, PlaceInv, FutureInv, NEW i \in Inputs,
         \/ ReserveWaitingWork(i) \/ ReleaseWaitingWork(i) \/ SubmitReturns(i)
         \/ AbandonWaiter(i) \/ RemoveAbandoned(i)
  PROVE  Keeps
<1> USE DurableInputs DEF Keeps, Queued, itemVars, runVars, storeVars
<1>1. CASE ReserveWaitingWork(i)
  BY <1>1 DEF ReserveWaitingWork
<1>2. CASE ReleaseWaitingWork(i)
  BY <1>2 DEF ReleaseWaitingWork
<1>3. CASE SubmitReturns(i)
  BY <1>3 DEF SubmitReturns, Inv, TableTypes
<1>4. CASE AbandonWaiter(i)
  BY <1>4 DEF AbandonWaiter
<1>5. CASE RemoveAbandoned(i)
  <2>1. i \notin Durable
    BY <1>5, InputAssumption DEF RemoveAbandoned, FutureInv
  <2>2. \A j \in Inputs : j # i /\ Queued(j) => Queued(j)'
    <3>1. CASE queue' = queue
      BY <3>1
    <3>2. CASE queue' = [queue EXCEPT ![SessionOf[i]] = Without(@, {i})]
      <4>1. SessionOf[i] \in Sessions /\ MemoryTypes
        BY SessionsOfInputs DEF PlaceInv
      <4>2. /\ ToSet(queue'[SessionOf[i]]) = ToSet(queue[SessionOf[i]]) \ {i}
            /\ \A t \in Sessions \ {SessionOf[i]} : queue'[t] = queue[t]
        BY <3>2, <4>1, ItemsLeave
      <4> QED BY <4>2, SessionsOfInputs
    <3> QED BY <1>5, <3>1, <3>2 DEF RemoveAbandoned
  <2>3. UNCHANGED <<inflight, withdrawn, phase, receipt>>
    BY <1>5 DEF RemoveAbandoned
  <2> HIDE DEF Queued
  <2> QED BY <2>1, <2>2, <2>3
<1> QED BY <1>1, <1>2, <1>3, <1>4, <1>5

LEMMA UserKeeps ==
  ASSUME Inv, PlaceInv, FlagInv, NEW i \in Inputs, User(i) \/ Removes(i) \/ Edits(i) \/ Steers(i)
  PROVE  Keeps
<1> USE DurableInputs, SessionsOfInputs DEF Keeps, itemVars, runVars, storeVars
<1>1. CASE RemoveBegins(i)
  <2>1. UNCHANGED <<inflight, phase, receipt>>
    BY <1>1 DEF RemoveBegins
  <2>2. CASE i \in Durable
    BY <1>1, <2>1, <2>2 DEF RemoveBegins, Queued
  <2>3. CASE i \notin Durable
    <3>1. Withdraws(SessionOf[i], {i}, FALSE)
      BY <1>1, <2>3 DEF RemoveBegins
    <3>2. /\ \A j \in Inputs : j \notin {i} => (Queued(j) => Queued(j)') /\ (withdrawn'[j] => withdrawn[j])
          /\ \A j \in Inputs : withdrawn'[j] => withdrawn[j] \/ inflight[j]
      BY <3>1, WithdrawsOthers
    <3> QED BY <2>1, <2>3, <3>2
  <2> QED BY <2>2, <2>3
<1>2. CASE Removes(i)
  <2>1. /\ UNCHANGED <<inflight, phase>> /\ Withdraws(SessionOf[i], {i}, FALSE)
        /\ receipt'[i] # "queued" /\ \A j \in Inputs : j # i => receipt'[j] = receipt[j]
    BY <1>2 DEF Removes, Inv, TableTypes
  <2>2. /\ \A j \in Inputs : j \notin {i} => (Queued(j) => Queued(j)') /\ (withdrawn'[j] => withdrawn[j])
        /\ \A j \in Inputs : withdrawn'[j] => withdrawn[j] \/ inflight[j]
    BY <2>1, WithdrawsOthers
  <2> QED BY <2>1, <2>2
<1>3. CASE EditBegins(i) \/ SteerBegins(i)
  BY <1>3 DEF EditBegins, SteerBegins, Queued
<1>4. CASE RequestCancel(i)
  BY <1>4 DEF RequestCancel, Queued
<1>5. CASE Edits(i) \/ Steers(i)
  BY <1>5 DEF Edits, Steers, Queued
<1> QED BY <1>1, <1>2, <1>3, <1>4, <1>5 DEF User

LEMMA ClearsOthers ==
  ASSUME PlaceInv, FlagInv, NEW s \in Sessions, NEW gone, NEW rest \in Seq(Inputs),
         ClearsUpTo(s, gone, rest)
  PROVE  /\ \A i \in Durable : i \notin gone =>
              (Queued(i) => Queued(i)') /\ (withdrawn'[i] => withdrawn[i])
         /\ \A i \in Inputs : withdrawn'[i] => withdrawn[i] \/ inflight[i]
<1> DEFINE k == FirstIn(rest, Durable)
           all == gone \cup {rest[m] : m \in 1..(k - 1)}
<1>1. Withdraws(s, all, TRUE)
  BY DEF ClearsUpTo
<1>2. \A i \in Durable : i \in all => i \in gone
  <2>1. Len(rest) \in Nat
    OBVIOUS
  <2>2. \A m \in 1..(k - 1) : rest[m] \notin Durable
    BY <2>1, FirstInFound
  <2> QED BY <2>2
<1> HIDE DEF all
<1> QED BY <1>1, <1>2, WithdrawsOthers, DurableInputs

LEMMA ClearKeeps ==
  ASSUME Inv, PlaceInv, FlagInv,
         (\E s \in Sessions : ClearBegins(s)) \/ (\E i \in Inputs : ClearGoesOn(i))
  PROVE  Keeps
<1>1. ASSUME NEW s \in Sessions, ClearBegins(s) PROVE Keeps
  <2>1. UNCHANGED <<inflight, phase, receipt>> /\ ClearsUpTo(s, {}, queue[s])
    BY <1>1 DEF ClearBegins, runVars, storeVars
  <2> QED BY <2>1, ClearsOthers DEF Keeps, PlaceInv, MemoryTypes
<1>2. ASSUME NEW i \in Inputs, ClearGoesOn(i) PROVE Keeps
  <2>1. /\ UNCHANGED <<inflight, phase>> /\ ClearsUpTo(SessionOf[i], {i}, lock.rest)
        /\ receipt'[i] # "queued" /\ \A j \in Inputs : j # i => receipt'[j] = receipt[j]
    BY <1>2 DEF ClearGoesOn, runVars, Inv, TableTypes
  <2>2. lock.rest \in Seq(Inputs)
    BY <1>2 DEF ClearGoesOn, PlaceInv, MemoryTypes, LockedBy, Free
  <2> QED BY <2>1, <2>2, ClearsOthers, SessionsOfInputs, DurableInputs DEF Keeps
<1> QED BY <1>1, <1>2

LEMMA RunStepKeeps ==
  ASSUME Inv, NEW r \in Inputs, RunStep(r) \/ ExecutorStops(r), "withdraw" \notin Faults
  PROVE  Keeps
<1> USE DurableInputs DEF Keeps, Underway, Queued, itemVars, runVars, storeVars, Inv, ControlTypes, TableTypes
<1>1. CASE AdmitCommits(r)
  BY <1>1 DEF AdmitCommits, Claim, Ends
<1>2. CASE AdmitFails(r)
  BY <1>2 DEF AdmitFails, Ends
<1>3. CASE WriteInput(r)
  BY <1>3 DEF WriteInput
<1>4. CASE ExecutorStops(r)
  BY <1>4 DEF ExecutorStops, ExecutorEnds, Ends
<1>5. CASE CleanupEnds(r) \/ MarkTerminal(r)
  BY <1>5 DEF CleanupEnds, MarkTerminal
\* A claimed Run's receipt is "started" for good.
<1>6. row[r] = "running" /\ r \in Durable => receipt[r] = "started"
  BY DEF InputsSound, InputIsSound
<1>7. CASE FinishCommits(r)
  BY <1>6, <1>7 DEF FinishCommits
<1>8. CASE FinishFails(r)
  BY <1>6, <1>8 DEF FinishFails
<1> QED BY <1>1, <1>2, <1>3, <1>4, <1>5, <1>7, <1>8 DEF RunStep

LEMMA SteeringKeeps ==
  ASSUME Inv, PlaceInv, FlagInv, WithdrawnInv, NEW r \in Inputs, Steering(r)
  PROVE  Keeps
<1> USE DurableInputs
\* r executes, so that its own receipt is not queued any more.
<1>1. phase[r] = "executing" /\ (append[r] # None => append[r] \in Inputs /\ SessionOf[append[r]] = SessionOf[r])
  <2>1. append[r] # None => phase[r] = "executing" /\ append[r] \in Inputs /\ SessionOf[append[r]] = SessionOf[r]
    BY DEF FlagInv, FlagTypes, AppendsAreInFlight
  <2>2. phase[r] = "executing" \/ append[r] # None
    BY SessionsOfInputs DEF Steering, Boundary, AppendCommits, AppendFails
  <2> QED BY <2>1, <2>2
<1>2. \A i \in Inputs : phase[i] \in Underway => i # r
  BY <1>1 DEF Underway
<1>3. SessionOf[r] \in Sessions /\ MemoryTypes
  BY SessionsOfInputs DEF PlaceInv
\* What a delivery takes in flight waits in the Queue.
<1>4. ASSUME NEW rest \in Seq(Inputs), NEW gone, Delivers(r, rest, gone)
      PROVE  /\ \A i \in Inputs : i # r => phase'[i] = phase[i]
             /\ \A i \in Inputs : inflight'[i] => inflight[i] \/ Queued(i)
  <2>1. CASE DeliveryEnds(r, gone)
    BY <2>1, <1>4, DeliveryEffect DEF DeliveryEnds
  <2>2. ASSUME NEW i, NEW w, DeliveryGoesOn(r, rest, gone, i, w)
        PROVE  \A j \in Inputs : inflight'[j] => inflight[j] \/ Queued(j)
    <3>1. \A j \in Inputs : inflight'[j] = ((j \notin gone /\ inflight[j]) \/ j = i)
      BY <2>2 DEF DeliveryGoesOn
    <3>2. Queued(i)
      BY <2>2 DEF DeliveryGoesOn
    <3> QED BY <3>1, <3>2, Zenon
  <2> QED BY <1>4, <2>1, <2>2, DeliveryEffect
<1>5. CASE Boundary(r)
  <2> DEFINE S == {i \in Inputs : steering[i] /\ (i \in Durable \/ future[i] \notin {"abandoned", "cancelled"})}
             rest == Kept(queue[SessionOf[r]], S)
  <2>1. Delivers(r, rest, {}) /\ UNCHANGED <<queue, withdrawn, receipt>>
    BY <1>5 DEF Boundary, storeVars
  <2>2. rest \in Seq(Inputs)
    BY <1>3, KeptSelects DEF Selects, MemoryTypes
  <2> HIDE DEF rest
  <2> QED BY <1>2, <1>4, <2>1, <2>2 DEF Keeps, Queued
<1>6. CASE AppendCommits(r)
  <2> DEFINE a == append[r]
  <2>1. /\ a \in Inputs /\ Delivers(r, walk[r], {a}) /\ SteerClaim(r, a) /\ withdrawn' = withdrawn
        /\ queue' = [queue EXCEPT ![SessionOf[r]] = Without(@, {a})]
    BY <1>6 DEF AppendCommits
  <2>2. walk[r] \in Seq(Inputs)
    BY DEF FlagInv, FlagTypes
  <2>3. /\ a \in Durable => receipt'[a] # "queued"
        /\ \A i \in Inputs : i # a => receipt'[i] = receipt[i]
    BY <2>1 DEF SteerClaim, Inv, TableTypes
  <2>4. \A i \in Inputs : i # a /\ Queued(i) => Queued(i)'
    <3>1. /\ ToSet(queue'[SessionOf[r]]) = ToSet(queue[SessionOf[r]]) \ {a}
          /\ \A t \in Sessions \ {SessionOf[r]} : queue'[t] = queue[t]
      BY <1>3, <2>1, ItemsLeave
    <3> QED BY <3>1, SessionsOfInputs DEF Queued
  <2>5. /\ \A i \in Inputs : i # r => phase'[i] = phase[i]
        /\ \A i \in Inputs : inflight'[i] => inflight[i] \/ Queued(i)
    BY <1>4, <2>1, <2>2
  <2> HIDE DEF a
  <2> QED BY <1>2, <2>1, <2>3, <2>4, <2>5 DEF Keeps
<1>7. CASE AppendFails(r)
  <2> DEFINE a == append[r]
  <2>1. /\ a \in Inputs /\ inflight' = [inflight EXCEPT ![a] = FALSE]
        /\ UNCHANGED <<withdrawn, receipt>>
        /\ queue' = IF withdrawn[a] THEN [queue EXCEPT ![SessionOf[r]] = Without(@, {a})] ELSE queue
        /\ \A i \in Inputs : i # r => phase'[i] = phase[i]
    BY <1>1, <1>7 DEF AppendFails, storeVars, Inv, ControlTypes
  <2>2. \A i \in Durable : receipt'[i] = "queued" /\ Queued(i) => Queued(i)'
    <3>1. CASE withdrawn[a]
      <4>1. a \in Durable => receipt'[a] # "queued"
        BY <2>1, <3>1 DEF WithdrawnInv
      <4>2. /\ ToSet(queue'[SessionOf[r]]) = ToSet(queue[SessionOf[r]]) \ {a}
            /\ \A t \in Sessions \ {SessionOf[r]} : queue'[t] = queue[t]
        BY <1>3, <2>1, <3>1, ItemsLeave
      <4> QED BY <4>1, <4>2, SessionsOfInputs DEF Queued
    <3>2. CASE ~withdrawn[a]
      BY <2>1, <3>2 DEF Queued
    <3> QED BY <3>1, <3>2
  <2>3. \A i \in Inputs : inflight'[i] => inflight[i]
    BY <2>1 DEF FlagInv, FlagTypes
  <2> HIDE DEF a
  <2> QED BY <1>2, <2>1, <2>2, <2>3 DEF Keeps
<1> QED BY <1>5, <1>6, <1>7 DEF Steering

\* The new input waits or is admitted; for the others nothing changes.
LEMMA AcceptanceKeepsHeld ==
  ASSUME Inv, PlaceInv, WithdrawnInv, HeldInv, NEW i \in Inputs, Installs(i) \/ Joins(i),
         lock.use # "drain", closed' = closed, UNCHANGED <<inflight, withdrawn>>,
         \A j \in Inputs : j # i => receipt'[j] = receipt[j]
  PROVE  WithdrawnInv' /\ HeldInv'
<1>1. Accepted(i) /\ ~Arrived(i) /\ up
  BY DEF Installs, Joins, Accepted
<1>2. \A j \in Inputs : Arrived(j) => Arrived(j)'
  BY <1>1, Appended DEF Accepted, Arrived, PlaceInv, MemoryTypes
<1>3. \A j \in Inputs : Queued(j) => Queued(j)'
  <2>1. CASE Installs(i)
    BY <2>1 DEF Installs, Queued
  <2>2. CASE Joins(i)
    <3>1. \A t \in Sessions : ToSet(queue[t]) \subseteq ToSet(queue'[t])
      BY <2>2, Appended, SessionsOfInputs DEF Joins, PlaceInv, MemoryTypes
    <3> QED BY <3>1, SessionsOfInputs DEF Queued
  <2> QED BY <2>1, <2>2
<1>4. \A j \in Inputs : phase[j] \in Underway => phase'[j] \in Underway
  BY DEF Installs, Joins, Underway, Inv, ControlTypes
<1>5. Queued(i)' \/ phase'[i] \in Underway
  <2>1. CASE Installs(i)
    BY <2>1 DEF Installs, Underway, Inv, ControlTypes
  <2>2. CASE Joins(i)
    BY <2>2, Appended, SessionsOfInputs DEF Joins, Queued, PlaceInv, MemoryTypes
  <2> QED BY <2>1, <2>2
<1>6. WithdrawnInv'
  BY <1>1, <1>2, DurableInputs DEF WithdrawnInv
<1>7. HeldInv'
  BY <1>1, <1>3, <1>4, <1>5, DurableInputs DEF HeldInv
<1> QED BY <1>6, <1>7

LEMMA DrainKeepsHeld ==
  ASSUME Inv, PlaceInv, HeldInv, up, NEW s \in Sessions, NEW q \in Seq(Inputs), NEW refused,
         ToSet(q) = ToSet(queue[s]), Drain(s, q, refused), closed' = closed,
         \A i \in Durable : receipt'[i] = "queued" => receipt[i] = "queued"
                              /\ ~(lock.use = "drain" /\ lock.item = i)
  PROVE  HeldInv'
<1>1. PICK k, rest : DrainsTo(s, q, k, rest) /\ (DrainStarts(s, q, k) \/ DrainRefuses(s, q, k))
  BY DrainEffect
<1>2. /\ k \in 1..(Len(q) + 1) /\ rest = SubSeq(q, k + 1, Len(q)) /\ Len(q) \in Nat
      /\ k =< Len(q) => q[k] \in Inputs
      /\ \A m \in 1..(k - 1) : q[m] \notin Durable
  BY <1>1, Places DEF DrainsTo
<1>3. \A i \in ToSet(q) : \/ \E m \in 1..(k - 1) : q[m] = i
                          \/ k =< Len(q) /\ q[k] = i
                          \/ i \in ToSet(rest)
  BY <1>2, RestAfter
<1>4. queue'[s] = rest /\ \A t \in Sessions : t # s => queue'[t] = queue[t]
  BY <1>1 DEF DrainsTo, PlaceInv, MemoryTypes
<1>5. k =< Len(q) => \/ phase'[q[k]] \in Underway
                     \/ lock' = Holds("drain", q[k], <<>>)
  BY <1>1, <1>2 DEF DrainStarts, DrainRefuses, Underway
<1>6. \A i \in Inputs : phase[i] \in Underway => phase'[i] \in Underway
  BY <1>1 DEF DrainStarts, DrainRefuses, Underway
<1>7. ASSUME NEW i \in Durable, Queued(i)
      PROVE  Queued(i)' \/ phase'[i] \in Underway \/ lock' = Holds("drain", i, <<>>)
  <2>1. CASE SessionOf[i] = s
    <3>1. i \in ToSet(q)
      BY <1>7, <2>1 DEF Queued
    <3>2. (k =< Len(q) /\ q[k] = i) \/ i \in ToSet(rest)
      BY <1>2, <1>3, <3>1
    <3> QED BY <1>4, <1>5, <2>1, <3>2 DEF Queued
  <2>2. CASE SessionOf[i] # s
    BY <1>4, <1>7, <2>2, SessionsOfInputs, DurableInputs DEF Queued
  <2> QED BY <2>1, <2>2
<1> QED BY <1>6, <1>7, DurableInputs DEF HeldInv, Holds

LEMMA ReleaseKeepsHeld ==
  ASSUME Inv, PlaceInv, FlagInv, WithdrawnInv, HeldInv, NEW i \in Inputs, Release(i)
  PROVE  WithdrawnInv' /\ HeldInv'
<1> DEFINE s == SessionOf[i]
<1>1. /\ s \in Sessions /\ up /\ lock = Free /\ queue[s] \in Seq(Inputs)
      /\ UNCHANGED <<closed, withdrawn, inflight, receipt, arrivals>>
  BY SessionsOfInputs DEF Release, PlaceInv, MemoryTypes, processVars, storeVars
<1>2. WithdrawnInv'
  BY <1>1 DEF WithdrawnInv, Arrived
<1>3. CASE closed
  BY <1>1, <1>2, <1>3 DEF HeldInv
<1>4. CASE ~closed
  <2> DEFINE q == SteeringFirst(queue[s], steering)
  <2>1. PICK refused : Drain(s, q, refused)
    BY <1>4 DEF Release
  <2>2. q \in Seq(Inputs) /\ ToSet(q) = ToSet(queue[s])
    BY <1>1, SteeringFirstSorts DEF FlagInv, FlagTypes
  <2> HIDE DEF q, s
  <2>3. HeldInv'
    BY <1>1, <2>1, <2>2, DrainKeepsHeld DEF Free
  <2> QED BY <1>2, <2>3
<1> QED BY <1>3, <1>4

LEMMA DrainGoesOnKeepsHeld ==
  ASSUME Inv, PlaceInv, WithdrawnInv, HeldInv, NEW i \in Inputs, DrainGoesOn(i)
  PROVE  WithdrawnInv' /\ HeldInv'
<1> DEFINE s == SessionOf[i]
<1>1. /\ s \in Sessions /\ up /\ lock.item = i /\ queue[s] \in Seq(Inputs)
      /\ UNCHANGED <<closed, withdrawn, inflight, arrivals>>
      /\ receipt'[i] # "queued" /\ \A j \in Inputs : j # i => receipt'[j] = receipt[j]
  BY SessionsOfInputs DEF DrainGoesOn, PlaceInv, MemoryTypes, processVars, Inv, TableTypes
<1>2. PICK refused : Drain(s, queue[s], refused)
  BY DEF DrainGoesOn
<1> HIDE DEF s
<1>3. WithdrawnInv'
  BY <1>1, DurableInputs DEF WithdrawnInv, Arrived
<1>4. \A j \in Durable : receipt'[j] = "queued" => receipt[j] = "queued"
                              /\ ~(lock.use = "drain" /\ lock.item = j)
  BY <1>1, DurableInputs
<1>5. HeldInv'
  BY <1>1, <1>2, <1>4, DrainKeepsHeld
<1> QED BY <1>3, <1>5

LEMMA RestartKeepsHeld ==
  ASSUME Inv, PlaceInv, FlagInv, WithdrawnInv, Restart PROVE WithdrawnInv' /\ HeldInv'
<1> DEFINE first(i) == Restored(SessionOf[i]) # <<>> /\ i = Head(Restored(SessionOf[i]))
<1>1. /\ UNCHANGED <<withdrawn, inflight, receipt, arrivals>>
      /\ queue' = [s \in Sessions |-> IF Restored(s) = <<>> THEN <<>> ELSE Tail(Restored(s))]
      /\ phase' = [i \in Inputs |-> IF first(i) THEN "admitting" ELSE "none"]
  BY Zenon DEF Restart
<1>2. WithdrawnInv'
  BY <1>1 DEF WithdrawnInv, Arrived
<1>3. ASSUME NEW i \in Durable, receipt[i] = "queued" PROVE Queued(i)' \/ phase'[i] \in Underway
  <2> DEFINE q == Restored(SessionOf[i])
  <2>1. SessionOf[i] \in Sessions /\ i \in Inputs
    BY SessionsOfInputs, DurableInputs
  <2>2. /\ q \in Seq(Inputs)
        /\ ToSet(q) = ToSet(arrivals) \cap {j \in Inputs : SessionOf[j] = SessionOf[i] /\ receipt[j] = "queued"}
    BY <2>1, RestoredOnce DEF FlagInv, FlagTypes
  <2>3. i \in ToSet(q)
    BY <1>3, <2>1, <2>2 DEF PlaceInv, KnownOnceAccepted, Arrived
  <2>4. q # <<>>
    BY <2>2, <2>3, Places
  <2>5. i = Head(q) \/ i \in ToSet(Tail(q))
    BY <2>2, <2>3, <2>4, HeadFirst
  <2>6. queue'[SessionOf[i]] = Tail(q) /\ (i = Head(q) => phase'[i] = "admitting")
    BY <1>1, <2>1, <2>4
  <2> HIDE DEF q
  <2> QED BY <2>5, <2>6 DEF Queued, Underway
<1>4. HeldInv'
  BY <1>1, <1>3 DEF HeldInv
<1> QED BY <1>2, <1>4

LEMMA AcceptKeepsHeld ==
  ASSUME Inv, PlaceInv, FlagInv, WithdrawnInv, HeldInv, NEW i \in Inputs,
         EnqueueStarts(i) \/ EnqueueWaits(i) \/ AcceptBegins(i) \/ AcceptStarts(i) \/ AcceptWaits(i)
  PROVE  WithdrawnInv' /\ HeldInv'
<1>1. CASE EnqueueStarts(i)
  <2>1. /\ lock.use # "drain" /\ closed' = closed /\ UNCHANGED <<inflight, withdrawn, receipt>>
    BY <1>1 DEF EnqueueStarts, Admits, Free, processVars, storeVars
  <2> QED BY <1>1, <2>1, EnqueueInstalls, AcceptanceKeepsHeld
<1>2. CASE EnqueueWaits(i)
  <2>1. /\ lock.use # "drain" /\ closed' = closed /\ UNCHANGED <<inflight, withdrawn, receipt>>
    BY <1>2 DEF EnqueueWaits, Admits, Free, processVars, storeVars
  <2> QED BY <1>2, <2>1, EnqueueJoins, AcceptanceKeepsHeld
<1>3. CASE AcceptBegins(i)
  <2>1. /\ lock = Free
        /\ UNCHANGED <<up, closed, queue, phase, inflight, withdrawn, receipt, arrivals>>
    BY <1>3 DEF AcceptBegins, Admits, processVars, runVars, storeVars
  <2> QED BY <2>1 DEF WithdrawnInv, HeldInv, Arrived, Queued, Free
<1>4. CASE AcceptStarts(i) \/ AcceptWaits(i)
  <2>1. /\ lock.use # "drain" /\ closed' = closed /\ UNCHANGED <<inflight, withdrawn>>
        /\ receipt' = [receipt EXCEPT ![i] = "queued"]
    BY <1>4 DEF AcceptStarts, AcceptWaits, Accepts, processVars
  <2>2. \A j \in Inputs : j # i => receipt'[j] = receipt[j]
    BY <2>1 DEF Inv, TableTypes
  <2> QED BY <1>4, <2>1, <2>2, AcceptInstalls, AcceptJoins, AcceptanceKeepsHeld
<1> QED BY <1>1, <1>2, <1>3, <1>4

LEMMA AcloseKeepsHeld == ASSUME WithdrawnInv, Aclose PROVE WithdrawnInv' /\ HeldInv'
<1>1. closed' /\ UNCHANGED <<inflight, withdrawn, receipt, arrivals>>
  BY DEF Aclose, storeVars
<1> QED BY <1>1 DEF WithdrawnInv, HeldInv, Arrived

LEMMA CrashKeepsHeld == ASSUME Crash PROVE WithdrawnInv' /\ HeldInv'
<1>1. ~up' /\ inflight' = [i \in Inputs |-> FALSE] /\ withdrawn' = [i \in Inputs |-> FALSE]
  BY DEF Crash
<1> QED BY <1>1, DurableInputs DEF WithdrawnInv, HeldInv

LEMMA CallFailureKeepsHeld ==
  ASSUME WithdrawnInv, HeldInv, LockedCallFails, "drain" \notin Faults
  PROVE  WithdrawnInv' /\ HeldInv'
<1>1. /\ lock.use # "drain"
      /\ UNCHANGED <<up, closed, queue, phase, inflight, withdrawn, receipt, arrivals>>
  BY DEF LockedCallFails, processVars, itemVars, runVars, storeVars
<1> QED BY <1>1 DEF WithdrawnInv, HeldInv, Arrived, Queued

\* No calm step but the shutdown itself closes the manager.
LEMMA CalmStaysOpen ==
  ASSUME NEW i \in Inputs,
         \/ ReserveWaitingWork(i) \/ ReleaseWaitingWork(i) \/ SubmitReturns(i) \/ AbandonWaiter(i)
         \/ RemoveAbandoned(i) \/ User(i) \/ Removes(i) \/ Edits(i) \/ Steers(i) \/ ClearGoesOn(i)
         \/ RunStep(i) \/ ExecutorStops(i) \/ Steering(i) \/ \E s \in Sessions : ClearBegins(s)
  PROVE  closed' = closed
<1> USE DEF processVars
<1>1. CASE \/ ReserveWaitingWork(i) \/ ReleaseWaitingWork(i) \/ SubmitReturns(i) \/ AbandonWaiter(i)
           \/ RemoveAbandoned(i)
  BY <1>1 DEF ReserveWaitingWork, ReleaseWaitingWork, SubmitReturns, AbandonWaiter, RemoveAbandoned
<1>2. CASE User(i)
  BY <1>2 DEF User, RemoveBegins, EditBegins, SteerBegins, RequestCancel
<1>3. CASE Removes(i) \/ Edits(i) \/ Steers(i)
  BY <1>3 DEF Removes, Edits, Steers
<1>4. CASE ClearGoesOn(i) \/ \E s \in Sessions : ClearBegins(s)
  BY <1>4 DEF ClearGoesOn, ClearBegins
<1>5. CASE RunStep(i) \/ ExecutorStops(i)
  BY <1>5 DEF RunStep, ExecutorStops, AdmitCommits, AdmitFails, WriteInput, CleanupEnds, FinishCommits,
     FinishFails, MarkTerminal, ExecutorEnds
<1>6. CASE Steering(i)
  BY <1>6 DEF Steering, Boundary, AppendCommits, AppendFails
<1> QED BY <1>1, <1>2, <1>3, <1>4, <1>5, <1>6

LEMMA NextKeepsHeld ==
  ASSUME Inv, PlaceInv, FlagInv, FutureInv, WithdrawnInv, HeldInv, Next,
         "drain" \notin Faults, "withdraw" \notin Faults
  PROVE  WithdrawnInv' /\ HeldInv'
<1>1. ASSUME Calm, Persistent, Keeps, closed' = closed PROVE WithdrawnInv' /\ HeldInv'
  BY <1>1, KeepsWithdrawn, KeepsHeld DEF Calm, KnownStay
<1>2. ASSUME NEW i \in Inputs, Producer(i) \/ SubmitReturns(i) \/ RemoveAbandoned(i)
      PROVE  WithdrawnInv' /\ HeldInv'
  <2>1. CASE \/ ReserveWaitingWork(i) \/ ReleaseWaitingWork(i) \/ SubmitReturns(i)
             \/ AbandonWaiter(i) \/ RemoveAbandoned(i)
    BY <1>1, <2>1, ProducerIsCalm, CalmIsPersistent, ProducerKeeps, CalmStaysOpen
  <2> QED BY <1>2, <2>1, AcceptKeepsHeld DEF Producer
<1>3. ASSUME NEW i \in Inputs, User(i) \/ LockHolder(i)
      PROVE  WithdrawnInv' /\ HeldInv'
  <2>1. CASE User(i) \/ Removes(i) \/ Edits(i) \/ Steers(i)
    BY <1>1, <2>1, UserIsCalm, CalmIsPersistent, UserKeeps, CalmStaysOpen
  <2>2. CASE ClearGoesOn(i)
    BY <1>1, <2>2, ClearIsCalm, CalmIsPersistent, ClearKeeps, CalmStaysOpen
  <2> QED BY <1>3, <2>1, <2>2, AcceptKeepsHeld, DrainGoesOnKeepsHeld DEF LockHolder
<1>4. ASSUME NEW i \in Inputs, RunStep(i) \/ ExecutorStops(i) PROVE WithdrawnInv' /\ HeldInv'
  BY <1>1, <1>4, RunStepIsCalm, CalmIsPersistent, RunStepKeeps, CalmStaysOpen
<1>5. ASSUME NEW i \in Inputs, Steering(i) PROVE WithdrawnInv' /\ HeldInv'
  <2>1. append[i] \in Inputs \cup {None} /\ (phase[i] = "executing" \/ append[i] = None)
    BY DEF FlagInv, FlagTypes, AppendsAreInFlight
  <2> QED BY <1>1, <1>5, <2>1, DeliveryIsCalm, CalmIsPersistent, SteeringKeeps, CalmStaysOpen
<1>6. ASSUME NEW s \in Sessions, ClearBegins(s) PROVE WithdrawnInv' /\ HeldInv'
  <2>1. closed' = closed
    BY <1>6 DEF ClearBegins, processVars
  <2> QED BY <1>1, <1>6, <2>1, ClearIsCalm, ManagerIsPersistent, ClearKeeps
<1> QED BY <1>2, <1>3, <1>4, <1>5, <1>6, ReleaseKeepsHeld, CallFailureKeepsHeld, AcloseKeepsHeld,
     CrashKeepsHeld, RestartKeepsHeld DEF Next

LEMMA HeldInvariant ==
  ASSUME "drain" \notin Faults, "withdraw" \notin Faults
  PROVE  Spec => [](WithdrawnInv /\ HeldInv)
<1>1. Init => WithdrawnInv /\ HeldInv
  BY DurableInputs DEF Init, WithdrawnInv, HeldInv
<1>2. /\ Inv /\ PlaceInv /\ FlagInv /\ FutureInv /\ WithdrawnInv /\ HeldInv
      /\ [Next]_vars
      => WithdrawnInv' /\ HeldInv'
  <2>1. ASSUME WithdrawnInv, HeldInv, UNCHANGED vars PROVE WithdrawnInv' /\ HeldInv'
    BY <2>1 DEF WithdrawnInv, HeldInv, Arrived, Queued, vars, processVars, itemVars, runVars, storeVars
  <2> QED BY <2>1, NextKeepsHeld
<1> QED BY <1>1, <1>2, FuturesInvariant, PTL DEF Spec

\* While the process serves, an accepted durable input waits in its Queue, is
\* on the way to its claim or is being removed, provided that the two removals
\* of receipts that nothing repeats do not fail: the one the drain awaits and
\* the one of a Run that ends before it was admitted (_execute).
THEOREM AcceptedIsHeld ==
  "drain" \notin Faults /\ "withdraw" \notin Faults => (Spec => []NothingAcceptedIsLost)
<1> SUFFICES ASSUME "drain" \notin Faults, "withdraw" \notin Faults PROVE Spec => []NothingAcceptedIsLost
  OBVIOUS
<1>1. HeldInv => NothingAcceptedIsLost
  BY DEF HeldInv, NothingAcceptedIsLost, Underway
<1> QED BY <1>1, HeldInvariant, PTL

-----------------------------------------------------------------------------
(* The outcome a Run reports and the one its row keeps. *)

RowsFollowRuns ==
  \A i \in Inputs :
    /\ ~Arrived(i) \/ Queued(i) \/ phase[i] = "admitting" \/ receipt[i] = "queued" => row[i] = "none"
    /\ phase[i] = "executing" => row[i] = "running"
    /\ phase[i] \in {"cleanup", "closing"} => row[i] \in {"none", "running"}
    /\ phase[i] \in {"notifying", "releasing", "over"} /\ row[i] # "none" =>
         row[i] = verdict[i] \/ (row[i] = "running" /\ verdict[i] = "failed")
CancelsWin ==
  /\ cancelRequested \in [Inputs -> BOOLEAN]
  /\ \A i \in Inputs : cancelRequested[i] =>
       /\ phase[i] # "none" /\ row[i] \notin {"completed", "interrupted"}
       /\ phase[i] \in {"closing", "notifying", "releasing", "over"} => verdict[i] \in {"cancelled", "failed"}
OutcomeInv == RowsFollowRuns /\ CancelsWin

\* A step that concerns no Run.
Detached ==
  /\ UNCHANGED <<phase, row, verdict, cancelRequested>>
  /\ \A i \in Inputs : receipt'[i] = "queued" => receipt[i] = "queued"

LEMMA DetachedKeepsOutcomes == ASSUME PlaceInv, OutcomeInv, Calm, Detached PROVE OutcomeInv'
<1>1. \A i \in Inputs : Queued(i)' => Queued(i)
  BY SessionsOfInputs DEF Calm, QueuesShrink, Queued
<1>2. \A i \in Inputs : Arrived(i)' <=> Arrived(i)
  BY DEF Calm, KnownStay, Arrived
<1>3. RowsFollowRuns'
  BY <1>1, <1>2 DEF OutcomeInv, RowsFollowRuns, Detached
<1>4. CancelsWin'
  BY DEF OutcomeInv, CancelsWin, Detached
<1> QED BY <1>3, <1>4 DEF OutcomeInv

LEMMA ProducerIsDetached ==
  ASSUME Inv, NEW i \in Inputs,
         \/ ReserveWaitingWork(i) \/ ReleaseWaitingWork(i) \/ SubmitReturns(i) \/ AbandonWaiter(i)
         \/ RemoveAbandoned(i)
  PROVE  Detached
<1> USE DEF Detached, runVars, storeVars, Inv, TableTypes
<1>1. CASE SubmitReturns(i)
  BY <1>1 DEF SubmitReturns
<1>2. CASE ReserveWaitingWork(i) \/ ReleaseWaitingWork(i) \/ AbandonWaiter(i) \/ RemoveAbandoned(i)
  BY <1>2 DEF ReserveWaitingWork, ReleaseWaitingWork, AbandonWaiter, RemoveAbandoned
<1> QED BY <1>1, <1>2

LEMMA MutationIsDetached ==
  ASSUME Inv, NEW i \in Inputs,
         \/ RemoveBegins(i) \/ EditBegins(i) \/ SteerBegins(i) \/ Removes(i) \/ Edits(i) \/ Steers(i)
         \/ ClearGoesOn(i)
  PROVE  Detached
<1> USE DEF Detached, runVars, storeVars, Inv, TableTypes
<1>1. CASE RemoveBegins(i) \/ EditBegins(i) \/ SteerBegins(i)
  BY <1>1 DEF RemoveBegins, EditBegins, SteerBegins
<1>2. CASE Removes(i)
  BY <1>2 DEF Removes
<1>3. CASE Edits(i) \/ Steers(i)
  BY <1>3 DEF Edits, Steers
<1>4. CASE ClearGoesOn(i)
  BY <1>4 DEF ClearGoesOn
<1> QED BY <1>1, <1>2, <1>3, <1>4

LEMMA ManagerIsDetached ==
  ASSUME (\E s \in Sessions : ClearBegins(s)) \/ LockedCallFails
  PROVE  Detached
BY DEF Detached, runVars, storeVars, ClearBegins, LockedCallFails

\* A step of one Run r, which arrived, waits nowhere and has no queued receipt to go.
LEMMA RunStepKeepsOutcomes ==
  ASSUME Inv, PlaceInv, OutcomeInv, NEW r \in Inputs, RunStep(r) \/ ExecutorStops(r)
  PROVE  OutcomeInv'
<1>1. Calm
  BY RunStepIsCalm
<1>2. \A i \in Inputs : Queued(i)' => Queued(i)
  BY <1>1, SessionsOfInputs DEF Calm, QueuesShrink, Queued
<1>3. \A i \in Inputs : Arrived(i)' <=> Arrived(i)
  BY <1>1 DEF Calm, KnownStay, Arrived
<1>4. \A i \in Inputs : phase[i] # "none" => Arrived(i) /\ ~Queued(i)
  BY SessionsOfInputs DEF PlaceInv, KnownOnceAccepted, WaitersWait, Queued
<1> USE <1>2, <1>3, <1>4
    DEF OutcomeInv, RowsFollowRuns, CancelsWin, Inv, ControlTypes, TableTypes, Phases, Outcomes, itemVars, storeVars
<1>5. CASE AdmitCommits(r)
  <2>1. /\ phase[r] = "admitting" /\ row' = [row EXCEPT ![r] = "running"] /\ cancelRequested' = cancelRequested
        /\ r \in Durable => receipt[r] = "queued"
        /\ receipt' = [receipt EXCEPT ![r] = IF r \in Durable THEN "started" ELSE @]
    BY <1>5 DEF AdmitCommits, Claim
  <2>2. receipt'[r] # "queued"
    BY <2>1 DEF PlaceInv, KnownOnceAccepted
  <2>3. \/ /\ cancelRequested[r] /\ phase' = [phase EXCEPT ![r] = "cleanup"]
           /\ verdict' = [verdict EXCEPT ![r] = "cancelled"]
        \/ phase' = [phase EXCEPT ![r] = "executing"] /\ verdict' = verdict
    BY <1>5 DEF AdmitCommits, Ends
  <2>4. CASE phase' = [phase EXCEPT ![r] = "cleanup"] /\ verdict' = [verdict EXCEPT ![r] = "cancelled"]
    BY <2>1, <2>2, <2>4
  <2>5. CASE phase' = [phase EXCEPT ![r] = "executing"] /\ verdict' = verdict
    BY <2>1, <2>2, <2>5
  <2> QED BY <2>3, <2>4, <2>5
<1>6. CASE AdmitFails(r)
  BY <1>6 DEF AdmitFails, Ends
<1>7. CASE WriteInput(r)
  BY <1>7 DEF WriteInput, runVars
<1>8. CASE ExecutorStops(r)
  BY <1>8 DEF ExecutorStops, ExecutorEnds, Ends
<1>9. CASE CleanupEnds(r)
  BY <1>9 DEF CleanupEnds
<1>10. CASE FinishCommits(r)
  <2>1. /\ phase[r] = "closing" /\ phase' = [phase EXCEPT ![r] = "notifying"]
        /\ UNCHANGED <<verdict, cancelRequested>>
    BY <1>10 DEF FinishCommits
  <2>2. CASE row[r] = "running"
    <3>1. row' = [row EXCEPT ![r] = verdict[r]] /\ receipt' = receipt
      BY <1>10, <2>2 DEF FinishCommits
    <3>2. receipt[r] # "queued"
      BY <2>2
    <3> QED BY <2>1, <3>1, <3>2
  <2>3. CASE row[r] # "running"
    <3>1. row' = row /\ receipt' = [receipt EXCEPT ![r] = IF @ = "queued" THEN "removed" ELSE @]
      BY <1>10, <2>3 DEF FinishCommits
    <3> QED BY <2>1, <2>3, <3>1
  <2> QED BY <2>2, <2>3
<1>11. CASE FinishFails(r)
  BY <1>11 DEF FinishFails
<1>12. CASE MarkTerminal(r)
  BY <1>12 DEF MarkTerminal
<1> QED BY <1>5, <1>6, <1>7, <1>8, <1>9, <1>10, <1>11, <1>12 DEF RunStep

LEMMA CancelKeepsOutcomes ==
  ASSUME Inv, PlaceInv, OutcomeInv, NEW r \in Inputs, RequestCancel(r) PROVE OutcomeInv'
<1>1. /\ phase[r] \in {"admitting", "executing"} /\ cancelRequested' = [cancelRequested EXCEPT ![r] = TRUE]
      /\ UNCHANGED <<phase, row, verdict, receipt, queue, arrivals>>
  BY DEF RequestCancel, Cancellable, storeVars
<1>2. RowsFollowRuns'
  BY <1>1 DEF OutcomeInv, RowsFollowRuns, Arrived, Queued
<1>3. row[r] \notin {"completed", "interrupted"}
  BY <1>1 DEF OutcomeInv, RowsFollowRuns
<1>4. CancelsWin'
  BY <1>1, <1>3 DEF OutcomeInv, CancelsWin
<1> QED BY <1>2, <1>4 DEF OutcomeInv

\* A step of the delivery of the executing Run r, which may end it.
LEMMA ExecutingKeepsOutcomes ==
  ASSUME Inv, PlaceInv, OutcomeInv, Calm, NEW r \in Inputs, phase[r] = "executing",
         UNCHANGED <<row, cancelRequested>>,
         \A i \in Inputs : receipt'[i] = "queued" => receipt[i] = "queued",
         \A i \in Inputs : i # r => phase'[i] = phase[i] /\ verdict'[i] = verdict[i],
         phase'[r] \in {"executing", "cleanup", "closing"},
         phase'[r] = "closing" /\ cancelRequested[r] => verdict'[r] \in {"cancelled", "failed"}
  PROVE  OutcomeInv'
<1>1. \A i \in Inputs : Queued(i)' => Queued(i)
  BY SessionsOfInputs DEF Calm, QueuesShrink, Queued
<1>2. \A i \in Inputs : Arrived(i)' <=> Arrived(i)
  BY DEF Calm, KnownStay, Arrived
<1>3. RowsFollowRuns'
  BY <1>1, <1>2 DEF OutcomeInv, RowsFollowRuns
<1>4. CancelsWin'
  BY DEF OutcomeInv, CancelsWin
<1> QED BY <1>3, <1>4 DEF OutcomeInv

LEMMA SteeringKeepsOutcomes ==
  ASSUME Inv, PlaceInv, FlagInv, OutcomeInv, NEW r \in Inputs, Steering(r) PROVE OutcomeInv'
<1>1. append[r] \in Inputs \cup {None} /\ (phase[r] = "executing" \/ append[r] = None)
  BY DEF FlagInv, FlagTypes, AppendsAreInFlight
<1>2. Calm
  BY <1>1, DeliveryIsCalm
<1>3. phase[r] = "executing"
  BY <1>1, SessionsOfInputs DEF Steering, Boundary, AppendCommits, AppendFails
<1>4. ASSUME NEW rest \in Seq(Inputs), NEW gone, Delivers(r, rest, gone)
      PROVE  phase'[r] \in {"executing", "cleanup"} /\ \A t \in Inputs : t # r => phase'[t] = phase[t]
  BY <1>3, <1>4, DeliveryEffect
<1>5. CASE Boundary(r)
  <2> DEFINE S == {i \in Inputs : steering[i] /\ (i \in Durable \/ future[i] \notin {"abandoned", "cancelled"})}
             rest == Kept(queue[SessionOf[r]], S)
  <2>1. Delivers(r, rest, {}) /\ UNCHANGED <<row, receipt, verdict, cancelRequested>>
    BY <1>5 DEF Boundary, storeVars
  <2>2. rest \in Seq(Inputs)
    BY SessionsOfInputs, KeptSelects DEF Selects, PlaceInv, MemoryTypes
  <2> HIDE DEF rest
  <2> QED BY <1>2, <1>3, <1>4, <2>1, <2>2, ExecutingKeepsOutcomes
<1>6. CASE AppendCommits(r)
  <2>1. /\ Delivers(r, walk[r], {append[r]}) /\ SteerClaim(r, append[r])
        /\ UNCHANGED <<row, verdict, cancelRequested>>
    BY <1>6 DEF AppendCommits
  <2>2. walk[r] \in Seq(Inputs)
    BY DEF FlagInv, FlagTypes
  <2>3. \A i \in Inputs : receipt'[i] = "queued" => receipt[i] = "queued"
    BY <2>1 DEF SteerClaim, Inv, TableTypes
  <2> QED BY <1>2, <1>3, <1>4, <2>1, <2>2, <2>3, ExecutingKeepsOutcomes
<1>7. CASE AppendFails(r)
  <2>1. /\ phase' = [phase EXCEPT ![r] = IF cancelRequested[r] THEN "cleanup" ELSE "closing"]
        /\ verdict' = [verdict EXCEPT ![r] = IF cancelRequested[r] THEN "cancelled" ELSE "failed"]
        /\ UNCHANGED <<row, receipt, cancelRequested>>
    BY <1>7 DEF AppendFails, storeVars
  <2>2. /\ \A i \in Inputs : i # r => phase'[i] = phase[i] /\ verdict'[i] = verdict[i]
        /\ phase'[r] \in {"cleanup", "closing"} /\ verdict'[r] \in {"cancelled", "failed"}
    BY <2>1 DEF Inv, ControlTypes
  <2> QED BY <1>2, <1>3, <2>1, <2>2, ExecutingKeepsOutcomes
<1> QED BY <1>5, <1>6, <1>7 DEF Steering

LEMMA AcloseKeepsOutcomes == ASSUME Inv, PlaceInv, OutcomeInv, Aclose PROVE OutcomeInv'
<1>1. Calm
  BY ManagerIsCalm
<1>2. \A i \in Inputs : Queued(i)' => Queued(i)
  BY <1>1, SessionsOfInputs DEF Calm, QueuesShrink, Queued
<1>3. /\ UNCHANGED <<phase, row, verdict, receipt, arrivals>>
      /\ cancelRequested' = [i \in Inputs |-> cancelRequested[i] \/ Cancellable(i)]
  BY DEF Aclose, storeVars
<1>4. RowsFollowRuns'
  BY <1>2, <1>3 DEF OutcomeInv, RowsFollowRuns, Arrived
<1>5. cancelRequested' \in [Inputs -> BOOLEAN]
  BY <1>3 DEF OutcomeInv, CancelsWin, Cancellable
<1>6. ASSUME NEW i \in Inputs, cancelRequested'[i]
      PROVE  /\ phase[i] # "none" /\ row[i] \notin {"completed", "interrupted"}
             /\ phase[i] \in {"closing", "notifying", "releasing", "over"} => verdict[i] \in {"cancelled", "failed"}
  <2>1. cancelRequested'[i] = (cancelRequested[i] \/ Cancellable(i))
    BY <1>3
  <2>2. CASE cancelRequested[i]
    BY <2>2 DEF OutcomeInv, CancelsWin
  <2>3. CASE Cancellable(i)
    BY <2>3 DEF Cancellable, OutcomeInv, RowsFollowRuns
  <2> QED BY <1>6, <2>1, <2>2, <2>3
<1> QED BY <1>3, <1>4, <1>5, <1>6 DEF OutcomeInv, CancelsWin

\* The new input has no row and nobody has stopped it.
LEMMA AcceptanceKeepsOutcomes ==
  ASSUME Inv, PlaceInv, OutcomeInv, NEW i \in Inputs, Installs(i) \/ Joins(i),
         UNCHANGED <<row, verdict, cancelRequested>>,
         \A j \in Inputs : j # i => receipt'[j] = receipt[j]
  PROVE  OutcomeInv'
<1>1. Accepted(i) /\ ~Arrived(i) /\ phase[i] = "none" /\ row[i] = "none" /\ ~cancelRequested[i]
  BY NewInputs DEF Installs, Joins, Accepted, OutcomeInv, RowsFollowRuns, CancelsWin
<1>2. \A j \in Inputs : Arrived(j) => Arrived(j)'
  BY <1>1, Appended DEF Accepted, Arrived, PlaceInv, MemoryTypes
<1>3. \A j \in Inputs : j # i /\ Queued(j)' => Queued(j)
  <2>1. CASE Installs(i)
    BY <2>1 DEF Installs, Queued
  <2>2. CASE Joins(i)
    <3>1. \A t \in Sessions : ToSet(queue'[t]) \subseteq ToSet(queue[t]) \cup {i}
      BY <2>2, Appended, SessionsOfInputs DEF Joins, PlaceInv, MemoryTypes
    <3> QED BY <3>1, SessionsOfInputs DEF Queued
  <2> QED BY <2>1, <2>2
<1>4. phase' \in {phase, [phase EXCEPT ![i] = "admitting"]}
  BY DEF Installs, Joins
<1>5. RowsFollowRuns'
  BY <1>1, <1>2, <1>3, <1>4 DEF OutcomeInv, RowsFollowRuns, Inv, ControlTypes
<1>6. CancelsWin'
  BY <1>1, <1>4 DEF OutcomeInv, CancelsWin, Inv, ControlTypes
<1> QED BY <1>5, <1>6 DEF OutcomeInv

LEMMA AcceptKeepsOutcomes ==
  ASSUME Inv, PlaceInv, OutcomeInv, NEW i \in Inputs,
         EnqueueStarts(i) \/ EnqueueWaits(i) \/ AcceptBegins(i) \/ AcceptStarts(i) \/ AcceptWaits(i)
  PROVE  OutcomeInv'
<1>1. CASE EnqueueStarts(i)
  <2>1. UNCHANGED <<row, verdict, cancelRequested, receipt>>
    BY <1>1 DEF EnqueueStarts, storeVars
  <2> QED BY <1>1, <2>1, EnqueueInstalls, AcceptanceKeepsOutcomes
<1>2. CASE EnqueueWaits(i)
  <2>1. UNCHANGED <<row, verdict, cancelRequested, receipt>>
    BY <1>2 DEF EnqueueWaits, storeVars, runVars
  <2> QED BY <1>2, <2>1, EnqueueJoins, AcceptanceKeepsOutcomes
<1>3. CASE AcceptBegins(i)
  <2>1. UNCHANGED <<queue, phase, row, verdict, cancelRequested, receipt, arrivals>>
    BY <1>3 DEF AcceptBegins, runVars, storeVars
  <2> QED BY <2>1 DEF OutcomeInv, RowsFollowRuns, CancelsWin, Arrived, Queued
<1>4. CASE AcceptStarts(i) \/ AcceptWaits(i)
  <2>1. UNCHANGED <<row, verdict, cancelRequested>> /\ receipt' = [receipt EXCEPT ![i] = "queued"]
    BY <1>4 DEF AcceptStarts, AcceptWaits, Accepts
  <2>2. \A j \in Inputs : j # i => receipt'[j] = receipt[j]
    BY <2>1 DEF Inv, TableTypes
  <2> QED BY <1>4, <2>1, <2>2, AcceptInstalls, AcceptJoins, AcceptanceKeepsOutcomes
<1> QED BY <1>1, <1>2, <1>3, <1>4

\* Whom the drain starts waited, and so has no row; a released Run is over.
LEMMA DrainKeepsOutcomes ==
  ASSUME Inv, PlaceInv, OutcomeInv, NEW s \in Sessions, NEW q \in Seq(Inputs), NEW refused,
         ToSet(q) = ToSet(queue[s]), Drain(s, q, refused),
         UNCHANGED <<row, verdict, cancelRequested, arrivals>>,
         \A i \in Inputs : receipt'[i] = "queued" => receipt[i] = "queued"
  PROVE  OutcomeInv'
<1>1. PICK k, rest : DrainsTo(s, q, k, rest) /\ (DrainStarts(s, q, k) \/ DrainRefuses(s, q, k))
  BY DrainEffect
<1>2. /\ k \in 1..(Len(q) + 1) /\ rest = SubSeq(q, k + 1, Len(q)) /\ Len(q) \in Nat
      /\ k =< Len(q) => q[k] \in ToSet(q)
  BY <1>1, Places DEF DrainsTo
<1>3. queue'[s] = rest /\ \A t \in Sessions : t # s => queue'[t] = queue[t]
  BY <1>1 DEF DrainsTo, PlaceInv, MemoryTypes
<1>4. \A i \in Inputs : Queued(i)' => Queued(i)
  <2>1. ToSet(rest) \subseteq ToSet(q)
    BY <1>2, RestAfter
  <2> QED BY <1>3, <2>1, SessionsOfInputs DEF Queued
<1>5. k =< Len(q) => Queued(q[k]) /\ phase[q[k]] = "none"
  BY <1>2 DEF Queued, PlaceInv, WaitersWait
<1>6. \A i \in Inputs : \/ phase'[i] = phase[i]
                        \/ phase[i] = "releasing" /\ phase'[i] = "over"
                        \/ phase'[i] = "admitting" /\ Queued(i) /\ phase[i] = "none"
  BY <1>1, <1>5 DEF DrainStarts, DrainRefuses
<1>7. RowsFollowRuns'
  BY <1>4, <1>6 DEF OutcomeInv, RowsFollowRuns, Arrived
<1>8. CancelsWin'
  BY <1>6 DEF OutcomeInv, CancelsWin
<1> QED BY <1>7, <1>8 DEF OutcomeInv

LEMMA ReleaseKeepsOutcomes ==
  ASSUME Inv, PlaceInv, FlagInv, OutcomeInv, NEW i \in Inputs, Release(i) PROVE OutcomeInv'
<1> DEFINE s == SessionOf[i]
<1>1. /\ s \in Sessions /\ queue[s] \in Seq(Inputs) /\ phase[i] = "releasing"
      /\ UNCHANGED <<row, verdict, cancelRequested, receipt, arrivals>>
  BY SessionsOfInputs DEF Release, PlaceInv, MemoryTypes, storeVars
<1>2. CASE closed
  <2>1. phase' = [phase EXCEPT ![i] = "over"] /\ queue' = [queue EXCEPT ![s] = <<>>]
    BY <1>2 DEF Release
  <2>2. ToSet(<<>>) = {}
    BY DEF ToSet
  <2>3. \A j \in Inputs : Queued(j)' => Queued(j)
    BY <2>1, <2>2, SessionsOfInputs DEF Queued, PlaceInv, MemoryTypes
  <2>4. RowsFollowRuns'
    BY <1>1, <2>1, <2>3 DEF OutcomeInv, RowsFollowRuns, Arrived, Inv, ControlTypes
  <2>5. CancelsWin'
    BY <1>1, <2>1 DEF OutcomeInv, CancelsWin, Inv, ControlTypes
  <2> QED BY <2>4, <2>5 DEF OutcomeInv
<1>3. CASE ~closed
  <2> DEFINE q == SteeringFirst(queue[s], steering)
  <2>1. PICK refused : Drain(s, q, refused)
    BY <1>3 DEF Release
  <2>2. q \in Seq(Inputs) /\ ToSet(q) = ToSet(queue[s])
    BY <1>1, SteeringFirstSorts DEF FlagInv, FlagTypes
  <2> HIDE DEF q, s
  <2> QED BY <1>1, <2>1, <2>2, DrainKeepsOutcomes
<1> QED BY <1>2, <1>3

LEMMA DrainGoesOnKeepsOutcomes ==
  ASSUME Inv, PlaceInv, OutcomeInv, NEW i \in Inputs, DrainGoesOn(i) PROVE OutcomeInv'
<1> DEFINE s == SessionOf[i]
<1>1. /\ s \in Sessions /\ queue[s] \in Seq(Inputs)
      /\ UNCHANGED <<row, verdict, cancelRequested, arrivals>>
      /\ \A j \in Inputs : receipt'[j] = "queued" => receipt[j] = "queued"
  BY SessionsOfInputs DEF DrainGoesOn, PlaceInv, MemoryTypes, Inv, TableTypes
<1>2. PICK refused : Drain(s, queue[s], refused)
  BY DEF DrainGoesOn
<1> HIDE DEF s
<1> QED BY <1>1, <1>2, DrainKeepsOutcomes

LEMMA CrashKeepsOutcomes == ASSUME OutcomeInv, Crash PROVE OutcomeInv'
<1>1. ToSet(<<>>) = {}
  BY DEF ToSet
<1>2. /\ queue' = [s \in Sessions |-> <<>>] /\ phase' = [i \in Inputs |-> "none"]
      /\ cancelRequested' = [i \in Inputs |-> FALSE] /\ UNCHANGED <<row, receipt, arrivals>>
  BY DEF Crash, storeVars
<1> QED BY <1>1, <1>2, SessionsOfInputs DEF OutcomeInv, RowsFollowRuns, CancelsWin, Queued, Arrived

\* A Run of the stopped process ends interrupted; whoever is restored has no row.
LEMMA RestartKeepsOutcomes ==
  ASSUME Inv, PlaceInv, FlagInv, OutcomeInv, Restart PROVE OutcomeInv'
<1> DEFINE first(i) == Restored(SessionOf[i]) # <<>> /\ i = Head(Restored(SessionOf[i]))
<1>1. /\ ~up /\ UNCHANGED <<verdict, cancelRequested, receipt, arrivals>>
      /\ queue' = [s \in Sessions |-> IF Restored(s) = <<>> THEN <<>> ELSE Tail(Restored(s))]
      /\ phase' = [i \in Inputs |-> IF first(i) THEN "admitting" ELSE "none"]
  BY Zenon DEF Restart
<1>2. row' = [i \in Inputs |-> IF row[i] = "running" THEN "interrupted" ELSE row[i]]
  BY DEF Restart, RunsRecovered
<1>3. \A i \in Inputs : ~cancelRequested[i]
  BY <1>1 DEF PlaceInv, NothingWhileDown, OutcomeInv, CancelsWin
<1>4. ASSUME NEW i \in Inputs, Queued(i)' \/ phase'[i] = "admitting" PROVE receipt[i] = "queued"
  <2> DEFINE q == Restored(SessionOf[i])
  <2>1. /\ SessionOf[i] \in Sessions /\ q \in Seq(Inputs)
        /\ \A j \in ToSet(q) : receipt[j] = "queued"
    BY SessionsOfInputs, RestoredOnce DEF FlagInv, FlagTypes
  <2>2. CASE q = <<>>
    <3>1. ToSet(<<>>) = {}
      BY DEF ToSet
    <3>2. queue'[SessionOf[i]] = <<>> /\ phase'[i] = "none"
      BY <1>1, <2>1, <2>2
    <3> QED BY <1>4, <3>1, <3>2 DEF Queued
  <2>3. CASE q # <<>>
    <3>1. queue'[SessionOf[i]] = Tail(q) /\ (phase'[i] = "admitting" => i = Head(q))
      BY <1>1, <2>1, <2>3
    <3>2. Head(q) \in ToSet(q) /\ ToSet(q) = {Head(q)} \cup ToSet(Tail(q))
      <4> HIDE DEF q
      <4> QED BY <2>1, <2>3, HeadFirst
    <3> HIDE DEF q
    <3> QED BY <1>4, <2>1, <3>1, <3>2 DEF Queued
  <2> QED BY <2>2, <2>3
<1>5. \A i \in Inputs : phase'[i] \in {"none", "admitting"}
  BY <1>1
<1>6. RowsFollowRuns'
  BY <1>1, <1>2, <1>4, <1>5 DEF OutcomeInv, RowsFollowRuns, Arrived
<1>7. CancelsWin'
  BY <1>1, <1>3 DEF OutcomeInv, CancelsWin
<1> QED BY <1>6, <1>7 DEF OutcomeInv

LEMMA NextKeepsOutcomes ==
  ASSUME Inv, PlaceInv, FlagInv, OutcomeInv, Next PROVE OutcomeInv'
<1>1. ASSUME Calm, Detached PROVE OutcomeInv'
  BY <1>1, DetachedKeepsOutcomes
<1>2. ASSUME NEW i \in Inputs, Producer(i) \/ SubmitReturns(i) \/ RemoveAbandoned(i) PROVE OutcomeInv'
  <2>1. CASE \/ ReserveWaitingWork(i) \/ ReleaseWaitingWork(i) \/ SubmitReturns(i)
             \/ AbandonWaiter(i) \/ RemoveAbandoned(i)
    BY <1>1, <2>1, ProducerIsCalm, ProducerIsDetached
  <2> QED BY <1>2, <2>1, AcceptKeepsOutcomes DEF Producer
<1>3. ASSUME NEW i \in Inputs, User(i) \/ LockHolder(i) PROVE OutcomeInv'
  <2>1. CASE RemoveBegins(i) \/ EditBegins(i) \/ SteerBegins(i) \/ Removes(i) \/ Edits(i) \/ Steers(i)
    BY <1>1, <2>1, UserIsCalm, MutationIsDetached DEF User
  <2>2. CASE ClearGoesOn(i)
    BY <1>1, <2>2, ClearIsCalm, MutationIsDetached
  <2> QED BY <1>3, <2>1, <2>2, CancelKeepsOutcomes, AcceptKeepsOutcomes, DrainGoesOnKeepsOutcomes
       DEF User, LockHolder
<1>4. ASSUME NEW s \in Sessions, ClearBegins(s) PROVE OutcomeInv'
  BY <1>1, <1>4, ClearIsCalm, ManagerIsDetached
<1>5. ASSUME LockedCallFails PROVE OutcomeInv'
  BY <1>1, <1>5, ManagerIsCalm, ManagerIsDetached
<1> QED BY <1>2, <1>3, <1>4, <1>5, RunStepKeepsOutcomes, SteeringKeepsOutcomes, ReleaseKeepsOutcomes,
     AcloseKeepsOutcomes, CrashKeepsOutcomes, RestartKeepsOutcomes DEF Next

LEMMA OutcomeInvariant == Spec => [](PlaceInv /\ OutcomeInv)
<1>1. Init => OutcomeInv
  <2>1. ToSet(<<>>) = {}
    BY DEF ToSet
  <2> QED BY <2>1, SessionsOfInputs DEF Init, OutcomeInv, RowsFollowRuns, CancelsWin, Queued, Arrived
<1>2. Inv /\ PlaceInv /\ FlagInv /\ OutcomeInv /\ [Next]_vars => OutcomeInv'
  <2>1. ASSUME OutcomeInv, UNCHANGED vars PROVE OutcomeInv'
    BY <2>1 DEF OutcomeInv, RowsFollowRuns, CancelsWin, Queued, Arrived, vars, runVars, storeVars
  <2> QED BY <2>1, NextKeepsOutcomes
<1> QED BY <1>1, <1>2, QueueInvariant, PTL DEF Spec

\* What a Run reports is what its row says, unless the commit of its end failed
\* and the Run says so; and a Run that was asked to stop (request_cancel,
\* aclose) is never recorded as completed, nor found interrupted.
THEOREM ReportsAreDurable == Spec => []OutcomeIsDurable
<1>1. OutcomeInv => OutcomeIsDurable
  BY DEF OutcomeInv, RowsFollowRuns, CancelsWin, OutcomeIsDurable
<1> QED BY <1>1, OutcomeInvariant, PTL

-----------------------------------------------------------------------------
(* The live Queue and the receipts.  They part over one kind of item only:   *)
(* the removal of one that a delivery took in flight after the removal had   *)
(* begun, which the run remove_race shows.                                   *)

Raced == Removable \cap Steerable
SteerableOnly ==
  /\ \A i \in Inputs : steering[i] \/ wantsSteering[i] \/ inflight[i] => i \in Steerable
  /\ \A r \in Inputs : ToSet(walk[r]) \subseteq Steerable
LockedFor ==
  /\ lock.use = "steer" => lock.item \in Steerable
  /\ lock.use = "remove" => lock.item \in Removable \cap Durable
  /\ lock.use = "edit" => ~steering[lock.item]
FreshUnedited == \A i \in Inputs : ~Arrived(i) => edited[i] = FALSE /\ rewritten[i] = FALSE
Agree ==
  \A i \in Durable : Queued(i) =>
    /\ edited[i] = rewritten[i]
    /\ receipt[i] = "queued" \/ (inflight[i] /\ withdrawn[i]) \/ i \in Raced
AgreeInv == SteerableOnly /\ LockedFor /\ FreshUnedited /\ Agree

\* A step that mutates no waiting item.
LockAloof == lock' = lock \/ lock'.use \notin {"steer", "remove", "edit"}
Aloof ==
  /\ UNCHANGED <<steering, wantsSteering, inflight, walk, edited, rewritten>> /\ LockAloof
  /\ \A i \in Inputs : Arrived(i) => Arrived(i)'
  /\ \A i \in Durable : Queued(i)' =>
       /\ Queued(i) /\ (withdrawn[i] => withdrawn'[i])
       /\ receipt[i] = "queued" /\ i \notin Raced => receipt'[i] = "queued"

LEMMA AloofKeepsAgreement == ASSUME AgreeInv, Aloof PROVE AgreeInv'
<1>1. SteerableOnly'
  BY DEF AgreeInv, SteerableOnly, Aloof
<1>2. LockedFor'
  BY DEF AgreeInv, LockedFor, Aloof, LockAloof
<1>3. FreshUnedited'
  BY DEF AgreeInv, FreshUnedited, Aloof
<1>4. Agree'
  BY DEF AgreeInv, Agree, Aloof
<1> QED BY <1>1, <1>2, <1>3, <1>4 DEF AgreeInv

LEMMA ProducerIsAloof ==
  ASSUME Inv, PlaceInv, NEW i \in Inputs,
         \/ ReserveWaitingWork(i) \/ ReleaseWaitingWork(i) \/ SubmitReturns(i) \/ AbandonWaiter(i)
         \/ RemoveAbandoned(i)
  PROVE  Aloof
<1>1. Calm
  BY ProducerIsCalm
<1>2. \A j \in Inputs : Queued(j)' => Queued(j) /\ phase[j] = "none"
  BY <1>1, SessionsOfInputs DEF Calm, QueuesShrink, Queued, PlaceInv, WaitersWait
<1>3. \A j \in Inputs : Arrived(j) => Arrived(j)'
  BY <1>1 DEF Calm, KnownStay, Arrived
<1> USE <1>2, <1>3, DurableInputs DEF Aloof, LockAloof, itemVars, runVars, storeVars, editVars, Inv, TableTypes
<1>4. CASE ReserveWaitingWork(i) \/ ReleaseWaitingWork(i)
  BY <1>4 DEF ReserveWaitingWork, ReleaseWaitingWork
<1>5. CASE AbandonWaiter(i) \/ RemoveAbandoned(i)
  BY <1>5 DEF AbandonWaiter, RemoveAbandoned
\* A Run that ended without a row is past its Queue.
<1>6. CASE SubmitReturns(i)
  <2>1. receipt' = [receipt EXCEPT ![i] = IF row[i] = "none" /\ @ = "queued" THEN "removed" ELSE @]
        /\ (row[i] # "none" \/ phase[i] \in {"releasing", "over"})
        /\ UNCHANGED <<steering, wantsSteering, inflight, withdrawn, walk, edited, rewritten, lock>>
    BY <1>6 DEF SubmitReturns
  <2>2. \A j \in Inputs : Queued(j)' /\ receipt[j] = "queued" => receipt'[j] = "queued"
    BY <2>1
  <2> QED BY <2>1, <2>2
<1> QED BY <1>4, <1>5, <1>6

LEMMA RunStepIsAloof ==
  ASSUME Inv, PlaceInv, NEW r \in Inputs, RunStep(r) \/ ExecutorStops(r) \/ RequestCancel(r)
  PROVE  Aloof
<1>1. Calm
  BY RunStepIsCalm, UserIsCalm DEF User
<1>2. \A j \in Inputs : Queued(j)' => Queued(j) /\ phase[j] = "none"
  BY <1>1, SessionsOfInputs DEF Calm, QueuesShrink, Queued, PlaceInv, WaitersWait
<1>3. \A j \in Inputs : Arrived(j) => Arrived(j)'
  BY <1>1 DEF Calm, KnownStay, Arrived
<1> USE <1>2, <1>3, DurableInputs DEF Aloof, LockAloof, itemVars, storeVars, editVars, Inv, TableTypes
<1>4. CASE AdmitCommits(r)
  BY <1>4 DEF AdmitCommits, Claim
<1>5. CASE AdmitFails(r) \/ CleanupEnds(r) \/ FinishFails(r) \/ MarkTerminal(r)
  BY <1>5 DEF AdmitFails, CleanupEnds, FinishFails, MarkTerminal
<1>6. CASE WriteInput(r)
  BY <1>6 DEF WriteInput, runVars
<1>7. CASE ExecutorStops(r)
  BY <1>7 DEF ExecutorStops, ExecutorEnds
<1>8. CASE FinishCommits(r)
  BY <1>8 DEF FinishCommits
<1>9. CASE RequestCancel(r)
  BY <1>9 DEF RequestCancel
<1> QED BY <1>4, <1>5, <1>6, <1>7, <1>8, <1>9 DEF RunStep

LEMMA ManagerIsAloof == ASSUME Inv, PlaceInv, LockedCallFails \/ Aclose PROVE Aloof
<1>1. Calm
  BY ManagerIsCalm
<1>2. \A j \in Inputs : Queued(j)' => Queued(j)
  BY <1>1, SessionsOfInputs DEF Calm, QueuesShrink, Queued
<1>3. \A j \in Inputs : Arrived(j) => Arrived(j)'
  BY <1>1 DEF Calm, KnownStay, Arrived
<1> USE <1>2, <1>3, DurableInputs DEF Aloof, LockAloof, itemVars, runVars, storeVars, editVars
<1>4. CASE LockedCallFails
  BY <1>4 DEF LockedCallFails, Free
<1>5. CASE Aclose
  BY <1>5 DEF Aclose
<1> QED BY <1>4, <1>5

LEMMA DrainIsAloof ==
  ASSUME PlaceInv, NEW s \in Sessions, NEW q \in Seq(Inputs), NEW refused,
         ToSet(q) = ToSet(queue[s]), Drain(s, q, refused),
         UNCHANGED <<steering, wantsSteering, inflight, withdrawn, walk, edited, rewritten, arrivals>>,
         \A i \in Inputs : Queued(i) => receipt'[i] = receipt[i]
  PROVE  Aloof
<1>1. PICK k, rest : DrainsTo(s, q, k, rest) /\ (DrainStarts(s, q, k) \/ DrainRefuses(s, q, k))
  BY DrainEffect
<1>2. /\ k \in 1..(Len(q) + 1) /\ rest = SubSeq(q, k + 1, Len(q)) /\ Len(q) \in Nat
      /\ queue'[s] = rest /\ \A t \in Sessions : t # s => queue'[t] = queue[t]
  BY <1>1 DEF DrainsTo, PlaceInv, MemoryTypes
<1>3. \A i \in Inputs : Queued(i)' => Queued(i)
  <2>1. ToSet(rest) \subseteq ToSet(q)
    BY <1>2, RestAfter
  <2> QED BY <1>2, <2>1, SessionsOfInputs DEF Queued
<1>4. LockAloof
  BY <1>1 DEF DrainStarts, DrainRefuses, LockAloof, Holds, Free
<1>5. \A i \in Inputs : Arrived(i) => Arrived(i)'
  BY DEF Arrived
<1> QED BY <1>3, <1>4, <1>5, DurableInputs DEF Aloof

LEMMA ReleaseIsAloof ==
  ASSUME Inv, PlaceInv, FlagInv, NEW i \in Inputs, Release(i) PROVE Aloof
<1> DEFINE s == SessionOf[i]
<1>1. /\ s \in Sessions /\ queue[s] \in Seq(Inputs)
      /\ UNCHANGED <<steering, wantsSteering, inflight, withdrawn, walk, edited, rewritten, arrivals, receipt>>
  BY SessionsOfInputs DEF Release, PlaceInv, MemoryTypes, storeVars, editVars
<1>2. CASE closed
  <2>1. queue' = [queue EXCEPT ![s] = <<>>] /\ lock' = lock
    BY <1>2 DEF Release
  <2>2. ToSet(<<>>) = {}
    BY DEF ToSet
  <2>3. \A j \in Inputs : Queued(j)' => Queued(j)
    BY <2>1, <2>2, SessionsOfInputs DEF Queued, PlaceInv, MemoryTypes
  <2>4. \A j \in Inputs : Arrived(j) => Arrived(j)'
    BY <1>1 DEF Arrived
  <2> QED BY <1>1, <2>1, <2>3, <2>4, DurableInputs DEF Aloof, LockAloof
<1>3. CASE ~closed
  <2> DEFINE q == SteeringFirst(queue[s], steering)
  <2>1. PICK refused : Drain(s, q, refused)
    BY <1>3 DEF Release
  <2>2. q \in Seq(Inputs) /\ ToSet(q) = ToSet(queue[s])
    BY <1>1, SteeringFirstSorts DEF FlagInv, FlagTypes
  <2> HIDE DEF q, s
  <2> QED BY <1>1, <2>1, <2>2, DrainIsAloof
<1> QED BY <1>2, <1>3

\* The refused item left the Queue before its receipt did.
LEMMA DrainGoesOnIsAloof ==
  ASSUME Inv, PlaceInv, NEW i \in Inputs, DrainGoesOn(i) PROVE Aloof
<1> DEFINE s == SessionOf[i]
<1>1. /\ s \in Sessions /\ queue[s] \in Seq(Inputs) /\ ~Queued(i)
      /\ UNCHANGED <<steering, wantsSteering, inflight, withdrawn, walk, edited, rewritten, arrivals>>
      /\ \A j \in Inputs : j # i => receipt'[j] = receipt[j]
  BY SessionsOfInputs DEF DrainGoesOn, PlaceInv, MemoryTypes, LockProtects, Inv, TableTypes, editVars
<1>2. PICK refused : Drain(s, queue[s], refused)
  BY DEF DrainGoesOn
<1>3. \A j \in Inputs : Queued(j) => receipt'[j] = receipt[j]
  BY <1>1
<1> HIDE DEF s
<1> QED BY <1>1, <1>2, <1>3, DrainIsAloof

\* A new input waits as it was accepted.
LEMMA AcceptanceKeepsAgreement ==
  ASSUME Inv, PlaceInv, FlagInv, AgreeInv, NEW i \in Inputs, Installs(i) \/ Joins(i),
         UNCHANGED <<inflight, withdrawn, walk, edited, rewritten>>,
         steering' = [steering EXCEPT ![i] = i \in Selected],
         wantsSteering' = wantsSteering \/ wantsSteering' = [wantsSteering EXCEPT ![i] = i \in Selected],
         i \in Durable => receipt'[i] = "queued",
         \A j \in Inputs : j # i => receipt'[j] = receipt[j]
  PROVE  AgreeInv'
<1>1. Accepted(i) /\ ~Arrived(i) /\ lock' = Free /\ edited[i] = FALSE /\ rewritten[i] = FALSE
  BY DEF Installs, Joins, Accepted, AgreeInv, FreshUnedited
<1>2. \A j \in Inputs : Arrived(j) => Arrived(j)'
  BY <1>1, Appended DEF Accepted, Arrived, PlaceInv, MemoryTypes
<1>3. \A j \in Inputs : j # i /\ Queued(j)' => Queued(j)
  <2>1. CASE Installs(i)
    BY <2>1 DEF Installs, Queued
  <2>2. CASE Joins(i)
    <3>1. \A t \in Sessions : ToSet(queue'[t]) \subseteq ToSet(queue[t]) \cup {i}
      BY <2>2, Appended, SessionsOfInputs DEF Joins, PlaceInv, MemoryTypes
    <3> QED BY <3>1, SessionsOfInputs DEF Queued
  <2> QED BY <2>1, <2>2
<1>4. \A j \in Inputs : /\ steering'[j] => steering[j] \/ j \in Steerable
                        /\ wantsSteering'[j] => wantsSteering[j] \/ j \in Steerable
  <2>1. (i \in Selected) \in BOOLEAN /\ (i \in Selected => i \in Steerable)
    BY InputAssumption
  <2>2. \A j \in Inputs : steering'[j] = (IF j = i THEN i \in Selected ELSE steering[j])
    BY DEF FlagInv, FlagTypes
  <2>3. \/ wantsSteering' = wantsSteering
        \/ \A j \in Inputs : wantsSteering'[j] = (IF j = i THEN i \in Selected ELSE wantsSteering[j])
    BY DEF FlagInv, FlagTypes
  <2> QED BY <2>1, <2>2, <2>3
<1>5. SteerableOnly'
  BY <1>4 DEF AgreeInv, SteerableOnly
<1>6. LockedFor'
  BY <1>1 DEF LockedFor, Free
<1>7. FreshUnedited'
  BY <1>2 DEF AgreeInv, FreshUnedited
<1>8. Agree'
  BY <1>1, <1>3, DurableInputs DEF AgreeInv, Agree
<1> QED BY <1>5, <1>6, <1>7, <1>8 DEF AgreeInv

LEMMA AcceptKeepsAgreement ==
  ASSUME Inv, PlaceInv, FlagInv, AgreeInv, NEW i \in Inputs,
         EnqueueStarts(i) \/ EnqueueWaits(i) \/ AcceptBegins(i) \/ AcceptStarts(i) \/ AcceptWaits(i)
  PROVE  AgreeInv'
<1>1. CASE EnqueueStarts(i)
  <2>1. /\ UNCHANGED <<inflight, withdrawn, walk, edited, rewritten, wantsSteering, receipt>>
        /\ steering' = [steering EXCEPT ![i] = i \in Selected] /\ i \notin Durable
    BY <1>1 DEF EnqueueStarts, storeVars, editVars
  <2> QED BY <1>1, <2>1, EnqueueInstalls, AcceptanceKeepsAgreement
<1>2. CASE EnqueueWaits(i)
  <2>1. /\ UNCHANGED <<inflight, withdrawn, walk, edited, rewritten, wantsSteering, receipt>>
        /\ steering' = [steering EXCEPT ![i] = i \in Selected] /\ i \notin Durable
    BY <1>2 DEF EnqueueWaits, storeVars, editVars, runVars
  <2> QED BY <1>2, <2>1, EnqueueJoins, AcceptanceKeepsAgreement
<1>3. CASE AcceptBegins(i)
  <2>1. /\ UNCHANGED <<steering, wantsSteering, inflight, withdrawn, walk, edited, rewritten, queue, receipt, arrivals>>
        /\ \/ lock' = Holds("accept_start", i, <<>>) \/ lock' = Holds("accept_queue", i, <<>>)
    BY <1>3 DEF AcceptBegins, runVars, storeVars, editVars
  <2>2. Aloof
    BY <2>1 DEF Aloof, LockAloof, Holds, Queued, Arrived
  <2> QED BY <2>2, AloofKeepsAgreement
<1>4. CASE AcceptStarts(i) \/ AcceptWaits(i)
  <2>1. /\ UNCHANGED <<inflight, withdrawn, walk, edited, rewritten>>
        /\ steering' = [steering EXCEPT ![i] = i \in Selected]
        /\ wantsSteering' = [wantsSteering EXCEPT ![i] = i \in Selected]
        /\ receipt' = [receipt EXCEPT ![i] = "queued"]
    BY <1>4 DEF AcceptStarts, AcceptWaits, Accepts, editVars
  <2>2. receipt'[i] = "queued" /\ \A j \in Inputs : j # i => receipt'[j] = receipt[j]
    BY <2>1 DEF Inv, TableTypes
  <2> QED BY <1>4, <2>1, <2>2, AcceptInstalls, AcceptJoins, AcceptanceKeepsAgreement
<1> QED BY <1>1, <1>2, <1>3, <1>4

\* The items gone leave the Queue, except those in flight, which are marked.
LEMMA WithdrawsTheItem ==
  ASSUME PlaceInv, FlagInv, NEW s \in Sessions, NEW gone, NEW flag \in BOOLEAN, Withdraws(s, gone, flag)
  PROVE  /\ \A j \in Inputs : (Queued(j)' => Queued(j)) /\ (withdrawn[j] => withdrawn'[j])
         /\ \A j \in Inputs : j \in gone /\ SessionOf[j] = s /\ Queued(j)' =>
              inflight[j] /\ (flag => withdrawn'[j])
<1> DEFINE leaving == {i \in gone : Queued(i) /\ ~inflight[i]}
<1>1. queue' = [queue EXCEPT ![s] = Without(@, leaving)]
      /\ withdrawn' = [i \in Inputs |-> withdrawn[i] \/ (flag /\ i \in gone /\ inflight[i])]
  BY DEF Withdraws
<1>2. \A j \in gone : Queued(j) /\ ~inflight[j] => j \in leaving
  OBVIOUS
<1> HIDE DEF leaving
<1>3. /\ ToSet(queue'[s]) = ToSet(queue[s]) \ leaving
      /\ \A t \in Sessions \ {s} : queue'[t] = queue[t]
  BY <1>1, ItemsLeave DEF PlaceInv
<1>4. \A j \in Inputs : (Queued(j)' => Queued(j)) /\ (j \in leaving /\ SessionOf[j] = s => ~Queued(j)')
  BY <1>3, SessionsOfInputs DEF Queued
<1>5. \A j \in Inputs : withdrawn'[j] = (withdrawn[j] \/ (flag /\ j \in gone /\ inflight[j]))
  BY <1>1
<1>6. \A j \in Inputs : withdrawn[j] => withdrawn'[j]
  BY <1>5, Zenon
<1>7. ASSUME NEW j \in Inputs, j \in gone, SessionOf[j] = s, Queued(j)'
      PROVE  inflight[j] /\ (flag => withdrawn'[j])
  <2>1. inflight[j]
    BY <1>2, <1>4, <1>7
  <2> QED BY <1>5, <1>7, <2>1, Zenon
<1> QED BY <1>4, <1>6, <1>7

LEMMA RemovalKeepsAgreement ==
  ASSUME Inv, PlaceInv, FlagInv, AgreeInv, NEW i \in Inputs, RemoveBegins(i) \/ Removes(i)
  PROVE  AgreeInv'
<1>1. \A j \in Inputs : Arrived(j) => Arrived(j)'
  BY DEF RemoveBegins, Removes, Arrived
<1>2. CASE RemoveBegins(i) /\ i \in Durable
  <2>1. /\ lock' = Holds("remove", i, <<>>) /\ i \in Removable \cap Durable
        /\ UNCHANGED <<queue, withdrawn, steering, wantsSteering, inflight, walk, edited, rewritten, receipt>>
    BY <1>2 DEF RemoveBegins, runVars, storeVars, editVars
  <2>2. SteerableOnly' /\ FreshUnedited' /\ Agree'
    BY <1>1, <2>1 DEF AgreeInv, SteerableOnly, FreshUnedited, Agree, Queued
  <2> QED BY <2>1, <2>2 DEF AgreeInv, LockedFor, Holds
<1>3. CASE RemoveBegins(i) /\ i \notin Durable
  <2>1. /\ Withdraws(SessionOf[i], {i}, FALSE)
        /\ UNCHANGED <<lock, steering, wantsSteering, inflight, walk, edited, rewritten, receipt>>
    BY <1>3 DEF RemoveBegins, runVars, storeVars, editVars
  <2>2. \A j \in Inputs : (Queued(j)' => Queued(j)) /\ (withdrawn[j] => withdrawn'[j])
    BY <2>1, WithdrawsTheItem, SessionsOfInputs
  <2>3. Aloof
    BY <1>1, <2>1, <2>2, DurableInputs DEF Aloof, LockAloof
  <2> QED BY <2>3, AloofKeepsAgreement
<1>4. CASE Removes(i)
  <2>1. /\ Withdraws(SessionOf[i], {i}, FALSE) /\ lock' = Free /\ lock.use = "remove" /\ lock.item = i
        /\ UNCHANGED <<steering, wantsSteering, inflight, walk, edited, rewritten>>
        /\ receipt' = [receipt EXCEPT ![i] = IF @ = "queued" THEN "removed" ELSE @]
    BY <1>4 DEF Removes, runVars, editVars
  <2>2. i \notin Raced => ~inflight[i]
    BY <2>1 DEF AgreeInv, LockedFor, SteerableOnly, Raced
  <2>3. /\ \A j \in Inputs : (Queued(j)' => Queued(j)) /\ (withdrawn[j] => withdrawn'[j])
        /\ \A j \in Inputs : j \in {i} /\ SessionOf[j] = SessionOf[i] /\ Queued(j)' =>
             inflight[j] /\ (FALSE => withdrawn'[j])
    BY <2>1, WithdrawsTheItem, SessionsOfInputs
  <2>4. \A j \in Inputs : Queued(j)' => Queued(j) /\ (j \notin Raced => receipt'[j] = receipt[j])
    BY <2>1, <2>2, <2>3 DEF Inv, TableTypes
  <2>5. Aloof
    BY <1>1, <2>1, <2>3, <2>4, DurableInputs DEF Aloof, LockAloof, Free
  <2> QED BY <2>5, AloofKeepsAgreement
<1> QED BY <1>2, <1>3, <1>4

LEMMA EditKeepsAgreement ==
  ASSUME Inv, PlaceInv, FlagInv, AgreeInv, NEW i \in Inputs, EditBegins(i) \/ Edits(i)
  PROVE  AgreeInv'
<1>1. /\ \A j \in Inputs : Arrived(j)' <=> Arrived(j)
      /\ UNCHANGED <<steering, wantsSteering, inflight, withdrawn, walk, receipt, queue>>
  BY DEF EditBegins, Edits, Arrived, itemVars, runVars, storeVars
<1>2. \A j \in Inputs : Queued(j)' <=> Queued(j)
  BY <1>1 DEF Queued
<1>3. SteerableOnly'
  BY <1>1 DEF AgreeInv, SteerableOnly
<1>4. CASE EditBegins(i)
  <2>1. /\ Queued(i) /\ Arrived(i) /\ ~steering[i] /\ rewritten' = rewritten
        /\ \/ i \in Durable /\ lock' = Holds("edit", i, <<>>) /\ edited' = edited
           \/ i \notin Durable /\ lock' = lock /\ lock = Free /\ edited' = [edited EXCEPT ![i] = TRUE]
    BY <1>4 DEF EditBegins, PlaceInv, KnownOnceAccepted
  <2>2. LockedFor'
    BY <1>1, <2>1 DEF LockedFor, Holds, Free
  <2>3. FreshUnedited'
    BY <1>1, <2>1 DEF AgreeInv, FreshUnedited, FlagInv, FlagTypes
  <2>4. Agree'
    BY <1>1, <1>2, <2>1, DurableInputs DEF AgreeInv, Agree, FlagInv, FlagTypes
  <2> QED BY <1>3, <2>2, <2>3, <2>4 DEF AgreeInv
\* Nobody steered the item while the call held the lock.
<1>5. CASE Edits(i)
  <2>1. lock' = Free /\ steering[i] = FALSE
    BY <1>5 DEF Edits, AgreeInv, LockedFor, FlagInv, FlagTypes
  <2>2. LockedFor'
    BY <2>1 DEF LockedFor, Free
  <2>3. CASE receipt[i] = "queued"
    <3> DEFINE e == edited[i] \/ (Queued(i) /\ ~steering[i])
    <3>1. /\ rewritten' = [rewritten EXCEPT ![i] = TRUE] /\ edited' = [edited EXCEPT ![i] = e]
          /\ Arrived(i)
      BY <1>5, <2>3 DEF Edits, PlaceInv, KnownOnceAccepted
    <3>2. e \in BOOLEAN /\ (Queued(i) => e = TRUE)
      BY <2>1 DEF FlagInv, FlagTypes
    <3> HIDE DEF e
    <3>3. /\ \A j \in Inputs : j # i => edited'[j] = edited[j] /\ rewritten'[j] = rewritten[j]
          /\ edited'[i] = e /\ rewritten'[i] = TRUE
      BY <3>1 DEF FlagInv, FlagTypes
    <3>4. FreshUnedited'
      BY <1>1, <3>1, <3>3 DEF AgreeInv, FreshUnedited
    <3>5. Agree'
      BY <1>1, <1>2, <2>3, <3>2, <3>3, DurableInputs DEF AgreeInv, Agree
    <3> QED BY <1>3, <2>2, <3>4, <3>5 DEF AgreeInv
  <2>4. CASE receipt[i] # "queued"
    <3>1. UNCHANGED <<edited, rewritten>>
      BY <1>5, <2>4 DEF Edits, editVars
    <3> QED BY <1>1, <1>2, <1>3, <2>2, <3>1, DurableInputs DEF AgreeInv, FreshUnedited, Agree
  <2> QED BY <2>3, <2>4
<1> QED BY <1>4, <1>5

LEMMA SteerKeepsAgreement ==
  ASSUME Inv, PlaceInv, FlagInv, AgreeInv, NEW i \in Inputs, SteerBegins(i) \/ Steers(i)
  PROVE  AgreeInv'
<1>1. /\ \A j \in Inputs : Arrived(j)' <=> Arrived(j)
      /\ UNCHANGED <<edited, rewritten, inflight, withdrawn, walk, receipt, queue>>
  BY DEF SteerBegins, Steers, Arrived, editVars, runVars, storeVars
<1>2. FreshUnedited' /\ Agree'
  BY <1>1, DurableInputs DEF AgreeInv, FreshUnedited, Agree, Queued
<1>3. i \in Steerable
  BY DEF SteerBegins, Steers, AgreeInv, LockedFor
<1>4. \A j \in Inputs : /\ steering'[j] => steering[j] \/ j = i
                        /\ wantsSteering'[j] => wantsSteering[j] \/ j = i
  <2>1. CASE SteerBegins(i)
    <3>1. wantsSteering' = wantsSteering /\ (steering' = steering \/ steering' = [steering EXCEPT ![i] = TRUE])
      BY <2>1 DEF SteerBegins, storeVars
    <3> QED BY <3>1 DEF FlagInv, FlagTypes
  <2>2. CASE Steers(i)
    <3>1. /\ wantsSteering' = wantsSteering \/ wantsSteering' = [wantsSteering EXCEPT ![i] = TRUE]
          /\ steering' = steering \/ \E b : steering' = [steering EXCEPT ![i] = b]
      BY <2>2 DEF Steers
    <3> QED BY <3>1 DEF FlagInv, FlagTypes
  <2> QED BY <2>1, <2>2
<1>5. SteerableOnly'
  BY <1>1, <1>3, <1>4 DEF AgreeInv, SteerableOnly
<1>6. LockedFor'
  <2>1. lock' = Free \/ lock' = Holds("steer", i, <<>>)
    BY DEF SteerBegins, Steers
  <2> QED BY <1>3, <2>1 DEF LockedFor, Free, Holds
<1> QED BY <1>2, <1>5, <1>6 DEF AgreeInv

\* A cleared item leaves, or is marked for the append that it is in.
LEMMA ClearKeepsAgreement ==
  ASSUME Inv, PlaceInv, FlagInv, AgreeInv,
         (\E s \in Sessions : ClearBegins(s)) \/ (\E i \in Inputs : ClearGoesOn(i))
  PROVE  AgreeInv'
<1>1. ASSUME NEW s \in Sessions, NEW gone, NEW rest \in Seq(Inputs), ClearsUpTo(s, gone, rest)
      PROVE  /\ LockAloof
             /\ \A j \in Inputs : (Queued(j)' => Queued(j)) /\ (withdrawn[j] => withdrawn'[j])
             /\ \A j \in Inputs : j \in gone /\ SessionOf[j] = s /\ Queued(j)' =>
                  inflight[j] /\ withdrawn'[j]
  <2> DEFINE k == FirstIn(rest, Durable)
             all == gone \cup {rest[m] : m \in 1..(k - 1)}
  <2>1. /\ Withdraws(s, all, TRUE)
        /\ lock' = IF k =< Len(rest) THEN Holds("clear", rest[k], SubSeq(rest, k + 1, Len(rest))) ELSE Free
    BY <1>1 DEF ClearsUpTo
  <2>2. gone \subseteq all
    OBVIOUS
  <2>3. LockAloof
    BY <2>1 DEF LockAloof, Holds, Free
  <2> HIDE DEF all
  <2>4. /\ \A j \in Inputs : (Queued(j)' => Queued(j)) /\ (withdrawn[j] => withdrawn'[j])
        /\ \A j \in Inputs : j \in all /\ SessionOf[j] = s /\ Queued(j)' =>
             inflight[j] /\ (TRUE => withdrawn'[j])
    BY <2>1, WithdrawsTheItem
  <2> QED BY <2>2, <2>3, <2>4
<1>2. ASSUME NEW s \in Sessions, ClearBegins(s) PROVE AgreeInv'
  <2>1. /\ ClearsUpTo(s, {}, queue[s]) /\ queue[s] \in Seq(Inputs)
        /\ UNCHANGED <<steering, wantsSteering, inflight, walk, edited, rewritten, receipt, arrivals>>
    BY <1>2 DEF ClearBegins, PlaceInv, MemoryTypes, runVars, storeVars, editVars
  <2>2. Aloof
    BY <1>1, <2>1, DurableInputs DEF Aloof, Arrived
  <2> QED BY <2>2, AloofKeepsAgreement
<1>3. ASSUME NEW i \in Inputs, ClearGoesOn(i) PROVE AgreeInv'
  <2>1. /\ ClearsUpTo(SessionOf[i], {i}, lock.rest)
        /\ UNCHANGED <<steering, wantsSteering, inflight, walk, edited, rewritten, arrivals>>
        /\ \A j \in Inputs : j # i => receipt'[j] = receipt[j]
    BY <1>3 DEF ClearGoesOn, runVars, editVars, Inv, TableTypes
  <2>2. lock.rest \in Seq(Inputs)
    BY <1>3 DEF ClearGoesOn, PlaceInv, MemoryTypes, LockedBy, Free
  <2>3. /\ LockAloof
        /\ \A j \in Inputs : (Queued(j)' => Queued(j)) /\ (withdrawn[j] => withdrawn'[j])
        /\ Queued(i)' => inflight[i] /\ withdrawn'[i]
    BY <1>1, <2>1, <2>2, SessionsOfInputs
  <2>4. SteerableOnly' /\ FreshUnedited'
    BY <2>1 DEF AgreeInv, SteerableOnly, FreshUnedited, Arrived
  <2>5. LockedFor'
    BY <2>1, <2>3 DEF AgreeInv, LockedFor, LockAloof
  <2>6. Agree'
    BY <2>1, <2>3, DurableInputs DEF AgreeInv, Agree
  <2> QED BY <2>4, <2>5, <2>6 DEF AgreeInv
<1> QED BY <1>2, <1>3

\* A delivery takes steered items of its Session in flight, and lets those gone go.
LEMMA DeliveryKeepsAgreement ==
  ASSUME Inv, FlagInv, AgreeInv, NEW r \in Inputs, NEW rest \in Seq(Inputs), NEW gone,
         ToSet(rest) \subseteq Steerable, Delivers(r, rest, gone),
         UNCHANGED <<steering, wantsSteering, withdrawn, lock, edited, rewritten, arrivals>>,
         \A i \in Inputs : Queued(i)' => Queued(i) /\ receipt'[i] = receipt[i] /\ i \notin gone
  PROVE  AgreeInv'
<1>1. ASSUME \A i \in Inputs : inflight[i] /\ i \notin gone => inflight'[i],
             \A i \in Inputs : inflight'[i] => inflight[i] \/ i \in Steerable,
             \A t \in Inputs : ToSet(walk'[t]) \subseteq Steerable
      PROVE  AgreeInv'
  <2>1. SteerableOnly'
    BY <1>1 DEF AgreeInv, SteerableOnly
  <2>2. LockedFor' /\ FreshUnedited'
    BY DEF AgreeInv, LockedFor, FreshUnedited, Arrived
  <2>3. Agree'
    BY <1>1, DurableInputs DEF AgreeInv, Agree
  <2> QED BY <2>1, <2>2, <2>3 DEF AgreeInv
<1>2. CASE DeliveryEnds(r, gone)
  <2>1. /\ \A i \in Inputs : inflight'[i] = (i \notin gone /\ inflight[i])
        /\ \A t \in Inputs : walk'[t] = IF t = r THEN <<>> ELSE walk[t]
    BY <1>2 DEF DeliveryEnds, FlagInv, FlagTypes
  <2>2. ToSet(<<>>) = {}
    BY DEF ToSet
  <2>3. \A t \in Inputs : ToSet(walk'[t]) \subseteq Steerable
    BY <2>1, <2>2 DEF AgreeInv, SteerableOnly
  <2>4. \A i \in Inputs : (inflight[i] /\ i \notin gone => inflight'[i]) /\ (inflight'[i] => inflight[i])
    BY <2>1, Zenon
  <2> QED BY <1>1, <2>3, <2>4
<1>3. ASSUME NEW i, NEW w, DeliveryGoesOn(r, rest, gone, i, w) PROVE AgreeInv'
  <2>1. /\ \A j \in Inputs : inflight'[j] = ((j \notin gone /\ inflight[j]) \/ j = i)
        /\ \A t \in Inputs : walk'[t] = IF t = r THEN w ELSE walk[t]
        /\ i \in Steerable /\ ToSet(w) \subseteq Steerable
    BY <1>3 DEF DeliveryGoesOn, FlagInv, FlagTypes
  <2>2. \A t \in Inputs : ToSet(walk'[t]) \subseteq Steerable
    BY <2>1 DEF AgreeInv, SteerableOnly
  <2>3. \A j \in Inputs : (inflight[j] /\ j \notin gone => inflight'[j])
                          /\ (inflight'[j] => inflight[j] \/ j \in Steerable)
    BY <2>1, Zenon
  <2> QED BY <1>1, <2>2, <2>3
<1> QED BY <1>2, <1>3, DeliveryEffect

LEMMA SteeringKeepsAgreement ==
  ASSUME Inv, PlaceInv, FlagInv, AgreeInv, NEW r \in Inputs, Steering(r)
  PROVE  AgreeInv'
<1>1. SessionOf[r] \in Sessions /\ MemoryTypes
  BY SessionsOfInputs DEF PlaceInv
<1>2. CASE Boundary(r)
  <2> DEFINE S == {i \in Inputs : steering[i] /\ (i \in Durable \/ future[i] \notin {"abandoned", "cancelled"})}
             rest == Kept(queue[SessionOf[r]], S)
  <2>1. /\ Delivers(r, rest, {})
        /\ UNCHANGED <<steering, wantsSteering, withdrawn, lock, edited, rewritten, arrivals, queue, receipt>>
    BY <1>2 DEF Boundary, storeVars, editVars
  <2>2. rest \in Seq(Inputs) /\ ToSet(rest) \subseteq Steerable
    <3>1. S \subseteq Steerable
      BY DEF AgreeInv, SteerableOnly
    <3>2. rest \in Seq(Inputs) /\ ToSet(rest) \subseteq S
      <4> HIDE DEF S
      <4> QED BY <1>1, KeptSelects DEF Selects, MemoryTypes
    <3> QED BY <3>1, <3>2
  <2> HIDE DEF rest
  <2> QED BY <2>1, <2>2, DeliveryKeepsAgreement DEF Queued
<1>3. CASE AppendCommits(r)
  <2> DEFINE a == append[r]
  <2>1. /\ a \in Inputs /\ Delivers(r, walk[r], {a}) /\ SteerClaim(r, a)
        /\ queue' = [queue EXCEPT ![SessionOf[r]] = Without(@, {a})]
        /\ UNCHANGED <<steering, wantsSteering, withdrawn, lock, edited, rewritten, arrivals>>
    BY <1>3 DEF AppendCommits, editVars
  <2>2. walk[r] \in Seq(Inputs) /\ ToSet(walk[r]) \subseteq Steerable /\ SessionOf[a] = SessionOf[r]
    BY <2>1, SessionsOfInputs DEF FlagInv, FlagTypes, AppendsAreInFlight, AgreeInv, SteerableOnly
  <2>3. \A i \in Inputs : i # a => receipt'[i] = receipt[i]
    BY <2>1 DEF SteerClaim, Inv, TableTypes
  <2> HIDE DEF a
  <2>4. /\ ToSet(queue'[SessionOf[r]]) = ToSet(queue[SessionOf[r]]) \ {a}
        /\ \A t \in Sessions \ {SessionOf[r]} : queue'[t] = queue[t]
    BY <1>1, <2>1, ItemsLeave
  <2>5. \A i \in Inputs : Queued(i)' => Queued(i) /\ receipt'[i] = receipt[i] /\ i \notin {a}
    BY <2>2, <2>3, <2>4, SessionsOfInputs DEF Queued
  <2> QED BY <2>1, <2>2, <2>5, DeliveryKeepsAgreement
\* A withdrawn item leaves; another one still has its receipt.
<1>4. CASE AppendFails(r)
  <2> DEFINE a == append[r]
  <2>1. /\ a # None /\ inflight' = [inflight EXCEPT ![a] = FALSE] /\ walk' = [walk EXCEPT ![r] = <<>>]
        /\ queue' = IF withdrawn[a] THEN [queue EXCEPT ![SessionOf[r]] = Without(@, {a})] ELSE queue
        /\ UNCHANGED <<steering, wantsSteering, withdrawn, lock, edited, rewritten, arrivals, receipt>>
    BY <1>4 DEF AppendFails, storeVars, editVars
  <2>2. a \in Inputs /\ SessionOf[a] = SessionOf[r]
    BY <2>1 DEF FlagInv, FlagTypes, AppendsAreInFlight
  <2>3. /\ \A i \in Inputs : i # a => inflight'[i] = inflight[i]
        /\ inflight'[a] = FALSE
        /\ \A t \in Inputs : walk'[t] = IF t = r THEN <<>> ELSE walk[t]
    BY <2>1, <2>2 DEF FlagInv, FlagTypes
  <2> HIDE DEF a
  <2>4. \A i \in Inputs : Queued(i)' => Queued(i) /\ (i = a => ~withdrawn[a])
    <3>1. CASE withdrawn[a]
      <4>1. /\ ToSet(queue'[SessionOf[r]]) = ToSet(queue[SessionOf[r]]) \ {a}
            /\ \A t \in Sessions \ {SessionOf[r]} : queue'[t] = queue[t]
        BY <1>1, <2>1, <3>1, ItemsLeave
      <4> QED BY <2>2, <4>1, SessionsOfInputs DEF Queued
    <3>2. CASE ~withdrawn[a]
      BY <2>1, <3>2 DEF Queued
    <3> QED BY <3>1, <3>2
  <2>5. SteerableOnly'
    <3>1. ToSet(<<>>) = {}
      BY DEF ToSet
    <3> QED BY <2>1, <2>3, <3>1 DEF AgreeInv, SteerableOnly
  <2>6. LockedFor' /\ FreshUnedited'
    BY <2>1 DEF AgreeInv, LockedFor, FreshUnedited, Arrived
  <2>7. Agree'
    BY <2>1, <2>3, <2>4, DurableInputs DEF AgreeInv, Agree
  <2> QED BY <2>5, <2>6, <2>7 DEF AgreeInv
<1> QED BY <1>2, <1>3, <1>4 DEF Steering

LEMMA CrashKeepsAgreement == ASSUME PlaceInv, AgreeInv, Crash PROVE AgreeInv'
<1>1. /\ lock' = Free /\ queue' = [s \in Sessions |-> <<>>] /\ UNCHANGED <<rewritten, wantsSteering, arrivals>>
      /\ steering' = [i \in Inputs |-> FALSE] /\ inflight' = [i \in Inputs |-> FALSE]
      /\ edited' = [i \in Inputs |-> FALSE] /\ walk' = [i \in Inputs |-> <<>>]
  BY DEF Crash, storeVars
<1>2. ToSet(<<>>) = {}
  BY DEF ToSet
<1>3. SteerableOnly'
  BY <1>1, <1>2 DEF AgreeInv, SteerableOnly
<1>4. LockedFor' /\ FreshUnedited'
  BY <1>1 DEF AgreeInv, LockedFor, FreshUnedited, Free, Arrived
<1>5. Agree'
  BY <1>1, <1>2, SessionsOfInputs, DurableInputs DEF Agree, Queued
<1> QED BY <1>3, <1>4, <1>5 DEF AgreeInv

\* What is restored is what the receipts say.
LEMMA RestartKeepsAgreement == ASSUME PlaceInv, FlagInv, AgreeInv, Restart PROVE AgreeInv'
<1>1. /\ ~up /\ UNCHANGED <<lock, rewritten, inflight, wantsSteering, walk, receipt, arrivals>>
      /\ queue' = [s \in Sessions |-> IF Restored(s) = <<>> THEN <<>> ELSE Tail(Restored(s))]
      /\ steering' = [i \in Inputs |-> receipt[i] = "queued" /\ wantsSteering[i]]
      /\ edited' = [i \in Inputs |-> receipt[i] = "queued" /\ rewritten[i]]
  BY Zenon DEF Restart
<1>2. \A i \in Inputs : /\ steering'[i] = (receipt[i] = "queued" /\ wantsSteering[i])
                        /\ edited'[i] = (receipt[i] = "queued" /\ rewritten[i])
  BY <1>1
<1>3. SteerableOnly'
  <2>1. \A i \in Inputs : steering'[i] => wantsSteering[i]
    BY <1>2, Zenon
  <2> QED BY <1>1, <2>1 DEF AgreeInv, SteerableOnly
<1>4. LockedFor'
  BY <1>1 DEF PlaceInv, NothingWhileDown, LockedFor, Free
<1>5. FreshUnedited'
  <2>1. \A i \in Inputs : rewritten[i] = FALSE => edited'[i] = FALSE
    BY <1>2
  <2> QED BY <1>1, <2>1 DEF AgreeInv, FreshUnedited, Arrived
<1>6. Agree'
  <2>1. ASSUME NEW i \in Durable, Queued(i)' PROVE receipt[i] = "queued"
    <3> DEFINE q == Restored(SessionOf[i])
    <3>1. /\ SessionOf[i] \in Sessions /\ q \in Seq(Inputs)
          /\ \A j \in ToSet(q) : receipt[j] = "queued"
      BY SessionsOfInputs, DurableInputs, RestoredOnce DEF FlagInv, FlagTypes
    <3>2. q # <<>> /\ queue'[SessionOf[i]] = Tail(q)
      <4>1. ToSet(<<>>) = {}
        BY DEF ToSet
      <4> QED BY <1>1, <2>1, <3>1, <4>1 DEF Queued
    <3>3. ToSet(q) = {Head(q)} \cup ToSet(Tail(q))
      <4> HIDE DEF q
      <4> QED BY <3>1, <3>2, HeadFirst
    <3> HIDE DEF q
    <3> QED BY <2>1, <3>1, <3>2, <3>3 DEF Queued
  <2>2. \A i \in Inputs : receipt[i] = "queued" => edited'[i] = rewritten[i]
    BY <1>2 DEF FlagInv, FlagTypes
  <2> QED BY <1>1, <2>1, <2>2, DurableInputs DEF Agree
<1> QED BY <1>3, <1>4, <1>5, <1>6 DEF AgreeInv

LEMMA NextKeepsAgreement ==
  ASSUME Inv, PlaceInv, FlagInv, AgreeInv, Next PROVE AgreeInv'
<1>1. ASSUME NEW i \in Inputs, Producer(i) \/ SubmitReturns(i) \/ RemoveAbandoned(i) PROVE AgreeInv'
  BY <1>1, AloofKeepsAgreement, ProducerIsAloof, AcceptKeepsAgreement DEF Producer
<1>2. ASSUME NEW i \in Inputs, User(i) \/ LockHolder(i) PROVE AgreeInv'
  BY <1>2, AloofKeepsAgreement, RunStepIsAloof, RemovalKeepsAgreement, EditKeepsAgreement,
     SteerKeepsAgreement, AcceptKeepsAgreement, ClearKeepsAgreement, DrainGoesOnIsAloof
     DEF User, LockHolder
<1>3. ASSUME NEW i \in Inputs, RunStep(i) \/ ExecutorStops(i) \/ Release(i) PROVE AgreeInv'
  BY <1>3, AloofKeepsAgreement, RunStepIsAloof, ReleaseIsAloof
<1>4. CASE LockedCallFails \/ Aclose
  BY <1>4, AloofKeepsAgreement, ManagerIsAloof
<1> QED BY <1>1, <1>2, <1>3, <1>4, ClearKeepsAgreement, SteeringKeepsAgreement, CrashKeepsAgreement,
     RestartKeepsAgreement DEF Next

LEMMA AgreeInvariant == Spec => [](PlaceInv /\ FlagInv /\ AgreeInv)
<1>1. Init => AgreeInv
  <2>1. ToSet(<<>>) = {}
    BY DEF ToSet
  <2> QED BY <2>1, SessionsOfInputs, DurableInputs
       DEF Init, AgreeInv, SteerableOnly, LockedFor, FreshUnedited, Agree, Queued, Arrived, Free
<1>2. Inv /\ PlaceInv /\ FlagInv /\ AgreeInv /\ [Next]_vars => AgreeInv'
  <2>1. ASSUME AgreeInv, UNCHANGED vars PROVE AgreeInv'
    BY <2>1 DEF AgreeInv, SteerableOnly, LockedFor, FreshUnedited, Agree, Queued, Arrived, vars, itemVars,
       runVars, storeVars, editVars
  <2> QED BY <2>1, NextKeepsAgreement
<1> QED BY <1>1, <1>2, QueueInvariant, PTL DEF Spec

\* The only disagreement there is: an item that its user may remove and steer.
OnlyRacedDisagree ==
  \A i \in Durable : Queued(i) =>
    \/ receipt[i] = "queued" /\ (edited[i] <=> rewritten[i])
    \/ inflight[i] \/ i \in Removable \cap Steerable

\* No removal, edit, clear or failed append leaves a Queue and the receipts
\* apart (queued_input_mutation, clear_queued_many, deliver_steering), except
\* over an item that can be both removed by its user and steered: the removal
\* of one that a delivery took in flight meanwhile leaves it in the Queue.
THEOREM MutationsAgree == Spec => []OnlyRacedDisagree
<1>1. AgreeInv => OnlyRacedDisagree
  BY DEF AgreeInv, Agree, OnlyRacedDisagree, Raced
<1> QED BY <1>1, AgreeInvariant, PTL

\* Where no durable input is of that kind, the Queue and the receipts agree
\* after every mutation (queued_input_mutation, clear_queued_many).
THEOREM QueueIsDurable ==
  Durable \cap Removable \cap Steerable = {} => (Spec => []QueueMatchesReceipts)
<1> SUFFICES ASSUME Durable \cap Removable \cap Steerable = {} PROVE Spec => []QueueMatchesReceipts
  OBVIOUS
<1>1. PlaceInv /\ AgreeInv => QueueMatchesReceipts
  BY DurableInputs
  DEF PlaceInv, WaitersWait, AgreeInv, Agree, Raced, QueueMatchesReceipts, Queued
<1> QED BY <1>1, AgreeInvariant, PTL
=============================================================================
