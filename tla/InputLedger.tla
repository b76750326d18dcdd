---------------------------- MODULE InputLedger ----------------------------
(***************************************************************************)
(* What accepting ordinary input promises, whoever runs, steers, cancels,  *)
(* crashes or restarts: each input is answered by a Run of its own, or     *)
(* joined to a running one, or withdrawn unanswered, at most one of these  *)
(* and at most once; and History keeps the message of every answered one.  *)
(***************************************************************************)
CONSTANT Inputs

VARIABLES
  fate,    \* new, queued, started (own Run), steered (another's), removed
  told,    \* inputs whose message is in History
  ended    \* inputs whose own Run has a committed outcome

vars == <<fate, told, ended>>

Init == fate = [i \in Inputs |-> "none"] /\ told = {} /\ ended = {}

Moves(i, from, to) == fate[i] = from /\ fate' = [fate EXCEPT ![i] = to]

Accept(i) == Moves(i, "none", "queued") /\ UNCHANGED <<told, ended>>
Withdraw(i) == Moves(i, "queued", "removed") /\ UNCHANGED <<told, ended>>
Claim(i) == Moves(i, "queued", "started") /\ UNCHANGED <<told, ended>>
Steer(i) == Moves(i, "queued", "steered") /\ told' = told \cup {i} /\ UNCHANGED ended
Tell(i) ==
  /\ fate[i] = "started" /\ i \notin told \cup ended
  /\ told' = told \cup {i} /\ UNCHANGED <<fate, ended>>
\* One Run ends, or a restart ends every Run a stopped process left.
Settle(S) ==
  /\ \A i \in S : fate[i] = "started" /\ i \notin ended
  /\ told' = told \cup S /\ ended' = ended \cup S /\ UNCHANGED fate

Next ==
  \/ \E i \in Inputs : Accept(i) \/ Withdraw(i) \/ Claim(i) \/ Steer(i) \/ Tell(i)
  \/ \E S \in SUBSET Inputs : Settle(S)

Spec == Init /\ [][Next]_vars
=============================================================================
