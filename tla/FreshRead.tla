----------------------------- MODULE FreshRead -----------------------------
(***************************************************************************)
(* What a shared refresh promises each of its callers, whoever else asks:  *)
(* the call is answered once, and the answer is the state as it was at a   *)
(* moment after what the call asked for, or a failure.                     *)
(***************************************************************************)
EXTENDS Integers

CONSTANTS Calls, None, Failed

VARIABLES
  contents,  \* the version of the state the refresh rereads
  asked,     \* the oldest version each call accepts, None before the call
  answer     \* the version it was given, Failed, or None

vars == <<contents, asked, answer>>

Init ==
  /\ contents = 0
  /\ asked = [c \in Calls |-> None]
  /\ answer = [c \in Calls |-> None]

Change ==
  /\ contents' = contents + 1
  /\ UNCHANGED <<asked, answer>>

Ask(c) ==
  /\ asked[c] = None
  /\ \E v \in 0..contents : asked' = [asked EXCEPT ![c] = v]
  /\ UNCHANGED <<contents, answer>>

Answer(c) ==
  /\ asked[c] # None /\ answer[c] = None
  /\ \E v \in asked[c]..contents \cup {Failed} : answer' = [answer EXCEPT ![c] = v]
  /\ UNCHANGED <<contents, asked>>

Next == Change \/ \E c \in Calls : Ask(c) \/ Answer(c)

Spec == Init /\ [][Next]_vars
=============================================================================
