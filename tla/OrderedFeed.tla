----------------------------- MODULE OrderedFeed -----------------------------
(***************************************************************************)
(* What core/event_stream.py promises an accessor (class docstring, lines  *)
(* 32-37): the first event of a subscription may lie beyond the requested  *)
(* cursor, after that head no sequence number is ever skipped or repeated, *)
(* nothing is delivered before it is published, and an ended subscription  *)
(* delivers nothing more.                                                  *)
(***************************************************************************)
EXTENDS Naturals

CONSTANTS Subscribers

VARIABLES
  last,       \* number of the newest published event
  position,   \* newest event delivered to each subscriber, or its start cursor
  head,       \* the subscriber has received its first event
  started,    \* the subscription is running or over
  over        \* the subscription ended

vars == <<last, position, head, started, over>>

Init ==
  /\ last = 0
  /\ position = [s \in Subscribers |-> 0]
  /\ head = [s \in Subscribers |-> FALSE]
  /\ started = [s \in Subscribers |-> FALSE]
  /\ over = [s \in Subscribers |-> FALSE]

Emit ==
  /\ last' = last + 1
  /\ UNCHANGED <<position, head, started, over>>

\* The requested cursor may be any number.
Open(s) ==
  /\ ~started[s]
  /\ started' = [started EXCEPT ![s] = TRUE]
  /\ position'[s] \in Nat
  /\ position' = [position EXCEPT ![s] = position'[s]]
  /\ UNCHANGED <<last, head, over>>

Yield(s, e) ==
  /\ started[s] /\ ~over[s]
  /\ e =< last
  /\ IF head[s] THEN e = position[s] + 1 ELSE e > position[s]
  /\ position' = [position EXCEPT ![s] = e]
  /\ head' = [head EXCEPT ![s] = TRUE]
  /\ UNCHANGED <<last, started, over>>

End(s) ==
  /\ started[s] /\ ~over[s]
  /\ over' = [over EXCEPT ![s] = TRUE]
  /\ UNCHANGED <<last, position, head, started>>

Next ==
  \/ Emit
  \/ \E s \in Subscribers :
       \/ Open(s)
       \/ \E e \in 1..last : Yield(s, e)
       \/ End(s)

Spec == Init /\ [][Next]_vars
=============================================================================
