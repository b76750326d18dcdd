-------------------------- MODULE InstantSnapshot --------------------------
(***************************************************************************)
(* What a data snapshot promises: although its copies are made one after   *)
(* another, it shows the contents of one moment at which no compound       *)
(* mutation was under way, or there is no snapshot.                        *)
(***************************************************************************)
EXTENDS Integers

CONSTANTS Members, Mutators, Captures, Takes, None

VARIABLES
  contents,   \* the committed version of each member
  open,       \* mutators inside a compound mutation
  candidate,  \* what a capture would publish, or None
  published   \* what it published, or None

vars == <<contents, open, candidate, published>>

\* The members a capture c takes, as they are now.
Now(c) == [m \in Takes[c] |-> contents[m]]

Init ==
  /\ contents = [m \in Members |-> 0] /\ open = {}
  /\ candidate = [c \in Captures |-> None] /\ published = [c \in Captures |-> None]

Write(m) ==
  /\ contents' = [contents EXCEPT ![m] = @ + 1]
  /\ UNCHANGED <<open, candidate, published>>
Open(a) == open' = open \cup {a} /\ UNCHANGED <<contents, candidate, published>>
Close(a) == open' = open \ {a} /\ UNCHANGED <<contents, candidate, published>>
Take(c) ==
  /\ open = {} /\ candidate[c] = None /\ published[c] = None
  /\ candidate' = [candidate EXCEPT ![c] = Now(c)]
  /\ UNCHANGED <<contents, open, published>>
Drop(S) ==
  /\ candidate' = [c \in Captures |-> IF c \in S THEN None ELSE candidate[c]]
  /\ UNCHANGED <<contents, open, published>>
Publish(c) ==
  /\ candidate[c] # None
  /\ candidate' = [candidate EXCEPT ![c] = None]
  /\ published' = [published EXCEPT ![c] = candidate[c]]
  /\ UNCHANGED <<contents, open>>

Next ==
  \/ \E m \in Members : Write(m)
  \/ \E a \in Mutators : Open(a) \/ Close(a)
  \/ \E c \in Captures : Take(c) \/ Publish(c)
  \/ \E S \in SUBSET Captures : Drop(S)

Spec == Init /\ [][Next]_vars
=============================================================================
