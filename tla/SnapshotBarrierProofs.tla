----------------------- MODULE SnapshotBarrierProofs -----------------------
(***************************************************************************)
(* Proofs about SnapshotBarrier, for any actors, members, captures and     *)
(* bounds, and that it implements InstantSnapshot.                         *)
(***************************************************************************)
EXTENDS SnapshotBarrier, FiniteSetTheorems, SequenceTheorems, TLAPS

-----------------------------------------------------------------------------
(* The inductive invariant *)

Positive == Nat \ {0}
\* What the two counters count: each compound mutation an actor is inside of,
\* each admitted change of a held member.
CompoundEntries == {e \in Actors \X Positive : e[2] <= compounds[e[1]]}
HeldEntries ==
  {e \in Actors \X Positive : e[2] <= Len(changes[e[1]]) /\ changes[e[1]][e[2]] = "held"}
Counted ==
  /\ IsFiniteSet(CompoundEntries) /\ mutations = Cardinality(CompoundEntries)
  /\ IsFiniteSet(HeldEntries) /\ inFlight = Cardinality(HeldEntries)

Exclusive == {"freeze", "drain", "copy", "thaw", "end"}
\* One capture at a time holds the barrier, and then no compound mutation runs;
\* the freeze is the one it made.
BarrierHeld ==
  /\ \A c \in Captures : pc[c] \in Exclusive => capturing
  /\ \A c, d \in Captures : pc[c] \in Exclusive /\ pc[d] \in Exclusive => c = d
  /\ capturing => mutations = 0
  /\ \A c \in Captures : freeze = c <=> pc[c] \in {"drain", "copy", "thaw"}
  /\ \A c \in Captures : pc[c] = "idle" => attempts[c] = 0

\* While nothing disturbs the copies, no held change is in flight.
FreezeHolds ==
  \A c \in Captures : pc[c] \in Frozen /\ ~disturbed[c] => inFlight = 0

\* What has been copied, and when.
Agrees(c) ==
  /\ \A m \in Members : instant[c][m] <= contents[m]
  /\ pc[c] = "copy" /\ ~disturbed[c] =>
       \A m \in Held : copies[c][m] \in {None, contents[m]}
  /\ pc[c] \in {"thaw", "end"} /\ ~disturbed[c] /\ ~failing[c] =>
       \A m \in Copied[c] \ Trailing : copies[c][m] = instant[c][m]
  /\ pc[c] \in {"trail", "done"} => ~disturbed[c] /\ ~failing[c]
  /\ pc[c] \in {"barrier", "freeze", "drain"} =>
       \A m \in Members : copies[c][m] = None
  /\ pc[c] \notin {"trail", "done", "failed"} =>
       \A m \in Trailing : copies[c][m] = None
  /\ pc[c] = "trail" =>
       \A m \in Trailing : copies[c][m] = None \/ copies[c][m] >= instant[c][m]
CopiesAgree == \A c \in Captures : Agrees(c)

BarrierInv ==
  /\ TypeOK /\ Counted /\ BarrierHeld /\ FreezeHolds /\ CopiesAgree
  /\ SnapshotIsOneInstant /\ TrailingIsAhead /\ WaitersHoldNothing
-----------------------------------------------------------------------------
(* Counting *)

\* Entering or leaving adds or removes one entry.
LEMMA OneMore ==
  ASSUME NEW S, NEW x, IsFiniteSet(S), x \notin S
  PROVE  IsFiniteSet(S \cup {x}) /\ Cardinality(S \cup {x}) = Cardinality(S) + 1
  BY FS_AddElement

LEMMA OneLess ==
  ASSUME NEW S, NEW x, IsFiniteSet(S), x \in S
  PROVE  /\ IsFiniteSet(S \ {x}) /\ Cardinality(S \ {x}) = Cardinality(S) - 1
         /\ Cardinality(S) \in Nat \ {0}
  BY FS_RemoveElement, FS_CardinalityType, FS_EmptySet

\* A counter is above zero while an actor is inside of what it counts, and
\* zero when no actor is.
LEMMA Inside ==
  ASSUME TypeOK, Counted
  PROVE  /\ \A a \in Actors : compounds[a] > 0 => mutations > 0
         /\ mutations = 0 => \A a \in Actors : compounds[a] = 0
         /\ \A a \in Actors, i \in Positive :
              i <= Len(changes[a]) /\ changes[a][i] = "held" => inFlight > 0
<1>1. \A a \in Actors : compounds[a] > 0 => <<a, 1>> \in CompoundEntries
  BY DEF CompoundEntries, Positive, TypeOK
<1>2. \A a \in Actors, i \in Positive :
        i <= Len(changes[a]) /\ changes[a][i] = "held" => <<a, i>> \in HeldEntries
  BY DEF HeldEntries
<1>3. /\ CompoundEntries # {} => mutations > 0
      /\ HeldEntries # {} => inFlight > 0
  BY FS_EmptySet DEF Counted, TypeOK
<1>4. \A a \in Actors : compounds[a] \in Nat
  BY DEF TypeOK
<1>5. \A a \in Actors : compounds[a] > 0 => mutations > 0
  BY <1>1, <1>3
<1>6. \A a \in Actors, i \in Positive :
        i <= Len(changes[a]) /\ changes[a][i] = "held" => inFlight > 0
  BY <1>2, <1>3
<1> QED
  BY <1>4, <1>5, <1>6

\* What entering a change does to an actor's nest of changes.
LEMMA AppendFacts ==
  ASSUME NEW S, NEW s \in Seq(S), NEW x \in S
  PROVE  /\ Append(s, x) \in Seq(S) /\ Len(Append(s, x)) = Len(s) + 1
         /\ Append(s, x)[Len(s) + 1] = x /\ \A i \in 1..Len(s) : Append(s, x)[i] = s[i]
         /\ Len(s) \in Nat
  OBVIOUS

\* What leaving one does.
LEMMA FrontFacts ==
  ASSUME NEW S, NEW s \in Seq(S), s # <<>>
  PROVE  /\ Len(s) \in Nat \ {0} /\ s[Len(s)] \in S
         /\ SubSeq(s, 1, Len(s) - 1) \in Seq(S)
         /\ Len(SubSeq(s, 1, Len(s) - 1)) = Len(s) - 1
         /\ \A i \in 1..(Len(s) - 1) : SubSeq(s, 1, Len(s) - 1)[i] = s[i]
<1>1. Len(s) \in Nat \ {0} /\ s[Len(s)] \in S
  OBVIOUS
<1> DEFINE n == Len(s) - 1
<1>2. n \in Int /\ \A i \in 1..n : s[i] \in S
  OBVIOUS
<1>3. /\ SubSeq(s, 1, n) \in Seq(S) /\ Len(SubSeq(s, 1, n)) = IF 1 <= n THEN n - 1 + 1 ELSE 0
      /\ \A i \in 1..(n - 1 + 1) : SubSeq(s, 1, n)[i] = s[1 + i - 1]
  BY <1>2, SubSeqProperties
<1>4. n \in Nat /\ 1..(n - 1 + 1) = 1..n /\ \A i \in 1..n : s[1 + i - 1] = s[i]
  BY <1>1
<1>5. Len(SubSeq(s, 1, n)) = n
  <2> HIDE DEF n
  <2>1. Len(SubSeq(s, 1, n)) = IF 1 <= n THEN n - 1 + 1 ELSE 0
    BY <1>3
  <2>2. n \in Nat
    BY <1>4
  <2> QED
    BY <2>1, <2>2
<1>6. \A i \in 1..n : SubSeq(s, 1, n)[i] = s[i]
  BY <1>3, <1>4
<1> QED
  BY <1>1, <1>3, <1>5, <1>6

\* Compound mutations are counted in and out.
LEMMA CompoundsCounted ==
  ASSUME TypeOK, Counted, NEW a \in Actors
  PROVE  /\ EnterCompound(a) => Counted' /\ mutations' \in Nat
         /\ LeaveCompound(a) => Counted' /\ mutations' \in Nat
<1>1. ASSUME EnterCompound(a), ~capturing
      PROVE  Counted' /\ mutations' \in Nat
  <2> DEFINE e == <<a, compounds[a] + 1>>
  <2>1. CompoundEntries' = CompoundEntries \cup {e} /\ e \notin CompoundEntries
    <3>1. /\ compounds[a] \in Nat /\ compounds'[a] = compounds[a] + 1
          /\ \A b \in Actors : compounds[b] \in Nat /\ (b # a => compounds'[b] = compounds[b])
      BY <1>1 DEF EnterCompound, TypeOK
    <3> QED
      BY <3>1 DEF CompoundEntries, Positive
  <2>2. HeldEntries' = HeldEntries /\ inFlight' = inFlight /\ mutations' = mutations + 1
    BY <1>1 DEF EnterCompound, HeldEntries, gateVars
  <2>3. IsFiniteSet(CompoundEntries') /\ Cardinality(CompoundEntries') = mutations + 1
    BY <2>1, OneMore DEF Counted
  <2> QED
    BY <2>2, <2>3 DEF Counted, TypeOK
<1>2. ASSUME EnterCompound(a), capturing
      PROVE  Counted' /\ mutations' \in Nat
  BY <1>2 DEF EnterCompound, Counted, CompoundEntries, HeldEntries, gateVars, TypeOK
<1>3. ASSUME LeaveCompound(a)
      PROVE  Counted' /\ mutations' \in Nat
  <2> DEFINE e == <<a, compounds[a]>>
  <2>1. CompoundEntries' = CompoundEntries \ {e} /\ e \in CompoundEntries
    BY <1>3 DEF LeaveCompound, CompoundEntries, Positive, TypeOK
  <2>2. HeldEntries' = HeldEntries /\ inFlight' = inFlight /\ mutations' = mutations - 1
    BY <1>3 DEF LeaveCompound, HeldEntries, gateVars
  <2>3. /\ IsFiniteSet(CompoundEntries') /\ Cardinality(CompoundEntries') = mutations - 1
        /\ mutations \in Nat \ {0}
    BY <2>1, OneLess DEF Counted
  <2> QED
    BY <2>2, <2>3 DEF Counted
<1> QED
  BY <1>1, <1>2, <1>3

\* A change is counted in.
LEMMA EnterCounted ==
  ASSUME TypeOK, Counted, NEW a \in Actors, NEW kind \in Kinds, Enters(a, kind),
         UNCHANGED <<mutations, compounds>>
  PROVE  Counted' /\ inFlight' \in Nat /\ changes' \in [Actors -> Seq(Kinds)]
<1> DEFINE e == <<a, Len(changes[a]) + 1>>
<1>1. changes' \in [Actors -> Seq(Kinds)]
  BY AppendFacts DEF Enters, TypeOK
<1>2. CompoundEntries' = CompoundEntries
  BY DEF CompoundEntries
<1>3. CASE kind = "held"
  <2>1. HeldEntries' = HeldEntries \cup {e} /\ e \notin HeldEntries
    BY <1>3, AppendFacts DEF Enters, HeldEntries, Positive, TypeOK
  <2>2. IsFiniteSet(HeldEntries') /\ Cardinality(HeldEntries') = inFlight + 1
    BY <2>1, OneMore DEF Counted
  <2> QED
    BY <1>1, <1>2, <1>3, <2>2 DEF Counted, TypeOK, Enters
<1>4. CASE kind = "free"
  <2>1. HeldEntries' = HeldEntries
    BY <1>4, AppendFacts DEF Enters, HeldEntries, Positive, TypeOK
  <2> QED
    BY <1>1, <1>2, <1>4, <2>1 DEF Counted, TypeOK, Enters
<1> QED
  BY <1>3, <1>4 DEF Kinds

\* A change is counted out.
LEMMA LeaveCounted ==
  ASSUME TypeOK, Counted, NEW a \in Actors, LeaveChange(a)
  PROVE  Counted' /\ inFlight' \in Nat /\ changes' \in [Actors -> Seq(Kinds)]
<1> DEFINE e == <<a, Len(changes[a])>>
           kind == changes[a][Len(changes[a])]
<1>1. changes' \in [Actors -> Seq(Kinds)] /\ kind \in Kinds /\ changes[a] \in Seq(Kinds)
  BY FrontFacts DEF LeaveChange, TypeOK
<1>2. CompoundEntries' = CompoundEntries /\ mutations' = mutations
  BY DEF CompoundEntries, LeaveChange, barrierVars
<1>3. CASE kind = "held"
  <2>1. HeldEntries' = HeldEntries \ {e} /\ e \in HeldEntries
    BY <1>1, <1>3, FrontFacts DEF LeaveChange, HeldEntries, Positive, TypeOK
  <2>2. /\ IsFiniteSet(HeldEntries') /\ Cardinality(HeldEntries') = inFlight - 1
        /\ inFlight \in Nat \ {0}
    BY <2>1, OneLess DEF Counted
  <2> QED
    BY <1>1, <1>2, <1>3, <2>2 DEF Counted, LeaveChange
<1>4. CASE kind = "free"
  <2>1. HeldEntries' = HeldEntries
    BY <1>1, <1>4, FrontFacts DEF LeaveChange, HeldEntries, Positive, TypeOK
  <2> QED
    BY <1>1, <1>2, <1>4, <2>1 DEF Counted, TypeOK, LeaveChange
<1> QED
  BY <1>1, <1>3, <1>4 DEF Kinds
-----------------------------------------------------------------------------
(* Every step keeps the invariant *)

\* Where the captures are after one of them goes on.
LEMMA Moves ==
  ASSUME TypeOK, NEW c \in Captures, NEW to, Goes(c, to)
  PROVE  \A d \in Captures : pc'[d] = IF d = c THEN to ELSE pc[d]
  BY DEF Goes, TypeOK

\* What the counters keep beside their meaning.
CountersType ==
  mutations \in Nat /\ inFlight \in Nat /\ changes \in [Actors -> Seq(Kinds)]

\* The counters count.
LEMMA CountedStep ==
  ASSUME TypeOK, Counted, [Next]_vars
  PROVE  Counted' /\ CountersType'
<1>1. ASSUME NEW a \in Actors,
             EnterCompound(a) \/ LeaveCompound(a)
      PROVE  Counted' /\ CountersType'
  BY <1>1, CompoundsCounted DEF EnterCompound, LeaveCompound, gateVars, CountersType, TypeOK
<1>2. ASSUME NEW a \in Actors, EnterHeld(a)
      PROVE  Counted' /\ CountersType'
  <2>1. CASE Enters(a, "held")
    BY <1>2, <2>1, EnterCounted DEF EnterHeld, Kinds, barrierVars, CountersType, TypeOK
  <2>2. CASE UNCHANGED <<changes, inFlight>>
    BY <1>2, <2>2 DEF EnterHeld, Counted, CompoundEntries, HeldEntries, barrierVars,
       CountersType, TypeOK
  <2> QED
    BY <1>2, <2>1, <2>2 DEF EnterHeld
<1>3. ASSUME NEW a \in Actors, EnterFree(a)
      PROVE  Counted' /\ CountersType'
  BY <1>3, EnterCounted DEF EnterFree, Kinds, barrierVars, CountersType, TypeOK
<1>4. ASSUME NEW a \in Actors, LeaveChange(a)
      PROVE  Counted' /\ CountersType'
  BY <1>4, LeaveCounted DEF LeaveChange, barrierVars, CountersType, TypeOK
<1>5. ASSUME NEW a \in Actors, NEW m \in Members, Commit(a, m)
      PROVE  Counted' /\ CountersType'
  <2>1. UNCHANGED <<mutations, compounds, changes, inFlight>>
    BY <1>5 DEF Commit, actorVars, gateVars, barrierVars
  <2> QED
    BY <2>1 DEF Counted, CompoundEntries, HeldEntries, CountersType, TypeOK
<1>6. ASSUME NEW c \in Captures,
             StartCapture(c) \/ BeginCapture(c) \/ BarrierGivesUp(c) \/ Freeze(c) \/
             FreezeTakes(c) \/ (\E m \in Members : CopyHeld(c, m)) \/ CopyAnchor(c) \/
             CopyFails(c) \/ (\E m \in Members : CopyTrailing(c, m)) \/ Finish(c)
      PROVE  Counted' /\ CountersType'
  <2>1. UNCHANGED <<mutations, compounds, changes, inFlight>>
    BY <1>6 DEF StartCapture, BeginCapture, BarrierGivesUp, Freeze, FreezeTakes, CopyHeld,
       CopyAnchor, CopyFails, CopyTrailing, Finish, actorVars, gateVars, barrierVars
  <2> QED
    BY <2>1 DEF Counted, CompoundEntries, HeldEntries, CountersType, TypeOK
<1>7. ASSUME NEW c \in Captures,
             DrainGivesUp(c) \/ Thaw(c) \/ EndCapture(c)
      PROVE  Counted' /\ CountersType'
  <2>1. UNCHANGED <<mutations, compounds, changes, inFlight>>
    BY <1>7 DEF DrainGivesUp, Thaw, EndCapture, gateVars, barrierVars
  <2> QED
    BY <2>1 DEF Counted, CompoundEntries, HeldEntries, CountersType, TypeOK
<1>8. CASE UNCHANGED vars
  BY <1>8 DEF Counted, CompoundEntries, HeldEntries, CountersType, TypeOK, vars, actorVars,
     gateVars
<1>9. ASSUME NEW a \in Actors, Mutates(a)
      PROVE  Counted' /\ CountersType'
  BY <1>9, <1>1, <1>2, <1>3, <1>4, <1>5 DEF Mutates
<1>10. ASSUME NEW c \in Captures, StartCapture(c) \/ CapturesOn(c)
      PROVE  Counted' /\ CountersType'
  BY <1>10, <1>6, <1>7 DEF CapturesOn, Waits, CopiesOn
<1> QED
  BY <1>9, <1>10, <1>8 DEF Next

\* The barrier has one holder, and no compound mutation beside it.
LEMMA BarrierStep ==
  ASSUME TypeOK, Counted, BarrierHeld, [Next]_vars
  PROVE  BarrierHeld'
<1>1. ASSUME NEW a \in Actors, EnterCompound(a)
      PROVE  BarrierHeld'
  BY <1>1 DEF EnterCompound, BarrierHeld, gateVars, captureVars
<1>2. ASSUME NEW a \in Actors, LeaveCompound(a)
      PROVE  BarrierHeld'
  BY <1>2, Inside DEF LeaveCompound, BarrierHeld, gateVars, captureVars, TypeOK
<1>3. ASSUME NEW a \in Actors,
             EnterHeld(a) \/ EnterFree(a) \/ LeaveChange(a) \/ (\E m \in Members : Commit(a, m))
      PROVE  BarrierHeld'
  BY <1>3 DEF EnterHeld, EnterFree, LeaveChange, Commit, BarrierHeld, barrierVars, gateVars,
     captureVars
<1>4. ASSUME NEW c \in Captures, StartCapture(c)
      PROVE  BarrierHeld'
  BY <1>4 DEF StartCapture, Begins, Goes, BarrierHeld, Exclusive, TypeOK, gateVars
<1>5. ASSUME NEW c \in Captures, BeginCapture(c)
      PROVE  BarrierHeld'
  BY <1>5 DEF BeginCapture, Quiet, Goes, BarrierHeld, Exclusive, TypeOK, gateVars
<1>6. ASSUME NEW c \in Captures, BarrierGivesUp(c)
      PROVE  BarrierHeld'
  BY <1>6 DEF BarrierGivesUp, Goes, BarrierHeld, Exclusive, TypeOK, gateVars
<1>7. ASSUME NEW c \in Captures, Freeze(c)
      PROVE  BarrierHeld'
  BY <1>7, NoneAssumption DEF Freeze, Goes, BarrierHeld, Exclusive, TypeOK
<1>8. ASSUME NEW c \in Captures, FreezeTakes(c)
      PROVE  BarrierHeld'
  BY <1>8 DEF FreezeTakes, Goes, BarrierHeld, Exclusive, TypeOK, gateVars
<1>9. ASSUME NEW c \in Captures,
             DrainGivesUp(c) \/ Thaw(c)
      PROVE  BarrierHeld'
  <2>1. /\ pc[c] \in {"drain", "thaw"} /\ Goes(c, "end") /\ freeze' = None
        /\ UNCHANGED <<mutations, capturing, attempts>>
    BY <1>9 DEF DrainGivesUp, Thaw, Releases, barrierVars
  <2> QED
    BY <2>1, Moves, NoneAssumption DEF BarrierHeld, Exclusive
<1>10. ASSUME NEW c \in Captures, NEW m \in Members,
             CopyHeld(c, m) \/ CopyTrailing(c, m)
      PROVE  BarrierHeld'
  BY <1>10 DEF CopyHeld, CopyTrailing, BarrierHeld, gateVars
<1>11. ASSUME NEW c \in Captures,
             CopyAnchor(c) \/ CopyFails(c)
      PROVE  BarrierHeld'
  <2>1. /\ pc[c] = "copy" /\ Goes(c, "thaw")
        /\ UNCHANGED <<mutations, capturing, freeze, attempts>>
    BY <1>11 DEF CopyAnchor, CopyFails, gateVars
  <2> QED
    BY <2>1, Moves DEF BarrierHeld, Exclusive
<1>12. ASSUME NEW c \in Captures, EndCapture(c)
      PROVE  BarrierHeld'
  <2>1. /\ pc[c] = "end" /\ \E to \in {"barrier", "failed", "trail"} : Goes(c, to)
        /\ capturing' = FALSE /\ UNCHANGED <<mutations, freeze>>
        /\ \A d \in Captures : pc[d] = "idle" => attempts'[d] = attempts[d]
    BY <1>12 DEF EndCapture, Begins, Goes, gateVars, TypeOK
  <2> QED
    BY <2>1, Moves DEF BarrierHeld, Exclusive
<1>13. ASSUME NEW c \in Captures, Finish(c)
      PROVE  BarrierHeld'
  <2>1. /\ pc[c] = "trail" /\ \E to \in {"done", "failed"} : Goes(c, to)
        /\ UNCHANGED <<mutations, capturing, freeze, attempts>>
    BY <1>13 DEF Finish, gateVars
  <2> QED
    BY <2>1, Moves DEF BarrierHeld, Exclusive
<1>14. CASE UNCHANGED vars
  BY <1>14 DEF BarrierHeld, vars, gateVars, captureVars
<1>15. ASSUME NEW a \in Actors, Mutates(a)
      PROVE  BarrierHeld'
  BY <1>15, <1>1, <1>2, <1>3 DEF Mutates
<1>16. ASSUME NEW c \in Captures, StartCapture(c) \/ CapturesOn(c)
      PROVE  BarrierHeld'
  BY <1>16, <1>4, <1>5, <1>6, <1>7, <1>8, <1>9, <1>10, <1>11, <1>12, <1>13 DEF CapturesOn,
     Waits, CopiesOn
<1> QED
  BY <1>15, <1>16, <1>14 DEF Next

\* An undisturbed freeze keeps held changes out.
LEMMA FreezeStep ==
  ASSUME TypeOK, Counted, BarrierHeld, FreezeHolds, [Next]_vars
  PROVE  FreezeHolds'
<1>1. ASSUME NEW a \in Actors,
             EnterCompound(a) \/ LeaveCompound(a)
      PROVE  FreezeHolds'
  BY <1>1 DEF EnterCompound, LeaveCompound, FreezeHolds, gateVars, captureVars
<1>2. ASSUME NEW a \in Actors, EnterHeld(a)
      PROVE  FreezeHolds'
  <2>1. CASE freeze = None
    BY <1>2, <2>1, NoneAssumption DEF EnterHeld, Enters, FreezeHolds, BarrierHeld, Frozen,
       captureVars
  <2>2. CASE disturbed' = Disturbs /\ freeze # None
    BY <1>2, <2>2 DEF EnterHeld, Disturbs, FreezeHolds, BarrierHeld, Frozen, captureVars
  <2>3. CASE UNCHANGED <<inFlight, disturbed>>
    BY <1>2, <2>3 DEF EnterHeld, FreezeHolds, captureVars
  <2> QED
    BY <1>2, <2>1, <2>2, <2>3 DEF EnterHeld
<1>3. ASSUME NEW a \in Actors, EnterFree(a)
      PROVE  FreezeHolds'
  BY <1>3 DEF EnterFree, Enters, FreezeHolds, captureVars
<1>4. ASSUME NEW a \in Actors, LeaveChange(a)
      PROVE  FreezeHolds'
  <2>1. Len(changes[a]) \in Positive
    BY <1>4, FrontFacts DEF LeaveChange, Positive, TypeOK
  <2>2. inFlight = 0 => inFlight' = 0
    BY <1>4, <2>1, Inside DEF LeaveChange, TypeOK, Positive
  <2> QED
    BY <1>4, <2>2 DEF LeaveChange, FreezeHolds, captureVars
<1>5. ASSUME NEW a \in Actors, NEW m \in Members, Commit(a, m)
      PROVE  FreezeHolds'
  BY <1>5 DEF Commit, FreezeHolds, gateVars, captureVars
<1>6. ASSUME NEW c \in Captures, StartCapture(c)
      PROVE  FreezeHolds'
  BY <1>6, Moves DEF StartCapture, Begins, FreezeHolds, Frozen, gateVars
<1>7. ASSUME NEW c \in Captures,
             BeginCapture(c) \/ BarrierGivesUp(c)
      PROVE  FreezeHolds'
  BY <1>7, Moves DEF BeginCapture, BarrierGivesUp, FreezeHolds, Frozen, gateVars
<1>8. ASSUME NEW c \in Captures, Freeze(c)
      PROVE  FreezeHolds'
  BY <1>8, Moves DEF Freeze, FreezeHolds, Frozen, TypeOK
<1>9. ASSUME NEW c \in Captures, FreezeTakes(c)
      PROVE  FreezeHolds'
  BY <1>9, Moves DEF FreezeTakes, Drained, FreezeHolds, Frozen, gateVars
<1>10. ASSUME NEW c \in Captures,
             DrainGivesUp(c) \/ Thaw(c)
      PROVE  FreezeHolds'
  BY <1>10, Moves DEF DrainGivesUp, Thaw, FreezeHolds, Frozen
<1>11. ASSUME NEW c \in Captures, NEW m \in Members,
             CopyHeld(c, m) \/ CopyTrailing(c, m)
      PROVE  FreezeHolds'
  BY <1>11 DEF CopyHeld, CopyTrailing, FreezeHolds, gateVars
<1>12. ASSUME NEW c \in Captures,
             CopyAnchor(c) \/ CopyFails(c)
      PROVE  FreezeHolds'
  BY <1>12, Moves DEF CopyAnchor, CopyFails, FreezeHolds, Frozen, gateVars
<1>13. ASSUME NEW c \in Captures, EndCapture(c)
      PROVE  FreezeHolds'
  BY <1>13, Moves DEF EndCapture, Begins, FreezeHolds, Frozen, gateVars
<1>14. ASSUME NEW c \in Captures, Finish(c)
      PROVE  FreezeHolds'
  BY <1>14, Moves DEF Finish, FreezeHolds, Frozen, gateVars
<1>15. CASE UNCHANGED vars
  BY <1>15 DEF FreezeHolds, vars, gateVars, captureVars
<1>16. ASSUME NEW a \in Actors, Mutates(a)
      PROVE  FreezeHolds'
  BY <1>16, <1>1, <1>2, <1>3, <1>4, <1>5 DEF Mutates
<1>17. ASSUME NEW c \in Captures, StartCapture(c) \/ CapturesOn(c)
      PROVE  FreezeHolds'
  BY <1>17, <1>6, <1>7, <1>8, <1>9, <1>10, <1>11, <1>12, <1>13, <1>14 DEF CapturesOn, Waits,
     CopiesOn
<1> QED
  BY <1>16, <1>17, <1>15 DEF Next

\* What the captures hold after one of them has copied some members.
LEMMA CopiesFacts ==
  ASSUME TypeOK, NEW c \in Captures, NEW S, Copies(c, S)
  PROVE  /\ copies' \in [Captures -> [Members -> Nat \cup {None}]]
         /\ \A d \in Captures, m \in Members :
              copies'[d][m] = IF d = c /\ m \in S THEN contents[m] ELSE copies[d][m]
  BY DEF Copies, TypeOK

\* An attempt begins without copies.
LEMMA BeginsFacts ==
  ASSUME TypeOK, NEW c \in Captures, Begins(c)
  PROVE  \A d \in Captures :
           /\ pc'[d] = IF d = c THEN "barrier" ELSE pc[d]
           /\ attempts'[d] = IF d = c THEN attempts[c] + 1 ELSE attempts[d]
           /\ \A m \in Members : copies'[d][m] = IF d = c THEN None ELSE copies[d][m]
  BY Moves DEF Begins, NoCopies, TypeOK

\* The types of what an attempt sets.
LEMMA BeginsTypes ==
  ASSUME TypeOK, NEW c \in Captures, Begins(c), attempts[c] < Attempts
  PROVE  /\ pc' \in [Captures -> {"idle", "barrier", "freeze", "drain", "copy", "thaw", "end",
                                  "trail", "done", "failed"}]
         /\ attempts' \in [Captures -> 0..Attempts]
         /\ copies' \in [Captures -> [Members -> Nat \cup {None}]]
<1>1. attempts[c] + 1 \in 0..Attempts
  BY ActorAssumption DEF TypeOK
<1>2. NoCopies \in [Members -> Nat \cup {None}]
  BY DEF NoCopies
<1> QED
  BY <1>1, <1>2 DEF Begins, Goes, TypeOK

\* What an undisturbed capture has copied stays the data of one instant.
LEMMA CopiesStep ==
  ASSUME TypeOK, Counted, BarrierHeld, FreezeHolds, CopiesAgree, [Next]_vars
  PROVE  CopiesAgree'
<1>1. ASSUME NEW a \in Actors,
             EnterCompound(a) \/ LeaveCompound(a)
      PROVE  CopiesAgree'
  BY <1>1 DEF EnterCompound, LeaveCompound, CopiesAgree, Agrees, gateVars, captureVars
<1>2. ASSUME NEW a \in Actors, EnterHeld(a)
      PROVE  CopiesAgree'
  <2>1. /\ \A c \in Captures : disturbed[c] => disturbed'[c]
        /\ \A c \in Captures : pc[c] \in {"trail", "done"} => disturbed'[c] = disturbed[c]
    BY <1>2 DEF EnterHeld, Disturbs, Frozen, TypeOK
  <2>2. UNCHANGED <<contents, pc, failing, copies, instant>>
    BY <1>2 DEF EnterHeld, captureVars
  <2> QED
    BY <2>1, <2>2 DEF CopiesAgree, Agrees
<1>3. ASSUME NEW a \in Actors,
             EnterFree(a) \/ LeaveChange(a)
      PROVE  CopiesAgree'
  BY <1>3 DEF EnterFree, LeaveChange, CopiesAgree, Agrees, captureVars
<1>4. ASSUME NEW a \in Actors, NEW m \in Members, Commit(a, m)
      PROVE  CopiesAgree'
  <2>1. m \in Held => inFlight > 0
    BY <1>4, FrontFacts, Inside DEF Commit, KindOf, Positive, TypeOK
  <2>2. UNCHANGED <<pc, disturbed, failing, copies, instant>>
    BY <1>4 DEF Commit, captureVars, gateVars
  <2>3. \A n \in Members : /\ contents'[n] >= contents[n]
                           /\ n # m => contents'[n] = contents[n]
    BY <1>4 DEF Commit, TypeOK
  <2>6. \A n \in Members : contents[n] \in Nat /\ contents'[n] \in Nat
    BY <1>4 DEF Commit, TypeOK
  <2>4. ASSUME NEW c \in Captures, NEW n \in Members
        PROVE  instant[c][n] <= contents'[n]
    <3>1. instant[c][n] \in Nat /\ instant[c][n] <= contents[n]
      BY DEF CopiesAgree, Agrees, TypeOK
    <3> QED
      BY <2>3, <2>6, <3>1
  <2>5. ASSUME NEW c \in Captures, pc[c] = "copy", ~disturbed[c], NEW n \in Held
        PROVE  contents'[n] = contents[n]
    BY <2>1, <2>3, <2>5 DEF FreezeHolds, Frozen, Members, TypeOK
  <2> QED
    BY <2>2, <2>4, <2>5 DEF CopiesAgree, Agrees
<1>5. ASSUME NEW c \in Captures, StartCapture(c)
      PROVE  CopiesAgree'
  <2>1. Begins(c) /\ UNCHANGED <<contents, disturbed, failing, instant>>
    BY <1>5 DEF StartCapture, gateVars
  <2>2. ASSUME NEW d \in Captures
        PROVE  Agrees(d)'
    <3>1. CASE d = c
      BY <2>1, BeginsFacts, MemberAssumption, <3>1, MemberAssumption DEF CopiesAgree,
         Agrees, Members
    <3>2. CASE d # c
      BY <2>1, BeginsFacts, MemberAssumption, <3>2, MemberAssumption DEF CopiesAgree,
         Agrees, Members
    <3> QED
      BY <3>1, <3>2
  <2> QED
    BY <2>2 DEF CopiesAgree
<1>6. ASSUME NEW c \in Captures,
             BeginCapture(c) \/ BarrierGivesUp(c)
      PROVE  CopiesAgree'
  BY <1>6, Moves DEF BeginCapture, BarrierGivesUp, CopiesAgree, Agrees, gateVars
<1>7. ASSUME NEW c \in Captures, Freeze(c)
      PROVE  CopiesAgree'
  BY <1>7, Moves DEF Freeze, CopiesAgree, Agrees, TypeOK
<1>8. ASSUME NEW c \in Captures, FreezeTakes(c)
      PROVE  CopiesAgree'
  BY <1>8, Moves DEF FreezeTakes, CopiesAgree, Agrees, Members, gateVars
<1>9. ASSUME NEW c \in Captures,
             DrainGivesUp(c) \/ CopyFails(c)
      PROVE  CopiesAgree'
  <2>1. /\ pc[c] \in {"drain", "copy"} /\ \E to \in {"end", "thaw"} : Goes(c, to)
        /\ failing' = [failing EXCEPT ![c] = TRUE]
        /\ UNCHANGED <<contents, disturbed, copies, instant>>
    BY <1>9 DEF DrainGivesUp, CopyFails, gateVars
  <2> QED
    BY <2>1, Moves DEF CopiesAgree, Agrees, TypeOK
<1>10. ASSUME NEW c \in Captures, NEW m \in Members, CopyHeld(c, m)
      PROVE  CopiesAgree'
  <2>1. /\ pc[c] = "copy" /\ m \in Held
        /\ UNCHANGED <<contents, pc, disturbed, failing, instant>>
    BY <1>10 DEF CopyHeld, Missing, gateVars
  <2> QED
    BY <1>10, <2>1, CopiesFacts, MemberAssumption DEF CopyHeld, CopiesAgree, Agrees, Members
<1>11. ASSUME NEW c \in Captures, CopyAnchor(c)
      PROVE  CopiesAgree'
  <2>1. /\ pc[c] = "copy" /\ Goes(c, "thaw") /\ Copies(c, Anchors \cap Copied[c])
        /\ UNCHANGED <<contents, disturbed, failing>>
        /\ \A d \in Captures : instant'[d] = IF d = c THEN contents ELSE instant[d]
        /\ \A m \in Held \cap Copied[c] : copies[c][m] # None
    BY <1>11 DEF CopyAnchor, HeldCopied, Missing, gateVars, TypeOK
  <2>2. \A d \in Captures, m \in Members : instant'[d][m] <= contents'[m]
    <3>1. \A d \in Captures, m \in Members : instant[d][m] <= contents[m] /\ contents[m] \in Nat
      BY DEF CopiesAgree, Agrees, TypeOK
    <3> QED
      BY <2>1, <3>1
  <2>3. ~disturbed[c] => \A m \in Copied[c] \ Trailing : copies'[c][m] = instant'[c][m]
    BY <2>1, CopiesFacts, MemberAssumption DEF CopiesAgree, Agrees, Members
  <2>4. /\ \A d \in Captures : d # c => \A m \in Members : copies'[d][m] = copies[d][m]
        /\ \A m \in Trailing : copies'[c][m] = copies[c][m]
    BY <2>1, CopiesFacts, MemberAssumption DEF Members
  <2>5. /\ pc'[c] = "thaw"
        /\ \A d \in Captures : d # c => pc'[d] = pc[d] /\ instant'[d] = instant[d]
    BY <2>1, Moves
  <2>6. pc[c] = "copy" /\ UNCHANGED <<contents, disturbed, failing>>
    BY <2>1
  <2>7. ASSUME NEW d \in Captures
        PROVE  Agrees(d)'
    <3>1. CASE d = c
      <4>1. pc'[c] = "thaw" /\ \A m \in Trailing : copies'[c][m] = None
        BY <2>4, <2>5, <2>6 DEF CopiesAgree, Agrees, Members
      <4> QED
        BY <2>2, <2>3, <2>6, <3>1, <4>1 DEF Agrees
    <3>2. CASE d # c
      <4>1. /\ pc'[d] = pc[d] /\ instant'[d] = instant[d]
            /\ \A m \in Members : copies'[d][m] = copies[d][m]
        BY <2>4, <2>5, <3>2
      <4> QED
        BY <2>6, <4>1, MemberAssumption DEF CopiesAgree, Agrees, Members
    <3> QED
      BY <3>1, <3>2
  <2> QED
    BY <2>7 DEF CopiesAgree
<1>12. ASSUME NEW c \in Captures, Thaw(c)
      PROVE  CopiesAgree'
  BY <1>12, Moves DEF Thaw, CopiesAgree, Agrees
<1>13. ASSUME NEW c \in Captures, NEW m \in Members, CopyTrailing(c, m)
      PROVE  CopiesAgree'
  <2>1. /\ pc[c] = "trail" /\ m \in Trailing
        /\ UNCHANGED <<contents, pc, disturbed, failing, instant>>
    BY <1>13 DEF CopyTrailing, CopiesTrailing, Missing, gateVars
  <2>2. \A d \in Captures, n \in Members :
          copies'[d][n] = IF d = c /\ n = m THEN contents[n] ELSE copies[d][n]
    BY <1>13, CopiesFacts DEF CopyTrailing
  <2>3. instant[c][m] \in Nat /\ contents[m] \in Nat /\ contents[m] >= instant[c][m]
    BY <2>1 DEF CopiesAgree, Agrees, TypeOK
  <2>4. ASSUME NEW d \in Captures
        PROVE  Agrees(d)'
    <3>1. CASE d = c
      BY <2>1, <2>2, <2>3, <3>1, MemberAssumption DEF CopiesAgree, Agrees, Members
    <3>2. CASE d # c
      BY <2>1, <2>2, <2>3, <3>2, MemberAssumption DEF CopiesAgree, Agrees, Members
    <3> QED
      BY <3>1, <3>2
  <2> QED
    BY <2>4 DEF CopiesAgree
<1>14. ASSUME NEW c \in Captures, EndCapture(c)
      PROVE  CopiesAgree'
  <2>1. /\ pc[c] = "end" /\ UNCHANGED <<contents, disturbed, failing, instant>>
    BY <1>14 DEF EndCapture, gateVars
  <2>2. CASE Begins(c)
    <3> SUFFICES ASSUME NEW d \in Captures
                 PROVE  Agrees(d)'
      BY DEF CopiesAgree
    <3>1. CASE d = c
      BY <2>1, <2>2, <3>1, BeginsFacts, MemberAssumption DEF CopiesAgree, Agrees, Members
    <3>2. CASE d # c
      BY <2>1, <2>2, <3>2, BeginsFacts, MemberAssumption DEF CopiesAgree, Agrees, Members
    <3> QED
      BY <3>1, <3>2
  <2>3. CASE UNCHANGED copies /\ Goes(c, IF failing[c] \/ disturbed[c] THEN "failed" ELSE "trail")
    BY <2>1, <2>3, Moves DEF CopiesAgree, Agrees
  <2> QED
    BY <1>14, <2>2, <2>3 DEF EndCapture
<1>15. ASSUME NEW c \in Captures, Finish(c)
      PROVE  CopiesAgree'
  BY <1>15, Moves DEF Finish, CopiesAgree, Agrees, gateVars
<1>16. CASE UNCHANGED vars
  BY <1>16 DEF CopiesAgree, Agrees, vars, gateVars, captureVars
<1>17. ASSUME NEW a \in Actors, Mutates(a)
      PROVE  CopiesAgree'
  BY <1>17, <1>1, <1>2, <1>3, <1>4 DEF Mutates
<1>18. ASSUME NEW c \in Captures, StartCapture(c) \/ CapturesOn(c)
      PROVE  CopiesAgree'
  BY <1>18, <1>5, <1>6, <1>7, <1>8, <1>9, <1>10, <1>11, <1>12, <1>13, <1>14, <1>15 DEF
     CapturesOn, Waits, CopiesOn
<1> QED
  BY <1>17, <1>18, <1>16 DEF Next

\* Who waits holds nothing that another one waits for.
LEMMA WaitersStep ==
  ASSUME TypeOK, Counted, BarrierHeld, WaitersHoldNothing, [Next]_vars
  PROVE  WaitersHoldNothing'
<1>1. ASSUME NEW a \in Actors,
             EnterCompound(a) \/ LeaveCompound(a)
      PROVE  WaitersHoldNothing'
  BY <1>1 DEF EnterCompound, LeaveCompound, Runs, WaitersHoldNothing, TypeOK
<1>2. ASSUME NEW a \in Actors, EnterHeld(a)
      PROVE  WaitersHoldNothing'
  <2>1. CASE Enters(a, "held")
    BY <1>2, <2>1 DEF EnterHeld, Enters, barrierVars, WaitersHoldNothing, TypeOK
  <2>2. CASE freeze # None /\ (entering[a] = "change" \/ ~Exempt(a))
             /\ entering' = [entering EXCEPT ![a] = "change"] /\ UNCHANGED changes
    <3>1. \A b \in Actors : compounds[b] = 0
      BY <2>2, Inside DEF BarrierHeld, Exclusive, TypeOK
    <3>2. changes[a] = <<>>
      BY <2>2 DEF Exempt, WaitersHoldNothing
    <3> QED
      BY <1>2, <2>2, <3>1, <3>2 DEF EnterHeld, barrierVars, WaitersHoldNothing, TypeOK
  <2> QED
    BY <1>2, <2>1, <2>2 DEF EnterHeld
<1>3. ASSUME NEW a \in Actors,
             EnterFree(a) \/ LeaveChange(a)
      PROVE  WaitersHoldNothing'
  BY <1>3 DEF EnterFree, LeaveChange, Enters, Runs, barrierVars, WaitersHoldNothing, TypeOK
<1>4. ASSUME NEW a \in Actors, NEW m \in Members, Commit(a, m)
      PROVE  WaitersHoldNothing'
  BY <1>4 DEF Commit, actorVars, WaitersHoldNothing
<1>5. ASSUME NEW c \in Captures,
             StartCapture(c) \/ BeginCapture(c) \/ BarrierGivesUp(c) \/ Freeze(c) \/
             FreezeTakes(c) \/ (\E m \in Members : CopyHeld(c, m)) \/ CopyAnchor(c) \/
             CopyFails(c) \/ (\E m \in Members : CopyTrailing(c, m)) \/ Finish(c)
      PROVE  WaitersHoldNothing'
  <2>1. UNCHANGED <<compounds, changes, entering>>
    BY <1>5 DEF StartCapture, BeginCapture, BarrierGivesUp, Freeze, FreezeTakes, CopyHeld,
       CopyAnchor, CopyFails, CopyTrailing, Finish, actorVars
  <2> QED
    BY <2>1 DEF WaitersHoldNothing
<1>6. ASSUME NEW c \in Captures,
             DrainGivesUp(c) \/ EndCapture(c) \/ Thaw(c)
      PROVE  WaitersHoldNothing'
  BY <1>6 DEF DrainGivesUp, EndCapture, Thaw, barrierVars, WaitersHoldNothing
<1>7. CASE UNCHANGED vars
  BY <1>7 DEF vars, actorVars, WaitersHoldNothing
<1>8. ASSUME NEW a \in Actors, Mutates(a)
      PROVE  WaitersHoldNothing'
  BY <1>8, <1>1, <1>2, <1>3, <1>4 DEF Mutates
<1>9. ASSUME NEW c \in Captures, StartCapture(c) \/ CapturesOn(c)
      PROVE  WaitersHoldNothing'
  BY <1>9, <1>5, <1>6 DEF CapturesOn, Waits, CopiesOn
<1> QED
  BY <1>8, <1>9, <1>7 DEF Next

\* What is published shows the anchor's instant, or is ahead of it where it may.
LEMMA SnapshotStep ==
  ASSUME TypeOK, CopiesAgree, SnapshotIsOneInstant, TrailingIsAhead, [Next]_vars
  PROVE  SnapshotIsOneInstant' /\ TrailingIsAhead'
<1>1. ASSUME NEW a \in Actors,
             EnterCompound(a) \/ LeaveCompound(a) \/ EnterHeld(a) \/ EnterFree(a) \/
             LeaveChange(a) \/ (\E m \in Members : Commit(a, m))
      PROVE  SnapshotIsOneInstant' /\ TrailingIsAhead'
  <2>1. UNCHANGED <<pc, copies, instant>>
    BY <1>1 DEF EnterCompound, LeaveCompound, EnterHeld, EnterFree, LeaveChange, Commit,
       captureVars
  <2> QED
    BY <2>1 DEF SnapshotIsOneInstant, TrailingIsAhead
<1>2. ASSUME NEW c \in Captures, StartCapture(c)
      PROVE  SnapshotIsOneInstant' /\ TrailingIsAhead'
  <2>1. Begins(c) /\ UNCHANGED instant
    BY <1>2 DEF StartCapture
  <2> QED
    BY <2>1, BeginsFacts, MemberAssumption DEF SnapshotIsOneInstant, TrailingIsAhead
<1>3. ASSUME NEW c \in Captures,
             BeginCapture(c) \/ BarrierGivesUp(c) \/ Freeze(c) \/ FreezeTakes(c) \/
             DrainGivesUp(c) \/ CopyFails(c) \/ Thaw(c)
      PROVE  SnapshotIsOneInstant' /\ TrailingIsAhead'
  <2>1. /\ UNCHANGED <<copies, instant>>
        /\ \E to \in {"freeze", "failed", "drain", "copy", "thaw", "end"} : Goes(c, to)
    BY <1>3 DEF BeginCapture, BarrierGivesUp, Freeze, FreezeTakes, DrainGivesUp, CopyFails,
       Thaw
  <2> QED
    BY <2>1, Moves DEF SnapshotIsOneInstant, TrailingIsAhead
<1>4. ASSUME NEW c \in Captures, NEW m \in Members, CopyHeld(c, m)
      PROVE  SnapshotIsOneInstant' /\ TrailingIsAhead'
  <2>1. pc[c] = "copy" /\ UNCHANGED <<pc, instant>>
    BY <1>4 DEF CopyHeld
  <2>2. \A d \in Captures : d # c => \A n \in Members : copies'[d][n] = copies[d][n]
    BY <1>4, CopiesFacts DEF CopyHeld
  <2> QED
    BY <2>1, <2>2, MemberAssumption DEF SnapshotIsOneInstant, TrailingIsAhead
<1>5. ASSUME NEW c \in Captures, CopyAnchor(c)
      PROVE  SnapshotIsOneInstant' /\ TrailingIsAhead'
  <2>1. Goes(c, "thaw") /\ \A d \in Captures : d # c => instant'[d] = instant[d]
    BY <1>5 DEF CopyAnchor, TypeOK
  <2>2. \A d \in Captures : d # c => \A n \in Members : copies'[d][n] = copies[d][n]
    BY <1>5, CopiesFacts DEF CopyAnchor
  <2> QED
    BY <2>1, <2>2, Moves, MemberAssumption DEF SnapshotIsOneInstant, TrailingIsAhead
<1>6. ASSUME NEW c \in Captures, NEW m \in Members, CopyTrailing(c, m)
      PROVE  SnapshotIsOneInstant' /\ TrailingIsAhead'
  <2>1. pc[c] = "trail" /\ m \in Trailing /\ UNCHANGED <<pc, instant>>
    BY <1>6 DEF CopyTrailing, CopiesTrailing, Missing
  <2>2. \A d \in Captures, n \in Members : d # c \/ n # m => copies'[d][n] = copies[d][n]
    BY <1>6, CopiesFacts DEF CopyTrailing
  <2> QED
    BY <2>1, <2>2, MemberAssumption DEF SnapshotIsOneInstant, TrailingIsAhead
<1>7. ASSUME NEW c \in Captures, EndCapture(c)
      PROVE  SnapshotIsOneInstant' /\ TrailingIsAhead'
  <2>1. /\ pc[c] = "end" /\ UNCHANGED <<instant, disturbed, failing>>
    BY <1>7 DEF EndCapture, gateVars
  <2>2. CASE Begins(c)
    BY <2>1, <2>2, BeginsFacts, MemberAssumption DEF SnapshotIsOneInstant, TrailingIsAhead
  <2>3. CASE UNCHANGED copies /\ Goes(c, IF failing[c] \/ disturbed[c] THEN "failed" ELSE "trail")
    BY <2>1, <2>3, Moves DEF SnapshotIsOneInstant, TrailingIsAhead, CopiesAgree, Agrees
  <2> QED
    BY <1>7, <2>2, <2>3 DEF EndCapture
<1>8. ASSUME NEW c \in Captures, Finish(c)
      PROVE  SnapshotIsOneInstant' /\ TrailingIsAhead'
  <2>1. /\ pc[c] = "trail" /\ UNCHANGED <<copies, instant>>
        /\ (Missing(c, Trailing) = {} /\ Goes(c, "done")) \/ Goes(c, "failed")
    BY <1>8 DEF Finish
  <2> QED
    BY <2>1, Moves DEF SnapshotIsOneInstant, TrailingIsAhead, CopiesAgree, Agrees, Missing
<1>9. CASE UNCHANGED vars
  BY <1>9 DEF SnapshotIsOneInstant, TrailingIsAhead, vars, captureVars
<1>10. ASSUME NEW a \in Actors, Mutates(a)
      PROVE  SnapshotIsOneInstant' /\ TrailingIsAhead'
  BY <1>10, <1>1 DEF Mutates
<1>11. ASSUME NEW c \in Captures, StartCapture(c) \/ CapturesOn(c)
      PROVE  SnapshotIsOneInstant' /\ TrailingIsAhead'
  BY <1>11, <1>2, <1>3, <1>4, <1>5, <1>6, <1>7, <1>8 DEF CapturesOn, Waits, CopiesOn
<1> QED
  BY <1>10, <1>11, <1>9 DEF Next

\* The state keeps its types.
LEMMA TypeStep ==
  ASSUME TypeOK, Counted, BarrierHeld, [Next]_vars
  PROVE  TypeOK'
<1>1. ASSUME NEW a \in Actors, EnterCompound(a)
      PROVE  TypeOK'
  <2>1. mutations' \in Nat
    BY CountedStep DEF CountersType
  <2>2. compounds' \in [Actors -> Nat]
    <3>1. compounds[a] + 1 \in Nat
      BY <1>1 DEF TypeOK
    <3> QED
      BY <1>1, <3>1 DEF EnterCompound, TypeOK
  <2>3. /\ entering' \in [Actors -> {"nothing", "compound", "change"}]
        /\ asleep' \subseteq Actors
    BY <1>1 DEF EnterCompound, TypeOK
  <2> QED
    BY <1>1, <2>1, <2>2, <2>3 DEF EnterCompound, TypeOK, gateVars, captureVars
<1>2. ASSUME NEW a \in Actors, LeaveCompound(a)
      PROVE  TypeOK'
  BY <1>2, CountedStep DEF CountersType, LeaveCompound, TypeOK, Woken, gateVars, captureVars
<1>3. ASSUME NEW a \in Actors, EnterHeld(a)
      PROVE  TypeOK'
  BY <1>3, CountedStep DEF CountersType, EnterHeld, Enters, Disturbs, TypeOK, barrierVars,
     captureVars
<1>4. ASSUME NEW a \in Actors, EnterFree(a)
      PROVE  TypeOK'
  BY <1>4, CountedStep DEF CountersType, EnterFree, Enters, TypeOK, barrierVars, captureVars
<1>5. ASSUME NEW a \in Actors, LeaveChange(a)
      PROVE  TypeOK'
  BY <1>5, CountedStep DEF CountersType, LeaveChange, Woken, TypeOK, barrierVars,
     captureVars
<1>6. ASSUME NEW a \in Actors, NEW m \in Members, Commit(a, m)
      PROVE  TypeOK'
  BY <1>6 DEF Commit, TypeOK, actorVars, gateVars, captureVars
<1>7. ASSUME NEW c \in Captures, StartCapture(c)
      PROVE  TypeOK'
  <2>1. Begins(c) /\ attempts[c] < Attempts
    BY <1>7, ActorAssumption DEF StartCapture, BarrierHeld
  <2> QED
    BY <1>7, <2>1, BeginsTypes DEF StartCapture, TypeOK, actorVars, gateVars
<1>8. ASSUME NEW c \in Captures,
             BeginCapture(c) \/ BarrierGivesUp(c)
      PROVE  TypeOK'
  BY <1>8 DEF BeginCapture, BarrierGivesUp, Goes, TypeOK, actorVars, gateVars
<1>9. ASSUME NEW c \in Captures,
             Freeze(c) \/ FreezeTakes(c)
      PROVE  TypeOK'
  BY <1>9 DEF Freeze, FreezeTakes, Goes, TypeOK, actorVars, gateVars
<1>10. ASSUME NEW c \in Captures,
             DrainGivesUp(c) \/ Thaw(c)
      PROVE  TypeOK'
  BY <1>10 DEF DrainGivesUp, Thaw, Releases, Woken, Goes, TypeOK, barrierVars
<1>11. ASSUME NEW c \in Captures, NEW m \in Members,
             CopyHeld(c, m) \/ CopyTrailing(c, m)
      PROVE  TypeOK'
  BY <1>11, CopiesFacts DEF CopyHeld, CopyTrailing, TypeOK, actorVars, gateVars
<1>12. ASSUME NEW c \in Captures, CopyAnchor(c)
      PROVE  TypeOK'
  <2>1. copies' \in [Captures -> [Members -> Nat \cup {None}]]
    BY <1>12, CopiesFacts DEF CopyAnchor
  <2>2. instant' \in [Captures -> [Members -> Nat]]
    BY <1>12 DEF CopyAnchor, TypeOK
  <2> QED
    BY <1>12, <2>1, <2>2 DEF CopyAnchor, Goes, TypeOK, actorVars, gateVars
<1>13. ASSUME NEW c \in Captures, CopyFails(c)
      PROVE  TypeOK'
  BY <1>13 DEF CopyFails, Goes, TypeOK, actorVars, gateVars
<1>14. ASSUME NEW c \in Captures, EndCapture(c)
      PROVE  TypeOK'
  <2>1. CASE Begins(c) /\ attempts[c] < Attempts
    BY <1>14, <2>1, BeginsTypes DEF EndCapture, Woken, TypeOK, gateVars
  <2>2. CASE /\ UNCHANGED <<attempts, copies>>
             /\ Goes(c, IF failing[c] \/ disturbed[c] THEN "failed" ELSE "trail")
    BY <1>14, <2>2 DEF EndCapture, Goes, Woken, TypeOK, gateVars
  <2> QED
    BY <1>14, <2>1, <2>2 DEF EndCapture
<1>15. ASSUME NEW c \in Captures, Finish(c)
      PROVE  TypeOK'
  BY <1>15 DEF Finish, Goes, TypeOK, actorVars, gateVars
<1>16. CASE UNCHANGED vars
  BY <1>16 DEF vars, actorVars, gateVars, captureVars, TypeOK
<1>17. ASSUME NEW a \in Actors, Mutates(a)
      PROVE  TypeOK'
  BY <1>17, <1>1, <1>2, <1>3, <1>4, <1>5, <1>6 DEF Mutates
<1>18. ASSUME NEW c \in Captures, StartCapture(c) \/ CapturesOn(c)
      PROVE  TypeOK'
  BY <1>18, <1>7, <1>8, <1>9, <1>10, <1>11, <1>12, <1>13, <1>14, <1>15 DEF CapturesOn,
     Waits, CopiesOn
<1> QED
  BY <1>17, <1>18, <1>16 DEF Next

-----------------------------------------------------------------------------
(* Theorems *)

\* The process starts in the invariant.
LEMMA InitInv == Init => BarrierInv
<1> SUFFICES ASSUME Init
             PROVE  BarrierInv
  OBVIOUS
<1>1. TypeOK
  <2>1. NoCopies \in [Members -> Nat \cup {None}] /\ contents \in [Members -> Nat]
    BY DEF NoCopies, Init
  <2>2. <<>> \in Seq(Kinds)
    OBVIOUS
  <2>3. changes \in [Actors -> Seq(Kinds)] /\ compounds \in [Actors -> Nat]
    BY <2>2 DEF Init
  <2>4. /\ copies \in [Captures -> [Members -> Nat \cup {None}]]
        /\ instant \in [Captures -> [Members -> Nat]]
    BY <2>1 DEF Init
  <2>5. attempts \in [Captures -> 0..Attempts]
    BY ActorAssumption DEF Init
  <2> QED
    BY <2>1, <2>3, <2>4, <2>5 DEF Init, TypeOK
<1>2. Counted
  <2>1. CompoundEntries = {} /\ HeldEntries = {}
    BY DEF Init, CompoundEntries, HeldEntries, Positive
  <2> QED
    BY <2>1, FS_EmptySet DEF Init, Counted
<1>3. BarrierHeld /\ FreezeHolds /\ WaitersHoldNothing
  BY NoneAssumption DEF Init, BarrierHeld, FreezeHolds, WaitersHoldNothing, Exclusive,
     Frozen
<1>4. CopiesAgree /\ SnapshotIsOneInstant /\ TrailingIsAhead
  BY MemberAssumption
  DEF Init, CopiesAgree, Agrees, SnapshotIsOneInstant, TrailingIsAhead, NoCopies, Members
<1> QED
  BY <1>1, <1>2, <1>3, <1>4 DEF BarrierInv

\* Every step keeps it.
LEMMA StepInv == BarrierInv /\ [Next]_vars => BarrierInv'
<1> SUFFICES ASSUME BarrierInv, [Next]_vars
             PROVE  BarrierInv'
  OBVIOUS
<1> USE DEF BarrierInv
<1>1. TypeOK'
  BY TypeStep
<1>2. Counted'
  BY CountedStep
<1>3. BarrierHeld'
  BY BarrierStep
<1>4. FreezeHolds'
  BY FreezeStep
<1>5. CopiesAgree'
  BY CopiesStep
<1>6. SnapshotIsOneInstant' /\ TrailingIsAhead'
  BY SnapshotStep
<1>7. WaitersHoldNothing'
  BY WaitersStep
<1> QED
  BY <1>1, <1>2, <1>3, <1>4, <1>5, <1>6, <1>7

\* The invariant of snapshot_barrier.py: the counters count, the barrier and
\* the freeze have one holder, and undisturbed copies are of one instant.
THEOREM BarrierInvariant == Spec => []BarrierInv
  BY InitInv, StepInv, PTL DEF Spec

\* The barrier, the gate and the captures keep their types; no counter runs
\* below zero.
THEOREM TypeCorrect == Spec => []TypeOK
<1>1. BarrierInv => TypeOK
  BY DEF BarrierInv
<1> QED
  BY <1>1, BarrierInvariant, PTL

\* What capture_members returns shows the data at the anchor's instant.
THEOREM SnapshotsShowOneInstant == Spec => []SnapshotIsOneInstant
<1>1. BarrierInv => SnapshotIsOneInstant
  BY DEF BarrierInv
<1> QED
  BY <1>1, BarrierInvariant, PTL

\* Trailing members are never older than that instant.
THEOREM TrailingNeverBehind == Spec => []TrailingIsAhead
<1>1. BarrierInv => TrailingIsAhead
  BY DEF BarrierInv
<1> QED
  BY <1>1, BarrierInvariant, PTL

\* _admit and compound_mutation never wait for what waits for their caller.
THEOREM NoWaitHoldsAnother == Spec => []WaitersHoldNothing
<1>1. BarrierInv => WaitersHoldNothing
  BY DEF BarrierInv
<1> QED
  BY <1>1, BarrierInvariant, PTL

-----------------------------------------------------------------------------
(* A capture is an atomic look at the data *)

\* The process starts where InstantSnapshot does.
LEMMA AbstractInit == Init => Abstract!Init
  BY DEF Init, Abstract!Init, InCompound, Candidate, Published

\* Copies that a snapshot does not take leave it as it is.
LEMMA SameSnapshot ==
  ASSUME NEW d \in Captures, \A m \in Taken(d) : copies'[d][m] = copies[d][m]
  PROVE  Snapshot(d)' = Snapshot(d)
  BY DEF Snapshot, Taken

\* A step that neither completes, discards nor publishes a snapshot.
LEMMA SameMapping ==
  ASSUME UNCHANGED <<contents, compounds>>,
         \A d \in Captures : Candidate'[d] = Candidate[d] /\ Published'[d] = Published[d]
  PROVE  UNCHANGED Abstract!vars
  BY DEF Abstract!vars, InCompound, Candidate, Published

\* Every step is a step of InstantSnapshot or none.
LEMMA AbstractStep ==
  ASSUME BarrierInv, [Next]_vars
  PROVE  [Abstract!Next]_(Abstract!vars)
<1>1. ASSUME NEW a \in Actors, EnterCompound(a)
      PROVE  [Abstract!Next]_(Abstract!vars)
  <2>1. UNCHANGED <<contents, Candidate, Published>>
    BY <1>1 DEF EnterCompound, gateVars, captureVars, Candidate, Published, Snapshot, Taken
  <2>2. InCompound' = InCompound \/ InCompound' = InCompound \cup {a}
    BY <1>1 DEF EnterCompound, InCompound, BarrierInv, TypeOK
  <2> QED
    BY <1>1, <2>1, <2>2 DEF Abstract!Next, Abstract!Open, Abstract!vars
<1>2. ASSUME NEW a \in Actors, LeaveCompound(a)
      PROVE  [Abstract!Next]_(Abstract!vars)
  <2>1. UNCHANGED <<contents, Candidate, Published>>
    BY <1>2 DEF LeaveCompound, gateVars, captureVars, Candidate, Published, Snapshot, Taken
  <2>2. InCompound' = InCompound \/ InCompound' = InCompound \ {a}
    BY <1>2 DEF LeaveCompound, InCompound, BarrierInv, TypeOK
  <2> QED
    BY <1>2, <2>1, <2>2 DEF Abstract!Next, Abstract!Close, Abstract!vars
<1>3. ASSUME NEW a \in Actors, EnterHeld(a)
      PROVE  [Abstract!Next]_(Abstract!vars)
  <2> DEFINE S == {c \in Captures : disturbed'[c]}
  <2>1. UNCHANGED <<contents, compounds, pc, failing, copies>>
    BY <1>3 DEF EnterHeld, barrierVars, captureVars
  <2>2. \A c \in Captures : disturbed[c] => disturbed'[c]
    BY <1>3 DEF EnterHeld, Disturbs
  <2>3. Candidate' = [c \in Captures |-> IF c \in S THEN None ELSE Candidate[c]]
    BY <2>1, <2>2 DEF Candidate, Snapshot, Taken
  <2>4. UNCHANGED <<InCompound, Published>>
    BY <2>1 DEF InCompound, Published, Snapshot, Taken
  <2>5. S \in SUBSET Captures
    OBVIOUS
  <2> QED
    BY <2>1, <2>3, <2>4, <2>5 DEF Abstract!Next, Abstract!Drop
<1>4. ASSUME NEW a \in Actors,
             EnterFree(a) \/ LeaveChange(a)
      PROVE  [Abstract!Next]_(Abstract!vars)
  <2>1. UNCHANGED <<contents, compounds, pc, disturbed, failing, copies>>
    BY <1>4 DEF EnterFree, LeaveChange, barrierVars, captureVars
  <2> QED
    BY <2>1, SameMapping DEF Candidate, Published, Snapshot, Taken
<1>5. ASSUME NEW a \in Actors, NEW m \in Members, Commit(a, m)
      PROVE  [Abstract!Next]_(Abstract!vars)
  <2>1. UNCHANGED <<compounds, pc, disturbed, failing, copies>>
    BY <1>5 DEF Commit, actorVars, gateVars, captureVars
  <2>2. UNCHANGED <<InCompound, Candidate, Published>>
    BY <2>1 DEF InCompound, Candidate, Published, Snapshot, Taken
  <2> QED
    BY <1>5, <2>2 DEF Commit, Abstract!Next, Abstract!Write
<1>6. ASSUME NEW c \in Captures, StartCapture(c)
      PROVE  [Abstract!Next]_(Abstract!vars)
  <2>1. /\ pc[c] = "idle" /\ Begins(c)
        /\ UNCHANGED <<contents, compounds, disturbed, failing>>
    BY <1>6 DEF StartCapture, actorVars, gateVars
  <2>2. \A d \in Captures : d # c => Snapshot(d)' = Snapshot(d)
    BY <2>1, BeginsFacts, SameSnapshot, MemberAssumption DEF BarrierInv, Taken
  <2>3. \A d \in Captures : pc'[d] = IF d = c THEN "barrier" ELSE pc[d]
    BY <2>1, BeginsFacts DEF BarrierInv
  <2> QED
    BY <2>1, <2>2, <2>3, SameMapping DEF Candidate, Published
<1>7. ASSUME NEW c \in Captures,
             BeginCapture(c) \/ BarrierGivesUp(c)
      PROVE  [Abstract!Next]_(Abstract!vars)
  <2>1. /\ pc[c] = "barrier" /\ \E to \in {"freeze", "failed"} : Goes(c, to)
        /\ UNCHANGED <<contents, compounds, disturbed, failing, copies>>
    BY <1>7 DEF BeginCapture, BarrierGivesUp, actorVars, gateVars
  <2> QED
    BY <2>1, Moves, SameMapping DEF BarrierInv, Candidate, Published, Snapshot, Taken
<1>8. ASSUME NEW c \in Captures,
             Freeze(c) \/ FreezeTakes(c)
      PROVE  [Abstract!Next]_(Abstract!vars)
  <2>1. /\ pc[c] \in {"freeze", "drain"} /\ \E to \in {"drain", "copy"} : Goes(c, to)
        /\ UNCHANGED <<contents, compounds, failing, copies>>
        /\ \A d \in Captures : d # c => disturbed'[d] = disturbed[d]
    BY <1>8 DEF Freeze, FreezeTakes, actorVars, gateVars, BarrierInv, TypeOK
  <2> QED
    BY <2>1, Moves, SameMapping DEF BarrierInv, Candidate, Published, Snapshot, Taken
<1>9. ASSUME NEW c \in Captures,
             DrainGivesUp(c) \/ CopyFails(c)
      PROVE  [Abstract!Next]_(Abstract!vars)
  <2>1. /\ pc[c] \in {"drain", "copy"} /\ \E to \in {"end", "thaw"} : Goes(c, to)
        /\ \A d \in Captures : failing'[d] = (d = c \/ failing[d])
        /\ UNCHANGED <<contents, compounds, disturbed, copies>>
    BY <1>9 DEF DrainGivesUp, CopyFails, barrierVars, actorVars, gateVars, BarrierInv,
       TypeOK
  <2> QED
    BY <2>1, Moves, SameMapping DEF BarrierInv, Candidate, Published, Snapshot, Taken
<1>10. ASSUME NEW c \in Captures, NEW m \in Members, CopyHeld(c, m)
      PROVE  [Abstract!Next]_(Abstract!vars)
  <2>1. /\ pc[c] = "copy" /\ Copies(c, {m})
        /\ UNCHANGED <<contents, compounds, pc, disturbed, failing>>
    BY <1>10 DEF CopyHeld, actorVars, gateVars
  <2>2. \A d \in Captures : d # c => Snapshot(d)' = Snapshot(d)
    BY <2>1, CopiesFacts, SameSnapshot, MemberAssumption DEF BarrierInv, Taken
  <2> QED
    BY <2>1, <2>2, SameMapping DEF Candidate, Published
<1>11. ASSUME NEW c \in Captures, NEW m \in Members, CopyTrailing(c, m)
      PROVE  [Abstract!Next]_(Abstract!vars)
  <2>1. /\ m \in Trailing /\ Copies(c, {m})
        /\ UNCHANGED <<contents, compounds, pc, disturbed, failing>>
    BY <1>11 DEF CopyTrailing, Missing, actorVars, gateVars
  <2>2. \A d \in Captures : Snapshot(d)' = Snapshot(d)
    BY <2>1, CopiesFacts, SameSnapshot, MemberAssumption DEF BarrierInv, Taken
  <2> QED
    BY <2>1, <2>2, SameMapping DEF Candidate, Published
<1>12. ASSUME NEW c \in Captures, CopyAnchor(c)
      PROVE  [Abstract!Next]_(Abstract!vars)
  <2>1. /\ pc[c] = "copy" /\ Goes(c, "thaw") /\ Copies(c, Anchors \cap Copied[c])
        /\ UNCHANGED <<contents, compounds, disturbed, failing>>
        /\ instant'[c] = contents
    BY <1>12 DEF CopyAnchor, actorVars, gateVars, BarrierInv, TypeOK
  <2>2. \A d \in Captures : d # c => Snapshot(d)' = Snapshot(d)
    BY <2>1, CopiesFacts, SameSnapshot, MemberAssumption DEF BarrierInv, Taken
  <2>3. \A d \in Captures : pc'[d] = IF d = c THEN "thaw" ELSE pc[d]
    BY <2>1, Moves DEF BarrierInv
  <2>4. CASE disturbed[c] \/ failing[c]
    BY <2>1, <2>2, <2>3, <2>4, SameMapping DEF Candidate, Published
  <2>5. CASE ~disturbed[c] /\ ~failing[c]
    <3>1. \A m \in Taken(c) : copies'[c][m] = contents[m]
      BY StepInv, <2>1, <2>3, <2>5 DEF BarrierInv, CopiesAgree, Agrees, Taken
    <3>2. Snapshot(c)' = Abstract!Now(c)
      BY <3>1 DEF Snapshot, Abstract!Now, Taken
    <3>3. Candidate' = [Candidate EXCEPT ![c] = Abstract!Now(c)]
      BY <2>1, <2>2, <2>3, <2>5, <3>2 DEF Candidate
    <3>4. InCompound = {}
      BY <2>1, Inside DEF BarrierInv, BarrierHeld, Exclusive, InCompound
    <3>5. Candidate[c] = None /\ Published[c] = None
      BY <2>1 DEF Candidate, Published
    <3>6. UNCHANGED <<contents, InCompound, Published>>
      BY <2>1, <2>2, <2>3 DEF InCompound, Published
    <3> QED
      BY <3>3, <3>4, <3>5, <3>6 DEF Abstract!Next, Abstract!Take
  <2> QED
    BY <2>4, <2>5
<1>13. ASSUME NEW c \in Captures, Thaw(c)
      PROVE  [Abstract!Next]_(Abstract!vars)
  <2>1. /\ pc[c] = "thaw" /\ Goes(c, "end")
        /\ UNCHANGED <<contents, compounds, disturbed, failing, copies>>
    BY <1>13 DEF Thaw, barrierVars
  <2> QED
    BY <2>1, Moves, SameMapping DEF BarrierInv, Candidate, Published, Snapshot, Taken
<1>14. ASSUME NEW c \in Captures, EndCapture(c)
      PROVE  [Abstract!Next]_(Abstract!vars)
  <2>1. pc[c] = "end" /\ UNCHANGED <<contents, compounds, disturbed, failing>>
    BY <1>14 DEF EndCapture, gateVars
  <2>2. CASE Begins(c) /\ disturbed[c]
    <3>1. \A d \in Captures : d # c => Snapshot(d)' = Snapshot(d)
      BY <2>2, BeginsFacts, SameSnapshot, MemberAssumption DEF BarrierInv, Taken
    <3>2. \A d \in Captures : pc'[d] = IF d = c THEN "barrier" ELSE pc[d]
      BY <2>2, BeginsFacts DEF BarrierInv
    <3> QED
      BY <2>1, <2>2, <3>1, <3>2, SameMapping DEF Candidate, Published
  <2>3. CASE UNCHANGED copies /\ Goes(c, IF failing[c] \/ disturbed[c] THEN "failed" ELSE "trail")
    BY <2>1, <2>3, Moves, SameMapping DEF BarrierInv, Candidate, Published, Snapshot, Taken
  <2> QED
    BY <1>14, <2>2, <2>3 DEF EndCapture
<1>15. ASSUME NEW c \in Captures, Finish(c)
      PROVE  [Abstract!Next]_(Abstract!vars)
  <2>1. /\ pc[c] = "trail" /\ UNCHANGED <<contents, compounds, disturbed, failing, copies>>
        /\ Goes(c, "done") \/ Goes(c, "failed")
    BY <1>15 DEF Finish, actorVars, gateVars
  <2>2. \A d \in Captures : Snapshot(d)' = Snapshot(d)
    BY <2>1 DEF Snapshot, Taken
  <2>3. Candidate[c] = Snapshot(c) /\ Snapshot(c) # None
    <3>1. Snapshot(c) \in [Taken(c) -> Nat]
      <4>1. ~disturbed[c] /\ ~failing[c] /\ \A m \in Taken(c) : copies[c][m] = instant[c][m]
        BY <2>1 DEF BarrierInv, SnapshotIsOneInstant, CopiesAgree, Agrees, Taken
      <4> QED
        BY <4>1, MemberAssumption DEF BarrierInv, TypeOK, Snapshot, Taken
    <3>2. Taken(c) \in SUBSET Members
      BY MemberAssumption DEF Taken
    <3> QED
      BY <2>1, <3>1, <3>2, NoneAssumption DEF BarrierInv, CopiesAgree, Agrees, Candidate
  <2>4. Candidate' = [Candidate EXCEPT ![c] = None]
    <3>1. \A d \in Captures : d # c => pc'[d] = pc[d]
      BY <2>1, Moves DEF BarrierInv
    <3>2. pc'[c] \in {"done", "failed"}
      BY <2>1, Moves DEF BarrierInv
    <3> QED
      BY <2>1, <2>2, <3>1, <3>2 DEF Candidate
  <2>5. CASE Goes(c, "done")
    <3>1. Published' = [Published EXCEPT ![c] = Candidate[c]]
      BY <2>1, <2>2, <2>3, <2>5, Moves DEF BarrierInv, Published
    <3> QED
      BY <2>1, <2>3, <2>4, <3>1 DEF Abstract!Next, Abstract!Publish, InCompound
  <2>6. CASE Goes(c, "failed")
    <3>1. UNCHANGED <<contents, InCompound, Published>>
      BY <2>1, <2>2, <2>6, Moves DEF BarrierInv, Published, InCompound
    <3>2. Candidate' = [d \in Captures |-> IF d \in {c} THEN None ELSE Candidate[d]]
      BY <2>4 DEF Candidate
    <3> QED
      BY <3>1, <3>2 DEF Abstract!Next, Abstract!Drop
  <2> QED
    BY <2>1, <2>5, <2>6
<1>16. CASE UNCHANGED vars
  <2>1. UNCHANGED <<contents, InCompound, Candidate, Published>>
    BY <1>16 DEF vars, actorVars, gateVars, captureVars, InCompound, Candidate, Published,
       Snapshot, Taken
  <2> QED
    BY <2>1 DEF Abstract!vars
<1>17. ASSUME NEW a \in Actors, Mutates(a)
      PROVE  [Abstract!Next]_(Abstract!vars)
  BY <1>17, <1>1, <1>2, <1>3, <1>4, <1>5 DEF Mutates
<1>18. ASSUME NEW c \in Captures, StartCapture(c) \/ CapturesOn(c)
      PROVE  [Abstract!Next]_(Abstract!vars)
  BY <1>18, <1>6, <1>7, <1>8, <1>9, <1>10, <1>11, <1>12, <1>13, <1>14, <1>15 DEF CapturesOn,
     Waits, CopiesOn
<1> QED
  BY <1>17, <1>18, <1>16 DEF Next

\* capture_members implements a snapshot of one instant without a compound
\* mutation half done.
THEOREM ImplementsInstantSnapshot == Spec => RefinesInstantSnapshot
<1>1. BarrierInv /\ [Next]_vars => [Abstract!Next]_(Abstract!vars)
  BY AbstractStep
<1> QED
  BY <1>1, AbstractInit, BarrierInvariant, PTL DEF Spec, RefinesInstantSnapshot,
     Abstract!Spec
=============================================================================
