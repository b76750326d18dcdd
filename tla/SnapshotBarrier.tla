-------------------------- MODULE SnapshotBarrier --------------------------
(***************************************************************************)
(* core/database/snapshot_barrier.py: the compound barrier and the member  *)
(* freeze that make the copies of a data snapshot show one instant.        *)
(*                                                                         *)
(* An actor is a worker thread or a task of the event loop.  It enters     *)
(* compound mutations, and changes of members inside them or alone; every  *)
(* entry and exit runs under a condition variable's lock and is an action. *)
(* A change commits at any time between its entry and its exit.  A capture *)
(* is a thread of its own; its waits have deadlines, so giving one up is   *)
(* possible whenever what it waits for is not there.                       *)
(***************************************************************************)
EXTENDS Integers, Sequences

CONSTANTS
  Actors,
  LoopTasks,   \* actors on the event loop, the others are worker threads
  Captures,    \* calls of capture_members
  Held, Anchors, Trailing,  \* members by DatabaseSpec.snapshot_capture; documents are held
  Copied,      \* the members each capture copies
  Attempts,    \* CAPTURE_ATTEMPTS
  MaxNesting,  \* bound: entries of one actor inside each other
  MaxVersion,  \* bound: commits to one member
  None

Members == Held \cup Anchors \cup Trailing

ASSUME MemberAssumption ==
  /\ Held \cap Anchors = {} /\ Held \cap Trailing = {} /\ Anchors \cap Trailing = {}
  /\ \A m, n \in Anchors : m = n    \* capture_members refuses two anchors
  /\ Copied \in [Captures -> SUBSET Members]
ASSUME ActorAssumption ==
  /\ LoopTasks \subseteq Actors
  /\ Attempts \in Nat \ {0} /\ MaxNesting \in Nat /\ MaxVersion \in Nat
ASSUME NoneAssumption ==
  None \notin Captures \cup Nat /\ \A S \in SUBSET Members : None \notin [S -> Nat]

VARIABLES
  contents,    \* the committed version of each member
  mutations,   \* SnapshotBarrier._mutations
  capturing,   \* SnapshotBarrier._capturing
  compounds,   \* compound mutations each actor is inside of
  changes,     \* the member changes each actor is inside of, outermost first
  entering,    \* what an actor waits to enter: nothing, a compound, a change
  asleep,      \* actors whose condition or future has not been notified
  inFlight,    \* _IN_FLIGHT: held changes that were admitted
  freeze,      \* _FREEZES: the capture that froze the held members, or None
  disturbed,   \* _Freeze.disturbed of each capture
  pc,          \* where capture_members is
  attempts,    \* MemberCapture.attempts
  failing,     \* a copy of this attempt raised
  copies,      \* the version copied of each member, or None
  instant      \* history: the contents when the anchor was copied

barrierVars == <<mutations, capturing, compounds>>
gateVars == <<inFlight, freeze, disturbed>>
actorVars == <<compounds, changes, entering, asleep>>
captureVars == <<pc, attempts, failing, copies, instant>>
vars == <<contents, mutations, capturing, actorVars, gateVars, captureVars>>

-----------------------------------------------------------------------------
Kinds == {"held", "free"}
KindOf(m) == IF m \in Held THEN "held" ELSE "free"
\* The steps of capture_members during which the held members are frozen.
Frozen == {"copy", "thaw"}
\* The event loop runs one task at a time, and a member change never awaits.
HasTurn(a) ==
  a \in LoopTasks => \A b \in LoopTasks \ {a} : changes[b] = <<>>
\* The actor runs, or has been woken and looks again.
Runs(a, what) ==
  /\ HasTurn(a)
  /\ entering[a] = "nothing" \/ (entering[a] = what /\ a \notin asleep)
\* notify_all, and the futures of the event loop's waiters.
Woken(who, what) == asleep \ {a \in who : entering[a] = what}
NoCopies == [m \in Members |-> None]

Init ==
  /\ contents = [m \in Members |-> 0]
  /\ mutations = 0 /\ capturing = FALSE
  /\ compounds = [a \in Actors |-> 0] /\ changes = [a \in Actors |-> <<>>]
  /\ entering = [a \in Actors |-> "nothing"] /\ asleep = {}
  /\ inFlight = 0 /\ freeze = None /\ disturbed = [c \in Captures |-> FALSE]
  /\ pc = [c \in Captures |-> "idle"] /\ attempts = [c \in Captures |-> 0]
  /\ failing = [c \in Captures |-> FALSE] /\ copies = [c \in Captures |-> NoCopies]
  /\ instant = [c \in Captures |-> contents]

-----------------------------------------------------------------------------
(* Compound mutations *)

\* compound_mutation and compound_mutation_async, entered outside any change.
EnterCompound(a) ==
  /\ Runs(a, "compound") /\ changes[a] = <<>> /\ compounds[a] < MaxNesting
  /\ IF capturing
     THEN /\ entering' = [entering EXCEPT ![a] = "compound"] /\ asleep' = asleep \cup {a}
          /\ UNCHANGED <<mutations, compounds>>
     ELSE /\ mutations' = mutations + 1 /\ compounds' = [compounds EXCEPT ![a] = @ + 1]
          /\ entering' = [entering EXCEPT ![a] = "nothing"]
          /\ UNCHANGED asleep
  /\ UNCHANGED <<contents, capturing, changes, gateVars, captureVars>>

\* SnapshotBarrier._leave; the waiters on the event loop are not notified here.
LeaveCompound(a) ==
  /\ Runs(a, "nothing") /\ changes[a] = <<>> /\ compounds[a] > 0
  /\ mutations' = mutations - 1 /\ compounds' = [compounds EXCEPT ![a] = @ - 1]
  /\ asleep' = IF mutations = 1 THEN Woken(Actors \ LoopTasks, "compound") ELSE asleep
  /\ UNCHANGED <<contents, capturing, changes, entering, gateVars, captureVars>>

-----------------------------------------------------------------------------
(* Changes of members *)

\* The thread's depth and, for a held change, the count of those in flight.
Enters(a, kind) ==
  /\ changes' = [changes EXCEPT ![a] = Append(@, kind)]
  /\ inFlight' = IF kind = "held" THEN inFlight + 1 ELSE inFlight
  /\ entering' = [entering EXCEPT ![a] = "nothing"]
  /\ UNCHANGED asleep

\* Mutated form: a change inside another one waits as well.
ExemptOnLoop(a) == a \in LoopTasks
\* Waiting here could stall the loop, or wait for a freeze that waits for us.
Exempt(a) == a \in LoopTasks \/ changes[a] # <<>>

\* An exempt change enters a freeze: its copies are worthless.
Disturbs == [c \in Captures |-> disturbed[c] \/ (c = freeze /\ pc[c] \in Frozen)]

\* member_change(held=True)
EnterHeld(a) ==
  /\ Runs(a, "change") /\ Len(changes[a]) < MaxNesting
  /\ \/ /\ freeze = None
        /\ Enters(a, "held") /\ UNCHANGED disturbed
     \/ /\ freeze # None /\ entering[a] = "nothing" /\ Exempt(a)
        /\ Enters(a, "held") /\ disturbed' = Disturbs
     \/ /\ freeze # None /\ (entering[a] = "change" \/ ~Exempt(a))
        /\ entering' = [entering EXCEPT ![a] = "change"] /\ asleep' = asleep \cup {a}
        /\ UNCHANGED <<changes, inFlight, disturbed>>
  /\ UNCHANGED <<contents, barrierVars, freeze, captureVars>>

\* member_change(held=False), of an anchor or trailing member.
EnterFree(a) ==
  /\ Runs(a, "nothing") /\ Len(changes[a]) < MaxNesting
  /\ Enters(a, "free")
  /\ UNCHANGED <<contents, barrierVars, freeze, disturbed, captureVars>>

\* A transaction commits, or a document is replaced.
Commit(a, m) ==
  /\ Runs(a, "nothing") /\ changes[a] # <<>>
  /\ changes[a][Len(changes[a])] = KindOf(m) /\ contents[m] < MaxVersion
  /\ contents' = [contents EXCEPT ![m] = @ + 1]
  /\ UNCHANGED <<mutations, capturing, actorVars, gateVars, captureVars>>

\* The exit of member_change, and _leave for a held one.
LeaveChange(a) ==
  LET kind == changes[a][Len(changes[a])] IN
  /\ Runs(a, "nothing") /\ changes[a] # <<>>
  /\ changes' = [changes EXCEPT ![a] = SubSeq(@, 1, Len(@) - 1)]
  /\ inFlight' = IF kind = "held" THEN inFlight - 1 ELSE inFlight
  /\ asleep' = IF kind = "held" /\ inFlight = 1 /\ freeze # None
               THEN Woken(Actors, "change") ELSE asleep
  /\ UNCHANGED <<contents, barrierVars, entering, freeze, disturbed, captureVars>>

-----------------------------------------------------------------------------
(* capture_members *)

Goes(c, to) == pc' = [pc EXCEPT ![c] = to]

\* An attempt begins; the copies of an earlier one are discarded.
Begins(c) ==
  /\ Goes(c, "barrier")
  /\ attempts' = [attempts EXCEPT ![c] = @ + 1]
  /\ copies' = [copies EXCEPT ![c] = NoCopies]

StartCapture(c) ==
  /\ pc[c] = "idle" /\ Begins(c)
  /\ UNCHANGED <<contents, mutations, capturing, actorVars, gateVars, failing, instant>>

\* Mutated form: only another capture keeps a capture waiting.
QuietOfCaptures == ~capturing
Quiet == ~capturing /\ mutations = 0

\* _begin_capture
BeginCapture(c) ==
  /\ pc[c] = "barrier" /\ Quiet
  /\ capturing' = TRUE /\ Goes(c, "freeze")
  /\ UNCHANGED <<contents, mutations, actorVars, gateVars, attempts, failing, copies, instant>>

\* Mutated form: the wait for compound mutations has no budget.
WaitsOutMutations == capturing
WaitMayEnd == ~Quiet

\* The wait ends with its budget, or with the caller's cancellation.
BarrierGivesUp(c) ==
  /\ pc[c] = "barrier" /\ WaitMayEnd
  /\ Goes(c, "failed")
  /\ UNCHANGED <<contents, mutations, capturing, actorVars, gateVars, attempts, failing, copies,
                 instant>>

\* _freeze registers: held changes are not admitted any more.  The barrier
\* keeps a second freeze out; every capture in the process passes it.
Freeze(c) ==
  /\ pc[c] = "freeze" /\ freeze = None
  /\ freeze' = c /\ disturbed' = [disturbed EXCEPT ![c] = FALSE]
  /\ Goes(c, "drain")
  /\ UNCHANGED <<contents, mutations, capturing, actorVars, inFlight, attempts, failing, copies,
                 instant>>

Drained == inFlight = 0

\* The freeze instant.
FreezeTakes(c) ==
  /\ pc[c] = "drain" /\ Drained
  /\ Goes(c, "copy")
  /\ UNCHANGED <<contents, mutations, capturing, actorVars, gateVars, attempts, failing, copies,
                 instant>>

\* Mutated form: the changes that wait are not notified.
ReleasesSilently == freeze' = None /\ UNCHANGED asleep
\* _release
Releases == freeze' = None /\ asleep' = Woken(Actors, "change")

DrainGivesUp(c) ==
  /\ pc[c] = "drain" /\ ~Drained
  /\ Releases /\ Goes(c, "end") /\ failing' = [failing EXCEPT ![c] = TRUE]
  /\ UNCHANGED <<contents, barrierVars, changes, entering, inFlight, disturbed, attempts, copies,
                 instant>>

Copies(c, members) ==
  copies' = [copies EXCEPT ![c] = [m \in Members |-> IF m \in members THEN contents[m] ELSE @[m]]]
Missing(c, members) == {m \in members \cap Copied[c] : copies[c][m] = None}

CopyHeld(c, m) ==
  /\ pc[c] = "copy" /\ m \in Missing(c, Held)
  /\ Copies(c, {m})
  /\ UNCHANGED <<contents, mutations, capturing, actorVars, gateVars, pc, attempts, failing,
                 instant>>

HeldCopied(c) == Missing(c, Held) = {}

\* The anchor is copied last: this is the instant the snapshot shows.
CopyAnchor(c) ==
  /\ pc[c] = "copy" /\ HeldCopied(c)
  /\ Copies(c, Anchors \cap Copied[c])
  /\ instant' = [instant EXCEPT ![c] = contents]
  /\ Goes(c, "thaw")
  /\ UNCHANGED <<contents, mutations, capturing, actorVars, gateVars, attempts, failing>>

CopyFails(c) ==
  /\ pc[c] = "copy"
  /\ Goes(c, "thaw") /\ failing' = [failing EXCEPT ![c] = TRUE]
  /\ UNCHANGED <<contents, mutations, capturing, actorVars, gateVars, attempts, copies, instant>>

Thaw(c) ==
  /\ pc[c] = "thaw"
  /\ Releases /\ Goes(c, "end")
  /\ UNCHANGED <<contents, barrierVars, changes, entering, inFlight, disturbed, attempts, failing,
                 copies, instant>>

\* _end_capture, and what capture_members does with the attempt.
EndCapture(c) ==
  /\ pc[c] = "end"
  /\ capturing' = FALSE /\ asleep' = Woken(Actors, "compound")
  /\ IF ~failing[c] /\ disturbed[c] /\ attempts[c] < Attempts
     THEN Begins(c)
     ELSE /\ Goes(c, IF failing[c] \/ disturbed[c] THEN "failed" ELSE "trail")
          /\ UNCHANGED <<attempts, copies>>
  /\ UNCHANGED <<contents, mutations, compounds, changes, entering, gateVars, failing, instant>>

CopiesTrailing(c) == pc[c] = "trail"

CopyTrailing(c, m) ==
  /\ CopiesTrailing(c) /\ m \in Missing(c, Trailing)
  /\ Copies(c, {m})
  /\ UNCHANGED <<contents, mutations, capturing, actorVars, gateVars, pc, attempts, failing,
                 instant>>

\* capture_members returns, or the copy of a trailing member raises.
Finish(c) ==
  /\ pc[c] = "trail"
  /\ \/ Missing(c, Trailing) = {} /\ Goes(c, "done")
     \/ Missing(c, Trailing) # {} /\ Goes(c, "failed")
  /\ UNCHANGED <<contents, mutations, capturing, actorVars, gateVars, attempts, failing, copies,
                 instant>>

-----------------------------------------------------------------------------
Mutates(a) ==
  \/ EnterCompound(a) \/ LeaveCompound(a)
  \/ EnterHeld(a) \/ EnterFree(a) \/ LeaveChange(a) \/ \E m \in Members : Commit(a, m)
Waits(c) ==
  \/ BeginCapture(c) \/ BarrierGivesUp(c) \/ Freeze(c) \/ FreezeTakes(c) \/ DrainGivesUp(c)
CopiesOn(c) ==
  \/ \E m \in Members : CopyHeld(c, m) \/ CopyTrailing(c, m)
  \/ CopyAnchor(c) \/ CopyFails(c)
CapturesOn(c) == Waits(c) \/ CopiesOn(c) \/ Thaw(c) \/ EndCapture(c) \/ Finish(c)

Next ==
  \/ \E a \in Actors : Mutates(a)
  \/ \E c \in Captures : StartCapture(c) \/ CapturesOn(c)

Spec == Init /\ [][Next]_vars

\* A capture goes on until its deadlines, and an actor that was woken looks
\* again; nobody is obliged to finish a change or a compound mutation.
FairSpec ==
  /\ Spec
  /\ \A c \in Captures : WF_vars(CapturesOn(c))
  /\ \A a \in Actors :
       /\ WF_vars(entering[a] = "compound" /\ EnterCompound(a))
       /\ WF_vars(entering[a] = "change" /\ EnterHeld(a))

-----------------------------------------------------------------------------
(* Properties *)

\* The barrier, the gate, the actors and the captures keep the types
\* snapshot_barrier.py gives them; counters never run below zero.
TypeOK ==
  /\ contents \in [Members -> Nat]
  /\ mutations \in Nat /\ capturing \in BOOLEAN /\ compounds \in [Actors -> Nat]
  /\ changes \in [Actors -> Seq(Kinds)]
  /\ entering \in [Actors -> {"nothing", "compound", "change"}] /\ asleep \subseteq Actors
  /\ inFlight \in Nat /\ freeze \in Captures \cup {None}
  /\ disturbed \in [Captures -> BOOLEAN]
  /\ pc \in [Captures -> {"idle", "barrier", "freeze", "drain", "copy", "thaw", "end", "trail",
                          "done", "failed"}]
  /\ attempts \in [Captures -> 0..Attempts] /\ failing \in [Captures -> BOOLEAN]
  /\ copies \in [Captures -> [Members -> Nat \cup {None}]]
  /\ instant \in [Captures -> [Members -> Nat]]

\* Every held member and the anchor of a snapshot show the data at the instant
\* the anchor was copied, whatever entered while the copies were taken.
SnapshotIsOneInstant ==
  \A c \in Captures : pc[c] \in {"trail", "done"} =>
    \A m \in Copied[c] \ Trailing : copies[c][m] = instant[c][m]

\* Trailing members are never older than that instant, so replaying the
\* anchor's history on them after a restore finds nothing missing.
TrailingIsAhead ==
  \A c \in Captures : pc[c] = "done" =>
    \A m \in Copied[c] \cap Trailing : copies[c][m] >= instant[c][m]

\* A compound mutation never waits in the freeze of a capture that it keeps
\* waiting, and a waiting change holds no admitted one that a drain waits for.
WaitersHoldNothing ==
  \A a \in Actors :
    /\ entering[a] # "nothing" => changes[a] = <<>>
    /\ entering[a] = "change" => compounds[a] = 0

Taken(c) == Copied[c] \ Trailing
\* The copies of the held members and the anchor, as one snapshot.
Snapshot(c) == [m \in Taken(c) |-> copies[c][m]]
\* It may still be discarded; then it is what capture_members returns.
Candidate ==
  [c \in Captures |->
     IF pc[c] \in {"thaw", "end", "trail"} /\ ~disturbed[c] /\ ~failing[c]
     THEN Snapshot(c) ELSE None]
Published == [c \in Captures |-> IF pc[c] = "done" THEN Snapshot(c) ELSE None]
InCompound == {a \in Actors : compounds[a] > 0}

\* A capture is an atomic look at data that no compound mutation has half
\* changed, although it copies member after member.
Abstract == INSTANCE InstantSnapshot WITH
  Mutators <- Actors, Takes <- [c \in Captures |-> Taken(c)],
  open <- InCompound, candidate <- Candidate, published <- Published
RefinesInstantSnapshot == Abstract!Spec

\* No wakeup is lost: a change or a compound mutation that met a capture
\* enters once the captures are over, though no other actor does anything.
WaitersEnter == \A a \in Actors : entering[a] # "nothing" ~> entering[a] = "nothing"

\* A capture ends, with a snapshot or without one, though an actor may stay in
\* a compound mutation or a change for ever.
CapturesEnd == \A c \in Captures : pc[c] = "barrier" ~> pc[c] \in {"done", "failed"}
=============================================================================
