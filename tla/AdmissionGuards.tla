-------------------------- MODULE AdmissionGuards --------------------------
(***************************************************************************)
(* core/runs/runs.py: lifecycle guards (a Session transition, an Agent     *)
(* removal, a Project removal) against admission preparations and admitted *)
(* work.  Each check-and-change runs under the manager's lock, so it is    *)
(* one action; between two of them a producer resolves its Agent, its      *)
(* Session and its working Project, and a lifecycle workflow does its I/O. *)
(***************************************************************************)
EXTENDS Integers

CONSTANTS
  Sessions, Agents, Projects,
  AgentOf,     \* the Agent of each Session address
  AnchorOf,    \* its Project anchor, or None for an Identity Agent
  Producers,   \* calls that prepare an admission and install work
  MaxGuards,   \* bound: guards acquired in one behaviour
  None

\* An anchor is a Project or None, and None names no Project and no Session.
ASSUME AddressAssumption ==
  /\ AgentOf \in [Sessions -> Agents]
  /\ AnchorOf \in [Sessions -> Projects \cup {None}]
  /\ None \notin Projects \cup Sessions
  /\ MaxGuards \in Nat

VARIABLES
  guardedSessions,  \* held session_admission_guards, each a set of addresses
  guardedAgents,    \* held agent_admission_guards: (anchor, Agent)
  guardedProjects,  \* held project_admission_guards
  prep,             \* _preparing: each producer's preparation, or None
  work,             \* the active Run or queued item a producer installed, or None
  acquired,         \* guards acquired so far
  version           \* how often a Project's guarded transition has ended

vars == <<guardedSessions, guardedAgents, guardedProjects, prep, work, acquired, version>>

-----------------------------------------------------------------------------
Anchors == Projects \cup {None}
Keys == Anchors \X Agents
KeyOf(s) == <<AnchorOf[s], AgentOf[s]>>
Preparations ==
  [key : Keys, session : Sessions \cup {None}, working : Anchors,
   changed : SUBSET Projects, versions : [Projects -> Nat]]
Work == [session : Sessions, working : Anchors]
\* None is no preparation.
ASSUME NoneAssumption == None \notin Preparations

Preparing == {p \in Producers : prep[p] # None}
Active == {p \in Producers : work[p] # None}
GuardedSession(s) == \E g \in guardedSessions : s \in g

\* _AdmissionPreparation.includes
Includes(p, s) == prep[p].key = KeyOf(s) /\ prep[p].session \in {None, s}

\* Mutated form: the working Project of queued or active work is not looked at.
GuardedByAddress(s, w) ==
  GuardedSession(s) \/ KeyOf(s) \in guardedAgents \/ AnchorOf[s] \in guardedProjects
\* _run_admission_is_guarded_locked; None is never a guarded Project.
Guarded(s, w) ==
  \/ GuardedSession(s)
  \/ KeyOf(s) \in guardedAgents
  \/ AnchorOf[s] \in guardedProjects
  \/ w \in guardedProjects

\* _has_activity_for_session_locked, _for_agent_locked and _for_project_locked
SessionActive(s) == \E p \in Active : work[p].session = s
AgentActive(k) == \E p \in Active : KeyOf(work[p].session) = k
ProjectActive(w) ==
  \E p \in Active : work[p].working = w \/ AnchorOf[work[p].session] = w

Init ==
  /\ guardedSessions = {} /\ guardedAgents = {} /\ guardedProjects = {}
  /\ prep = [p \in Producers |-> None] /\ work = [p \in Producers |-> None]
  /\ acquired = 0 /\ version = [w \in Projects |-> 0]

-----------------------------------------------------------------------------
(* Producers *)

\* prepare_admission, for an existing Session or for one without an id yet.
Prepare(p, k, s) ==
  /\ prep[p] = None /\ work[p] = None
  /\ s # None => KeyOf(s) = k
  /\ k \notin guardedAgents /\ k[1] \notin guardedProjects
  /\ \A t \in Sessions : GuardedSession(t) => ~(k = KeyOf(t) /\ s \in {None, t})
  /\ prep' = [prep EXCEPT ![p] = [key |-> k, session |-> s, working |-> None,
                                  changed |-> guardedProjects, versions |-> version]]
  /\ UNCHANGED <<guardedSessions, guardedAgents, guardedProjects, work, acquired, version>>

\* Mutated form: only a guard held right now refuses.
BindableNow(p, w) == w \notin guardedProjects
Bindable(p, w) == w \notin prep[p].changed /\ w \notin guardedProjects

\* bind_working_project
BindWorkingProject(p, w) ==
  /\ p \in Preparing /\ Bindable(p, w)
  /\ prep' = [prep EXCEPT ![p].working = w]
  /\ UNCHANGED <<guardedSessions, guardedAgents, guardedProjects, work, acquired, version>>

\* bind_session: the creating write returned the new Session's id.
BindSession(p, s) ==
  /\ p \in Preparing /\ prep[p].session = None /\ prep[p].key = KeyOf(s)
  /\ prep' = [prep EXCEPT ![p].session = s]
  /\ UNCHANGED <<guardedSessions, guardedAgents, guardedProjects, work, acquired, version>>

\* _AdmissionPreparation.release
ReleasePreparation(p) ==
  /\ p \in Preparing
  /\ prep' = [prep EXCEPT ![p] = None]
  /\ UNCHANGED <<guardedSessions, guardedAgents, guardedProjects, work, acquired, version>>

\* start and enqueue, with what the preparation bound or without one.
Install(p, s, w) ==
  /\ work[p] = None
  /\ p \in Preparing => prep[p].session = s /\ prep[p].key = KeyOf(s) /\ prep[p].working = w
  /\ ~Guarded(s, w)
  /\ work' = [work EXCEPT ![p] = [session |-> s, working |-> w]]
  /\ UNCHANGED <<guardedSessions, guardedAgents, guardedProjects, prep, acquired, version>>

\* The Run ends, or the item leaves its Queue.
WorkEnds(p) ==
  /\ p \in Active
  /\ work' = [work EXCEPT ![p] = None]
  /\ UNCHANGED <<guardedSessions, guardedAgents, guardedProjects, prep, acquired, version>>

-----------------------------------------------------------------------------
(* Lifecycle workflows *)

Acquires == acquired < MaxGuards /\ acquired' = acquired + 1

\* Mutated form: a preparation without a Session id is not seen.
SessionFreeIfNamed(s) ==
  /\ ~SessionActive(s) /\ ~Guarded(s, None)
  /\ \A p \in Preparing : ~(Includes(p, s) /\ prep[p].session = s)
SessionFree(s) ==
  /\ ~SessionActive(s) /\ ~Guarded(s, None)
  /\ \A p \in Preparing : ~Includes(p, s)

\* session_admission_guard
AcquireSessions(S) ==
  /\ Acquires
  /\ S # {} /\ \A s \in S : SessionFree(s)
  /\ guardedSessions' = guardedSessions \cup {S}
  /\ UNCHANGED <<guardedAgents, guardedProjects, prep, work, version>>

\* agent_admission_guard
AcquireAgent(k) ==
  /\ Acquires
  /\ k \notin guardedAgents /\ k[1] \notin guardedProjects
  /\ \A s \in Sessions : GuardedSession(s) => KeyOf(s) # k
  /\ ~AgentActive(k) /\ \A p \in Preparing : prep[p].key # k
  /\ guardedAgents' = guardedAgents \cup {k}
  /\ UNCHANGED <<guardedSessions, guardedProjects, prep, work, version>>

\* project_admission_guard against the guards already held.
NoGuardIn(w) ==
  /\ w \notin guardedProjects
  /\ \A s \in Sessions : GuardedSession(s) => AnchorOf[s] # w
  /\ \A k \in guardedAgents : k[1] # w

\* project_admission_guard: every preparation under way learns of the change.
AcquireProject(w) ==
  /\ Acquires
  /\ NoGuardIn(w) /\ ~ProjectActive(w)
  /\ \A p \in Preparing : w # prep[p].key[1] /\ w # prep[p].working
  /\ guardedProjects' = guardedProjects \cup {w}
  /\ prep' = [p \in Producers |->
                IF p \in Preparing THEN [prep[p] EXCEPT !.changed = @ \cup {w}] ELSE None]
  /\ UNCHANGED <<guardedSessions, guardedAgents, work, version>>

\* _release_*_admission_guard: the transition is over.
ReleaseSessions(S) ==
  /\ S \in guardedSessions
  /\ guardedSessions' = guardedSessions \ {S}
  /\ UNCHANGED <<guardedAgents, guardedProjects, prep, work, acquired, version>>

ReleaseAgent(k) ==
  /\ k \in guardedAgents
  /\ guardedAgents' = guardedAgents \ {k}
  /\ UNCHANGED <<guardedSessions, guardedProjects, prep, work, acquired, version>>

ReleaseProject(w) ==
  /\ w \in guardedProjects
  /\ guardedProjects' = guardedProjects \ {w}
  /\ version' = [version EXCEPT ![w] = @ + 1]
  /\ UNCHANGED <<guardedSessions, guardedAgents, prep, work, acquired>>

-----------------------------------------------------------------------------
Produce(p) ==
  \/ \E k \in Keys, s \in Sessions \cup {None} : Prepare(p, k, s)
  \/ \E w \in Anchors : BindWorkingProject(p, w)
  \/ \E s \in Sessions : BindSession(p, s)
  \/ ReleasePreparation(p)
  \/ \E s \in Sessions, w \in Anchors : Install(p, s, w)
  \/ WorkEnds(p)

Transition ==
  \/ \E S \in SUBSET Sessions : AcquireSessions(S) \/ ReleaseSessions(S)
  \/ \E k \in Keys : AcquireAgent(k) \/ ReleaseAgent(k)
  \/ \E w \in Projects : AcquireProject(w) \/ ReleaseProject(w)

Next == (\E p \in Producers : Produce(p)) \/ Transition

Spec == Init /\ [][Next]_vars

-----------------------------------------------------------------------------
(* Properties *)

\* The guard sets, preparations and installed work have the shape runs.py
\* gives them, and a preparation that named its Session is inside its Agent.
TypeOK ==
  /\ guardedSessions \subseteq SUBSET Sessions
  /\ guardedAgents \subseteq Keys /\ guardedProjects \subseteq Projects
  /\ prep \in [Producers -> Preparations \cup {None}]
  /\ work \in [Producers -> Work \cup {None}]
  /\ acquired \in 0..MaxGuards /\ version \in [Projects -> Nat]
  /\ \A p \in Preparing : prep[p].session # None => prep[p].key = KeyOf(prep[p].session)

\* While a transition holds its guard, no active or queued work is in its
\* scope: not in its Sessions, not of its Agent, and neither anchored in its
\* Project nor working in it.
GuardsExcludeWork ==
  \A p \in Active :
    /\ ~GuardedSession(work[p].session)
    /\ KeyOf(work[p].session) \notin guardedAgents
    /\ {AnchorOf[work[p].session], work[p].working} \cap guardedProjects = {}

\* Nor is anybody between resolving a target in that scope and installing work
\* there: lifecycle guards and preparations exclude each other.
GuardsExcludePreparations ==
  \A p \in Preparing :
    /\ prep[p].key \notin guardedAgents
    /\ prep[p].key[1] \notin guardedProjects /\ prep[p].working \notin guardedProjects
    /\ \A s \in Sessions : GuardedSession(s) => ~Includes(p, s)

\* Two transitions never share a Session, so the release of one leaves the
\* other's boundary standing.
GuardsDisjoint ==
  \A s \in Sessions :
    /\ \A g, h \in guardedSessions : s \in g /\ s \in h => g = h
    /\ GuardedSession(s) => KeyOf(s) \notin guardedAgents
    /\ GuardedSession(s) \/ KeyOf(s) \in guardedAgents => AnchorOf[s] \notin guardedProjects

\* The Project a preparation bound is still the one it resolved: no removal of
\* it was under way, or completed, at any time since the preparation began.
BoundProjectUnchanged ==
  \A p \in Preparing :
    prep[p].working # None => version[prep[p].working] = prep[p].versions[prep[p].working]
=============================================================================
