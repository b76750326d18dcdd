----------------------- MODULE AdmissionGuardsProofs -----------------------
(***************************************************************************)
(* Proofs about AdmissionGuards, for any addresses, Projects, producers    *)
(* and number of guards.                                                   *)
(***************************************************************************)
EXTENDS AdmissionGuards, TLAPS

\* What makes BoundProjectUnchanged inductive: changed names every Project in
\* transition now or completed since, and never the bound one.
ChangesNoted ==
  \A p \in Preparing :
    /\ guardedProjects \subseteq prep[p].changed
    /\ prep[p].working \notin prep[p].changed
    /\ \A w \in Projects : version[w] # prep[p].versions[w] => w \in prep[p].changed

GuardInv ==
  /\ TypeOK /\ GuardsExcludeWork /\ GuardsExcludePreparations /\ GuardsDisjoint /\ ChangesNoted

\* Reading a preparation and a piece of work as the records they are.
LEMMA Shapes ==
  ASSUME TypeOK
  PROVE  /\ \A p \in Preparing : prep[p] \in Preparations
         /\ \A p \in Active : work[p] \in Work
  BY DEF TypeOK, Preparing, Active

\* A Session's key is a key.
LEMMA KeyType == \A s \in Sessions : KeyOf(s) \in Keys /\ KeyOf(s)[1] = AnchorOf[s]
  BY AddressAssumption DEF KeyOf, Keys, Anchors

LEMMA InitInv == Init => GuardInv
  BY AddressAssumption
  DEF Init, GuardInv, TypeOK, GuardsExcludeWork, GuardsExcludePreparations, GuardsDisjoint,
      ChangesNoted, Preparing, Active, GuardedSession

LEMMA PrepareInv ==
  ASSUME GuardInv, NEW p \in Producers, NEW k \in Keys, NEW s \in Sessions \cup {None},
         Prepare(p, k, s)
  PROVE  GuardInv'
<1> DEFINE new == [key |-> k, session |-> s, working |-> None,
                   changed |-> guardedProjects, versions |-> version]
<1>1. new \in Preparations
  BY DEF GuardInv, TypeOK, Preparations, Anchors
<1>2. prep' = [prep EXCEPT ![p] = new]
  BY DEF Prepare
<1>3. TypeOK'
  <2>1. prep' \in [Producers -> Preparations \cup {None}]
    BY <1>1, <1>2 DEF GuardInv, TypeOK
  <2>2. \A q \in Preparing' : prep'[q].session # None => prep'[q].key = KeyOf(prep'[q].session)
    BY <1>2 DEF GuardInv, TypeOK, Prepare, Preparing
  <2> QED
    BY <2>1, <2>2 DEF GuardInv, TypeOK, Prepare
<1>4. GuardsExcludeWork'
  BY DEF GuardInv, GuardsExcludeWork, Prepare, Active, Guarded, GuardedSession
<1>5. GuardsExcludePreparations'
  BY <1>2, AddressAssumption
  DEF GuardInv, TypeOK, GuardsExcludePreparations, Prepare, Preparing, GuardedSession, Includes
<1>6. GuardsDisjoint'
  BY DEF GuardInv, GuardsDisjoint, Prepare, GuardedSession
<1>7. ChangesNoted'
  BY <1>2, AddressAssumption DEF GuardInv, TypeOK, ChangesNoted, Prepare, Preparing
<1> QED
  BY <1>3, <1>4, <1>5, <1>6, <1>7 DEF GuardInv

LEMMA BindWorkingProjectInv ==
  ASSUME GuardInv, NEW p \in Producers, NEW w \in Anchors, BindWorkingProject(p, w)
  PROVE  GuardInv'
<1>1. prep[p] \in Preparations /\ prep[p] # None
  BY Shapes DEF GuardInv, BindWorkingProject, Preparing
<1>2. prep' = [prep EXCEPT ![p].working = w] /\ w \notin prep[p].changed /\ w \notin guardedProjects
  BY DEF BindWorkingProject, Bindable
<1>3. TypeOK'
  <2>1. [prep[p] EXCEPT !.working = w] \in Preparations
    BY <1>1 DEF Preparations
  <2> QED
    BY <1>1, <1>2, <2>1 DEF GuardInv, TypeOK, BindWorkingProject, Preparing
<1>4. GuardsExcludeWork'
  BY DEF GuardInv, GuardsExcludeWork, BindWorkingProject, Active, Guarded, GuardedSession
<1>5. GuardsExcludePreparations'
  BY <1>1, <1>2
  DEF GuardInv, TypeOK, GuardsExcludePreparations, BindWorkingProject, Preparing, GuardedSession,
      Includes, Preparations
<1>6. GuardsDisjoint'
  BY DEF GuardInv, GuardsDisjoint, BindWorkingProject, GuardedSession
<1>7. ChangesNoted'
  BY <1>1, <1>2
  DEF GuardInv, TypeOK, ChangesNoted, BindWorkingProject, Preparing, Preparations
<1> QED
  BY <1>3, <1>4, <1>5, <1>6, <1>7 DEF GuardInv

LEMMA BindSessionInv ==
  ASSUME GuardInv, NEW p \in Producers, NEW s \in Sessions, BindSession(p, s)
  PROVE  GuardInv'
<1>1. prep[p] \in Preparations /\ prep[p] # None
  BY Shapes DEF GuardInv, BindSession, Preparing
<1>2. prep' = [prep EXCEPT ![p].session = s] /\ prep[p].session = None /\ prep[p].key = KeyOf(s)
  BY DEF BindSession
<1>3. TypeOK'
  <2>1. [prep[p] EXCEPT !.session = s] \in Preparations
    BY <1>1 DEF Preparations
  <2> QED
    BY <1>1, <1>2, <2>1 DEF GuardInv, TypeOK, BindSession, Preparing, Preparations
<1>4. GuardsExcludeWork'
  BY DEF GuardInv, GuardsExcludeWork, BindSession, Active, Guarded, GuardedSession
<1>5. GuardsExcludePreparations'
  BY <1>1, <1>2
  DEF GuardInv, TypeOK, GuardsExcludePreparations, BindSession, Preparing, GuardedSession,
      Includes, Preparations
<1>6. GuardsDisjoint'
  BY DEF GuardInv, GuardsDisjoint, BindSession, GuardedSession
<1>7. ChangesNoted'
  BY <1>1, <1>2 DEF GuardInv, TypeOK, ChangesNoted, BindSession, Preparing, Preparations
<1> QED
  BY <1>3, <1>4, <1>5, <1>6, <1>7 DEF GuardInv

LEMMA ReleasePreparationInv ==
  ASSUME GuardInv, NEW p \in Producers, ReleasePreparation(p)
  PROVE  GuardInv'
<1>1. prep' = [prep EXCEPT ![p] = None]
  BY DEF ReleasePreparation
<1>2. TypeOK'
  BY <1>1 DEF GuardInv, TypeOK, ReleasePreparation, Preparing
<1>3. GuardsExcludeWork'
  BY DEF GuardInv, GuardsExcludeWork, ReleasePreparation, Active, Guarded, GuardedSession
<1>4. GuardsExcludePreparations'
  BY <1>1
  DEF GuardInv, TypeOK, GuardsExcludePreparations, ReleasePreparation, Preparing, GuardedSession,
      Includes
<1>5. GuardsDisjoint'
  BY DEF GuardInv, GuardsDisjoint, ReleasePreparation, GuardedSession
<1>6. ChangesNoted'
  BY <1>1 DEF GuardInv, TypeOK, ChangesNoted, ReleasePreparation, Preparing
<1> QED
  BY <1>2, <1>3, <1>4, <1>5, <1>6 DEF GuardInv

\* Only GuardsExcludeWork sees work.
LEMMA WorkInv ==
  ASSUME GuardInv, work' \in [Producers -> Work \cup {None}], GuardsExcludeWork',
         UNCHANGED <<guardedSessions, guardedAgents, guardedProjects, prep, acquired, version>>
  PROVE  GuardInv'
<1>1. TypeOK'
  BY DEF GuardInv, TypeOK, Preparing
<1>2. GuardsExcludePreparations'
  BY DEF GuardInv, GuardsExcludePreparations, Preparing, GuardedSession, Includes
<1>3. GuardsDisjoint'
  BY DEF GuardInv, GuardsDisjoint, GuardedSession
<1>4. ChangesNoted'
  BY DEF GuardInv, ChangesNoted, Preparing
<1> QED
  BY <1>1, <1>2, <1>3, <1>4 DEF GuardInv

LEMMA InstallInv ==
  ASSUME GuardInv, NEW p \in Producers, NEW s \in Sessions, NEW w \in Anchors, Install(p, s, w)
  PROVE  GuardInv'
<1>1. work' = [work EXCEPT ![p] = [session |-> s, working |-> w]] /\ ~Guarded(s, w)
  BY DEF Install
<1>2. work' \in [Producers -> Work \cup {None}]
  BY <1>1 DEF GuardInv, TypeOK, Work
<1>3. GuardsExcludeWork'
  BY <1>1 DEF GuardInv, TypeOK, GuardsExcludeWork, Install, Active, Guarded, GuardedSession
<1> QED
  BY <1>2, <1>3, WorkInv DEF Install

LEMMA WorkEndsInv ==
  ASSUME GuardInv, NEW p \in Producers, WorkEnds(p)
  PROVE  GuardInv'
<1>1. work' = [work EXCEPT ![p] = None]
  BY DEF WorkEnds
<1>2. work' \in [Producers -> Work \cup {None}]
  BY <1>1 DEF GuardInv, TypeOK
<1>3. GuardsExcludeWork'
  BY <1>1 DEF GuardInv, TypeOK, GuardsExcludeWork, WorkEnds, Active, Guarded, GuardedSession
<1> QED
  BY <1>2, <1>3, WorkInv DEF WorkEnds

-----------------------------------------------------------------------------
LEMMA AcquireSessionsInv ==
  ASSUME GuardInv, NEW S \in SUBSET Sessions, AcquireSessions(S)
  PROVE  GuardInv'
<1>1. /\ guardedSessions' = guardedSessions \cup {S}
      /\ \A s \in S : SessionFree(s)
      /\ acquired' = acquired + 1 /\ acquired < MaxGuards
  BY DEF AcquireSessions, Acquires
<1>2. \A s : GuardedSession(s)' <=> GuardedSession(s) \/ s \in S
  BY <1>1 DEF GuardedSession
<1>3. TypeOK'
  BY <1>1, AddressAssumption DEF GuardInv, TypeOK, AcquireSessions, Preparing
<1>4. GuardsExcludeWork'
  BY <1>1, <1>2
  DEF GuardInv, GuardsExcludeWork, AcquireSessions, Active, Guarded, SessionFree, SessionActive
<1>5. GuardsExcludePreparations'
  BY <1>1, <1>2
  DEF GuardInv, GuardsExcludePreparations, AcquireSessions, Preparing, SessionFree, Includes
<1>6. GuardsDisjoint'
  BY <1>1, <1>2
  DEF GuardInv, GuardsDisjoint, AcquireSessions, SessionFree, Guarded, GuardedSession
<1>7. ChangesNoted'
  BY DEF GuardInv, ChangesNoted, AcquireSessions, Preparing
<1> QED
  BY <1>3, <1>4, <1>5, <1>6, <1>7 DEF GuardInv

LEMMA AcquireAgentInv ==
  ASSUME GuardInv, NEW k \in Keys, AcquireAgent(k)
  PROVE  GuardInv'
<1>1. /\ guardedAgents' = guardedAgents \cup {k}
      /\ acquired' = acquired + 1 /\ acquired < MaxGuards
  BY DEF AcquireAgent, Acquires
<1>2. TypeOK'
  BY <1>1, AddressAssumption DEF GuardInv, TypeOK, AcquireAgent, Preparing
<1>3. GuardsExcludeWork'
  BY <1>1
  DEF GuardInv, GuardsExcludeWork, AcquireAgent, Active, Guarded, GuardedSession, AgentActive
<1>4. GuardsExcludePreparations'
  BY <1>1 DEF GuardInv, GuardsExcludePreparations, AcquireAgent, Preparing, GuardedSession, Includes
<1>5. GuardsDisjoint'
  BY <1>1, KeyType DEF GuardInv, GuardsDisjoint, AcquireAgent, GuardedSession
<1>6. ChangesNoted'
  BY DEF GuardInv, ChangesNoted, AcquireAgent, Preparing
<1> QED
  BY <1>2, <1>3, <1>4, <1>5, <1>6 DEF GuardInv

LEMMA AcquireProjectInv ==
  ASSUME GuardInv, NEW w \in Projects, AcquireProject(w)
  PROVE  GuardInv'
<1> DEFINE Told(p) == [prep[p] EXCEPT !.changed = @ \cup {w}]
<1>1. /\ guardedProjects' = guardedProjects \cup {w}
      /\ acquired' = acquired + 1 /\ acquired < MaxGuards
      /\ prep' = [p \in Producers |-> IF p \in Preparing THEN Told(p) ELSE None]
      /\ ~ProjectActive(w) /\ NoGuardIn(w)
      /\ \A p \in Preparing : w # prep[p].key[1] /\ w # prep[p].working
  BY DEF AcquireProject, Acquires
<1>2. \A p \in Preparing : prep[p] \in Preparations
  BY Shapes DEF GuardInv
<1>3. \A p \in Preparing :
        /\ Told(p) \in Preparations /\ Told(p) # None
        /\ Told(p).key = prep[p].key /\ Told(p).session = prep[p].session
        /\ Told(p).working = prep[p].working /\ Told(p).versions = prep[p].versions
        /\ Told(p).changed = prep[p].changed \cup {w}
  <2> SUFFICES ASSUME NEW p \in Preparing
               PROVE  /\ Told(p) \in Preparations /\ Told(p) # None
                      /\ Told(p).key = prep[p].key /\ Told(p).session = prep[p].session
                      /\ Told(p).working = prep[p].working /\ Told(p).versions = prep[p].versions
                      /\ Told(p).changed = prep[p].changed \cup {w}
    OBVIOUS
  <2>1. prep[p] \in Preparations
    BY <1>2
  <2>2. Told(p) \in Preparations
    BY <2>1 DEF Preparations
  <2>3. Told(p) # None
    BY <2>2, NoneAssumption
  <2> QED
    BY <2>1, <2>2, <2>3 DEF Preparations
<1>4. Preparing' = Preparing /\ \A p \in Preparing : prep'[p] = Told(p)
  BY <1>1, <1>3 DEF Preparing
<1> HIDE DEF Told
<1>5. TypeOK'
  <2>1. prep' \in [Producers -> Preparations \cup {None}]
    BY <1>1, <1>3
  <2> QED
    BY <1>1, <1>3, <1>4, <2>1, AddressAssumption DEF GuardInv, TypeOK, AcquireProject
<1>6. GuardsExcludeWork'
  BY <1>1
  DEF GuardInv, GuardsExcludeWork, AcquireProject, Active, Guarded, GuardedSession, ProjectActive
<1>7. GuardsExcludePreparations'
  BY <1>1, <1>3, <1>4
  DEF GuardInv, GuardsExcludePreparations, AcquireProject, GuardedSession, Includes
<1>8. GuardsDisjoint'
  BY <1>1, KeyType DEF GuardInv, GuardsDisjoint, AcquireProject, GuardedSession, NoGuardIn
<1>9. ChangesNoted'
  BY <1>1, <1>3, <1>4 DEF GuardInv, ChangesNoted, AcquireProject
<1> QED
  BY <1>5, <1>6, <1>7, <1>8, <1>9 DEF GuardInv

LEMMA ReleaseSessionsInv ==
  ASSUME GuardInv, NEW S \in SUBSET Sessions, ReleaseSessions(S)
  PROVE  GuardInv'
<1>1. guardedSessions' = guardedSessions \ {S}
  BY DEF ReleaseSessions
<1>2. \A s : GuardedSession(s)' => GuardedSession(s)
  BY <1>1 DEF GuardedSession
<1>3. TypeOK'
  BY <1>1 DEF GuardInv, TypeOK, ReleaseSessions, Preparing
<1>4. GuardsExcludeWork'
  BY <1>2 DEF GuardInv, GuardsExcludeWork, ReleaseSessions, Active, Guarded
<1>5. GuardsExcludePreparations'
  BY <1>2 DEF GuardInv, GuardsExcludePreparations, ReleaseSessions, Preparing, Includes
<1>6. GuardsDisjoint'
  BY <1>1, <1>2 DEF GuardInv, GuardsDisjoint, ReleaseSessions
<1>7. ChangesNoted'
  BY DEF GuardInv, ChangesNoted, ReleaseSessions, Preparing
<1> QED
  BY <1>3, <1>4, <1>5, <1>6, <1>7 DEF GuardInv

LEMMA ReleaseAgentInv ==
  ASSUME GuardInv, NEW k \in Keys, ReleaseAgent(k)
  PROVE  GuardInv'
<1>1. guardedAgents' = guardedAgents \ {k}
  BY DEF ReleaseAgent
<1>2. TypeOK'
  BY <1>1 DEF GuardInv, TypeOK, ReleaseAgent, Preparing
<1>3. GuardsExcludeWork'
  BY <1>1 DEF GuardInv, GuardsExcludeWork, ReleaseAgent, Active, Guarded, GuardedSession
<1>4. GuardsExcludePreparations'
  BY <1>1 DEF GuardInv, GuardsExcludePreparations, ReleaseAgent, Preparing, GuardedSession, Includes
<1>5. GuardsDisjoint'
  BY <1>1 DEF GuardInv, GuardsDisjoint, ReleaseAgent, GuardedSession
<1>6. ChangesNoted'
  BY DEF GuardInv, ChangesNoted, ReleaseAgent, Preparing
<1> QED
  BY <1>2, <1>3, <1>4, <1>5, <1>6 DEF GuardInv

\* A Project's version moves while every preparation knows of its transition.
LEMMA ReleaseProjectInv ==
  ASSUME GuardInv, NEW w \in Projects, ReleaseProject(w)
  PROVE  GuardInv'
<1>1. /\ w \in guardedProjects /\ guardedProjects' = guardedProjects \ {w}
      /\ version' = [version EXCEPT ![w] = @ + 1]
  BY DEF ReleaseProject
<1>2. TypeOK'
  BY <1>1 DEF GuardInv, TypeOK, ReleaseProject, Preparing
<1>3. GuardsExcludeWork'
  BY <1>1 DEF GuardInv, GuardsExcludeWork, ReleaseProject, Active, Guarded, GuardedSession
<1>4. GuardsExcludePreparations'
  BY <1>1
  DEF GuardInv, GuardsExcludePreparations, ReleaseProject, Preparing, GuardedSession, Includes
<1>5. GuardsDisjoint'
  BY <1>1 DEF GuardInv, GuardsDisjoint, ReleaseProject, GuardedSession
<1>6. ChangesNoted'
  BY <1>1 DEF GuardInv, TypeOK, ChangesNoted, ReleaseProject, Preparing
<1> QED
  BY <1>2, <1>3, <1>4, <1>5, <1>6 DEF GuardInv

-----------------------------------------------------------------------------
LEMMA StutterInv == GuardInv /\ UNCHANGED vars => GuardInv'
  BY DEF vars, GuardInv, TypeOK, GuardsExcludeWork, GuardsExcludePreparations, GuardsDisjoint,
         ChangesNoted, Preparing, Active, Guarded, GuardedSession, Includes

LEMMA NextInv == GuardInv /\ [Next]_vars => GuardInv'
<1> SUFFICES ASSUME GuardInv, [Next]_vars PROVE GuardInv'
  OBVIOUS
<1>1. ASSUME NEW p \in Producers, Produce(p) PROVE GuardInv'
  BY <1>1, PrepareInv, BindWorkingProjectInv, BindSessionInv, ReleasePreparationInv, InstallInv,
     WorkEndsInv DEF Produce
<1>2. CASE Transition
  BY <1>2, AcquireSessionsInv, AcquireAgentInv, AcquireProjectInv, ReleaseSessionsInv,
     ReleaseAgentInv, ReleaseProjectInv DEF Transition
<1>3. CASE UNCHANGED vars
  BY <1>3, StutterInv
<1> QED
  BY <1>1, <1>2, <1>3 DEF Next

\* The inductive invariant: guards, preparations and work keep apart.
THEOREM GuardInvariant == Spec => []GuardInv
  BY InitInv, NextInv, PTL DEF Spec

\* The state keeps its type, and a preparation never names another Agent's Session.
THEOREM TypeCorrect == Spec => []TypeOK
<1>1. GuardInv => TypeOK
  BY DEF GuardInv
<1> QED
  BY <1>1, GuardInvariant, PTL

\* A held lifecycle guard means no active or queued work in its scope.
THEOREM TransitionsSeeNoWork == Spec => []GuardsExcludeWork
<1>1. GuardInv => GuardsExcludeWork
  BY DEF GuardInv
<1> QED
  BY <1>1, GuardInvariant, PTL

\* A held lifecycle guard means no preparation in its scope either.
THEOREM TransitionsSeeNoPreparation == Spec => []GuardsExcludePreparations
<1>1. GuardInv => GuardsExcludePreparations
  BY DEF GuardInv
<1> QED
  BY <1>1, GuardInvariant, PTL

\* Releasing one transition's guard cannot open another's scope.
THEOREM TransitionsAreDisjoint == Spec => []GuardsDisjoint
<1>1. GuardInv => GuardsDisjoint
  BY DEF GuardInv
<1> QED
  BY <1>1, GuardInvariant, PTL

\* The working Project a preparation bound was never removed under it.
THEOREM BoundProjectIsStable == Spec => []BoundProjectUnchanged
<1>1. GuardInv => BoundProjectUnchanged
  <2> SUFFICES ASSUME GuardInv, NEW p \in Preparing, prep[p].working # None
               PROVE  version[prep[p].working] = prep[p].versions[prep[p].working]
    BY DEF BoundProjectUnchanged
  <2>1. prep[p] \in Preparations
    BY Shapes DEF GuardInv
  <2>2. prep[p].working \in Projects
    BY <2>1 DEF Preparations, Anchors
  <2> QED
    BY <2>2 DEF GuardInv, ChangesNoted
<1> QED
  BY <1>1, GuardInvariant, PTL
=============================================================================
