---------------------- MODULE CompletionDeliveryProofs ----------------------
(***************************************************************************)
(* Proofs about CompletionDelivery, for any results, Runs and faults.      *)
(*                                                                         *)
(* What is known of a result that is not astray: as long as it             *)
(* is held, it was written if and only if a request carried it; and what a *)
(* message carries that is being written is held, claimed, and was not     *)
(* written before.  So nobody can withdraw it in the meantime, and nobody  *)
(* else writes it.                                                         *)
(*                                                                         *)
(* On top of that, what is known of reading: no request that the Model     *)
(* answered since a result was written lacked it, so the Run that is to    *)
(* read it has answered none it would have to be told from; and what the   *)
(* delivery task is about to wake the Session for is from no stopped Run.  *)
(***************************************************************************)
EXTENDS CompletionDelivery, FiniteSetTheorems, WellFoundedInduction, TLAPS

Sent(n) == bucket[n].readAfter # Unsent
\* A message that is on its way to the Session alone carries n.
Carries(n) == n \in Held /\ bucket[n].claimed = TRUE /\ ~Sent(n)
\* The delivery task will start a follow-up Run with its batch, or waits for it.
FollowsUp == pc \in {"surface", "starting", "refused", "following"}

LockInv ==
  /\ lock = "run" <=> run.at \in {"appending", "input"}
  /\ lock = "task" <=> pc \in {"loading", "writing", "landing"}
  /\ pc = "landing" => closed
  /\ pc # "starting" => message = {}
  /\ run.id = 0 => run.at = "none"
  /\ run.bodies \subseteq run.carries /\ message \subseteq batch
  /\ run.at = "appending" => run.carries = run.bodies
  /\ run.at \in {"none", "ready", "asking"} => run.carries = {}

\* What the Session and the producer know of n.
Known(n) ==
  /\ n \in Held => future[n] \in {"pending", "done"}
  /\ future[n] = "new" => stored[n] = 0 /\ n \notin run.carries \cup batch
  /\ future[n] = "done" => stored[n] > 0
  /\ future[n] = "withdrawn" => stored[n] = 0 \/ n \in astray
  /\ n \in Held => IF Sent(n) THEN stored[n] > 0 ELSE stored[n] = 0 \/ n \in astray
  /\ stored[n] =< 1 \/ n \in astray

\* What the messages under way carry.
RequestCarries(n) ==
  run.at = "appending" /\ n \in run.bodies \ astray => Carries(n) /\ ~(FollowsUp /\ n \in batch)
InputCarries(n) ==
  run.at \in {"admitted", "input", "failed", "cut", "last"} =>
    /\ n \in run.bodies \ astray =>
         Carries(n) /\ pc = "following" /\ awaited = run.id /\ n \in batch
    /\ n \in run.carries \ run.bodies => stored[n] > 0
FollowUpCarries(n) ==
  pc = "starting" /\ n \in batch =>
    IF n \in message THEN n \in astray \/ Carries(n) ELSE stored[n] > 0
ReminderCarries(n) ==
  /\ pc = "loading" /\ n \in batch \cap Held => ~Sent(n)
  /\ pc \in {"writing", "landing"} /\ n \in batch => Carries(n)

NoticeInv(n) ==
  Known(n) /\ RequestCarries(n) /\ InputCarries(n) /\ FollowUpCarries(n) /\ ReminderCarries(n)

Inv == TypeOK /\ LockInv /\ \A n \in Notices : NoticeInv(n)

-----------------------------------------------------------------------------
(* Buckets *)

IsBucket(b) == DOMAIN b \subseteq Notices /\ \A n \in DOMAIN b : b[n] \in Fields

\* Nothing of the notices of b changes but the fields a step is about.
LEMMA ClaimKeeps ==
  ASSUME NEW b, IsBucket(b), NEW S
  PROVE  /\ IsBucket(Claim(b, S)) /\ DOMAIN Claim(b, S) = DOMAIN b
         /\ \A n \in DOMAIN b :
              /\ Claim(b, S)[n].readAfter = b[n].readAfter
              /\ Claim(b, S)[n].boundary = b[n].boundary
              /\ Claim(b, S)[n].suppress = b[n].suppress
              /\ n \in S => Claim(b, S)[n].claimed = TRUE
              /\ n \notin S => Claim(b, S)[n].claimed = b[n].claimed
BY DEF IsBucket, Claim, Fields

LEMMA ReleaseKeeps ==
  ASSUME NEW b, IsBucket(b), NEW S
  PROVE  /\ IsBucket(Release(b, S)) /\ DOMAIN Release(b, S) = DOMAIN b
         /\ \A n \in DOMAIN b :
              /\ Release(b, S)[n].readAfter = b[n].readAfter
              /\ Release(b, S)[n].boundary = b[n].boundary
              /\ Release(b, S)[n].suppress = b[n].suppress
              /\ n \notin S => Release(b, S)[n].claimed = b[n].claimed
BY DEF IsBucket, Release, Fields

LEMMA SuppressKeeps ==
  ASSUME NEW b, IsBucket(b), NEW S
  PROVE  /\ IsBucket(Suppress(b, S)) /\ DOMAIN Suppress(b, S) = DOMAIN b
         /\ \A n \in DOMAIN b : /\ Suppress(b, S)[n].readAfter = b[n].readAfter
                                /\ Suppress(b, S)[n].boundary = b[n].boundary
                                /\ Suppress(b, S)[n].claimed = b[n].claimed
                                /\ n \in S => Suppress(b, S)[n].suppress = TRUE
BY DEF IsBucket, Suppress, Fields

LEMMA DetachKeeps ==
  ASSUME NEW b, IsBucket(b), NEW S
  PROVE  /\ IsBucket(Detach(b, S)) /\ DOMAIN Detach(b, S) = DOMAIN b
         /\ \A n \in DOMAIN b : /\ Detach(b, S)[n].readAfter = b[n].readAfter
                                /\ n \in S => Detach(b, S)[n].boundary = 0
                                /\ n \notin S => Detach(b, S)[n].boundary = b[n].boundary
                                /\ Detach(b, S)[n].claimed = b[n].claimed
BY DEF IsBucket, Detach, Fields

LEMMA CarriedKeeps ==
  ASSUME NEW b, IsBucket(b), NEW S, NEW at \in Nat
  PROVE  /\ IsBucket(Carried(b, S, at)) /\ DOMAIN Carried(b, S, at) = DOMAIN b
         /\ \A n \in DOMAIN b :
              /\ Carried(b, S, at)[n].readAfter = IF n \in S THEN at ELSE b[n].readAfter
              /\ Carried(b, S, at)[n].boundary = b[n].boundary
              /\ Carried(b, S, at)[n].suppress = b[n].suppress
              /\ Carried(b, S, at)[n].claimed = b[n].claimed
BY DEF IsBucket, Carried, Fields

LEMMA JoinKeeps ==
  ASSUME NEW b, IsBucket(b), NEW S, NEW r \in Runs
  PROVE  /\ IsBucket(Join(b, S, r)) /\ DOMAIN Join(b, S, r) = DOMAIN b
         /\ \A n \in DOMAIN b :
              /\ (Join(b, S, r)[n].readAfter = Unsent) <=> (b[n].readAfter = Unsent)
              /\ Join(b, S, r)[n].claimed = b[n].claimed
              /\ n \in S => /\ Join(b, S, r)[n].boundary = r
                            /\ b[n].readAfter # Unsent => Join(b, S, r)[n].readAfter = 0
              /\ n \notin S => Join(b, S, r)[n] = b[n]
<1>1. 0 # Unsent /\ 0 \in Nat
  BY DEF Unsent
<1>2. ASSUME NEW n \in DOMAIN b
      PROVE  /\ Join(b, S, r)[n] \in Fields
             /\ (Join(b, S, r)[n].readAfter = Unsent) <=> (b[n].readAfter = Unsent)
             /\ Join(b, S, r)[n].claimed = b[n].claimed
             /\ n \in S => /\ Join(b, S, r)[n].boundary = r
                           /\ b[n].readAfter # Unsent => Join(b, S, r)[n].readAfter = 0
             /\ n \notin S => Join(b, S, r)[n] = b[n]
  <2>1. b[n] \in Fields
    BY <1>2 DEF IsBucket
  <2>2. CASE n \in S
    BY <1>1, <2>1, <2>2, <1>2 DEF Join, Fields
  <2>3. CASE n \notin S
    BY <2>1, <2>3, <1>2 DEF Join
  <2> QED BY <2>2, <2>3
<1> QED BY <1>2 DEF IsBucket, Join

LEMMA WithoutKeeps ==
  ASSUME NEW b, IsBucket(b), NEW S
  PROVE  /\ IsBucket(Without(b, S)) /\ DOMAIN Without(b, S) = DOMAIN b \ S
         /\ \A n \in DOMAIN b \ S : Without(b, S)[n] = b[n]
BY DEF IsBucket, Without

\* The first notice of a bucket exists, so the loop knows which Run to await.
LEMMA FirstHeld == ASSUME NEW b, IsBucket(b), DOMAIN b # {} PROVE First(b) \in DOMAIN b
<1> DEFINE ranks == {b[n].rank : n \in DOMAIN b}
<1>1. ranks \subseteq Nat /\ ranks # {}
  BY DEF IsBucket, Fields
<1>2. \E k \in ranks : \A j \in ranks : k =< j
  <2>1. IsWellFoundedOn(OpToRel(<, Nat), Nat)
    BY NatLessThanWellFounded
  <2>2. \E k \in ranks : \A j \in ranks : ~(<<j, k>> \in OpToRel(<, Nat))
    BY <1>1, <2>1, WFMin, Zenon
  <2>3. \A j, k \in Nat : ~(<<j, k>> \in OpToRel(<, Nat)) => k =< j
    BY DEF OpToRel
  <2> QED BY <1>1, <2>2, <2>3
<1>3. \E n \in DOMAIN b : \A m \in DOMAIN b : b[n].rank =< b[m].rank
  BY <1>2
<1> QED BY <1>3 DEF First

LEMMA LoopHeadTypes ==
  ASSUME NEW b, IsBucket(b), LoopHead(b)
  PROVE  /\ awaited' \in Runs \cup {0} /\ pc' \in {"none", "turn", "waiting"}
         /\ batch' = {} /\ message' = {}
<1>1. CASE DOMAIN b = {}
  BY <1>1 DEF LoopHead
<1>2. CASE DOMAIN b # {}
  BY <1>2, FirstHeld DEF LoopHead, IsBucket, Fields
<1> QED BY <1>1, <1>2

-----------------------------------------------------------------------------
(* Facts that the steps share *)

LEMMA BucketTyped == TypeOK => IsBucket(bucket)
BY DEF TypeOK, NoticeTypes, IsBucket, Held

LEMMA RunsTyped == Runs \subseteq Nat \ {0} /\ 0 \in Nat
BY DEF Runs

LEMMA InitInv == Init => Inv
<1> SUFFICES ASSUME Init PROVE Inv
  OBVIOUS
<1>1. TypeOK
  <2>1. Held = {}
    BY DEF Init, Held
  <2>2. run \in [id : Runs \cup {0}, carries : SUBSET Notices, bodies : SUBSET Notices,
                at : {"none", "admitted", "input", "failed", "cut", "last", "ready", "appending",
                      "asking"}]
    BY DEF Init, NoRun
  <2>3. faults \in 0..MaxFaults
    BY CompletionAssumption DEF Init
  <2> QED BY <2>1, <2>2, <2>3
        DEF Init, TypeOK, NoticeTypes, TaskTypes, RunTypes, SessionTypes, Places
<1>2. LockInv
  BY DEF Init, LockInv, NoRun
<1>3. \A n \in Notices : NoticeInv(n)
  BY DEF Init, NoticeInv, Known, RequestCarries, InputCarries, FollowUpCarries, ReminderCarries,
         Held, NoRun
<1> QED BY <1>1, <1>2, <1>3 DEF Inv

\* A step that writes nothing keeps what is known of n, if it tells the truth.
LEMMA KnownKept ==
  ASSUME NEW n \in Notices, Known(n), stored'[n] = stored[n], astray \subseteq astray',
         n \in Held' => n \in Held /\ (Sent(n)' <=> Sent(n)),
         \/ future'[n] = future[n]
         \/ future[n] = "pending" /\ future'[n] = "done" /\ stored[n] > 0
         \/ future'[n] = "cancelled" /\ n \notin Held',
         future'[n] = "new" => n \notin run'.carries \cup batch'
  PROVE  Known(n)'
BY DEF Known

\* So does a step that writes n, which is not held afterwards or was carried.
LEMMA KnownWritten ==
  ASSUME TypeOK, NEW n \in Notices, Known(n), stored'[n] = stored[n] + 1,
         astray \subseteq astray',
         n \in astray' \/ (n \in Held /\ ~Sent(n)),
         n \in Held' => n \in Held /\ Sent(n)',
         future'[n] \in {future[n], "done"}, future[n] # "new"
  PROVE  Known(n)'
<1>1. stored[n] \in Nat
  BY DEF TypeOK, SessionTypes
<1>2. future'[n] = "done" \/ future'[n] = future[n]
  OBVIOUS
<1> QED BY <1>1, <1>2 DEF Known

-----------------------------------------------------------------------------
(* The active Run *)

\* A Run that carries nothing starts, goes on or ends.
LEMMA EmptyRunInv ==
  ASSUME Inv, TypeOK', UNCHANGED <<bucket, future, task, lock, closed, stored, astray>>,
         run'.carries = {}, run'.bodies = {}, run.at \notin {"appending", "input"},
         run'.at \in {"none", "ready", "asking"}, run'.id = 0 => run'.at = "none"
  PROVE  Inv'
<1>1. LockInv'
  BY DEF Inv, LockInv, task
<1>2. ASSUME NEW n \in Notices PROVE NoticeInv(n)'
  <2>1. Known(n)'
    <3>1. Known(n)
      BY DEF Inv, NoticeInv
    <3> QED BY <3>1 DEF Known, Held, Sent, task
  <2>2. RequestCarries(n)' /\ InputCarries(n)'
    BY DEF RequestCarries, InputCarries
  <2>3. FollowUpCarries(n)' /\ ReminderCarries(n)'
    BY DEF Inv, NoticeInv, FollowUpCarries, ReminderCarries, Carries, Held, Sent, task
  <2> QED BY <2>1, <2>2, <2>3 DEF NoticeInv
<1> QED BY <1>1, <1>2 DEF Inv

LEMMA SameTypes ==
  ASSUME TypeOK
  PROVE  /\ UNCHANGED <<bucket, future>> => NoticeTypes'
         /\ UNCHANGED <<pc, batch, message, awaited, lock>> => TaskTypes'
         /\ UNCHANGED <<run, count, stopped, started>> => RunTypes'
         /\ UNCHANGED <<closed, faults, stored, shown, seen, astray>> => SessionTypes'
<1>1. UNCHANGED <<bucket, future>> => NoticeTypes'
  BY DEF TypeOK, NoticeTypes, Held
<1>2. UNCHANGED <<pc, batch, message, awaited, lock>> => TaskTypes'
  BY DEF TypeOK, TaskTypes, Places
<1>3. UNCHANGED <<run, count, stopped, started>> => RunTypes'
  BY DEF TypeOK, RunTypes
<1>4. UNCHANGED <<closed, faults, stored, shown, seen, astray>> => SessionTypes'
  BY DEF TypeOK, SessionTypes
<1> QED BY <1>1, <1>2, <1>3, <1>4

LEMMA RunEndsInv == ASSUME Inv, NEW byUser \in BOOLEAN, RunEnds(byUser) PROVE Inv'
<1>1. RunTypes'
  BY DEF Inv, TypeOK, RunTypes, RunEnds, Ends, NoRun, LockInv
<1>2. SessionTypes'
  BY DEF Inv, TypeOK, SessionTypes, RunEnds, Ends
<1>3. TypeOK'
  BY <1>1, <1>2, SameTypes DEF Inv, RunEnds, task, TypeOK
<1> QED BY <1>3, EmptyRunInv DEF RunEnds, Ends, NoRun

LEMMA AnswersInv == ASSUME Inv, Answers PROVE Inv'
<1>1. run' = [run EXCEPT !.at = "ready"] /\ run.at = "asking"
  BY DEF Answers
<1>2. /\ run'.carries = run.carries /\ run'.bodies = run.bodies
      /\ run'.at = "ready" /\ run'.id = run.id
  BY <1>1 DEF Inv, TypeOK, RunTypes
<1>3. RunTypes'
  <2>1. count' \in [Runs -> Nat]
    <3>1. count' = [count EXCEPT ![run.id] = @ + 1] /\ count \in [Runs -> Nat]
      BY DEF Inv, TypeOK, RunTypes, Answers
    <3>2. \A k : k \in Runs => [count EXCEPT ![k] = @ + 1] \in [Runs -> Nat]
      BY <3>1
    <3>3. run.id \in Runs
      BY <1>1 DEF Inv, LockInv, TypeOK, RunTypes
    <3> QED BY <3>1, <3>2, <3>3
  <2>2. run' \in [id : Runs \cup {0}, carries : SUBSET Notices, bodies : SUBSET Notices,
                 at : {"none", "admitted", "input", "failed", "cut", "last", "ready", "appending",
                       "asking"}]
    BY <1>1 DEF Inv, TypeOK, RunTypes
  <2> QED BY <2>1, <2>2 DEF Inv, TypeOK, RunTypes, Answers
<1>4. SessionTypes'
  BY DEF Inv, TypeOK, SessionTypes, Answers
<1>5. TypeOK'
  BY <1>3, <1>4, SameTypes DEF Inv, Answers, task, TypeOK
<1>6. run.carries = {} /\ run.bodies = {} /\ run'.id # 0
  BY <1>1, <1>2 DEF Inv, LockInv
<1> QED BY <1>1, <1>2, <1>5, <1>6, EmptyRunInv DEF Answers

LEMMA NextRun == ASSUME TypeOK, started < RunLimit PROVE started + 1 \in Runs
<1>1. RunLimit \in Nat
  BY CompletionAssumption, FS_CardinalityType DEF RunLimit
<1> QED BY <1>1 DEF TypeOK, RunTypes, Runs

LEMMA RunStartsInv == ASSUME Inv, RunStarts PROVE Inv'
<1>1. started + 1 \in Runs
  <2>1. started < RunLimit
    BY CompletionAssumption, FS_CardinalityType
       DEF Inv, TypeOK, RunTypes, RunStarts, Runs, RunLimit
  <2> QED BY <2>1, NextRun DEF Inv
<1>2. run' = [id |-> started + 1, at |-> "ready", carries |-> {}, bodies |-> {}]
  BY DEF RunStarts, NoRun
<1>3. RunTypes'
  BY <1>1, <1>2 DEF Inv, TypeOK, RunTypes, RunStarts
<1>4. TypeOK'
  BY <1>3, SameTypes DEF Inv, RunStarts, task, TypeOK
<1>5. run.at = "none"
  BY DEF RunStarts, Inv, LockInv
<1>6. run'.id # 0
  BY <1>1, <1>2, RunsTyped
<1>7. UNCHANGED <<bucket, future, task, lock, closed, stored, astray>>
  BY DEF RunStarts
<1>8. run'.carries = {} /\ run'.bodies = {} /\ run'.at = "ready"
  BY <1>2
<1> QED BY <1>4, <1>5, <1>6, <1>7, <1>8, EmptyRunInv

\* A request boundary takes notices that are held, were not carried and are
\* not in the hands of the delivery task, or are astray from now on.
LEMMA BoundaryInv == ASSUME Inv, Boundary PROVE Inv'
<1> DEFINE joined == IF closed THEN bucket
                     ELSE Join(bucket, {n \in Held : bucket[n].boundary = 0}, run.id)
<1> DEFINE taken == {n \in Held : /\ ~closed /\ joined[n].boundary = run.id
                                 /\ ~joined[n].suppress /\ joined[n].readAfter = Unsent}
<1>1. /\ run.id \in Runs /\ run.at = "ready" /\ lock = "free"
      /\ run.carries = {} /\ run.bodies = {}
  BY DEF Boundary, Inv, LockInv, TypeOK, RunTypes
<1>2. /\ IsBucket(joined) /\ DOMAIN joined = Held
      /\ \A n \in Held : /\ (joined[n].readAfter = Unsent) <=> (bucket[n].readAfter = Unsent)
                         /\ joined[n].claimed = bucket[n].claimed
  <2>1. IsBucket(bucket)
    BY BucketTyped DEF Inv
  <2>2. CASE closed
    BY <2>1, <2>2 DEF Held
  <2>3. CASE ~closed
    BY <1>1, <2>1, <2>3, JoinKeeps DEF Held
  <2> QED BY <2>2, <2>3
<1>3. /\ UNCHANGED <<future, task, count, stopped, started, seen, closed, faults, stored>>
      /\ IF taken = {}
         THEN bucket' = joined /\ Asks(joined, stored) /\ UNCHANGED <<lock, astray>>
         ELSE /\ bucket' = Claim(joined, taken) /\ astray' = Astray(taken)
              /\ run' = [run EXCEPT !.at = "appending", !.carries = taken, !.bodies = taken]
              /\ lock' = "run" /\ UNCHANGED shown
  BY DEF Boundary
<1> HIDE DEF joined
<1>4. taken \subseteq Held /\ \A n \in taken : ~Sent(n)
  BY <1>2 DEF Sent
<1>5. \A n \in taken : n \in Notices /\ future[n] # "new"
  BY <1>4 DEF Inv, TypeOK, NoticeTypes, NoticeInv, Known
<1>6. CASE taken = {}
  <2>1. /\ run'.carries = {} /\ run'.bodies = {} /\ run'.at = "asking" /\ run'.id = run.id
        /\ run' \in [id : Runs \cup {0}, carries : SUBSET Notices, bodies : SUBSET Notices,
                    at : {"none", "admitted", "input", "failed", "cut", "last", "ready",
                          "appending", "asking"}]
    BY <1>3, <1>6 DEF Asks, Inv, TypeOK, RunTypes
  <2>2. RunTypes'
    BY <1>3, <2>1 DEF Inv, TypeOK, RunTypes
  <2>3. NoticeTypes'
    BY <1>2, <1>3, <1>6 DEF Inv, TypeOK, NoticeTypes, IsBucket, Held
  <2>4. SessionTypes'
    BY <1>2, <1>3, <1>6 DEF Inv, TypeOK, SessionTypes, Asks, NoticeTypes
  <2>5. TaskTypes'
    BY <1>3, <1>6, SameTypes DEF Inv, task
  <2>6. TypeOK'
    BY <2>2, <2>3, <2>4, <2>5 DEF TypeOK
  <2>7. LockInv'
    BY <1>1, <1>3, <1>6, <2>1, RunsTyped DEF Inv, LockInv, task
  <2>8. ASSUME NEW n \in Notices PROVE NoticeInv(n)'
    <3>1. NoticeInv(n) /\ Held' = Held /\ (n \in Held => (Sent(n)' <=> Sent(n)))
      BY <1>2, <1>3, <1>6 DEF Inv, Held, Sent
    <3>2. n \in Held => bucket'[n].claimed = bucket[n].claimed
      BY <1>2, <1>3, <1>6 DEF Held
    <3>3. Known(n)'
      BY <1>3, <1>6, <2>1, <3>1, KnownKept DEF NoticeInv, task, Known
    <3>4. RequestCarries(n)' /\ InputCarries(n)'
      BY <2>1 DEF RequestCarries, InputCarries
    <3>5. FollowUpCarries(n)' /\ ReminderCarries(n)'
      BY <1>3, <1>6, <3>1, <3>2 DEF NoticeInv, FollowUpCarries, ReminderCarries, Carries, task
    <3> QED BY <3>3, <3>4, <3>5 DEF NoticeInv
  <2> QED BY <2>6, <2>7, <2>8 DEF Inv
<1>7. CASE taken # {}
  <2> DEFINE b == Claim(joined, taken)
  <2>0. /\ IsBucket(b) /\ DOMAIN b = Held
        /\ \A n \in Held : /\ (b[n].readAfter = Unsent) <=> (bucket[n].readAfter = Unsent)
                           /\ n \in taken => b[n].claimed = TRUE
                           /\ n \notin taken => b[n].claimed = bucket[n].claimed
    <3> HIDE DEF taken
    <3>2. /\ IsBucket(b) /\ DOMAIN b = DOMAIN joined
          /\ \A n \in DOMAIN joined :
               /\ b[n].readAfter = joined[n].readAfter
               /\ n \in taken => b[n].claimed = TRUE
               /\ n \notin taken => b[n].claimed = joined[n].claimed
      BY <1>2, ClaimKeeps
    <3> HIDE DEF b
    <3> QED BY <1>2, <3>2
  <2> HIDE DEF b
  <2>1. /\ run'.carries = taken /\ run'.bodies = taken /\ run'.at = "appending"
        /\ run'.id = run.id
        /\ run' \in [id : Runs \cup {0}, carries : SUBSET Notices, bodies : SUBSET Notices,
                    at : {"none", "admitted", "input", "failed", "cut", "last", "ready",
                          "appending", "asking"}]
    <3>1. run' = [run EXCEPT !.at = "appending", !.carries = taken, !.bodies = taken]
      BY <1>3, <1>7
    <3>2. taken \in SUBSET Notices
      BY <1>5
    <3> HIDE DEF taken
    <3> QED BY <3>1, <3>2 DEF Inv, TypeOK, RunTypes
  <2> HIDE DEF taken
  <2>2. RunTypes'
    BY <1>3, <2>1 DEF Inv, TypeOK, RunTypes
  <2>a. bucket' = b /\ astray' = Astray(taken) /\ lock' = "run" /\ UNCHANGED shown
    BY <1>3, <1>7 DEF b
  <2>b. astray \subseteq astray' /\ astray' \subseteq astray \cup taken
        /\ (FollowsUp => taken \cap batch \subseteq astray')
    BY <2>a DEF Astray, FollowsUp
  <2>3. NoticeTypes'
    BY <1>3, <2>0, <2>a DEF Inv, TypeOK, NoticeTypes, IsBucket, Held
  <2>4. SessionTypes'
    BY <1>3, <1>5, <2>a, <2>b DEF Inv, TypeOK, SessionTypes
  <2>5. TaskTypes'
    BY <1>3, <2>a DEF Inv, TypeOK, TaskTypes, task, Places
  <2>6. TypeOK'
    BY <2>2, <2>3, <2>4, <2>5 DEF TypeOK
  <2>7. LockInv'
    BY <1>1, <1>3, <2>1, <2>a, RunsTyped DEF Inv, LockInv, task
  <2>8. ASSUME NEW n \in Notices PROVE NoticeInv(n)'
    <3>1. NoticeInv(n) /\ Held' = Held /\ (n \in Held => (Sent(n)' <=> Sent(n)))
      BY <2>0, <2>a DEF Inv, Held, Sent
    <3>2. /\ n \in taken => bucket'[n].claimed = TRUE
          /\ n \in Held \ taken => bucket'[n].claimed = bucket[n].claimed
      BY <1>4, <2>0, <2>a
    <3>3. Known(n)'
      BY <1>3, <1>5, <2>1, <2>b, <3>1, KnownKept DEF NoticeInv, task, Known
    <3>4. RequestCarries(n)'
      BY <1>3, <1>4, <2>1, <2>b, <3>1, <3>2 DEF RequestCarries, Carries, FollowsUp, task
    <3>5. InputCarries(n)'
      BY <2>1 DEF InputCarries
    <3>6. FollowUpCarries(n)' /\ ReminderCarries(n)'
      BY <1>3, <2>b, <3>1, <3>2 DEF NoticeInv, FollowUpCarries, ReminderCarries, Carries, task
    <3> QED BY <3>3, <3>4, <3>5, <3>6 DEF NoticeInv
  <2> QED BY <2>6, <2>7, <2>8 DEF Inv
<1> QED BY <1>6, <1>7

-----------------------------------------------------------------------------
(* The delivery task, when it hands nothing over *)

Futures == {"new", "pending", "done", "withdrawn", "cancelled"}
Handing == {"starting", "loading", "writing", "landing"}

\* The step writes nothing of n, and takes n from no request that carries it.
Keeps(n) ==
  /\ n \in Held' => n \in Held /\ (Sent(n)' <=> Sent(n))
  /\ \/ future'[n] = future[n]
     \/ future[n] = "pending" /\ future'[n] = "done" /\ stored[n] > 0
     \/ future'[n] = "cancelled" /\ n \notin Held'
  /\ n \in batch' => future[n] # "new"
  /\ run.at = "appending" /\ n \in run.bodies \ astray =>
       n \in Held' /\ bucket'[n].claimed = TRUE /\ ~(FollowsUp' /\ n \in batch')

LEMMA FaultTyped == ASSUME TypeOK, faults' = faults \/ Fault PROVE faults' \in 0..MaxFaults
BY CompletionAssumption DEF TypeOK, SessionTypes, Fault

LEMMA TaskMovesOn ==
  ASSUME Inv, IsBucket(bucket'), future' \in [Notices -> Futures],
         pc' \in Places \ Handing, batch' \subseteq Notices, message' = {},
         awaited' \in Runs \cup {0}, lock' = IF lock = "task" THEN "free" ELSE lock,
         UNCHANGED <<runs, stored>>, closed' \in BOOLEAN, faults' = faults \/ Fault,
         astray \subseteq astray', astray' \subseteq Notices,
         \/ pc # "following" \/ awaited # run.id \/ run.bodies \subseteq astray'
         \/ run.at \notin {"admitted", "input", "failed", "cut", "last"},
         \A n \in Notices : Keeps(n)
  PROVE  Inv'
<1>1. NoticeTypes'
  BY DEF IsBucket, NoticeTypes, Held, Futures
<1>2. TaskTypes'
  BY DEF Inv, TypeOK, TaskTypes
<1>3. RunTypes'
  BY SameTypes DEF Inv, runs
<1>4. SessionTypes'
  BY FaultTyped DEF Inv, TypeOK, SessionTypes, runs
<1>5. LockInv'
  BY DEF Inv, LockInv, runs, Handing, TypeOK, TaskTypes
<1>6. ASSUME NEW n \in Notices PROVE NoticeInv(n)'
  <2>1. NoticeInv(n) /\ Keeps(n) /\ run' = run /\ stored' = stored
    BY DEF Inv, runs
  <2>2. Known(n)'
    BY <2>1, KnownKept DEF Keeps, NoticeInv, Known
  <2>3. RequestCarries(n)'
    BY <2>1 DEF Keeps, NoticeInv, RequestCarries, Carries
  <2>4. InputCarries(n)'
    BY <2>1 DEF NoticeInv, InputCarries
  <2>5. FollowUpCarries(n)' /\ ReminderCarries(n)'
    BY DEF Handing, FollowUpCarries, ReminderCarries
  <2> QED BY <2>2, <2>3, <2>4, <2>5 DEF NoticeInv
<1> QED BY <1>1, <1>2, <1>3, <1>4, <1>5, <1>6 DEF Inv, TypeOK

LEMMA ConfirmedKeeps ==
  ASSUME TypeOK, NEW S
  PROVE  /\ Confirmed(S) \in [Notices -> Futures]
         /\ \A n \in Notices :
              \/ Confirmed(S)[n] = future[n]
              \/ n \in S /\ future[n] = "pending" /\ Confirmed(S)[n] = "done"
         /\ \A n \in Notices \cap S : Confirmed(S)[n] # "pending"
<1>1. future \in [Notices -> Futures]
  BY DEF TypeOK, NoticeTypes, Futures
<1> QED BY <1>1 DEF Confirmed, Futures

LEMMA SettledKeeps ==
  ASSUME NEW b, IsBucket(b), NEW f \in [Notices -> Futures], Settled(b, f)
  PROVE  /\ IsBucket(bucket') /\ future' \in [Notices -> Futures]
         /\ pc' \in {"none", "turn", "waiting"} /\ batch' = {} /\ message' = {}
         /\ awaited' \in Runs \cup {0} /\ (closed => pc' = "none")
         /\ Held' \subseteq DOMAIN b /\ \A n \in Held' : bucket'[n] = b[n]
         /\ \A n \in Notices :
              future'[n] = f[n] \/ (future'[n] = "cancelled" /\ n \in DOMAIN b \ Held')
<1>1. CASE closed
  <2>1. bucket' = Without(b, DOMAIN b) /\ WaitsAt("none", {})
    BY <1>1 DEF Settled
  <2>2. Held' = {}
    BY <2>1 DEF Without, Held
  <2>3. future' = [n \in Notices |-> IF n \in DOMAIN b /\ f[n] = "pending" THEN "cancelled"
                                                                           ELSE f[n]]
    BY <1>1 DEF Settled
  <2> QED BY <2>1, <2>2, <2>3 DEF WaitsAt, IsBucket, Futures, Held
<1>2. CASE ~closed
  <2>1. bucket' = b /\ future' = f /\ LoopHead(b)
    BY <1>2 DEF Settled
  <2> QED BY <1>2, <2>1, LoopHeadTypes DEF Held
<1> QED BY <1>1, <1>2

LEMMA BeginsInv == ASSUME Inv, Begins PROVE Inv'
<1>1. /\ pc \in {"scheduled", "backoff"} /\ LoopHead(bucket)
      /\ UNCHANGED <<bucket, future, lock, runs, closed, faults, stored, astray>>
  BY DEF Begins
<1>2. IsBucket(bucket)
  BY BucketTyped DEF Inv
<1>3. /\ awaited' \in Runs \cup {0} /\ pc' \in {"none", "turn", "waiting"}
      /\ batch' = {} /\ message' = {}
  BY <1>1, <1>2, LoopHeadTypes
<1>4. ASSUME NEW n \in Notices PROVE Keeps(n)
  BY <1>1, <1>3 DEF Keeps, Held, Sent, FollowsUp, Inv, NoticeInv, RequestCarries, Carries
<1>5. IsBucket(bucket') /\ future' \in [Notices -> Futures]
  BY <1>1, <1>2 DEF Inv, TypeOK, NoticeTypes, Futures
<1>6. lock' = IF lock = "task" THEN "free" ELSE lock
  BY <1>1 DEF Inv, LockInv
<1>7. closed' \in BOOLEAN /\ astray' \subseteq Notices
  BY <1>1 DEF Inv, TypeOK, SessionTypes
<1> QED BY <1>1, <1>3, <1>4, <1>5, <1>6, <1>7, TaskMovesOn DEF Places, Handing

\* Notices leave only because they were carried, and none is claimed or released.
Alike ==
  /\ Held' \subseteq Held /\ \A n \in Held \ Held' : Sent(n)
  /\ \A n \in Held' : (Sent(n)' <=> Sent(n)) /\ bucket'[n].claimed = bucket[n].claimed

LEMMA AlikeInv ==
  ASSUME Inv, pc \in {"waiting", "turn"}, IsBucket(bucket'), Alike,
         UNCHANGED <<future, lock, runs, closed, faults, stored, astray>>,
         pc' \in Places \ Handing, batch' \subseteq Held', message' = {},
         awaited' \in Runs \cup {0}, FollowsUp' => run.at # "appending"
  PROVE  Inv'
<1>1. ASSUME NEW n \in Notices PROVE Keeps(n)
  <2>1. NoticeInv(n)
    BY DEF Inv
  <2>2. n \in batch' => future[n] # "new"
    BY <2>1 DEF Alike, NoticeInv, Known
  <2>3. run.at = "appending" /\ n \in run.bodies \ astray =>
          n \in Held' /\ bucket'[n].claimed = TRUE
    BY <2>1 DEF Alike, NoticeInv, RequestCarries, Carries
  <2> QED BY <2>2, <2>3 DEF Keeps, Alike
<1>2. future' \in [Notices -> Futures] /\ closed' \in BOOLEAN /\ astray' \subseteq Notices
  BY DEF Inv, TypeOK, NoticeTypes, SessionTypes, Futures
<1>3. lock' = IF lock = "task" THEN "free" ELSE lock
  BY DEF Inv, LockInv
<1>4. batch' \subseteq Notices
  BY DEF Alike, Inv, TypeOK, NoticeTypes
<1> QED BY <1>1, <1>2, <1>3, <1>4, TaskMovesOn

\* A pass of the loop starts from a bucket b that is alike.
LEMMA DecideInv ==
  ASSUME Inv, pc \in {"waiting", "turn"},
         UNCHANGED <<future, lock, runs, closed, faults, stored, astray>>,
         NEW b, IsBucket(b), DOMAIN b \subseteq Held, \A n \in Held \ DOMAIN b : Sent(n),
         \A n \in DOMAIN b : /\ (b[n].readAfter = Unsent) <=> ~Sent(n)
                             /\ b[n].claimed = bucket[n].claimed,
         NEW pending \in SUBSET DOMAIN b, Decide(b, pending)
  PROVE  Inv'
<1> DEFINE quiet == {n \in pending : b[n].suppress \/ n \notin Waking}
<1>1. ASSUME bucket' = b PROVE IsBucket(bucket') /\ Alike /\ Held' = DOMAIN b
  BY <1>1 DEF Alike, Held, Sent
<1>2. CASE bucket' = b /\ LoopHead(b)
  <2>1. /\ awaited' \in Runs \cup {0} /\ pc' \in {"none", "turn", "waiting"}
        /\ batch' = {} /\ message' = {}
    BY <1>2, LoopHeadTypes
  <2> QED BY <1>1, <1>2, <2>1, AlikeInv DEF FollowsUp, Places, Handing
<1>3. CASE bucket' = b /\ WaitsAt("persist", quiet)
  BY <1>1, <1>3, AlikeInv DEF WaitsAt, FollowsUp, Places, Handing
<1>4. CASE run.id # 0 /\ bucket' = Join(b, pending, run.id) /\ LoopHead(bucket')
  <2>1. run.id \in Runs
    BY <1>4 DEF Inv, TypeOK, RunTypes
  <2> DEFINE c == Join(b, pending, run.id)
  <2>2. /\ IsBucket(c) /\ DOMAIN c = DOMAIN b
        /\ \A n \in DOMAIN b : /\ (c[n].readAfter = Unsent) <=> (b[n].readAfter = Unsent)
                               /\ c[n].claimed = b[n].claimed
    BY <2>1, JoinKeeps
  <2>3. bucket' = c /\ LoopHead(bucket')
    BY <1>4
  <2> HIDE DEF c
  <2>4. /\ awaited' \in Runs \cup {0} /\ pc' \in {"none", "turn", "waiting"}
        /\ batch' = {} /\ message' = {}
    <3>1. LoopHead(c)
      BY <2>3 DEF LoopHead
    <3> QED BY <2>2, <3>1, LoopHeadTypes
  <2>5. IsBucket(bucket') /\ Alike
    BY <2>2, <2>3 DEF Alike, Held, Sent
  <2> QED BY <2>4, <2>5, AlikeInv DEF FollowsUp, Places, Handing
<1>5. CASE run.id = 0 /\ bucket' = b /\ WaitsAt("surface", pending)
  <2>1. run.at # "appending"
    BY <1>5 DEF Inv, LockInv
  <2> QED BY <1>1, <1>5, <2>1, AlikeInv DEF WaitsAt, Places, Handing
<1> QED BY <1>2, <1>3, <1>4, <1>5 DEF Decide

LEMMA BoundaryRunOverInv == ASSUME Inv, BoundaryRunOver PROVE Inv'
<1> DEFINE joined == {n \in Held : bucket[n].boundary = awaited}
<1> DEFINE read == {n \in joined : Read(n)}
<1> DEFINE b == IF awaited \in stopped THEN Suppress(bucket, joined) ELSE bucket
<1>1. /\ pc = "waiting" /\ Decide(Without(b, read), joined \ read)
      /\ UNCHANGED <<future, lock, runs, closed, faults, stored, astray>>
  BY DEF BoundaryRunOver
<1>2. /\ IsBucket(b) /\ DOMAIN b = Held
      /\ \A n \in Held : b[n].readAfter = bucket[n].readAfter /\ b[n].claimed = bucket[n].claimed
  <2>1. IsBucket(bucket)
    BY BucketTyped DEF Inv
  <2> HIDE DEF joined
  <2> QED BY <2>1, SuppressKeeps DEF Held
<1>3. joined \subseteq Held /\ \A n \in read : Sent(n)
  BY DEF Read, Sent
<1> HIDE DEF read, b, joined
<1> DEFINE c == Without(b, read)
<1>4. IsBucket(c) /\ DOMAIN c = Held \ read /\ \A n \in Held \ read : c[n] = b[n]
  BY <1>2, WithoutKeeps
<1>5. Decide(c, joined \ read)
  BY <1>1
<1> HIDE DEF c
<1>6. joined \ read \in SUBSET DOMAIN c
  BY <1>3, <1>4
<1>7. \A n \in DOMAIN c : /\ (c[n].readAfter = Unsent) <=> ~Sent(n)
                          /\ c[n].claimed = bucket[n].claimed
  BY <1>2, <1>4 DEF Sent
<1> QED BY <1>1, <1>3, <1>4, <1>5, <1>6, <1>7, DecideInv

LEMMA CollectsInv == ASSUME Inv, Collects PROVE Inv'
<1> DEFINE idle == {n \in Held : bucket[n].boundary = 0}
<1>1. /\ pc = "turn" /\ UNCHANGED <<future, lock, runs, closed, faults, stored, astray>>
      /\ IF run.id # 0 THEN bucket' = Join(bucket, idle, run.id) /\ LoopHead(bucket')
                       ELSE Decide(bucket, idle)
  BY DEF Collects
<1>2. IsBucket(bucket) /\ idle \in SUBSET Held
  BY BucketTyped DEF Inv
<1> HIDE DEF idle
<1>3. CASE run.id = 0
  BY <1>1, <1>2, <1>3, DecideInv DEF Held, Sent
<1>4. CASE run.id # 0
  <2> DEFINE c == Join(bucket, idle, run.id)
  <2>1. /\ IsBucket(c) /\ DOMAIN c = Held
        /\ \A n \in Held : /\ (c[n].readAfter = Unsent) <=> (bucket[n].readAfter = Unsent)
                           /\ c[n].claimed = bucket[n].claimed
    <3>1. run.id \in Runs
      BY <1>4 DEF Inv, TypeOK, RunTypes
    <3> QED BY <1>2, <3>1, JoinKeeps DEF Held
  <2>2. bucket' = c /\ LoopHead(c)
    BY <1>1, <1>4 DEF LoopHead
  <2> HIDE DEF c
  <2>3. IsBucket(bucket') /\ Alike
    BY <2>1, <2>2 DEF Alike, Held, Sent
  <2>4. /\ awaited' \in Runs \cup {0} /\ pc' \in {"none", "turn", "waiting"}
        /\ batch' = {} /\ message' = {}
    BY <2>1, <2>2, LoopHeadTypes
  <2> QED BY <1>1, <2>3, <2>4, AlikeInv DEF FollowsUp, Places, Handing
<1> QED BY <1>3, <1>4

\* The task gives back what it had in hand, and no request has that in hand.
LEMMA HandsBackInv ==
  ASSUME Inv, pc \in {"surface", "starting", "refused"}, IsBucket(bucket'), Held' = Held,
         \A n \in Held : /\ Sent(n)' <=> Sent(n)
                         /\ n \notin batch => bucket'[n].claimed = bucket[n].claimed,
         UNCHANGED <<future, lock, runs, closed, stored, astray>>, faults' = faults \/ Fault,
         pc' \in {"none", "turn", "waiting", "backoff", "persist"}, batch' \subseteq Held,
         message' = {}, awaited' \in Runs \cup {0}
  PROVE  Inv'
<1>1. ASSUME NEW n \in Notices PROVE Keeps(n)
  <2>1. NoticeInv(n)
    BY DEF Inv
  <2>2. n \in batch' => future[n] # "new"
    BY <2>1 DEF NoticeInv, Known
  <2>3. run.at = "appending" /\ n \in run.bodies \ astray =>
          n \in Held' /\ bucket'[n].claimed = TRUE
    BY <2>1 DEF NoticeInv, RequestCarries, Carries, FollowsUp
  <2> QED BY <2>2, <2>3 DEF Keeps, FollowsUp
<1>2. future' \in [Notices -> Futures] /\ closed' \in BOOLEAN /\ astray' \subseteq Notices
  BY DEF Inv, TypeOK, NoticeTypes, SessionTypes, Futures
<1>3. lock' = IF lock = "task" THEN "free" ELSE lock
  BY DEF Inv, LockInv
<1>4. batch' \subseteq Notices
  BY DEF Inv, TypeOK, NoticeTypes
<1>5. pc' \in Places \ Handing /\ pc # "following"
  BY DEF Places, Handing
<1> QED BY <1>1, <1>2, <1>3, <1>4, <1>5, TaskMovesOn

LEMMA Released ==
  ASSUME Inv
  PROVE  LET b == Release(bucket, batch) IN
         /\ IsBucket(b) /\ DOMAIN b = Held
         /\ \A n \in Held : /\ b[n].readAfter = bucket[n].readAfter
                            /\ b[n].boundary = bucket[n].boundary
                            /\ n \notin batch => b[n].claimed = bucket[n].claimed
BY BucketTyped, ReleaseKeeps DEF Inv, Held

LEMMA StartRefusedInv == ASSUME Inv, StartRefused PROVE Inv'
<1>1. /\ pc = "starting" /\ pc' = "refused" /\ message' = {}
      /\ UNCHANGED <<bucket, future, batch, awaited, lock, runs, closed, faults, stored, astray>>
  BY DEF StartRefused
<1>2. UNCHANGED <<run, count, stopped, started, shown, seen>>
  BY <1>1 DEF runs
<1>3. TypeOK'
  <2>1. NoticeTypes' /\ RunTypes' /\ SessionTypes'
    BY <1>1, <1>2 DEF Inv, TypeOK, NoticeTypes, RunTypes, SessionTypes, Held
  <2>2. TaskTypes'
    BY <1>1 DEF Inv, TypeOK, TaskTypes, Places
  <2> QED BY <2>1, <2>2 DEF TypeOK
<1>4. LockInv'
  BY <1>1, <1>2 DEF Inv, LockInv
<1>5. ASSUME NEW n \in Notices PROVE NoticeInv(n)'
  <2>1. NoticeInv(n)
    BY DEF Inv
  <2>2. Known(n)' /\ RequestCarries(n)'
    BY <1>1, <1>2, <2>1 DEF NoticeInv, Known, RequestCarries, Carries, Held, Sent, FollowsUp
  <2>3. InputCarries(n)'
    BY <1>1, <1>2, <2>1 DEF NoticeInv, InputCarries
  <2>4. FollowUpCarries(n)' /\ ReminderCarries(n)'
    BY <1>1 DEF FollowUpCarries, ReminderCarries
  <2> QED BY <2>2, <2>3, <2>4 DEF NoticeInv
<1> QED BY <1>3, <1>4, <1>5 DEF Inv

LEMMA RefusedJoinsInv == ASSUME Inv, Refused, run.id # 0 PROVE Inv'
<1> DEFINE b == Release(bucket, batch)
<1> DEFINE c == Join(b, batch, run.id)
<1>1. /\ pc = "refused" /\ run.id # 0 /\ bucket' = c /\ LoopHead(c)
      /\ UNCHANGED <<future, lock, runs, closed, faults, stored, astray>>
  BY DEF Refused, LoopHead
<1>2. /\ IsBucket(b) /\ DOMAIN b = Held
      /\ \A n \in Held : /\ b[n].readAfter = bucket[n].readAfter
                         /\ n \notin batch => b[n].claimed = bucket[n].claimed
  BY Released
<1> HIDE DEF b
<1>3. /\ IsBucket(c) /\ DOMAIN c = Held
      /\ \A n \in Held : /\ (c[n].readAfter = Unsent) <=> (b[n].readAfter = Unsent)
                         /\ c[n].claimed = b[n].claimed
  <2>1. run.id \in Runs
    BY <1>1 DEF Inv, TypeOK, RunTypes
  <2> QED BY <1>2, <2>1, JoinKeeps
<1> HIDE DEF c
<1>4. /\ awaited' \in Runs \cup {0} /\ pc' \in {"none", "turn", "waiting"}
      /\ batch' = {} /\ message' = {}
  BY <1>1, <1>3, LoopHeadTypes
<1>5. IsBucket(bucket') /\ Held' = Held
  BY <1>1, <1>3 DEF Held
<1>6. \A n \in Held : /\ Sent(n)' <=> Sent(n)
                      /\ n \notin batch => bucket'[n].claimed = bucket[n].claimed
  BY <1>1, <1>2, <1>3 DEF Sent
<1> QED BY <1>1, <1>4, <1>5, <1>6, HandsBackInv

LEMMA RefusedWaitsInv == ASSUME Inv, Refused, run.id = 0 PROVE Inv'
<1> DEFINE b == Release(bucket, batch)
<1>1. /\ pc = "refused" /\ bucket' = b /\ WaitsAt("backoff", {})
      /\ UNCHANGED <<future, lock, runs, closed, faults, stored, astray>>
  BY DEF Refused
<1>2. /\ IsBucket(b) /\ DOMAIN b = Held
      /\ \A n \in Held : /\ b[n].readAfter = bucket[n].readAfter
                         /\ n \notin batch => b[n].claimed = bucket[n].claimed
  BY Released
<1> HIDE DEF b
<1>3. IsBucket(bucket') /\ Held' = Held
  BY <1>1, <1>2 DEF Held
<1>4. \A n \in Held : /\ Sent(n)' <=> Sent(n)
                      /\ n \notin batch => bucket'[n].claimed = bucket[n].claimed
  BY <1>1, <1>2 DEF Sent
<1> QED BY <1>1, <1>3, <1>4, HandsBackInv DEF WaitsAt

LEMMA StartBlockedInv == ASSUME Inv, StartBlocked PROVE Inv'
<1> DEFINE b == Release(bucket, batch)
<1>1. /\ pc = "starting" /\ bucket' = b /\ WaitsAt("backoff", {}) /\ Fault
      /\ UNCHANGED <<future, lock, runs, closed, stored, astray>>
  BY DEF StartBlocked
<1>2. /\ IsBucket(b) /\ DOMAIN b = Held
      /\ \A n \in Held : /\ b[n].readAfter = bucket[n].readAfter
                         /\ n \notin batch => b[n].claimed = bucket[n].claimed
  BY Released
<1> HIDE DEF b
<1>3. IsBucket(bucket') /\ Held' = Held
  BY <1>1, <1>2 DEF Held
<1>4. \A n \in Held : /\ Sent(n)' <=> Sent(n)
                      /\ n \notin batch => bucket'[n].claimed = bucket[n].claimed
  BY <1>1, <1>2 DEF Sent
<1> QED BY <1>1, <1>3, <1>4, HandsBackInv DEF WaitsAt

LEMMA StartFailsInv == ASSUME Inv, StartFails PROVE Inv'
<1> DEFINE b == Release(bucket, batch)
<1> DEFINE c == Detach(b, batch)
<1> DEFINE pending == batch \cap Held
<1>1. /\ pc = "starting" /\ bucket' = c /\ Fault
      /\ IF pending = {} THEN LoopHead(bucket') ELSE WaitsAt("persist", pending)
      /\ UNCHANGED <<future, lock, runs, closed, stored, astray>>
  BY DEF StartFails
<1>2. /\ IsBucket(b) /\ DOMAIN b = Held
      /\ \A n \in Held : /\ b[n].readAfter = bucket[n].readAfter
                         /\ n \notin batch => b[n].claimed = bucket[n].claimed
  BY Released
<1> HIDE DEF b
<1>3. /\ IsBucket(c) /\ DOMAIN c = Held
      /\ \A n \in Held : /\ c[n].readAfter = b[n].readAfter
                         /\ c[n].claimed = b[n].claimed
  BY <1>2, DetachKeeps
<1> HIDE DEF c
<1>4. /\ awaited' \in Runs \cup {0} /\ pc' \in {"none", "turn", "waiting", "persist"}
      /\ batch' \subseteq Held /\ message' = {}
  <2>1. CASE pending = {}
    <3>1. LoopHead(c)
      BY <1>1, <2>1 DEF LoopHead
    <3> QED BY <1>3, <3>1, LoopHeadTypes
  <2>2. CASE pending # {}
    BY <1>1, <2>2 DEF WaitsAt
  <2> QED BY <2>1, <2>2
<1>5. IsBucket(bucket') /\ Held' = Held
  BY <1>1, <1>3 DEF Held
<1>6. \A n \in Held : /\ Sent(n)' <=> Sent(n)
                      /\ n \notin batch => bucket'[n].claimed = bucket[n].claimed
  BY <1>1, <1>2, <1>3 DEF Sent
<1> QED BY <1>1, <1>4, <1>5, <1>6, HandsBackInv

LEMMA ClaimsInv == ASSUME Inv, Claims PROVE Inv'
<1> DEFINE pending == batch \cap Held
<1> DEFINE b == Claim(bucket, pending)
<1>1. /\ pc = "surface"
      /\ UNCHANGED <<future, lock, runs, closed, faults, stored, astray>>
      /\ IF pending = {} THEN LoopHead(bucket) /\ UNCHANGED bucket
         ELSE /\ bucket' = b
              /\ pc' = "starting" /\ batch' = pending /\ UNCHANGED awaited
              /\ message' = {n \in pending : bucket[n].readAfter = Unsent}
  BY DEF Claims
<1>2. IsBucket(bucket)
  BY BucketTyped DEF Inv
<1>3. CASE pending = {}
  <2>1. /\ awaited' \in Runs \cup {0} /\ pc' \in {"none", "turn", "waiting"}
        /\ batch' = {} /\ message' = {}
    BY <1>1, <1>2, <1>3, LoopHeadTypes
  <2>2. UNCHANGED bucket
    BY <1>1, <1>3
  <2> QED BY <1>1, <1>2, <2>1, <2>2, HandsBackInv DEF Held, Sent
<1>4. CASE pending # {}
  <2>1. /\ IsBucket(b) /\ DOMAIN b = Held
        /\ \A n \in Held : /\ b[n].readAfter = bucket[n].readAfter
                           /\ n \in pending => b[n].claimed = TRUE
                           /\ n \notin pending => b[n].claimed = bucket[n].claimed
    BY <1>2, ClaimKeeps DEF Held
  <2> HIDE DEF b
  <2>2. /\ bucket' = b /\ pc' = "starting" /\ batch' = pending /\ UNCHANGED awaited
        /\ message' = {n \in pending : ~Sent(n)}
    BY <1>1, <1>4 DEF Sent
  <2>3. Held' = Held /\ \A n \in Held : Sent(n)' <=> Sent(n)
    BY <2>1, <2>2 DEF Held, Sent
  <2>4. NoticeTypes'
    BY <1>1, <2>1, <2>2 DEF Inv, TypeOK, NoticeTypes, IsBucket, Held
  <2>5. TaskTypes'
    BY <1>1, <2>2 DEF Inv, TypeOK, TaskTypes, Places
  <2>6. RunTypes' /\ SessionTypes'
    BY <1>1, SameTypes DEF Inv, runs
  <2>7. LockInv'
    BY <1>1, <2>2 DEF Inv, LockInv, runs
  <2>8. ASSUME NEW n \in Notices PROVE NoticeInv(n)'
    <3>1. NoticeInv(n) /\ run' = run /\ stored' = stored /\ astray' = astray /\ future' = future
      BY <1>1 DEF Inv, runs
    <3>2. Known(n)'
      BY <2>2, <2>3, <3>1, KnownKept DEF NoticeInv, Known
    <3>3. n \in Held => /\ n \in pending => bucket'[n].claimed = TRUE
                        /\ n \notin pending => bucket'[n].claimed = bucket[n].claimed
      BY <2>1, <2>2
    <3>4. RequestCarries(n)'
      BY <1>1, <2>2, <2>3, <3>1, <3>3 DEF NoticeInv, RequestCarries, Carries, FollowsUp
    <3>5. InputCarries(n)'
      BY <1>1, <3>1 DEF NoticeInv, InputCarries
    <3>6. FollowUpCarries(n)'
      BY <2>2, <2>3, <3>1, <3>3 DEF NoticeInv, Known, FollowUpCarries, Carries
    <3>7. ReminderCarries(n)'
      BY <2>2 DEF ReminderCarries
    <3> QED BY <3>2, <3>4, <3>5, <3>6, <3>7 DEF NoticeInv
  <2> QED BY <2>4, <2>5, <2>6, <2>7, <2>8 DEF Inv, TypeOK
<1> QED BY <1>3, <1>4

\* The follow-up Run carries the batch, and the task waits for it.
LEMMA FollowUpStartsInv == ASSUME Inv, FollowUpStarts PROVE Inv'
<1>1. /\ pc = "starting" /\ run.id = 0 /\ started < RunLimit
      /\ run' = [id |-> started + 1, at |-> "admitted", carries |-> batch, bodies |-> message]
      /\ started' = started + 1 /\ pc' = "following" /\ awaited' = started + 1 /\ message' = {}
      /\ UNCHANGED <<bucket, future, batch, lock, count, stopped, shown, seen, closed, faults,
                     stored, astray>>
  BY DEF FollowUpStarts
<1>2. started + 1 \in Runs /\ started + 1 # 0
  BY <1>1, NextRun, RunsTyped DEF Inv
<1>3. run.at = "none" /\ message \subseteq batch
  BY <1>1 DEF Inv, LockInv
<1>4. /\ run'.id = started + 1 /\ run'.at = "admitted" /\ run'.carries = batch
      /\ run'.bodies = message
  BY <1>1
<1>5. RunTypes'
  BY <1>1, <1>2 DEF Inv, TypeOK, RunTypes, TaskTypes
<1>6. TaskTypes'
  BY <1>1, <1>2 DEF Inv, TypeOK, TaskTypes, Places
<1>7. NoticeTypes' /\ SessionTypes'
  BY <1>1, SameTypes DEF Inv
<1>8. LockInv'
  BY <1>1, <1>2, <1>3, <1>4 DEF Inv, LockInv
<1>9. ASSUME NEW n \in Notices PROVE NoticeInv(n)'
  <2>1. NoticeInv(n) /\ Held' = Held /\ (Sent(n)' <=> Sent(n))
    BY <1>1 DEF Inv, Held, Sent
  <2>2. Known(n)'
    BY <1>1, <1>4, <2>1, KnownKept DEF NoticeInv, Known
  <2>3. RequestCarries(n)'
    BY <1>4 DEF RequestCarries
  <2>4. InputCarries(n)'
    BY <1>1, <1>3, <1>4, <2>1 DEF NoticeInv, FollowUpCarries, InputCarries, Carries
  <2>5. FollowUpCarries(n)' /\ ReminderCarries(n)'
    BY <1>1 DEF FollowUpCarries, ReminderCarries
  <2> QED BY <2>2, <2>3, <2>4, <2>5 DEF NoticeInv
<1> QED BY <1>5, <1>6, <1>7, <1>8, <1>9 DEF Inv, TypeOK

\* What the follow-up Run left in the bucket leaves it or is given back.
LEMMA FollowUpOverInv == ASSUME Inv, FollowUpOver PROVE Inv'
<1> DEFINE there == {n \in batch \cap Held : bucket[n].readAfter # Unsent}
<1> DEFINE undelivered == {n \in batch : future'[n] = "pending"}
<1> DEFINE b == Without(bucket, there)
<1> DEFINE c == Release(b, undelivered)
<1> DEFINE d == Suppress(c, undelivered)
<1>1. /\ pc = "following" /\ run.id # awaited /\ future' = Confirmed(there) /\ bucket' = d
      /\ IF undelivered = {} THEN LoopHead(bucket') ELSE WaitsAt("persist", undelivered)
      /\ UNCHANGED <<lock, runs, closed, faults, stored, astray>>
  BY DEF FollowUpOver
<1>2. undelivered \subseteq batch
  OBVIOUS
<1>3. \A n \in there : n \in Held /\ Sent(n)
  BY DEF Sent
<1>4. /\ future' \in [Notices -> Futures]
      /\ \A n \in Notices : \/ future'[n] = future[n]
                            \/ n \in there /\ future[n] = "pending" /\ future'[n] = "done"
  BY <1>1, ConfirmedKeeps DEF Inv
<1> HIDE DEF there, undelivered
<1>5. IsBucket(b) /\ DOMAIN b = Held \ there /\ \A n \in Held \ there : b[n] = bucket[n]
  BY BucketTyped, WithoutKeeps DEF Inv, Held
<1> HIDE DEF b
<1>6. /\ IsBucket(c) /\ DOMAIN c = DOMAIN b
      /\ \A n \in DOMAIN b : /\ c[n].readAfter = b[n].readAfter
                             /\ n \notin undelivered => c[n].claimed = b[n].claimed
  BY <1>5, ReleaseKeeps
<1> HIDE DEF c
<1>7. /\ IsBucket(d) /\ DOMAIN d = DOMAIN c
      /\ \A n \in DOMAIN c : d[n].readAfter = c[n].readAfter /\ d[n].claimed = c[n].claimed
  BY <1>6, SuppressKeeps
<1> HIDE DEF d
<1>8. IsBucket(bucket') /\ Held' = Held \ there
  BY <1>1, <1>5, <1>6, <1>7 DEF Held
<1>9. \A n \in Held' : /\ Sent(n)' <=> Sent(n)
                       /\ n \notin batch => bucket'[n].claimed = bucket[n].claimed
  BY <1>1, <1>2, <1>5, <1>6, <1>7, <1>8 DEF Sent
<1>10. /\ pc' \in {"none", "turn", "waiting", "persist"} /\ batch' \subseteq batch
       /\ message' = {} /\ awaited' \in Runs \cup {0}
  <2>1. CASE undelivered = {}
    <3>1. LoopHead(d)
      BY <1>1, <2>1 DEF LoopHead
    <3>2. IsBucket(d)
      BY <1>7
    <3> QED BY <3>1, <3>2, LoopHeadTypes
  <2>2. CASE undelivered # {}
    BY <1>1, <1>2, <2>2 DEF WaitsAt
  <2> QED BY <2>1, <2>2
<1>11. ASSUME NEW n \in Notices PROVE Keeps(n)
  <2>1. NoticeInv(n)
    BY DEF Inv
  <2>2. n \in batch' => future[n] # "new"
    BY <1>10, <2>1 DEF NoticeInv, Known
  <2>3. n \in there => stored[n] > 0
    BY <1>3, <2>1 DEF NoticeInv, Known
  <2>4. run.at = "appending" /\ n \in run.bodies \ astray => n \in Held \ there /\ n \notin batch
    BY <1>1, <1>3, <2>1 DEF NoticeInv, RequestCarries, Carries, FollowsUp
  <2>5. run.at = "appending" /\ n \in run.bodies \ astray => bucket[n].claimed = TRUE
    BY <2>1 DEF NoticeInv, RequestCarries, Carries
  <2> QED BY <1>4, <1>8, <1>9, <1>10, <2>2, <2>3, <2>4, <2>5 DEF Keeps, FollowsUp
<1>12. closed' \in BOOLEAN /\ astray' \subseteq Notices /\ batch' \subseteq Notices
  BY <1>1, <1>10 DEF Inv, TypeOK, SessionTypes, TaskTypes
<1>13. lock' = IF lock = "task" THEN "free" ELSE lock
  BY <1>1 DEF Inv, LockInv
<1>14. pc' \in Places \ Handing
  BY <1>10 DEF Places, Handing
<1> QED BY <1>1, <1>4, <1>8, <1>10, <1>11, <1>12, <1>13, <1>14, TaskMovesOn

-----------------------------------------------------------------------------
(* System Reminders *)

LEMMA PersistLocksInv == ASSUME Inv, PersistLocks PROVE Inv'
<1> DEFINE there == {n \in batch \cap Held : bucket[n].readAfter # Unsent}
<1> DEFINE b == Without(bucket, there)
<1> DEFINE f == Confirmed(there)
<1>1. /\ pc = "persist" /\ lock = "free" /\ UNCHANGED <<runs, closed, faults, stored, astray>>
      /\ IF batch \cap Held = there
         THEN Settled(b, f) /\ UNCHANGED lock
         ELSE /\ bucket' = b /\ future' = f
              /\ lock' = "task" /\ pc' = "loading" /\ UNCHANGED <<batch, message, awaited>>
  BY DEF PersistLocks
<1>2. \A n \in there : n \in Held /\ Sent(n)
  BY DEF Sent
<1>3. \A n \in batch \cap Held : n \notin there => ~Sent(n)
  BY DEF Sent
<1>4. IsBucket(b) /\ DOMAIN b = Held \ there /\ \A n \in Held \ there : b[n] = bucket[n]
  BY BucketTyped, WithoutKeeps DEF Inv, Held
<1>5. /\ f \in [Notices -> Futures]
      /\ \A n \in Notices : \/ f[n] = future[n]
                            \/ n \in there /\ future[n] = "pending" /\ f[n] = "done"
  BY ConfirmedKeeps DEF Inv
<1>6. run.at \notin {"appending", "input"}
  BY <1>1 DEF Inv, LockInv
<1> HIDE DEF there, b, f
<1>7. CASE batch \cap Held = there
  <2>1. Settled(b, f) /\ UNCHANGED lock
    BY <1>1, <1>7
  <2>2. /\ IsBucket(bucket') /\ future' \in [Notices -> Futures]
        /\ pc' \in {"none", "turn", "waiting"} /\ batch' = {} /\ message' = {}
        /\ awaited' \in Runs \cup {0}
        /\ Held' \subseteq DOMAIN b /\ \A n \in Held' : bucket'[n] = b[n]
        /\ \A n \in Notices :
             future'[n] = f[n] \/ (future'[n] = "cancelled" /\ n \in DOMAIN b \ Held')
    BY <1>4, <1>5, <2>1, SettledKeeps
  <2>3. ASSUME NEW n \in Notices PROVE Keeps(n)
    <3>1. n \in there => stored[n] > 0
      BY <1>2 DEF Inv, NoticeInv, Known
    <3>2. n \in Held' => n \in Held /\ (Sent(n)' <=> Sent(n))
      BY <1>4, <2>2 DEF Sent
    <3> QED BY <1>5, <1>6, <2>2, <3>1, <3>2 DEF Keeps
  <2>4. closed' \in BOOLEAN /\ astray' \subseteq Notices
    BY <1>1 DEF Inv, TypeOK, SessionTypes
  <2>5. pc' \in Places \ Handing
    BY <2>2 DEF Places, Handing
  <2> QED BY <1>1, <2>1, <2>2, <2>3, <2>4, <2>5, TaskMovesOn
<1>8. CASE batch \cap Held # there
  <2>1. /\ bucket' = b /\ future' = f /\ lock' = "task" /\ pc' = "loading"
        /\ UNCHANGED <<batch, message, awaited>>
    BY <1>1, <1>8
  <2>2. Held' = Held \ there /\ \A n \in Held' : Sent(n)' <=> Sent(n)
    BY <1>4, <2>1 DEF Held, Sent
  <2>3. NoticeTypes'
    BY <1>4, <1>5, <2>1 DEF Inv, TypeOK, NoticeTypes, IsBucket, Held, Futures
  <2>4. TaskTypes'
    BY <2>1 DEF Inv, TypeOK, TaskTypes, Places
  <2>5. RunTypes' /\ SessionTypes'
    BY <1>1, SameTypes DEF Inv, runs
  <2>6. LockInv'
    BY <1>1, <1>6, <2>1 DEF Inv, LockInv, runs
  <2>7. ASSUME NEW n \in Notices PROVE NoticeInv(n)'
    <3>1. NoticeInv(n) /\ run' = run /\ stored' = stored /\ astray' = astray
      BY <1>1 DEF Inv, runs
    <3>2. n \in there => stored[n] > 0
      BY <1>2, <3>1 DEF NoticeInv, Known
    <3>3. Known(n)'
      BY <1>5, <2>1, <2>2, <3>1, <3>2, KnownKept DEF NoticeInv, Known
    <3>4. RequestCarries(n)'
      BY <1>6, <3>1 DEF RequestCarries
    <3>5. InputCarries(n)'
      BY <1>1, <3>1 DEF NoticeInv, InputCarries
    <3>6. FollowUpCarries(n)'
      BY <2>1 DEF FollowUpCarries
    <3>7. ReminderCarries(n)'
      BY <1>3, <2>1, <2>2 DEF ReminderCarries
    <3> QED BY <3>3, <3>4, <3>5, <3>6, <3>7 DEF NoticeInv
  <2> QED BY <2>3, <2>4, <2>5, <2>6, <2>7 DEF Inv, TypeOK
<1> QED BY <1>7, <1>8

LEMMA LoadsInv == ASSUME Inv, Loads PROVE Inv'
<1> DEFINE pending == batch \cap Held
<1> DEFINE b == Claim(bucket, pending)
<1>1. /\ pc = "loading" /\ UNCHANGED <<runs, closed, faults, stored, astray>>
      /\ IF pending = {} THEN Settled(bucket, future) /\ lock' = "free"
         ELSE /\ bucket' = b /\ pc' = "writing" /\ batch' = pending
              /\ UNCHANGED <<future, lock, message, awaited>>
  BY DEF Loads
<1>2. lock = "task" /\ run.at \notin {"appending", "input"}
  BY <1>1 DEF Inv, LockInv
<1>3. IsBucket(bucket) /\ future \in [Notices -> Futures]
  BY BucketTyped DEF Inv, TypeOK, NoticeTypes, Futures
<1>4. CASE pending = {}
  <2>1. Settled(bucket, future) /\ lock' = "free"
    BY <1>1, <1>4
  <2>2. /\ IsBucket(bucket') /\ future' \in [Notices -> Futures]
        /\ pc' \in {"none", "turn", "waiting"} /\ batch' = {} /\ message' = {}
        /\ awaited' \in Runs \cup {0}
        /\ Held' \subseteq Held /\ \A n \in Held' : bucket'[n] = bucket[n]
        /\ \A n \in Notices :
             future'[n] = future[n] \/ (future'[n] = "cancelled" /\ n \in Held \ Held')
    BY <1>3, <2>1, SettledKeeps DEF Held
  <2>3. ASSUME NEW n \in Notices PROVE Keeps(n)
    BY <1>2, <2>2 DEF Keeps, Sent
  <2>4. closed' \in BOOLEAN /\ astray' \subseteq Notices
    BY <1>1 DEF Inv, TypeOK, SessionTypes
  <2>5. pc' \in Places \ Handing
    BY <2>2 DEF Places, Handing
  <2> QED BY <1>1, <1>2, <2>1, <2>2, <2>3, <2>4, <2>5, TaskMovesOn
<1>5. CASE pending # {}
  <2>1. /\ IsBucket(b) /\ DOMAIN b = Held
        /\ \A n \in Held : /\ b[n].readAfter = bucket[n].readAfter
                           /\ n \in pending => b[n].claimed = TRUE
    BY <1>3, ClaimKeeps DEF Held
  <2> HIDE DEF b
  <2>2. /\ bucket' = b /\ pc' = "writing" /\ batch' = pending
        /\ UNCHANGED <<future, lock, message, awaited>>
    BY <1>1, <1>5
  <2>3. Held' = Held /\ \A n \in Held : Sent(n)' <=> Sent(n)
    BY <2>1, <2>2 DEF Held, Sent
  <2>4. NoticeTypes'
    BY <2>1, <2>2 DEF Inv, TypeOK, NoticeTypes, IsBucket, Held
  <2>5. TaskTypes'
    BY <2>2 DEF Inv, TypeOK, TaskTypes, Places
  <2>6. RunTypes' /\ SessionTypes'
    BY <1>1, SameTypes DEF Inv, runs
  <2>7. LockInv'
    BY <1>1, <1>2, <2>2 DEF Inv, LockInv, runs
  <2>8. ASSUME NEW n \in Notices PROVE NoticeInv(n)'
    <3>1. NoticeInv(n) /\ run' = run /\ stored' = stored /\ astray' = astray
      BY <1>1 DEF Inv, runs
    <3>2. Known(n)'
      BY <2>2, <2>3, <3>1, KnownKept DEF NoticeInv, Known
    <3>3. RequestCarries(n)' /\ InputCarries(n)'
      BY <1>1, <1>2, <3>1 DEF NoticeInv, RequestCarries, InputCarries
    <3>4. FollowUpCarries(n)'
      BY <2>2 DEF FollowUpCarries
    <3>5. ReminderCarries(n)'
      BY <1>1, <2>1, <2>2, <2>3, <3>1 DEF NoticeInv, ReminderCarries, Carries
    <3> QED BY <3>2, <3>3, <3>4, <3>5 DEF NoticeInv
  <2> QED BY <2>4, <2>5, <2>6, <2>7, <2>8 DEF Inv, TypeOK
<1> QED BY <1>4, <1>5

LEMMA PersistFailsInv == ASSUME Inv, PersistFails PROVE Inv'
<1> DEFINE b == IF pc = "writing" THEN Release(bucket, batch) ELSE bucket
<1>1. /\ pc \in {"loading", "writing"} /\ Fault /\ lock' = "free"
      /\ IF closed THEN Settled(b, future)
         ELSE bucket' = b /\ pc' = "retry" /\ UNCHANGED <<future, batch, message, awaited>>
      /\ UNCHANGED <<runs, closed, stored, astray>>
  BY DEF PersistFails
<1>2. lock = "task" /\ run.at \notin {"appending", "input"} /\ message = {}
  BY <1>1 DEF Inv, LockInv
<1>3. /\ IsBucket(b) /\ DOMAIN b = Held
      /\ \A n \in Held : b[n].readAfter = bucket[n].readAfter
  BY BucketTyped, Released DEF Inv, Held
<1>4. future \in [Notices -> Futures] /\ batch \subseteq Notices /\ awaited \in Runs \cup {0}
  BY DEF Inv, TypeOK, NoticeTypes, TaskTypes, Futures
<1> HIDE DEF b
<1>5. closed' \in BOOLEAN /\ astray' \subseteq Notices
  BY <1>1 DEF Inv, TypeOK, SessionTypes
<1>6. CASE closed
  <2>1. Settled(b, future)
    BY <1>1, <1>6
  <2>2. /\ IsBucket(bucket') /\ future' \in [Notices -> Futures]
        /\ pc' \in {"none", "turn", "waiting"} /\ batch' = {} /\ message' = {}
        /\ awaited' \in Runs \cup {0}
        /\ Held' \subseteq DOMAIN b /\ \A n \in Held' : bucket'[n] = b[n]
        /\ \A n \in Notices :
             future'[n] = future[n] \/ (future'[n] = "cancelled" /\ n \in DOMAIN b \ Held')
    BY <1>3, <1>4, <2>1, SettledKeeps
  <2>3. ASSUME NEW n \in Notices PROVE Keeps(n)
    BY <1>2, <1>3, <2>2 DEF Keeps, Sent
  <2>4. pc' \in Places \ Handing
    BY <2>2 DEF Places, Handing
  <2> QED BY <1>1, <1>2, <1>5, <2>2, <2>3, <2>4, TaskMovesOn
<1>7. CASE ~closed
  <2>1. bucket' = b /\ pc' = "retry" /\ UNCHANGED <<future, batch, message, awaited>>
    BY <1>1, <1>7
  <2>2. IsBucket(bucket') /\ Held' = Held
    BY <1>3, <2>1 DEF Held
  <2>3. ASSUME NEW n \in Notices PROVE Keeps(n)
    <3>1. n \in batch => future[n] # "new"
      BY DEF Inv, NoticeInv, Known
    <3> QED BY <1>2, <1>3, <2>1, <2>2, <3>1 DEF Keeps, Sent
  <2>4. pc' \in Places \ Handing
    BY <2>1 DEF Places, Handing
  <2> QED BY <1>1, <1>2, <1>4, <1>5, <2>1, <2>2, <2>3, <2>4, TaskMovesOn
<1> QED BY <1>6, <1>7

LEMMA RetriesInv == ASSUME Inv, Retries PROVE Inv'
<1>1. /\ pc = "retry" /\ pc' = "persist"
      /\ UNCHANGED <<bucket, future, batch, message, awaited, lock, runs, closed, faults, stored,
                     astray>>
  BY DEF Retries
<1>2. IsBucket(bucket') /\ future' \in [Notices -> Futures]
  BY <1>1, BucketTyped DEF Inv, TypeOK, NoticeTypes, Futures
<1>3. batch' \subseteq Notices /\ message' = {} /\ awaited' \in Runs \cup {0}
  BY <1>1 DEF Inv, LockInv, TypeOK, TaskTypes
<1>4. lock' = IF lock = "task" THEN "free" ELSE lock
  BY <1>1 DEF Inv, LockInv
<1>5. ASSUME NEW n \in Notices PROVE Keeps(n)
  <2>1. NoticeInv(n)
    BY DEF Inv
  <2> QED BY <1>1, <2>1
        DEF Keeps, Held, Sent, FollowsUp, NoticeInv, Known, RequestCarries, Carries
<1>6. closed' \in BOOLEAN /\ astray' \subseteq Notices
  BY <1>1 DEF Inv, TypeOK, SessionTypes
<1> QED BY <1>1, <1>2, <1>3, <1>4, <1>5, <1>6, TaskMovesOn DEF Places, Handing

\* The reminder wrote the batch, all of it held and unsent until now.
LEMMA ReminderWritten ==
  ASSUME Inv, pc \in {"writing", "landing"}, stored' = Written(batch), lock' = "free",
         IsBucket(bucket'), Held' \subseteq Held \ batch,
         \A n \in Held' : bucket'[n] = bucket[n], future' \in [Notices -> Futures],
         \A n \in Notices : \/ future'[n] = future[n]
                            \/ future'[n] = "done" /\ n \in batch
                            \/ future'[n] = "cancelled" /\ n \notin batch \cup Held',
         pc' \in {"none", "turn", "waiting", "persist"}, batch' \subseteq Held',
         message' = {}, awaited' \in Runs \cup {0}, UNCHANGED <<runs, closed, faults, astray>>
  PROVE  Inv'
<1>1. lock = "task" /\ run.at \notin {"appending", "input"}
  BY DEF Inv, LockInv
<1>2. NoticeTypes'
  BY DEF NoticeTypes, IsBucket, Held, Futures
<1>3. TaskTypes'
  BY DEF Inv, TypeOK, NoticeTypes, TaskTypes, Places
<1>4. RunTypes'
  BY SameTypes DEF Inv, runs
<1>5. /\ stored' \in [Notices -> Nat]
      /\ \A n \in Notices : stored'[n] = IF n \in batch THEN stored[n] + 1 ELSE stored[n]
  BY DEF Inv, TypeOK, SessionTypes, Written
<1>6. SessionTypes'
  BY <1>5 DEF Inv, TypeOK, SessionTypes, runs
<1>7. LockInv'
  BY <1>1 DEF Inv, LockInv, runs
<1>8. ASSUME NEW n \in Notices PROVE NoticeInv(n)'
  <2>1. NoticeInv(n) /\ run' = run /\ astray' = astray
    BY DEF Inv, runs
  <2>2. stored[n] \in Nat
    BY DEF Inv, TypeOK, SessionTypes
  <2>3. Known(n)'
    <3>1. CASE n \in batch
      <4>1. n \in Held /\ ~Sent(n) /\ future[n] # "new"
        BY <2>1, <3>1 DEF NoticeInv, ReminderCarries, Carries, Known
      <4>2. n \notin Held' /\ stored'[n] = stored[n] + 1
        BY <1>5, <3>1
      <4> QED BY <2>1, <3>1, <4>1, <4>2, KnownWritten DEF Inv, NoticeInv
    <3>2. CASE n \notin batch
      <4>1. stored'[n] = stored[n] /\ (n \in batch' => future[n] # "new")
        BY <1>5, <2>1, <3>2 DEF NoticeInv, Known
      <4>2. n \in Held' => n \in Held /\ (Sent(n)' <=> Sent(n))
        BY DEF Sent
      <4> QED BY <2>1, <3>2, <4>1, <4>2, KnownKept DEF NoticeInv, Known
    <3> QED BY <3>1, <3>2
  <2>4. RequestCarries(n)'
    BY <1>1, <2>1 DEF RequestCarries
  <2>5. InputCarries(n)'
    <3>1. stored[n] > 0 => stored'[n] > 0
      BY <1>5, <2>2
    <3> QED BY <1>1, <2>1, <3>1 DEF NoticeInv, InputCarries
  <2>6. FollowUpCarries(n)' /\ ReminderCarries(n)'
    BY DEF FollowUpCarries, ReminderCarries
  <2> QED BY <2>3, <2>4, <2>5, <2>6 DEF NoticeInv
<1> QED BY <1>2, <1>3, <1>4, <1>6, <1>7, <1>8 DEF Inv, TypeOK

LEMMA WritesInv == ASSUME Inv, Writes PROVE Inv'
<1> DEFINE b == Without(bucket, batch)
<1> DEFINE f == Confirmed(batch \cap Held)
<1>1. /\ pc = "writing" /\ stored' = Written(batch) /\ lock' = "free" /\ Settled(b, f)
      /\ UNCHANGED <<runs, closed, faults, astray>>
  BY DEF Writes
<1>2. IsBucket(b) /\ DOMAIN b = Held \ batch /\ \A n \in Held \ batch : b[n] = bucket[n]
  BY BucketTyped, WithoutKeeps DEF Inv, Held
<1>3. /\ f \in [Notices -> Futures]
      /\ \A n \in Notices : f[n] = future[n] \/ (n \in batch /\ f[n] = "done")
  BY ConfirmedKeeps DEF Inv
<1> HIDE DEF b, f
<1>4. /\ IsBucket(bucket') /\ future' \in [Notices -> Futures]
      /\ pc' \in {"none", "turn", "waiting"} /\ batch' = {} /\ message' = {}
      /\ awaited' \in Runs \cup {0}
      /\ Held' \subseteq DOMAIN b /\ \A n \in Held' : bucket'[n] = b[n]
      /\ \A n \in Notices :
           future'[n] = f[n] \/ (future'[n] = "cancelled" /\ n \in DOMAIN b \ Held')
  BY <1>1, <1>2, <1>3, SettledKeeps
<1>5. Held' \subseteq Held \ batch /\ \A n \in Held' : bucket'[n] = bucket[n]
  BY <1>2, <1>4
<1>6. \A n \in Notices : \/ future'[n] = future[n]
                         \/ future'[n] = "done" /\ n \in batch
                         \/ future'[n] = "cancelled" /\ n \notin batch \cup Held'
  BY <1>2, <1>3, <1>4
<1> QED BY <1>1, <1>4, <1>5, <1>6, ReminderWritten

LEMMA LandsInv == ASSUME Inv, Lands PROVE Inv'
<1> DEFINE b == Without(bucket, batch)
<1>1. /\ pc = "landing" /\ stored' = Written(batch) /\ lock' = "free" /\ bucket' = b
      /\ future' = Confirmed(batch \cap Held) /\ PersistRest(bucket')
      /\ UNCHANGED <<runs, closed, faults, astray>>
  BY DEF Lands
<1>2. IsBucket(b) /\ DOMAIN b = Held \ batch /\ \A n \in Held \ batch : b[n] = bucket[n]
  BY BucketTyped, WithoutKeeps DEF Inv, Held
<1>3. /\ future' \in [Notices -> Futures]
      /\ \A n \in Notices : future'[n] = future[n] \/ (n \in batch /\ future'[n] = "done")
  BY <1>1, ConfirmedKeeps DEF Inv
<1> HIDE DEF b
<1>4. /\ IsBucket(bucket') /\ Held' \subseteq Held \ batch
      /\ \A n \in Held' : bucket'[n] = bucket[n]
  BY <1>1, <1>2 DEF Held
<1>5. pc' \in {"none", "persist"} /\ batch' = Held' /\ message' = {} /\ awaited' = 0
  BY <1>1 DEF PersistRest, WaitsAt, Held
<1> QED BY <1>1, <1>3, <1>4, <1>5, ReminderWritten

LEMMA LandingFailsInv == ASSUME Inv, LandingFails PROVE Inv'
<1> DEFINE b == Release(bucket, batch)
<1>1. /\ pc = "landing" /\ Fault /\ lock' = "free" /\ bucket' = b /\ PersistRest(bucket)
      /\ UNCHANGED <<future, runs, closed, stored, astray>>
  BY DEF LandingFails
<1>2. /\ IsBucket(b) /\ DOMAIN b = Held
      /\ \A n \in Held : b[n].readAfter = bucket[n].readAfter
  BY Released
<1> HIDE DEF b
<1>3. lock = "task" /\ run.at # "appending"
  BY <1>1 DEF Inv, LockInv
<1>4. pc' \in {"none", "persist"} /\ batch' = Held /\ message' = {} /\ awaited' = 0
  BY <1>1 DEF PersistRest, WaitsAt, Held
<1>5. IsBucket(bucket') /\ Held' = Held /\ \A n \in Held : Sent(n)' <=> Sent(n)
  BY <1>1, <1>2 DEF Held, Sent
<1>6. ASSUME NEW n \in Notices PROVE Keeps(n)
  <2>1. n \in Held => future[n] # "new"
    BY DEF Inv, NoticeInv, Known
  <2> QED BY <1>1, <1>3, <1>4, <1>5, <2>1 DEF Keeps
<1>7. /\ future' \in [Notices -> Futures] /\ closed' \in BOOLEAN /\ astray' \subseteq Notices
      /\ batch' \subseteq Notices
  BY <1>1, <1>4 DEF Inv, TypeOK, NoticeTypes, SessionTypes, Futures
<1>8. pc' \in Places \ Handing /\ awaited' \in Runs \cup {0} /\ message' = {}
  BY <1>4 DEF Places, Handing
<1>9. lock' = IF lock = "task" THEN "free" ELSE lock
  BY <1>1, <1>3
<1>10. UNCHANGED <<runs, stored>> /\ astray \subseteq astray'
  BY <1>1
<1> QED BY <1>1, <1>5, <1>6, <1>7, <1>8, <1>9, <1>10, TaskMovesOn

\* The delivery task is cancelled; its started write goes on.
LEMMA CloseInv == ASSUME Inv, Close PROVE Inv'
<1>1. /\ ~closed /\ closed' = TRUE
      /\ IF pc = "writing" THEN pc' = "landing" /\ UNCHANGED <<batch, message, awaited, lock>>
         ELSE PersistRest(bucket) /\ lock' = IF pc = "loading" THEN "free" ELSE lock
      /\ astray' = IF run.at \in {"admitted", "input", "failed", "cut", "last"}
                   THEN astray \cup run.bodies ELSE astray
      /\ UNCHANGED <<bucket, future, runs, faults, stored>>
  BY DEF Close
<1>2. IsBucket(bucket') /\ future' \in [Notices -> Futures] /\ Held' = Held
  BY <1>1, BucketTyped DEF Inv, TypeOK, NoticeTypes, Futures, Held
<1>3. astray \subseteq astray' /\ astray' \subseteq Notices
  BY <1>1 DEF Inv, TypeOK, SessionTypes, RunTypes
<1>4. CASE pc # "writing"
  <2>1. pc' \in {"none", "persist"} /\ batch' = Held /\ message' = {} /\ awaited' = 0
    BY <1>1, <1>4 DEF PersistRest, WaitsAt, Held
  <2>2. lock' = IF lock = "task" THEN "free" ELSE lock
    BY <1>1, <1>4 DEF Inv, LockInv
  <2>3. run.bodies \subseteq astray' \/ run.at \notin {"admitted", "input", "failed", "cut", "last"}
    BY <1>1
  <2>4. ASSUME NEW n \in Notices PROVE Keeps(n)
    <3>1. NoticeInv(n)
      BY DEF Inv
    <3> QED BY <1>1, <2>1, <3>1
          DEF Keeps, Held, Sent, FollowsUp, NoticeInv, Known, RequestCarries, Carries
  <2>5. pc' \in Places \ Handing /\ closed' \in BOOLEAN /\ batch' \subseteq Notices
    BY <1>1, <2>1 DEF Places, Handing, Inv, TypeOK, NoticeTypes
  <2> QED BY <1>1, <1>2, <1>3, <2>1, <2>2, <2>3, <2>4, <2>5, TaskMovesOn
<1>5. CASE pc = "writing"
  <2>1. pc' = "landing" /\ UNCHANGED <<batch, message, awaited, lock>>
    BY <1>1, <1>5
  <2>2. NoticeTypes' /\ RunTypes'
    BY <1>1, SameTypes DEF Inv, runs
  <2>3. TaskTypes'
    BY <2>1 DEF Inv, TypeOK, TaskTypes, Places
  <2>4. SessionTypes'
    BY <1>1, <1>3 DEF Inv, TypeOK, SessionTypes, runs
  <2>5. LockInv'
    BY <1>1, <1>5, <2>1 DEF Inv, LockInv, runs
  <2>6. ASSUME NEW n \in Notices PROVE NoticeInv(n)'
    <3>1. NoticeInv(n) /\ run' = run /\ stored' = stored /\ future' = future
      BY <1>1 DEF Inv, runs
    <3>2. Known(n)'
      BY <1>1, <1>3, <2>1, <3>1 DEF NoticeInv, Known, Held, Sent
    <3>3. RequestCarries(n)' /\ InputCarries(n)'
      <4>1. run.at # "appending"
        BY <1>5 DEF Inv, LockInv
      <4> QED BY <1>3, <1>5, <3>1, <4>1 DEF NoticeInv, RequestCarries, InputCarries
    <3>4. FollowUpCarries(n)'
      BY <2>1 DEF FollowUpCarries
    <3>5. ReminderCarries(n)'
      BY <1>1, <1>5, <2>1, <3>1 DEF NoticeInv, ReminderCarries, Carries, Held, Sent
    <3> QED BY <3>2, <3>3, <3>4, <3>5 DEF NoticeInv
  <2> QED BY <2>2, <2>3, <2>4, <2>5, <2>6 DEF Inv, TypeOK
<1> QED BY <1>4, <1>5

-----------------------------------------------------------------------------
(* What the active Run writes *)

\* The message of the active Run is through, or failed.
LEMMA MessageOverInv ==
  ASSUME Inv, TypeOK', run.at \in {"appending", "input"}, UNCHANGED <<task, closed>>,
         lock' = "free", run'.carries = {}, run'.bodies = {},
         run'.at \in {"none", "ready", "asking"}, run'.id = 0 => run'.at = "none",
         astray \subseteq astray',
         \A n \in Notices :
           /\ Known(n)' /\ (stored[n] > 0 => stored'[n] > 0)
           /\ pc = "starting" /\ n \in batch \ astray' /\ Carries(n) => Carries(n)'
  PROVE  Inv'
<1>1. lock = "run" /\ pc \notin {"loading", "writing", "landing"}
  BY DEF Inv, LockInv
<1>2. LockInv'
  BY <1>1 DEF Inv, LockInv, task
<1>3. ASSUME NEW n \in Notices PROVE NoticeInv(n)'
  <2>1. NoticeInv(n) /\ message \subseteq batch
    BY DEF Inv, LockInv
  <2>2. RequestCarries(n)' /\ InputCarries(n)'
    BY DEF RequestCarries, InputCarries
  <2>3. FollowUpCarries(n)'
    BY <2>1 DEF NoticeInv, FollowUpCarries, task
  <2>4. ReminderCarries(n)'
    BY <1>1 DEF ReminderCarries, task
  <2> QED BY <2>2, <2>3, <2>4 DEF NoticeInv
<1> QED BY <1>2, <1>3 DEF Inv

LEMMA WrittenTypes ==
  ASSUME TypeOK, NEW S
  PROVE  /\ Written(S) \in [Notices -> Nat]
         /\ \A n \in Notices : Written(S)[n] = IF n \in S THEN stored[n] + 1 ELSE stored[n]
BY DEF TypeOK, SessionTypes, Written

\* What the request carried was held and unsent; it leaves or is marked.
LEMMA BoundaryStoresInv == ASSUME Inv, BoundaryStores PROVE Inv'
<1> DEFINE S == run.carries
<1> DEFINE b == Carried(bucket, S, count[run.id])
<1> DEFINE c == Without(b, S \ Waking)
<1>1. /\ run.at = "appending" /\ stored' = Written(S) /\ future' = Confirmed(S)
      /\ bucket' = c /\ lock' = "free"
      /\ run' = [run EXCEPT !.at = "asking", !.carries = {}, !.bodies = {}]
      /\ shown' = {n \in Held' : stored'[n] > 0}
      /\ UNCHANGED <<task, count, stopped, started, seen, closed, faults, astray>>
  BY DEF BoundaryStores, Asks, Held, Inv, LockInv
<1>2. run.id \in Runs /\ run.bodies = S /\ S \subseteq Notices /\ count[run.id] \in Nat
  BY <1>1 DEF Inv, LockInv, TypeOK, RunTypes
<1>3. /\ run'.carries = {} /\ run'.bodies = {} /\ run'.at = "asking" /\ run'.id = run.id
      /\ run' \in [id : Runs \cup {0}, carries : SUBSET Notices, bodies : SUBSET Notices,
                  at : {"none", "admitted", "input", "failed", "cut", "last", "ready", "appending",
                        "asking"}]
  BY <1>1 DEF Inv, TypeOK, RunTypes
<1> HIDE DEF S
<1>4. /\ stored' \in [Notices -> Nat]
      /\ \A n \in Notices : stored'[n] = IF n \in S THEN stored[n] + 1 ELSE stored[n]
  BY <1>1, WrittenTypes DEF Inv
<1>5. /\ future' \in [Notices -> Futures]
      /\ \A n \in Notices : \/ future'[n] = future[n]
                            \/ n \in S /\ future[n] = "pending" /\ future'[n] = "done"
  BY <1>1, ConfirmedKeeps DEF Inv
<1>6. /\ IsBucket(b) /\ DOMAIN b = Held
      /\ \A n \in Held :
           /\ b[n].readAfter = IF n \in S THEN count[run.id] ELSE bucket[n].readAfter
           /\ b[n].claimed = bucket[n].claimed
  BY <1>2, BucketTyped, CarriedKeeps DEF Inv, Held
<1> HIDE DEF b
<1>7. /\ IsBucket(c) /\ DOMAIN c = Held \ (S \ Waking)
      /\ \A n \in Held \ (S \ Waking) : c[n] = b[n]
  BY <1>6, WithoutKeeps
<1> HIDE DEF c
<1>8. /\ IsBucket(bucket') /\ Held' = Held \ (S \ Waking)
      /\ \A n \in Held' : /\ n \in S => Sent(n)'
                          /\ n \notin S => (Sent(n)' <=> Sent(n))
                          /\ bucket'[n].claimed = bucket[n].claimed
  <2>1. count[run.id] # Unsent
    BY <1>2 DEF Unsent
  <2> QED BY <1>1, <1>6, <1>7, <2>1 DEF Held, Sent
<1>9. TypeOK'
  <2>1. NoticeTypes'
    BY <1>5, <1>8 DEF NoticeTypes, IsBucket, Held, Futures
  <2>2. TaskTypes'
    BY <1>1 DEF Inv, TypeOK, TaskTypes, Places, task
  <2>3. RunTypes'
    BY <1>1, <1>3 DEF Inv, TypeOK, RunTypes
  <2>4. SessionTypes'
    BY <1>1, <1>4, <1>8 DEF Inv, TypeOK, NoticeTypes, SessionTypes
  <2> QED BY <2>1, <2>2, <2>3, <2>4 DEF TypeOK
<1>10. ASSUME NEW n \in Notices
       PROVE  /\ Known(n)' /\ (stored[n] > 0 => stored'[n] > 0)
              /\ pc = "starting" /\ n \in batch \ astray' /\ Carries(n) => Carries(n)'
  <2>1. NoticeInv(n) /\ stored[n] \in Nat
    BY DEF Inv, TypeOK, SessionTypes
  <2>2. CASE n \in S
    <3>1. n \in astray \/ (Carries(n) /\ ~(FollowsUp /\ n \in batch))
      BY <1>1, <1>2, <2>1, <2>2 DEF NoticeInv, RequestCarries
    <3>2. future[n] # "new"
      BY <2>1, <2>2 DEF NoticeInv, Known, S
    <3>3. Known(n)'
      BY <1>1, <1>4, <1>5, <1>8, <2>1, <2>2, <3>1, <3>2, KnownWritten DEF Inv, NoticeInv, Carries
    <3> QED BY <1>1, <1>4, <2>1, <2>2, <3>1, <3>3 DEF FollowsUp
  <2>3. CASE n \notin S
    <3>1. stored'[n] = stored[n] /\ future'[n] = future[n]
      BY <1>4, <1>5, <2>3
    <3>2. n \in Held' => n \in Held /\ (Sent(n)' <=> Sent(n))
      BY <1>8, <2>3
    <3>3. Known(n)'
      BY <1>1, <1>3, <2>1, <3>1, <3>2, KnownKept DEF NoticeInv, Known, task
    <3> QED BY <1>8, <2>3, <3>1, <3>2, <3>3 DEF Carries
  <2> QED BY <2>2, <2>3
<1>11. run'.id # 0
  BY <1>2, <1>3, RunsTyped
<1> QED BY <1>1, <1>3, <1>9, <1>10, <1>11, MessageOverInv

LEMMA BoundaryFailsInv == ASSUME Inv, BoundaryFails PROVE Inv'
<1> DEFINE S == run.carries
<1> DEFINE b == Release(bucket, S)
<1>1. /\ run.at = "appending" /\ Fault /\ bucket' = b /\ lock' = "free"
      /\ run' = [run EXCEPT !.at = "asking", !.carries = {}, !.bodies = {}]
      /\ shown' = {n \in Held : stored[n] > 0}
      /\ UNCHANGED <<future, task, count, stopped, started, seen, closed, stored, astray>>
  BY DEF BoundaryFails, Asks, Held
<1>2. run.id \in Runs /\ run.bodies = S
  BY <1>1 DEF Inv, LockInv, TypeOK, RunTypes
<1>3. /\ run'.carries = {} /\ run'.bodies = {} /\ run'.at = "asking" /\ run'.id = run.id
      /\ run' \in [id : Runs \cup {0}, carries : SUBSET Notices, bodies : SUBSET Notices,
                  at : {"none", "admitted", "input", "failed", "cut", "last", "ready", "appending",
                        "asking"}]
  BY <1>1 DEF Inv, TypeOK, RunTypes
<1> HIDE DEF S
<1>4. /\ IsBucket(b) /\ DOMAIN b = Held
      /\ \A n \in Held : /\ b[n].readAfter = bucket[n].readAfter
                         /\ n \notin S => b[n].claimed = bucket[n].claimed
  BY BucketTyped, ReleaseKeeps DEF Inv, Held
<1> HIDE DEF b
<1>5. /\ IsBucket(bucket') /\ Held' = Held
      /\ \A n \in Held : /\ Sent(n)' <=> Sent(n)
                         /\ n \notin S => bucket'[n].claimed = bucket[n].claimed
  BY <1>1, <1>4 DEF Held, Sent
<1>6. TypeOK'
  <2>1. NoticeTypes'
    BY <1>1, <1>5 DEF Inv, TypeOK, NoticeTypes, IsBucket, Held
  <2>2. TaskTypes'
    BY <1>1 DEF Inv, TypeOK, TaskTypes, Places, task
  <2>3. RunTypes'
    BY <1>1, <1>3 DEF Inv, TypeOK, RunTypes
  <2>4. SessionTypes'
    BY <1>1, FaultTyped DEF Inv, TypeOK, NoticeTypes, SessionTypes
  <2> QED BY <2>1, <2>2, <2>3, <2>4 DEF TypeOK
<1>7. ASSUME NEW n \in Notices
      PROVE  /\ Known(n)' /\ (stored[n] > 0 => stored'[n] > 0)
             /\ pc = "starting" /\ n \in batch \ astray' /\ Carries(n) => Carries(n)'
  <2>1. NoticeInv(n)
    BY DEF Inv
  <2>2. Known(n)'
    BY <1>1, <1>3, <1>5, <2>1, KnownKept DEF NoticeInv, Known, task
  <2>3. pc = "starting" /\ n \in batch \ astray => n \notin S
    BY <1>1, <1>2, <2>1 DEF NoticeInv, RequestCarries, FollowsUp
  <2> QED BY <1>1, <1>5, <2>2, <2>3 DEF Carries
<1>8. run'.id # 0
  BY <1>2, <1>3, RunsTyped
<1> QED BY <1>1, <1>3, <1>6, <1>7, <1>8, MessageOverInv

\* The follow-up Run takes the lock; it goes on with what it carries.
\* The input of a follow-up Run is attempted, or was not written.
LEMMA InputMovesInv ==
  ASSUME Inv, run.at \in {"admitted", "input", "failed", "cut"},
         NEW place \in {"input", "failed", "cut", "last"}, run' = [run EXCEPT !.at = place],
         lock' = IF place = "input" THEN "run" ELSE IF lock = "run" THEN "free" ELSE lock,
         place = "input" => lock = "free", faults' = faults \/ Fault,
         UNCHANGED <<bucket, future, task, count, stopped, started, shown, seen, closed, stored,
                     astray>>
  PROVE  Inv'
<1>1. UNCHANGED <<pc, batch, message, awaited>>
  BY DEF task
<1>2. /\ run'.carries = run.carries /\ run'.bodies = run.bodies /\ run'.at = place
      /\ run'.id = run.id
      /\ run' \in [id : Runs \cup {0}, carries : SUBSET Notices, bodies : SUBSET Notices,
                  at : {"none", "admitted", "input", "failed", "cut", "last", "ready", "appending",
                        "asking"}]
  BY DEF Inv, TypeOK, RunTypes
<1>3. RunTypes'
  BY <1>2 DEF Inv, TypeOK, RunTypes
<1>4. TaskTypes'
  BY <1>1 DEF Inv, TypeOK, TaskTypes
<1>5. NoticeTypes' /\ SessionTypes'
  BY FaultTyped DEF Inv, TypeOK, NoticeTypes, SessionTypes, Held
<1>6. LockInv'
  BY <1>1, <1>2 DEF Inv, LockInv, TypeOK, TaskTypes
<1>7. ASSUME NEW n \in Notices PROVE NoticeInv(n)'
  <2>1. NoticeInv(n)
    BY DEF Inv
  <2>2. Known(n)'
    BY <1>1, <1>2, <2>1 DEF NoticeInv, Known, Held, Sent
  <2>3. RequestCarries(n)'
    BY <1>2 DEF RequestCarries
  <2>4. InputCarries(n)'
    BY <1>1, <1>2, <2>1 DEF NoticeInv, InputCarries, Carries, Held, Sent
  <2>5. FollowUpCarries(n)' /\ ReminderCarries(n)'
    BY <1>1, <2>1 DEF NoticeInv, FollowUpCarries, ReminderCarries, Carries, Held, Sent
  <2> QED BY <2>2, <2>3, <2>4, <2>5 DEF NoticeInv
<1> QED BY <1>3, <1>4, <1>5, <1>6, <1>7 DEF Inv, TypeOK

LEMMA InputBeginsInv == ASSUME Inv, InputBegins PROVE Inv'
BY InputMovesInv DEF InputBegins

LEMMA InputUndoneInv == ASSUME Inv, InputUndone PROVE Inv'
<1>1. lock = "run"
  BY DEF InputUndone, Inv, LockInv
<1> QED BY <1>1, InputMovesInv DEF InputUndone

LEMMA NotesUndoneInv == ASSUME Inv, NotesUndone PROVE Inv'
<1>1. lock # "run"
  BY DEF NotesUndone, Inv, LockInv
<1> QED BY <1>1, InputMovesInv DEF NotesUndone

\* The delivered notices leave; nobody else has them in hand.
LEMMA InputStoresInv == ASSUME Inv, InputStores PROVE Inv'
<1> DEFINE C == run.carries
<1> DEFINE S == run.bodies
<1> DEFINE b == Without(bucket, C)
<1>1. /\ run.at = "input" /\ stored' = Written(S) /\ bucket' = b
      /\ future' = Confirmed(C \cap Held) /\ lock' = "free"
      /\ run' = [run EXCEPT !.at = "ready", !.carries = {}, !.bodies = {}]
      /\ UNCHANGED <<task, count, stopped, started, shown, seen, closed, faults, astray>>
  BY DEF InputStores
<1>2. run.id \in Runs /\ S \subseteq C
  BY <1>1 DEF Inv, LockInv, TypeOK, RunTypes
<1>3. /\ run'.carries = {} /\ run'.bodies = {} /\ run'.at = "ready" /\ run'.id = run.id
      /\ run' \in [id : Runs \cup {0}, carries : SUBSET Notices, bodies : SUBSET Notices,
                  at : {"none", "admitted", "input", "failed", "cut", "last", "ready", "appending",
                        "asking"}]
  BY <1>1 DEF Inv, TypeOK, RunTypes
<1>4. \A n \in Notices :
        /\ n \in S \ astray => Carries(n) /\ pc = "following"
        /\ n \in C \ S => stored[n] > 0
        /\ n \in C => future[n] # "new"
  BY <1>1 DEF Inv, NoticeInv, InputCarries, Known
<1> HIDE DEF S, C
<1>5. /\ stored' \in [Notices -> Nat]
      /\ \A n \in Notices : stored'[n] = IF n \in S THEN stored[n] + 1 ELSE stored[n]
  BY <1>1, WrittenTypes DEF Inv
<1>6. /\ future' \in [Notices -> Futures]
      /\ \A n \in Notices : \/ future'[n] = future[n]
                            \/ n \in C /\ future[n] = "pending" /\ future'[n] = "done"
  BY <1>1, ConfirmedKeeps DEF Inv
<1>7. IsBucket(b) /\ DOMAIN b = Held \ C /\ \A n \in Held \ C : b[n] = bucket[n]
  BY BucketTyped, WithoutKeeps DEF Inv, Held
<1> HIDE DEF b
<1>8. IsBucket(bucket') /\ Held' = Held \ C /\ \A n \in Held' : bucket'[n] = bucket[n]
  BY <1>1, <1>7 DEF Held
<1>9. TypeOK'
  <2>1. NoticeTypes'
    BY <1>6, <1>8 DEF NoticeTypes, IsBucket, Held, Futures
  <2>2. TaskTypes'
    BY <1>1 DEF Inv, TypeOK, TaskTypes, Places, task
  <2>3. RunTypes'
    BY <1>1, <1>3 DEF Inv, TypeOK, RunTypes
  <2>4. SessionTypes'
    BY <1>1, <1>5 DEF Inv, TypeOK, SessionTypes
  <2> QED BY <2>1, <2>2, <2>3, <2>4 DEF TypeOK
<1>10. ASSUME NEW n \in Notices
       PROVE  /\ Known(n)' /\ (stored[n] > 0 => stored'[n] > 0)
              /\ pc = "starting" /\ n \in batch \ astray' /\ Carries(n) => Carries(n)'
  <2>1. NoticeInv(n) /\ stored[n] \in Nat
    BY DEF Inv, TypeOK, SessionTypes
  <2>2. CASE n \in S
    <3>1. Known(n)'
      BY <1>1, <1>2, <1>4, <1>5, <1>6, <1>8, <2>1, <2>2, KnownWritten DEF Inv, NoticeInv, Carries
    <3> QED BY <1>1, <1>4, <1>5, <2>1, <2>2, <3>1
  <2>3. CASE n \in C \ S
    <3>1. Known(n)'
      BY <1>1, <1>3, <1>4, <1>5, <1>6, <1>8, <2>1, <2>3, KnownKept DEF NoticeInv
    <3>2. Carries(n) => n \in astray
      BY <1>4, <2>1, <2>3 DEF NoticeInv, Known, Carries
    <3> QED BY <1>1, <1>5, <2>3, <3>1, <3>2
  <2>4. CASE n \notin C
    <3>1. n \notin S /\ stored'[n] = stored[n] /\ future'[n] = future[n]
      BY <1>2, <1>5, <1>6, <2>4
    <3>2. n \in Held' => n \in Held /\ (Sent(n)' <=> Sent(n))
      BY <1>8 DEF Sent
    <3>3. Known(n)'
      BY <1>1, <1>3, <2>1, <3>1, <3>2, KnownKept DEF NoticeInv, Known, task
    <3> QED BY <1>8, <2>4, <3>1, <3>2, <3>3 DEF Carries
  <2> QED BY <2>2, <2>3, <2>4
<1>11. run'.id # 0
  BY <1>2, <1>3, RunsTyped
<1> QED BY <1>1, <1>3, <1>9, <1>10, <1>11, MessageOverInv

\* The input is written without its callback: from now on it is astray.
LEMMA InputCutOffInv == ASSUME Inv, NEW byUser \in BOOLEAN, InputCutOff(byUser) PROVE Inv'
<1>1. /\ run.at = "input" /\ stored' = Written(run.bodies) /\ run' = NoRun /\ shown' = {}
      /\ stopped' = IF byUser THEN stopped \cup {run.id} ELSE stopped
      /\ lock' = "free" /\ astray' = astray \cup run.bodies
      /\ UNCHANGED <<bucket, future, task, count, started, seen, closed, faults>>
  BY DEF InputCutOff, Ends
<1>2. run.id \in Runs /\ run.bodies \subseteq run.carries
  BY <1>1 DEF Inv, LockInv, TypeOK, RunTypes
<1>3. run'.carries = {} /\ run'.bodies = {} /\ run'.at = "none" /\ run'.id = 0
  BY <1>1 DEF NoRun
<1>4. /\ stored' \in [Notices -> Nat]
      /\ \A n \in Notices :
           stored'[n] = IF n \in run.bodies THEN stored[n] + 1 ELSE stored[n]
  BY <1>1, WrittenTypes DEF Inv
<1>5. TypeOK'
  <2>1. NoticeTypes'
    BY <1>1, SameTypes DEF Inv
  <2>2. TaskTypes'
    BY <1>1 DEF Inv, TypeOK, TaskTypes, Places, task
  <2>3. RunTypes'
    BY <1>1, <1>2 DEF Inv, TypeOK, RunTypes, NoRun
  <2>4. SessionTypes'
    BY <1>1, <1>4 DEF Inv, TypeOK, SessionTypes, RunTypes
  <2> QED BY <2>1, <2>2, <2>3, <2>4 DEF TypeOK
<1>6. ASSUME NEW n \in Notices
      PROVE  /\ Known(n)' /\ (stored[n] > 0 => stored'[n] > 0)
             /\ pc = "starting" /\ n \in batch \ astray' /\ Carries(n) => Carries(n)'
  <2>1. NoticeInv(n) /\ stored[n] \in Nat
    BY DEF Inv, TypeOK, SessionTypes
  <2>2. UNCHANGED <<bucket, future, batch>> /\ Held' = Held /\ (Sent(n)' <=> Sent(n))
    BY <1>1 DEF task, Held, Sent
  <2>3. Known(n)'
    <3>1. CASE n \in run.bodies
      <4>1. n \in astray' /\ stored'[n] > 0 /\ future[n] # "new"
        BY <1>1, <1>2, <1>4, <2>1, <3>1 DEF NoticeInv, Known
      <4> QED BY <2>1, <2>2, <4>1 DEF NoticeInv, Known
    <3>2. CASE n \notin run.bodies
      BY <1>1, <1>3, <1>4, <2>1, <2>2, <3>2, KnownKept DEF NoticeInv, Known
    <3> QED BY <3>1, <3>2
  <2> QED BY <1>4, <2>1, <2>2, <2>3 DEF Carries
<1> QED BY <1>1, <1>3, <1>5, <1>6, MessageOverInv

\* The Run ends after an input that nobody was told of, or that was lost.
LEMMA InputOverInv ==
  ASSUME Inv, TypeOK', run.at \in {"failed", "cut", "last"},
         UNCHANGED <<bucket, future, task, closed, lock>>, run' = NoRun, astray \subseteq astray',
         \A n \in Notices : Known(n)' /\ (stored[n] > 0 => stored'[n] > 0)
  PROVE  Inv'
<1>1. /\ run'.carries = {} /\ run'.bodies = {} /\ run'.at = "none" /\ run'.id = 0
      /\ UNCHANGED <<pc, batch, message, awaited>>
  BY DEF NoRun, task
<1>2. LockInv'
  BY <1>1 DEF Inv, LockInv
<1>3. ASSUME NEW n \in Notices PROVE NoticeInv(n)'
  <2>1. NoticeInv(n) /\ (Carries(n)' <=> Carries(n))
    BY DEF Inv, Carries, Held, Sent
  <2>2. RequestCarries(n)' /\ InputCarries(n)'
    BY <1>1 DEF RequestCarries, InputCarries
  <2>3. FollowUpCarries(n)'
    BY <1>1, <2>1 DEF NoticeInv, FollowUpCarries
  <2>4. ReminderCarries(n)'
    BY <1>1, <2>1 DEF NoticeInv, ReminderCarries, Held, Sent
  <2> QED BY <2>2, <2>3, <2>4 DEF NoticeInv
<1> QED BY <1>2, <1>3 DEF Inv

\* The input is written without its callback: from now on it is astray.
LEMMA NotesKeptInv == ASSUME Inv, NEW byUser \in BOOLEAN, NotesKept(byUser) PROVE Inv'
<1>1. /\ run.at \in {"failed", "cut", "last"} /\ stored' = Written(run.bodies) /\ run' = NoRun
      /\ shown' = {} /\ stopped' = IF byUser THEN stopped \cup {run.id} ELSE stopped
      /\ astray' = astray \cup run.bodies
      /\ UNCHANGED <<bucket, future, task, lock, count, started, seen, closed, faults>>
  BY DEF NotesKept, Ends
<1>2. run.id \in Runs /\ run.bodies \subseteq run.carries
  BY <1>1 DEF Inv, LockInv, TypeOK, RunTypes
<1>3. run'.carries = {}
  BY <1>1 DEF NoRun
<1>4. /\ stored' \in [Notices -> Nat]
      /\ \A n \in Notices :
           stored'[n] = IF n \in run.bodies THEN stored[n] + 1 ELSE stored[n]
  BY <1>1, WrittenTypes DEF Inv
<1>5. TypeOK'
  <2>1. NoticeTypes'
    BY <1>1, SameTypes DEF Inv
  <2>2. TaskTypes'
    BY <1>1 DEF Inv, TypeOK, TaskTypes, task
  <2>3. RunTypes'
    BY <1>1, <1>2 DEF Inv, TypeOK, RunTypes, NoRun
  <2>4. SessionTypes'
    BY <1>1, <1>4 DEF Inv, TypeOK, SessionTypes, RunTypes
  <2> QED BY <2>1, <2>2, <2>3, <2>4 DEF TypeOK
<1>6. ASSUME NEW n \in Notices PROVE Known(n)' /\ (stored[n] > 0 => stored'[n] > 0)
  <2>1. NoticeInv(n) /\ stored[n] \in Nat
    BY DEF Inv, TypeOK, SessionTypes
  <2>2. UNCHANGED <<bucket, future, batch>> /\ Held' = Held /\ (Sent(n)' <=> Sent(n))
    BY <1>1 DEF task, Held, Sent
  <2>3. CASE n \in run.bodies
    <3>1. n \in astray' /\ stored'[n] > 0 /\ future[n] # "new"
      BY <1>1, <1>2, <1>4, <2>1, <2>3 DEF NoticeInv, Known
    <3> QED BY <2>1, <2>2, <3>1 DEF NoticeInv, Known
  <2>4. CASE n \notin run.bodies
    BY <1>1, <1>3, <1>4, <2>1, <2>2, <2>4, KnownKept DEF NoticeInv, Known
  <2> QED BY <1>4, <2>1, <2>3, <2>4
<1> QED BY <1>1, <1>5, <1>6, InputOverInv

LEMMA NotesLostInv == ASSUME Inv, NEW byUser \in BOOLEAN, NotesLost(byUser) PROVE Inv'
<1>1. /\ run.at = "last" /\ Fault /\ run' = NoRun /\ shown' = {}
      /\ stopped' = IF byUser THEN stopped \cup {run.id} ELSE stopped
      /\ UNCHANGED <<bucket, future, task, lock, count, started, seen, closed, stored, astray>>
  BY DEF NotesLost, Ends
<1>2. run.id \in Runs
  BY <1>1 DEF Inv, LockInv, TypeOK, RunTypes
<1>3. run'.carries = {}
  BY <1>1 DEF NoRun
<1>4. TypeOK'
  <2>1. NoticeTypes'
    BY <1>1, SameTypes DEF Inv
  <2>2. TaskTypes'
    BY <1>1 DEF Inv, TypeOK, TaskTypes, task
  <2>3. RunTypes'
    BY <1>1, <1>2 DEF Inv, TypeOK, RunTypes, NoRun
  <2>4. SessionTypes'
    BY <1>1, FaultTyped DEF Inv, TypeOK, SessionTypes
  <2> QED BY <2>1, <2>2, <2>3, <2>4 DEF TypeOK
<1>5. ASSUME NEW n \in Notices PROVE Known(n)' /\ (stored[n] > 0 => stored'[n] > 0)
  <2>1. Known(n) /\ UNCHANGED <<bucket, future, batch, stored, astray>>
    BY <1>1 DEF Inv, NoticeInv, task
  <2> QED BY <1>3, <2>1 DEF Known, Held, Sent
<1> QED BY <1>1, <1>4, <1>5, InputOverInv

-----------------------------------------------------------------------------
(* Producers *)

\* A new result is carried by no message, and the Session has nothing of it.
LEMMA SubmitInv ==
  ASSUME Inv, NEW k \in Notices, NEW fromStopped \in BOOLEAN, Submit(k, fromStopped)
  PROVE  Inv'
<1> DEFINE r == 1 + Cardinality({m \in Notices : future[m] # "new"})
<1> DEFINE fields == [rank |-> r, boundary |-> run.id, suppress |-> fromStopped,
                      readAfter |-> Unsent, claimed |-> FALSE]
<1>1. /\ future[k] = "new"
      /\ UNCHANGED <<batch, message, awaited, lock, runs, closed, faults, stored, astray>>
      /\ IF closed
         THEN future' = [future EXCEPT ![k] = "cancelled"] /\ UNCHANGED <<bucket, pc>>
         ELSE /\ future' = [future EXCEPT ![k] = "pending"]
              /\ bucket' = [m \in Held \cup {k} |-> IF m # k THEN bucket[m] ELSE fields]
              /\ pc' = IF pc = "none" THEN "scheduled" ELSE pc
  BY DEF Submit
<1>2. fields \in Fields
  <2>1. IsFiniteSet({m \in Notices : future[m] # "new"})
    BY FS_Subset, CompletionAssumption
  <2>2. r \in Nat
    BY <2>1, FS_CardinalityType
  <2> HIDE DEF r
  <2>3. run.id \in Runs \cup {0}
    BY DEF Inv, TypeOK, RunTypes
  <2> QED BY <2>2, <2>3 DEF Fields, Unsent
<1>3. fields.readAfter = Unsent
  OBVIOUS
<1> HIDE DEF fields
<1>4. k \notin Held /\ stored[k] = 0 /\ k \notin run.carries \cup batch
  BY <1>1 DEF Inv, NoticeInv, Known
<1>5. /\ future' \in [Notices -> Futures] /\ future'[k] \in {"pending", "cancelled"}
      /\ \A n \in Notices \ {k} : future'[n] = future[n]
  BY <1>1 DEF Inv, TypeOK, NoticeTypes, Futures
<1>6. /\ IsBucket(bucket') /\ Held \subseteq Held' /\ Held' \subseteq Held \cup {k}
      /\ \A n \in Held : bucket'[n] = bucket[n]
      /\ k \in Held' => ~Sent(k)' /\ future'[k] = "pending"
  <2>1. CASE closed
    BY <1>1, <1>4, <2>1, BucketTyped DEF Inv, Held
  <2>2. CASE ~closed
    <3>1. bucket' = [m \in Held \cup {k} |-> IF m # k THEN bucket[m] ELSE fields]
      BY <1>1, <2>2
    <3>2. future'[k] = "pending"
      BY <1>1, <2>2 DEF Inv, TypeOK, NoticeTypes
    <3> QED BY <1>2, <1>3, <1>4, <3>1, <3>2, BucketTyped DEF Inv, IsBucket, Held, Sent
  <2> QED BY <2>1, <2>2
<1>7. pc' = pc \/ (pc = "none" /\ pc' = "scheduled")
  BY <1>1
<1>8. NoticeTypes'
  BY <1>5, <1>6 DEF NoticeTypes, IsBucket, Held, Futures
<1>9. TaskTypes'
  BY <1>1, <1>7 DEF Inv, TypeOK, TaskTypes, Places
<1>10. RunTypes' /\ SessionTypes'
  BY <1>1, SameTypes DEF Inv, runs
<1>11. LockInv'
  BY <1>1, <1>7 DEF Inv, LockInv, runs
<1>12. ASSUME NEW n \in Notices PROVE NoticeInv(n)'
  <2>1. /\ NoticeInv(n) /\ run' = run /\ stored' = stored
        /\ UNCHANGED <<batch, message, awaited, astray>>
    BY <1>1 DEF Inv, runs
  <2>2. CASE n = k
    <3>1. n \notin run.bodies /\ n \notin run.carries /\ n \notin batch
      BY <1>4, <2>2 DEF Inv, LockInv
    <3>2. Known(n)'
      BY <1>4, <1>5, <1>6, <2>1, <2>2 DEF Known
    <3> QED BY <2>1, <3>1, <3>2
          DEF NoticeInv, RequestCarries, InputCarries, FollowUpCarries, ReminderCarries
  <2>3. CASE n # k
    <3>1. future'[n] = future[n] /\ (n \in Held' <=> n \in Held)
      BY <1>5, <1>6, <2>3
    <3>2. n \in Held => (Sent(n)' <=> Sent(n)) /\ bucket'[n].claimed = bucket[n].claimed
      BY <1>6 DEF Sent
    <3>3. Known(n)'
      BY <2>1, <3>1, <3>2 DEF NoticeInv, Known
    <3>4. Carries(n)' <=> Carries(n)
      BY <3>1, <3>2 DEF Carries
    <3>5. RequestCarries(n)' /\ InputCarries(n)'
      BY <1>7, <2>1, <3>4 DEF NoticeInv, RequestCarries, InputCarries, FollowsUp
    <3>6. FollowUpCarries(n)' /\ ReminderCarries(n)'
      BY <1>7, <2>1, <3>1, <3>2, <3>4 DEF NoticeInv, FollowUpCarries, ReminderCarries
    <3> QED BY <3>3, <3>5, <3>6 DEF NoticeInv
  <2> QED BY <2>2, <2>3
<1> QED BY <1>8, <1>9, <1>10, <1>11, <1>12 DEF Inv, TypeOK

\* What can be withdrawn is unclaimed, so no message carries it.
LEMMA WithdrawInv == ASSUME Inv, NEW k \in Notices, Withdraw(k) PROVE Inv'
<1>1. /\ k \in Held /\ ~bucket[k].claimed /\ ~Sent(k)
      /\ bucket' = Without(bucket, {k})
      /\ future' = [future EXCEPT ![k] = IF @ = "pending" THEN "withdrawn" ELSE @]
      /\ UNCHANGED <<task, lock, runs, closed, faults, stored, astray>>
  BY DEF Withdraw, Sent
<1>2. /\ IsBucket(bucket') /\ Held' = Held \ {k} /\ \A n \in Held' : bucket'[n] = bucket[n]
  <2> DEFINE b == Without(bucket, {k})
  <2>1. IsBucket(b) /\ DOMAIN b = Held \ {k} /\ \A n \in Held \ {k} : b[n] = bucket[n]
    BY BucketTyped, WithoutKeeps DEF Inv, Held
  <2>2. bucket' = b
    BY <1>1
  <2> HIDE DEF b
  <2> QED BY <2>1, <2>2 DEF Held
<1>3. /\ future' \in [Notices -> Futures]
      /\ \A n \in Notices \ {k} : future'[n] = future[n]
      /\ future'[k] = IF future[k] = "pending" THEN "withdrawn" ELSE future[k]
  BY <1>1 DEF Inv, TypeOK, NoticeTypes, Futures
<1>4. NoticeTypes'
  BY <1>2, <1>3 DEF NoticeTypes, IsBucket, Held, Futures
<1>5. TaskTypes' /\ RunTypes' /\ SessionTypes'
  BY <1>1, SameTypes DEF Inv, runs, task
<1>6. LockInv'
  BY <1>1 DEF Inv, LockInv, runs, task
<1>7. ASSUME NEW n \in Notices PROVE NoticeInv(n)'
  <2>1. /\ NoticeInv(n) /\ run' = run /\ stored' = stored /\ astray' = astray
        /\ UNCHANGED <<pc, batch, message, awaited>>
    BY <1>1 DEF Inv, runs, task
  <2>2. CASE n = k
    <3>1. ~Carries(n) /\ n \notin Held' /\ future[n] \in {"pending", "done"}
      BY <1>1, <1>2, <2>1, <2>2 DEF Carries, NoticeInv, Known
    <3>2. Known(n)'
      BY <1>1, <1>3, <2>1, <2>2, <3>1 DEF NoticeInv, Known
    <3>3. RequestCarries(n)' /\ InputCarries(n)' /\ FollowUpCarries(n)' /\ ReminderCarries(n)'
      BY <2>1, <3>1
        DEF NoticeInv, RequestCarries, InputCarries, FollowUpCarries, ReminderCarries
    <3> QED BY <3>2, <3>3 DEF NoticeInv
  <2>3. CASE n # k
    <3>1. future'[n] = future[n] /\ (n \in Held' <=> n \in Held)
      BY <1>2, <1>3, <2>3
    <3>2. n \in Held => (Sent(n)' <=> Sent(n)) /\ bucket'[n].claimed = bucket[n].claimed
      BY <1>2, <2>3 DEF Sent
    <3>3. Known(n)'
      BY <2>1, <3>1, <3>2 DEF NoticeInv, Known
    <3>4. Carries(n)' <=> Carries(n)
      BY <3>1, <3>2 DEF Carries
    <3>5. RequestCarries(n)' /\ InputCarries(n)'
      BY <2>1, <3>4 DEF NoticeInv, RequestCarries, InputCarries, FollowsUp
    <3>6. FollowUpCarries(n)' /\ ReminderCarries(n)'
      BY <2>1, <3>1, <3>2, <3>4 DEF NoticeInv, FollowUpCarries, ReminderCarries
    <3> QED BY <3>3, <3>5, <3>6 DEF NoticeInv
  <2> QED BY <2>2, <2>3
<1> QED BY <1>4, <1>5, <1>6, <1>7 DEF Inv, TypeOK

-----------------------------------------------------------------------------
(* Theorems *)

LEMMA UnchangedInv == ASSUME Inv, UNCHANGED vars PROVE Inv'
<1>1. UNCHANGED <<bucket, future, pc, batch, message, awaited, lock, run, count, stopped,
                  started, shown, seen, closed, faults, stored, astray>>
  BY DEF vars, task, runs
<1>2. TypeOK'
  BY <1>1, SameTypes DEF Inv, TypeOK
<1>3. LockInv'
  BY <1>1 DEF Inv, LockInv
<1>4. ASSUME NEW n \in Notices PROVE NoticeInv(n)'
  <2>1. NoticeInv(n)
    BY DEF Inv
  <2> QED BY <1>1, <2>1
        DEF NoticeInv, Known, RequestCarries, InputCarries, FollowUpCarries, ReminderCarries,
            Carries, Held, Sent, FollowsUp
<1> QED BY <1>2, <1>3, <1>4 DEF Inv

\* The invariant of delivery, from which the properties follow.
THEOREM DeliveryInvariant == Spec => []Inv
<1>1. Inv /\ [Next]_vars => Inv'
  <2> SUFFICES ASSUME Inv, [Next]_vars PROVE Inv'
    OBVIOUS
  <2>1. CASE Producer
    BY <2>1, SubmitInv, WithdrawInv DEF Producer
  <2>2. CASE RunStarts
    BY <2>2, RunStartsInv
  <2>3. CASE RunStep
    BY <2>3, BoundaryInv, BoundaryStoresInv, BoundaryFailsInv, AnswersInv, InputBeginsInv,
       InputStoresInv, InputUndoneInv, NotesUndoneInv, RunEndsInv, InputCutOffInv, NotesKeptInv,
       NotesLostInv DEF RunStep
  <2>4. CASE TaskStep
    BY <2>4, BeginsInv, BoundaryRunOverInv, CollectsInv, ClaimsInv, FollowUpStartsInv,
       StartRefusedInv, RefusedJoinsInv, RefusedWaitsInv, StartBlockedInv, StartFailsInv,
       FollowUpOverInv, PersistLocksInv, LoadsInv, PersistFailsInv, RetriesInv, WritesInv,
       LandsInv, LandingFailsInv DEF TaskStep
  <2>5. CASE Close
    BY <2>5, CloseInv
  <2>6. CASE UNCHANGED vars
    BY <2>6, UnchangedInv
  <2> QED BY <2>1, <2>2, <2>3, <2>4, <2>5, <2>6 DEF Next
<1> QED BY <1>1, InitInv, PTL DEF Spec

\* The state of delivery is well typed.
THEOREM TypeCorrect == Spec => []TypeOK
<1>1. Inv => TypeOK
  BY DEF Inv
<1> QED BY <1>1, DeliveryInvariant, PTL

\* No result is written to the Session twice, whichever of a request, a
\* follow-up Run and a reminder carry it, unless two of them carry it or the
\* input of its follow-up Run was written without the callback.
THEOREM ResultsAreStoredOnce == Spec => []StoredOnce
<1>1. Inv => StoredOnce
  BY DEF Inv, NoticeInv, Known, StoredOnce
<1> QED BY <1>1, DeliveryInvariant, PTL

\* The delivered future is right: a result reported as delivered is in the
\* Session, and one that was taken back is not, but for the same results.
THEOREM ProducersAreToldTheTruth == Spec => []ProducersLearnTheTruth
<1>1. Inv => ProducersLearnTheTruth
  BY DEF Inv, NoticeInv, Known, ProducersLearnTheTruth
<1> QED BY <1>1, DeliveryInvariant, PTL

-----------------------------------------------------------------------------
(* What was read, and what a Stop leaves behind *)

\* Runs are numbered as they start, and the task of a closed service starts
\* none.  A follow-up Run is waited for until its input is written.
Numbering ==
  /\ \A r \in Runs : r > started => count[r] = 0
  /\ run.id =< started /\ run.id \notin stopped /\ \A r \in stopped : r \in 1..started
  /\ closed => pc \in {"none", "persist", "loading", "writing", "landing"}
  /\ run.at \in {"admitted", "input", "failed", "cut", "last"} =>
       closed \/ (pc = "following" /\ awaited = run.id)

\* Which Run is to read n.
Joined(n) ==
  /\ n \in Held => bucket[n].boundary =< started
  /\ run.at = "appending" /\ n \in run.bodies \ astray => bucket[n].boundary = run.id

\* n is in the Session, and no answered request had it.
Unread(n) ==
  n \in Held /\ Sent(n) /\ n \notin seen \cup astray =>
    /\ run.id # 0 /\ bucket[n].boundary # run.id => count[run.id] = 0
    /\ run.at = "asking" => n \in shown
    /\ bucket[n].boundary # 0 => count[bucket[n].boundary] =< bucket[n].readAfter

\* A notice of the Session without a Run waits to be dropped.
Detached(n) ==
  n \in Held /\ Sent(n) /\ n \notin astray /\ bucket[n].boundary = 0 =>
    closed \/ (pc = "persist" /\ n \in batch)

\* What a follow-up Run is about to carry.
Surfaced(n) ==
  pc \in {"surface", "starting", "refused"} /\ n \in batch \ astray =>
    /\ pc = "starting" => n \in Held /\ (n \notin message => Sent(n))
    /\ n \in Held => /\ bucket[n].suppress = FALSE /\ bucket[n].boundary \notin stopped
                     /\ run.id # 0 => bucket[n].boundary # run.id

ReadInv == Numbering /\ \A n \in Notices : Joined(n) /\ Unread(n) /\ Detached(n) /\ Surfaced(n)

\* The Run that is to read n stays, is forgotten, or is the active one from now on.
Rejoins(n) ==
  n \in Held' =>
    \/ n \notin Held /\ ~Sent(n)' /\ bucket'[n].boundary = run.id
    \/ /\ n \in Held /\ (Sent(n)' <=> Sent(n))
       /\ \/ /\ bucket'[n].boundary = bucket[n].boundary
             /\ bucket'[n].readAfter = bucket[n].readAfter
          \/ /\ bucket'[n].boundary = 0 /\ bucket'[n].readAfter = bucket[n].readAfter
             /\ pc = "starting" /\ n \in batch /\ pc' = "persist" /\ n \in batch'
          \/ /\ run.id # 0 /\ bucket'[n].boundary = run.id
             /\ Sent(n) => /\ bucket'[n].readAfter = 0
                           /\ bucket[n].boundary # run.id \/ n \in astray
       /\ pc = "persist" /\ n \in batch /\ Sent(n) => closed' \/ (pc' = "persist" /\ n \in batch')

\* A step of the task or of a producer keeps the invariant.
LEMMA RejoinsReadInv ==
  ASSUME Inv, Inv', ReadInv, UNCHANGED runs, astray \subseteq astray', closed => closed',
         closed' => pc' \in {"none", "persist", "loading", "writing", "landing"},
         \/ closed'
         \/ pc # "following" \/ awaited # run.id
         \/ pc' = pc /\ awaited' = awaited,
         \A n \in Notices : Rejoins(n) /\ Surfaced(n)'
  PROVE  ReadInv'
<1>1. /\ run' = run /\ count' = count /\ stopped' = stopped /\ started' = started
      /\ shown' = shown /\ seen' = seen
  BY DEF runs
<1>2. /\ run.id \in Runs \cup {0} /\ count \in [Runs -> Nat] /\ started \in Nat
      /\ \A r \in Runs \cup {0} : r \in Nat
  BY RunsTyped DEF Inv, TypeOK, RunTypes
<1>3. Numbering'
  BY <1>1 DEF ReadInv, Numbering
<1>4. ASSUME NEW n \in Notices PROVE Joined(n)' /\ Unread(n)' /\ Detached(n)'
  <2>1. /\ Joined(n) /\ Unread(n) /\ Detached(n) /\ Surfaced(n) /\ Rejoins(n)
        /\ NoticeInv(n) /\ Numbering
    BY DEF ReadInv, Inv
  <2>2. n \in Held => bucket[n] \in Fields
    BY DEF Inv, TypeOK, NoticeTypes
  <2>3. Joined(n)'
    <3>1. n \in Held' => bucket'[n].boundary =< started'
      BY <1>1, <1>2, <2>1 DEF Joined, Rejoins, Numbering
    <3>2. run.at = "appending" /\ n \in run.bodies \ astray => ~(pc = "starting" /\ n \in batch)
      BY <2>1 DEF NoticeInv, RequestCarries, FollowsUp
    <3>3. run.at = "appending" /\ n \in run.bodies \ astray' => n \in Held'
      BY <1>1, <2>1 DEF Inv, NoticeInv, RequestCarries, Carries
    <3> QED BY <1>1, <2>1, <3>1, <3>2, <3>3 DEF Joined, Rejoins
  <2>4. Detached(n)'
    BY <1>1, <2>1 DEF Detached, Rejoins
  <2>5. Unread(n)'
    <3> SUFFICES ASSUME n \in Held', Sent(n)', n \notin seen' \cup astray' PROVE Unread(n)'
      BY DEF Unread
    <3>1. /\ n \in Held /\ Sent(n) /\ n \notin seen \cup astray
          /\ run.id # 0 /\ bucket[n].boundary # run.id => count[run.id] = 0
          /\ run.at = "asking" => n \in shown
          /\ bucket[n].boundary # 0 => count[bucket[n].boundary] =< bucket[n].readAfter
      BY <1>1, <2>1 DEF Rejoins, Unread
    <3>2. run.at = "asking" => n \in shown'
      BY <1>1, <3>1
    <3>3. CASE /\ bucket'[n].boundary = bucket[n].boundary
               /\ bucket'[n].readAfter = bucket[n].readAfter
      BY <1>1, <3>1, <3>2, <3>3 DEF Unread
    <3>4. CASE bucket'[n].boundary = 0 /\ pc = "starting" /\ n \in batch
      <4>1. run.id # 0 => count[run.id] = 0
        BY <2>1, <3>1, <3>4 DEF Surfaced
      <4> QED BY <1>1, <3>1, <3>2, <3>4, <4>1 DEF Unread
    <3>5. CASE /\ run.id # 0 /\ bucket'[n].boundary = run.id /\ bucket'[n].readAfter = 0
               /\ bucket[n].boundary # run.id
      <4>1. count[run.id] = 0
        BY <3>1, <3>5
      <4> QED BY <1>1, <3>2, <3>5, <4>1 DEF Unread
    <3> QED BY <2>1, <3>1, <3>3, <3>4, <3>5 DEF Rejoins
  <2> QED BY <2>3, <2>4, <2>5
<1> QED BY <1>3, <1>4 DEF ReadInv

\* Most steps only let notices leave, and bring none to a follow-up Run.
LEMMA LeavesReadInv ==
  ASSUME Inv, Inv', ReadInv, UNCHANGED runs, astray \subseteq astray', closed => closed',
         closed' => pc' \in {"none", "persist", "loading", "writing", "landing"},
         pc # "following" \/ awaited # run.id \/ closed',
         pc' \notin {"surface", "starting", "refused"}, Held' \subseteq Held,
         \A n \in Held' : /\ bucket'[n].boundary = bucket[n].boundary
                          /\ bucket'[n].readAfter = bucket[n].readAfter
                          /\ pc = "persist" /\ n \in batch => ~Sent(n) \/ closed'
  PROVE  ReadInv'
<1>1. ASSUME NEW n \in Notices PROVE Rejoins(n) /\ Surfaced(n)'
  BY DEF Rejoins, Surfaced, Sent
<1> QED BY <1>1, RejoinsReadInv

-----------------------------------------------------------------------------
(* The task collects, claims and starts *)

LEMMA BeginsReadInv == ASSUME Inv, Inv', ReadInv, Begins PROVE ReadInv'
<1>1. /\ pc \in {"scheduled", "backoff"} /\ LoopHead(bucket)
      /\ UNCHANGED <<bucket, future, lock, runs, closed, faults, stored, astray>>
  BY DEF Begins
<1>2. pc' \in {"none", "turn", "waiting"}
  BY <1>1, BucketTyped, LoopHeadTypes DEF Inv
<1>3. ~closed'
  BY <1>1 DEF ReadInv, Numbering
<1> QED BY <1>1, <1>2, <1>3, LeavesReadInv DEF Held

\* The loop takes to a follow-up Run what no Stop left behind.
LEMMA DecideReadInv ==
  ASSUME Inv, Inv', ReadInv, pc \in {"waiting", "turn"},
         UNCHANGED <<future, lock, runs, closed, faults, stored, astray>>,
         NEW b, IsBucket(b), DOMAIN b \subseteq Held,
         \A n \in DOMAIN b : /\ b[n].boundary = bucket[n].boundary
                             /\ b[n].readAfter = bucket[n].readAfter,
         NEW pending \in SUBSET DOMAIN b, Decide(b, pending),
         \A n \in pending : /\ run.id # 0 => bucket[n].boundary # run.id
                            /\ bucket[n].boundary \in stopped => b[n].suppress = TRUE
  PROVE  ReadInv'
<1> DEFINE quiet == {n \in pending : b[n].suppress \/ n \notin Waking}
<1>0. ~closed' /\ closed' = closed /\ UNCHANGED runs /\ astray \subseteq astray'
  BY DEF ReadInv, Numbering
<1>1. ASSUME bucket' = b
      PROVE  /\ Held' \subseteq Held
             /\ \A n \in Held' : /\ bucket'[n].boundary = bucket[n].boundary
                                 /\ bucket'[n].readAfter = bucket[n].readAfter
  BY <1>1 DEF Held
<1>2. CASE bucket' = b /\ LoopHead(b)
  <2>1. pc' \in {"none", "turn", "waiting"}
    BY <1>2, LoopHeadTypes
  <2> QED BY <1>0, <1>1, <1>2, <2>1, LeavesReadInv
<1>3. CASE bucket' = b /\ WaitsAt("persist", quiet)
  <2>1. pc' = "persist"
    BY <1>3 DEF WaitsAt
  <2> QED BY <1>0, <1>1, <1>3, <2>1, LeavesReadInv
<1>4. CASE run.id # 0 /\ bucket' = Join(b, pending, run.id) /\ LoopHead(bucket')
  <2>1. run.id \in Runs
    BY <1>4 DEF Inv, TypeOK, RunTypes
  <2> DEFINE c == Join(b, pending, run.id)
  <2>2. /\ IsBucket(c) /\ DOMAIN c = DOMAIN b
        /\ \A n \in DOMAIN b :
             /\ (c[n].readAfter = Unsent) <=> (b[n].readAfter = Unsent)
             /\ n \in pending => /\ c[n].boundary = run.id
                                 /\ b[n].readAfter # Unsent => c[n].readAfter = 0
             /\ n \notin pending => c[n] = b[n]
    BY <2>1, JoinKeeps
  <2>3. bucket' = c /\ LoopHead(c)
    BY <1>4 DEF LoopHead
  <2> HIDE DEF c
  <2>4. pc' \in {"none", "turn", "waiting"}
    BY <2>2, <2>3, LoopHeadTypes
  <2>5. ASSUME NEW n \in Notices PROVE Rejoins(n) /\ Surfaced(n)'
    <3>1. Surfaced(n)'
      BY <2>4 DEF Surfaced
    <3>2. ASSUME n \in Held' PROVE Rejoins(n)
      <4>1. n \in DOMAIN b /\ n \in Held
        BY <2>2, <2>3, <3>2 DEF Held
      <4>2. CASE n \in pending
        BY <1>4, <2>2, <2>3, <4>1, <4>2 DEF Rejoins, Sent
      <4>3. CASE n \notin pending
        BY <2>2, <2>3, <4>1, <4>3 DEF Rejoins, Sent
      <4> QED BY <4>2, <4>3
    <3> QED BY <3>1, <3>2 DEF Rejoins
  <2> QED BY <1>0, <2>4, <2>5, RejoinsReadInv
<1>5. CASE run.id = 0 /\ quiet = {} /\ bucket' = b /\ WaitsAt("surface", pending)
  <2>1. pc' = "surface" /\ batch' = pending
    BY <1>5 DEF WaitsAt
  <2>2. ASSUME NEW n \in Notices PROVE Rejoins(n) /\ Surfaced(n)'
    <3>1. Rejoins(n)
      BY <1>1, <1>5 DEF Rejoins, Sent
    <3>2. n \in pending => b[n].suppress = FALSE
      <4>1. n \in pending => b[n] \in Fields
        BY DEF IsBucket
      <4>2. n \in pending => b[n].suppress \in BOOLEAN
        BY <4>1 DEF Fields
      <4>3. n \in pending => ~b[n].suppress
        BY <1>5
      <4> QED BY <4>2, <4>3
    <3>3. run' = run /\ stopped' = stopped
      BY DEF runs
    <3> QED BY <1>5, <2>1, <3>1, <3>2, <3>3 DEF Surfaced
  <2> QED BY <1>0, <2>1, <2>2, RejoinsReadInv
<1> QED BY <1>2, <1>3, <1>4, <1>5 DEF Decide

LEMMA BoundaryRunOverReadInv == ASSUME Inv, Inv', ReadInv, BoundaryRunOver PROVE ReadInv'
<1> DEFINE joined == {n \in Held : bucket[n].boundary = awaited}
<1> DEFINE read == {n \in joined : Read(n)}
<1> DEFINE b == IF awaited \in stopped THEN Suppress(bucket, joined) ELSE bucket
<1>1. /\ pc = "waiting" /\ run.id # awaited /\ Decide(Without(b, read), joined \ read)
      /\ UNCHANGED <<future, lock, runs, closed, faults, stored, astray>>
  BY DEF BoundaryRunOver
<1>2. joined \subseteq Held /\ \A n \in joined : bucket[n].boundary = awaited
  OBVIOUS
<1>3. /\ IsBucket(b) /\ DOMAIN b = Held
      /\ \A n \in Held : /\ b[n].readAfter = bucket[n].readAfter
                         /\ b[n].boundary = bucket[n].boundary
                         /\ n \in joined /\ awaited \in stopped => b[n].suppress = TRUE
  <2>1. IsBucket(bucket)
    BY BucketTyped DEF Inv
  <2> HIDE DEF joined
  <2> QED BY <2>1, SuppressKeeps DEF Held
<1> HIDE DEF read, b, joined
<1> DEFINE c == Without(b, read)
<1>4. IsBucket(c) /\ DOMAIN c = Held \ read /\ \A n \in Held \ read : c[n] = b[n]
  BY <1>3, WithoutKeeps
<1>5. Decide(c, joined \ read)
  BY <1>1
<1> HIDE DEF c
<1>6. joined \ read \in SUBSET DOMAIN c
  BY <1>2, <1>4
<1>7. \A n \in DOMAIN c : /\ c[n].boundary = bucket[n].boundary
                          /\ c[n].readAfter = bucket[n].readAfter
  BY <1>3, <1>4
<1>8. \A n \in joined \ read : /\ run.id # 0 => bucket[n].boundary # run.id
                               /\ bucket[n].boundary \in stopped => c[n].suppress = TRUE
  BY <1>1, <1>2, <1>3, <1>4
<1> QED BY <1>1, <1>4, <1>5, <1>6, <1>7, <1>8, DecideReadInv

LEMMA CollectsReadInv == ASSUME Inv, Inv', ReadInv, Collects PROVE ReadInv'
<1> DEFINE idle == {n \in Held : bucket[n].boundary = 0}
<1>1. /\ pc = "turn" /\ UNCHANGED <<future, lock, runs, closed, faults, stored, astray>>
      /\ IF run.id # 0 THEN bucket' = Join(bucket, idle, run.id) /\ LoopHead(bucket')
                       ELSE Decide(bucket, idle)
  BY DEF Collects
<1>2. IsBucket(bucket) /\ idle \in SUBSET Held /\ \A n \in idle : bucket[n].boundary = 0
  BY BucketTyped DEF Inv
<1>3. ~closed /\ 0 \notin stopped
  BY <1>1 DEF ReadInv, Numbering
<1> HIDE DEF idle
<1>4. CASE run.id = 0
  <2>1. Decide(bucket, idle) /\ idle \in SUBSET DOMAIN bucket /\ DOMAIN bucket \subseteq Held
    BY <1>1, <1>2, <1>4 DEF Held
  <2>2. \A n \in idle : /\ run.id # 0 => bucket[n].boundary # run.id
                        /\ bucket[n].boundary \in stopped => bucket[n].suppress = TRUE
    BY <1>2, <1>3, <1>4
  <2>3. \A n \in DOMAIN bucket : /\ bucket[n].boundary = bucket[n].boundary
                                /\ bucket[n].readAfter = bucket[n].readAfter
    OBVIOUS
  <2> QED BY <1>1, <1>2, <2>1, <2>2, <2>3, DecideReadInv
<1>5. CASE run.id # 0
  <2>1. run.id \in Runs
    BY <1>5 DEF Inv, TypeOK, RunTypes
  <2> DEFINE c == Join(bucket, idle, run.id)
  <2>2. /\ IsBucket(c) /\ DOMAIN c = Held
        /\ \A n \in Held :
             /\ (c[n].readAfter = Unsent) <=> (bucket[n].readAfter = Unsent)
             /\ n \in idle => /\ c[n].boundary = run.id
                              /\ bucket[n].readAfter # Unsent => c[n].readAfter = 0
             /\ n \notin idle => c[n] = bucket[n]
    BY <1>2, <2>1, JoinKeeps DEF Held
  <2>3. bucket' = c /\ LoopHead(c)
    BY <1>1, <1>5 DEF LoopHead
  <2> HIDE DEF c
  <2>4. pc' \in {"none", "turn", "waiting"}
    BY <2>2, <2>3, LoopHeadTypes
  <2>5. ASSUME NEW n \in Notices PROVE Rejoins(n) /\ Surfaced(n)'
    <3>1. Surfaced(n)'
      BY <2>4 DEF Surfaced
    <3>2. ASSUME n \in Held' PROVE Rejoins(n)
      <4>1. n \in Held
        BY <2>2, <2>3, <3>2 DEF Held
      <4>2. CASE n \in idle
        BY <1>1, <1>2, <1>5, <2>2, <2>3, <4>1, <4>2 DEF Rejoins, Sent
      <4>3. CASE n \notin idle
        BY <1>1, <2>2, <2>3, <4>1, <4>3 DEF Rejoins, Sent
      <4> QED BY <4>2, <4>3
    <3> QED BY <3>1, <3>2 DEF Rejoins
  <2> QED BY <1>1, <1>3, <2>4, <2>5, RejoinsReadInv
<1> QED BY <1>4, <1>5

\* The message is built from what is still held; only its last moment counts.
LEMMA ClaimsReadInv == ASSUME Inv, Inv', ReadInv, Claims PROVE ReadInv'
<1> DEFINE pending == batch \cap Held
<1>1. /\ pc = "surface" /\ UNCHANGED <<future, lock, runs, closed, faults, stored, astray>>
      /\ IF pending = {} THEN LoopHead(bucket) /\ UNCHANGED bucket
         ELSE /\ bucket' = Claim(bucket, pending)
              /\ pc' = "starting" /\ batch' = pending /\ UNCHANGED awaited
              /\ message' = {n \in pending : bucket[n].readAfter = Unsent}
  BY DEF Claims
<1>2. IsBucket(bucket) /\ ~closed /\ closed' = closed
  BY <1>1, BucketTyped DEF Inv, ReadInv, Numbering
<1>3. pending \subseteq batch /\ pending \subseteq Held
  OBVIOUS
<1>4. CASE pending = {}
  <2>1. LoopHead(bucket) /\ bucket' = bucket
    BY <1>1, <1>4
  <2>2. pc' \in {"none", "turn", "waiting"}
    BY <1>2, <2>1, LoopHeadTypes
  <2>3. Held' \subseteq Held
    BY <2>1 DEF Held
  <2> QED BY <1>1, <1>2, <2>1, <2>2, <2>3, LeavesReadInv
<1>5. CASE pending # {}
  <2>1. /\ bucket' = Claim(bucket, pending) /\ pc' = "starting" /\ batch' = pending
        /\ message' = {n \in pending : bucket[n].readAfter = Unsent}
    BY <1>1, <1>5
  <2> HIDE DEF pending
  <2> DEFINE c == Claim(bucket, pending)
  <2>2. /\ IsBucket(c) /\ DOMAIN c = Held
        /\ \A n \in Held : /\ c[n].readAfter = bucket[n].readAfter
                           /\ c[n].boundary = bucket[n].boundary
                           /\ c[n].suppress = bucket[n].suppress
    BY <1>2, ClaimKeeps DEF Held
  <2>3. bucket' = c
    BY <2>1
  <2> HIDE DEF c
  <2>4. Held' = Held
    BY <2>2, <2>3 DEF Held
  <2>5. ASSUME NEW n \in Notices PROVE Rejoins(n) /\ Surfaced(n)'
    <3>1. Rejoins(n)
      BY <1>1, <2>2, <2>3, <2>4 DEF Rejoins, Sent
    <3>2. Surfaced(n) /\ run' = run /\ stopped' = stopped /\ astray' = astray
      BY <1>1 DEF ReadInv, runs
    <3>3. n \in pending => n \in Held' /\ (n \notin message' => Sent(n)')
      BY <1>3, <2>1, <2>2, <2>3, <2>4 DEF Sent
    <3>4. Surfaced(n)'
      BY <1>1, <1>3, <2>1, <2>2, <2>3, <2>4, <3>2, <3>3 DEF Surfaced
    <3> QED BY <3>1, <3>4
  <2> QED BY <1>1, <1>2, <2>1, <2>5, RejoinsReadInv
<1> QED BY <1>4, <1>5

\* Nobody is to be read by the Run that starts, and it has answered nothing.
LEMMA NewRunReadInv ==
  ASSUME Inv, Inv', ReadInv, run.id = 0, started + 1 \in Runs, run'.id = started + 1,
         started' = started + 1,
         UNCHANGED <<bucket, count, stopped, seen, closed, astray>>,
         \/ run'.at = "ready" /\ UNCHANGED task
         \/ /\ run'.at = "admitted" /\ pc = "starting" /\ pc' = "following"
            /\ awaited' = started + 1
  PROVE  ReadInv'
<1>1. started \in Nat /\ started + 1 > started /\ started + 1 # 0
  BY RunsTyped DEF Inv, TypeOK, RunTypes
<1>2. Held' = Held /\ \A n \in Notices : Sent(n)' <=> Sent(n)
  BY DEF Held, Sent
<1>3. \A n \in Held : bucket[n].boundary \in Nat
  BY RunsTyped DEF Inv, TypeOK, NoticeTypes, Fields
<1>4. Numbering'
  <2>1. \A r \in Runs : r > started' => count'[r] = 0
    BY <1>1, RunsTyped DEF ReadInv, Numbering
  <2>2. run'.id =< started' /\ run'.id \notin stopped' /\ \A r \in stopped' : r \in 1..started'
    BY <1>1 DEF ReadInv, Numbering
  <2> QED BY <2>1, <2>2 DEF ReadInv, Numbering, task
<1>5. ASSUME NEW n \in Notices PROVE Joined(n)' /\ Unread(n)' /\ Detached(n)' /\ Surfaced(n)'
  <2>1. Joined(n) /\ Unread(n) /\ Detached(n) /\ Surfaced(n) /\ Numbering
    BY DEF ReadInv
  <2>2. Joined(n)'
    BY <1>1, <1>2, <1>3, <2>1 DEF Joined
  <2>3. count'[run'.id] = 0
    BY <1>1, <2>1 DEF Numbering
  <2>4. Unread(n)'
    BY <1>2, <2>1, <2>3 DEF Unread
  <2>5. Detached(n)'
    BY <1>2, <2>1 DEF Detached, task
  <2>6. Surfaced(n)'
    BY <1>1, <1>2, <1>3, <2>1 DEF Surfaced, Joined, task
  <2> QED BY <2>2, <2>4, <2>5, <2>6
<1> QED BY <1>4, <1>5 DEF ReadInv

LEMMA RunStartsReadInv == ASSUME Inv, Inv', ReadInv, RunStarts PROVE ReadInv'
<1>1. run' = [id |-> started + 1, at |-> "ready", carries |-> {}, bodies |-> {}]
  BY DEF RunStarts, NoRun
<1>2. /\ run.id = 0 /\ started' = started + 1
      /\ UNCHANGED <<bucket, task, count, stopped, seen, closed, astray>>
  BY DEF RunStarts
<1>3. run'.id \in Runs \cup {0} /\ started \in Nat
  BY RunsTyped DEF Inv, TypeOK, RunTypes
<1>4. started + 1 \in Runs
  BY <1>1, <1>3
<1>5. run'.id = started + 1 /\ run'.at = "ready"
  BY <1>1
<1> QED BY <1>2, <1>4, <1>5, NewRunReadInv

LEMMA FollowUpStartsReadInv == ASSUME Inv, Inv', ReadInv, FollowUpStarts PROVE ReadInv'
<1>1. run' = [id |-> started + 1, at |-> "admitted", carries |-> batch, bodies |-> message]
  BY DEF FollowUpStarts
<1>2. /\ run.id = 0 /\ started' = started + 1 /\ pc = "starting" /\ pc' = "following"
      /\ awaited' = started + 1 /\ UNCHANGED <<bucket, count, stopped, seen, closed, astray>>
  BY DEF FollowUpStarts
<1>3. run'.id \in Runs \cup {0} /\ started \in Nat
  BY RunsTyped DEF Inv, TypeOK, RunTypes
<1>4. started + 1 \in Runs
  BY <1>1, <1>3
<1>5. run'.id = started + 1 /\ run'.at = "admitted"
  BY <1>1
<1> QED BY <1>2, <1>4, <1>5, NewRunReadInv

\* The Run that refused takes over what it is not to read yet.
LEMMA StartRefusedReadInv == ASSUME Inv, Inv', ReadInv, StartRefused PROVE ReadInv'
<1>1. /\ pc = "starting" /\ pc' = "refused"
      /\ UNCHANGED <<bucket, future, batch, awaited, lock, runs, closed, faults, stored, astray>>
  BY DEF StartRefused
<1>2. ~closed' /\ closed' = closed
  BY <1>1 DEF ReadInv, Numbering
<1>3. ASSUME NEW n \in Notices PROVE Rejoins(n) /\ Surfaced(n)'
  <2>1. Surfaced(n)
    BY DEF ReadInv
  <2>2. Rejoins(n)
    BY <1>1 DEF Rejoins, Held, Sent
  <2>3. Surfaced(n)'
    BY <1>1, <2>1 DEF Surfaced, Held, runs
  <2> QED BY <2>2, <2>3
<1> QED BY <1>1, <1>2, <1>3, RejoinsReadInv

LEMMA RefusedJoinsReadInv ==
  ASSUME Inv, Inv', ReadInv, Refused, run.id # 0 PROVE ReadInv'
<1> DEFINE b == Release(bucket, batch)
<1> DEFINE c == Join(b, batch, run.id)
<1>1. /\ pc = "refused" /\ run.id # 0 /\ bucket' = c /\ LoopHead(c)
      /\ UNCHANGED <<future, lock, runs, closed, faults, stored, astray>>
  BY DEF Refused, LoopHead
<1>2. /\ IsBucket(b) /\ DOMAIN b = Held
      /\ \A n \in Held : /\ b[n].readAfter = bucket[n].readAfter
                         /\ b[n].boundary = bucket[n].boundary
  BY Released
<1> HIDE DEF b
<1>3. /\ IsBucket(c) /\ DOMAIN c = Held
      /\ \A n \in Held :
           /\ (c[n].readAfter = Unsent) <=> (b[n].readAfter = Unsent)
           /\ n \in batch => /\ c[n].boundary = run.id
                             /\ b[n].readAfter # Unsent => c[n].readAfter = 0
           /\ n \notin batch => c[n] = b[n]
  <2>1. run.id \in Runs
    BY <1>1 DEF Inv, TypeOK, RunTypes
  <2> QED BY <1>2, <2>1, JoinKeeps
<1> HIDE DEF c
<1>4. pc' \in {"none", "turn", "waiting"}
  BY <1>1, <1>3, LoopHeadTypes
<1>5. ~closed' /\ closed' = closed
  BY <1>1 DEF ReadInv, Numbering
<1>6. ASSUME NEW n \in Notices PROVE Rejoins(n) /\ Surfaced(n)'
  <2>1. Surfaced(n)' /\ Surfaced(n)
    BY <1>4 DEF Surfaced, ReadInv
  <2>2. ASSUME n \in Held' PROVE Rejoins(n)
    <3>1. n \in Held
      BY <1>1, <1>3, <2>2 DEF Held
    <3>2. CASE n \in batch
      <4>1. n \in astray \/ bucket[n].boundary # run.id
        BY <1>1, <2>1, <3>1, <3>2 DEF Surfaced
      <4> QED BY <1>1, <1>2, <1>3, <3>1, <3>2, <4>1 DEF Rejoins, Sent
    <3>3. CASE n \notin batch
      BY <1>1, <1>2, <1>3, <3>1, <3>3 DEF Rejoins, Sent
    <3> QED BY <3>2, <3>3
  <2> QED BY <2>1, <2>2 DEF Rejoins
<1> QED BY <1>1, <1>4, <1>5, <1>6, RejoinsReadInv

LEMMA RefusedWaitsReadInv ==
  ASSUME Inv, Inv', ReadInv, Refused, run.id = 0 PROVE ReadInv'
<1> DEFINE b == Release(bucket, batch)
<1>1. /\ pc = "refused" /\ bucket' = b /\ pc' = "backoff"
      /\ UNCHANGED <<future, lock, runs, closed, stored, astray>>
  BY DEF Refused, WaitsAt
<1>2. /\ IsBucket(b) /\ DOMAIN b = Held
      /\ \A n \in Held : /\ b[n].readAfter = bucket[n].readAfter
                         /\ b[n].boundary = bucket[n].boundary
  BY Released
<1> HIDE DEF b
<1>3. ~closed' /\ closed' = closed
  BY <1>1 DEF ReadInv, Numbering
<1>4. /\ Held' \subseteq Held
      /\ \A n \in Held' : /\ bucket'[n].boundary = bucket[n].boundary
                          /\ bucket'[n].readAfter = bucket[n].readAfter
  BY <1>1, <1>2 DEF Held
<1> QED BY <1>1, <1>3, <1>4, LeavesReadInv

LEMMA StartBlockedReadInv == ASSUME Inv, Inv', ReadInv, StartBlocked PROVE ReadInv'
<1> DEFINE b == Release(bucket, batch)
<1>1. /\ pc = "starting" /\ bucket' = b /\ pc' = "backoff"
      /\ UNCHANGED <<future, lock, runs, closed, stored, astray>>
  BY DEF StartBlocked, WaitsAt
<1>2. /\ IsBucket(b) /\ DOMAIN b = Held
      /\ \A n \in Held : /\ b[n].readAfter = bucket[n].readAfter
                         /\ b[n].boundary = bucket[n].boundary
  BY Released
<1> HIDE DEF b
<1>3. ~closed' /\ closed' = closed
  BY <1>1 DEF ReadInv, Numbering
<1>4. /\ Held' \subseteq Held
      /\ \A n \in Held' : /\ bucket'[n].boundary = bucket[n].boundary
                          /\ bucket'[n].readAfter = bucket[n].readAfter
  BY <1>1, <1>2 DEF Held
<1> QED BY <1>1, <1>3, <1>4, LeavesReadInv

\* What the failed start leaves has no Run from now on.
LEMMA StartFailsReadInv == ASSUME Inv, Inv', ReadInv, StartFails PROVE ReadInv'
<1> DEFINE b == Release(bucket, batch)
<1> DEFINE c == Detach(b, batch)
<1> DEFINE pending == batch \cap Held
<1>1. /\ pc = "starting" /\ bucket' = c /\ Fault
      /\ IF pending = {} THEN LoopHead(bucket') ELSE WaitsAt("persist", pending)
      /\ UNCHANGED <<future, lock, runs, closed, stored, astray>>
  BY DEF StartFails
<1>2. /\ IsBucket(b) /\ DOMAIN b = Held
      /\ \A n \in Held : /\ b[n].readAfter = bucket[n].readAfter
                         /\ b[n].boundary = bucket[n].boundary
  BY Released
<1> HIDE DEF b
<1>3. /\ IsBucket(c) /\ DOMAIN c = Held
      /\ \A n \in Held : /\ c[n].readAfter = b[n].readAfter
                         /\ n \in batch => c[n].boundary = 0
                         /\ n \notin batch => c[n].boundary = b[n].boundary
  BY <1>2, DetachKeeps
<1> HIDE DEF c
<1>4. /\ pc' \in {"none", "turn", "waiting", "persist"}
      /\ pending # {} => pc' = "persist" /\ batch' = pending
  <2>1. CASE pending = {}
    <3>1. LoopHead(c)
      BY <1>1, <2>1 DEF LoopHead
    <3> QED BY <1>3, <2>1, <3>1, LoopHeadTypes
  <2>2. CASE pending # {}
    BY <1>1, <2>2 DEF WaitsAt
  <2> QED BY <2>1, <2>2
<1>5. ~closed' /\ closed' = closed
  BY <1>1 DEF ReadInv, Numbering
<1>6. ASSUME NEW n \in Notices PROVE Rejoins(n) /\ Surfaced(n)'
  <2>1. Surfaced(n)'
    BY <1>4 DEF Surfaced
  <2>2. ASSUME n \in Held' PROVE Rejoins(n)
    <3>1. n \in Held
      BY <1>1, <1>3, <2>2 DEF Held
    <3>2. CASE n \in batch
      <4>1. pc' = "persist" /\ n \in batch'
        BY <1>4, <3>1, <3>2
      <4> QED BY <1>1, <1>2, <1>3, <3>1, <3>2, <4>1 DEF Rejoins, Sent
    <3>3. CASE n \notin batch
      BY <1>1, <1>2, <1>3, <3>1, <3>3 DEF Rejoins, Sent
    <3> QED BY <3>2, <3>3
  <2> QED BY <2>1, <2>2 DEF Rejoins
<1>7. pc' \notin {"surface", "starting", "refused"} /\ pc # "following"
  BY <1>1, <1>4
<1> QED BY <1>1, <1>5, <1>6, <1>7, RejoinsReadInv

LEMMA FollowUpOverReadInv == ASSUME Inv, Inv', ReadInv, FollowUpOver PROVE ReadInv'
<1> DEFINE there == {n \in batch \cap Held : bucket[n].readAfter # Unsent}
<1> DEFINE undelivered == {n \in batch : future'[n] = "pending"}
<1> DEFINE b == Without(bucket, there)
<1> DEFINE c == Release(b, undelivered)
<1> DEFINE d == Suppress(c, undelivered)
<1>1. /\ pc = "following" /\ run.id # awaited /\ bucket' = d
      /\ IF undelivered = {} THEN LoopHead(bucket') ELSE WaitsAt("persist", undelivered)
      /\ UNCHANGED <<lock, runs, closed, faults, stored, astray>>
  BY DEF FollowUpOver
<1> HIDE DEF there, undelivered
<1>2. IsBucket(b) /\ DOMAIN b = Held \ there /\ \A n \in Held \ there : b[n] = bucket[n]
  BY BucketTyped, WithoutKeeps DEF Inv, Held
<1> HIDE DEF b
<1>3. /\ IsBucket(c) /\ DOMAIN c = DOMAIN b
      /\ \A n \in DOMAIN b : /\ c[n].readAfter = b[n].readAfter
                             /\ c[n].boundary = b[n].boundary
  BY <1>2, ReleaseKeeps
<1> HIDE DEF c
<1>4. /\ IsBucket(d) /\ DOMAIN d = DOMAIN c
      /\ \A n \in DOMAIN c : /\ d[n].readAfter = c[n].readAfter
                             /\ d[n].boundary = c[n].boundary
  BY <1>3, SuppressKeeps
<1> HIDE DEF d
<1>5. pc' \in {"none", "turn", "waiting", "persist"}
  <2>1. CASE undelivered = {}
    <3>1. LoopHead(d)
      BY <1>1, <2>1 DEF LoopHead
    <3>2. IsBucket(d)
      BY <1>4
    <3> QED BY <3>1, <3>2, LoopHeadTypes
  <2>2. CASE undelivered # {}
    BY <1>1, <2>2 DEF WaitsAt
  <2> QED BY <2>1, <2>2
<1>6. ~closed' /\ closed' = closed
  BY <1>1 DEF ReadInv, Numbering
<1>7. /\ Held' \subseteq Held
      /\ \A n \in Held' : /\ bucket'[n].boundary = bucket[n].boundary
                          /\ bucket'[n].readAfter = bucket[n].readAfter
  BY <1>1, <1>2, <1>3, <1>4 DEF Held
<1>8. pc' \notin {"surface", "starting", "refused"} /\ pc # "persist" /\ awaited # run.id
  BY <1>1, <1>5
<1> QED BY <1>1, <1>6, <1>7, <1>8, LeavesReadInv

-----------------------------------------------------------------------------
(* The task writes a reminder, the service closes, producers *)

\* What is in the Session leaves with the lock.
LEMMA PersistLocksReadInv == ASSUME Inv, Inv', ReadInv, PersistLocks PROVE ReadInv'
<1> DEFINE there == {n \in batch \cap Held : bucket[n].readAfter # Unsent}
<1> DEFINE b == Without(bucket, there)
<1> DEFINE f == Confirmed(there)
<1>1. /\ pc = "persist" /\ UNCHANGED <<runs, closed, faults, stored, astray>>
      /\ IF batch \cap Held = there THEN Settled(b, f) /\ UNCHANGED lock
         ELSE bucket' = b /\ pc' = "loading"
  BY DEF PersistLocks
<1>2. \A n \in batch \cap Held : n \notin there => ~Sent(n)
  BY DEF Sent
<1>3. IsBucket(b) /\ DOMAIN b = Held \ there /\ \A n \in Held \ there : b[n] = bucket[n]
  BY BucketTyped, WithoutKeeps DEF Inv, Held
<1>4. f \in [Notices -> Futures]
  BY ConfirmedKeeps DEF Inv
<1> HIDE DEF there, b, f
<1>5. /\ pc' \in {"none", "turn", "waiting", "loading"}
      /\ closed => pc' \in {"none", "loading"}
      /\ Held' \subseteq DOMAIN b /\ \A n \in Held' : bucket'[n] = b[n]
  <2>1. CASE batch \cap Held = there
    <3>1. Settled(b, f)
      BY <1>1, <2>1
    <3> QED BY <1>3, <1>4, <3>1, SettledKeeps
  <2>2. CASE batch \cap Held # there
    BY <1>1, <2>2 DEF Held
  <2> QED BY <2>1, <2>2
<1>6. /\ Held' \subseteq Held
      /\ \A n \in Held' : /\ bucket'[n].boundary = bucket[n].boundary
                          /\ bucket'[n].readAfter = bucket[n].readAfter
                          /\ n \in batch => ~Sent(n)
  BY <1>2, <1>3, <1>5
<1> QED BY <1>1, <1>5, <1>6, LeavesReadInv

LEMMA LoadsReadInv == ASSUME Inv, Inv', ReadInv, Loads PROVE ReadInv'
<1> DEFINE pending == batch \cap Held
<1> DEFINE b == Claim(bucket, pending)
<1>1. /\ pc = "loading" /\ UNCHANGED <<runs, closed, faults, stored, astray>>
      /\ IF pending = {} THEN Settled(bucket, future) ELSE bucket' = b /\ pc' = "writing"
  BY DEF Loads
<1>2. IsBucket(bucket) /\ future \in [Notices -> Futures]
  BY BucketTyped DEF Inv, TypeOK, NoticeTypes, Futures
<1> HIDE DEF pending
<1>3. /\ IsBucket(b) /\ DOMAIN b = Held
      /\ \A n \in Held : /\ b[n].readAfter = bucket[n].readAfter
                         /\ b[n].boundary = bucket[n].boundary
  BY <1>2, ClaimKeeps DEF Held
<1> HIDE DEF b
<1>4. /\ pc' \in {"none", "turn", "waiting", "writing"}
      /\ closed => pc' \in {"none", "writing"}
      /\ Held' \subseteq Held
      /\ \A n \in Held' : /\ bucket'[n].boundary = bucket[n].boundary
                          /\ bucket'[n].readAfter = bucket[n].readAfter
  <2>1. CASE pending = {}
    <3>1. Settled(bucket, future)
      BY <1>1, <2>1
    <3> QED BY <1>2, <3>1, SettledKeeps DEF Held
  <2>2. CASE pending # {}
    BY <1>1, <1>3, <2>2 DEF Held
  <2> QED BY <2>1, <2>2
<1> QED BY <1>1, <1>4, LeavesReadInv

LEMMA PersistFailsReadInv == ASSUME Inv, Inv', ReadInv, PersistFails PROVE ReadInv'
<1> DEFINE b == IF pc = "writing" THEN Release(bucket, batch) ELSE bucket
<1>1. /\ pc \in {"loading", "writing"} /\ UNCHANGED <<runs, closed, stored, astray>>
      /\ IF closed THEN Settled(b, future) ELSE bucket' = b /\ pc' = "retry"
  BY DEF PersistFails
<1>2. /\ IsBucket(b) /\ DOMAIN b = Held
      /\ \A n \in Held : /\ b[n].readAfter = bucket[n].readAfter
                         /\ b[n].boundary = bucket[n].boundary
  BY BucketTyped, Released DEF Inv, Held
<1>3. future \in [Notices -> Futures]
  BY DEF Inv, TypeOK, NoticeTypes, Futures
<1> HIDE DEF b
<1>4. /\ pc' \in {"none", "turn", "waiting", "retry"} /\ (closed => pc' = "none")
      /\ Held' \subseteq Held /\ \A n \in Held' : bucket'[n] = b[n]
  <2>1. CASE closed
    <3>1. Settled(b, future)
      BY <1>1, <2>1
    <3> QED BY <1>2, <1>3, <3>1, SettledKeeps
  <2>2. CASE ~closed
    BY <1>1, <1>2, <2>2 DEF Held
  <2> QED BY <2>1, <2>2
<1>5. \A n \in Held' : /\ bucket'[n].boundary = bucket[n].boundary
                       /\ bucket'[n].readAfter = bucket[n].readAfter
  BY <1>2, <1>4
<1> QED BY <1>1, <1>4, <1>5, LeavesReadInv

LEMMA RetriesReadInv == ASSUME Inv, Inv', ReadInv, Retries PROVE ReadInv'
<1>1. /\ pc = "retry" /\ pc' = "persist" /\ UNCHANGED <<runs, closed, astray>>
      /\ bucket' = bucket /\ Held' = Held
  BY DEF Retries, Held
<1> QED BY <1>1, LeavesReadInv

LEMMA WritesReadInv == ASSUME Inv, Inv', ReadInv, Writes PROVE ReadInv'
<1> DEFINE b == Without(bucket, batch)
<1> DEFINE f == Confirmed(batch \cap Held)
<1>1. pc = "writing" /\ Settled(b, f) /\ UNCHANGED <<runs, closed, faults, astray>>
  BY DEF Writes
<1>2. IsBucket(b) /\ DOMAIN b = Held \ batch /\ \A n \in Held \ batch : b[n] = bucket[n]
  BY BucketTyped, WithoutKeeps DEF Inv, Held
<1>3. f \in [Notices -> Futures]
  BY ConfirmedKeeps DEF Inv
<1> HIDE DEF b, f
<1>4. /\ pc' \in {"none", "turn", "waiting"} /\ (closed => pc' = "none")
      /\ Held' \subseteq DOMAIN b /\ \A n \in Held' : bucket'[n] = b[n]
  BY <1>1, <1>2, <1>3, SettledKeeps
<1>5. /\ Held' \subseteq Held
      /\ \A n \in Held' : /\ bucket'[n].boundary = bucket[n].boundary
                          /\ bucket'[n].readAfter = bucket[n].readAfter
  BY <1>2, <1>4
<1> QED BY <1>1, <1>4, <1>5, LeavesReadInv

LEMMA LandsReadInv == ASSUME Inv, Inv', ReadInv, Lands \/ LandingFails PROVE ReadInv'
<1> DEFINE b == Without(bucket, batch)
<1> DEFINE c == Release(bucket, batch)
<1>1. /\ pc = "landing" /\ (bucket' = b \/ bucket' = c) /\ UNCHANGED <<runs, closed, astray>>
      /\ pc' \in {"none", "persist"}
  BY DEF Lands, LandingFails, PersistRest, WaitsAt
<1>2. IsBucket(b) /\ DOMAIN b = Held \ batch /\ \A n \in Held \ batch : b[n] = bucket[n]
  BY BucketTyped, WithoutKeeps DEF Inv, Held
<1>3. /\ IsBucket(c) /\ DOMAIN c = Held
      /\ \A n \in Held : /\ c[n].readAfter = bucket[n].readAfter
                         /\ c[n].boundary = bucket[n].boundary
  BY Released
<1> HIDE DEF b, c
<1>4. /\ Held' \subseteq Held
      /\ \A n \in Held' : /\ bucket'[n].boundary = bucket[n].boundary
                          /\ bucket'[n].readAfter = bucket[n].readAfter
  BY <1>1, <1>2, <1>3 DEF Held
<1> QED BY <1>1, <1>4, LeavesReadInv

LEMMA CloseReadInv == ASSUME Inv, Inv', ReadInv, Close PROVE ReadInv'
<1>1. /\ closed' = TRUE /\ pc' \in {"landing", "none", "persist"} /\ UNCHANGED runs
      /\ bucket' = bucket /\ Held' = Held /\ astray \subseteq astray'
  BY DEF Close, PersistRest, WaitsAt, Held
<1> QED BY <1>1, LeavesReadInv

\* A new result is for the active Run.
LEMMA SubmitReadInv ==
  ASSUME Inv, Inv', ReadInv, NEW k \in Notices, NEW fromStopped \in BOOLEAN,
         Submit(k, fromStopped)
  PROVE  ReadInv'
<1> DEFINE r == 1 + Cardinality({m \in Notices : future[m] # "new"})
<1> DEFINE fields == [rank |-> r, boundary |-> run.id, suppress |-> fromStopped,
                      readAfter |-> Unsent, claimed |-> FALSE]
<1>1. /\ future[k] = "new"
      /\ UNCHANGED <<batch, message, awaited, lock, runs, closed, faults, stored, astray>>
      /\ IF closed
         THEN UNCHANGED <<bucket, pc>>
         ELSE /\ bucket' = [m \in Held \cup {k} |-> IF m # k THEN bucket[m] ELSE fields]
              /\ pc' = IF pc = "none" THEN "scheduled" ELSE pc
  BY DEF Submit
<1>2. fields.readAfter = Unsent /\ fields.boundary = run.id
  OBVIOUS
<1> HIDE DEF fields
<1>3. k \notin Held /\ k \notin batch
  BY <1>1 DEF Inv, NoticeInv, Known
<1>4. /\ Held \subseteq Held' /\ Held' \subseteq Held \cup {k}
      /\ \A n \in Held : bucket'[n] = bucket[n]
      /\ k \in Held' => ~Sent(k)' /\ bucket'[k].boundary = run.id
  <2>1. CASE closed
    BY <1>1, <1>3, <2>1 DEF Held
  <2>2. CASE ~closed
    <3>1. bucket' = [m \in Held \cup {k} |-> IF m # k THEN bucket[m] ELSE fields]
      BY <1>1, <2>2
    <3> QED BY <1>2, <1>3, <3>1 DEF Held, Sent
  <2> QED BY <2>1, <2>2
<1>5. pc' = pc \/ (~closed /\ pc = "none" /\ pc' = "scheduled")
  BY <1>1
<1>6. ASSUME NEW n \in Notices PROVE Rejoins(n) /\ Surfaced(n)'
  <2>1. Surfaced(n) /\ run' = run /\ stopped' = stopped /\ UNCHANGED <<batch, message, astray>>
    BY <1>1 DEF ReadInv, runs
  <2>2. CASE n = k
    BY <1>3, <1>4, <2>1, <2>2 DEF Rejoins, Surfaced
  <2>3. CASE n # k
    <3>1. /\ n \in Held' <=> n \in Held
          /\ n \in Held => bucket'[n] = bucket[n] /\ (Sent(n)' <=> Sent(n))
      BY <1>4, <2>3 DEF Sent
    <3>2. Rejoins(n)
      BY <1>1, <1>5, <3>1 DEF Rejoins
    <3>3. Surfaced(n)'
      BY <1>5, <2>1, <3>1 DEF Surfaced
    <3> QED BY <3>2, <3>3
  <2> QED BY <2>2, <2>3
<1>7. closed' => pc' \in {"none", "persist", "loading", "writing", "landing"}
  BY <1>1, <1>5 DEF ReadInv, Numbering
<1> QED BY <1>1, <1>5, <1>6, <1>7, RejoinsReadInv

\* What a follow-up Run is about to carry was claimed, or is in the Session.
LEMMA WithdrawReadInv == ASSUME Inv, Inv', ReadInv, NEW k \in Notices, Withdraw(k) PROVE ReadInv'
<1> DEFINE b == Without(bucket, {k})
<1>1. /\ k \in Held /\ ~bucket[k].claimed /\ ~Sent(k) /\ bucket' = b
      /\ UNCHANGED <<task, lock, runs, closed, faults, stored, astray>>
  BY DEF Withdraw, Sent
<1>2. IsBucket(b) /\ DOMAIN b = Held \ {k} /\ \A n \in Held \ {k} : b[n] = bucket[n]
  BY BucketTyped, WithoutKeeps DEF Inv, Held
<1> HIDE DEF b
<1>3. Held' = Held \ {k} /\ \A n \in Held' : bucket'[n] = bucket[n] /\ (Sent(n)' <=> Sent(n))
  BY <1>1, <1>2 DEF Held, Sent
<1>4. UNCHANGED <<pc, batch, message, awaited>>
  BY <1>1 DEF task
<1>5. ASSUME NEW n \in Notices PROVE Rejoins(n) /\ Surfaced(n)'
  <2>1. /\ Surfaced(n) /\ NoticeInv(n) /\ run' = run /\ stopped' = stopped /\ astray' = astray
    BY <1>1 DEF ReadInv, Inv, runs
  <2>2. Rejoins(n)
    BY <1>1, <1>3, <1>4 DEF Rejoins
  <2>3. CASE n = k
    <3>1. ~(pc = "starting" /\ n \in batch \ astray)
      BY <1>1, <2>1, <2>3 DEF Surfaced, NoticeInv, FollowUpCarries, Carries
    <3> QED BY <1>3, <1>4, <2>1, <2>2, <2>3, <3>1 DEF Surfaced
  <2>4. CASE n # k
    <3>1. (n \in Held' <=> n \in Held) /\ (n \in Held' => bucket'[n] = bucket[n])
      BY <1>3, <2>4
    <3>2. Surfaced(n)'
      BY <1>3, <1>4, <2>1, <3>1 DEF Surfaced
    <3> QED BY <2>2, <3>2
  <2> QED BY <2>3, <2>4
<1>6. closed' => pc' \in {"none", "persist", "loading", "writing", "landing"}
  BY <1>1, <1>4 DEF ReadInv, Numbering
<1> QED BY <1>1, <1>4, <1>5, <1>6, RejoinsReadInv

-----------------------------------------------------------------------------
(* The Run takes, asks and answers *)

\* A Run that answered no request since it took n has not read it.
LEMMA BoundaryReadInv == ASSUME Inv, Inv', ReadInv, Boundary PROVE ReadInv'
<1> DEFINE idle == {n \in Held : bucket[n].boundary = 0}
<1> DEFINE joined == IF closed THEN bucket ELSE Join(bucket, idle, run.id)
<1> DEFINE taken == {n \in Held : /\ ~closed /\ joined[n].boundary = run.id
                                 /\ ~joined[n].suppress /\ joined[n].readAfter = Unsent}
<1> DEFINE b == Claim(joined, taken)
<1>1. /\ run.id \in Runs /\ run.at = "ready"
      /\ UNCHANGED <<future, task, count, stopped, started, seen, closed, faults, stored>>
      /\ IF taken = {}
         THEN bucket' = joined /\ Asks(joined, stored) /\ UNCHANGED <<lock, astray>>
         ELSE /\ bucket' = b /\ astray' = Astray(taken)
              /\ run' = [run EXCEPT !.at = "appending", !.carries = taken, !.bodies = taken]
              /\ lock' = "run" /\ UNCHANGED shown
  BY DEF Boundary, Inv, LockInv, TypeOK, RunTypes
<1>2. IsBucket(bucket) /\ DOMAIN bucket = Held /\ \A n \in Held : bucket[n] \in Fields
  BY BucketTyped DEF Inv, Held, IsBucket
<1>3. \A n \in Held : n \in idle <=> bucket[n].boundary = 0
  OBVIOUS
<1> HIDE DEF idle
<1>4. /\ IsBucket(joined) /\ DOMAIN joined = Held
      /\ \A n \in Held :
           \/ (closed \/ n \notin idle) /\ joined[n] = bucket[n]
           \/ /\ ~closed /\ n \in idle /\ joined[n].boundary = run.id
              /\ (joined[n].readAfter = Unsent) <=> (bucket[n].readAfter = Unsent)
              /\ bucket[n].readAfter # Unsent => joined[n].readAfter = 0
  <2>1. CASE closed
    BY <1>2, <2>1
  <2>2. CASE ~closed
    BY <1>1, <1>2, <2>2, JoinKeeps
  <2> QED BY <2>1, <2>2
<1> HIDE DEF joined
<1>5. /\ taken \subseteq Held
      /\ \A n \in Held :
           n \in taken <=> /\ ~closed /\ joined[n].boundary = run.id
                          /\ ~joined[n].suppress /\ joined[n].readAfter = Unsent
  OBVIOUS
<1> HIDE DEF taken
<1>6. /\ DOMAIN b = Held
      /\ \A n \in Held : /\ b[n].readAfter = joined[n].readAfter
                         /\ b[n].boundary = joined[n].boundary
                         /\ b[n].suppress = joined[n].suppress
  <2>1. IsBucket(joined)
    BY <1>4
  <2>2. /\ DOMAIN b = DOMAIN joined
        /\ \A n \in DOMAIN joined : /\ b[n].readAfter = joined[n].readAfter
                                   /\ b[n].boundary = joined[n].boundary
                                   /\ b[n].suppress = joined[n].suppress
    BY <2>1, ClaimKeeps
  <2>3. DOMAIN joined = Held
    BY <1>4
  <2> QED BY <2>2, <2>3
<1> HIDE DEF b
<1>7. /\ Held' = Held
      /\ \A n \in Held : /\ bucket'[n].readAfter = joined[n].readAfter
                         /\ bucket'[n].boundary = joined[n].boundary
                         /\ bucket'[n].suppress = joined[n].suppress
  BY <1>1, <1>4, <1>6 DEF Held
<1>8. /\ run'.id = run.id /\ astray \subseteq astray'
      /\ \/ /\ taken = {} /\ run'.at = "asking"
            /\ shown' = {n \in Held : stored[n] > 0}
         \/ run'.at = "appending" /\ run'.bodies = taken /\ astray' = Astray(taken)
  <2>1. CASE taken = {}
    <3>1. run' = [run EXCEPT !.at = "asking", !.carries = {}, !.bodies = {}]
      BY <1>1, <2>1 DEF Asks
    <3>2. run'.id = run.id /\ run'.at = "asking"
      BY <3>1 DEF Inv, TypeOK, RunTypes
    <3> QED BY <1>1, <1>4, <2>1, <3>2 DEF Asks
  <2>2. CASE taken # {}
    <3>1. run' = [run EXCEPT !.at = "appending", !.carries = taken, !.bodies = taken]
      BY <1>1, <2>2
    <3>2. run'.id = run.id /\ run'.at = "appending" /\ run'.bodies = taken
      BY <3>1 DEF Inv, TypeOK, RunTypes
    <3> QED BY <1>1, <2>2, <3>2 DEF Astray
  <2> QED BY <2>1, <2>2
<1>9. Numbering'
  BY <1>1, <1>8 DEF ReadInv, Numbering, task
<1>10. /\ UNCHANGED <<pc, batch, message, stopped, count, started, closed, seen>>
       /\ run.id # 0 /\ run.id =< started
  BY <1>1, RunsTyped DEF task, ReadInv, Numbering
<1>11. ASSUME NEW n \in Notices PROVE Joined(n)' /\ Unread(n)' /\ Detached(n)' /\ Surfaced(n)'
  <2>1. Joined(n) /\ Unread(n) /\ Detached(n) /\ Surfaced(n) /\ NoticeInv(n) /\ Numbering
    BY DEF ReadInv, Inv
  <2>2. n \in Held => (Sent(n)' <=> Sent(n))
    BY <1>4, <1>7 DEF Sent
  <2>3. Joined(n)'
    BY <1>3, <1>4, <1>5, <1>7, <1>8, <1>10, <2>1 DEF Joined
  <2>4. Detached(n)'
    BY <1>3, <1>4, <1>7, <1>8, <1>10, <2>1, <2>2 DEF Detached
  <2>5. Unread(n)'
    <3> SUFFICES ASSUME n \in Held', Sent(n)', n \notin seen' \cup astray' PROVE Unread(n)'
      BY DEF Unread
    <3>1. /\ n \in Held /\ Sent(n) /\ n \notin seen \cup astray /\ stored[n] > 0
          /\ bucket[n].boundary # run.id => count[run.id] = 0
          /\ bucket[n].boundary # 0 => count[bucket[n].boundary] =< bucket[n].readAfter
      BY <1>7, <1>8, <1>10, <2>1, <2>2 DEF Unread, NoticeInv, Known
    <3>2. run'.at = "asking" => n \in shown'
      BY <1>8, <3>1
    <3>3. CASE joined[n] = bucket[n]
      BY <1>7, <1>8, <1>10, <3>1, <3>2, <3>3 DEF Unread
    <3>4. CASE n \in idle /\ joined[n].boundary = run.id
      <4>1. joined[n].readAfter = 0 \/ joined[n] = bucket[n]
        BY <1>4, <3>1 DEF Sent
      <4>2. count[run.id] = 0
        BY <1>3, <1>10, <3>1, <3>4
      <4> QED BY <1>7, <1>8, <1>10, <3>1, <3>2, <3>3, <3>4, <4>1, <4>2 DEF Unread
    <3> QED BY <1>4, <3>1, <3>3, <3>4
  <2>6. Surfaced(n)'
    <3> SUFFICES ASSUME pc \in {"surface", "starting", "refused"}, n \in batch \ astray', n \in Held
                 PROVE  /\ bucket'[n].suppress = FALSE /\ bucket'[n].boundary \notin stopped
                        /\ bucket'[n].boundary # run.id
      BY <1>7, <1>8, <1>10, <2>1, <2>2 DEF Surfaced
    <3>1. /\ bucket[n].suppress = FALSE /\ bucket[n].boundary \notin stopped
          /\ bucket[n].boundary # run.id /\ n \notin astray /\ ~closed
      BY <1>8, <1>10, <2>1 DEF Surfaced, Numbering
    <3>2. n \notin taken
      BY <1>8 DEF Astray
    <3>3. n \notin idle
      <4> SUFFICES ASSUME n \in idle PROVE FALSE
        OBVIOUS
      <4>1. ~Sent(n)
        BY <1>3, <2>1, <3>1 DEF Detached
      <4>2. joined[n].boundary = run.id /\ joined[n].readAfter = Unsent
        BY <1>4, <3>1, <4>1 DEF Sent
      <4>3. joined[n].suppress = FALSE
        BY <1>1, <1>2, <3>1 DEF joined, Join, Fields
      <4> QED BY <1>5, <3>1, <3>2, <4>2, <4>3
    <3> QED BY <1>4, <1>7, <3>1, <3>3
  <2> QED BY <2>3, <2>4, <2>5, <2>6
<1> QED BY <1>9, <1>11 DEF ReadInv

\* A Run that goes on takes nothing out of the task's hands.
LEMMA SameRunReadInv ==
  ASSUME Inv, ReadInv, run.id # 0, run'.id = run.id,
         run'.at \in {"input", "failed", "cut", "last", "ready", "asking"},
         run'.at \in {"input", "failed", "cut", "last"} =>
           run.at \in {"admitted", "input", "failed", "cut"},
         UNCHANGED <<task, stopped, started, closed, astray>>, Held' \subseteq Held,
         \A r \in Runs : r > started => count'[r] = count[r],
         \A n \in Held' : /\ bucket'[n].boundary = bucket[n].boundary
                          /\ bucket'[n].suppress = bucket[n].suppress
                          /\ n \notin astray /\ Sent(n)' => Sent(n) \/ bucket[n].boundary # 0,
         \A n \in Notices :
           /\ Unread(n)'
           /\ pc \in {"surface", "starting", "refused"} /\ n \in batch \ astray /\ n \in Held =>
                n \in Held' /\ (Sent(n) => Sent(n)')
  PROVE  ReadInv'
<1>1. UNCHANGED <<pc, batch, message, awaited>>
  BY DEF task
<1>2. Numbering'
  BY <1>1 DEF ReadInv, Numbering
<1>3. ASSUME NEW n \in Notices PROVE Joined(n)' /\ Detached(n)' /\ Surfaced(n)'
  <2>1. Joined(n) /\ Detached(n) /\ Surfaced(n)
    BY DEF ReadInv
  <2>2. Joined(n)'
    BY <2>1 DEF Joined
  <2>3. Detached(n)'
    BY <1>1, <2>1 DEF Detached
  <2>4. Surfaced(n)'
    BY <1>1, <2>1 DEF Surfaced
  <2> QED BY <2>2, <2>3, <2>4
<1> QED BY <1>2, <1>3 DEF ReadInv

\* The request has everything that is in the Session.
LEMMA BoundaryStoresReadInv == ASSUME Inv, Inv', ReadInv, BoundaryStores PROVE ReadInv'
<1> DEFINE S == run.carries
<1> DEFINE b == Carried(bucket, S, count[run.id])
<1> DEFINE c == Without(b, S \ Waking)
<1>1. /\ run.at = "appending" /\ bucket' = c
      /\ run' = [run EXCEPT !.at = "asking", !.carries = {}, !.bodies = {}]
      /\ shown' = {n \in Held' : stored'[n] > 0}
      /\ UNCHANGED <<task, count, stopped, started, seen, closed, faults, astray>>
  BY DEF BoundaryStores, Asks, Held
<1>2. run.id # 0 /\ run.bodies = S /\ run.id \in Runs /\ count[run.id] \in Nat
  BY <1>1 DEF Inv, LockInv, TypeOK, RunTypes
<1>3. run'.at = "asking" /\ run'.id = run.id
  BY <1>1 DEF Inv, TypeOK, RunTypes
<1> HIDE DEF S
<1>4. /\ IsBucket(b) /\ DOMAIN b = Held
      /\ \A n \in Held :
           /\ b[n].readAfter = IF n \in S THEN count[run.id] ELSE bucket[n].readAfter
           /\ b[n].boundary = bucket[n].boundary /\ b[n].suppress = bucket[n].suppress
  BY <1>2, BucketTyped, CarriedKeeps DEF Inv, Held
<1> HIDE DEF b
<1>5. /\ IsBucket(c) /\ DOMAIN c = Held \ (S \ Waking)
      /\ \A n \in Held \ (S \ Waking) : c[n] = b[n]
  <2>1. IsBucket(b) /\ DOMAIN b = Held
    BY <1>4
  <2> QED BY <2>1, WithoutKeeps
<1> HIDE DEF c
<1>6. /\ Held' = Held \ (S \ Waking)
      /\ \A n \in Held' :
           /\ bucket'[n].boundary = bucket[n].boundary
           /\ bucket'[n].suppress = bucket[n].suppress
           /\ bucket'[n].readAfter = IF n \in S THEN count[run.id] ELSE bucket[n].readAfter
  BY <1>1, <1>4, <1>5 DEF Held
<1>7. ASSUME NEW n \in Notices
      PROVE  /\ Unread(n)'
             /\ n \in S \ astray => bucket[n].boundary = run.id
             /\ pc \in {"surface", "starting", "refused"} /\ n \in batch \ astray => n \notin S
  <2>1. Joined(n) /\ Unread(n) /\ NoticeInv(n) /\ NoticeInv(n)'
    BY DEF ReadInv, Inv
  <2>2. n \in S \ astray => bucket[n].boundary = run.id
    BY <1>1, <1>2, <2>1 DEF Joined
  <2>3. Unread(n)'
    <3> SUFFICES ASSUME n \in Held', Sent(n)', n \notin seen' \cup astray' PROVE Unread(n)'
      BY DEF Unread
    <3>1. n \in shown'
      BY <1>1, <2>1 DEF NoticeInv, Known
    <3>2. CASE n \in S
      BY <1>1, <1>2, <1>3, <1>6, <2>2, <3>1, <3>2 DEF Unread
    <3>3. CASE n \notin S
      <4>1. Sent(n) /\ n \in Held /\ n \notin seen \cup astray
        BY <1>1, <1>6, <3>3 DEF Sent
      <4> QED BY <1>1, <1>3, <1>6, <2>1, <3>1, <3>3, <4>1 DEF Unread
    <3> QED BY <3>2, <3>3
  <2>4. pc \in {"surface", "starting", "refused"} /\ n \in batch \ astray => n \notin S
    BY <1>1, <1>2, <2>1 DEF NoticeInv, RequestCarries, FollowsUp
  <2> QED BY <2>2, <2>3, <2>4
<1>8. \A n \in Held' : /\ bucket'[n].boundary = bucket[n].boundary
                       /\ bucket'[n].suppress = bucket[n].suppress
                       /\ n \notin astray /\ Sent(n)' => Sent(n) \/ bucket[n].boundary # 0
  <2>1. Held' \subseteq Notices
    BY DEF Inv, TypeOK, NoticeTypes
  <2> QED BY <1>2, <1>6, <1>7, <2>1 DEF Sent
<1>9. \A n \in Notices :
        /\ Unread(n)'
        /\ pc \in {"surface", "starting", "refused"} /\ n \in batch \ astray /\ n \in Held =>
             n \in Held' /\ (Sent(n) => Sent(n)')
  BY <1>6, <1>7 DEF Sent
<1> QED BY <1>1, <1>2, <1>3, <1>6, <1>8, <1>9, SameRunReadInv

LEMMA BoundaryFailsReadInv == ASSUME Inv, Inv', ReadInv, BoundaryFails PROVE ReadInv'
<1> DEFINE b == Release(bucket, run.carries)
<1>1. /\ run.at = "appending" /\ bucket' = b
      /\ run' = [run EXCEPT !.at = "asking", !.carries = {}, !.bodies = {}]
      /\ shown' = {n \in Held : stored[n] > 0}
      /\ UNCHANGED <<task, count, stopped, started, seen, closed, stored, astray>>
  BY DEF BoundaryFails, Asks, Held
<1>2. run.id # 0
  BY <1>1 DEF Inv, LockInv
<1>3. run'.at = "asking" /\ run'.id = run.id
  BY <1>1 DEF Inv, TypeOK, RunTypes
<1>4. /\ DOMAIN b = Held
      /\ \A n \in Held : /\ b[n].readAfter = bucket[n].readAfter
                         /\ b[n].boundary = bucket[n].boundary
                         /\ b[n].suppress = bucket[n].suppress
  BY BucketTyped, ReleaseKeeps DEF Inv, Held
<1> HIDE DEF b
<1>5. /\ Held' = Held
      /\ \A n \in Held : /\ bucket'[n].readAfter = bucket[n].readAfter
                         /\ bucket'[n].boundary = bucket[n].boundary
                         /\ bucket'[n].suppress = bucket[n].suppress
                         /\ Sent(n)' <=> Sent(n)
  BY <1>1, <1>4 DEF Held, Sent
<1>6. ASSUME NEW n \in Notices PROVE Unread(n)'
  <2>1. Unread(n) /\ NoticeInv(n)
    BY DEF ReadInv, Inv
  <2>2. n \in Held /\ Sent(n) => n \in shown'
    BY <1>1, <1>4, <2>1 DEF NoticeInv, Known
  <2> QED BY <1>1, <1>3, <1>5, <2>1, <2>2 DEF Unread
<1> QED BY <1>1, <1>2, <1>3, <1>5, <1>6, SameRunReadInv

\* What the request had is seen from now on.
LEMMA AnswersReadInv == ASSUME Inv, Inv', ReadInv, Answers PROVE ReadInv'
<1>1. /\ run.at = "asking" /\ run' = [run EXCEPT !.at = "ready"]
      /\ count' = [count EXCEPT ![run.id] = @ + 1] /\ seen' = seen \cup shown
      /\ UNCHANGED <<bucket, task, stopped, started, closed, stored, astray>>
  BY DEF Answers
<1>2. run.id # 0 /\ run.id =< started
  BY <1>1 DEF Inv, LockInv, ReadInv, Numbering
<1>3. run'.at = "ready" /\ run'.id = run.id
  BY <1>1 DEF Inv, TypeOK, RunTypes
<1>4. Held' = Held /\ \A n \in Notices : Sent(n)' <=> Sent(n)
  BY <1>1 DEF Held, Sent
<1>5. \A r \in Runs : r > started => count'[r] = count[r]
  BY <1>1, <1>2, RunsTyped DEF Inv, TypeOK, RunTypes
<1>6. ASSUME NEW n \in Notices PROVE Unread(n)'
  <2>1. Unread(n)
    BY DEF ReadInv
  <2> QED BY <1>1, <1>4, <2>1 DEF Unread
<1>7. \A n \in Held' : n \in Notices
  BY <1>4 DEF Inv, TypeOK, NoticeTypes
<1> QED BY <1>1, <1>2, <1>3, <1>4, <1>5, <1>6, <1>7, SameRunReadInv

LEMMA InputMovesReadInv ==
  ASSUME Inv, Inv', ReadInv, InputBegins \/ InputUndone \/ NotesUndone PROVE ReadInv'
<1>1. PICK place \in {"input", "failed", "cut", "last"} :
        /\ run.at \in {"admitted", "input", "failed", "cut"}
        /\ run' = [run EXCEPT !.at = place]
        /\ UNCHANGED <<bucket, task, count, seen, stopped, started, closed, astray>>
  BY DEF InputBegins, InputUndone, NotesUndone
<1>2. run.id # 0
  BY <1>1 DEF Inv, LockInv
<1>3. run'.at = place /\ run'.id = run.id
  BY <1>1 DEF Inv, TypeOK, RunTypes
<1>4. Held' = Held /\ \A n \in Notices : Sent(n)' <=> Sent(n)
  BY <1>1 DEF Held, Sent
<1>5. ASSUME NEW n \in Notices PROVE Unread(n)'
  <2>1. Unread(n)
    BY DEF ReadInv
  <2> QED BY <1>1, <1>3, <1>4, <2>1 DEF Unread
<1>6. \A n \in Held' : n \in Notices
  BY <1>4 DEF Inv, TypeOK, NoticeTypes
<1> QED BY <1>1, <1>2, <1>3, <1>4, <1>5, <1>6, SameRunReadInv

LEMMA InputStoresReadInv == ASSUME Inv, Inv', ReadInv, InputStores PROVE ReadInv'
<1> DEFINE b == Without(bucket, run.carries)
<1>1. /\ run.at = "input" /\ bucket' = b
      /\ run' = [run EXCEPT !.at = "ready", !.carries = {}, !.bodies = {}]
      /\ UNCHANGED <<task, count, stopped, started, seen, closed, astray>>
  BY DEF InputStores
<1>2. run.id # 0 /\ pc \notin {"surface", "starting", "refused"}
  BY <1>1 DEF Inv, LockInv, ReadInv, Numbering
<1>3. run'.at = "ready" /\ run'.id = run.id
  BY <1>1 DEF Inv, TypeOK, RunTypes
<1>4. /\ DOMAIN b = Held \ run.carries
      /\ \A n \in Held \ run.carries : b[n] = bucket[n]
  BY BucketTyped, WithoutKeeps DEF Inv, Held
<1> HIDE DEF b
<1>5. Held' \subseteq Held /\ \A n \in Held' : bucket'[n] = bucket[n] /\ (Sent(n)' <=> Sent(n))
  BY <1>1, <1>4 DEF Held, Sent
<1>6. ASSUME NEW n \in Notices PROVE Unread(n)'
  <2>1. Unread(n)
    BY DEF ReadInv
  <2> QED BY <1>1, <1>3, <1>5, <2>1 DEF Unread
<1> QED BY <1>1, <1>2, <1>3, <1>5, <1>6, SameRunReadInv

\* When a Run ends, or is stopped, the task is about to carry nothing of it.
LEMMA EndsReadInv ==
  ASSUME Inv, ReadInv, run.id # 0, NEW byUser \in BOOLEAN, Ends(byUser),
         UNCHANGED <<bucket, task, count, started, seen, closed>>, astray \subseteq astray'
  PROVE  ReadInv'
<1>1. /\ run'.id = 0 /\ run'.at = "none"
      /\ stopped' = IF byUser THEN stopped \cup {run.id} ELSE stopped
  BY DEF Ends, NoRun
<1>2. UNCHANGED <<pc, batch, message, awaited>>
  BY DEF task
<1>3. Held' = Held /\ \A n \in Notices : Sent(n)' <=> Sent(n)
  BY DEF Held, Sent
<1>4. run.id \in Nat /\ started \in Nat
  BY RunsTyped DEF Inv, TypeOK, RunTypes
<1>5. Numbering'
  BY <1>1, <1>2, <1>4 DEF ReadInv, Numbering
<1>6. ASSUME NEW n \in Notices PROVE Joined(n)' /\ Unread(n)' /\ Detached(n)' /\ Surfaced(n)'
  <2>1. Joined(n) /\ Unread(n) /\ Detached(n) /\ Surfaced(n)
    BY DEF ReadInv
  <2>2. Joined(n)' /\ Unread(n)' /\ Detached(n)'
    BY <1>1, <1>2, <1>3, <2>1 DEF Joined, Unread, Detached
  <2>3. Surfaced(n)'
    BY <1>1, <1>2, <1>3, <2>1 DEF Surfaced
  <2> QED BY <2>2, <2>3
<1> QED BY <1>5, <1>6 DEF ReadInv

LEMMA RunEndsReadInv ==
  ASSUME Inv, ReadInv, NEW byUser \in BOOLEAN,
         RunEnds(byUser) \/ InputCutOff(byUser) \/ NotesKept(byUser) \/ NotesLost(byUser)
  PROVE  ReadInv'
<1>1. /\ run.at # "none" /\ Ends(byUser) /\ astray \subseteq astray'
      /\ UNCHANGED <<bucket, task, count, started, seen, closed>>
  BY DEF RunEnds, InputCutOff, NotesKept, NotesLost
<1>2. run.id # 0
  BY <1>1 DEF Inv, LockInv
<1> QED BY <1>1, <1>2, EndsReadInv

-----------------------------------------------------------------------------
(* Theorems on reading and stopping *)

LEMMA InitReadInv == Init => ReadInv
<1> SUFFICES ASSUME Init PROVE ReadInv
  OBVIOUS
<1>1. /\ Held = {} /\ run.id = 0 /\ run.at = "none" /\ pc = "none" /\ stopped = {}
      /\ started = 0 /\ count = [r \in Runs |-> 0] /\ closed = FALSE
  BY DEF Init, Held, NoRun
<1>2. Numbering
  BY <1>1 DEF Numbering
<1> QED BY <1>1, <1>2 DEF ReadInv, Joined, Unread, Detached, Surfaced

LEMMA UnchangedReadInv == ASSUME ReadInv, UNCHANGED vars PROVE ReadInv'
<1>1. /\ UNCHANGED <<bucket, pc, batch, message, awaited, run, count, stopped, started, shown,
                     seen, closed, astray>>
      /\ Held' = Held /\ \A n \in Notices : Sent(n)' <=> Sent(n)
  BY DEF vars, task, runs, Held, Sent
<1>2. Numbering'
  BY <1>1 DEF ReadInv, Numbering
<1>3. ASSUME NEW n \in Notices PROVE Joined(n)' /\ Unread(n)' /\ Detached(n)' /\ Surfaced(n)'
  <2>1. Joined(n) /\ Unread(n) /\ Detached(n) /\ Surfaced(n)
    BY DEF ReadInv
  <2> QED BY <1>1, <2>1 DEF Joined, Unread, Detached, Surfaced
<1> QED BY <1>2, <1>3 DEF ReadInv

\* Which Run is to read a result, what the answered requests had of it, and
\* what a Stop leaves behind agree.
THEOREM ReadingInvariant == Spec => []ReadInv
<1>1. Inv /\ Inv' /\ ReadInv /\ [Next]_vars => ReadInv'
  <2> SUFFICES ASSUME Inv, Inv', ReadInv, [Next]_vars PROVE ReadInv'
    OBVIOUS
  <2>1. CASE Producer
    BY <2>1, SubmitReadInv, WithdrawReadInv DEF Producer
  <2>2. CASE RunStarts
    BY <2>2, RunStartsReadInv
  <2>3. CASE RunStep
    BY <2>3, BoundaryReadInv, BoundaryStoresReadInv, BoundaryFailsReadInv, AnswersReadInv,
       InputMovesReadInv, InputStoresReadInv, RunEndsReadInv DEF RunStep
  <2>4. CASE TaskStep
    BY <2>4, BeginsReadInv, BoundaryRunOverReadInv, CollectsReadInv, ClaimsReadInv,
       FollowUpStartsReadInv, StartRefusedReadInv, RefusedJoinsReadInv, RefusedWaitsReadInv,
       StartBlockedReadInv, StartFailsReadInv, FollowUpOverReadInv, PersistLocksReadInv,
       LoadsReadInv, PersistFailsReadInv, RetriesReadInv, WritesReadInv, LandsReadInv DEF TaskStep
  <2>5. CASE Close
    BY <2>5, CloseReadInv
  <2>6. CASE UNCHANGED vars
    BY <2>6, UnchangedReadInv
  <2> QED BY <2>1, <2>2, <2>3, <2>4, <2>5, <2>6 DEF Next
<1> QED BY <1>1, InitReadInv, DeliveryInvariant, PTL DEF Spec

\* A result that delivery drops as read was in a request that the Model
\* answered: no count of answered requests is taken for another one.
THEOREM ReadResultsWereAnswered == Spec => []ReadWasAnswered
<1>1. Inv /\ ReadInv => ReadWasAnswered
  <2> SUFFICES ASSUME Inv, ReadInv, NEW n \in Held, Read(n) PROVE n \in seen \/ n \in astray
    BY DEF ReadWasAnswered
  <2>1. n \in Notices /\ bucket[n] \in Fields
    BY DEF Inv, TypeOK, NoticeTypes
  <2>2. Unread(n) /\ Sent(n) /\ bucket[n].boundary # 0
    BY <2>1 DEF ReadInv, Read, Sent
  <2>3. bucket[n].boundary \in Runs /\ bucket[n].readAfter \in Nat
    BY <2>1, <2>2 DEF Fields, Sent
  <2>4. count[bucket[n].boundary] \in Nat /\ count[bucket[n].boundary] > bucket[n].readAfter
    BY <2>3 DEF Inv, TypeOK, RunTypes, Read
  <2> QED BY <2>2, <2>3, <2>4 DEF Unread
<1> QED BY <1>1, ReadingInvariant, DeliveryInvariant, PTL

\* A Stop is final for what the stopped Run was to read: no follow-up Run is
\* started to deliver it, however long it waited in the meantime.
THEOREM StoppedWorkWakesNobody == Spec => StopWakesNobody
<1>1. Inv /\ ReadInv =>
        (FollowUpStarts => \A n \in batch \ astray :
           bucket[n].boundary \notin stopped /\ ~bucket[n].suppress)
  <2> SUFFICES ASSUME Inv, ReadInv, FollowUpStarts, NEW n \in batch \ astray
               PROVE  bucket[n].boundary \notin stopped /\ ~bucket[n].suppress
    OBVIOUS
  <2>1. n \in Notices
    BY DEF Inv, TypeOK, TaskTypes
  <2>2. pc = "starting" /\ Surfaced(n)
    BY <2>1 DEF FollowUpStarts, ReadInv
  <2> QED BY <2>2 DEF Surfaced
<1> QED BY <1>1, ReadingInvariant, DeliveryInvariant, PTL DEF StopWakesNobody
=============================================================================
