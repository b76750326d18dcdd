-------------------------- MODULE EventStreamProofs --------------------------
(***************************************************************************)
(* Proofs about EventStream, for any number of subscribers and any limits: *)
(* the type invariant, that a subscriber in the live loop misses nothing,  *)
(* that a subscription which ends by itself saw the whole ending, that the *)
(* stream implements OrderedFeed and that its memory stays bounded.        *)
(***************************************************************************)
EXTENDS EventStream, TLAPS

-----------------------------------------------------------------------------
(* The inductive invariant *)

\* e is one of the elements of the sequence q.
In(e, q) == \E i \in 1..Len(q) : q[i] = e

\* Retention always holds the newest event, and only the newest is terminal.
RetentionInv ==
  /\ Last > 0 => lo =< Last
  /\ \A e \in 1..(Last - 1) : log[e].kind # "terminal"

\* The _Subscriber object follows the generator that owns it.
SlotInv ==
  \A s \in Subscribers :
    /\ pc[s] \in {"new", "replay"} => slot[s] = "none"
    /\ pc[s] \in {"rescan", "drained", "live"} => slot[s] # "none"
    /\ pc[s] = "ended" => slot[s] # "open"
    /\ pc[s] \in {"new", "replay", "rescan", "drained"} => catchingUp[s]
    /\ turn = s => pc[s] \in Walking \cup {"live"}

\* Only published events are walked or queued.
PublishedInv ==
  \A s \in Subscribers :
    /\ \A i \in 1..Len(todo[s]) : todo[s][i] \in 1..Last
    /\ \A i \in 1..Len(queue[s]) : queue[s][i] \in 1..Last

\* A catch-up round without a yield runs without interruption, so what it
\* found at its start is still everything there is when it ends.
RoundInv ==
  \A s \in Subscribers :
    ~progressed[s] /\ pc[s] \in {"rescan", "drained"} =>
      /\ turn = s
      /\ slot[s] = "open"
      /\ pc[s] = "rescan" =>
           \A e \in lo..Last : e > cursor[s] => In(e, todo[s])
      /\ pc[s] = "drained" => cursor[s] >= Last

\* Behind the catch-up every newer event waits in the live queue.
LiveInv ==
  \A s \in Subscribers :
    slot[s] = "open" /\ ~catchingUp[s] =>
      \A e \in 1..Last : e > cursor[s] => In(e, queue[s])

\* A replay of a settled stream still has the rest of the ending before it.
ReplayInv ==
  \A s \in Subscribers :
    /\ pc[s] # "new" /\ ~live[s] => Settled
    /\ pc[s] = "replay" /\ ~live[s] =>
         \A e \in lo..Last : e > cursor[s] => In(e, todo[s])
    /\ outcome[s] \in {"terminal", "replayed"} => Settled /\ cursor[s] >= Last
    /\ outcome[s] \in {"terminal", "replayed"} => pc[s] = "ended"

StreamInv ==
  /\ TypeOK /\ RetentionInv /\ SlotInv /\ PublishedInv
  /\ RoundInv /\ LiveInv /\ ReplayInv

-----------------------------------------------------------------------------
(* Facts about the sequences the stream walks *)

LEMMA TailFacts ==
  ASSUME NEW q \in Seq(Nat), q # <<>>
  PROVE  /\ Head(q) \in Nat /\ Head(q) = q[1]
         /\ Tail(q) \in Seq(Nat)
         /\ Len(q) \in Nat \ {0} /\ Len(Tail(q)) = Len(q) - 1
         /\ \A i \in 1..(Len(q) - 1) : Tail(q)[i] = q[i + 1]
  OBVIOUS

\* Taking the head off a sequence loses no other element.
LEMMA InTail ==
  ASSUME NEW q \in Seq(Nat), q # <<>>, NEW e \in Nat, In(e, q), e # Head(q)
  PROVE  In(e, Tail(q))
<1>1. PICK i \in 1..Len(q) : q[i] = e
  BY DEF In
<1>2. i # 1
  BY <1>1, TailFacts
<1>3. i - 1 \in 1..Len(Tail(q)) /\ Tail(q)[i - 1] = e
  BY <1>1, <1>2, TailFacts
<1> QED
  BY <1>3 DEF In

LEMMA AppendFacts ==
  ASSUME NEW q \in Seq(Nat), NEW e \in Nat
  PROVE  /\ Append(q, e) \in Seq(Nat)
         /\ Len(q) \in Nat /\ Len(Append(q, e)) = Len(q) + 1
         /\ \A i \in 1..Len(q) : Append(q, e)[i] = q[i]
         /\ Append(q, e)[Len(q) + 1] = e
         /\ In(e, Append(q, e))
         /\ \A x : In(x, q) => In(x, Append(q, e))
<1>1. /\ Append(q, e) \in Seq(Nat)
      /\ Len(q) \in Nat /\ Len(Append(q, e)) = Len(q) + 1
      /\ \A i \in 1..Len(q) : Append(q, e)[i] = q[i]
      /\ Append(q, e)[Len(q) + 1] = e
  OBVIOUS
<1>2. In(e, Append(q, e))
  BY <1>1 DEF In
<1>3. \A x : In(x, q) => In(x, Append(q, e))
  BY <1>1 DEF In
<1> QED
  BY <1>1, <1>2, <1>3

\* list(self._events) is the retained window, in order.
LEMMA SnapshotFacts ==
  ASSUME TypeOK
  PROVE  /\ Snapshot \in Seq(Nat)
         /\ \A i \in 1..Len(Snapshot) : Snapshot[i] \in 1..Last
         /\ \A e \in lo..Last : In(e, Snapshot)
<1>1. Last \in Nat /\ lo \in Nat /\ 1 =< lo /\ lo =< Last + 1
  BY DEF TypeOK, Last
<1>2. Last - lo + 1 \in Nat
  BY <1>1
<1>3. Snapshot \in Seq(Nat) /\ Len(Snapshot) = Last - lo + 1
  BY <1>1, <1>2 DEF Snapshot
<1>4. \A i \in 1..Len(Snapshot) : Snapshot[i] = lo + i - 1
  BY <1>3 DEF Snapshot
<1>5. ASSUME NEW e \in lo..Last PROVE In(e, Snapshot)
  <2>1. e - lo + 1 \in 1..Len(Snapshot) /\ Snapshot[e - lo + 1] = e
    BY <1>1, <1>3, <1>4
  <2> QED
    BY <2>1 DEF In
<1> QED
  BY <1>1, <1>3, <1>4, <1>5

-----------------------------------------------------------------------------
(* One lemma per step of the stream *)

LEMMA InitInv == Init => StreamInv
<1> SUFFICES ASSUME Init PROVE StreamInv
  OBVIOUS
<1> USE LimitAssumption, IdleAssumption
<1>1. TypeOK
  BY DEF Init, TypeOK, Last, Walking
<1>2. RetentionInv /\ SlotInv /\ PublishedInv /\ RoundInv /\ LiveInv /\ ReplayInv
  BY DEF Init, RetentionInv, SlotInv, PublishedInv, RoundInv, LiveInv, ReplayInv,
         Last, Settled, In, Walking
<1> QED
  BY <1>1, <1>2 DEF StreamInv

\* Ending a subscription preserves the invariant when a normal end saw the ending.
LEMMA FinishInv ==
  ASSUME StreamInv, NEW s \in Subscribers,
         NEW why \in {"terminal", "lagged", "closed", "replayed"},
         pc[s] \in Walking \cup {"live"},
         turn \in {Idle, s},
         why \in {"terminal", "replayed"} => Settled /\ cursor[s] >= Last,
         Finish(s, why)
  PROVE  StreamInv'
<1> USE LimitAssumption, IdleAssumption
<1>1. TypeOK'
  BY DEF StreamInv, Finish, TypeOK, Last, Walking, streamVars
<1>2. RetentionInv'
  BY DEF StreamInv, Finish, RetentionInv, Last, streamVars
<1>3. SlotInv'
  BY DEF StreamInv, Finish, TypeOK, SlotInv, Walking
<1>4. PublishedInv'
  BY DEF StreamInv, Finish, TypeOK, PublishedInv, Last, streamVars
<1>5. RoundInv'
  BY DEF StreamInv, Finish, TypeOK, RoundInv, Last, streamVars, In
<1>6. LiveInv'
  BY DEF StreamInv, Finish, TypeOK, LiveInv, Last, streamVars, In
<1>7. ReplayInv'
  BY DEF StreamInv, Finish, TypeOK, ReplayInv, Settled, Last, streamVars, In, Walking
<1> QED
  BY <1>1, <1>2, <1>3, <1>4, <1>5, <1>6, <1>7 DEF StreamInv

\* The first __anext__ snapshots the retained window.
LEMMA SubscribeInv ==
  ASSUME StreamInv, NEW s \in Subscribers, NEW after \in Nat, Subscribe(s, after)
  PROVE  StreamInv'
<1> USE LimitAssumption, IdleAssumption
<1> USE DEF StreamInv, streamVars, walkVars, slotVars, Subscribe
<1>1. TypeOK'
  BY SnapshotFacts DEF TypeOK, Walking, Last
<1>2. RetentionInv'
  BY DEF RetentionInv, Last
<1>3. SlotInv'
  BY DEF TypeOK, SlotInv, Walking
<1>4. PublishedInv'
  BY SnapshotFacts DEF TypeOK, PublishedInv, Last
<1>5. RoundInv'
  BY DEF TypeOK, RoundInv, Last
<1>6. LiveInv'
  BY DEF TypeOK, LiveInv, SlotInv, Last
<1>7. ReplayInv'
  BY SnapshotFacts DEF TypeOK, ReplayInv, Last, Settled, Walking
<1> QED
  BY <1>1, <1>2, <1>3, <1>4, <1>5, <1>6, <1>7

\* Continuing a generator changes nothing but the turn.
LEMMA ResumeInv ==
  ASSUME StreamInv, NEW s \in Subscribers, Resume(s)
  PROVE  StreamInv'
<1> USE LimitAssumption, IdleAssumption
<1> USE DEF StreamInv, streamVars, walkVars, slotVars, Resume
<1>1. TypeOK'
  BY DEF TypeOK, Walking, Last
<1>2. RetentionInv'
  BY DEF RetentionInv, Last
<1>3. SlotInv'
  BY DEF TypeOK, SlotInv, Walking
<1>4. PublishedInv'
  BY DEF TypeOK, PublishedInv, Last
<1>5. RoundInv'
  BY DEF TypeOK, RoundInv, Last
<1>6. LiveInv'
  BY DEF TypeOK, LiveInv, Last
<1>7. ReplayInv'
  BY DEF TypeOK, ReplayInv, Last, Settled, Walking
<1> QED
  BY <1>1, <1>2, <1>3, <1>4, <1>5, <1>6, <1>7

\* Looking at the next event takes exactly that event off its sequence.
LEMMA TakeNextFacts ==
  ASSUME StreamInv, NEW s \in Subscribers, Looking(s), TakeNext(s)
  PROVE  /\ Head(Source(s)) \in 1..Last
         /\ todo' \in [Subscribers -> Seq(Nat)]
         /\ queue' \in [Subscribers -> Seq(Nat)]
         /\ queuedBytes' \in [Subscribers -> Int]
         /\ \A r \in Subscribers :
              /\ \A i \in 1..Len(todo'[r]) : todo'[r][i] \in 1..Last
              /\ \A i \in 1..Len(queue'[r]) : queue'[r][i] \in 1..Last
              /\ r # s => todo'[r] = todo[r] /\ queue'[r] = queue[r]
         /\ pc[s] = "live" => todo' = todo
         /\ pc[s] # "live" => queue' = queue
         /\ \A e \in Nat : e # Head(Source(s)) =>
              /\ In(e, todo[s]) => In(e, todo'[s])
              /\ In(e, queue[s]) => In(e, queue'[s])
<1> USE DEF StreamInv
<1>1. CASE pc[s] = "live"
  <2> DEFINE q == queue[s]
  <2>1. q \in Seq(Nat) /\ q # <<>> /\ Source(s) = q
    BY <1>1 DEF Looking, Source, TypeOK
  <2>2. /\ queue' = [queue EXCEPT ![s] = Tail(q)] /\ todo' = todo
        /\ queuedBytes' = [queuedBytes EXCEPT ![s] = @ - log[Head(q)].size]
    BY <1>1 DEF TakeNext
  <2>3. /\ Head(q) = q[1] /\ Tail(q) \in Seq(Nat) /\ Len(q) \in Nat \ {0}
        /\ Len(Tail(q)) = Len(q) - 1
        /\ \A i \in 1..(Len(q) - 1) : Tail(q)[i] = q[i + 1]
    BY <2>1, TailFacts
  <2>4. \A i \in 1..Len(q) : q[i] \in 1..Last
    BY DEF PublishedInv
  <2> HIDE DEF q
  <2>5. Head(q) \in 1..Last /\ \A i \in 1..Len(Tail(q)) : Tail(q)[i] \in 1..Last
    BY <2>3, <2>4
  <2>6. log[Head(q)].size \in Int
    <3>1. log[Head(q)] \in Events
      BY <2>5 DEF TypeOK, Last
    <3>2. log[Head(q)].size \in Sizes
      BY <3>1 DEF Events
    <3>3. ASSUME NEW z \in Sizes PROVE z \in Int
      <4>1. Sizes \subseteq 0..ByteLimit /\ ByteLimit \in Nat
        BY LimitAssumption DEF LimitAssumption
      <4> QED
        BY <4>1
    <3> QED
      BY <3>2, <3>3
  <2>7. \A e \in Nat : e # Head(q) /\ In(e, q) => In(e, Tail(q))
    BY <2>1, InTail
  <2>8. queuedBytes' \in [Subscribers -> Int]
    BY <2>2, <2>6 DEF TypeOK
  <2>9. queue' \in [Subscribers -> Seq(Nat)] /\ todo' \in [Subscribers -> Seq(Nat)]
    BY <2>2, <2>3 DEF TypeOK
  <2>10. queue'[s] = Tail(q) /\ \A r \in Subscribers : r # s => queue'[r] = queue[r]
    BY <2>2 DEF TypeOK
  <2> QED
    BY <1>1, <2>1, <2>2, <2>5, <2>7, <2>8, <2>9, <2>10 DEF PublishedInv, q
<1>2. CASE pc[s] # "live"
  <2> DEFINE q == todo[s]
  <2>1. q \in Seq(Nat) /\ q # <<>> /\ Source(s) = q
    BY <1>2 DEF Looking, Source, TypeOK
  <2>2. /\ todo' = [todo EXCEPT ![s] = Tail(q)] /\ queue' = queue
        /\ queuedBytes' = queuedBytes
    BY <1>2 DEF TakeNext
  <2>3. /\ Head(q) = q[1] /\ Tail(q) \in Seq(Nat) /\ Len(q) \in Nat \ {0}
        /\ Len(Tail(q)) = Len(q) - 1
        /\ \A i \in 1..(Len(q) - 1) : Tail(q)[i] = q[i + 1]
    BY <2>1, TailFacts
  <2>4. \A i \in 1..Len(q) : q[i] \in 1..Last
    BY DEF PublishedInv
  <2> HIDE DEF q
  <2>5. Head(q) \in 1..Last /\ \A i \in 1..Len(Tail(q)) : Tail(q)[i] \in 1..Last
    BY <2>3, <2>4
  <2>7. \A e \in Nat : e # Head(q) /\ In(e, q) => In(e, Tail(q))
    BY <2>1, InTail
  <2>8. queuedBytes' \in [Subscribers -> Int]
    BY <2>2 DEF TypeOK
  <2>9. queue' \in [Subscribers -> Seq(Nat)] /\ todo' \in [Subscribers -> Seq(Nat)]
    BY <2>2, <2>3 DEF TypeOK
  <2>10. todo'[s] = Tail(q) /\ \A r \in Subscribers : r # s => todo'[r] = todo[r]
    BY <2>2 DEF TypeOK
  <2> QED
    BY <1>2, <2>1, <2>2, <2>5, <2>7, <2>8, <2>9, <2>10 DEF PublishedInv, q
<1> QED
  BY <1>1, <1>2

\* An event already delivered is skipped.
LEMMA SkipSeenInv ==
  ASSUME StreamInv, NEW s \in Subscribers, SkipSeen(s)
  PROVE  StreamInv'
<1> DEFINE h == Head(Source(s))
<1> USE LimitAssumption, IdleAssumption
<1> USE DEF StreamInv, streamVars, SkipSeen
<1>f. /\ h \in 1..Last
      /\ todo' \in [Subscribers -> Seq(Nat)]
      /\ queue' \in [Subscribers -> Seq(Nat)]
      /\ queuedBytes' \in [Subscribers -> Int]
      /\ \A r \in Subscribers :
           /\ \A i \in 1..Len(todo'[r]) : todo'[r][i] \in 1..Last
           /\ \A i \in 1..Len(queue'[r]) : queue'[r][i] \in 1..Last
           /\ r # s => todo'[r] = todo[r] /\ queue'[r] = queue[r]
  BY TakeNextFacts
<1>g. /\ pc[s] = "live" => todo' = todo
      /\ pc[s] # "live" => queue' = queue
      /\ \A e \in Nat : e # h =>
           /\ In(e, todo[s]) => In(e, todo'[s])
           /\ In(e, queue[s]) => In(e, queue'[s])
  BY TakeNextFacts
<1>p. turn = s /\ pc[s] \in Walking \cup {"live"} /\ Last' = Last /\ lo' = lo /\ log' = log
  BY DEF Looking, Last
<1>n. Last \in Nat /\ lo \in Nat /\ \A r \in Subscribers : cursor[r] \in Nat
  BY DEF TypeOK, Last
<1>c. \A r \in Subscribers : cursor'[r] = IF r = s THEN cursor[s] ELSE cursor[r]
  BY DEF TypeOK
<1>d. h =< cursor[s]
  OBVIOUS
<1> HIDE DEF h
<1>1. TypeOK'
  <2>1. cursor' \in [Subscribers -> Nat]
    BY <1>f, <1>n DEF TypeOK, h
  <2> QED
    BY <1>f, <1>p, <2>1 DEF TypeOK, Walking, Last
<1>2. RetentionInv'
  BY DEF RetentionInv, Last
<1>3. SlotInv'
  BY <1>p DEF TypeOK, SlotInv, Walking
<1>4. PublishedInv'
  BY <1>f, <1>p DEF PublishedInv
<1>5. RoundInv'
  BY <1>f, <1>g, <1>p, <1>n, <1>c, <1>d DEF TypeOK, RoundInv
<1>6. LiveInv'
  <2> SUFFICES ASSUME NEW r \in Subscribers, slot'[r] = "open", ~catchingUp'[r],
                      NEW e \in 1..Last, e > cursor'[r]
               PROVE  In(e, queue'[r])
    BY <1>p DEF LiveInv
  <2>1. e \in Nat /\ e > cursor[r] /\ (r = s => e # h)
    BY <1>f, <1>n, <1>c, <1>d
  <2>2. In(e, queue[r])
    BY <2>1 DEF LiveInv
  <2> QED
    BY <2>1, <2>2, <1>f, <1>g
<1>7. ReplayInv'
  <2> SUFFICES ASSUME NEW r \in Subscribers
               PROVE  /\ pc[r] # "new" /\ ~live[r] => Settled
                      /\ pc[r] = "replay" /\ ~live[r] =>
                           \A e \in lo..Last : e > cursor'[r] => In(e, todo'[r])
                      /\ outcome[r] \in {"terminal", "replayed"} =>
                           Settled /\ cursor'[r] >= Last /\ pc[r] = "ended"
    BY <1>p DEF ReplayInv, Settled
  <2>1. pc[r] = "replay" /\ ~live[r] =>
          \A e \in lo..Last : e > cursor'[r] => In(e, todo'[r])
    BY <1>f, <1>g, <1>n, <1>c, <1>d DEF ReplayInv
  <2>2. outcome[r] \in {"terminal", "replayed"} => r # s
    BY <1>p DEF ReplayInv, Walking
  <2> QED
    BY <2>1, <2>2, <1>c DEF ReplayInv
<1> QED
  BY <1>1, <1>2, <1>3, <1>4, <1>5, <1>6, <1>7

\* One event is yielded.
LEMMA DeliverInv ==
  ASSUME StreamInv, NEW s \in Subscribers, Deliver(s)
  PROVE  StreamInv'
<1> DEFINE h == Head(Source(s))
<1> USE LimitAssumption, IdleAssumption
<1> USE DEF StreamInv, streamVars, Deliver
<1>f. /\ h \in 1..Last
      /\ todo' \in [Subscribers -> Seq(Nat)]
      /\ queue' \in [Subscribers -> Seq(Nat)]
      /\ queuedBytes' \in [Subscribers -> Int]
      /\ \A r \in Subscribers :
           /\ \A i \in 1..Len(todo'[r]) : todo'[r][i] \in 1..Last
           /\ \A i \in 1..Len(queue'[r]) : queue'[r][i] \in 1..Last
           /\ r # s => todo'[r] = todo[r] /\ queue'[r] = queue[r]
  BY TakeNextFacts
<1>g. /\ pc[s] = "live" => todo' = todo
      /\ pc[s] # "live" => queue' = queue
      /\ \A e \in Nat : e # h =>
           /\ In(e, todo[s]) => In(e, todo'[s])
           /\ In(e, queue[s]) => In(e, queue'[s])
  BY TakeNextFacts
<1>p. turn = s /\ pc[s] \in Walking \cup {"live"} /\ Last' = Last /\ lo' = lo /\ log' = log
  BY DEF Looking, Last
<1>n. Last \in Nat /\ lo \in Nat /\ \A r \in Subscribers : cursor[r] \in Nat
  BY DEF TypeOK, Last
<1>c. \A r \in Subscribers : cursor'[r] = IF r = s THEN h ELSE cursor[r]
  BY DEF TypeOK
<1>d. h > cursor[s]
  OBVIOUS
<1> HIDE DEF h
<1>1. TypeOK'
  <2>1. cursor' \in [Subscribers -> Nat]
    BY <1>f, <1>n DEF TypeOK, h
  <2> QED
    BY <1>f, <1>p, <2>1 DEF TypeOK, Walking, Last
<1>2. RetentionInv'
  BY DEF RetentionInv, Last
<1>3. SlotInv'
  BY <1>p DEF TypeOK, SlotInv, Walking
<1>4. PublishedInv'
  BY <1>f, <1>p DEF PublishedInv
<1>5. RoundInv'
  BY <1>f, <1>g, <1>p, <1>n, <1>c, <1>d DEF TypeOK, RoundInv
<1>6. LiveInv'
  <2> SUFFICES ASSUME NEW r \in Subscribers, slot'[r] = "open", ~catchingUp'[r],
                      NEW e \in 1..Last, e > cursor'[r]
               PROVE  In(e, queue'[r])
    BY <1>p DEF LiveInv
  <2>1. e \in Nat /\ e > cursor[r] /\ (r = s => e # h)
    BY <1>f, <1>n, <1>c, <1>d
  <2>2. In(e, queue[r])
    BY <2>1 DEF LiveInv
  <2> QED
    BY <2>1, <2>2, <1>f, <1>g
<1>7. ReplayInv'
  <2> SUFFICES ASSUME NEW r \in Subscribers
               PROVE  /\ pc[r] # "new" /\ ~live[r] => Settled
                      /\ pc[r] = "replay" /\ ~live[r] =>
                           \A e \in lo..Last : e > cursor'[r] => In(e, todo'[r])
                      /\ outcome[r] \in {"terminal", "replayed"} =>
                           Settled /\ cursor'[r] >= Last /\ pc[r] = "ended"
    BY <1>p DEF ReplayInv, Settled
  <2>1. pc[r] = "replay" /\ ~live[r] =>
          \A e \in lo..Last : e > cursor'[r] => In(e, todo'[r])
    <3> SUFFICES ASSUME pc[r] = "replay", ~live[r], NEW e \in lo..Last, e > cursor'[r]
                 PROVE  In(e, todo'[r])
      OBVIOUS
    <3>1. e \in Nat /\ e > cursor[r] /\ (r = s => e # h)
      BY <1>f, <1>n, <1>c, <1>d
    <3>2. In(e, todo[r])
      BY <3>1 DEF ReplayInv
    <3> QED
      BY <3>1, <3>2, <1>f, <1>g
  <2>2. outcome[r] \in {"terminal", "replayed"} => r # s
    BY <1>p DEF ReplayInv, Walking
  <2> QED
    BY <2>1, <2>2, <1>c DEF ReplayInv
<1> QED
  BY <1>1, <1>2, <1>3, <1>4, <1>5, <1>6, <1>7

\* The live queue is registered.
LEMMA RegisterInv ==
  ASSUME StreamInv, NEW s \in Subscribers, Register(s)
  PROVE  StreamInv'
<1> USE LimitAssumption, IdleAssumption
<1> USE DEF StreamInv, streamVars, walkVars, slotVars, Register, BeginRescan
<1>1. TypeOK'
  BY SnapshotFacts DEF TypeOK, Walking, Last
<1>2. RetentionInv'
  BY DEF RetentionInv, Last
<1>3. SlotInv'
  BY DEF TypeOK, SlotInv, Walking
<1>4. PublishedInv'
  BY SnapshotFacts DEF TypeOK, PublishedInv, Last
<1>5. RoundInv'
  BY SnapshotFacts DEF TypeOK, RoundInv, Last
<1>6. LiveInv'
  BY DEF TypeOK, LiveInv, SlotInv, Last
<1>7. ReplayInv'
  BY DEF TypeOK, ReplayInv, Last, Settled, Walking
<1> QED
  BY <1>1, <1>2, <1>3, <1>4, <1>5, <1>6, <1>7

\* The live queue is drained into the walk.
LEMMA DrainInv ==
  ASSUME StreamInv, NEW s \in Subscribers, Drain(s)
  PROVE  StreamInv'
<1> USE LimitAssumption, IdleAssumption
<1> USE DEF StreamInv, streamVars, walkVars, slotVars, Drain
<1>1. TypeOK'
  BY DEF TypeOK, Walking, Last
<1>2. RetentionInv'
  BY DEF RetentionInv, Last
<1>3. SlotInv'
  BY DEF TypeOK, SlotInv, Walking
<1>4. PublishedInv'
  BY DEF TypeOK, PublishedInv, Last
<1>5. RoundInv'
  <2>1. Last \in Nat /\ lo \in Nat /\ 1 =< lo /\ (Last > 0 => lo =< Last)
    BY DEF TypeOK, RetentionInv, Last
  <2>2. Last' = Last /\ lo' = lo /\ cursor' = cursor
    BY DEF Last
  <2>3. ~progressed[s] => cursor[s] >= Last
    <3> SUFFICES ASSUME ~progressed[s] PROVE cursor[s] >= Last
      OBVIOUS
    <3>1. todo[s] = <<>> /\ \A e \in lo..Last : e > cursor[s] => In(e, todo[s])
      BY DEF RoundInv
    <3>2. \A e : ~In(e, todo[s])
      BY <3>1 DEF In
    <3>3. ~(Last > cursor[s]) \/ Last \notin lo..Last
      BY <3>1, <3>2
    <3> QED
      BY <3>3, <2>1 DEF TypeOK
  <2> QED
    BY <2>1, <2>2, <2>3 DEF TypeOK, RoundInv
<1>6. LiveInv'
  BY DEF TypeOK, LiveInv, SlotInv, Last
<1>7. ReplayInv'
  BY DEF TypeOK, ReplayInv, Last, Settled, Walking
<1> QED
  BY <1>1, <1>2, <1>3, <1>4, <1>5, <1>6, <1>7

\* Another catch-up round begins.
LEMMA CatchUpAgainInv ==
  ASSUME StreamInv, NEW s \in Subscribers, CatchUpAgain(s)
  PROVE  StreamInv'
<1> USE LimitAssumption, IdleAssumption
<1> USE DEF StreamInv, streamVars, walkVars, slotVars, CatchUpAgain, EndRound, BeginRescan
<1>1. TypeOK'
  BY SnapshotFacts DEF TypeOK, Walking, Last
<1>2. RetentionInv'
  BY DEF RetentionInv, Last
<1>3. SlotInv'
  BY DEF TypeOK, SlotInv, Walking
<1>4. PublishedInv'
  BY SnapshotFacts DEF TypeOK, PublishedInv, Last
<1>5. RoundInv'
  BY SnapshotFacts DEF TypeOK, RoundInv, Last
<1>6. LiveInv'
  BY DEF TypeOK, LiveInv, SlotInv, Last
<1>7. ReplayInv'
  BY DEF TypeOK, ReplayInv, Last, Settled, Walking
<1> QED
  BY <1>1, <1>2, <1>3, <1>4, <1>5, <1>6, <1>7

\* A round without progress ends the catch-up.
LEMMA GoLiveInv ==
  ASSUME StreamInv, NEW s \in Subscribers, GoLive(s)
  PROVE  StreamInv'
<1> USE LimitAssumption, IdleAssumption
<1> USE DEF StreamInv, streamVars, walkVars, slotVars, GoLive, EndRound
<1>1. TypeOK'
  BY DEF TypeOK, Walking, Last
<1>2. RetentionInv'
  BY DEF RetentionInv, Last
<1>3. SlotInv'
  BY DEF TypeOK, SlotInv, Walking
<1>4. PublishedInv'
  BY DEF TypeOK, PublishedInv, Last
<1>5. RoundInv'
  BY DEF TypeOK, RoundInv, Last
<1>6. LiveInv'
  BY DEF TypeOK, LiveInv, RoundInv, Last
<1>7. ReplayInv'
  BY DEF TypeOK, ReplayInv, Last, Settled, Walking
<1> QED
  BY <1>1, <1>2, <1>3, <1>4, <1>5, <1>6, <1>7

\* The reader suspends on its empty queue.
LEMMA LiveWaitInv ==
  ASSUME StreamInv, NEW s \in Subscribers, LiveWait(s)
  PROVE  StreamInv'
<1> USE LimitAssumption, IdleAssumption
<1> USE DEF StreamInv, streamVars, walkVars, slotVars, LiveWait
<1>1. TypeOK'
  BY DEF TypeOK, Walking, Last
<1>2. RetentionInv'
  BY DEF RetentionInv, Last
<1>3. SlotInv'
  BY DEF TypeOK, SlotInv, Walking
<1>4. PublishedInv'
  BY DEF TypeOK, PublishedInv, Last
<1>5. RoundInv'
  BY DEF TypeOK, RoundInv, Last
<1>6. LiveInv'
  BY DEF TypeOK, LiveInv, Last
<1>7. ReplayInv'
  BY DEF TypeOK, ReplayInv, Last, Settled, Walking
<1> QED
  BY <1>1, <1>2, <1>3, <1>4, <1>5, <1>6, <1>7

\* A publication reaches retention and every registered queue.
LEMMA PublishInv ==
  ASSUME StreamInv, NEW kind \in Kinds, NEW size \in Sizes, Publish(kind, size)
  PROVE  StreamInv'
<1> USE LimitAssumption, IdleAssumption
<1> USE DEF StreamInv, streamVars, walkVars, slotVars, Publish
<1>n. Last \in Nat /\ lo \in 1..(Last + 1) /\ size \in 0..ByteLimit
  BY DEF TypeOK, Last
<1>e. Event(kind, size) \in Events
  <2>1. (IF Last = 0 THEN 0 ELSE log[Last].total) \in Nat
    <3>1. CASE Last = 0
      BY <3>1
    <3>2. CASE Last # 0
      <4>1. log[Last] \in Events
        BY <3>2, <1>n DEF TypeOK, Last
      <4> QED
        BY <4>1, <3>2 DEF Events
    <3> QED
      BY <3>1, <3>2
  <2> QED
    BY <1>n, <2>1, LimitAssumption DEF Event, Events
<1>l. /\ log' \in Seq(Events)
      /\ Last' = Last + 1
      /\ \A e \in 1..Last : log'[e] = log[e]
      /\ log'[Last + 1] = Event(kind, size)
  BY <1>e DEF TypeOK, Last
<1>f. Bytes(Last', log') = size
  <2>1. Event(kind, size).total \in Nat
    BY <1>e DEF Events
  <2>2. Event(kind, size).size = size
    BY DEF Event
  <2>3. Len(log') = Last + 1 /\ Last' = Last + 1 /\ log'[Last + 1] = Event(kind, size)
    BY <1>l DEF Last
  <2> QED
    BY <2>1, <2>2, <2>3, <1>n DEF Bytes
<1>w. lo' \in lo..(Last + 1)
  <2>1. PICK f \in Trimmed(log') : lo' \in IF kind = "terminal" THEN Compacted(f, log') ELSE {f}
    OBVIOUS
  <2>2. f \in lo..(Last + 2) /\ \A g \in lo..(f - 1) : ~Fits(g, log')
    BY <2>1, <1>l, <1>n DEF Trimmed, Last
  <2>3. Fits(Last + 1, log')
    BY <1>f, <1>l, <1>n DEF Fits, Last
  <2>4. f # Last + 2
    BY <2>2, <2>3, <1>n
  <2>5. f \in lo..(Last + 1)
    BY <2>2, <2>4, <1>n
  <2> QED
    BY <2>1, <2>5, <1>l, <1>n DEF Compacted, Last
<1>q. \A s \in Subscribers :
        /\ queue'[s] \in {<<>>, queue[s], Append(queue[s], Last + 1)}
        /\ slot'[s] \in {slot[s], "closed"}
        /\ slot'[s] = "open" => slot[s] = "open"
        /\ slot[s] = "none" => slot'[s] = "none"
        /\ slot'[s] = "open" /\ ~catchingUp[s] => queue'[s] = Append(queue[s], Last + 1)
        /\ outcome'[s] \in {outcome[s], "lagged"}
        /\ queuedBytes'[s] \in Int
  BY <1>n DEF TypeOK, FanOut, Evicts, Enqueues, Overflows
<1>v. \A s \in Subscribers : queue'[s] \in Seq(Nat)
  <2> SUFFICES ASSUME NEW s \in Subscribers PROVE queue'[s] \in Seq(Nat)
    OBVIOUS
  <2>1. queue[s] \in Seq(Nat) /\ Last + 1 \in Nat
    BY <1>n DEF TypeOK
  <2>2. Append(queue[s], Last + 1) \in Seq(Nat)
    BY <2>1, AppendFacts
  <2>3. <<>> \in Seq(Nat)
    OBVIOUS
  <2> QED
    BY <1>q, <2>1, <2>2, <2>3
<1>1. TypeOK'
  BY <1>n, <1>l, <1>w, <1>q, <1>v DEF TypeOK, FanOut
<1>2. RetentionInv'
  <2>1. \A e \in 1..Last : log[e].kind # "terminal"
    BY <1>n DEF RetentionInv, Settled
  <2>2. Last' > 0 => lo' =< Last'
    BY <1>n, <1>l, <1>w
  <2>3. \A e \in 1..(Last' - 1) : log'[e].kind # "terminal"
    <3> SUFFICES ASSUME NEW e \in 1..(Last' - 1) PROVE log'[e].kind # "terminal"
      OBVIOUS
    <3>1. e \in 1..Last
      BY <1>n, <1>l
    <3> QED
      BY <3>1, <2>1, <1>l
  <2> QED
    BY <2>2, <2>3 DEF RetentionInv
<1>3. SlotInv'
  BY <1>q DEF TypeOK, SlotInv, Walking
<1>4. PublishedInv'
  <2> SUFFICES ASSUME NEW s \in Subscribers, NEW i \in 1..Len(queue'[s])
               PROVE  queue'[s][i] \in 1..Last'
    BY <1>n, <1>l DEF PublishedInv
  <2>1. queue[s] \in Seq(Nat) /\ Last + 1 \in Nat
    BY <1>n DEF TypeOK
  <2>2. \A j \in 1..Len(queue[s]) : queue[s][j] \in 1..Last
    BY DEF PublishedInv
  <2>3. CASE queue'[s] = Append(queue[s], Last + 1)
    <3>1. /\ Len(queue[s]) \in Nat /\ Len(Append(queue[s], Last + 1)) = Len(queue[s]) + 1
          /\ \A j \in 1..Len(queue[s]) : Append(queue[s], Last + 1)[j] = queue[s][j]
          /\ Append(queue[s], Last + 1)[Len(queue[s]) + 1] = Last + 1
      BY <2>1, AppendFacts
    <3> QED
      BY <2>2, <2>3, <3>1, <1>n, <1>l
  <2>4. CASE queue'[s] = queue[s]
    BY <2>2, <2>4, <1>n, <1>l
  <2>5. CASE queue'[s] = <<>>
    BY <2>5
  <2> QED
    BY <1>q, <2>3, <2>4, <2>5
<1>5. RoundInv'
  BY DEF TypeOK, RoundInv
<1>6. LiveInv'
  <2> SUFFICES ASSUME NEW s \in Subscribers, slot'[s] = "open", ~catchingUp'[s],
                      NEW e \in 1..Last', e > cursor'[s]
               PROVE  In(e, queue'[s])
    BY DEF LiveInv
  <2>1. queue[s] \in Seq(Nat) /\ Last + 1 \in Nat
    BY <1>n DEF TypeOK
  <2>2. queue'[s] = Append(queue[s], Last + 1) /\ slot[s] = "open"
    BY <1>q
  <2>3. In(Last + 1, queue'[s]) /\ \A x : In(x, queue[s]) => In(x, queue'[s])
    BY <2>1, <2>2, AppendFacts
  <2>4. CASE e = Last + 1
    BY <2>3, <2>4
  <2>5. CASE e \in 1..Last
    BY <2>2, <2>3, <2>5 DEF LiveInv, walkVars
  <2> QED
    BY <2>4, <2>5, <1>n, <1>l
<1>7. ReplayInv'
  BY <1>q DEF TypeOK, ReplayInv, Settled
<1> QED
  BY <1>1, <1>2, <1>3, <1>4, <1>5, <1>6, <1>7

-----------------------------------------------------------------------------
(* The invariants of the specification *)

LEMMA NextInv == StreamInv /\ [Next]_vars => StreamInv'
<1> SUFFICES ASSUME StreamInv, [Next]_vars PROVE StreamInv'
  OBVIOUS
<1>1. CASE \E kind \in Kinds, size \in Sizes : Publish(kind, size)
  BY <1>1, PublishInv
<1>2. ASSUME NEW s \in Subscribers, NEW after \in 0..MaxEvents, Subscribe(s, after)
      PROVE  StreamInv'
  <2>1. after \in Nat
    BY LimitAssumption
  <2> QED
    BY <1>2, <2>1, SubscribeInv
<1>3. ASSUME NEW s \in Subscribers, Abandon(s) PROVE StreamInv'
  BY <1>3, FinishInv DEF Abandon
<1>4. ASSUME NEW s \in Subscribers, Consume(s) PROVE StreamInv'
  <2>1. CASE Resume(s)
    BY <2>1, ResumeInv
  <2>2. CASE ResumeAfterTerminal(s)
    \* Only the newest event is terminal, so the cursor is at the end.
    <3>1. Settled /\ cursor[s] >= Last
      <4>1. cursor[s] \in 1..Last /\ log[cursor[s]].kind = "terminal" /\ Last \in Nat
        BY <2>2 DEF ResumeAfterTerminal, IsTerminal, StreamInv, TypeOK, Last
      <4>2. cursor[s] = Last
        BY <4>1 DEF StreamInv, RetentionInv
      <4> QED
        BY <4>1, <4>2 DEF Settled
    <3> QED
      BY <2>2, <3>1, FinishInv DEF ResumeAfterTerminal
  <2>3. CASE SkipSeen(s)
    BY <2>3, SkipSeenInv
  <2>4. CASE Deliver(s)
    BY <2>4, DeliverInv
  <2>5. CASE Gap(s)
    BY <2>5, FinishInv DEF Gap, Looking
  <2>6. CASE EndReplay(s)
    \* The settled window is exhausted and ends with the newest event.
    <3>1. Settled /\ cursor[s] >= Last
      <4>1. Settled /\ todo[s] = <<>> /\ \A e \in lo..Last : e > cursor[s] => In(e, todo[s])
        BY <2>6 DEF EndReplay, StreamInv, ReplayInv
      <4>2. ~In(Last, todo[s])
        BY <4>1 DEF In
      <4>3. Last \in lo..Last
        BY <4>1 DEF StreamInv, TypeOK, RetentionInv, Settled, Last
      <4> QED
        <5>1. Last \in Nat /\ cursor[s] \in Nat
          BY DEF StreamInv, TypeOK, Last
        <5> QED
          BY <5>1, <4>1, <4>2, <4>3
    <3> QED
      BY <2>6, <3>1, FinishInv DEF EndReplay, Walking
  <2>7. CASE Register(s)
    BY <2>7, RegisterInv
  <2>8. CASE Drain(s)
    BY <2>8, DrainInv
  <2>9. CASE CatchUpClosed(s)
    BY <2>9, FinishInv DEF CatchUpClosed, EndRound, Walking
  <2>10. CASE CatchUpAgain(s)
    BY <2>10, CatchUpAgainInv
  <2>11. CASE GoLive(s)
    BY <2>11, GoLiveInv
  <2>12. CASE LiveWait(s)
    BY <2>12, LiveWaitInv
  <2>13. CASE LiveShutDown(s)
    BY <2>13, FinishInv DEF LiveShutDown
  <2> QED
    BY <1>4, <2>1, <2>2, <2>3, <2>4, <2>5, <2>6, <2>7, <2>8, <2>9, <2>10, <2>11,
       <2>12, <2>13 DEF Consume
<1>5. CASE UNCHANGED vars
  BY <1>5 DEF vars, streamVars, walkVars, slotVars, StreamInv, TypeOK, RetentionInv, SlotInv,
              PublishedInv, RoundInv, LiveInv, ReplayInv, In, Last, Settled, Walking
<1> QED
  BY <1>1, <1>2, <1>3, <1>4, <1>5 DEF Next

\* The stream keeps its inductive invariant for ever.
THEOREM StreamInvariant == Spec => []StreamInv
<1> QED
  BY InitInv, NextInv, PTL DEF Spec

\* Every variable of event_stream.py's model keeps its type.
THEOREM TypeCorrect == Spec => []TypeOK
<1>1. StreamInv => TypeOK
  BY DEF StreamInv
<1> QED
  BY <1>1, StreamInvariant, PTL

\* A subscriber that left catch-up (event_stream.py:193) misses no event.
THEOREM LiveReaderMissesNothing == Spec => []LiveQueueComplete
<1>1. StreamInv => LiveQueueComplete
  <2> SUFFICES ASSUME StreamInv, NEW s \in Subscribers, slot[s] = "open", ~catchingUp[s],
                      NEW e \in (cursor[s] + 1)..Last
               PROVE  \E i \in DOMAIN queue[s] : queue[s][i] = e
    BY DEF LiveQueueComplete
  <2>1. e \in 1..Last /\ e > cursor[s] /\ DOMAIN queue[s] = 1..Len(queue[s])
    BY DEF StreamInv, TypeOK, Last
  <2>2. In(e, queue[s])
    BY <2>1 DEF StreamInv, LiveInv
  <2> QED
    BY <2>1, <2>2 DEF In
<1> QED
  BY <1>1, StreamInvariant, PTL

\* A subscription that ends by itself saw the terminal event (event_stream.py:143-147).
THEOREM NormalEndIsComplete == Spec => []NormalEndSawEverything
<1>1. StreamInv => NormalEndSawEverything
  BY DEF StreamInv, ReplayInv, NormalEndSawEverything
<1> QED
  BY <1>1, StreamInvariant, PTL

-----------------------------------------------------------------------------
(* The stream implements the ordered feed its docstring promises *)

LEMMA FeedInit == Init => Feed!Init
<1> SUFFICES ASSUME Init PROVE Feed!Init
  OBVIOUS
<1>1. Last = 0
  BY DEF Init, Last
<1>2. \A s \in Subscribers : pc[s] = "new"
  BY DEF Init
<1>3. /\ [s \in Subscribers |-> pc[s] # "new"] = [s \in Subscribers |-> FALSE]
      /\ [s \in Subscribers |-> pc[s] = "ended"] = [s \in Subscribers |-> FALSE]
  BY <1>2
<1> QED
  BY <1>1, <1>3 DEF Init, Feed!Init

LEMMA FeedNext == StreamInv /\ [Next]_vars => [Feed!Next]_(Feed!vars)
<1> SUFFICES ASSUME StreamInv, [Next]_vars PROVE [Feed!Next]_(Feed!vars)
  OBVIOUS
<1> USE DEF streamVars, walkVars, slotVars
<1>1. ASSUME NEW kind \in Kinds, NEW size \in Sizes, Publish(kind, size)
      PROVE  Feed!Next
  <2>1. Last' = Last + 1
    BY <1>1 DEF Publish, StreamInv, TypeOK, Last
  <2> QED
    BY <1>1, <2>1 DEF Publish, Feed!Next, Feed!Emit
<1>2. ASSUME NEW s \in Subscribers, NEW after \in 0..MaxEvents, Subscribe(s, after)
      PROVE  Feed!Next
  <2>1. after \in Nat
    BY LimitAssumption
  <2>2. Feed!Open(s)
    BY <1>2, <2>1 DEF Subscribe, Feed!Open, StreamInv, TypeOK, Last
  <2> QED
    BY <2>2 DEF Feed!Next
<1>3. ASSUME NEW s \in Subscribers, NEW why, Finish(s, why), pc[s] \in Walking \cup {"live"}
      PROVE  Feed!Next
  <2>1. Feed!End(s)
    BY <1>3 DEF Finish, Feed!End, StreamInv, TypeOK, Last, Walking
  <2> QED
    BY <2>1 DEF Feed!Next
<1>4. ASSUME NEW s \in Subscribers, Deliver(s) PROVE Feed!Next
  <2> DEFINE h == Head(Source(s))
  <2>1. h \in 1..Last
    BY <1>4, TakeNextFacts DEF Deliver
  <2>2. pc[s] \in Walking \cup {"live"} /\ h > cursor[s] /\ (head[s] => h = cursor[s] + 1)
    BY <1>4, <2>1 DEF Deliver, Looking, skipsEvents, StreamInv, TypeOK, Last
  <2>3. Feed!Yield(s, h)
    <3>1. /\ cursor' = [cursor EXCEPT ![s] = h]
          /\ head' = [head EXCEPT ![s] = TRUE]
          /\ log' = log /\ pc' = pc
      BY <1>4 DEF Deliver
    <3>2. Last' = Last
      BY <3>1 DEF Last
    <3>3. /\ [r \in Subscribers |-> pc[r] # "new"][s]
          /\ ~[r \in Subscribers |-> pc[r] = "ended"][s]
      BY <2>2 DEF Walking
    <3>4. h =< Last /\ (IF head[s] THEN h = cursor[s] + 1 ELSE h > cursor[s])
      BY <2>1, <2>2 DEF StreamInv, TypeOK, Last
    <3> QED
      BY <3>1, <3>2, <3>3, <3>4 DEF Feed!Yield
  <2> QED
    BY <2>1, <2>3 DEF Feed!Next
<1>5. ASSUME NEW s \in Subscribers,
             Resume(s) \/ SkipSeen(s) \/ Register(s) \/ Drain(s) \/ CatchUpAgain(s)
               \/ GoLive(s) \/ LiveWait(s)
      PROVE  UNCHANGED Feed!vars
  <2>1. UNCHANGED <<log, cursor, head>>
    BY <1>5 DEF Resume, SkipSeen, Register, Drain, CatchUpAgain, GoLive, LiveWait, BeginRescan
  <2>2. \A r \in Subscribers : (pc'[r] # "new" <=> pc[r] # "new")
                              /\ (pc'[r] = "ended" <=> pc[r] = "ended")
    <3> SUFFICES ASSUME NEW r \in Subscribers
                 PROVE  (pc'[r] # "new" <=> pc[r] # "new") /\ (pc'[r] = "ended" <=> pc[r] = "ended")
      OBVIOUS
    <3>1. s \in DOMAIN pc
      BY DEF StreamInv, TypeOK
    <3>2. CASE Resume(s) \/ SkipSeen(s) \/ LiveWait(s)
      BY <3>2 DEF Resume, SkipSeen, LiveWait
    <3>3. CASE Register(s) \/ Drain(s) \/ CatchUpAgain(s) \/ GoLive(s)
      <4>1. \E to \in {"rescan", "drained", "live"} :
              pc' = [pc EXCEPT ![s] = to] /\ pc[s] \in {"replay", "rescan", "drained"}
        BY <3>3 DEF Register, Drain, CatchUpAgain, GoLive, BeginRescan, EndRound
      <4> QED
        BY <3>1, <4>1
    <3> QED
      BY <1>5, <3>2, <3>3
  <2>3. /\ [r \in Subscribers |-> pc[r] # "new"]' = [r \in Subscribers |-> pc[r] # "new"]
        /\ [r \in Subscribers |-> pc[r] = "ended"]' = [r \in Subscribers |-> pc[r] = "ended"]
    BY <2>2, Zenon
  <2> QED
    BY <2>1, <2>3 DEF Feed!vars, Last
<1>6. ASSUME NEW s \in Subscribers, Consume(s) PROVE [Feed!Next]_(Feed!vars)
  <2>1. CASE \E why : Finish(s, why) /\ pc[s] \in Walking \cup {"live"}
    BY <2>1, <1>3
  <2>2. CASE ResumeAfterTerminal(s) \/ Gap(s) \/ EndReplay(s) \/ CatchUpClosed(s) \/ LiveShutDown(s)
    BY <2>1, <2>2 DEF ResumeAfterTerminal, Gap, Looking, EndReplay, CatchUpClosed, EndRound,
                      LiveShutDown, Walking
  <2> QED
    BY <1>4, <1>5, <1>6, <2>2 DEF Consume
<1>7. CASE UNCHANGED vars
  BY <1>7 DEF vars, Feed!vars, Last
<1> QED
  BY <1>1, <1>2, <1>3, <1>6, <1>7 DEF Next, Abandon

\* What an accessor sees of one subscription is an ordered feed without gaps
\* (event_stream.py:32-37).
THEOREM ImplementsOrderedFeed == Spec => RefinesOrderedFeed
<1> QED
  BY FeedInit, FeedNext, StreamInvariant, PTL DEF Spec, RefinesOrderedFeed, Feed!Spec

-----------------------------------------------------------------------------
(* Memory *)

\* The bytes published grow with every event by its size.
TotalsInv ==
  /\ \A i \in 1..Last : log[i].size \in 0..ByteLimit
  /\ \A i \in 1..Last : i < Last => log[i + 1].total = log[i].total + log[i + 1].size
  /\ \A i, j \in 1..Last : i < j => log[i].total =< log[j].total - log[j].size

WindowInv == Last - lo + 1 =< RetentionLimit /\ Bytes(lo, log) =< ByteLimit

\* The bytes of the events from f to l.
Between(f, l) == log[l].total - log[f].total + log[f].size

\* A live queue is a run of consecutive events: one that dropped an event was
\* full, and stays full until it is drained as a whole.
QueueInv(s) ==
  LET q == queue[s] IN
  /\ Len(q) =< QueueLimit /\ queuedBytes[s] =< ByteLimit
  /\ \A i \in 1..Len(q) : q[i] = q[1] + i - 1
  /\ queuedBytes[s] = IF q = <<>> THEN 0 ELSE Between(q[1], q[Len(q)])
  /\ slot[s] = "open" /\ q # <<>> => q[Len(q)] = Last \/ (catchingUp[s] /\ Len(q) = QueueLimit)
  /\ slot[s] = "none" \/ (pc[s] = "drained" /\ ~progressed[s]) => q = <<>>
  /\ pc[s] = "live" => ~catchingUp[s]

MemoryInv == TotalsInv /\ WindowInv /\ \A s \in Subscribers : QueueInv(s)

LEMMA EventNumbers ==
  ASSUME StreamInv, NEW e \in 1..Last
  PROVE  log[e].total \in Nat /\ log[e].size \in Nat
<1>1. log[e] \in Events
  BY DEF StreamInv, TypeOK, Last
<1>2. log[e].total \in Nat /\ log[e].size \in Sizes
  BY <1>1 DEF Events
<1>3. log[e].size \in 0..ByteLimit /\ ByteLimit \in Nat
  BY <1>2, LimitAssumption
<1> QED BY <1>2, <1>3

LEMMA MemoryIsBounded == ASSUME StreamInv, MemoryInv PROVE MemoryBounded
<1>1. Last \in Nat /\ lo \in 1..(Last + 1) /\ (Last > 0 => lo =< Last)
  BY DEF StreamInv, TypeOK, RetentionInv, Last
<1>2. ASSUME NEW s \in Subscribers
      PROVE  /\ Len(queue[s]) =< QueueLimit /\ queuedBytes[s] \in 0..ByteLimit
             /\ queue[s] = <<>> => queuedBytes[s] = 0
  <2>1. CASE queue[s] = <<>>
    BY <2>1, LimitAssumption DEF MemoryInv, QueueInv
  <2>2. CASE queue[s] # <<>>
    <3> DEFINE q == queue[s]
    <3>1. q \in Seq(Nat) /\ Len(q) \in Nat \ {0} /\ q[1] \in 1..Last /\ q[Len(q)] \in 1..Last
      BY <2>2 DEF StreamInv, TypeOK, PublishedInv
    <3>2. queuedBytes[s] = Between(q[1], q[Len(q)])
      BY <2>2 DEF MemoryInv, QueueInv
    <3>7. \A i \in 1..Len(q) : q[i] = q[1] + i - 1
      BY DEF MemoryInv, QueueInv
    <3>3. log[q[1]] \in Events /\ log[q[Len(q)]] \in Events
      BY <3>1 DEF StreamInv, TypeOK, Last
    <3> HIDE DEF q
    <3>4. Between(q[1], q[Len(q)]) >= 0
      <4>1. CASE q[1] = q[Len(q)]
        BY <3>1, <3>3, <4>1, LimitAssumption DEF Between, MemoryInv, TotalsInv, Events
      <4>2. CASE q[1] # q[Len(q)]
        <5>1. log[q[1]].total =< log[q[Len(q)]].total - log[q[Len(q)]].size
          <6>1. q[Len(q)] = q[1] + Len(q) - 1
            BY <3>1, <3>7
          <6> QED BY <3>1, <6>1, <4>2 DEF MemoryInv, TotalsInv
        <5>2. log[q[1]].size \in 0..ByteLimit /\ log[q[Len(q)]].size \in 0..ByteLimit
          BY <3>1 DEF MemoryInv, TotalsInv
        <5> QED BY <3>3, <5>1, <5>2, LimitAssumption DEF Between, Events
      <4> QED BY <4>1, <4>2
    <3>5. queuedBytes[s] \in Int /\ queuedBytes[s] =< ByteLimit /\ Len(queue[s]) =< QueueLimit
      BY DEF StreamInv, TypeOK, MemoryInv, QueueInv
    <3> QED BY <2>2, <3>2, <3>4, <3>5, LimitAssumption
  <2> QED BY <2>1, <2>2
<1> QED BY <1>1, <1>2 DEF MemoryInv, WindowInv, MemoryBounded

LEMMA MemoryInit == Init => MemoryInv
BY LimitAssumption DEF Init, MemoryInv, TotalsInv, WindowInv, QueueInv, Bytes, Last

\* What the reader of s does to its queue: nothing, or it empties it, or it
\* takes its head.
SameQueue(r) ==
  /\ queue'[r] = queue[r] /\ queuedBytes'[r] = queuedBytes[r]
  /\ slot'[r] = "open" => slot[r] = "open" \/ queue[r] = <<>>
  /\ slot'[r] = "none" => slot[r] = "none"
  /\ ~catchingUp'[r] => ~catchingUp[r] \/ queue[r] = <<>>
  /\ pc'[r] = "drained" /\ ~progressed'[r] => pc[r] = "drained" /\ ~progressed[r]
  /\ pc'[r] = "live" => IF pc[r] = "live" THEN catchingUp'[r] = catchingUp[r] ELSE ~catchingUp'[r]
EmptyQueue(r) == queue'[r] = <<>> /\ queuedBytes'[r] = 0 /\ pc'[r] # "live"
PopsQueue(r) ==
  /\ queue[r] # <<>> /\ pc[r] = "live" /\ pc'[r] = "live"
  /\ queue'[r] = Tail(queue[r])
  /\ queuedBytes'[r] = queuedBytes[r] - log[Head(queue[r])].size
  /\ slot'[r] = slot[r] /\ catchingUp'[r] = catchingUp[r]

LEMMA ReaderKeepsMemory ==
  ASSUME StreamInv, MemoryInv, log' = log, lo' = lo,
         \A r \in Subscribers : SameQueue(r) \/ EmptyQueue(r) \/ PopsQueue(r)
  PROVE  MemoryInv'
<1>1. TotalsInv' /\ WindowInv'
  BY DEF MemoryInv, TotalsInv, WindowInv, Last
<1>2. ASSUME NEW r \in Subscribers PROVE QueueInv(r)'
  <2>1. CASE SameQueue(r)
    BY <2>1 DEF MemoryInv, QueueInv, SameQueue, Between, Last
  <2>2. CASE EmptyQueue(r)
    BY <2>2, LimitAssumption DEF QueueInv, EmptyQueue
  <2>3. CASE PopsQueue(r)
    <3> DEFINE q == queue[r]  t == Tail(queue[r])
    <3>1. /\ q \in Seq(Nat) /\ q # <<>> /\ Head(q) = q[1]
          /\ Len(q) \in Nat \ {0} /\ Len(t) = Len(q) - 1 /\ t \in Seq(Nat)
          /\ \A i \in 1..(Len(q) - 1) : t[i] = q[i + 1]
      BY <2>3, TailFacts DEF PopsQueue, StreamInv, TypeOK
    <3>2. \A i \in 1..Len(q) : q[i] = q[1] + i - 1 /\ q[i] \in 1..Last
      BY DEF MemoryInv, QueueInv, StreamInv, PublishedInv
    <3>3. /\ Len(q) =< QueueLimit /\ queuedBytes[r] =< ByteLimit
          /\ queuedBytes[r] = Between(q[1], q[Len(q)])
          /\ slot[r] = "open" => q[Len(q)] = Last
          /\ slot[r] # "none"
      BY <2>3 DEF PopsQueue, MemoryInv, QueueInv, StreamInv, SlotInv
    <3>4. log[q[1]].size \in 0..ByteLimit
      BY <3>1, <3>2 DEF MemoryInv, TotalsInv
    <3>5. queue'[r] = t /\ queuedBytes'[r] = queuedBytes[r] - log[q[1]].size
      BY <2>3, <3>1 DEF PopsQueue
    <3>6. queuedBytes[r] \in Int
      BY DEF StreamInv, TypeOK
    <3>7. slot'[r] = slot[r] /\ catchingUp'[r] = catchingUp[r] /\ pc'[r] = "live" /\ ~catchingUp[r]
      BY <2>3 DEF PopsQueue, MemoryInv, QueueInv
    <3>8. Len(t) =< QueueLimit /\ queuedBytes'[r] =< ByteLimit
      BY <3>1, <3>3, <3>4, <3>5, <3>6, LimitAssumption
    <3>9. \A i \in 1..Len(q) : log[q[i]] \in Events
      BY <3>2 DEF StreamInv, TypeOK, Last
    <3>10. log' = log /\ Last' = Last /\ Last \in Nat
      BY DEF StreamInv, TypeOK, Last
    <3> HIDE DEF q, t
    <3>11. CASE Len(q) = 1
      <4>1. t = <<>> /\ queuedBytes'[r] = 0
        BY <3>1, <3>3, <3>4, <3>5, <3>9, <3>11 DEF Between, Events
      <4> QED BY <3>5, <3>7, <3>8, <4>1 DEF QueueInv
    <3>12. CASE Len(q) > 1
      <4>6. q[1] \in 1..Last /\ q[2] = q[1] + 1 /\ q[2] \in 1..Last
        BY <3>1, <3>2, <3>10, <3>12
      <4>1. t # <<>> /\ t[1] = q[1] + 1 /\ t[Len(t)] = q[Len(q)] /\ q[1] + 1 \in 1..Last
        BY <3>1, <3>12, <4>6
      <4>2. \A i \in 1..Len(t) : t[i] = t[1] + i - 1
        <5> SUFFICES ASSUME NEW i \in 1..Len(t) PROVE t[i] = t[1] + i - 1
          OBVIOUS
        <5>1. i \in 1..(Len(q) - 1) /\ i + 1 \in 1..Len(q)
          BY <3>1
        <5>2. t[i] = q[i + 1] /\ q[i + 1] = q[1] + (i + 1) - 1
          BY <3>1, <3>2, <5>1
        <5> QED BY <4>1, <4>6, <5>1, <5>2
      <4>3. /\ log[q[1] + 1].total = log[q[1]].total + log[q[1] + 1].size
            /\ log[q[1] + 1] \in Events /\ log[q[1]] \in Events /\ log[q[Len(q)]] \in Events
        <5>1. q[1] \in 1..Last /\ q[1] < Last
          BY <3>10, <4>1, <4>6
        <5>2. log[q[1] + 1].total = log[q[1]].total + log[q[1] + 1].size
          BY <5>1 DEF MemoryInv, TotalsInv
        <5>3. log[q[2]] \in Events /\ log[q[1]] \in Events /\ log[q[Len(q)]] \in Events
          BY <3>1, <3>9, <3>12
        <5> QED BY <4>6, <5>2, <5>3
      <4>4. queuedBytes'[r] = Between(t[1], t[Len(t)])
        <5>1. queuedBytes'[r] = Between(q[1], q[Len(q)]) - log[q[1]].size
          BY <3>3, <3>5
        <5>2. /\ log[q[Len(q)]].total \in Nat /\ log[q[1]].total \in Nat
              /\ log[q[1]].size \in Nat /\ log[q[1] + 1].size \in Nat
              /\ log[q[1] + 1].total \in Nat
          <6>1. q[1] \in 1..Last /\ q[Len(q)] \in 1..Last /\ q[1] + 1 \in 1..Last
            BY <3>1, <3>2, <4>1
          <6> QED BY <6>1, EventNumbers
        <5>3. Between(t[1], t[Len(t)])
                = log[q[Len(q)]].total - log[q[1] + 1].total + log[q[1] + 1].size
          BY <4>1 DEF Between
        <5>4. Between(q[1], q[Len(q)]) = log[q[Len(q)]].total - log[q[1]].total + log[q[1]].size
          BY DEF Between
        <5>5. \A last, first, size, next \in Nat :
                (last - first + size) - size = last - (first + next) + next
          OBVIOUS
        <5>6. (log[q[Len(q)]].total - log[q[1]].total + log[q[1]].size) - log[q[1]].size
                = log[q[Len(q)]].total - (log[q[1]].total + log[q[1] + 1].size) + log[q[1] + 1].size
          BY <5>2, <5>5
        <5> QED BY <4>3, <5>1, <5>3, <5>4, <5>6
      <4> QED BY <3>3, <3>5, <3>7, <3>8, <3>10, <4>1, <4>2, <4>4 DEF QueueInv, Between
    <3> QED BY <3>1, <3>11, <3>12
  <2> QED BY <1>2, <2>1, <2>2, <2>3
<1> QED BY <1>1, <1>2 DEF MemoryInv

\* The steps of a reader.
LEMMA ReaderSteps ==
  ASSUME StreamInv, MemoryInv, NEW s \in Subscribers,
         \/ Consume(s) \/ Abandon(s) \/ \E after \in 0..MaxEvents : Subscribe(s, after)
  PROVE  /\ log' = log /\ lo' = lo
         /\ \A r \in Subscribers : SameQueue(r) \/ EmptyQueue(r) \/ PopsQueue(r)
<1> USE DEF streamVars, walkVars, slotVars
<1>1. ASSUME NEW why, Finish(s, why)
      PROVE  /\ log' = log /\ lo' = lo /\ EmptyQueue(s)
             /\ \A r \in Subscribers \ {s} : SameQueue(r)
  BY <1>1 DEF Finish, EmptyQueue, SameQueue, StreamInv, TypeOK
<1>2. CASE \/ ResumeAfterTerminal(s) \/ Gap(s) \/ EndReplay(s) \/ CatchUpClosed(s)
           \/ LiveShutDown(s) \/ Abandon(s)
  <2>1. \E why : Finish(s, why)
    BY <1>2 DEF ResumeAfterTerminal, Gap, EndReplay, CatchUpClosed, LiveShutDown, Abandon
  <2> QED BY <1>1, <2>1
<1>3. CASE \/ Resume(s) \/ LiveWait(s) \/ \E after \in 0..MaxEvents : Subscribe(s, after)
  BY <1>3 DEF Resume, LiveWait, Subscribe, SameQueue, StreamInv, TypeOK
<1>4. CASE SkipSeen(s) \/ Deliver(s)
  <2>1. /\ log' = log /\ lo' = lo /\ UNCHANGED <<pc, slot, catchingUp>>
        /\ TakeNext(s) /\ Looking(s)
        /\ \A r \in Subscribers : progressed'[r] = progressed[r] \/ progressed'[r]
    BY <1>4 DEF SkipSeen, Deliver, StreamInv, TypeOK
  <2>2. CASE pc[s] = "live"
    <3>1. queue[s] # <<>> /\ queue' = [queue EXCEPT ![s] = Tail(@)]
          /\ queuedBytes' = [queuedBytes EXCEPT ![s] = @ - log[Head(queue[s])].size]
      BY <2>1, <2>2 DEF TakeNext, Looking, Source
    <3>2. PopsQueue(s)
      BY <2>1, <2>2, <3>1 DEF PopsQueue, StreamInv, TypeOK
    <3>3. ASSUME NEW r \in Subscribers \ {s} PROVE SameQueue(r)
      BY <2>1, <3>1 DEF SameQueue, StreamInv, TypeOK
    <3> QED BY <2>1, <3>2, <3>3
  <2>3. CASE pc[s] # "live"
    BY <2>1, <2>3 DEF TakeNext, SameQueue
  <2> QED BY <2>1, <2>2, <2>3
<1>5. CASE Register(s)
  BY <1>5 DEF Register, BeginRescan, SameQueue, StreamInv, TypeOK, SlotInv, MemoryInv, QueueInv
<1>6. CASE CatchUpAgain(s)
  BY <1>6 DEF CatchUpAgain, BeginRescan, SameQueue, StreamInv, TypeOK
<1>7. CASE Drain(s)
  BY <1>7 DEF Drain, SameQueue, EmptyQueue, StreamInv, TypeOK
<1>8. CASE GoLive(s)
  BY <1>8 DEF GoLive, EndRound, SameQueue, StreamInv, TypeOK, MemoryInv, QueueInv
<1> QED BY <1>2, <1>3, <1>4, <1>5, <1>6, <1>7, <1>8 DEF Consume

LEMMA PublishKeepsMemory ==
  ASSUME StreamInv, MemoryInv, NEW kind \in Kinds, NEW size \in Sizes, Publish(kind, size)
  PROVE  MemoryInv'
<1> DEFINE new == Event(kind, size)
<1>1. Last \in Nat /\ lo \in 1..(Last + 1) /\ size \in 0..ByteLimit
  BY LimitAssumption DEF StreamInv, TypeOK, Last
<1>2. \A e \in 1..Last : log[e].total \in Nat /\ log[e].size \in Nat
  BY EventNumbers
<1>3. /\ Last' = Last + 1 /\ Len(log') = Last + 1
      /\ \A e \in 1..Last : log'[e] = log[e]
      /\ log'[Last + 1] = new
      /\ log' = Append(log, new)
  BY DEF Publish, StreamInv, TypeOK, Last
<1>4. /\ new.size = size /\ new.total \in Nat
      /\ new.total = (IF Last = 0 THEN 0 ELSE log[Last].total) + size
  BY <1>1, <1>2, LimitAssumption DEF Event
<1> HIDE DEF new
<1>5. TotalsInv'
  <2>1. \A i \in 1..Last' : log'[i].size \in 0..ByteLimit
    BY <1>1, <1>3, <1>4 DEF MemoryInv, TotalsInv
  <2>2. \A i \in 1..Last' : i < Last' => log'[i + 1].total = log'[i].total + log'[i + 1].size
    BY <1>1, <1>3, <1>4 DEF MemoryInv, TotalsInv
  <2>3. ASSUME NEW i \in 1..Last', NEW j \in 1..Last', i < j
        PROVE  log'[i].total =< log'[j].total - log'[j].size
    <3>1. CASE j =< Last
      BY <1>1, <1>3, <2>3, <3>1 DEF MemoryInv, TotalsInv
    <3>2. CASE j = Last + 1
      <4>1. i \in 1..Last /\ Last \in 1..Last /\ new.total = log[Last].total + size
        BY <1>1, <1>3, <1>4, <2>3, <3>2
      <4>2. log[i].total =< log[Last].total
        <5>1. CASE i = Last
          BY <1>2, <4>1, <5>1
        <5>2. CASE i # Last
          <6>1. log[i].total =< log[Last].total - log[Last].size
            BY <1>1, <4>1, <5>2 DEF MemoryInv, TotalsInv
          <6> QED BY <1>2, <4>1, <6>1
        <5> QED BY <5>1, <5>2
      <4> QED BY <1>1, <1>2, <1>3, <1>4, <3>2, <4>1, <4>2
    <3> QED BY <1>1, <1>3, <3>1, <3>2
  <2> QED BY <2>1, <2>2, <2>3 DEF TotalsInv
<1>6. \A e \in 1..Last' : log'[e].total \in Nat /\ log'[e].size \in Nat
  BY <1>1, <1>2, <1>3, <1>4
<1>7. WindowInv'
  <2>1. PICK f \in Trimmed(log') : lo' \in IF kind = "terminal" THEN Compacted(f, log') ELSE {f}
    BY DEF Publish
  <2>2. f \in lo..(Last + 2) /\ Last + 1 - f + 1 =< RetentionLimit /\ Bytes(f, log') =< ByteLimit
    BY <1>1, <1>3, <2>1 DEF Trimmed, Fits
  <2>3. lo' = f \/ lo' \in f..(Last + 1)
    BY <1>3, <2>1 DEF Compacted
  <2>4. lo' \in f..(Last + 2)
    BY <1>1, <2>2, <2>3
  <2>5. Bytes(lo', log') =< ByteLimit
    <3>1. CASE lo' = f
      BY <2>2, <3>1
    <3>2. CASE lo' # f
      <4>1. lo' \in 1..(Last + 1) /\ f \in 1..(Last + 1) /\ f < lo'
        BY <1>1, <2>2, <2>3, <3>2
      <4>2. log'[f].total =< log'[lo'].total - log'[lo'].size
        BY <1>3, <1>5, <4>1 DEF TotalsInv
      <4>3. log'[f].total - log'[f].size =< log'[lo'].total - log'[lo'].size
        <5>1. f \in 1..Last' /\ lo' \in 1..Last'
          BY <1>3, <4>1
        <5>2. /\ log'[f].total \in Nat /\ log'[f].size \in Nat
              /\ log'[lo'].total \in Nat /\ log'[lo'].size \in Nat
          BY <1>6, <5>1
        <5> QED BY <4>2, <5>2
      <4>4. /\ Bytes(f, log') = log'[Last + 1].total - log'[f].total + log'[f].size
            /\ Bytes(lo', log') = log'[Last + 1].total - log'[lo'].total + log'[lo'].size
        BY <1>1, <1>3, <4>1 DEF Bytes
      <4>5. Last + 1 \in 1..Last'
        BY <1>1, <1>3
      <4>6. \A e \in {f, lo', Last + 1} : log'[e].total \in Nat /\ log'[e].size \in Nat
        BY <1>3, <1>6, <4>1, <4>5
      <4> QED BY <2>2, <4>3, <4>4, <4>6, LimitAssumption
    <3> QED BY <3>1, <3>2
  <2>6. Last' - lo' + 1 =< RetentionLimit
    <3>1. /\ RetentionLimit \in Nat /\ Last + 1 - f + 1 =< RetentionLimit
          /\ f \in Nat /\ lo' \in Nat /\ f =< lo' /\ Last' = Last + 1
      BY <1>1, <1>3, <2>2, <2>4, LimitAssumption
    <3>2. \A a, b, c, d \in Nat : a + 1 - b + 1 =< d /\ b =< c => a + 1 - c + 1 =< d
      OBVIOUS
    <3>3. Last + 1 - lo' + 1 =< RetentionLimit
      BY <1>1, <3>1, <3>2
    <3> QED BY <1>1, <1>3, <3>1, <3>3 DEF Last
  <2> QED BY <2>5, <2>6 DEF WindowInv
<1>8. ASSUME NEW s \in Subscribers PROVE QueueInv(s)'
  <2>1. /\ queue[s] \in Seq(Nat) /\ Len(queue[s]) \in Nat /\ queuedBytes[s] \in Int
        /\ \A i \in 1..Len(queue[s]) : queue[s][i] \in 1..Last
    BY DEF StreamInv, TypeOK, PublishedInv
  <2>2. /\ slot'[s] = IF Evicts(s, size) THEN "closed" ELSE slot[s]
        /\ queue'[s] = IF Evicts(s, size) THEN <<>>
                       ELSE IF Enqueues(s, size) THEN Append(queue[s], Last + 1) ELSE queue[s]
        /\ queuedBytes'[s] = IF Evicts(s, size) THEN 0
                             ELSE IF Enqueues(s, size) THEN queuedBytes[s] + size
                             ELSE queuedBytes[s]
        /\ pc' = pc /\ progressed' = progressed /\ catchingUp' = catchingUp
    BY DEF Publish, FanOut, walkVars
  <2>3. ~(pc[s] = "drained" /\ ~progressed[s])
    BY IdleAssumption DEF Publish, StreamInv, RoundInv
  <2>4. QueueInv(s)
    BY DEF MemoryInv
  <2>5. CASE Evicts(s, size)
    BY <2>2, <2>4, <2>5, LimitAssumption DEF QueueInv
  <2>6. CASE Enqueues(s, size)
    <3>1. /\ slot[s] = "open" /\ queuedBytes[s] + size =< ByteLimit /\ Len(queue[s]) < QueueLimit
          /\ ~Evicts(s, size)
      BY <1>1, <2>1, <2>6, LimitAssumption DEF Enqueues, Overflows, Evicts
    <3> DEFINE q == queue[s]  n == Append(q, Last + 1)
    <3>2. /\ queue'[s] = n /\ queuedBytes'[s] = queuedBytes[s] + size /\ slot'[s] = "open"
      BY <2>2, <2>6, <3>1
    <3>3. /\ n \in Seq(Nat) /\ n # <<>> /\ Len(n) = Len(q) + 1 /\ Len(n) =< QueueLimit
          /\ \A i \in 1..Len(q) : n[i] = q[i]
          /\ n[Len(q) + 1] = Last + 1
      <4>1. QueueLimit \in Nat /\ Last + 1 \in Nat
        BY <1>1, LimitAssumption
      <4>2. /\ n \in Seq(Nat) /\ Len(n) = Len(q) + 1
            /\ \A i \in 1..Len(q) : n[i] = q[i]
            /\ n[Len(q) + 1] = Last + 1
        BY <2>1, <4>1, AppendFacts
      <4>3. Len(q) + 1 =< QueueLimit /\ Len(n) # 0
        BY <2>1, <3>1, <4>1, <4>2
      <4> QED BY <4>2, <4>3
    <3>4. q # <<>> => q[Len(q)] = Last
      BY <2>4, <3>1 DEF QueueInv
    <3>5. \A i \in 1..Len(q) : q[i] = q[1] + i - 1
      BY <2>4 DEF QueueInv
    <3>6. queuedBytes[s] = IF q = <<>> THEN 0 ELSE Between(q[1], q[Len(q)])
      BY <2>4 DEF QueueInv
    <3>7. q \in Seq(Nat) /\ Len(q) \in Nat /\ \A i \in 1..Len(q) : q[i] \in 1..Last
      BY <2>1
    <3> HIDE DEF q, n
    <3>8. n[Len(n)] = Last'
      BY <1>3, <3>3
    <3>9. /\ \A i \in 1..Len(n) : n[i] = n[1] + i - 1
          /\ queuedBytes'[s] = log'[n[Len(n)]].total - log'[n[1]].total + log'[n[1]].size
      <4>1. CASE q = <<>>
        <5>1. Len(n) = 1 /\ n[1] = Last + 1 /\ n[Len(n)] = Last + 1
          BY <3>3, <4>1
        <5>2. queuedBytes'[s] = size
          BY <1>1, <3>2, <3>6, <4>1
        <5>3. log'[n[1]] = new /\ log'[n[Len(n)]] = new
          BY <1>3, <5>1
        <5> QED BY <1>1, <1>4, <5>1, <5>2, <5>3
      <4>2. CASE q # <<>>
        <5>1. Len(q) \in Nat \ {0} /\ q[Len(q)] = Last /\ q[1] \in 1..Last /\ Last \in 1..Last
          BY <1>1, <3>4, <3>7, <4>2
        <5>2. n[1] = q[1] /\ q[Len(q)] = q[1] + Len(q) - 1
          <6>1. 1 \in 1..Len(q) /\ Len(q) \in 1..Len(q)
            BY <5>1
          <6> QED BY <3>3, <3>5, <6>1
        <5>3. \A i \in 1..Len(n) : n[i] = n[1] + i - 1
          <6> SUFFICES ASSUME NEW i \in 1..Len(n) PROVE n[i] = n[1] + i - 1
            OBVIOUS
          <6>1. CASE i \in 1..Len(q)
            BY <3>3, <3>5, <5>2, <6>1
          <6>2. CASE i = Len(q) + 1
            BY <1>1, <3>3, <5>1, <5>2, <6>2
          <6> QED BY <3>3, <3>7, <6>1, <6>2
        <5>4. queuedBytes[s] = log[Last].total - log[q[1]].total + log[q[1]].size
          BY <3>6, <4>2, <5>1 DEF Between
        <5>5. log'[n[Len(n)]] = new /\ log'[n[1]] = log[q[1]]
          BY <1>3, <3>3, <5>1, <5>2
        <5>6. new.total = log[Last].total + size
          BY <1>1, <1>4, <5>1
        <5>7. /\ log[Last].total \in Nat /\ log[q[1]].total \in Nat /\ log[q[1]].size \in Nat
          BY <1>2, <5>1
        <5> QED BY <1>1, <3>2, <5>3, <5>4, <5>5, <5>6, <5>7
      <4> QED BY <4>1, <4>2
    <3>10. queuedBytes'[s] =< ByteLimit
      BY <3>1, <3>2
    <3>11. pc'[s] = "live" => ~catchingUp'[s]
      BY <2>2, <2>4 DEF QueueInv
    <3>12. /\ queue'[s] # <<>> /\ Len(queue'[s]) =< QueueLimit
           /\ \A i \in 1..Len(queue'[s]) : queue'[s][i] = queue'[s][1] + i - 1
           /\ queuedBytes'[s] = Between(queue[s][1], queue[s][Len(queue[s])])'
           /\ queue'[s][Len(queue'[s])] = Last'
      BY <3>2, <3>3, <3>8, <3>9 DEF Between
    <3> QED BY <2>2, <2>3, <3>2, <3>10, <3>11, <3>12 DEF QueueInv
  <2>7. CASE ~Evicts(s, size) /\ ~Enqueues(s, size)
    <3>1. queue'[s] = queue[s] /\ queuedBytes'[s] = queuedBytes[s] /\ slot'[s] = slot[s]
      BY <2>2, <2>7
    <3>2. slot[s] = "open" => catchingUp[s] /\ Len(queue[s]) = QueueLimit
      <4>1. QueueLimit \in Nat /\ Len(queue[s]) \in Nat /\ Len(queue[s]) =< QueueLimit
        BY <2>1, <2>4, LimitAssumption DEF QueueInv
      <4> QED BY <2>7, <4>1 DEF Evicts, Enqueues, Overflows
    <3>3. queue[s] # <<>> =>
            Between(queue[s][1], queue[s][Len(queue[s])])'
              = Between(queue[s][1], queue[s][Len(queue[s])])
      <4> SUFFICES ASSUME queue[s] # <<>>
                   PROVE Between(queue[s][1], queue[s][Len(queue[s])])'
                           = Between(queue[s][1], queue[s][Len(queue[s])])
        OBVIOUS
      <4>1. queue[s][1] \in 1..Last /\ queue[s][Len(queue[s])] \in 1..Last
        <5>1. Len(queue[s]) \in Nat \ {0}
          BY <2>1
        <5> QED BY <2>1, <5>1
      <4> QED BY <1>3, <3>1, <4>1 DEF Between
    <3> QED BY <2>2, <2>3, <2>4, <3>1, <3>2, <3>3 DEF QueueInv
  <2> QED BY <2>5, <2>6, <2>7
<1> QED BY <1>5, <1>7, <1>8 DEF MemoryInv

LEMMA NextKeepsMemory == StreamInv /\ MemoryInv /\ [Next]_vars => MemoryInv'
<1> SUFFICES ASSUME StreamInv, MemoryInv, [Next]_vars PROVE MemoryInv'
  OBVIOUS
<1>1. CASE \E kind \in Kinds, size \in Sizes : Publish(kind, size)
  BY <1>1, PublishKeepsMemory
<1>2. CASE \E s \in Subscribers :
             Consume(s) \/ Abandon(s) \/ \E after \in 0..MaxEvents : Subscribe(s, after)
  BY <1>2, ReaderSteps, ReaderKeepsMemory
<1>3. CASE UNCHANGED vars
  <2>1. \A r \in Subscribers : SameQueue(r)
    BY <1>3 DEF vars, walkVars, slotVars, SameQueue
  <2> QED BY <1>3, <2>1, ReaderKeepsMemory DEF vars, streamVars
<1> QED BY <1>1, <1>2, <1>3 DEF Next

\* However fast producers publish and however slow readers read, the retained
\* window and every reader's queue stay within their limits, and the byte
\* counts are those of what is held (event_stream.py:124-170, :213-233).
THEOREM MemoryStaysBounded == Spec => []MemoryBounded
<1>1. Init => MemoryInv
  BY MemoryInit
<1>2. StreamInv /\ MemoryInv => MemoryBounded
  BY MemoryIsBounded
<1> QED
  BY <1>1, <1>2, NextKeepsMemory, StreamInvariant, PTL DEF Spec
=============================================================================
