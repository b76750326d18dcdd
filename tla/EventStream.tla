----------------------------- MODULE EventStream -----------------------------
(***************************************************************************)
(* core/event_stream.py: ReplayEventStream, the replay, fan-out and lag    *)
(* eviction behind Run event streams, Terminal streams and the server      *)
(* event bus.                                                              *)
(*                                                                         *)
(* Events are the numbers 1..Len(log).  The retention deque is always the  *)
(* suffix lo..Len(log), because a publication appends and trimming only    *)
(* pops on the left.  A subscription is an async generator: its code runs  *)
(* without interruption from one `yield' (or empty queue.get) to the next, *)
(* which the variable turn expresses; publishers run only while no         *)
(* generator does.                                                         *)
(***************************************************************************)
EXTENDS Integers, Sequences

CONSTANTS
  Subscribers,      \* subscription generators
  RetentionLimit,   \* event_retention_limit
  QueueLimit,       \* subscriber_queue_limit
  ByteLimit,        \* byte_limit
  Sizes,            \* sizes an event may have (size_of)
  SettledLimit,     \* FINISHED_RUN_REPLAY_LIMIT, the limit compact gets
  MaxEvents,        \* bound: events published in one behaviour
  Idle              \* no generator is running

\* __init__ rejects limits below one; every producer's events fit the byte
\* limit on their own (a Terminal chunk against four mebibytes; a Run event
\* has size zero because its stream has no byte limit).
ASSUME LimitAssumption ==
  /\ RetentionLimit \in Nat \ {0}
  /\ QueueLimit \in Nat \ {0}
  /\ SettledLimit \in Nat \ {0}
  /\ ByteLimit \in Nat
  /\ Sizes \subseteq 0..ByteLimit
  /\ MaxEvents \in Nat

ASSUME IdleAssumption == Idle \notin Subscribers

VARIABLES
  log,         \* every event published; its sequence number is its index
  lo,          \* first retained sequence number
  turn,        \* the generator executing, or Idle
  pc,          \* where each generator is
  live,        \* the subscription's `live' argument
  cursor,      \* after_sequence
  head,        \* head_yielded
  todo,        \* rest of the list being walked (snapshot or drained events)
  progressed,  \* progressed in this catch-up round
  slot,        \* the _Subscriber: not created, open or closed
  catchingUp,  \* _Subscriber.catching_up
  queue,       \* _Subscriber.queue
  queuedBytes, \* _Subscriber.queued_bytes
  outcome      \* how the subscription ended

streamVars == <<log, lo>>
walkVars == <<cursor, head, todo, progressed>>
slotVars == <<slot, catchingUp, queue, queuedBytes>>
vars == <<streamVars, turn, pc, live, walkVars, slotVars, outcome>>

-----------------------------------------------------------------------------
Kinds == {"plain", "transient", "terminal"}
Last == Len(log)
IsTerminal(e) == e \in 1..Last /\ log[e].kind = "terminal"
\* Run.status is no longer RUNNING: nothing follows the terminal event.
Settled == Last > 0 /\ log[Last].kind = "terminal"

Events == [kind : Kinds, size : Sizes, total : Nat]
\* An event: its kind, its size_of, and the bytes published up to and with it.
Event(kind, size) ==
  [kind |-> kind, size |-> size, total |-> (IF Last = 0 THEN 0 ELSE log[Last].total) + size]
\* _retained_bytes of the window that starts at f.
Bytes(f, l) ==
  IF f > Len(l) THEN 0 ELSE l[Len(l)].total - l[f].total + l[f].size
\* list(self._events)
Snapshot == [i \in 1..(Last - lo + 1) |-> lo + i - 1]

\* Mutated form: one event too many stays retained.
FitsOneMore(f, l) == Len(l) - f =< RetentionLimit /\ Bytes(f, l) =< ByteLimit
Fits(f, l) == Len(l) - f + 1 =< RetentionLimit /\ Bytes(f, l) =< ByteLimit
\* publish pops on the left while either limit is exceeded: where it stops.
Trimmed(l) ==
  {f \in lo..(Len(l) + 1) : Fits(f, l) /\ \A g \in lo..(f - 1) : ~Fits(g, l)}
\* compact keeps the newest event and, before it, the longest unbroken run of
\* events to keep, at most SettledLimit in all: where that run starts.
Keeps(f, l) == Len(l) - f < SettledLimit /\ \A e \in f..(Len(l) - 1) : l[e].kind # "transient"
Compacted(from, l) ==
  {f \in from..Len(l) : Keeps(f, l) /\ \A g \in from..(f - 1) : ~Keeps(g, l)}

Init ==
  /\ log = <<>> /\ lo = 1 /\ turn = Idle
  /\ pc = [s \in Subscribers |-> "new"]
  /\ live = [s \in Subscribers |-> FALSE]
  /\ cursor = [s \in Subscribers |-> 0]
  /\ head = [s \in Subscribers |-> FALSE]
  /\ todo = [s \in Subscribers |-> <<>>]
  /\ progressed = [s \in Subscribers |-> FALSE]
  /\ slot = [s \in Subscribers |-> "none"]
  /\ catchingUp = [s \in Subscribers |-> TRUE]
  /\ queue = [s \in Subscribers |-> <<>>]
  /\ queuedBytes = [s \in Subscribers |-> 0]
  /\ outcome = [s \in Subscribers |-> "none"]

-----------------------------------------------------------------------------
(* Publication *)

\* Mutated form: a full queue drops instead of evicting, as during catch-up.
OverflowsOnBytesOnly(s, size) == queuedBytes[s] + size > ByteLimit
\* _publish_to_subscriber: what one publication does to one subscriber.
Overflows(s, size) ==
  \/ queuedBytes[s] + size > ByteLimit
  \/ Len(queue[s]) >= QueueLimit /\ ~catchingUp[s]
Evicts(s, size) == slot[s] = "open" /\ Overflows(s, size)
Enqueues(s, size) == slot[s] = "open" /\ ~Overflows(s, size) /\ Len(queue[s]) < QueueLimit

FanOut(size) ==
  /\ slot' = [s \in Subscribers |-> IF Evicts(s, size) THEN "closed" ELSE slot[s]]
  /\ queue' = [s \in Subscribers |->
                 IF Evicts(s, size) THEN <<>>
                 ELSE IF Enqueues(s, size) THEN Append(queue[s], Last + 1) ELSE queue[s]]
  /\ queuedBytes' = [s \in Subscribers |->
                       IF Evicts(s, size) THEN 0
                       ELSE IF Enqueues(s, size) THEN queuedBytes[s] + size ELSE queuedBytes[s]]
  /\ outcome' = [s \in Subscribers |-> IF Evicts(s, size) THEN "lagged" ELSE outcome[s]]

\* publish; a Run's terminal event is followed at once by _settle's compact.
Publish(kind, size) ==
  /\ turn = Idle
  /\ ~Settled
  /\ Last < MaxEvents
  /\ log' = Append(log, Event(kind, size))
  /\ \E f \in Trimmed(log') :
       lo' \in IF kind = "terminal" THEN Compacted(f, log') ELSE {f}
  /\ FanOut(size)
  /\ UNCHANGED <<turn, pc, live, walkVars, catchingUp>>

-----------------------------------------------------------------------------
(* The subscription generator *)

Walking == {"replay", "rescan", "drained"}

\* The finally block: the generator is over and its _Subscriber removed.
Finish(s, why) ==
  /\ turn' = Idle
  /\ pc' = [pc EXCEPT ![s] = "ended"]
  /\ slot' = [slot EXCEPT ![s] = IF @ = "open" THEN "closed" ELSE @]
  /\ queue' = [queue EXCEPT ![s] = <<>>]
  /\ queuedBytes' = [queuedBytes EXCEPT ![s] = 0]
  /\ todo' = [todo EXCEPT ![s] = <<>>]
  /\ outcome' = [outcome EXCEPT ![s] = IF @ = "none" THEN why ELSE @]
  /\ UNCHANGED <<streamVars, live, cursor, head, progressed, catchingUp>>

\* The consumer's first __anext__: the snapshot historical replay walks.
Subscribe(s, after) ==
  /\ turn = Idle /\ pc[s] = "new"
  /\ turn' = s
  /\ pc' = [pc EXCEPT ![s] = "replay"]
  /\ live' = [live EXCEPT ![s] = ~Settled]
  /\ cursor' = [cursor EXCEPT ![s] = after]
  /\ todo' = [todo EXCEPT ![s] = Snapshot]
  /\ UNCHANGED <<streamVars, head, progressed, slotVars, outcome>>

\* A later __anext__ continues behind the `yield', or queue.get wakes up.
\* Mutated form: shutting a queue down does not wake the waiting reader.
ResumeOnEvents(s) ==
  /\ turn = Idle
  /\ pc[s] \in Walking \cup {"live"}
  /\ ~(head[s] /\ IsTerminal(cursor[s]))
  /\ pc[s] = "live" => queue[s] # <<>>
  /\ turn' = s
  /\ UNCHANGED <<streamVars, pc, live, walkVars, slotVars, outcome>>
Resume(s) ==
  /\ turn = Idle
  /\ pc[s] \in Walking \cup {"live"}
  /\ ~(head[s] /\ IsTerminal(cursor[s]))
  /\ pc[s] = "live" => queue[s] # <<>> \/ slot[s] = "closed"
  /\ turn' = s
  /\ UNCHANGED <<streamVars, pc, live, walkVars, slotVars, outcome>>

\* Resumed behind the `yield' of the terminal event: return.
ResumeAfterTerminal(s) ==
  /\ turn = Idle
  /\ pc[s] \in Walking \cup {"live"}
  /\ head[s] /\ IsTerminal(cursor[s])
  /\ Finish(s, "terminal")

\* aclosing(): the consumer abandons the generator where it is suspended.
Abandon(s) ==
  /\ turn = Idle
  /\ pc[s] \in Walking \cup {"live"}
  /\ Finish(s, "closed")

\* The next event the generator looks at: of its walk or of its live queue.
Source(s) == IF pc[s] = "live" THEN queue[s] ELSE todo[s]
TakeNext(s) ==
  IF pc[s] = "live"
  THEN /\ queue' = [queue EXCEPT ![s] = Tail(@)]
       /\ queuedBytes' = [queuedBytes EXCEPT ![s] = @ - log[Head(queue[s])].size]
       /\ UNCHANGED todo
  ELSE /\ todo' = [todo EXCEPT ![s] = Tail(@)]
       /\ UNCHANGED <<queue, queuedBytes>>
Looking(s) ==
  /\ turn = s
  /\ pc[s] \in Walking \cup {"live"}
  /\ Source(s) # <<>>
  /\ ~(pc[s] = "rescan" /\ slot[s] = "closed")
\* Mutated form: off by one, a single missing event is not noticed.
skipsTwoEvents(s, e) == head[s] /\ e > cursor[s] + 2
skipsEvents(s, e) == head[s] /\ e > cursor[s] + 1

SkipSeen(s) ==
  /\ Looking(s)
  /\ Head(Source(s)) =< cursor[s]
  /\ TakeNext(s)
  /\ UNCHANGED <<streamVars, turn, pc, live, cursor, head, progressed, slot, catchingUp, outcome>>

Deliver(s) ==
  /\ Looking(s)
  /\ Head(Source(s)) > cursor[s]
  /\ ~skipsEvents(s, Head(Source(s)))
  /\ TakeNext(s)
  /\ cursor' = [cursor EXCEPT ![s] = Head(Source(s))]
  /\ head' = [head EXCEPT ![s] = TRUE]
  /\ progressed' = [progressed EXCEPT ![s] = TRUE]
  /\ turn' = Idle
  /\ UNCHANGED <<streamVars, pc, live, slot, catchingUp, outcome>>

\* The next event is not contiguous any more: evicted like an overflow.
Gap(s) ==
  /\ Looking(s)
  /\ skipsEvents(s, Head(Source(s)))
  /\ Finish(s, "lagged")

\* Historical replay is exhausted and the stream was settled: nothing to wait for.
EndReplay(s) ==
  /\ turn = s /\ pc[s] = "replay" /\ todo[s] = <<>> /\ ~live[s]
  /\ Finish(s, "replayed")

BeginRescan(s) ==
  /\ pc' = [pc EXCEPT ![s] = "rescan"]
  /\ todo' = [todo EXCEPT ![s] = Snapshot]
  /\ progressed' = [progressed EXCEPT ![s] = FALSE]

\* Historical replay is exhausted: register the live queue, start catching up.
Register(s) ==
  /\ turn = s /\ pc[s] = "replay" /\ todo[s] = <<>> /\ live[s]
  /\ slot' = [slot EXCEPT ![s] = "open"]
  /\ BeginRescan(s)
  /\ UNCHANGED <<streamVars, turn, live, cursor, head, catchingUp, queue, queuedBytes, outcome>>

\* The rescan is exhausted, or an eviction stopped it: drain the live queue.
Drain(s) ==
  /\ turn = s /\ pc[s] = "rescan"
  /\ todo[s] = <<>> \/ slot[s] = "closed"
  /\ pc' = [pc EXCEPT ![s] = "drained"]
  /\ todo' = [todo EXCEPT ![s] = queue[s]]
  /\ queue' = [queue EXCEPT ![s] = <<>>]
  /\ queuedBytes' = [queuedBytes EXCEPT ![s] = 0]
  /\ UNCHANGED <<streamVars, turn, live, cursor, head, progressed, slot, catchingUp, outcome>>

\* The end of one catch-up round: closed, another round, or live.
EndRound(s) == turn = s /\ pc[s] = "drained" /\ todo[s] = <<>>
CatchUpClosed(s) ==
  /\ EndRound(s) /\ slot[s] = "closed"
  /\ Finish(s, "lagged")
CatchUpAgain(s) ==
  /\ EndRound(s) /\ slot[s] = "open" /\ progressed[s]
  /\ BeginRescan(s)
  /\ UNCHANGED <<streamVars, turn, live, cursor, head, slotVars, outcome>>
\* Mutated form: catching_up is never reset.
GoLiveStillCatchingUp(s) ==
  /\ EndRound(s) /\ slot[s] = "open" /\ ~progressed[s]
  /\ pc' = [pc EXCEPT ![s] = "live"]
  /\ UNCHANGED <<streamVars, turn, live, walkVars, slotVars, outcome>>
GoLive(s) ==
  /\ EndRound(s) /\ slot[s] = "open" /\ ~progressed[s]
  /\ pc' = [pc EXCEPT ![s] = "live"]
  /\ catchingUp' = [catchingUp EXCEPT ![s] = FALSE]
  /\ UNCHANGED <<streamVars, turn, live, walkVars, slot, queue, queuedBytes, outcome>>

\* await queue.get() on an empty queue: suspend, or QueueShutDown.
LiveWait(s) ==
  /\ turn = s /\ pc[s] = "live" /\ queue[s] = <<>> /\ slot[s] = "open"
  /\ turn' = Idle
  /\ UNCHANGED <<streamVars, pc, live, walkVars, slotVars, outcome>>
LiveShutDown(s) ==
  /\ turn = s /\ pc[s] = "live" /\ queue[s] = <<>> /\ slot[s] = "closed"
  /\ Finish(s, "lagged")

-----------------------------------------------------------------------------
Consume(s) ==
  \/ Resume(s) \/ ResumeAfterTerminal(s)
  \/ SkipSeen(s) \/ Deliver(s) \/ Gap(s)
  \/ EndReplay(s) \/ Register(s) \/ Drain(s)
  \/ CatchUpClosed(s) \/ CatchUpAgain(s) \/ GoLive(s)
  \/ LiveWait(s) \/ LiveShutDown(s)

Next ==
  \/ \E kind \in Kinds, size \in Sizes : Publish(kind, size)
  \/ \E s \in Subscribers :
       \/ \E after \in 0..MaxEvents : Subscribe(s, after)
       \/ Abandon(s)
       \/ Consume(s)

Spec == Init /\ [][Next]_vars

\* The accessor behind a subscription keeps asking for its next event.
FairSpec == Spec /\ \A s \in Subscribers : WF_vars(Consume(s))

-----------------------------------------------------------------------------
(* Properties *)

TypeOK ==
  /\ log \in Seq(Events)
  /\ lo \in 1..(Last + 1)
  /\ turn \in Subscribers \cup {Idle}
  /\ pc \in [Subscribers -> Walking \cup {"new", "live", "ended"}]
  /\ live \in [Subscribers -> BOOLEAN]
  /\ cursor \in [Subscribers -> Nat]
  /\ head \in [Subscribers -> BOOLEAN]
  /\ todo \in [Subscribers -> Seq(Nat)]
  /\ progressed \in [Subscribers -> BOOLEAN]
  /\ slot \in [Subscribers -> {"none", "open", "closed"}]
  /\ catchingUp \in [Subscribers -> BOOLEAN]
  /\ queue \in [Subscribers -> Seq(Nat)]
  /\ queuedBytes \in [Subscribers -> Int]
  /\ outcome \in [Subscribers -> {"none", "terminal", "lagged", "closed", "replayed"}]

\* A subscriber that left catch-up misses nothing: every event published after
\* the last one it yielded still waits in its live queue, so the gap check of
\* the live loop (event_stream.py:204) can only fire behind an eviction.
LiveQueueComplete ==
  \A s \in Subscribers :
    slot[s] = "open" /\ ~catchingUp[s] =>
      \A e \in (cursor[s] + 1)..Last : \E i \in DOMAIN queue[s] : queue[s][i] = e

\* A subscription that ended by itself saw the whole ending: it returns behind
\* the terminal event or, on a settled stream, when nothing newer is retained.
NormalEndSawEverything ==
  \A s \in Subscribers :
    outcome[s] \in {"terminal", "replayed"} => Settled /\ cursor[s] >= Last

\* The memory one stream may hold: the retention window and every live queue
\* stay within their limits, the byte count of a queue does not drift, and the
\* newest event is always retained.
MemoryBounded ==
  /\ Last - lo + 1 =< RetentionLimit
  /\ Bytes(lo, log) =< ByteLimit
  /\ Last > 0 => lo =< Last
  /\ \A s \in Subscribers :
       /\ Len(queue[s]) =< QueueLimit
       /\ queuedBytes[s] \in 0..ByteLimit
       /\ queue[s] = <<>> => queuedBytes[s] = 0

\* A subscriber that keeps reading receives every event published after it
\* registered, unless its subscription ends (evicted, abandoned, terminal).
EveryEventArrives ==
  \A s \in Subscribers, e \in 1..MaxEvents :
    (slot[s] = "open" /\ e =< Last) ~> (cursor[s] >= e \/ pc[s] = "ended")

\* A subscriber of a stream that settled is released: nobody waits for ever
\* on a finished Run.
SettledStreamReleases ==
  \A s \in Subscribers :
    (Settled /\ pc[s] \notin {"new", "ended"} /\ cursor[s] < Last) ~> pc[s] = "ended"

\* What an accessor sees of one subscription is an ordered feed without gaps.
Feed == INSTANCE OrderedFeed WITH
  last <- Last, position <- cursor, started <- [s \in Subscribers |-> pc[s] # "new"],
  over <- [s \in Subscribers |-> pc[s] = "ended"]
RefinesOrderedFeed == Feed!Spec
=============================================================================
