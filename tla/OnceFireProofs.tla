--------------------------- MODULE OnceFireProofs ---------------------------
(***************************************************************************)
(* Proofs about OnceFire, for any instants, bounds and kinds of failure.   *)
(*                                                                         *)
(* An instant that had its Run is used up unless an undo put it back.  The *)
(* job file may still announce a used fire (it is risky), but then its     *)
(* claim is on disk, so that a start after a crash does not repeat it; the *)
(* job in memory is risky only while its task is between the admission and *)
(* the record of its Run, or while it is held.  What keeps it so is the    *)
(* order of the writer: which writes may wait for which caller (OpCalled), *)
(* what each of them may leave on disk (OpSafe), and which may wait before *)
(* which (PairSafe).  An edit that replaces the due before its save lands  *)
(* is the hard part: until then the old job must come back unused, and the *)
(* new instant must not be fired (EditInv).                                *)
(***************************************************************************)
EXTENDS OnceFire, TLAPS

Up == process = "up"
Early == {"slot", "announcing", "admitting"}  \* the claim is on disk, no Run yet
Claimant == {"claiming"} \cup Early
Saving == {"announcing", "recording", "ending", "finalizing", "refused", "cancelled",
           "settling", "abandoning"}
Clearing == {"withdrawing", "abandoned", "consuming"}
Quitting == {"withdrawing", "abandoning", "abandoned", "refused", "cancelled"}

\* The fire of d had its Run; a job that would fire it again; a budget well spent.
Used(d) == fires[d] > 0 /\ d \notin putBack
Risky(j) == Armed(j) /\ Used(j.due)
Counted(j) == j # NoJob /\ j.left = 0 => fires[j.due] > 0

Changing == editing.kind \in {"update", "delete"}
Updating == editing.kind = "update"
\* The job that comes back if the edit in progress fails.
Base == IF Changing THEN editing.before ELSE mem
\* The edit in progress schedules a fire.
Ahead == Updating /\ (Armed(editing.edited) \/ editing.before.due # editing.edited.due)

\* op waits in w; a waits in w before b.
Holds(w, op) == \E i \in DOMAIN w : w[i] = op
Follows(w, a, b) == \E i, j \in DOMAIN w : i < j /\ w[i] = a /\ w[j] = b

\* Nothing runs in a process that is not up, and nothing fires before its time.
Clock ==
  /\ ~Up => phase = "none"
  /\ process = "down" => writer = <<>> /\ editing = NoEdit /\ ~held
  /\ held => phase = "none"
  /\ due <= now
  /\ \A d \in Dues : fires[d] > 0 => d <= now
  /\ phase \in Claimant \cup {"started"} => due # 0
  /\ phase = "started" => fires[due] > 0
  /\ admitted # 0 => fires[admitted] > 0
  /\ phase \in Claimant => ~Used(due)

OneFire == \A d \in Dues : fires[d] <= 1 \/ d \in putBack

\* The job in memory, and the task that works on it.
JobInv ==
  /\ Up /\ Armed(mem) => ~Used(mem.due) \/ held \/ (phase = "started" /\ due = mem.due)
  /\ phase = "sleeping" /\ Active(mem) => Armed(mem)
  /\ phase \in Claimant /\ ~pending => Armed(mem) /\ mem.due = due
  /\ Counted(mem) /\ Counted(disk) /\ Counted(editing.before)

\* The edit in progress: what it may still undo, and what it may already fire.
EditInv ==
  /\ editing.kind \in {"delete", "clear"} => mem = NoJob /\ editing.edited = NoJob
  /\ editing.kind = "none" => editing = NoEdit
  /\ Changing => editing.before # NoJob
  /\ Updating =>
       /\ mem # NoJob /\ editing.edited # NoJob
       /\ mem.due = editing.edited.due /\ mem.left <= editing.edited.left
       /\ editing.before.left # editing.edited.left => editing.edited.left = 1
       /\ editing.before.due # editing.edited.due => editing.edited.left = 1
       /\ Active(mem) => Active(editing.edited)
  /\ phase \in Early /\ Changing => pending
  /\ Up /\ Updating /\ Risky(editing.before) =>
       \/ editing.held
       \/ /\ due = editing.before.due
          /\ phase = "started" \/ (phase = "recording" /\ admitted = due)
  /\ Ahead => /\ fires[editing.edited.due] = 0
              /\ phase \in Early => due # editing.edited.due

\* The two files: a used fire that the job file still announces is claimed.
DiskInv ==
  /\ Risky(disk) => claim = disk.due
  /\ phase \in Early => claim = due \/ (mem = NoJob /\ ~Changing)
  /\ phase \in Early \cup Quitting => ~Risky(disk)
  /\ Up /\ Risky(disk) => Base.due = disk.due
  /\ phase \in Early /\ Armed(disk) /\ disk.due = due => Base.due = due
  /\ phase = "announcing" => Base.due = due
  /\ Up /\ mem = NoJob /\ ~Changing => disk = NoJob

\* A waiting write belongs to a caller that waits for it, or to nobody.
OpCalled(op) ==
  /\ op.by = "fire" =>
       \/ phase = "claiming" /\ op.kind = "claim" /\ op.due = due
       \/ phase \in Saving /\ op.kind = "save" /\ (phase = "abandoning" => ~Armed(op.job))
       \/ phase \in Clearing /\ op.kind = "unclaim"
  /\ op.by = "edit" =>
       \/ Changing /\ op.kind = "save" /\ op.job = editing.edited
       \/ editing.kind = "clear" /\ op.kind = "unclaim"
  /\ op.by = "nobody" =>
       /\ op.kind # "claim"
       /\ Up => /\ phase \notin Executing \ {"claiming"}
                /\ op.kind = "save" => ~Armed(op.job)
  /\ op.by = "stopped" => ~Up /\ op.kind = "claim"

\* What a waiting write may leave on disk: no save brings a used fire back, no
\* claim is taken from one, but by the due of an edit before the edit's save.
OpSafe(op) ==
  /\ op.kind = "save" =>
       /\ ~Risky(op.job) /\ Counted(op.job)
       /\ ~(Up /\ mem = NoJob /\ ~Changing)
  /\ op.kind = "claim" =>
       /\ op.due # 0 /\ ~Used(op.due)
       /\ Risky(disk) /\ disk.due # op.due =>
            Updating /\ editing.before.due = disk.due /\ editing.edited.due = op.due
  /\ op.kind = "unclaim" => ~Risky(disk) /\ op.due = 0

\* Which write may wait before which.
PairSafe(a, b) ==
  /\ a.by = b.by => a.by \notin {"fire", "edit"}
  /\ Up /\ b.by = "nobody" => a.by = "nobody"
  /\ a.by = "edit" /\ b.by = "fire" =>
       phase # "announcing" /\ (editing.kind = "delete" => b.kind # "save")
  /\ a.by = "fire" /\ b.by = "edit" =>
       /\ phase = "claiming" => pending /\ ~(Ahead /\ due = editing.edited.due)
       /\ ~(phase = "recording" /\ Updating /\ Risky(editing.before) /\ ~editing.held)
  /\ a.kind = "claim" /\ b.by = "edit" => ~(Risky(disk) /\ disk.due # a.due)

QueueInv ==
  /\ \A op \in Writes : Holds(writer, op) => OpCalled(op) /\ OpSafe(op)
  /\ \A a, b \in Writes : Follows(writer, a, b) => PairSafe(a, b)
  /\ editing.kind # "none" => \E op \in Writes : Holds(writer, op) /\ op.by = "edit"
  /\ phase = "announcing" => \E op \in Writes : Holds(writer, op) /\ op.by = "fire"

Inv == TypeOK /\ Clock /\ OneFire /\ JobInv /\ EditInv /\ DiskInv /\ QueueInv

(* ----------------------------------------------------------------------- *)
(* The queue of the writer.                                                *)

LEMMA OpTypes ==
  /\ NoJob \in Jobs /\ NoEdit.kind = "none"
  /\ \A by \in {"fire", "edit", "stopped", "nobody"} :
       /\ Unclaim(by) \in Writes /\ Unclaim(by).kind = "unclaim"
       /\ Unclaim(by).by = by /\ Unclaim(by).due = 0
  /\ \A by \in {"fire", "edit", "stopped", "nobody"}, j \in Jobs :
       /\ Save(by, j) \in Writes /\ Save(by, j).kind = "save"
       /\ Save(by, j).by = by /\ Save(by, j).job = j
  /\ \A d \in Dues :
       /\ Claim(d) \in Writes /\ Claim(d).kind = "claim"
       /\ Claim(d).by = "fire" /\ Claim(d).due = d
BY DEF Unclaim, Save, Claim, Writes, Jobs, NoJob, NoEdit

\* A write handed over behind the others.
LEMMA QueueGrows ==
  ASSUME NEW w \in Seq(Writes), NEW op \in Writes
  PROVE  /\ Append(w, op) \in Seq(Writes) /\ Holds(Append(w, op), op)
         /\ \A x \in Writes : Holds(Append(w, op), x) <=> Holds(w, x) \/ x = op
         /\ \A a, b \in Writes : Follows(Append(w, op), a, b) =>
              Follows(w, a, b) \/ (Holds(w, a) /\ b = op)
<1> DEFINE q == Append(w, op)
<1>1. /\ q \in Seq(Writes) /\ Len(q) = Len(w) + 1 /\ q[Len(w) + 1] = op
      /\ \A i \in 1..Len(w) : q[i] = w[i]
      /\ DOMAIN q = 1..(Len(w) + 1) /\ DOMAIN w = 1..Len(w) /\ Len(w) \in Nat
  OBVIOUS
<1> HIDE DEF q
<1>2. \A x \in Writes : Holds(q, x) <=> Holds(w, x) \/ x = op
  BY <1>1 DEF Holds
<1>3. ASSUME NEW a \in Writes, NEW b \in Writes, Follows(q, a, b)
      PROVE  Follows(w, a, b) \/ (Holds(w, a) /\ b = op)
  <2>1. PICK i \in DOMAIN q, j \in DOMAIN q : i < j /\ q[i] = a /\ q[j] = b
    BY <1>3 DEF Follows
  <2>2. i \in 1..Len(w) /\ w[i] = a
    BY <1>1, <2>1
  <2>3. CASE j = Len(w) + 1
    BY <1>1, <2>1, <2>2, <2>3 DEF Holds
  <2>4. CASE j # Len(w) + 1
    <3>1. j \in 1..Len(w) /\ w[j] = b
      BY <1>1, <2>1, <2>4
    <3> QED BY <1>1, <2>1, <2>2, <3>1 DEF Follows
  <2> QED BY <2>3, <2>4
<1>4. Holds(q, op)
  BY <1>2
<1> QED BY <1>1, <1>2, <1>3, <1>4 DEF q

\* The oldest write taken off.
LEMMA QueueServes ==
  ASSUME NEW w \in Seq(Writes), w # <<>>
  PROVE  /\ Tail(w) \in Seq(Writes) /\ Head(w) \in Writes /\ Holds(w, Head(w))
         /\ \A x \in Writes : Holds(Tail(w), x) => Follows(w, Head(w), x) /\ Holds(w, x)
         /\ \A x \in Writes : Holds(w, x) => x = Head(w) \/ Holds(Tail(w), x)
         /\ \A a, b \in Writes : Follows(Tail(w), a, b) => Follows(w, a, b)
<1> DEFINE q == Tail(w)  h == Head(w)
<1>1. /\ q \in Seq(Writes) /\ Len(w) \in Nat /\ Len(w) >= 1
      /\ h = w[1] /\ h \in Writes
      /\ \A i \in 1..(Len(w) - 1) : q[i] = w[i + 1]
      /\ DOMAIN q = 1..(Len(w) - 1) /\ DOMAIN w = 1..Len(w)
  OBVIOUS
<1> HIDE DEF q, h
<1>2. Holds(w, h)
  BY <1>1 DEF Holds
<1>3. ASSUME NEW x \in Writes, Holds(q, x) PROVE Follows(w, h, x) /\ Holds(w, x)
  <2>1. PICK i \in DOMAIN q : q[i] = x
    BY <1>3 DEF Holds
  <2>2. 1 \in DOMAIN w /\ i + 1 \in DOMAIN w /\ 1 < i + 1 /\ w[1] = h /\ w[i + 1] = x
    BY <1>1, <2>1
  <2> QED BY <2>2 DEF Follows, Holds
<1>4. ASSUME NEW x \in Writes, Holds(w, x) PROVE x = h \/ Holds(q, x)
  <2>1. PICK i \in DOMAIN w : w[i] = x
    BY <1>4 DEF Holds
  <2>2. CASE i = 1
    BY <1>1, <2>1, <2>2
  <2>3. CASE i # 1
    <3>1. i - 1 \in DOMAIN q /\ q[i - 1] = x
      BY <1>1, <2>1, <2>3
    <3> QED BY <3>1 DEF Holds
  <2> QED BY <2>2, <2>3
<1>5. ASSUME NEW a \in Writes, NEW b \in Writes, Follows(q, a, b) PROVE Follows(w, a, b)
  <2>1. PICK i \in DOMAIN q, j \in DOMAIN q : i < j /\ q[i] = a /\ q[j] = b
    BY <1>5 DEF Follows
  <2>2. i + 1 \in DOMAIN w /\ j + 1 \in DOMAIN w /\ i + 1 < j + 1 /\ w[i + 1] = a /\ w[j + 1] = b
    BY <1>1, <2>1
  <2> QED BY <2>2 DEF Follows
<1> QED BY <1>1, <1>2, <1>3, <1>4, <1>5 DEF q, h

\* The write renamed when its caller is gone.
Renamed(op, by) == IF op.by = "fire" THEN [op EXCEPT !.by = by] ELSE op

\* The writes of a caller that is gone, renamed.
LEMMA QueueOrphans ==
  ASSUME NEW w \in Seq(Writes), NEW by \in {"stopped", "nobody"}
  PROVE  /\ Orphans(w, by) \in Seq(Writes)
         /\ \A x \in Writes : Holds(Orphans(w, by), x) =>
              \E y \in Writes : Holds(w, y) /\ x = Renamed(y, by)
         /\ \A x \in Writes : Holds(w, x) /\ x.by # "fire" => Holds(Orphans(w, by), x)
         /\ \A a, b \in Writes : Follows(Orphans(w, by), a, b) =>
              \E y, z \in Writes : Follows(w, y, z) /\ a = Renamed(y, by) /\ b = Renamed(z, by)
<1> DEFINE q == Orphans(w, by)
<1>1. \A y \in Writes : Renamed(y, by) \in Writes
  BY DEF Renamed, Writes
<1>2. /\ DOMAIN q = 1..Len(w) /\ DOMAIN w = 1..Len(w) /\ Len(w) \in Nat
      /\ \A i \in 1..Len(w) : w[i] \in Writes /\ q[i] = Renamed(w[i], by)
  BY DEF Orphans, Renamed
<1>3. q \in Seq(Writes)
  <2>1. q = [i \in 1..Len(w) |-> Renamed(w[i], by)]
    BY <1>2 DEF Orphans, Renamed
  <2> HIDE DEF q
  <2>2. \A i \in 1..Len(w) : Renamed(w[i], by) \in Writes
    BY <1>1, <1>2
  <2> QED BY <1>2, <2>1, <2>2
<1> HIDE DEF q
<1>4. ASSUME NEW x \in Writes, Holds(q, x) PROVE \E y \in Writes : Holds(w, y) /\ x = Renamed(y, by)
  BY <1>2, <1>4 DEF Holds
<1>5. ASSUME NEW x \in Writes, Holds(w, x), x.by # "fire" PROVE Holds(q, x)
  <2>1. PICK i \in DOMAIN w : w[i] = x
    BY <1>5 DEF Holds
  <2>2. q[i] = x /\ i \in DOMAIN q
    BY <1>2, <1>5, <2>1 DEF Renamed
  <2> QED BY <2>2 DEF Holds
<1>6. ASSUME NEW a \in Writes, NEW b \in Writes, Follows(q, a, b)
      PROVE  \E y, z \in Writes : Follows(w, y, z) /\ a = Renamed(y, by) /\ b = Renamed(z, by)
  <2>1. PICK i \in DOMAIN q, j \in DOMAIN q : i < j /\ q[i] = a /\ q[j] = b
    BY <1>6 DEF Follows
  <2>2. Follows(w, w[i], w[j]) /\ a = Renamed(w[i], by) /\ b = Renamed(w[j], by) /\ w[i] \in Writes
          /\ w[j] \in Writes
    BY <1>2, <2>1 DEF Follows
  <2> QED BY <2>2
<1> QED BY <1>3, <1>4, <1>5, <1>6 DEF q

LEMMA FollowsHolds == \A w, a, b : Follows(w, a, b) => Holds(w, a) /\ Holds(w, b)
BY DEF Follows, Holds

\* A write was handed over behind those that wait.
Handed(op) ==
  /\ writer' \in Seq(Writes)
  /\ \A x \in Writes : Holds(writer', x) <=> Holds(writer, x) \/ x = op
  /\ \A a, b \in Writes :
       Follows(writer', a, b) => Follows(writer, a, b) \/ (Holds(writer, a) /\ b = op)
  /\ disk' = disk /\ claim' = claim /\ faults' = faults

\* The write h, asked for by its caller, is over.
Served(h, by, ok) ==
  /\ h \in Writes /\ h.by = by /\ Holds(writer, h)
  /\ writer' \in Seq(Writes)
  /\ \A x \in Writes : Holds(writer, x) => x = h \/ (Holds(writer', x) /\ Follows(writer, h, x))
  /\ disk' \in Jobs /\ claim' \in Dues \cup {0} /\ faults' \in 0..MaxFaults
  /\ ok => disk' = IF h.kind = "save" THEN h.job ELSE disk
  /\ ok => claim' = IF h.kind = "save" THEN claim ELSE h.due
  /\ ~ok => disk' = disk /\ claim' = claim

ServedLast(h, by, ok) ==
  /\ Served(h, by, ok)
  /\ \A x \in Writes : Holds(writer', x) => Follows(writer, h, x) /\ Holds(writer, x)
  /\ \A a, b \in Writes : Follows(writer', a, b) =>
       Follows(writer, a, b) /\ Follows(writer, h, a) /\ Follows(writer, h, b)

ServedMore(h, by, ok, op) ==
  /\ Served(h, by, ok) /\ Holds(writer', op)
  /\ \A x \in Writes : Holds(writer', x) => (Follows(writer, h, x) /\ Holds(writer, x)) \/ x = op
  /\ \A a, b \in Writes : Follows(writer', a, b) =>
       \/ Follows(writer, a, b) /\ Follows(writer, h, a) /\ Follows(writer, h, b)
       \/ Follows(writer, h, a) /\ Holds(writer, a) /\ b = op

\* The queue after a caller has handed a write over.
LEMMA HandsOverQueue ==
  ASSUME TypeOK, NEW op \in Writes, HandsOver(op) PROVE Handed(op)
<1>1. writer \in Seq(Writes) /\ writer' = Append(writer, op)
  BY DEF TypeOK, HandsOver
<1>2. /\ Append(writer, op) \in Seq(Writes)
      /\ \A x \in Writes : Holds(Append(writer, op), x) <=> Holds(writer, x) \/ x = op
      /\ \A a, b \in Writes : Follows(Append(writer, op), a, b) =>
           Follows(writer, a, b) \/ (Holds(writer, a) /\ b = op)
  BY <1>1, QueueGrows
<1> QED BY <1>1, <1>2 DEF HandsOver, Stays, Handed

\* The oldest write and the files after it.
LEMMA WrittenQueue ==
  ASSUME TypeOK, NEW by, NEW ok \in BOOLEAN, Written(by, ok)
  PROVE  /\ Head(writer) \in Writes /\ Head(writer).by = by /\ Holds(writer, Head(writer))
         /\ Tail(writer) \in Seq(Writes)
         /\ \A x \in Writes :
              Holds(Tail(writer), x) => Follows(writer, Head(writer), x) /\ Holds(writer, x)
         /\ \A x \in Writes : Holds(writer, x) => x = Head(writer) \/ Holds(Tail(writer), x)
         /\ \A a, b \in Writes : Follows(Tail(writer), a, b) => Follows(writer, a, b)
         /\ disk' \in Jobs /\ claim' \in Dues \cup {0} /\ faults' \in 0..MaxFaults
         /\ ok => disk' = IF Head(writer).kind = "save" THEN Head(writer).job ELSE disk
         /\ ok => claim' = IF Head(writer).kind = "save" THEN claim ELSE Head(writer).due
         /\ ~ok => disk' = disk /\ claim' = claim
<1>1. writer \in Seq(Writes) /\ writer # <<>> /\ Head(writer).by = by
  BY DEF TypeOK, Written
<1>2. Head(writer) \in Writes
  BY <1>1, QueueServes
<1>3. Head(writer).job \in Jobs /\ Head(writer).due \in Dues \cup {0}
  BY <1>2 DEF Writes
<1>4. disk' \in Jobs /\ claim' \in Dues \cup {0} /\ faults' \in 0..MaxFaults
  BY <1>3, BoundAssumption DEF Written, TypeOK
<1> QED BY <1>1, <1>4, QueueServes DEF Written

\* A write lands and its caller asks for no other.
LEMMA LandsLast ==
  ASSUME TypeOK, NEW by, NEW ok \in BOOLEAN, Lands(by, ok, <<>>)
  PROVE  \E h \in Writes : ServedLast(h, by, ok)
<1>1. Written(by, ok) /\ writer' = Tail(writer) \o <<>>
  BY DEF Lands
<1>2. Tail(writer) \in Seq(Writes)
  BY <1>1, WrittenQueue
<1>3. writer' = Tail(writer)
  BY <1>1, <1>2
<1>4. ServedLast(Head(writer), by, ok)
  BY <1>1, <1>2, <1>3, WrittenQueue, FollowsHolds DEF ServedLast, Served
<1> QED BY <1>1, <1>4, WrittenQueue

\* A write lands and its caller hands the next one over.
LEMMA LandsMore ==
  ASSUME TypeOK, NEW by, NEW ok \in BOOLEAN, NEW op \in Writes, Lands(by, ok, <<op>>)
  PROVE  \E h \in Writes : ServedMore(h, by, ok, op)
<1>1. Written(by, ok) /\ writer' = Tail(writer) \o <<op>>
  BY DEF Lands
<1>2. Tail(writer) \in Seq(Writes)
  BY <1>1, WrittenQueue
<1>3. writer' = Append(Tail(writer), op)
  BY <1>1, <1>2
<1>4. /\ Append(Tail(writer), op) \in Seq(Writes) /\ Holds(Append(Tail(writer), op), op)
      /\ \A x \in Writes : Holds(Append(Tail(writer), op), x) <=> Holds(Tail(writer), x) \/ x = op
      /\ \A a, b \in Writes : Follows(Append(Tail(writer), op), a, b) =>
           Follows(Tail(writer), a, b) \/ (Holds(Tail(writer), a) /\ b = op)
  BY <1>2, QueueGrows
<1>5. ServedMore(Head(writer), by, ok, op)
  <2>1. Served(Head(writer), by, ok)
    BY <1>1, <1>3, <1>4, WrittenQueue DEF Served
  <2>2. \A x \in Writes : Holds(writer', x) =>
          (Follows(writer, Head(writer), x) /\ Holds(writer, x)) \/ x = op
    BY <1>1, <1>3, <1>4, WrittenQueue
  <2>3. \A a, b \in Writes : Follows(writer', a, b) =>
          \/ /\ Follows(writer, a, b)
             /\ Follows(writer, Head(writer), a) /\ Follows(writer, Head(writer), b)
          \/ Follows(writer, Head(writer), a) /\ Holds(writer, a) /\ b = op
    <3> SUFFICES ASSUME NEW a \in Writes, NEW b \in Writes, Follows(writer', a, b)
                 PROVE  \/ /\ Follows(writer, a, b)
                           /\ Follows(writer, Head(writer), a) /\ Follows(writer, Head(writer), b)
                        \/ Follows(writer, Head(writer), a) /\ Holds(writer, a) /\ b = op
      OBVIOUS
    <3>1. CASE Follows(Tail(writer), a, b)
      <4>1. Holds(Tail(writer), a) /\ Holds(Tail(writer), b)
        BY <3>1, FollowsHolds
      <4> QED BY <1>1, <3>1, <4>1, WrittenQueue
    <3>2. CASE Holds(Tail(writer), a) /\ b = op
      BY <1>1, <3>2, WrittenQueue
    <3> QED BY <1>3, <1>4, <3>1, <3>2
  <2>4. Holds(writer', op)
    BY <1>3, <1>4
  <2> QED BY <2>1, <2>2, <2>3, <2>4 DEF ServedMore
<1> QED BY <1>1, <1>5, WrittenQueue

(* ----------------------------------------------------------------------- *)
(* The job, its files and its writes.                                      *)

\* The small predicates on the state are expanded from here on.
USE DEF Up, Early, Claimant, Saving, Clearing, Quitting, Active, Armed, Used, Risky, Counted,
  Changing,
        Updating, Base, Ahead

\* What is known of the job while its task is about.
LEMMA TaskFacts ==
  ASSUME Inv, phase # "none"
  PROVE  Up /\ ~held /\ Counted(mem) /\ (phase # "started" \/ mem.due # due => ~Risky(mem))
BY DEF Inv, Clock, JobInv

\* What a write that ends leaves on the disk.
SafelyServed(h) ==
  /\ OpCalled(h) /\ OpSafe(h)
  /\ \A x \in Writes : Follows(writer, h, x) =>
       OpCalled(x) /\ OpSafe(x) /\ PairSafe(h, x) /\ Holds(writer, x)
  /\ disk' # disk => h.kind = "save" /\ disk' = h.job
  /\ claim' # claim => h.kind # "save" /\ claim' = h.due
  /\ Counted(disk')
  /\ h.kind # "save" /\ h.by # "edit" => ~Risky(disk)
  /\ Risky(disk') => Risky(disk) /\ disk' = disk /\ claim' = claim /\ claim = disk.due
  /\ Up /\ mem = NoJob /\ ~Changing => disk' = NoJob
  /\ editing.kind # "none" /\ h.by # "edit" =>
       \E x \in Writes : Follows(writer, h, x) /\ x.by = "edit"

\* A write that lands in a state of the invariant leaves what it may.
LEMMA ServedSafely ==
  ASSUME Inv, NEW h \in Writes, NEW by, NEW ok \in BOOLEAN, Served(h, by, ok)
  PROVE  SafelyServed(h)
<1>1. TypeOK /\ Clock /\ OneFire /\ JobInv /\ EditInv /\ DiskInv /\ QueueInv
  BY DEF Inv
<1>2. OpCalled(h) /\ OpSafe(h)
  BY <1>1 DEF Served, QueueInv
<1>3. \A x \in Writes : Follows(writer, h, x) =>
        OpCalled(x) /\ OpSafe(x) /\ PairSafe(h, x) /\ Holds(writer, x)
  BY <1>1, FollowsHolds DEF QueueInv
<1>4. /\ disk' # disk => h.kind = "save" /\ disk' = h.job
      /\ claim' # claim => h.kind # "save" /\ claim' = h.due
  BY DEF Served
<1>5. Counted(disk')
  BY <1>1, <1>2, <1>4 DEF JobInv, OpSafe
<1>6. editing.kind # "none" /\ h.by # "edit" =>
        \E x \in Writes : Follows(writer, h, x) /\ x.by = "edit"
  BY <1>1 DEF QueueInv, Served
<1>7. h.kind # "save" /\ h.by # "edit" => ~Risky(disk)
  <2> SUFFICES ASSUME h.kind # "save", h.by # "edit", Risky(disk) PROVE FALSE
    OBVIOUS
  <2>1. h.kind = "claim"
    BY <1>2 DEF OpSafe, Writes
  <2>2. disk.due # h.due /\ editing.kind = "update"
    BY <1>2, <2>1 DEF OpSafe
  <2>3. PICK x \in Writes : Follows(writer, h, x) /\ x.by = "edit"
    BY <1>6, <2>2
  <2> QED BY <1>3, <2>1, <2>2, <2>3 DEF PairSafe
<1>8. Risky(disk') => Risky(disk) /\ disk' = disk /\ claim' = claim /\ claim = disk.due
  <2> SUFFICES ASSUME Risky(disk') PROVE Risky(disk) /\ disk' = disk /\ claim' = claim
        /\ claim = disk.due
    OBVIOUS
  <2>1. disk' = disk
    BY <1>2, <1>4 DEF OpSafe
  <2>2. Risky(disk) /\ claim = disk.due
    BY <1>1, <2>1 DEF DiskInv
  <2>3. CASE h.by # "edit"
    BY <1>4, <1>7, <2>1, <2>2, <2>3
  <2>4. CASE h.by = "edit"
    BY <1>2, <1>4, <2>1, <2>2, <2>4 DEF OpCalled, OpSafe
  <2> QED BY <2>1, <2>2, <2>3, <2>4
<1>9. Up /\ mem = NoJob /\ ~Changing => disk' = NoJob
  BY <1>1, <1>2, <1>4 DEF DiskInv, OpSafe
<1> QED BY <1>2, <1>3, <1>4, <1>5, <1>6, <1>7, <1>8, <1>9 DEF SafelyServed

(* ----------------------------------------------------------------------- *)
(* The jobs.                                                               *)

LEMMA JobTypes ==
  \A j \in Jobs : j # NoJob =>
    /\ j.due \in Dues /\ j.due # 0 /\ j.left \in 0..1
    /\ j.status \in {"active", "paused", "completed", "failed"}
BY BoundAssumption DEF Jobs, NoJob, Dues

LEMMA JobWithStatus ==
  ASSUME NEW j \in Jobs, j # NoJob, NEW s \in {"active", "paused", "completed", "failed"},
         NEW k, k = [j EXCEPT !.status = s]
  PROVE  k \in Jobs /\ k # NoJob /\ k.status = s /\ k.due = j.due /\ k.left = j.left
BY BoundAssumption DEF Jobs, NoJob, Dues

LEMMA JobSpent ==
  ASSUME NEW j \in Jobs, j # NoJob, NEW k, k = [j EXCEPT !.left = 0]
  PROVE  k \in Jobs /\ k # NoJob /\ k.status = j.status /\ k.due = j.due /\ k.left = 0
BY BoundAssumption DEF Jobs, NoJob, Dues

LEMMA NoJobIdle == ~Active(NoJob) /\ NoJob.left = 0 /\ NoJob.due = 0
BY DEF NoJob

\* How a fire that admitted no Run goes on.
LEMMA FailsShape ==
  ASSUME TypeOK, NEW ok \in BOOLEAN, Fails(ok)
  PROVE  /\ attempts' \in Nat
         /\ \/ phase' = "sleeping" /\ mem' = mem /\ Lands("fire", ok, <<>>)
            \/ phase' = "ended" /\ mem = NoJob /\ mem' = mem /\ Lands("fire", ok, <<>>)
            \/ /\ phase' = "abandoning" /\ mem # NoJob
               /\ mem' = [mem EXCEPT !.status = "failed"]
               /\ Lands("fire", ok, <<Save("fire", mem')>>)
BY DEF Fails, AttemptFailed, TypeOK

(* ----------------------------------------------------------------------- *)
(* What an edit makes of the queue.                                        *)

LEMMA RenamedFields ==
  ASSUME NEW y \in Writes, NEW by \in {"stopped", "nobody"}
  PROVE  LET x == Renamed(y, by) IN
         /\ x \in Writes /\ x.kind = y.kind /\ x.job = y.job /\ x.due = y.due
         /\ y.by = "fire" => x.by = by
         /\ y.by # "fire" => x = y
BY DEF Renamed, Writes

\* A write whose caller is gone and that does no harm.
Harmless(x) ==
  /\ x.by = "nobody" /\ x.kind # "claim"
  /\ x.kind = "save" => ~Armed(x.job) /\ Counted(x.job)
  /\ x.kind = "unclaim" => ~Risky(disk) /\ x.due = 0

\* What a replaced task leaves in the queue.
LEMMA OrphansAreHarmless ==
  ASSUME Inv, Up, phase \notin Executing, NEW w \in Seq(Writes),
         \A x \in Writes : Holds(w, x) => Holds(writer, x) /\ x.by # "edit"
  PROVE  /\ Orphans(w, "nobody") \in Seq(Writes)
         /\ \A x \in Writes : Holds(Orphans(w, "nobody"), x) => Harmless(x)
<1> DEFINE q == Orphans(w, "nobody")
<1>1. /\ q \in Seq(Writes)
      /\ \A x \in Writes : Holds(q, x) => \E y \in Writes : Holds(w, y) /\ x = Renamed(y, "nobody")
  BY QueueOrphans
<1> HIDE DEF q
<1>2. ASSUME NEW x \in Writes, Holds(q, x) PROVE Harmless(x)
  <2>1. PICK y \in Writes : Holds(w, y) /\ x = Renamed(y, "nobody")
    BY <1>1, <1>2
  <2>2. OpCalled(y) /\ OpSafe(y) /\ y.by # "edit"
    BY <2>1 DEF Inv, QueueInv
  <2>3. /\ x.kind = y.kind /\ x.job = y.job /\ x.due = y.due
        /\ y.by = "fire" => x.by = "nobody"
        /\ y.by # "fire" => x.by = y.by
    BY <2>1, RenamedFields
  <2>4. y.by \in {"fire", "nobody"} /\ y.kind # "claim" /\ (y.kind = "save" => ~Armed(y.job))
    BY <2>2 DEF OpCalled, Executing, Writes
  <2> QED BY <2>2, <2>3, <2>4 DEF Harmless, OpSafe
<1> QED BY <1>1, <1>2 DEF q

\* An edit or a deletion ends or replaces the task.
LEMMA ReplacesShape ==
  ASSUME TypeOK, NEW start, NEW op \in Writes, Replaces(start, writer, <<op>>), Stays
  PROVE  \/ /\ phase \in Executing /\ pending' = TRUE /\ Handed(op)
            /\ UNCHANGED <<phase, due, attempts, success>>
         \/ /\ phase \notin Executing /\ phase' = start /\ due' = 0 /\ attempts' = 0
            /\ success' = FALSE /\ pending' = pending
            /\ writer' = Append(Orphans(writer, "nobody"), op)
<1>1. writer \in Seq(Writes) /\ Orphans(writer, "nobody") \in Seq(Writes)
  BY QueueOrphans DEF TypeOK
<1>2. /\ writer \o <<op>> = Append(writer, op)
      /\ Orphans(writer, "nobody") \o <<op>> = Append(Orphans(writer, "nobody"), op)
  BY <1>1
<1>3. CASE phase \in Executing
  <2>1. HandsOver(op)
    BY <1>2, <1>3 DEF Replaces, HandsOver
  <2> QED BY <1>3, <2>1, HandsOverQueue DEF Replaces
<1>4. CASE phase \notin Executing
  BY <1>2, <1>4 DEF Replaces
<1> QED BY <1>3, <1>4

\* The queue after that, without an edit before.
LEMMA ReplacedQueue ==
  ASSUME Inv, Up, phase \notin Executing, editing = NoEdit, NEW op \in Writes,
         writer' = Append(Orphans(writer, "nobody"), op)
  PROVE  /\ writer' \in Seq(Writes) /\ Holds(writer', op)
         /\ \A x \in Writes : Holds(writer', x) => x = op \/ Harmless(x)
         /\ \A a, b \in Writes : Follows(writer', a, b) => Harmless(a) /\ (b = op \/ Harmless(b))
<1> DEFINE q == Orphans(writer, "nobody")
<1>1. \A x \in Writes : Holds(writer, x) => x.by # "edit"
  BY OpTypes DEF Inv, QueueInv, OpCalled
<1>2. q \in Seq(Writes) /\ \A x \in Writes : Holds(q, x) => Harmless(x)
  BY <1>1, OrphansAreHarmless DEF Inv, TypeOK
<1> HIDE DEF q
<1>3. /\ Append(q, op) \in Seq(Writes) /\ Holds(Append(q, op), op)
      /\ \A x \in Writes : Holds(Append(q, op), x) <=> Holds(q, x) \/ x = op
      /\ \A a, b \in Writes : Follows(Append(q, op), a, b) =>
           Follows(q, a, b) \/ (Holds(q, a) /\ b = op)
  BY <1>2, QueueGrows
<1>4. writer' = Append(q, op)
  BY DEF q
<1> QED BY <1>2, <1>3, <1>4, FollowsHolds

(* ----------------------------------------------------------------------- *)
(* Each action keeps the invariant: first the task.                        *)

LEMMA TakeSlotKeepsInv == ASSUME Inv, TakeSlot PROVE Inv'
<1>1. TypeOK /\ Clock /\ OneFire /\ JobInv /\ EditInv /\ DiskInv /\ QueueInv
  BY DEF Inv
<1>2. /\ phase = "slot"
      /\ UNCHANGED <<now, process, held, editing, putBack, edits, crashes, mem, due, attempts,
           success, admitted, fires>>
      /\ pending' = pending /\ (pending' <=> pending) /\ (held' <=> held)
  BY <1>1 DEF TakeSlot, FireOnly, TypeOK
<1>3. CASE Withdrawn
  <2>1. PICK op \in Writes : /\ op.kind = "unclaim" /\ op.by = "fire" /\ op.due = 0
                             /\ HandsOver(op) /\ phase' = "withdrawing"
    BY <1>3, OpTypes DEF TakeSlot
  <2>2. Handed(op)
    BY <1>1, <2>1, HandsOverQueue
  <2>3. TypeOK'
    BY <1>1, <1>2, <2>1, <2>2 DEF TypeOK, Handed, Phases, Executing
  <2>4. Clock' /\ OneFire'
    BY <1>1, <1>2, <2>1, <2>2 DEF Clock, Handed, OneFire
  <2>5. JobInv'
    BY <1>1, <1>2, <2>1, <2>2 DEF JobInv, Handed
  <2>6. EditInv'
    BY <1>1, <1>2, <2>1, <2>2 DEF EditInv, Handed
  <2>7. DiskInv'
    BY <1>1, <1>2, <2>1, <2>2 DEF DiskInv, Handed
  <2>8. QueueInv'
    BY <1>1, <1>2, <2>1, <2>2 DEF QueueInv, OpCalled, OpSafe, PairSafe, Handed, Executing, DiskInv
  <2> QED BY <2>3, <2>4, <2>5, <2>6, <2>7, <2>8 DEF Inv
<1>4. CASE ~Withdrawn
  <2>1. PICK op \in Writes : /\ op.kind = "save" /\ op.by = "fire" /\ op.job = mem
                             /\ HandsOver(op) /\ phase' = "announcing"
    BY <1>1, <1>4, OpTypes DEF TakeSlot, TypeOK
  <2>2. Handed(op)
    BY <1>1, <2>1, HandsOverQueue
  <2>3. TypeOK'
    BY <1>1, <1>2, <2>1, <2>2 DEF TypeOK, Handed, Phases, Executing
  <2>4. Clock' /\ OneFire'
    BY <1>1, <1>2, <2>1, <2>2 DEF Clock, Handed, OneFire
  <2>5. JobInv'
    BY <1>1, <1>2, <2>1, <2>2 DEF JobInv, Handed
  <2>6. EditInv'
    BY <1>1, <1>2, <2>1, <2>2 DEF EditInv, Handed
  <2>7. DiskInv'
    BY <1>1, <1>2, <1>4, <2>1, <2>2 DEF DiskInv, Handed, Withdrawn, EditInv, JobInv
  <2>8. QueueInv'
    <3>1. /\ Up /\ ~Risky(mem) /\ mem # NoJob /\ Counted(mem)
          /\ editing.kind # "clear" /\ ~Changing
      BY <1>1, <1>2, <1>4 DEF Clock, JobInv, EditInv, Withdrawn, NoJob
    <3>2. OpCalled(op)' /\ OpSafe(op)'
      BY <1>2, <2>1, <2>2, <3>1 DEF OpCalled, OpSafe
    <3>3. ASSUME NEW o \in Writes, Holds(writer, o)
          PROVE  OpCalled(o)' /\ OpSafe(o)' /\ PairSafe(o, op)'
      <4>1. OpCalled(o) /\ OpSafe(o)
        BY <1>1, <3>3 DEF QueueInv
      <4>2. OpCalled(o)'
        BY <1>1, <1>2, <2>1, <2>2, <4>1, <3>3 DEF OpCalled, Handed, Executing
      <4>3. OpSafe(o)'
        BY <1>1, <1>2, <2>1, <2>2, <4>1, <3>3 DEF OpSafe, Handed
      <4>4. PairSafe(o, op)'
        BY <1>1, <1>2, <2>1, <2>2, <3>1, <4>1, <3>3 DEF OpCalled, PairSafe, Handed
      <4> QED BY <4>2, <4>3, <4>4
    <3>4. ASSUME NEW a \in Writes, NEW b \in Writes, Follows(writer, a, b) PROVE PairSafe(a, b)'
      BY <1>1, <1>2, <2>1, <2>2, <3>4, FollowsHolds DEF QueueInv, PairSafe, OpCalled, Handed
    <3> QED BY <1>1, <1>2, <2>1, <2>2, <3>2, <3>3, <3>4 DEF QueueInv, Handed
  <2> QED BY <2>3, <2>4, <2>5, <2>6, <2>7, <2>8 DEF Inv
<1> QED BY <1>3, <1>4

LEMMA RefuseKeepsInv == ASSUME Inv, NEW cancelled \in BOOLEAN, Refuse(cancelled) PROVE Inv'
<1>1. TypeOK /\ Clock /\ OneFire /\ JobInv /\ EditInv /\ DiskInv /\ QueueInv
  BY DEF Inv
<1>2. /\ UNCHANGED <<now, process, held, editing, putBack, edits, crashes, mem, due, admitted,
           fires, pending>>
      /\ attempts' \in Nat /\ success' \in BOOLEAN /\ (pending' <=> pending) /\ (held' <=> held)
      /\ phase = "admitting"
      /\ Up /\ ~held /\ Counted(mem) /\ (phase # "started" \/ mem.due # due => ~Risky(mem))
  BY <1>1, TaskFacts DEF Refuse, FireOnly, TypeOK
<1>3. CASE mem = NoJob
  <2>1. HandsOver(Unclaim("fire")) /\ phase' = "withdrawing"
    BY <1>1, <1>3 DEF Refuse
  <2>2. PICK op \in Writes : op.kind = "unclaim" /\ op.by = "fire" /\ op.due = 0 /\ HandsOver(op)
                               /\ phase' = "withdrawing"
    BY <1>1, <2>1, OpTypes DEF TypeOK
  <2>3. Handed(op)
    BY <1>1, <2>2, HandsOverQueue
  <2>4. TypeOK'
    BY <1>1, <1>2, <1>3, <2>2, <2>3 DEF TypeOK, Phases, Executing, Handed
  <2>5. Clock'
    BY <1>1, <1>2, <1>3, <2>2, <2>3 DEF Clock, Handed
  <2>6. OneFire'
    BY <1>1, <1>2, <1>3, <2>2, <2>3 DEF OneFire
  <2>7. JobInv'
    BY <1>1, <1>2, <1>3, <2>2, <2>3 DEF JobInv, Handed
  <2>8. EditInv'
    BY <1>1, <1>2, <1>3, <2>2, <2>3 DEF EditInv, Handed
  <2>9. DiskInv'
    BY <1>1, <1>2, <1>3, <2>2, <2>3 DEF DiskInv, Handed
  <2>10. QueueInv'
    <3>1. OpCalled(op)' /\ OpSafe(op)'
      BY <1>1, <1>2, <1>3, <2>2, <2>3, <2>9 DEF Handed, OpCalled, OpSafe, DiskInv
    <3>2. ASSUME NEW o \in Writes, Holds(writer, o), OpCalled(o), OpSafe(o)
          PROVE  OpCalled(o)' /\ OpSafe(o)' /\ PairSafe(o, op)'
      BY <1>1, <1>2, <1>3, <2>2, <2>3, <3>2 DEF Handed, OpCalled, OpSafe, PairSafe, Executing,
         EditInv
    <3>3. ASSUME NEW a \in Writes, NEW b \in Writes, Follows(writer, a, b), OpCalled(a),
                 OpCalled(b), PairSafe(a, b)
          PROVE  PairSafe(a, b)'
      BY <1>1, <1>2, <1>3, <2>2, <2>3, <3>3 DEF Handed, OpCalled, PairSafe
    <3> QED BY <1>1, <1>2, <1>3, <2>2, <2>3, <3>1, <3>2, <3>3, FollowsHolds DEF Handed, QueueInv
  <2> QED BY <2>4, <2>5, <2>6, <2>7, <2>8, <2>9, <2>10 DEF Inv
<1>4. CASE mem # NoJob
  <2>1. HandsOver(Save("fire", mem)) /\ phase' = (IF cancelled THEN "cancelled" ELSE "refused")
    BY <1>1, <1>4 DEF Refuse
  <2>2. PICK op \in Writes : op.kind = "save" /\ op.by = "fire" /\ op.job = mem /\ HandsOver(op)
                               /\ phase' = (IF cancelled THEN "cancelled" ELSE "refused")
    BY <1>1, <2>1, OpTypes DEF TypeOK
  <2>3. Handed(op)
    BY <1>1, <2>2, HandsOverQueue
  <2>4. TypeOK'
    BY <1>1, <1>2, <1>4, <2>2, <2>3 DEF TypeOK, Phases, Executing, Handed
  <2>5. Clock'
    BY <1>1, <1>2, <1>4, <2>2, <2>3 DEF Clock, Handed
  <2>6. OneFire'
    BY <1>1, <1>2, <1>4, <2>2, <2>3 DEF OneFire
  <2>7. JobInv'
    BY <1>1, <1>2, <1>4, <2>2, <2>3 DEF JobInv, Handed
  <2>8. EditInv'
    BY <1>1, <1>2, <1>4, <2>2, <2>3 DEF EditInv, Handed
  <2>9. DiskInv'
    BY <1>1, <1>2, <1>4, <2>2, <2>3 DEF DiskInv, Handed
  <2>10. QueueInv'
    <3>1. OpCalled(op)' /\ OpSafe(op)'
      BY <1>1, <1>2, <1>4, <2>2, <2>3, <2>9 DEF Handed, OpCalled, OpSafe, DiskInv
    <3>2. ASSUME NEW o \in Writes, Holds(writer, o), OpCalled(o), OpSafe(o)
          PROVE  OpCalled(o)' /\ OpSafe(o)' /\ PairSafe(o, op)'
      BY <1>1, <1>2, <1>4, <2>2, <2>3, <3>2 DEF Handed, OpCalled, OpSafe, PairSafe, Executing,
         EditInv
    <3>3. ASSUME NEW a \in Writes, NEW b \in Writes, Follows(writer, a, b), OpCalled(a),
                 OpCalled(b), PairSafe(a, b)
          PROVE  PairSafe(a, b)'
      BY <1>1, <1>2, <1>4, <2>2, <2>3, <3>3 DEF Handed, OpCalled, PairSafe
    <3> QED BY <1>1, <1>2, <1>4, <2>2, <2>3, <3>1, <3>2, <3>3, FollowsHolds DEF Handed, QueueInv
  <2> QED BY <2>4, <2>5, <2>6, <2>7, <2>8, <2>9, <2>10 DEF Inv
<1> QED BY <1>3, <1>4

LEMMA RunEndsKeepsInv == ASSUME Inv, NEW succeeds \in BOOLEAN, RunEnds(succeeds) PROVE Inv'
<1>1. TypeOK /\ Clock /\ OneFire /\ JobInv /\ EditInv /\ DiskInv /\ QueueInv
  BY DEF Inv
<1>2. /\ UNCHANGED <<now, process, held, editing, putBack, edits, crashes, mem, due, fires,
           pending>>
      /\ attempts' \in Nat /\ success' \in BOOLEAN /\ (pending' <=> pending) /\ (held' <=> held)
      /\ phase = "running"
      /\ admitted' \in {0, admitted}
      /\ Up /\ ~held /\ Counted(mem) /\ (phase # "started" \/ mem.due # due => ~Risky(mem))
  BY <1>1, TaskFacts DEF RunEnds, FireOnly, TypeOK
<1>3. CASE mem = NoJob
  <2>1. phase' = "ended" /\ UNCHANGED <<disk, claim, faults, writer>>
    BY <1>3 DEF RunEnds, Stays
  <2>2. TypeOK'
    BY <1>1, <1>2, <1>3, <2>1 DEF TypeOK, Phases, Executing
  <2>3. Clock'
    BY <1>1, <1>2, <1>3, <2>1 DEF Clock
  <2>4. OneFire'
    BY <1>1, <1>2, <1>3, <2>1 DEF OneFire
  <2>5. JobInv'
    BY <1>1, <1>2, <1>3, <2>1 DEF JobInv
  <2>6. EditInv'
    BY <1>1, <1>2, <1>3, <2>1 DEF EditInv
  <2>7. DiskInv'
    BY <1>1, <1>2, <1>3, <2>1 DEF DiskInv
  <2>8. QueueInv'
    <3>1. ASSUME NEW o \in Writes, Holds(writer, o), OpCalled(o), OpSafe(o)
          PROVE  OpCalled(o)' /\ OpSafe(o)'
      BY <1>1, <1>2, <1>3, <2>1, <3>1 DEF OpCalled, OpSafe, PairSafe, Executing
    <3>2. ASSUME NEW a \in Writes, NEW b \in Writes, Follows(writer, a, b), OpCalled(a),
                 OpCalled(b), PairSafe(a, b)
          PROVE  PairSafe(a, b)'
      BY <1>1, <1>2, <1>3, <2>1, <3>2 DEF OpCalled, PairSafe
    <3> QED BY <1>1, <1>2, <1>3, <2>1, <3>1, <3>2, FollowsHolds DEF QueueInv
  <2> QED BY <2>2, <2>3, <2>4, <2>5, <2>6, <2>7, <2>8 DEF Inv
<1>4. CASE mem # NoJob
  <2>1. HandsOver(Save("fire", mem)) /\ phase' = "ending"
    BY <1>1, <1>4 DEF RunEnds
  <2>2. PICK op \in Writes : op.kind = "save" /\ op.by = "fire" /\ op.job = mem /\ HandsOver(op)
                               /\ phase' = "ending"
    BY <1>1, <2>1, OpTypes DEF TypeOK
  <2>3. Handed(op)
    BY <1>1, <2>2, HandsOverQueue
  <2>4. TypeOK'
    BY <1>1, <1>2, <1>4, <2>2, <2>3 DEF TypeOK, Phases, Executing, Handed
  <2>5. Clock'
    BY <1>1, <1>2, <1>4, <2>2, <2>3 DEF Clock, Handed
  <2>6. OneFire'
    BY <1>1, <1>2, <1>4, <2>2, <2>3 DEF OneFire
  <2>7. JobInv'
    BY <1>1, <1>2, <1>4, <2>2, <2>3 DEF JobInv, Handed
  <2>8. EditInv'
    BY <1>1, <1>2, <1>4, <2>2, <2>3 DEF EditInv, Handed
  <2>9. DiskInv'
    BY <1>1, <1>2, <1>4, <2>2, <2>3 DEF DiskInv, Handed
  <2>10. QueueInv'
    <3>1. OpCalled(op)' /\ OpSafe(op)'
      BY <1>1, <1>2, <1>4, <2>2, <2>3, <2>9 DEF Handed, OpCalled, OpSafe, DiskInv
    <3>2. ASSUME NEW o \in Writes, Holds(writer, o), OpCalled(o), OpSafe(o)
          PROVE  OpCalled(o)' /\ OpSafe(o)' /\ PairSafe(o, op)'
      BY <1>1, <1>2, <1>4, <2>2, <2>3, <3>2 DEF Handed, OpCalled, OpSafe, PairSafe, Executing,
         EditInv
    <3>3. ASSUME NEW a \in Writes, NEW b \in Writes, Follows(writer, a, b), OpCalled(a),
                 OpCalled(b), PairSafe(a, b)
          PROVE  PairSafe(a, b)'
      BY <1>1, <1>2, <1>4, <2>2, <2>3, <3>3 DEF Handed, OpCalled, PairSafe
    <3> QED BY <1>1, <1>2, <1>4, <2>2, <2>3, <3>1, <3>2, <3>3, FollowsHolds DEF Handed, QueueInv
  <2> QED BY <2>4, <2>5, <2>6, <2>7, <2>8, <2>9, <2>10 DEF Inv
<1> QED BY <1>3, <1>4

LEMMA OrphanEndsKeepsInv == ASSUME Inv, OrphanEnds PROVE Inv'
<1>1. TypeOK /\ Clock /\ OneFire /\ JobInv /\ EditInv /\ DiskInv /\ QueueInv
  BY DEF Inv
<1>2. /\ UNCHANGED <<now, process, held, editing, putBack, edits, crashes, mem, due, fires,
           pending>>
      /\ attempts' \in Nat /\ success' \in BOOLEAN /\ (pending' <=> pending) /\ (held' <=> held)
      /\ phase = "orphaned"
      /\ admitted' = 0
      /\ Up /\ ~held /\ Counted(mem) /\ (phase # "started" \/ mem.due # due => ~Risky(mem))
  BY <1>1, TaskFacts DEF OrphanEnds, FireOnly, TypeOK
<1>3. CASE mem = NoJob
  <2>1. phase' = "ended" /\ UNCHANGED <<disk, claim, faults, writer>>
    BY <1>3 DEF OrphanEnds, Stays
  <2>2. TypeOK'
    BY <1>1, <1>2, <1>3, <2>1 DEF TypeOK, Phases, Executing
  <2>3. Clock'
    BY <1>1, <1>2, <1>3, <2>1 DEF Clock
  <2>4. OneFire'
    BY <1>1, <1>2, <1>3, <2>1 DEF OneFire
  <2>5. JobInv'
    BY <1>1, <1>2, <1>3, <2>1 DEF JobInv
  <2>6. EditInv'
    BY <1>1, <1>2, <1>3, <2>1 DEF EditInv
  <2>7. DiskInv'
    BY <1>1, <1>2, <1>3, <2>1 DEF DiskInv
  <2>8. QueueInv'
    <3>1. ASSUME NEW o \in Writes, Holds(writer, o), OpCalled(o), OpSafe(o)
          PROVE  OpCalled(o)' /\ OpSafe(o)'
      BY <1>1, <1>2, <1>3, <2>1, <3>1 DEF OpCalled, OpSafe, PairSafe, Executing
    <3>2. ASSUME NEW a \in Writes, NEW b \in Writes, Follows(writer, a, b), OpCalled(a),
                 OpCalled(b), PairSafe(a, b)
          PROVE  PairSafe(a, b)'
      BY <1>1, <1>2, <1>3, <2>1, <3>2 DEF OpCalled, PairSafe
    <3> QED BY <1>1, <1>2, <1>3, <2>1, <3>1, <3>2, FollowsHolds DEF QueueInv
  <2> QED BY <2>2, <2>3, <2>4, <2>5, <2>6, <2>7, <2>8 DEF Inv
<1>4. CASE mem # NoJob
  <2>1. HandsOver(Save("fire", mem)) /\ phase' = "settling"
    BY <1>1, <1>4 DEF OrphanEnds
  <2>2. PICK op \in Writes : op.kind = "save" /\ op.by = "fire" /\ op.job = mem /\ HandsOver(op)
                               /\ phase' = "settling"
    BY <1>1, <2>1, OpTypes DEF TypeOK
  <2>3. Handed(op)
    BY <1>1, <2>2, HandsOverQueue
  <2>4. TypeOK'
    BY <1>1, <1>2, <1>4, <2>2, <2>3 DEF TypeOK, Phases, Executing, Handed
  <2>5. Clock'
    BY <1>1, <1>2, <1>4, <2>2, <2>3 DEF Clock, Handed
  <2>6. OneFire'
    BY <1>1, <1>2, <1>4, <2>2, <2>3 DEF OneFire
  <2>7. JobInv'
    BY <1>1, <1>2, <1>4, <2>2, <2>3 DEF JobInv, Handed
  <2>8. EditInv'
    BY <1>1, <1>2, <1>4, <2>2, <2>3 DEF EditInv, Handed
  <2>9. DiskInv'
    BY <1>1, <1>2, <1>4, <2>2, <2>3 DEF DiskInv, Handed
  <2>10. QueueInv'
    <3>1. OpCalled(op)' /\ OpSafe(op)'
      BY <1>1, <1>2, <1>4, <2>2, <2>3, <2>9 DEF Handed, OpCalled, OpSafe, DiskInv
    <3>2. ASSUME NEW o \in Writes, Holds(writer, o), OpCalled(o), OpSafe(o)
          PROVE  OpCalled(o)' /\ OpSafe(o)' /\ PairSafe(o, op)'
      BY <1>1, <1>2, <1>4, <2>2, <2>3, <3>2 DEF Handed, OpCalled, OpSafe, PairSafe, Executing,
         EditInv
    <3>3. ASSUME NEW a \in Writes, NEW b \in Writes, Follows(writer, a, b), OpCalled(a),
                 OpCalled(b), PairSafe(a, b)
          PROVE  PairSafe(a, b)'
      BY <1>1, <1>2, <1>4, <2>2, <2>3, <3>3 DEF Handed, OpCalled, PairSafe
    <3> QED BY <1>1, <1>2, <1>4, <2>2, <2>3, <3>1, <3>2, <3>3, FollowsHolds DEF Handed, QueueInv
  <2> QED BY <2>4, <2>5, <2>6, <2>7, <2>8, <2>9, <2>10 DEF Inv
<1> QED BY <1>3, <1>4

LEMMA AnnounceLandsKeepsInv == ASSUME Inv, NEW ok \in BOOLEAN, AnnounceLands(ok) PROVE Inv'
<1>1. TypeOK /\ Clock /\ OneFire /\ JobInv /\ EditInv /\ DiskInv /\ QueueInv
  BY DEF Inv
<1>2. /\ UNCHANGED <<now, process, held, editing, putBack, edits, crashes, mem, due, admitted,
           fires, pending>>
      /\ attempts' \in Nat /\ success' \in BOOLEAN /\ (pending' <=> pending) /\ (held' <=> held)
      /\ phase = "announcing"
      /\ Up /\ ~held /\ Counted(mem) /\ (phase # "started" \/ mem.due # due => ~Risky(mem))
  BY <1>1, TaskFacts DEF AnnounceLands, FireOnly, TypeOK
<1>3. CASE Withdrawn
  <2>1. PICK op \in Writes : op.kind = "unclaim" /\ op.by = "fire" /\ op.due = 0
                               /\ Lands("fire", ok, <<op>>) /\ phase' = "withdrawing"
    BY <1>1, <1>3, OpTypes DEF AnnounceLands, TypeOK
  <2>2. PICK h \in Writes : ServedMore(h, "fire", ok, op)
    BY <1>1, <2>1, LandsMore
  <2>3. SafelyServed(h)
    BY <2>2, ServedSafely DEF ServedMore
  <2>4. TypeOK'
    BY <1>1, <1>2, <1>3, <2>1, <2>2, <2>3 DEF TypeOK, Phases, Executing, Served, ServedMore
  <2>5. Clock'
    BY <1>1, <1>2, <1>3, <2>1, <2>2, <2>3 DEF Clock, Served, ServedMore
  <2>6. OneFire'
    BY <1>1, <1>2, <1>3, <2>1, <2>2, <2>3 DEF OneFire
  <2>7. JobInv'
    BY <1>1, <1>2, <1>3, <2>1, <2>2, <2>3 DEF JobInv, Served, ServedMore, SafelyServed
  <2>8. EditInv'
    BY <1>1, <1>2, <1>3, <2>1, <2>2, <2>3 DEF EditInv, Served, ServedMore, SafelyServed
  <2>9. DiskInv'
    BY <1>1, <1>2, <1>3, <2>1, <2>2, <2>3 DEF DiskInv, Served, ServedMore, SafelyServed
  <2>10. QueueInv'
    <3>1. OpCalled(op)' /\ OpSafe(op)'
      BY <1>1, <1>2, <1>3, <2>1, <2>2, <2>3, <2>9 DEF Served, ServedMore, OpCalled, OpSafe,
         SafelyServed, DiskInv
    <3>2. ASSUME NEW o \in Writes, Follows(writer, h, o), OpCalled(o), OpSafe(o), PairSafe(h, o)
          PROVE  OpCalled(o)' /\ OpSafe(o)' /\ PairSafe(o, op)'
      BY <1>1, <1>2, <1>3, <2>1, <2>2, <2>3, <3>2 DEF Served, ServedMore, SafelyServed, OpCalled,
         OpSafe, PairSafe, Executing, EditInv
    <3>3. ASSUME NEW a \in Writes, NEW b \in Writes, Follows(writer, a, b), PairSafe(h, a),
                 PairSafe(h, b), OpCalled(a), OpCalled(b), PairSafe(a, b)
          PROVE  PairSafe(a, b)'
      BY <1>1, <1>2, <1>3, <2>1, <2>2, <2>3, <3>3 DEF Served, ServedMore, SafelyServed, OpCalled,
         PairSafe
    <3> QED BY <1>1, <1>2, <1>3, <2>1, <2>2, <2>3, <3>1, <3>2, <3>3, FollowsHolds DEF Served,
       ServedMore, SafelyServed, QueueInv
  <2> QED BY <2>4, <2>5, <2>6, <2>7, <2>8, <2>9, <2>10 DEF Inv
<1>4. CASE ~Withdrawn
  <2>1. phase' = "admitting"
    BY <1>4 DEF AnnounceLands
  <2>2. PICK h \in Writes : ServedLast(h, "fire", ok)
    BY <1>1, <1>4, LandsLast DEF AnnounceLands
  <2>3. SafelyServed(h)
    BY <2>2, ServedSafely DEF ServedLast
  <2>4. TypeOK'
    BY <1>1, <1>2, <1>4, <2>1, <2>2, <2>3 DEF TypeOK, Phases, Executing, Served, ServedLast
  <2>5. Clock'
    BY <1>1, <1>2, <1>4, <2>1, <2>2, <2>3 DEF Clock, Served, ServedLast
  <2>6. OneFire'
    BY <1>1, <1>2, <1>4, <2>1, <2>2, <2>3 DEF OneFire
  <2>7. JobInv'
    BY <1>1, <1>2, <1>4, <2>1, <2>2, <2>3 DEF JobInv, Served, ServedLast, SafelyServed
  <2>8. EditInv'
    BY <1>1, <1>2, <1>4, <2>1, <2>2, <2>3 DEF EditInv, Served, ServedLast, SafelyServed
  <2>9. DiskInv'
    BY <1>1, <1>2, <1>4, <2>1, <2>2, <2>3 DEF DiskInv, Served, ServedLast, SafelyServed, OpCalled
  <2>10. QueueInv'
    <3>1. ASSUME NEW o \in Writes, Follows(writer, h, o), OpCalled(o), OpSafe(o), PairSafe(h, o)
          PROVE  OpCalled(o)' /\ OpSafe(o)'
      BY <1>1, <1>2, <1>4, <2>1, <2>2, <2>3, <3>1 DEF Served, ServedLast, SafelyServed, OpCalled,
         OpSafe, PairSafe, Executing
    <3>2. ASSUME NEW a \in Writes, NEW b \in Writes, Follows(writer, a, b), PairSafe(h, a),
                 PairSafe(h, b), OpCalled(a), OpCalled(b), PairSafe(a, b)
          PROVE  PairSafe(a, b)'
      BY <1>1, <1>2, <1>4, <2>1, <2>2, <2>3, <3>2 DEF Served, ServedLast, SafelyServed, OpCalled,
         PairSafe
    <3> QED BY <1>1, <1>2, <1>4, <2>1, <2>2, <2>3, <3>1, <3>2, FollowsHolds DEF Served, ServedLast,
       SafelyServed, QueueInv
  <2> QED BY <2>4, <2>5, <2>6, <2>7, <2>8, <2>9, <2>10 DEF Inv
<1> QED BY <1>3, <1>4

LEMMA RefusedLandsKeepsInv == ASSUME Inv, NEW ok \in BOOLEAN, RefusedLands(ok) PROVE Inv'
<1>1. TypeOK /\ Clock /\ OneFire /\ JobInv /\ EditInv /\ DiskInv /\ QueueInv
  BY DEF Inv
<1>2. /\ UNCHANGED <<now, process, held, editing, putBack, edits, crashes, mem, due, admitted,
           fires, pending>>
      /\ attempts' \in Nat /\ success' \in BOOLEAN /\ (pending' <=> pending) /\ (held' <=> held)
      /\ phase = "refused"
      /\ Up /\ ~held /\ Counted(mem) /\ (phase # "started" \/ mem.due # due => ~Risky(mem))
  BY <1>1, TaskFacts DEF RefusedLands, FireOnly, TypeOK
<1>3. PICK op \in Writes : op.kind = "unclaim" /\ op.by = "fire" /\ op.due = 0
                             /\ Lands("fire", ok, <<op>>) /\ phase' = "withdrawing"
  BY <1>1, OpTypes DEF RefusedLands, TypeOK
<1>4. PICK h \in Writes : ServedMore(h, "fire", ok, op)
  BY <1>1, <1>3, LandsMore
<1>5. SafelyServed(h)
  BY <1>4, ServedSafely DEF ServedMore
<1>6. TypeOK'
  BY <1>1, <1>2, <1>3, <1>4, <1>5 DEF TypeOK, Phases, Executing, Served, ServedMore
<1>7. Clock'
  BY <1>1, <1>2, <1>3, <1>4, <1>5 DEF Clock, Served, ServedMore
<1>8. OneFire'
  BY <1>1, <1>2, <1>3, <1>4, <1>5 DEF OneFire
<1>9. JobInv'
  BY <1>1, <1>2, <1>3, <1>4, <1>5 DEF JobInv, Served, ServedMore, SafelyServed
<1>10. EditInv'
  BY <1>1, <1>2, <1>3, <1>4, <1>5 DEF EditInv, Served, ServedMore, SafelyServed
<1>11. DiskInv'
  BY <1>1, <1>2, <1>3, <1>4, <1>5 DEF DiskInv, Served, ServedMore, SafelyServed
<1>12. QueueInv'
  <2>1. OpCalled(op)' /\ OpSafe(op)'
    BY <1>1, <1>2, <1>3, <1>4, <1>5, <1>11 DEF Served, ServedMore, OpCalled, OpSafe, SafelyServed,
       DiskInv
  <2>2. ASSUME NEW o \in Writes, Follows(writer, h, o), OpCalled(o), OpSafe(o), PairSafe(h, o)
        PROVE  OpCalled(o)' /\ OpSafe(o)' /\ PairSafe(o, op)'
    BY <1>1, <1>2, <1>3, <1>4, <1>5, <2>2 DEF Served, ServedMore, SafelyServed, OpCalled, OpSafe,
       PairSafe, Executing, EditInv
  <2>3. ASSUME NEW a \in Writes, NEW b \in Writes, Follows(writer, a, b), PairSafe(h, a),
               PairSafe(h, b), OpCalled(a), OpCalled(b), PairSafe(a, b)
        PROVE  PairSafe(a, b)'
    BY <1>1, <1>2, <1>3, <1>4, <1>5, <2>3 DEF Served, ServedMore, SafelyServed, OpCalled, PairSafe
  <2> QED BY <1>1, <1>2, <1>3, <1>4, <1>5, <2>1, <2>2, <2>3, FollowsHolds DEF Served, ServedMore,
     SafelyServed, QueueInv
<1> QED BY <1>6, <1>7, <1>8, <1>9, <1>10, <1>11, <1>12 DEF Inv

LEMMA RecordLandsKeepsInv == ASSUME Inv, NEW ok \in BOOLEAN, RecordLands(ok) PROVE Inv'
<1>1. TypeOK /\ Clock /\ OneFire /\ JobInv /\ EditInv /\ DiskInv /\ QueueInv
  BY DEF Inv
<1>2. /\ UNCHANGED <<now, process, held, editing, putBack, edits, crashes, mem, due, admitted,
           fires, pending>>
      /\ attempts' \in Nat /\ success' \in BOOLEAN /\ (pending' <=> pending) /\ (held' <=> held)
      /\ phase = "recording"
      /\ Up /\ ~held /\ Counted(mem) /\ (phase # "started" \/ mem.due # due => ~Risky(mem))
  BY <1>1, TaskFacts DEF RecordLands, FireOnly, TypeOK
<1>3. phase' = "running"
  BY DEF RecordLands
<1>4. PICK h \in Writes : ServedLast(h, "fire", ok)
  BY <1>1, LandsLast DEF RecordLands
<1>5. SafelyServed(h)
  BY <1>4, ServedSafely DEF ServedLast
<1>6. TypeOK'
  BY <1>1, <1>2, <1>3, <1>4, <1>5 DEF TypeOK, Phases, Executing, Served, ServedLast
<1>7. Clock'
  BY <1>1, <1>2, <1>3, <1>4, <1>5 DEF Clock, Served, ServedLast
<1>8. OneFire'
  BY <1>1, <1>2, <1>3, <1>4, <1>5 DEF OneFire
<1>9. JobInv'
  BY <1>1, <1>2, <1>3, <1>4, <1>5 DEF JobInv, Served, ServedLast, SafelyServed
<1>10. EditInv'
  BY <1>1, <1>2, <1>3, <1>4, <1>5 DEF EditInv, Served, ServedLast, SafelyServed, PairSafe
<1>11. DiskInv'
  BY <1>1, <1>2, <1>3, <1>4, <1>5 DEF DiskInv, Served, ServedLast, SafelyServed
<1>12. QueueInv'
  <2>1. ASSUME NEW o \in Writes, Follows(writer, h, o), OpCalled(o), OpSafe(o), PairSafe(h, o)
        PROVE  OpCalled(o)' /\ OpSafe(o)'
    BY <1>1, <1>2, <1>3, <1>4, <1>5, <2>1 DEF Served, ServedLast, SafelyServed, OpCalled, OpSafe,
       PairSafe, Executing
  <2>2. ASSUME NEW a \in Writes, NEW b \in Writes, Follows(writer, a, b), PairSafe(h, a),
               PairSafe(h, b), OpCalled(a), OpCalled(b), PairSafe(a, b)
        PROVE  PairSafe(a, b)'
    BY <1>1, <1>2, <1>3, <1>4, <1>5, <2>2 DEF Served, ServedLast, SafelyServed, OpCalled, PairSafe
  <2> QED BY <1>1, <1>2, <1>3, <1>4, <1>5, <2>1, <2>2, FollowsHolds DEF Served, ServedLast,
     SafelyServed, QueueInv
<1> QED BY <1>6, <1>7, <1>8, <1>9, <1>10, <1>11, <1>12 DEF Inv

LEMMA SettleLandsKeepsInv == ASSUME Inv, NEW ok \in BOOLEAN, SettleLands(ok) PROVE Inv'
<1>1. TypeOK /\ Clock /\ OneFire /\ JobInv /\ EditInv /\ DiskInv /\ QueueInv
  BY DEF Inv
<1>2. /\ UNCHANGED <<now, process, held, editing, putBack, edits, crashes, mem, due, admitted,
           fires, pending>>
      /\ attempts' \in Nat /\ success' \in BOOLEAN /\ (pending' <=> pending) /\ (held' <=> held)
      /\ phase = "settling"
      /\ Up /\ ~held /\ Counted(mem) /\ (phase # "started" \/ mem.due # due => ~Risky(mem))
  BY <1>1, TaskFacts DEF SettleLands, FireOnly, TypeOK
<1>3. CASE ok
  <2>1. PICK op \in Writes : op.kind = "unclaim" /\ op.by = "fire" /\ op.due = 0
                               /\ Lands("fire", ok, <<op>>) /\ phase' = "consuming"
    BY <1>1, <1>3, OpTypes DEF SettleLands, TypeOK
  <2>2. PICK h \in Writes : ServedMore(h, "fire", ok, op)
    BY <1>1, <2>1, LandsMore
  <2>3. SafelyServed(h)
    BY <2>2, ServedSafely DEF ServedMore
  <2>4. TypeOK'
    BY <1>1, <1>2, <1>3, <2>1, <2>2, <2>3 DEF TypeOK, Phases, Executing, Served, ServedMore
  <2>5. Clock'
    BY <1>1, <1>2, <1>3, <2>1, <2>2, <2>3 DEF Clock, Served, ServedMore
  <2>6. OneFire'
    BY <1>1, <1>2, <1>3, <2>1, <2>2, <2>3 DEF OneFire
  <2>7. JobInv'
    BY <1>1, <1>2, <1>3, <2>1, <2>2, <2>3 DEF JobInv, Served, ServedMore, SafelyServed
  <2>8. EditInv'
    BY <1>1, <1>2, <1>3, <2>1, <2>2, <2>3 DEF EditInv, Served, ServedMore, SafelyServed
  <2>9. DiskInv'
    BY <1>1, <1>2, <1>3, <2>1, <2>2, <2>3 DEF DiskInv, Served, ServedMore, SafelyServed
  <2>10. QueueInv'
    <3>1. OpCalled(op)' /\ OpSafe(op)'
      BY <1>1, <1>2, <1>3, <2>1, <2>2, <2>3, <2>9 DEF Served, ServedMore, OpCalled, OpSafe,
         SafelyServed, DiskInv
    <3>2. ASSUME NEW o \in Writes, Follows(writer, h, o), OpCalled(o), OpSafe(o), PairSafe(h, o)
          PROVE  OpCalled(o)' /\ OpSafe(o)' /\ PairSafe(o, op)'
      BY <1>1, <1>2, <1>3, <2>1, <2>2, <2>3, <3>2 DEF Served, ServedMore, SafelyServed, OpCalled,
         OpSafe, PairSafe, Executing, EditInv
    <3>3. ASSUME NEW a \in Writes, NEW b \in Writes, Follows(writer, a, b), PairSafe(h, a),
                 PairSafe(h, b), OpCalled(a), OpCalled(b), PairSafe(a, b)
          PROVE  PairSafe(a, b)'
      BY <1>1, <1>2, <1>3, <2>1, <2>2, <2>3, <3>3 DEF Served, ServedMore, SafelyServed, OpCalled,
         PairSafe
    <3> QED BY <1>1, <1>2, <1>3, <2>1, <2>2, <2>3, <3>1, <3>2, <3>3, FollowsHolds DEF Served,
       ServedMore, SafelyServed, QueueInv
  <2> QED BY <2>4, <2>5, <2>6, <2>7, <2>8, <2>9, <2>10 DEF Inv
<1>4. CASE ~ok
  <2>1. phase' = "ended"
    BY <1>4 DEF SettleLands
  <2>2. PICK h \in Writes : ServedLast(h, "fire", ok)
    BY <1>1, <1>4, LandsLast DEF SettleLands
  <2>3. SafelyServed(h)
    BY <2>2, ServedSafely DEF ServedLast
  <2>4. TypeOK'
    BY <1>1, <1>2, <1>4, <2>1, <2>2, <2>3 DEF TypeOK, Phases, Executing, Served, ServedLast
  <2>5. Clock'
    BY <1>1, <1>2, <1>4, <2>1, <2>2, <2>3 DEF Clock, Served, ServedLast
  <2>6. OneFire'
    BY <1>1, <1>2, <1>4, <2>1, <2>2, <2>3 DEF OneFire
  <2>7. JobInv'
    BY <1>1, <1>2, <1>4, <2>1, <2>2, <2>3 DEF JobInv, Served, ServedLast, SafelyServed
  <2>8. EditInv'
    BY <1>1, <1>2, <1>4, <2>1, <2>2, <2>3 DEF EditInv, Served, ServedLast, SafelyServed
  <2>9. DiskInv'
    BY <1>1, <1>2, <1>4, <2>1, <2>2, <2>3 DEF DiskInv, Served, ServedLast, SafelyServed
  <2>10. QueueInv'
    <3>1. ASSUME NEW o \in Writes, Follows(writer, h, o), OpCalled(o), OpSafe(o), PairSafe(h, o)
          PROVE  OpCalled(o)' /\ OpSafe(o)'
      BY <1>1, <1>2, <1>4, <2>1, <2>2, <2>3, <3>1 DEF Served, ServedLast, SafelyServed, OpCalled,
         OpSafe, PairSafe, Executing
    <3>2. ASSUME NEW a \in Writes, NEW b \in Writes, Follows(writer, a, b), PairSafe(h, a),
                 PairSafe(h, b), OpCalled(a), OpCalled(b), PairSafe(a, b)
          PROVE  PairSafe(a, b)'
      BY <1>1, <1>2, <1>4, <2>1, <2>2, <2>3, <3>2 DEF Served, ServedLast, SafelyServed, OpCalled,
         PairSafe
    <3> QED BY <1>1, <1>2, <1>4, <2>1, <2>2, <2>3, <3>1, <3>2, FollowsHolds DEF Served, ServedLast,
       SafelyServed, QueueInv
  <2> QED BY <2>4, <2>5, <2>6, <2>7, <2>8, <2>9, <2>10 DEF Inv
<1> QED BY <1>3, <1>4

LEMMA AbandonLandsKeepsInv == ASSUME Inv, NEW ok \in BOOLEAN, AbandonLands(ok) PROVE Inv'
<1>1. TypeOK /\ Clock /\ OneFire /\ JobInv /\ EditInv /\ DiskInv /\ QueueInv
  BY DEF Inv
<1>2. /\ UNCHANGED <<now, process, held, editing, putBack, edits, crashes, mem, due, admitted,
           fires, pending>>
      /\ attempts' \in Nat /\ success' \in BOOLEAN /\ (pending' <=> pending) /\ (held' <=> held)
      /\ phase = "abandoning"
      /\ Up /\ ~held /\ Counted(mem) /\ (phase # "started" \/ mem.due # due => ~Risky(mem))
  BY <1>1, TaskFacts DEF AbandonLands, FireOnly, TypeOK
<1>3. PICK op \in Writes : op.kind = "unclaim" /\ op.by = "fire" /\ op.due = 0
                             /\ Lands("fire", ok, <<op>>) /\ phase' = "abandoned"
  BY <1>1, OpTypes DEF AbandonLands, TypeOK
<1>4. PICK h \in Writes : ServedMore(h, "fire", ok, op)
  BY <1>1, <1>3, LandsMore
<1>5. SafelyServed(h)
  BY <1>4, ServedSafely DEF ServedMore
<1>6. TypeOK'
  BY <1>1, <1>2, <1>3, <1>4, <1>5 DEF TypeOK, Phases, Executing, Served, ServedMore
<1>7. Clock'
  BY <1>1, <1>2, <1>3, <1>4, <1>5 DEF Clock, Served, ServedMore
<1>8. OneFire'
  BY <1>1, <1>2, <1>3, <1>4, <1>5 DEF OneFire
<1>9. JobInv'
  BY <1>1, <1>2, <1>3, <1>4, <1>5 DEF JobInv, Served, ServedMore, SafelyServed
<1>10. EditInv'
  BY <1>1, <1>2, <1>3, <1>4, <1>5 DEF EditInv, Served, ServedMore, SafelyServed
<1>11. DiskInv'
  BY <1>1, <1>2, <1>3, <1>4, <1>5 DEF DiskInv, Served, ServedMore, SafelyServed
<1>12. QueueInv'
  <2>1. OpCalled(op)' /\ OpSafe(op)'
    BY <1>1, <1>2, <1>3, <1>4, <1>5, <1>11 DEF Served, ServedMore, OpCalled, OpSafe, SafelyServed,
       DiskInv
  <2>2. ASSUME NEW o \in Writes, Follows(writer, h, o), OpCalled(o), OpSafe(o), PairSafe(h, o)
        PROVE  OpCalled(o)' /\ OpSafe(o)' /\ PairSafe(o, op)'
    BY <1>1, <1>2, <1>3, <1>4, <1>5, <2>2 DEF Served, ServedMore, SafelyServed, OpCalled, OpSafe,
       PairSafe, Executing, EditInv
  <2>3. ASSUME NEW a \in Writes, NEW b \in Writes, Follows(writer, a, b), PairSafe(h, a),
               PairSafe(h, b), OpCalled(a), OpCalled(b), PairSafe(a, b)
        PROVE  PairSafe(a, b)'
    BY <1>1, <1>2, <1>3, <1>4, <1>5, <2>3 DEF Served, ServedMore, SafelyServed, OpCalled, PairSafe
  <2> QED BY <1>1, <1>2, <1>3, <1>4, <1>5, <2>1, <2>2, <2>3, FollowsHolds DEF Served, ServedMore,
     SafelyServed, QueueInv
<1> QED BY <1>6, <1>7, <1>8, <1>9, <1>10, <1>11, <1>12 DEF Inv

LEMMA LastUnclaimLandsKeepsInv == ASSUME Inv, NEW ok \in BOOLEAN, LastUnclaimLands(ok) PROVE Inv'
<1>1. TypeOK /\ Clock /\ OneFire /\ JobInv /\ EditInv /\ DiskInv /\ QueueInv
  BY DEF Inv
<1>2. /\ UNCHANGED <<now, process, held, editing, putBack, edits, crashes, mem, due, admitted,
           fires, pending>>
      /\ attempts' \in Nat /\ success' \in BOOLEAN /\ (pending' <=> pending) /\ (held' <=> held)
      /\ phase \in {"consuming", "abandoned"}
      /\ Up /\ ~held /\ Counted(mem) /\ (phase # "started" \/ mem.due # due => ~Risky(mem))
  BY <1>1, TaskFacts DEF LastUnclaimLands, FireOnly, TypeOK
<1>3. phase' = "ended"
  BY DEF LastUnclaimLands
<1>4. PICK h \in Writes : ServedLast(h, "fire", ok)
  BY <1>1, LandsLast DEF LastUnclaimLands
<1>5. SafelyServed(h)
  BY <1>4, ServedSafely DEF ServedLast
<1>6. TypeOK'
  BY <1>1, <1>2, <1>3, <1>4, <1>5 DEF TypeOK, Phases, Executing, Served, ServedLast
<1>7. Clock'
  BY <1>1, <1>2, <1>3, <1>4, <1>5 DEF Clock, Served, ServedLast
<1>8. OneFire'
  BY <1>1, <1>2, <1>3, <1>4, <1>5 DEF OneFire
<1>9. JobInv'
  BY <1>1, <1>2, <1>3, <1>4, <1>5 DEF JobInv, Served, ServedLast, SafelyServed
<1>10. EditInv'
  BY <1>1, <1>2, <1>3, <1>4, <1>5 DEF EditInv, Served, ServedLast, SafelyServed
<1>11. DiskInv'
  BY <1>1, <1>2, <1>3, <1>4, <1>5 DEF DiskInv, Served, ServedLast, SafelyServed
<1>12. QueueInv'
  <2>1. ASSUME NEW o \in Writes, Follows(writer, h, o), OpCalled(o), OpSafe(o), PairSafe(h, o)
        PROVE  OpCalled(o)' /\ OpSafe(o)'
    BY <1>1, <1>2, <1>3, <1>4, <1>5, <2>1 DEF Served, ServedLast, SafelyServed, OpCalled, OpSafe,
       PairSafe, Executing
  <2>2. ASSUME NEW a \in Writes, NEW b \in Writes, Follows(writer, a, b), PairSafe(h, a),
               PairSafe(h, b), OpCalled(a), OpCalled(b), PairSafe(a, b)
        PROVE  PairSafe(a, b)'
    BY <1>1, <1>2, <1>3, <1>4, <1>5, <2>2 DEF Served, ServedLast, SafelyServed, OpCalled, PairSafe
  <2> QED BY <1>1, <1>2, <1>3, <1>4, <1>5, <2>1, <2>2, FollowsHolds DEF Served, ServedLast,
     SafelyServed, QueueInv
<1> QED BY <1>6, <1>7, <1>8, <1>9, <1>10, <1>11, <1>12 DEF Inv

LEMMA WakeKeepsInv == ASSUME Inv, Wake PROVE Inv'
<1>1. TypeOK /\ Clock /\ OneFire /\ JobInv /\ EditInv /\ DiskInv /\ QueueInv
  BY DEF Inv
<1>2. /\ UNCHANGED <<now, process, held, editing, putBack, edits, crashes, mem, admitted, fires,
           pending>>
      /\ attempts' \in Nat /\ success' \in BOOLEAN /\ (pending' <=> pending) /\ (held' <=> held)
      /\ phase = "sleeping"
      /\ Armed(mem) /\ due' = mem.due /\ mem.due =< now /\ mem.due \in Dues /\ mem.due # 0
           /\ mem # NoJob
      /\ Up /\ ~held /\ Counted(mem) /\ (phase # "started" \/ mem.due # due => ~Risky(mem))
  BY <1>1, JobTypes, NoJobIdle, TaskFacts DEF Wake, JobInv, FireOnly, TypeOK
<1>3. HandsOver(Claim(mem.due)) /\ phase' = "claiming"
  BY DEF Wake
<1>4. PICK op \in Writes : op.kind = "claim" /\ op.by = "fire" /\ op.due = mem.due /\ HandsOver(op)
  BY <1>2, <1>3, OpTypes
<1>5. Handed(op)
  BY <1>1, <1>4, HandsOverQueue
<1>6. TypeOK'
  BY <1>1, <1>2, <1>3, <1>4, <1>5 DEF TypeOK, Phases, Executing, Handed
<1>7. Clock'
  BY <1>1, <1>2, <1>3, <1>4, <1>5 DEF Clock, Handed
<1>8. OneFire'
  BY <1>1, <1>2, <1>3, <1>4, <1>5 DEF OneFire
<1>9. JobInv'
  BY <1>1, <1>2, <1>3, <1>4, <1>5 DEF JobInv, Handed
<1>10. EditInv'
  BY <1>1, <1>2, <1>3, <1>4, <1>5 DEF EditInv, Handed
<1>11. DiskInv'
  BY <1>1, <1>2, <1>3, <1>4, <1>5 DEF DiskInv, Handed
<1>12. QueueInv'
  <2>1. OpCalled(op)' /\ OpSafe(op)'
    BY <1>1, <1>2, <1>3, <1>4, <1>5, <1>11 DEF Handed, OpCalled, OpSafe, DiskInv, EditInv
  <2>2. ASSUME NEW o \in Writes, Holds(writer, o), OpCalled(o), OpSafe(o)
        PROVE  OpCalled(o)' /\ OpSafe(o)' /\ PairSafe(o, op)'
    BY <1>1, <1>2, <1>3, <1>4, <1>5, <2>2 DEF Handed, OpCalled, OpSafe, PairSafe, Executing, EditInv
  <2>3. ASSUME NEW a \in Writes, NEW b \in Writes, Follows(writer, a, b), OpCalled(a), OpCalled(b),
               PairSafe(a, b)
        PROVE  PairSafe(a, b)'
    BY <1>1, <1>2, <1>3, <1>4, <1>5, <2>3 DEF Handed, OpCalled, PairSafe
  <2> QED BY <1>1, <1>2, <1>3, <1>4, <1>5, <2>1, <2>2, <2>3, FollowsHolds DEF Handed, QueueInv
<1> QED BY <1>6, <1>7, <1>8, <1>9, <1>10, <1>11, <1>12 DEF Inv

LEMMA ClaimLandsKeepsInv == ASSUME Inv, NEW ok \in BOOLEAN, ClaimLands(ok) PROVE Inv'
<1>1. TypeOK /\ Clock /\ OneFire /\ JobInv /\ EditInv /\ DiskInv /\ QueueInv
  BY DEF Inv
<1>2. /\ UNCHANGED <<now, process, held, editing, putBack, edits, crashes, due, admitted, fires,
           pending, success>>
      /\ phase = "claiming" /\ success' \in BOOLEAN /\ (pending' <=> pending) /\ (held' <=> held)
      /\ Up /\ ~held /\ Counted(mem) /\ ~Risky(mem) /\ ~Used(due) /\ due # 0
  BY <1>1, TaskFacts DEF ClaimLands, FireOnly, TypeOK, Clock
<1>3. CASE pending /\ ok
  <2>1. Lands("fire", ok, <<Unclaim("fire")>>) /\ phase' = "withdrawing" /\ mem' = mem
          /\ attempts' \in Nat
    BY <1>1, <1>3 DEF ClaimLands, TypeOK
  <2>2. PICK op \in Writes : op.kind = "unclaim" /\ op.by = "fire" /\ op.due = 0
                               /\ Lands("fire", ok, <<op>>) /\ phase' = "withdrawing" /\ mem' = mem
                               /\ attempts' \in Nat
    BY <1>1, <2>1, OpTypes DEF TypeOK
  <2>3. PICK h \in Writes : ServedMore(h, "fire", ok, op)
    BY <1>1, <2>2, LandsMore
  <2>4. SafelyServed(h)
    BY <2>3, ServedSafely DEF ServedMore
  <2>5. TypeOK'
    BY <1>1, <1>2, <1>3, <2>2, <2>3, <2>4 DEF TypeOK, Phases, Executing, Served, ServedMore
  <2>6. Clock'
    BY <1>1, <1>2, <1>3, <2>2, <2>3, <2>4 DEF Clock, Served, ServedMore
  <2>7. OneFire'
    BY <1>1, <1>2, <1>3, <2>2, <2>3, <2>4 DEF OneFire
  <2>8. JobInv'
    BY <1>1, <1>2, <1>3, <2>2, <2>3, <2>4 DEF JobInv, Served, ServedMore, SafelyServed
  <2>9. EditInv'
    BY <1>1, <1>2, <1>3, <2>2, <2>3, <2>4 DEF EditInv, Served, ServedMore, SafelyServed
  <2>10. DiskInv'
    BY <1>1, <1>2, <1>3, <2>2, <2>3, <2>4 DEF DiskInv, Served, ServedMore, SafelyServed, OpCalled
  <2>11. QueueInv'
    <3>1. OpCalled(op)' /\ OpSafe(op)'
      BY <1>1, <1>2, <1>3, <2>2, <2>3, <2>4, <2>10 DEF Served, ServedMore, OpCalled, OpSafe,
         SafelyServed, DiskInv
    <3>2. ASSUME NEW o \in Writes, Follows(writer, h, o), OpCalled(o), OpSafe(o), PairSafe(h, o)
          PROVE  OpCalled(o)' /\ OpSafe(o)' /\ PairSafe(o, op)'
      BY <1>1, <1>2, <1>3, <2>2, <2>3, <2>4, <3>2 DEF Served, ServedMore, SafelyServed, OpCalled,
         OpSafe, PairSafe, Executing, EditInv
    <3>3. ASSUME NEW a \in Writes, NEW b \in Writes, Follows(writer, a, b), PairSafe(h, a),
                 PairSafe(h, b), OpCalled(a), OpCalled(b), PairSafe(a, b)
          PROVE  PairSafe(a, b)'
      BY <1>1, <1>2, <1>3, <2>2, <2>3, <2>4, <3>3 DEF Served, ServedMore, SafelyServed, OpCalled,
         PairSafe
    <3> QED BY <1>1, <1>2, <1>3, <2>2, <2>3, <2>4, <3>1, <3>2, <3>3, FollowsHolds DEF Served,
       ServedMore, SafelyServed, QueueInv
  <2> QED BY <2>5, <2>6, <2>7, <2>8, <2>9, <2>10, <2>11 DEF Inv
<1>4. CASE pending /\ ~ok
  <2>1. phase' = "ended" /\ mem' = mem /\ attempts' \in Nat
    BY <1>1, <1>4 DEF ClaimLands, TypeOK
  <2>2. PICK h \in Writes : ServedLast(h, "fire", ok)
    BY <1>1, <1>4, LandsLast DEF ClaimLands, TypeOK
  <2>3. SafelyServed(h)
    BY <2>2, ServedSafely DEF ServedLast
  <2>4. TypeOK'
    BY <1>1, <1>2, <1>4, <2>1, <2>2, <2>3 DEF TypeOK, Phases, Executing, Served, ServedLast
  <2>5. Clock'
    BY <1>1, <1>2, <1>4, <2>1, <2>2, <2>3 DEF Clock, Served, ServedLast
  <2>6. OneFire'
    BY <1>1, <1>2, <1>4, <2>1, <2>2, <2>3 DEF OneFire
  <2>7. JobInv'
    BY <1>1, <1>2, <1>4, <2>1, <2>2, <2>3 DEF JobInv, Served, ServedLast, SafelyServed
  <2>8. EditInv'
    BY <1>1, <1>2, <1>4, <2>1, <2>2, <2>3 DEF EditInv, Served, ServedLast, SafelyServed
  <2>9. DiskInv'
    BY <1>1, <1>2, <1>4, <2>1, <2>2, <2>3 DEF DiskInv, Served, ServedLast, SafelyServed
  <2>10. QueueInv'
    <3>1. ASSUME NEW o \in Writes, Follows(writer, h, o), OpCalled(o), OpSafe(o), PairSafe(h, o)
          PROVE  OpCalled(o)' /\ OpSafe(o)'
      BY <1>1, <1>2, <1>4, <2>1, <2>2, <2>3, <3>1 DEF Served, ServedLast, SafelyServed, OpCalled,
         OpSafe, PairSafe, Executing
    <3>2. ASSUME NEW a \in Writes, NEW b \in Writes, Follows(writer, a, b), PairSafe(h, a),
                 PairSafe(h, b), OpCalled(a), OpCalled(b), PairSafe(a, b)
          PROVE  PairSafe(a, b)'
      BY <1>1, <1>2, <1>4, <2>1, <2>2, <2>3, <3>2 DEF Served, ServedLast, SafelyServed, OpCalled,
         PairSafe
    <3> QED BY <1>1, <1>2, <1>4, <2>1, <2>2, <2>3, <3>1, <3>2, FollowsHolds DEF Served, ServedLast,
       SafelyServed, QueueInv
  <2> QED BY <2>4, <2>5, <2>6, <2>7, <2>8, <2>9, <2>10 DEF Inv
<1>5. CASE ~pending /\ ok
  <2>1. phase' = "slot" /\ mem' = mem /\ attempts' \in Nat
    BY <1>1, <1>5 DEF ClaimLands, TypeOK
  <2>2. PICK h \in Writes : ServedLast(h, "fire", ok)
    BY <1>1, <1>5, LandsLast DEF ClaimLands, TypeOK
  <2>3. SafelyServed(h)
    BY <2>2, ServedSafely DEF ServedLast
  <2>4. ~Changing /\ editing.kind # "delete"
    BY <1>1, <1>2, <1>5, <2>1, <2>2, <2>3 DEF SafelyServed, PairSafe, OpCalled, JobInv, ServedLast,
       Served
  <2>5. TypeOK'
    BY <1>1, <1>2, <1>5, <2>1, <2>2, <2>3, <2>4 DEF TypeOK, Phases, Executing, Served, ServedLast
  <2>6. Clock'
    BY <1>1, <1>2, <1>5, <2>1, <2>2, <2>3, <2>4 DEF Clock, Served, ServedLast
  <2>7. OneFire'
    BY <1>1, <1>2, <1>5, <2>1, <2>2, <2>3, <2>4 DEF OneFire
  <2>8. JobInv'
    BY <1>1, <1>2, <1>5, <2>1, <2>2, <2>3, <2>4 DEF JobInv, Served, ServedLast, SafelyServed
  <2>9. EditInv'
    BY <1>1, <1>2, <1>5, <2>1, <2>2, <2>3, <2>4 DEF EditInv, Served, ServedLast, SafelyServed
  <2>10. DiskInv'
    BY <1>1, <1>2, <1>5, <2>1, <2>2, <2>3, <2>4 DEF DiskInv, Served, ServedLast, SafelyServed,
       OpCalled, JobInv
  <2>11. QueueInv'
    <3>1. ASSUME NEW o \in Writes, Follows(writer, h, o), OpCalled(o), OpSafe(o), PairSafe(h, o)
          PROVE  OpCalled(o)' /\ OpSafe(o)'
      BY <1>1, <1>2, <1>5, <2>1, <2>2, <2>3, <2>4, <3>1 DEF Served, ServedLast, SafelyServed,
         OpCalled, OpSafe, PairSafe, Executing
    <3>2. ASSUME NEW a \in Writes, NEW b \in Writes, Follows(writer, a, b), PairSafe(h, a),
                 PairSafe(h, b), OpCalled(a), OpCalled(b), PairSafe(a, b)
          PROVE  PairSafe(a, b)'
      BY <1>1, <1>2, <1>5, <2>1, <2>2, <2>3, <2>4, <3>2 DEF Served, ServedLast, SafelyServed,
         OpCalled, PairSafe
    <3> QED BY <1>1, <1>2, <1>5, <2>1, <2>2, <2>3, <2>4, <3>1, <3>2, FollowsHolds DEF Served,
       ServedLast, SafelyServed, QueueInv
  <2> QED BY <2>5, <2>6, <2>7, <2>8, <2>9, <2>10, <2>11 DEF Inv
<1>6. ASSUME ~pending, Fails(ok), phase' = "sleeping", mem' = mem, Lands("fire", ok, <<>>)
      PROVE  Inv'
  <2>1. attempts' \in Nat
    BY <1>1, <1>6, FailsShape
  <2>2. PICK h \in Writes : ServedLast(h, "fire", ok)
    BY <1>1, <1>6, LandsLast
  <2>3. SafelyServed(h)
    BY <2>2, ServedSafely DEF ServedLast
  <2>4. TypeOK'
    BY <1>1, <1>2, <1>6, <2>1, <2>2, <2>3 DEF TypeOK, Phases, Executing, Served, ServedLast
  <2>5. Clock'
    BY <1>1, <1>2, <1>6, <2>1, <2>2, <2>3 DEF Clock, Served, ServedLast
  <2>6. OneFire'
    BY <1>1, <1>2, <1>6, <2>1, <2>2, <2>3 DEF OneFire
  <2>7. JobInv'
    BY <1>1, <1>2, <1>6, <2>1, <2>2, <2>3 DEF JobInv, Served, ServedLast, SafelyServed
  <2>8. EditInv'
    BY <1>1, <1>2, <1>6, <2>1, <2>2, <2>3 DEF EditInv, Served, ServedLast, SafelyServed
  <2>9. DiskInv'
    BY <1>1, <1>2, <1>6, <2>1, <2>2, <2>3 DEF DiskInv, Served, ServedLast, SafelyServed
  <2>10. QueueInv'
    <3>1. ASSUME NEW o \in Writes, Follows(writer, h, o), OpCalled(o), OpSafe(o), PairSafe(h, o)
          PROVE  OpCalled(o)' /\ OpSafe(o)'
      BY <1>1, <1>2, <1>6, <2>1, <2>2, <2>3, <3>1 DEF Served, ServedLast, SafelyServed, OpCalled,
         OpSafe, PairSafe, Executing
    <3>2. ASSUME NEW a \in Writes, NEW b \in Writes, Follows(writer, a, b), PairSafe(h, a),
                 PairSafe(h, b), OpCalled(a), OpCalled(b), PairSafe(a, b)
          PROVE  PairSafe(a, b)'
      BY <1>1, <1>2, <1>6, <2>1, <2>2, <2>3, <3>2 DEF Served, ServedLast, SafelyServed, OpCalled,
         PairSafe
    <3> QED BY <1>1, <1>2, <1>6, <2>1, <2>2, <2>3, <3>1, <3>2, FollowsHolds DEF Served, ServedLast,
       SafelyServed, QueueInv
  <2> QED BY <2>4, <2>5, <2>6, <2>7, <2>8, <2>9, <2>10 DEF Inv
<1>7. ASSUME ~pending, Fails(ok), phase' = "abandoning", mem # NoJob,
               mem' = [mem EXCEPT !.status = "failed"],
             Lands("fire", ok, <<Save("fire", mem')>>)
      PROVE  Inv'
  <2>1. mem' \in Jobs /\ mem' # NoJob /\ mem'.status = "failed" /\ mem'.due = mem.due
          /\ mem'.left = mem.left
    BY <1>1, <1>7, JobWithStatus DEF TypeOK
  <2>2. attempts' \in Nat
    BY <1>1, <1>7, FailsShape
  <2>3. PICK op \in Writes : op.kind = "save" /\ op.by = "fire" /\ op.job = mem'
                               /\ Lands("fire", ok, <<op>>)
    BY <1>7, <2>1, OpTypes
  <2>4. PICK h \in Writes : ServedMore(h, "fire", ok, op)
    BY <1>1, <2>3, LandsMore
  <2>5. SafelyServed(h)
    BY <2>4, ServedSafely DEF ServedMore
  <2>6. TypeOK'
    BY <1>1, <1>2, <1>7, <2>1, <2>2, <2>3, <2>4, <2>5 DEF TypeOK, Phases, Executing, Served,
       ServedMore
  <2>7. Clock'
    BY <1>1, <1>2, <1>7, <2>1, <2>2, <2>3, <2>4, <2>5 DEF Clock, Served, ServedMore
  <2>8. OneFire'
    BY <1>1, <1>2, <1>7, <2>1, <2>2, <2>3, <2>4, <2>5 DEF OneFire
  <2>9. JobInv'
    BY <1>1, <1>2, <1>7, <2>1, <2>2, <2>3, <2>4, <2>5 DEF JobInv, Served, ServedMore, SafelyServed
  <2>10. EditInv'
    BY <1>1, <1>2, <1>7, <2>1, <2>2, <2>3, <2>4, <2>5 DEF EditInv, Served, ServedMore, SafelyServed
  <2>11. DiskInv'
    BY <1>1, <1>2, <1>7, <2>1, <2>2, <2>3, <2>4, <2>5 DEF DiskInv, Served, ServedMore,
       SafelyServed, OpCalled
  <2>12. QueueInv'
    <3>1. OpCalled(op)' /\ OpSafe(op)'
      BY <1>1, <1>2, <1>7, <2>1, <2>2, <2>3, <2>4, <2>5, <2>11 DEF Served, ServedMore, OpCalled,
         OpSafe, SafelyServed, DiskInv
    <3>2. ASSUME NEW o \in Writes, Follows(writer, h, o), OpCalled(o), OpSafe(o), PairSafe(h, o)
          PROVE  OpCalled(o)' /\ OpSafe(o)' /\ PairSafe(o, op)'
      BY <1>1, <1>2, <1>7, <2>1, <2>2, <2>3, <2>4, <2>5, <3>2 DEF Served, ServedMore, SafelyServed,
         OpCalled, OpSafe, PairSafe, Executing, EditInv
    <3>3. ASSUME NEW a \in Writes, NEW b \in Writes, Follows(writer, a, b), PairSafe(h, a),
                 PairSafe(h, b), OpCalled(a), OpCalled(b), PairSafe(a, b)
          PROVE  PairSafe(a, b)'
      BY <1>1, <1>2, <1>7, <2>1, <2>2, <2>3, <2>4, <2>5, <3>3 DEF Served, ServedMore, SafelyServed,
         OpCalled, PairSafe
    <3> QED BY <1>1, <1>2, <1>7, <2>1, <2>2, <2>3, <2>4, <2>5, <3>1, <3>2, <3>3, FollowsHolds
       DEF Served, ServedMore, SafelyServed, QueueInv
  <2> QED BY <2>6, <2>7, <2>8, <2>9, <2>10, <2>11, <2>12 DEF Inv
<1>8. CASE ~pending /\ ~ok
  <2>1. Fails(ok) /\ mem # NoJob
    BY <1>1, <1>2, <1>8, NoJobIdle DEF ClaimLands, JobInv
  <2> QED BY <1>1, <1>6, <1>7, <1>8, <2>1, FailsShape
<1> QED BY <1>3, <1>4, <1>5, <1>8

LEMMA WithdrawLandsKeepsInv == ASSUME Inv, NEW ok \in BOOLEAN, WithdrawLands(ok) PROVE Inv'
<1>1. TypeOK /\ Clock /\ OneFire /\ JobInv /\ EditInv /\ DiskInv /\ QueueInv
  BY DEF Inv
<1>2. /\ UNCHANGED <<now, process, held, editing, putBack, edits, crashes, due, admitted, fires,
           pending, success>>
      /\ phase = "withdrawing" /\ success' \in BOOLEAN /\ (pending' <=> pending) /\ (held' <=> held)
      /\ Up /\ ~held /\ Counted(mem) /\ ~Risky(mem)
  BY <1>1, TaskFacts DEF WithdrawLands, FireOnly, TypeOK
<1>3. CASE pending \/ ~Armed(mem)
  <2>1. phase' = "ended" /\ mem' = mem /\ attempts' \in Nat
    BY <1>1, <1>3 DEF WithdrawLands, TypeOK
  <2>2. PICK h \in Writes : ServedLast(h, "fire", ok)
    BY <1>1, <1>3, LandsLast DEF WithdrawLands, TypeOK
  <2>3. SafelyServed(h)
    BY <2>2, ServedSafely DEF ServedLast
  <2>4. TypeOK'
    BY <1>1, <1>2, <1>3, <2>1, <2>2, <2>3 DEF TypeOK, Phases, Executing, Served, ServedLast
  <2>5. Clock'
    BY <1>1, <1>2, <1>3, <2>1, <2>2, <2>3 DEF Clock, Served, ServedLast
  <2>6. OneFire'
    BY <1>1, <1>2, <1>3, <2>1, <2>2, <2>3 DEF OneFire
  <2>7. JobInv'
    BY <1>1, <1>2, <1>3, <2>1, <2>2, <2>3 DEF JobInv, Served, ServedLast, SafelyServed
  <2>8. EditInv'
    BY <1>1, <1>2, <1>3, <2>1, <2>2, <2>3 DEF EditInv, Served, ServedLast, SafelyServed
  <2>9. DiskInv'
    BY <1>1, <1>2, <1>3, <2>1, <2>2, <2>3 DEF DiskInv, Served, ServedLast, SafelyServed
  <2>10. QueueInv'
    <3>1. ASSUME NEW o \in Writes, Follows(writer, h, o), OpCalled(o), OpSafe(o), PairSafe(h, o)
          PROVE  OpCalled(o)' /\ OpSafe(o)'
      BY <1>1, <1>2, <1>3, <2>1, <2>2, <2>3, <3>1 DEF Served, ServedLast, SafelyServed, OpCalled,
         OpSafe, PairSafe, Executing
    <3>2. ASSUME NEW a \in Writes, NEW b \in Writes, Follows(writer, a, b), PairSafe(h, a),
                 PairSafe(h, b), OpCalled(a), OpCalled(b), PairSafe(a, b)
          PROVE  PairSafe(a, b)'
      BY <1>1, <1>2, <1>3, <2>1, <2>2, <2>3, <3>2 DEF Served, ServedLast, SafelyServed, OpCalled,
         PairSafe
    <3> QED BY <1>1, <1>2, <1>3, <2>1, <2>2, <2>3, <3>1, <3>2, FollowsHolds DEF Served, ServedLast,
       SafelyServed, QueueInv
  <2> QED BY <2>4, <2>5, <2>6, <2>7, <2>8, <2>9, <2>10 DEF Inv
<1>4. ASSUME ~pending, Armed(mem), Fails(ok), phase' = "sleeping", mem' = mem,
             Lands("fire", ok, <<>>)
      PROVE  Inv'
  <2>1. attempts' \in Nat
    BY <1>1, <1>4, FailsShape
  <2>2. PICK h \in Writes : ServedLast(h, "fire", ok)
    BY <1>1, <1>4, LandsLast
  <2>3. SafelyServed(h)
    BY <2>2, ServedSafely DEF ServedLast
  <2>4. TypeOK'
    BY <1>1, <1>2, <1>4, <2>1, <2>2, <2>3 DEF TypeOK, Phases, Executing, Served, ServedLast
  <2>5. Clock'
    BY <1>1, <1>2, <1>4, <2>1, <2>2, <2>3 DEF Clock, Served, ServedLast
  <2>6. OneFire'
    BY <1>1, <1>2, <1>4, <2>1, <2>2, <2>3 DEF OneFire
  <2>7. JobInv'
    BY <1>1, <1>2, <1>4, <2>1, <2>2, <2>3 DEF JobInv, Served, ServedLast, SafelyServed
  <2>8. EditInv'
    BY <1>1, <1>2, <1>4, <2>1, <2>2, <2>3 DEF EditInv, Served, ServedLast, SafelyServed
  <2>9. DiskInv'
    BY <1>1, <1>2, <1>4, <2>1, <2>2, <2>3 DEF DiskInv, Served, ServedLast, SafelyServed
  <2>10. QueueInv'
    <3>1. ASSUME NEW o \in Writes, Follows(writer, h, o), OpCalled(o), OpSafe(o), PairSafe(h, o)
          PROVE  OpCalled(o)' /\ OpSafe(o)'
      BY <1>1, <1>2, <1>4, <2>1, <2>2, <2>3, <3>1 DEF Served, ServedLast, SafelyServed, OpCalled,
         OpSafe, PairSafe, Executing
    <3>2. ASSUME NEW a \in Writes, NEW b \in Writes, Follows(writer, a, b), PairSafe(h, a),
                 PairSafe(h, b), OpCalled(a), OpCalled(b), PairSafe(a, b)
          PROVE  PairSafe(a, b)'
      BY <1>1, <1>2, <1>4, <2>1, <2>2, <2>3, <3>2 DEF Served, ServedLast, SafelyServed, OpCalled,
         PairSafe
    <3> QED BY <1>1, <1>2, <1>4, <2>1, <2>2, <2>3, <3>1, <3>2, FollowsHolds DEF Served, ServedLast,
       SafelyServed, QueueInv
  <2> QED BY <2>4, <2>5, <2>6, <2>7, <2>8, <2>9, <2>10 DEF Inv
<1>5. ASSUME ~pending, Armed(mem), Fails(ok), phase' = "abandoning", mem # NoJob,
               mem' = [mem EXCEPT !.status = "failed"],
             Lands("fire", ok, <<Save("fire", mem')>>)
      PROVE  Inv'
  <2>1. mem' \in Jobs /\ mem' # NoJob /\ mem'.status = "failed" /\ mem'.due = mem.due
          /\ mem'.left = mem.left
    BY <1>1, <1>5, JobWithStatus DEF TypeOK
  <2>2. attempts' \in Nat
    BY <1>1, <1>5, FailsShape
  <2>3. PICK op \in Writes : op.kind = "save" /\ op.by = "fire" /\ op.job = mem'
                               /\ Lands("fire", ok, <<op>>)
    BY <1>5, <2>1, OpTypes
  <2>4. PICK h \in Writes : ServedMore(h, "fire", ok, op)
    BY <1>1, <2>3, LandsMore
  <2>5. SafelyServed(h)
    BY <2>4, ServedSafely DEF ServedMore
  <2>6. TypeOK'
    BY <1>1, <1>2, <1>5, <2>1, <2>2, <2>3, <2>4, <2>5 DEF TypeOK, Phases, Executing, Served,
       ServedMore
  <2>7. Clock'
    BY <1>1, <1>2, <1>5, <2>1, <2>2, <2>3, <2>4, <2>5 DEF Clock, Served, ServedMore
  <2>8. OneFire'
    BY <1>1, <1>2, <1>5, <2>1, <2>2, <2>3, <2>4, <2>5 DEF OneFire
  <2>9. JobInv'
    BY <1>1, <1>2, <1>5, <2>1, <2>2, <2>3, <2>4, <2>5 DEF JobInv, Served, ServedMore, SafelyServed
  <2>10. EditInv'
    BY <1>1, <1>2, <1>5, <2>1, <2>2, <2>3, <2>4, <2>5 DEF EditInv, Served, ServedMore, SafelyServed
  <2>11. DiskInv'
    BY <1>1, <1>2, <1>5, <2>1, <2>2, <2>3, <2>4, <2>5 DEF DiskInv, Served, ServedMore,
       SafelyServed, OpCalled
  <2>12. QueueInv'
    <3>1. OpCalled(op)' /\ OpSafe(op)'
      BY <1>1, <1>2, <1>5, <2>1, <2>2, <2>3, <2>4, <2>5, <2>11 DEF Served, ServedMore, OpCalled,
         OpSafe, SafelyServed, DiskInv
    <3>2. ASSUME NEW o \in Writes, Follows(writer, h, o), OpCalled(o), OpSafe(o), PairSafe(h, o)
          PROVE  OpCalled(o)' /\ OpSafe(o)' /\ PairSafe(o, op)'
      BY <1>1, <1>2, <1>5, <2>1, <2>2, <2>3, <2>4, <2>5, <3>2 DEF Served, ServedMore, SafelyServed,
         OpCalled, OpSafe, PairSafe, Executing, EditInv
    <3>3. ASSUME NEW a \in Writes, NEW b \in Writes, Follows(writer, a, b), PairSafe(h, a),
                 PairSafe(h, b), OpCalled(a), OpCalled(b), PairSafe(a, b)
          PROVE  PairSafe(a, b)'
      BY <1>1, <1>2, <1>5, <2>1, <2>2, <2>3, <2>4, <2>5, <3>3 DEF Served, ServedMore, SafelyServed,
         OpCalled, PairSafe
    <3> QED BY <1>1, <1>2, <1>5, <2>1, <2>2, <2>3, <2>4, <2>5, <3>1, <3>2, <3>3, FollowsHolds
       DEF Served, ServedMore, SafelyServed, QueueInv
  <2> QED BY <2>6, <2>7, <2>8, <2>9, <2>10, <2>11, <2>12 DEF Inv
<1>6. CASE ~pending /\ Armed(mem)
  <2>1. Fails(ok) /\ mem # NoJob
    BY <1>1, <1>2, <1>6, NoJobIdle DEF WithdrawLands, JobInv
  <2> QED BY <1>1, <1>4, <1>5, <1>6, <2>1, FailsShape
<1> QED BY <1>3, <1>6

LEMMA CancelledLandsKeepsInv == ASSUME Inv, NEW ok \in BOOLEAN, CancelledLands(ok) PROVE Inv'
<1>1. TypeOK /\ Clock /\ OneFire /\ JobInv /\ EditInv /\ DiskInv /\ QueueInv
  BY DEF Inv
<1>2. /\ UNCHANGED <<now, process, held, editing, putBack, edits, crashes, due, admitted, fires,
           pending>>
      /\ attempts' \in Nat /\ success' \in BOOLEAN /\ (pending' <=> pending) /\ (held' <=> held)
      /\ phase = "cancelled"
      /\ Up /\ ~held /\ Counted(mem) /\ (phase # "started" \/ mem.due # due => ~Risky(mem))
  BY <1>1, TaskFacts DEF CancelledLands, FireOnly, TypeOK
<1>3. CASE mem # NoJob /\ mem.due = due
  <2>1. Lands("fire", ok, <<Save("fire", mem')>>) /\ phase' = "refused"
    BY <1>1, <1>3 DEF CancelledLands, TypeOK
  <2>2. mem \in Jobs /\ mem # NoJob /\ mem' = [mem EXCEPT !.status = "failed"]
    BY <1>1, <1>3, NoJobIdle DEF CancelledLands, TypeOK
  <2>3. mem' \in Jobs /\ mem' # NoJob /\ mem'.status = "failed" /\ mem'.due = mem.due
          /\ mem'.left = mem.left
    BY <2>2, JobWithStatus, JobSpent
  <2>4. PICK op \in Writes : op.kind = "save" /\ op.by = "fire" /\ op.job = mem'
                               /\ Lands("fire", ok, <<op>>)
    BY <2>1, <2>3, OpTypes
  <2>5. PICK h \in Writes : ServedMore(h, "fire", ok, op)
    BY <1>1, <2>4, LandsMore
  <2>6. SafelyServed(h)
    BY <2>5, ServedSafely DEF ServedMore
  <2>7. TypeOK'
    BY <1>1, <1>2, <1>3, <2>1, <2>2, <2>3, <2>4, <2>5, <2>6 DEF TypeOK, Phases, Executing, Served,
       ServedMore
  <2>8. Clock'
    BY <1>1, <1>2, <1>3, <2>1, <2>2, <2>3, <2>4, <2>5, <2>6 DEF Clock, Served, ServedMore
  <2>9. OneFire'
    BY <1>1, <1>2, <1>3, <2>1, <2>2, <2>3, <2>4, <2>5, <2>6 DEF OneFire
  <2>10. JobInv'
    BY <1>1, <1>2, <1>3, <2>1, <2>2, <2>3, <2>4, <2>5, <2>6 DEF JobInv, Served, ServedMore,
       SafelyServed
  <2>11. EditInv'
    BY <1>1, <1>2, <1>3, <2>1, <2>2, <2>3, <2>4, <2>5, <2>6 DEF EditInv, Served, ServedMore,
       SafelyServed
  <2>12. DiskInv'
    BY <1>1, <1>2, <1>3, <2>1, <2>2, <2>3, <2>4, <2>5, <2>6 DEF DiskInv, Served, ServedMore,
       SafelyServed
  <2>13. QueueInv'
    <3>1. OpCalled(op)' /\ OpSafe(op)'
      BY <1>1, <1>2, <1>3, <2>1, <2>2, <2>3, <2>4, <2>5, <2>6, <2>12 DEF Served, ServedMore,
         OpCalled, OpSafe, SafelyServed, DiskInv
    <3>2. ASSUME NEW o \in Writes, Follows(writer, h, o), OpCalled(o), OpSafe(o), PairSafe(h, o)
          PROVE  OpCalled(o)' /\ OpSafe(o)' /\ PairSafe(o, op)'
      BY <1>1, <1>2, <1>3, <2>1, <2>2, <2>3, <2>4, <2>5, <2>6, <3>2 DEF Served, ServedMore,
         SafelyServed, OpCalled, OpSafe, PairSafe, Executing, EditInv
    <3>3. ASSUME NEW a \in Writes, NEW b \in Writes, Follows(writer, a, b), PairSafe(h, a),
                 PairSafe(h, b), OpCalled(a), OpCalled(b), PairSafe(a, b)
          PROVE  PairSafe(a, b)'
      BY <1>1, <1>2, <1>3, <2>1, <2>2, <2>3, <2>4, <2>5, <2>6, <3>3 DEF Served, ServedMore,
         SafelyServed, OpCalled, PairSafe
    <3> QED BY <1>1, <1>2, <1>3, <2>1, <2>2, <2>3, <2>4, <2>5, <2>6, <3>1, <3>2, <3>3,
       FollowsHolds DEF Served, ServedMore, SafelyServed, QueueInv
  <2> QED BY <2>7, <2>8, <2>9, <2>10, <2>11, <2>12, <2>13 DEF Inv
<1>4. CASE ~(mem # NoJob /\ mem.due = due)
  <2>1. Lands("fire", ok, <<Unclaim("fire")>>) /\ phase' = "withdrawing" /\ mem' = mem
    BY <1>1, <1>4 DEF CancelledLands, TypeOK
  <2>2. PICK op \in Writes : op.kind = "unclaim" /\ op.by = "fire" /\ op.due = 0
                               /\ Lands("fire", ok, <<op>>) /\ phase' = "withdrawing" /\ mem' = mem
    BY <1>1, <2>1, OpTypes DEF TypeOK
  <2>3. PICK h \in Writes : ServedMore(h, "fire", ok, op)
    BY <1>1, <2>2, LandsMore
  <2>4. SafelyServed(h)
    BY <2>3, ServedSafely DEF ServedMore
  <2>5. TypeOK'
    BY <1>1, <1>2, <1>4, <2>2, <2>3, <2>4 DEF TypeOK, Phases, Executing, Served, ServedMore
  <2>6. Clock'
    BY <1>1, <1>2, <1>4, <2>2, <2>3, <2>4 DEF Clock, Served, ServedMore
  <2>7. OneFire'
    BY <1>1, <1>2, <1>4, <2>2, <2>3, <2>4 DEF OneFire
  <2>8. JobInv'
    BY <1>1, <1>2, <1>4, <2>2, <2>3, <2>4 DEF JobInv, Served, ServedMore, SafelyServed
  <2>9. EditInv'
    BY <1>1, <1>2, <1>4, <2>2, <2>3, <2>4 DEF EditInv, Served, ServedMore, SafelyServed
  <2>10. DiskInv'
    BY <1>1, <1>2, <1>4, <2>2, <2>3, <2>4 DEF DiskInv, Served, ServedMore, SafelyServed
  <2>11. QueueInv'
    <3>1. OpCalled(op)' /\ OpSafe(op)'
      BY <1>1, <1>2, <1>4, <2>2, <2>3, <2>4, <2>10 DEF Served, ServedMore, OpCalled, OpSafe,
         SafelyServed, DiskInv
    <3>2. ASSUME NEW o \in Writes, Follows(writer, h, o), OpCalled(o), OpSafe(o), PairSafe(h, o)
          PROVE  OpCalled(o)' /\ OpSafe(o)' /\ PairSafe(o, op)'
      BY <1>1, <1>2, <1>4, <2>2, <2>3, <2>4, <3>2 DEF Served, ServedMore, SafelyServed, OpCalled,
         OpSafe, PairSafe, Executing, EditInv
    <3>3. ASSUME NEW a \in Writes, NEW b \in Writes, Follows(writer, a, b), PairSafe(h, a),
                 PairSafe(h, b), OpCalled(a), OpCalled(b), PairSafe(a, b)
          PROVE  PairSafe(a, b)'
      BY <1>1, <1>2, <1>4, <2>2, <2>3, <2>4, <3>3 DEF Served, ServedMore, SafelyServed, OpCalled,
         PairSafe
    <3> QED BY <1>1, <1>2, <1>4, <2>2, <2>3, <2>4, <3>1, <3>2, <3>3, FollowsHolds DEF Served,
       ServedMore, SafelyServed, QueueInv
  <2> QED BY <2>5, <2>6, <2>7, <2>8, <2>9, <2>10, <2>11 DEF Inv
<1> QED BY <1>3, <1>4

LEMMA AdmitKeepsInv == ASSUME Inv, Admit PROVE Inv'
<1>1. TypeOK /\ Clock /\ OneFire /\ JobInv /\ EditInv /\ DiskInv /\ QueueInv
  BY DEF Inv
<1>2. /\ UNCHANGED <<now, process, held, editing, putBack, edits, crashes, mem, due, admitted,
           pending>>
      /\ attempts' \in Nat /\ success' \in BOOLEAN /\ (pending' <=> pending) /\ (held' <=> held)
      /\ phase = "admitting"
      /\ Up /\ ~held /\ Counted(mem) /\ (phase # "started" \/ mem.due # due => ~Risky(mem))
  BY <1>1, TaskFacts DEF Admit, FireOnly, TypeOK
<1>3. due \in Dues /\ ~Used(due)
  BY <1>1, <1>2 DEF TypeOK, Clock
<1>4. /\ fires' \in [Dues -> Nat] /\ fires'[due] = fires[due] + 1
      /\ \A d \in Dues : d # due => fires'[d] = fires[d]
      /\ \A d \in Dues : fires[d] \in Nat
      /\ phase' = "started" /\ UNCHANGED <<disk, claim, faults, writer>>
  BY <1>1, <1>3 DEF Admit, Stays, TypeOK
<1>5. /\ admitted \in Dues \cup {0} /\ due # 0 /\ mem \in Jobs /\ disk \in Jobs
           /\ editing.before \in Jobs /\ editing.edited \in Jobs
      /\ \A x \in Writes : x.job \in Jobs /\ x.due \in Dues \cup {0}
      /\ \A j \in Jobs : j # NoJob => j.due \in Dues
  BY <1>1, <1>2, JobTypes DEF TypeOK, Writes, Clock
<1>6. TypeOK'
  BY <1>1, <1>2, <1>3, <1>4, <1>5, NoJobIdle DEF TypeOK, Phases, Executing
<1>7. Clock'
  BY <1>1, <1>2, <1>3, <1>4, <1>5, NoJobIdle DEF Clock
<1>8. OneFire'
  BY <1>1, <1>2, <1>3, <1>4, <1>5, NoJobIdle DEF OneFire
<1>9. JobInv'
  BY <1>1, <1>2, <1>3, <1>4, <1>5, NoJobIdle DEF JobInv
<1>10. EditInv'
  BY <1>1, <1>2, <1>3, <1>4, <1>5, NoJobIdle DEF EditInv
<1>11. DiskInv'
  BY <1>1, <1>2, <1>3, <1>4, <1>5, NoJobIdle DEF DiskInv, JobInv, EditInv
<1>12. QueueInv'
  <2>1. ASSUME NEW o \in Writes, Holds(writer, o), OpCalled(o), OpSafe(o)
        PROVE  OpCalled(o)' /\ OpSafe(o)'
    <3>1. OpCalled(o)'
      BY <1>1, <1>2, <1>3, <1>4, <1>5, NoJobIdle, <2>1 DEF OpCalled, Executing
    <3>2. o.kind = "save" => ~Risky(o.job)' /\ Counted(o.job)'
      BY <1>1, <1>2, <1>3, <1>4, <1>5, NoJobIdle, <2>1 DEF OpCalled, OpSafe, Executing, EditInv,
         Writes
    <3>3. o.kind # "claim"
      BY <1>2, <2>1 DEF OpCalled, Writes
    <3>4. o.kind = "unclaim" => ~Risky(disk)'
      BY <1>1, <1>2, <1>3, <1>4, <1>5, NoJobIdle, <2>1 DEF OpCalled, Executing, EditInv, DiskInv,
         Writes
    <3> QED BY <1>2, <1>4, <2>1, <3>1, <3>2, <3>3, <3>4 DEF OpSafe
  <2>2. ASSUME NEW a \in Writes, NEW b \in Writes, Follows(writer, a, b), OpCalled(a), OpCalled(b),
               PairSafe(a, b)
        PROVE  PairSafe(a, b)'
    BY <1>1, <1>2, <1>3, <1>4, <1>5, NoJobIdle, <2>2 DEF OpCalled, PairSafe, Writes
  <2> QED BY <1>1, <1>2, <1>3, <1>4, <1>5, NoJobIdle, <2>1, <2>2, FollowsHolds DEF QueueInv
<1> QED BY <1>6, <1>7, <1>8, <1>9, <1>10, <1>11, <1>12 DEF Inv

LEMMA ReturnKeepsInv == ASSUME Inv, Return PROVE Inv'
<1>1. TypeOK /\ Clock /\ OneFire /\ JobInv /\ EditInv /\ DiskInv /\ QueueInv
  BY DEF Inv
<1>2. /\ UNCHANGED <<now, process, held, editing, putBack, edits, crashes, due, fires, pending>>
      /\ attempts' \in Nat /\ success' \in BOOLEAN /\ (pending' <=> pending) /\ (held' <=> held)
      /\ phase = "started"
      /\ admitted' = due /\ fires[due] > 0 /\ due \in Dues

      /\ Up /\ ~held /\ Counted(mem) /\ (phase # "started" \/ mem.due # due => ~Risky(mem))
  BY <1>1, TaskFacts DEF Clock, Return, FireOnly, TypeOK
<1>3. CASE mem = NoJob
  <2>1. phase' = "orphaned" /\ mem' = mem /\ UNCHANGED <<disk, claim, faults, writer>>
    BY <1>3 DEF Return, Stays
  <2>2. TypeOK'
    BY <1>1, <1>2, <1>3, <2>1, NoJobIdle DEF TypeOK, Phases, Executing
  <2>3. Clock'
    BY <1>1, <1>2, <1>3, <2>1, NoJobIdle DEF Clock
  <2>4. OneFire'
    BY <1>1, <1>2, <1>3, <2>1, NoJobIdle DEF OneFire
  <2>5. JobInv'
    BY <1>1, <1>2, <1>3, <2>1, NoJobIdle DEF JobInv
  <2>6. EditInv'
    BY <1>1, <1>2, <1>3, <2>1, NoJobIdle DEF EditInv
  <2>7. DiskInv'
    BY <1>1, <1>2, <1>3, <2>1, NoJobIdle DEF DiskInv
  <2>8. QueueInv'
    <3>1. ASSUME NEW o \in Writes, Holds(writer, o), OpCalled(o), OpSafe(o)
          PROVE  OpCalled(o)' /\ OpSafe(o)'
      BY <1>1, <1>2, <1>3, <2>1, NoJobIdle, <3>1 DEF OpCalled, OpSafe, PairSafe, Executing
    <3>2. ASSUME NEW a \in Writes, NEW b \in Writes, Follows(writer, a, b), OpCalled(a),
                 OpCalled(b), PairSafe(a, b)
          PROVE  PairSafe(a, b)'
      BY <1>1, <1>2, <1>3, <2>1, NoJobIdle, <3>2 DEF OpCalled, PairSafe
    <3> QED BY <1>1, <1>2, <1>3, <2>1, NoJobIdle, <3>1, <3>2, FollowsHolds DEF QueueInv
  <2> QED BY <2>2, <2>3, <2>4, <2>5, <2>6, <2>7, <2>8 DEF Inv
<1>4. CASE mem # NoJob
  <2>1. HandsOver(Save("fire", mem')) /\ phase' = "recording"
    BY <1>1, <1>4 DEF Return, Spent, TypeOK
  <2>2. mem \in Jobs /\ mem # NoJob
          /\ mem' = (IF mem.due = due THEN [mem EXCEPT !.left = 0] ELSE mem)
    BY <1>1, <1>4, NoJobIdle DEF Return, Spent, TypeOK
  <2>3. mem' \in Jobs /\ mem' # NoJob /\ mem'.status = mem.status /\ mem'.due = mem.due
          /\ mem'.left = IF mem.due = due THEN 0 ELSE mem.left
    <3>1. CASE mem.due = due
      <4>1. mem' = [mem EXCEPT !.left = 0]
        BY <2>2, <3>1
      <4> QED BY <2>2, <3>1, <4>1, JobWithStatus, JobSpent
    <3>2. CASE ~(mem.due = due)
      <4>1. mem' = mem
        BY <2>2, <3>2
      <4> QED BY <2>2, <3>2, <4>1, JobWithStatus, JobSpent
    <3> QED BY <3>1, <3>2
  <2>4. PICK op \in Writes : op.kind = "save" /\ op.by = "fire" /\ op.job = mem' /\ HandsOver(op)
    BY <2>1, <2>3, OpTypes
  <2>5. Handed(op)
    BY <1>1, <2>4, HandsOverQueue
  <2>6. TypeOK'
    BY <1>1, <1>2, <1>4, <2>1, <2>2, <2>3, <2>4, <2>5 DEF TypeOK, Phases, Executing, Handed
  <2>7. Clock'
    BY <1>1, <1>2, <1>4, <2>1, <2>2, <2>3, <2>4, <2>5 DEF Clock, Handed
  <2>8. OneFire'
    BY <1>1, <1>2, <1>4, <2>1, <2>2, <2>3, <2>4, <2>5 DEF OneFire
  <2>9. JobInv'
    BY <1>1, <1>2, <1>4, <2>1, <2>2, <2>3, <2>4, <2>5 DEF JobInv, Handed
  <2>10. EditInv'
    <3>1. Updating => editing.edited.left \in 0..1 /\ mem'.left =< editing.edited.left
      BY <1>1, <1>2, <2>3, JobTypes DEF TypeOK, EditInv
    <3>2. Up /\ Updating /\ Risky(editing.before) =>
            editing.held \/ (due = editing.before.due /\ phase' = "recording" /\ admitted' = due)
      BY <1>1, <1>2, <2>1 DEF EditInv
    <3>3. editing.kind \notin {"delete", "clear"}
      BY <1>1, <2>2 DEF EditInv
    <3> QED BY <1>1, <1>2, <2>1, <2>3, <3>1, <3>2, <3>3 DEF EditInv
  <2>11. DiskInv'
    BY <1>1, <1>2, <1>4, <2>1, <2>2, <2>3, <2>4, <2>5 DEF DiskInv, Handed
  <2>12. QueueInv'
    <3>1. OpCalled(op)' /\ OpSafe(op)'
      BY <1>1, <1>2, <1>4, <2>1, <2>2, <2>3, <2>4, <2>5, <2>11 DEF Handed, OpCalled, OpSafe, DiskInv
    <3>2. ASSUME NEW o \in Writes, Holds(writer, o), OpCalled(o), OpSafe(o)
          PROVE  OpCalled(o)' /\ OpSafe(o)' /\ PairSafe(o, op)'
      BY <1>1, <1>2, <1>4, <2>1, <2>2, <2>3, <2>4, <2>5, <3>2 DEF Handed, OpCalled, OpSafe,
         PairSafe, Executing, EditInv
    <3>3. ASSUME NEW a \in Writes, NEW b \in Writes, Follows(writer, a, b), OpCalled(a),
                 OpCalled(b), PairSafe(a, b)
          PROVE  PairSafe(a, b)'
      BY <1>1, <1>2, <1>4, <2>1, <2>2, <2>3, <2>4, <2>5, <3>3 DEF Handed, OpCalled, PairSafe
    <3> QED BY <1>1, <1>2, <1>4, <2>1, <2>2, <2>3, <2>4, <2>5, <3>1, <3>2, <3>3, FollowsHolds
       DEF Handed, QueueInv
  <2> QED BY <2>6, <2>7, <2>8, <2>9, <2>10, <2>11, <2>12 DEF Inv
<1> QED BY <1>3, <1>4

LEMMA TailsKeepsInv ==
  ASSUME Inv, NEW ok \in BOOLEAN, Tails(ok), phase \in {"ending", "finalizing"}, FireOnly,
         UNCHANGED <<due, attempts, success, pending, fires>>
  PROVE  Inv'
<1>1. TypeOK /\ Clock /\ OneFire /\ JobInv /\ EditInv /\ DiskInv /\ QueueInv
  BY DEF Inv
<1>2. /\ UNCHANGED <<now, process, held, editing, putBack, edits, crashes, due, fires, pending>>
      /\ attempts' \in Nat /\ success' \in BOOLEAN /\ (pending' <=> pending) /\ (held' <=> held)
      /\ phase \in {"ending", "finalizing"} /\ admitted' = 0
      /\ Up /\ ~held /\ Counted(mem) /\ ~Risky(mem)
  BY <1>1, TaskFacts DEF Tails, FireOnly, TypeOK
<1>3. CASE mem = NoJob
  <2>1. phase' = "ended" /\ mem' = mem
    BY <1>3 DEF Tails
  <2>2. PICK h \in Writes : ServedLast(h, "fire", ok)
    BY <1>1, <1>3, LandsLast DEF Tails
  <2>3. SafelyServed(h)
    BY <2>2, ServedSafely DEF ServedLast
  <2>4. TypeOK'
    BY <1>1, <1>2, <1>3, <2>1, <2>2, <2>3 DEF TypeOK, Phases, Executing, Served, ServedLast
  <2>5. Clock'
    BY <1>1, <1>2, <1>3, <2>1, <2>2, <2>3 DEF Clock, Served, ServedLast
  <2>6. OneFire'
    BY <1>1, <1>2, <1>3, <2>1, <2>2, <2>3 DEF OneFire
  <2>7. JobInv'
    BY <1>1, <1>2, <1>3, <2>1, <2>2, <2>3 DEF JobInv, Served, ServedLast, SafelyServed
  <2>8. EditInv'
    BY <1>1, <1>2, <1>3, <2>1, <2>2, <2>3 DEF EditInv, Served, ServedLast, SafelyServed
  <2>9. DiskInv'
    BY <1>1, <1>2, <1>3, <2>1, <2>2, <2>3 DEF DiskInv, Served, ServedLast, SafelyServed
  <2>10. QueueInv'
    <3>1. ASSUME NEW o \in Writes, Follows(writer, h, o), OpCalled(o), OpSafe(o), PairSafe(h, o)
          PROVE  OpCalled(o)' /\ OpSafe(o)'
      BY <1>1, <1>2, <1>3, <2>1, <2>2, <2>3, <3>1 DEF Served, ServedLast, SafelyServed, OpCalled,
         OpSafe, PairSafe, Executing
    <3>2. ASSUME NEW a \in Writes, NEW b \in Writes, Follows(writer, a, b), PairSafe(h, a),
                 PairSafe(h, b), OpCalled(a), OpCalled(b), PairSafe(a, b)
          PROVE  PairSafe(a, b)'
      BY <1>1, <1>2, <1>3, <2>1, <2>2, <2>3, <3>2 DEF Served, ServedLast, SafelyServed, OpCalled,
         PairSafe
    <3> QED BY <1>1, <1>2, <1>3, <2>1, <2>2, <2>3, <3>1, <3>2, FollowsHolds DEF Served, ServedLast,
       SafelyServed, QueueInv
  <2> QED BY <2>4, <2>5, <2>6, <2>7, <2>8, <2>9, <2>10 DEF Inv
<1>4. CASE mem # NoJob
  <2>1. Lands("fire", ok, <<Save("fire", mem')>>) /\ phase' = "settling"
    BY <1>1, <1>4 DEF Tails, TypeOK
  <2>2. mem \in Jobs /\ mem # NoJob
          /\ mem' = (IF success /\ Active(mem)
          /\ ~pending THEN [mem EXCEPT !.status = "completed"] ELSE mem)
    BY <1>1, <1>4, NoJobIdle DEF Tails, TypeOK
  <2>3. mem' \in Jobs /\ mem' # NoJob /\ mem'.status \in {mem.status, "completed"}
          /\ mem'.due = mem.due /\ mem'.left = mem.left
    BY <2>2, JobWithStatus, JobSpent
  <2>4. PICK op \in Writes : op.kind = "save" /\ op.by = "fire" /\ op.job = mem'
                               /\ Lands("fire", ok, <<op>>)
    BY <2>1, <2>3, OpTypes
  <2>5. PICK h \in Writes : ServedMore(h, "fire", ok, op)
    BY <1>1, <2>4, LandsMore
  <2>6. SafelyServed(h)
    BY <2>5, ServedSafely DEF ServedMore
  <2>7. TypeOK'
    BY <1>1, <1>2, <1>4, <2>1, <2>2, <2>3, <2>4, <2>5, <2>6 DEF TypeOK, Phases, Executing, Served,
       ServedMore
  <2>8. Clock'
    BY <1>1, <1>2, <1>4, <2>1, <2>2, <2>3, <2>4, <2>5, <2>6 DEF Clock, Served, ServedMore
  <2>9. OneFire'
    BY <1>1, <1>2, <1>4, <2>1, <2>2, <2>3, <2>4, <2>5, <2>6 DEF OneFire
  <2>10. JobInv'
    BY <1>1, <1>2, <1>4, <2>1, <2>2, <2>3, <2>4, <2>5, <2>6 DEF JobInv, Served, ServedMore,
       SafelyServed
  <2>11. EditInv'
    BY <1>1, <1>2, <1>4, <2>1, <2>2, <2>3, <2>4, <2>5, <2>6 DEF EditInv, Served, ServedMore,
       SafelyServed
  <2>12. DiskInv'
    BY <1>1, <1>2, <1>4, <2>1, <2>2, <2>3, <2>4, <2>5, <2>6 DEF DiskInv, Served, ServedMore,
       SafelyServed
  <2>13. QueueInv'
    <3>1. OpCalled(op)' /\ OpSafe(op)'
      BY <1>1, <1>2, <1>4, <2>1, <2>2, <2>3, <2>4, <2>5, <2>6, <2>12 DEF Served, ServedMore,
         OpCalled, OpSafe, SafelyServed, DiskInv
    <3>2. ASSUME NEW o \in Writes, Follows(writer, h, o), OpCalled(o), OpSafe(o), PairSafe(h, o)
          PROVE  OpCalled(o)' /\ OpSafe(o)' /\ PairSafe(o, op)'
      BY <1>1, <1>2, <1>4, <2>1, <2>2, <2>3, <2>4, <2>5, <2>6, <3>2 DEF Served, ServedMore,
         SafelyServed, OpCalled, OpSafe, PairSafe, Executing, EditInv
    <3>3. ASSUME NEW a \in Writes, NEW b \in Writes, Follows(writer, a, b), PairSafe(h, a),
                 PairSafe(h, b), OpCalled(a), OpCalled(b), PairSafe(a, b)
          PROVE  PairSafe(a, b)'
      BY <1>1, <1>2, <1>4, <2>1, <2>2, <2>3, <2>4, <2>5, <2>6, <3>3 DEF Served, ServedMore,
         SafelyServed, OpCalled, PairSafe
    <3> QED BY <1>1, <1>2, <1>4, <2>1, <2>2, <2>3, <2>4, <2>5, <2>6, <3>1, <3>2, <3>3,
       FollowsHolds DEF Served, ServedMore, SafelyServed, QueueInv
  <2> QED BY <2>7, <2>8, <2>9, <2>10, <2>11, <2>12, <2>13 DEF Inv
<1> QED BY <1>3, <1>4

LEMMA EndingLandsKeepsInv == ASSUME Inv, NEW ok \in BOOLEAN, EndingLands(ok) PROVE Inv'
<1>1. TypeOK /\ Clock /\ OneFire /\ JobInv /\ EditInv /\ DiskInv /\ QueueInv
  BY DEF Inv
<1>2. /\ UNCHANGED <<now, process, held, editing, putBack, edits, crashes, due, fires, pending>>
      /\ attempts' \in Nat /\ success' \in BOOLEAN /\ (pending' <=> pending) /\ (held' <=> held)
      /\ phase = "ending"
      /\ Up /\ ~held /\ Counted(mem) /\ (phase # "started" \/ mem.due # due => ~Risky(mem))
  BY <1>1, TaskFacts DEF EndingLands, FireOnly, TypeOK
<1>3. CASE Active(mem) /\ mem.left = 0
  <2>1. Lands("fire", ok, <<Save("fire", mem')>>) /\ phase' = "finalizing" /\ admitted' = admitted
    BY <1>1, <1>3 DEF EndingLands, TypeOK
  <2>2. mem \in Jobs /\ mem # NoJob
          /\ mem' = [mem EXCEPT !.status = IF success THEN "completed" ELSE "failed"]
    BY <1>1, <1>3, NoJobIdle DEF EndingLands, TypeOK
  <2>3. mem' \in Jobs /\ mem' # NoJob /\ mem'.status \in {"completed", "failed"}
          /\ mem'.due = mem.due /\ mem'.left = mem.left
    <3>1. CASE success
      <4>1. mem' = [mem EXCEPT !.status = "completed"]
        BY <2>2, <3>1
      <4> QED BY <2>2, <3>1, <4>1, JobWithStatus, JobSpent
    <3>2. CASE ~(success)
      <4>1. mem' = [mem EXCEPT !.status = "failed"]
        BY <2>2, <3>2
      <4> QED BY <2>2, <3>2, <4>1, JobWithStatus, JobSpent
    <3> QED BY <3>1, <3>2
  <2>4. PICK op \in Writes : op.kind = "save" /\ op.by = "fire" /\ op.job = mem'
                               /\ Lands("fire", ok, <<op>>)
    BY <2>1, <2>3, OpTypes
  <2>5. PICK h \in Writes : ServedMore(h, "fire", ok, op)
    BY <1>1, <2>4, LandsMore
  <2>6. SafelyServed(h)
    BY <2>5, ServedSafely DEF ServedMore
  <2>7. TypeOK'
    BY <1>1, <1>2, <1>3, <2>1, <2>2, <2>3, <2>4, <2>5, <2>6 DEF TypeOK, Phases, Executing, Served,
       ServedMore
  <2>8. Clock'
    BY <1>1, <1>2, <1>3, <2>1, <2>2, <2>3, <2>4, <2>5, <2>6 DEF Clock, Served, ServedMore
  <2>9. OneFire'
    BY <1>1, <1>2, <1>3, <2>1, <2>2, <2>3, <2>4, <2>5, <2>6 DEF OneFire
  <2>10. JobInv'
    BY <1>1, <1>2, <1>3, <2>1, <2>2, <2>3, <2>4, <2>5, <2>6 DEF JobInv, Served, ServedMore,
       SafelyServed
  <2>11. EditInv'
    BY <1>1, <1>2, <1>3, <2>1, <2>2, <2>3, <2>4, <2>5, <2>6 DEF EditInv, Served, ServedMore,
       SafelyServed
  <2>12. DiskInv'
    BY <1>1, <1>2, <1>3, <2>1, <2>2, <2>3, <2>4, <2>5, <2>6 DEF DiskInv, Served, ServedMore,
       SafelyServed
  <2>13. QueueInv'
    <3>1. OpCalled(op)' /\ OpSafe(op)'
      BY <1>1, <1>2, <1>3, <2>1, <2>2, <2>3, <2>4, <2>5, <2>6, <2>12 DEF Served, ServedMore,
         OpCalled, OpSafe, SafelyServed, DiskInv
    <3>2. ASSUME NEW o \in Writes, Follows(writer, h, o), OpCalled(o), OpSafe(o), PairSafe(h, o)
          PROVE  OpCalled(o)' /\ OpSafe(o)' /\ PairSafe(o, op)'
      BY <1>1, <1>2, <1>3, <2>1, <2>2, <2>3, <2>4, <2>5, <2>6, <3>2 DEF Served, ServedMore,
         SafelyServed, OpCalled, OpSafe, PairSafe, Executing, EditInv
    <3>3. ASSUME NEW a \in Writes, NEW b \in Writes, Follows(writer, a, b), PairSafe(h, a),
                 PairSafe(h, b), OpCalled(a), OpCalled(b), PairSafe(a, b)
          PROVE  PairSafe(a, b)'
      BY <1>1, <1>2, <1>3, <2>1, <2>2, <2>3, <2>4, <2>5, <2>6, <3>3 DEF Served, ServedMore,
         SafelyServed, OpCalled, PairSafe
    <3> QED BY <1>1, <1>2, <1>3, <2>1, <2>2, <2>3, <2>4, <2>5, <2>6, <3>1, <3>2, <3>3,
       FollowsHolds DEF Served, ServedMore, SafelyServed, QueueInv
  <2> QED BY <2>7, <2>8, <2>9, <2>10, <2>11, <2>12, <2>13 DEF Inv
<1>4. CASE ~(Active(mem) /\ mem.left = 0)
  BY <1>4, TailsKeepsInv DEF EndingLands
<1> QED BY <1>3, <1>4

LEMMA FinalizeLandsKeepsInv == ASSUME Inv, NEW ok \in BOOLEAN, FinalizeLands(ok) PROVE Inv'
BY TailsKeepsInv DEF FinalizeLands

LEMMA TaskDoneKeepsInv == ASSUME Inv, TaskDone PROVE Inv'
<1>1. TypeOK /\ Clock /\ OneFire /\ JobInv /\ EditInv /\ DiskInv /\ QueueInv
  BY DEF Inv
<1>2. /\ UNCHANGED <<now, process, held, editing, putBack, edits, crashes, mem, admitted, fires,
           writer, disk, claim, faults>>
      /\ phase = "ended" /\ pending' = FALSE /\ ~pending' /\ due' = 0 /\ attempts' = 0
           /\ success' = FALSE /\ (held' <=> held)
      /\ phase' \in {"none", "sleeping"} /\ (phase' = "sleeping" => Armed(mem))
      /\ Up /\ ~held /\ Counted(mem) /\ ~Risky(mem)
  BY <1>1, TaskFacts DEF TaskDone, FireOnly, Stays, Started, TypeOK
<1>3. TypeOK'
  BY <1>1, <1>2 DEF TypeOK, Phases, Executing
<1>4. Clock'
  BY <1>1, <1>2 DEF Clock, TypeOK
<1>5. OneFire'
  BY <1>1, <1>2 DEF OneFire
<1>6. JobInv'
  BY <1>1, <1>2 DEF JobInv
<1>7. EditInv'
  BY <1>1, <1>2 DEF EditInv
<1>8. DiskInv'
  BY <1>1, <1>2 DEF DiskInv
<1>9. QueueInv'
  <2>1. ASSUME NEW o \in Writes, Holds(writer, o), OpCalled(o), OpSafe(o)
        PROVE  OpCalled(o)' /\ OpSafe(o)'
    BY <1>1, <1>2, <2>1 DEF OpCalled, OpSafe, PairSafe, Executing
  <2>2. ASSUME NEW a \in Writes, NEW b \in Writes, Follows(writer, a, b), OpCalled(a), OpCalled(b),
               PairSafe(a, b)
        PROVE  PairSafe(a, b)'
    BY <1>1, <1>2, <2>2 DEF OpCalled, PairSafe
  <2> QED BY <1>1, <1>2, <2>1, <2>2, FollowsHolds DEF QueueInv
<1> QED BY <1>3, <1>4, <1>5, <1>6, <1>7, <1>8, <1>9 DEF Inv

(* ----------------------------------------------------------------------- *)
(* The clock, and the writes of the edits and of callers that are gone.    *)

LEMMA TickKeepsInv == ASSUME Inv, Tick PROVE Inv'
<1>1. TypeOK /\ Clock /\ OneFire /\ JobInv /\ EditInv /\ DiskInv /\ QueueInv
  BY DEF Inv
<1>2. /\ UNCHANGED <<process, held, editing, putBack, edits, crashes, mem, admitted, fires, writer,
           disk, claim, faults, phase, due, pending, attempts, success>>
      /\ now' = now + 1 /\ now' \in 0..MaxDue /\ (pending' <=> pending) /\ (held' <=> held)
  BY <1>1, BoundAssumption DEF Tick, taskVars, history, bounds, TypeOK
<1>3. TypeOK'
  BY <1>1, <1>2 DEF TypeOK, Phases, Executing
<1>4. Clock'
  BY <1>1, <1>2 DEF Clock, TypeOK, Dues
<1>5. OneFire'
  BY <1>1, <1>2 DEF OneFire
<1>6. JobInv'
  BY <1>1, <1>2 DEF JobInv
<1>7. EditInv'
  BY <1>1, <1>2 DEF EditInv
<1>8. DiskInv'
  BY <1>1, <1>2 DEF DiskInv
<1>9. QueueInv'
  <2>1. ASSUME NEW o \in Writes, Holds(writer, o), OpCalled(o), OpSafe(o)
        PROVE  OpCalled(o)' /\ OpSafe(o)'
    BY <1>1, <1>2, <2>1 DEF OpCalled, OpSafe, PairSafe, Executing
  <2>2. ASSUME NEW a \in Writes, NEW b \in Writes, Follows(writer, a, b), OpCalled(a), OpCalled(b),
               PairSafe(a, b)
        PROVE  PairSafe(a, b)'
    BY <1>1, <1>2, <2>2 DEF OpCalled, PairSafe
  <2> QED BY <1>1, <1>2, <2>1, <2>2, FollowsHolds DEF QueueInv
<1> QED BY <1>3, <1>4, <1>5, <1>6, <1>7, <1>8, <1>9 DEF Inv

LEMMA NobodyLandsKeepsInv == ASSUME Inv, NEW ok \in BOOLEAN, NobodyLands(ok) PROVE Inv'
<1>1. TypeOK /\ Clock /\ OneFire /\ JobInv /\ EditInv /\ DiskInv /\ QueueInv
  BY DEF Inv
<1>2. /\ UNCHANGED <<now, process, mem, phase, due, attempts, success, admitted, pending, held,
           fires, putBack, edits, crashes, editing>>
      /\ (pending' <=> pending) /\ (held' <=> held)
  BY <1>1 DEF NobodyLands, taskVars, history, TypeOK
<1>3. Lands("nobody", ok, <<>>)
  BY DEF NobodyLands
<1>4. PICK h \in Writes : ServedLast(h, "nobody", ok)
  BY <1>1, <1>3, LandsLast
<1>5. SafelyServed(h)
  BY <1>4, ServedSafely DEF ServedLast
<1>6. process # "down"
  BY <1>1, <1>2, <1>4, <1>5 DEF Served, ServedLast, Holds, Clock
<1>7. h.by = "nobody" /\ phase \notin Early
  BY <1>1, <1>2, <1>4, <1>5, <1>6 DEF SafelyServed, Served, ServedLast, OpCalled, Clock, Executing
<1>8. TypeOK'
  BY <1>1, <1>2, <1>4, <1>5, <1>6, <1>7 DEF TypeOK, Phases, Executing, Served, ServedLast
<1>9. Clock'
  BY <1>1, <1>2, <1>4, <1>5, <1>6, <1>7 DEF Clock, Served, ServedLast
<1>10. OneFire'
  BY <1>1, <1>2, <1>4, <1>5, <1>6, <1>7 DEF OneFire
<1>11. JobInv'
  BY <1>1, <1>2, <1>4, <1>5, <1>6, <1>7 DEF JobInv, Served, ServedLast, SafelyServed
<1>12. EditInv'
  BY <1>1, <1>2, <1>4, <1>5, <1>6, <1>7 DEF EditInv, Served, ServedLast, SafelyServed
<1>13. DiskInv'
  BY <1>1, <1>2, <1>4, <1>5, <1>6, <1>7 DEF DiskInv, Served, ServedLast, SafelyServed, OpCalled,
     OpSafe, Executing
<1>14. QueueInv'
  <2>1. ASSUME NEW o \in Writes, Follows(writer, h, o), OpCalled(o), OpSafe(o), PairSafe(h, o)
        PROVE  OpCalled(o)' /\ OpSafe(o)'
    BY <1>1, <1>2, <1>4, <1>5, <1>6, <1>7, <2>1 DEF Served, ServedLast, SafelyServed, OpCalled,
       OpSafe, PairSafe, Executing
  <2>2. ASSUME NEW a \in Writes, NEW b \in Writes, Follows(writer, a, b), PairSafe(h, a),
               PairSafe(h, b), OpCalled(a), OpCalled(b), PairSafe(a, b)
        PROVE  PairSafe(a, b)'
    BY <1>1, <1>2, <1>4, <1>5, <1>6, <1>7, <2>2 DEF Served, ServedLast, SafelyServed, OpCalled,
       PairSafe
  <2> QED BY <1>1, <1>2, <1>4, <1>5, <1>6, <1>7, <2>1, <2>2, FollowsHolds DEF Served, ServedLast,
     SafelyServed, QueueInv
<1> QED BY <1>8, <1>9, <1>10, <1>11, <1>12, <1>13, <1>14 DEF Inv

LEMMA ClearLandsKeepsInv == ASSUME Inv, NEW ok \in BOOLEAN, ClearLands(ok) PROVE Inv'
<1>1. TypeOK /\ Clock /\ OneFire /\ JobInv /\ EditInv /\ DiskInv /\ QueueInv
  BY DEF Inv
<1>2. /\ UNCHANGED <<now, process, mem, phase, due, attempts, success, admitted, pending, held,
           fires, putBack, edits, crashes>>
      /\ (pending' <=> pending) /\ (held' <=> held) /\ editing.kind = "clear" /\ editing' = NoEdit
           /\ editing'.kind = "none" /\ editing'.before = NoJob
           /\ editing' \in [kind : {"none", "update", "delete", "clear"}, before : Jobs,
           edited : Jobs, held : BOOLEAN]
  BY <1>1, OpTypes DEF NoEdit, ClearLands, taskVars, history, TypeOK
<1>3. Lands("edit", ok, <<>>)
  BY DEF ClearLands
<1>4. PICK h \in Writes : ServedLast(h, "edit", ok)
  BY <1>1, <1>3, LandsLast
<1>5. SafelyServed(h)
  BY <1>4, ServedSafely DEF ServedLast
<1>6. h.by = "edit" /\ h.kind = "unclaim" /\ mem = NoJob
  BY <1>1, <1>2, <1>4, <1>5 DEF SafelyServed, Served, ServedLast, OpCalled, EditInv
<1>7. TypeOK'
  BY <1>1, <1>2, <1>4, <1>5, <1>6 DEF TypeOK, Phases, Executing, Served, ServedLast
<1>8. Clock'
  BY <1>1, <1>2, <1>4, <1>5, <1>6 DEF Clock, Served, ServedLast
<1>9. OneFire'
  BY <1>1, <1>2, <1>4, <1>5, <1>6 DEF OneFire
<1>10. JobInv'
  BY <1>1, <1>2, <1>4, <1>5, <1>6 DEF JobInv, Served, ServedLast, SafelyServed
<1>11. EditInv'
  BY <1>1, <1>2, <1>4, <1>5, <1>6 DEF EditInv, Served, ServedLast, SafelyServed
<1>12. DiskInv'
  BY <1>1, <1>2, <1>4, <1>5, <1>6 DEF DiskInv, Served, ServedLast, SafelyServed, OpCalled, OpSafe
<1>13. QueueInv'
  <2>1. ASSUME NEW o \in Writes, Follows(writer, h, o), OpCalled(o), OpSafe(o), PairSafe(h, o)
        PROVE  OpCalled(o)' /\ OpSafe(o)'
    BY <1>1, <1>2, <1>4, <1>5, <1>6, <2>1 DEF Served, ServedLast, SafelyServed, OpCalled, OpSafe,
       PairSafe, Executing
  <2>2. ASSUME NEW a \in Writes, NEW b \in Writes, Follows(writer, a, b), PairSafe(h, a),
               PairSafe(h, b), OpCalled(a), OpCalled(b), PairSafe(a, b)
        PROVE  PairSafe(a, b)'
    BY <1>1, <1>2, <1>4, <1>5, <1>6, <2>2 DEF Served, ServedLast, SafelyServed, OpCalled, PairSafe
  <2> QED BY <1>1, <1>2, <1>4, <1>5, <1>6, <2>1, <2>2, FollowsHolds DEF Served, ServedLast,
     SafelyServed, QueueInv
<1> QED BY <1>7, <1>8, <1>9, <1>10, <1>11, <1>12, <1>13 DEF Inv

LEMMA EditSavedKeepsInv == ASSUME Inv, EditSaved PROVE Inv'
<1>1. TypeOK /\ Clock /\ OneFire /\ JobInv /\ EditInv /\ DiskInv /\ QueueInv
  BY DEF Inv
<1>2. /\ UNCHANGED <<now, process, mem, phase, due, attempts, success, admitted, pending, held,
           fires, putBack, edits, crashes>>
      /\ (pending' <=> pending) /\ (held' <=> held) /\ editing.kind = "update" /\ editing' = NoEdit
           /\ editing'.kind = "none" /\ editing'.before = NoJob
           /\ editing' \in [kind : {"none", "update", "delete", "clear"}, before : Jobs,
           edited : Jobs, held : BOOLEAN]
  BY <1>1, OpTypes DEF NoEdit, EditSaved, taskVars, history, TypeOK
<1>3. Lands("edit", TRUE, <<>>)
  BY DEF EditSaved
<1>4. PICK h \in Writes : ServedLast(h, "edit", TRUE)
  BY <1>1, <1>3, LandsLast
<1>5. SafelyServed(h)
  BY <1>4, ServedSafely DEF ServedLast
<1>6. h.by = "edit" /\ h.kind = "save" /\ disk' = editing.edited /\ mem # NoJob /\ claim' = claim
  BY <1>1, <1>2, <1>4, <1>5 DEF SafelyServed, Served, ServedLast, OpCalled, EditInv
<1>7. ~Risky(disk)' /\ mem.due = editing.edited.due
  BY <1>1, <1>2, <1>4, <1>5, <1>6 DEF SafelyServed, OpSafe, EditInv
<1>8. phase # "announcing"
  BY <1>1, <1>2, <1>4, <1>5, <1>6, <1>7 DEF QueueInv, SafelyServed, PairSafe, Served, ServedLast
<1>9. TypeOK'
  BY <1>1, <1>2, <1>4, <1>5, <1>6, <1>7, <1>8 DEF TypeOK, Phases, Executing, Served, ServedLast
<1>10. Clock'
  BY <1>1, <1>2, <1>4, <1>5, <1>6, <1>7, <1>8 DEF Clock, Served, ServedLast
<1>11. OneFire'
  BY <1>1, <1>2, <1>4, <1>5, <1>6, <1>7, <1>8 DEF OneFire
<1>12. JobInv'
  BY <1>1, <1>2, <1>4, <1>5, <1>6, <1>7, <1>8 DEF JobInv, Served, ServedLast, SafelyServed
<1>13. EditInv'
  BY <1>1, <1>2, <1>4, <1>5, <1>6, <1>7, <1>8 DEF EditInv, Served, ServedLast, SafelyServed
<1>14. DiskInv'
  BY <1>1, <1>2, <1>4, <1>5, <1>6, <1>7, <1>8 DEF DiskInv, Served, ServedLast, SafelyServed,
     OpCalled, OpSafe
<1>15. QueueInv'
  <2>1. ASSUME NEW o \in Writes, Follows(writer, h, o), OpCalled(o), OpSafe(o), PairSafe(h, o)
        PROVE  OpCalled(o)' /\ OpSafe(o)'
    BY <1>1, <1>2, <1>4, <1>5, <1>6, <1>7, <1>8, <2>1 DEF Served, ServedLast, SafelyServed,
       OpCalled, OpSafe, PairSafe, Executing
  <2>2. ASSUME NEW a \in Writes, NEW b \in Writes, Follows(writer, a, b), PairSafe(h, a),
               PairSafe(h, b), OpCalled(a), OpCalled(b), PairSafe(a, b)
        PROVE  PairSafe(a, b)'
    BY <1>1, <1>2, <1>4, <1>5, <1>6, <1>7, <1>8, <2>2 DEF Served, ServedLast, SafelyServed,
       OpCalled, PairSafe
  <2> QED BY <1>1, <1>2, <1>4, <1>5, <1>6, <1>7, <1>8, <2>1, <2>2, FollowsHolds DEF Served,
     ServedLast, SafelyServed, QueueInv
<1> QED BY <1>9, <1>10, <1>11, <1>12, <1>13, <1>14, <1>15 DEF Inv

LEMMA DeleteSavedKeepsInv == ASSUME Inv, DeleteSaved PROVE Inv'
<1>1. TypeOK /\ Clock /\ OneFire /\ JobInv /\ EditInv /\ DiskInv /\ QueueInv
  BY DEF Inv
<1>2. /\ UNCHANGED <<now, process, mem, phase, due, attempts, success, admitted, pending, held,
           fires, putBack, edits, crashes>>
      /\ (pending' <=> pending) /\ (held' <=> held) /\ editing.kind = "delete"
      /\ editing'.kind = "clear" /\ editing'.before = editing.before
           /\ editing'.edited = editing.edited
      /\ editing' \in [kind : {"none", "update", "delete", "clear"}, before : Jobs, edited : Jobs,
           held : BOOLEAN]
  BY <1>1 DEF DeleteSaved, taskVars, history, TypeOK
<1>3. Lands("edit", TRUE, <<Unclaim("edit")>>)
  BY DEF DeleteSaved
<1>4. PICK op \in Writes : op.kind = "unclaim" /\ op.by = "edit" /\ op.due = 0
                             /\ Lands("edit", TRUE, <<op>>)
  BY <1>1, <1>3, OpTypes
<1>5. PICK h \in Writes : ServedMore(h, "edit", TRUE, op)
  BY <1>1, <1>4, LandsMore
<1>6. SafelyServed(h)
  BY <1>5, ServedSafely DEF ServedMore
<1>7. h.by = "edit" /\ h.kind = "save" /\ disk' = NoJob /\ mem = NoJob /\ claim' = claim
        /\ mem' = NoJob
  BY <1>1, <1>2, <1>4, <1>5, <1>6 DEF SafelyServed, Served, ServedMore, OpCalled, EditInv
<1>8. ~Risky(disk)' /\ ~Armed(disk)' /\ ~Armed(mem)
  BY <1>1, <1>2, <1>4, <1>5, <1>6, <1>7, NoJobIdle
<1>9. phase # "announcing"
  BY <1>1, <1>2, <1>4, <1>5, <1>6, <1>7, <1>8 DEF QueueInv, SafelyServed, PairSafe, Served,
     ServedMore
<1>10. process # "down" /\ (phase \in Claimant => pending)
  BY <1>1, <1>2, <1>4, <1>5, <1>6, <1>7, <1>8, <1>9, OpTypes DEF Clock, JobInv
<1>11. TypeOK'
  BY <1>1, <1>2, <1>4, <1>5, <1>6, <1>7, <1>8, <1>9, <1>10 DEF TypeOK, Phases, Executing, Served,
     ServedMore
<1>12. Clock'
  BY <1>1, <1>2, <1>4, <1>5, <1>6, <1>7, <1>8, <1>9, <1>10 DEF Clock, Served, ServedMore
<1>13. OneFire'
  BY <1>1, <1>2, <1>4, <1>5, <1>6, <1>7, <1>8, <1>9, <1>10 DEF OneFire
<1>14. JobInv'
  BY <1>1, <1>2, <1>4, <1>5, <1>6, <1>7, <1>8, <1>9, <1>10 DEF JobInv, Served, ServedMore,
     SafelyServed
<1>15. EditInv'
  BY <1>1, <1>2, <1>4, <1>5, <1>6, <1>7, <1>8, <1>9, <1>10 DEF EditInv, Served, ServedMore,
     SafelyServed
<1>16. DiskInv'
  BY <1>1, <1>2, <1>4, <1>5, <1>6, <1>7, <1>8, <1>9, <1>10 DEF DiskInv, Served, ServedMore,
     SafelyServed
<1>17. QueueInv'
  <2>1. OpCalled(op)' /\ OpSafe(op)'
    BY <1>1, <1>2, <1>4, <1>5, <1>6, <1>7, <1>8, <1>9, <1>10, <1>16 DEF Served, ServedMore,
       OpCalled, OpSafe, SafelyServed, DiskInv
  <2>2. ASSUME NEW o \in Writes, Follows(writer, h, o), OpCalled(o), OpSafe(o), PairSafe(h, o)
        PROVE  OpCalled(o)' /\ OpSafe(o)' /\ PairSafe(o, op)'
    <3>1. OpCalled(o)'
      BY <1>1, <1>2, <1>4, <1>5, <1>6, <1>7, <1>8, <1>9, <1>10, <2>2 DEF Served, ServedMore,
         SafelyServed, OpCalled, OpSafe, PairSafe, Executing, EditInv, Writes
    <3>2. OpSafe(o)'
      BY <1>1, <1>2, <1>4, <1>5, <1>6, <1>7, <1>8, <1>9, <1>10, <2>2 DEF Served, ServedMore,
         SafelyServed, OpCalled, OpSafe, PairSafe, Executing, EditInv, Writes
    <3>3. PairSafe(o, op)'
      BY <1>1, <1>2, <1>4, <1>5, <1>6, <1>7, <1>8, <1>9, <1>10, <2>2 DEF Served, ServedMore,
         SafelyServed, OpCalled, OpSafe, PairSafe, Executing, EditInv, Writes
    <3> QED BY <3>1, <3>2, <3>3
  <2>3. ASSUME NEW a \in Writes, NEW b \in Writes, Follows(writer, a, b), PairSafe(h, a),
               PairSafe(h, b), OpCalled(a), OpCalled(b), PairSafe(a, b)
        PROVE  PairSafe(a, b)'
    BY <1>1, <1>2, <1>4, <1>5, <1>6, <1>7, <1>8, <1>9, <1>10, <2>3 DEF Served, ServedMore,
       SafelyServed, OpCalled, PairSafe
  <2> QED BY <1>1, <1>2, <1>4, <1>5, <1>6, <1>7, <1>8, <1>9, <1>10, <2>1, <2>2, <2>3,
     FollowsHolds DEF Served, ServedMore, SafelyServed, QueueInv
<1> QED BY <1>11, <1>12, <1>13, <1>14, <1>15, <1>16, <1>17 DEF Inv

LEMMA StoppedLandsKeepsInv == ASSUME Inv, NEW ok \in BOOLEAN, StoppedLands(ok) PROVE Inv'
<1>1. TypeOK /\ Clock /\ OneFire /\ JobInv /\ EditInv /\ DiskInv /\ QueueInv
  BY DEF Inv
<1>2. /\ UNCHANGED <<now, process, mem, phase, due, attempts, success, admitted, pending, held,
           fires, putBack, edits, crashes, editing>>
      /\ (pending' <=> pending) /\ (held' <=> held)
  BY <1>1 DEF StoppedLands, taskVars, history, TypeOK
<1>3. Lands("stopped", ok, <<Unclaim("nobody")>>)
  BY DEF StoppedLands
<1>4. PICK op \in Writes : op.kind = "unclaim" /\ op.by = "nobody" /\ op.due = 0
                             /\ Lands("stopped", ok, <<op>>)
  BY <1>1, <1>3, OpTypes
<1>5. PICK h \in Writes : ServedMore(h, "stopped", ok, op)
  BY <1>1, <1>4, LandsMore
<1>6. SafelyServed(h)
  BY <1>5, ServedSafely DEF ServedMore
<1>7. h.by = "stopped" /\ h.kind = "claim" /\ ~Up /\ phase = "none" /\ process # "down"
  BY <1>1, <1>2, <1>4, <1>5, <1>6 DEF SafelyServed, Served, ServedMore, OpCalled, Clock, Holds
<1>8. ~Risky(disk) /\ disk' = disk
  BY <1>1, <1>2, <1>4, <1>5, <1>6, <1>7 DEF SafelyServed
<1>9. TypeOK'
  BY <1>1, <1>2, <1>4, <1>5, <1>6, <1>7, <1>8 DEF TypeOK, Phases, Executing, Served, ServedMore
<1>10. Clock'
  BY <1>1, <1>2, <1>4, <1>5, <1>6, <1>7, <1>8 DEF Clock, Served, ServedMore
<1>11. OneFire'
  BY <1>1, <1>2, <1>4, <1>5, <1>6, <1>7, <1>8 DEF OneFire
<1>12. JobInv'
  BY <1>1, <1>2, <1>4, <1>5, <1>6, <1>7, <1>8 DEF JobInv, Served, ServedMore, SafelyServed
<1>13. EditInv'
  BY <1>1, <1>2, <1>4, <1>5, <1>6, <1>7, <1>8 DEF EditInv, Served, ServedMore, SafelyServed
<1>14. DiskInv'
  BY <1>1, <1>2, <1>4, <1>5, <1>6, <1>7, <1>8 DEF DiskInv, Served, ServedMore, SafelyServed
<1>15. QueueInv'
  <2>1. OpCalled(op)' /\ OpSafe(op)'
    BY <1>1, <1>2, <1>4, <1>5, <1>6, <1>7, <1>8, <1>14 DEF Served, ServedMore, OpCalled, OpSafe,
       SafelyServed, DiskInv
  <2>2. ASSUME NEW o \in Writes, Follows(writer, h, o), OpCalled(o), OpSafe(o), PairSafe(h, o)
        PROVE  OpCalled(o)' /\ OpSafe(o)' /\ PairSafe(o, op)'
    BY <1>1, <1>2, <1>4, <1>5, <1>6, <1>7, <1>8, <2>2 DEF Served, ServedMore, SafelyServed,
       OpCalled, OpSafe, PairSafe, Executing, EditInv
  <2>3. ASSUME NEW a \in Writes, NEW b \in Writes, Follows(writer, a, b), PairSafe(h, a),
               PairSafe(h, b), OpCalled(a), OpCalled(b), PairSafe(a, b)
        PROVE  PairSafe(a, b)'
    BY <1>1, <1>2, <1>4, <1>5, <1>6, <1>7, <1>8, <2>3 DEF Served, ServedMore, SafelyServed,
       OpCalled, PairSafe
  <2> QED BY <1>1, <1>2, <1>4, <1>5, <1>6, <1>7, <1>8, <2>1, <2>2, <2>3, FollowsHolds DEF Served,
     ServedMore, SafelyServed, QueueInv
<1> QED BY <1>9, <1>10, <1>11, <1>12, <1>13, <1>14, <1>15 DEF Inv

(* ----------------------------------------------------------------------- *)
(* Stop, crash and start.                                                  *)

LEMMA DieKeepsInv == ASSUME Inv, Die PROVE Inv'
<1>1. TypeOK /\ Clock /\ OneFire /\ JobInv /\ EditInv /\ DiskInv /\ QueueInv
  BY DEF Inv
<1>2. /\ UNCHANGED <<now, disk, claim, faults, fires, putBack, edits>>
      /\ process' = "down" /\ phase' = "none" /\ due' = 0 /\ attempts' = 0 /\ success' = FALSE
      /\ admitted' = 0 /\ pending' = FALSE /\ held' = FALSE /\ editing' = NoEdit /\ mem' = NoJob
      /\ writer' = <<>> /\ ~pending' /\ ~held'
  BY DEF Die, NoTask, history
<1>3. crashes' \in 0..MaxCrashes
  BY <1>1, BoundAssumption DEF Die, TypeOK
<1>4. TypeOK'
  <2>1. editing' \in [kind : {"none", "update", "delete", "clear"}, before : Jobs, edited : Jobs,
                      held : BOOLEAN]
    BY <1>2, OpTypes DEF NoEdit
  <2>2. writer' \in Seq(Writes)
    BY <1>2
  <2> QED BY <1>1, <1>2, <1>3, <2>1, <2>2, OpTypes DEF TypeOK, Phases
<1>5. Clock' /\ OneFire'
  BY <1>1, <1>2 DEF Clock, OneFire, TypeOK
<1>6. JobInv' /\ EditInv' /\ DiskInv'
  BY <1>1, <1>2 DEF JobInv, EditInv, DiskInv, NoEdit
<1>7. QueueInv'
  BY <1>2 DEF QueueInv, Holds, Follows, NoEdit
<1> QED BY <1>4, <1>5, <1>6, <1>7 DEF Inv

LEMMA StopKeepsInv == ASSUME Inv, Stop PROVE Inv'
<1> DEFINE by == IF phase = "claiming" THEN "stopped" ELSE "nobody"
<1>1. TypeOK /\ Clock /\ OneFire /\ JobInv /\ EditInv /\ DiskInv /\ QueueInv
  BY DEF Inv
<1>2. /\ UNCHANGED <<now, mem, held, editing, putBack, edits, disk, claim, faults>>
      /\ process = "up" /\ process' = "stopped" /\ phase' = "none" /\ due' = 0 /\ attempts' = 0
      /\ success' = FALSE /\ admitted' = 0 /\ pending' = FALSE /\ ~pending' /\ (held' <=> held)
  BY DEF Stop, NoTask, Stays
<1>3. crashes' \in 0..MaxCrashes
  BY <1>1, BoundAssumption DEF Stop, TypeOK
<1>4. /\ fires' \in [Dues -> Nat] /\ due \in Dues \cup {0}
      /\ \A d \in Dues : fires[d] \in Nat /\ fires'[d] >= fires[d]
      /\ \A d \in Dues : fires'[d] # fires[d] =>
           phase = "admitting" /\ d = due /\ ~Used(due) /\ fires'[d] = fires[d] + 1
  <2>1. fires \in [Dues -> Nat] /\ due \in Dues \cup {0}
    BY <1>1 DEF TypeOK
  <2>2. CASE fires' = fires
    BY <2>1, <2>2
  <2>3. CASE phase = "admitting" /\ fires' = [fires EXCEPT ![due] = @ + 1]
    BY <1>1, <2>1, <2>3 DEF Clock
  <2> QED BY <2>2, <2>3 DEF Stop
<1>5. by \in {"stopped", "nobody"}
  OBVIOUS
<1>6. writer' = Orphans(writer, by) /\ writer \in Seq(Writes)
  BY <1>1 DEF Stop, TypeOK
<1>7. /\ writer' \in Seq(Writes)
      /\ \A x \in Writes : Holds(writer', x) =>
           \E y \in Writes : Holds(writer, y) /\ x = Renamed(y, by)
      /\ \A x \in Writes : Holds(writer, x) /\ x.by # "fire" => Holds(writer', x)
      /\ \A a, b \in Writes : Follows(writer', a, b) =>
           \E y, z \in Writes : Follows(writer, y, z) /\ a = Renamed(y, by) /\ b = Renamed(z, by)
  BY <1>5, <1>6, QueueOrphans
<1>8. /\ editing.before \in Jobs /\ editing.edited \in Jobs /\ disk \in Jobs /\ mem \in Jobs
      /\ \A x \in Writes : x.job \in Jobs /\ x.due \in Dues \cup {0}
      /\ \A j \in Jobs : j # NoJob => j.due \in Dues
      /\ \A j \in Jobs : Counted(j) => Counted(j)'
  <2>1. /\ editing.before \in Jobs /\ editing.edited \in Jobs /\ disk \in Jobs /\ mem \in Jobs
        /\ \A x \in Writes : x.job \in Jobs /\ x.due \in Dues \cup {0}
        /\ \A j \in Jobs : j # NoJob => j.due \in Dues
    BY <1>1, JobTypes DEF TypeOK, Writes
  <2> QED BY <1>4, <2>1
<1>9. TypeOK'
  BY <1>1, <1>2, <1>3, <1>4, <1>7 DEF TypeOK, Phases
<1>10. Clock' /\ OneFire'
  BY <1>1, <1>2, <1>4 DEF Clock, OneFire, TypeOK
<1>11. JobInv' /\ EditInv'
  BY <1>1, <1>2, <1>4, <1>8, NoJobIdle DEF JobInv, EditInv
<1>12. DiskInv'
  BY <1>1, <1>2, <1>4, <1>8, NoJobIdle DEF DiskInv
<1>13. ASSUME NEW x \in Writes, Holds(writer', x) PROVE OpCalled(x)' /\ OpSafe(x)'
  <2>1. PICK y \in Writes : Holds(writer, y) /\ x = Renamed(y, by)
    BY <1>7, <1>13
  <2>2. OpCalled(y) /\ OpSafe(y)
    BY <1>1, <2>1 DEF QueueInv
  <2>3. /\ x.kind = y.kind /\ x.job = y.job /\ x.due = y.due
        /\ y.by = "fire" => x.by = by
        /\ y.by # "fire" => x.by = y.by
        /\ y.by \in {"fire", "edit", "stopped", "nobody"} /\ y.kind \in {"save", "claim", "unclaim"}
        /\ y.job \in Jobs /\ y.due \in Dues \cup {0}
    BY <1>5, <2>1, RenamedFields DEF Writes
  <2>4. OpCalled(x)'
    BY <1>1, <1>2, <2>2, <2>3 DEF OpCalled, Executing
  <2>5. x.kind = "save" => ~Risky(x.job)' /\ Counted(x.job)'
    BY <1>1, <1>2, <1>4, <1>8, <2>2, <2>3, NoJobIdle DEF OpCalled, OpSafe, EditInv, Executing
  <2>6. x.kind = "claim" =>
          /\ x.due # 0 /\ ~Used(x.due)'
          /\ Risky(disk)' /\ disk.due # x.due =>
               Updating /\ editing.before.due = disk.due /\ editing.edited.due = x.due
    BY <1>1, <1>2, <1>4, <1>8, <2>2, <2>3, NoJobIdle DEF OpCalled, OpSafe
  <2>7. x.kind = "unclaim" => ~Risky(disk)' /\ x.due = 0
    BY <1>1, <1>2, <1>4, <1>8, <2>2, <2>3, NoJobIdle DEF OpCalled, OpSafe, EditInv, DiskInv,
       Executing
  <2> QED BY <1>2, <2>4, <2>5, <2>6, <2>7 DEF OpSafe
<1>14. ASSUME NEW a \in Writes, NEW b \in Writes, Follows(writer', a, b) PROVE PairSafe(a, b)'
  <2>1. PICK y \in Writes, z \in Writes : Follows(writer, y, z) /\ a = Renamed(y, by)
                                            /\ b = Renamed(z, by)
    BY <1>7, <1>14
  <2>2. OpCalled(y) /\ OpCalled(z) /\ PairSafe(y, z)
    BY <1>1, <2>1, FollowsHolds DEF QueueInv
  <2>3. /\ a.kind = y.kind /\ a.job = y.job /\ a.due = y.due /\ b.kind = z.kind
        /\ y.by = "fire" => a.by = by
        /\ y.by # "fire" => a.by = y.by
        /\ z.by = "fire" => b.by = by
        /\ z.by # "fire" => b.by = z.by
        /\ y.by \in {"fire", "edit", "stopped", "nobody"}
    BY <1>5, <2>1, RenamedFields DEF Writes
  <2> QED BY <1>2, <1>4, <1>5, <1>8, NoJobIdle, <2>2, <2>3 DEF PairSafe, OpCalled
<1>15. QueueInv'
  BY <1>1, <1>2, <1>7, <1>13, <1>14 DEF QueueInv
<1> QED BY <1>9, <1>10, <1>11, <1>12, <1>15 DEF Inv

LEMMA BootKeepsInv == ASSUME Inv, Boot PROVE Inv'
<1>1. TypeOK /\ Clock /\ OneFire /\ JobInv /\ EditInv /\ DiskInv /\ QueueInv
  BY DEF Inv
<1>2. /\ process = "down" /\ process' = "up" /\ phase = "none" /\ writer = <<>> /\ editing = NoEdit
      /\ ~held /\ editing.kind = "none" /\ editing.before = NoJob
      /\ UNCHANGED <<now, due, attempts, success, admitted, writer, pending, editing, fires,
           putBack,
                     edits, crashes>>
      /\ (pending' <=> pending)
  BY <1>1 DEF Boot, Restarts, history, Clock, NoEdit
<1>3. /\ ~Risky(disk) /\ (Active(disk) => disk.left # 0)
      /\ mem' = disk /\ phase' \in {"none", "sleeping"} /\ (phase' = "sleeping" => Armed(disk))
      /\ UNCHANGED <<disk, claim, faults, held>> /\ ~held'
  BY <1>1, <1>2 DEF Boot, Claimed, Started, DiskInv
<1>4. TypeOK'
  BY <1>1, <1>2, <1>3 DEF TypeOK, Phases
<1>5. Clock' /\ OneFire'
  BY <1>1, <1>2, <1>3 DEF Clock, OneFire
<1>6. JobInv' /\ EditInv' /\ DiskInv'
  BY <1>1, <1>2, <1>3 DEF JobInv, EditInv, DiskInv
<1>7. QueueInv'
  BY <1>2, <1>3 DEF QueueInv, Holds, Follows
<1> QED BY <1>4, <1>5, <1>6, <1>7 DEF Inv

LEMMA BootHoldsKeepsInv == ASSUME Inv, BootHolds PROVE Inv'
<1>1. TypeOK /\ Clock /\ OneFire /\ JobInv /\ EditInv /\ DiskInv /\ QueueInv
  BY DEF Inv
<1>2. /\ process = "down" /\ process' = "up" /\ phase = "none" /\ writer = <<>> /\ editing = NoEdit
      /\ editing.kind = "none" /\ editing.before = NoJob
      /\ UNCHANGED <<now, due, attempts, success, admitted, writer, pending, editing, fires,
           putBack,
                     edits, crashes>>
      /\ (pending' <=> pending)
  BY <1>1 DEF BootHolds, Restarts, history, Clock, NoEdit
<1>3. mem' = disk /\ held' = TRUE /\ held' /\ UNCHANGED <<phase, disk, claim>> /\ Active(disk)
  BY DEF BootHolds
<1>4. faults' \in 0..MaxFaults
  BY <1>1, BoundAssumption DEF BootHolds, TypeOK
<1>5. TypeOK'
  BY <1>1, <1>2, <1>3, <1>4 DEF TypeOK, Phases
<1>6. Clock' /\ OneFire'
  BY <1>1, <1>2, <1>3 DEF Clock, OneFire
<1>7. JobInv' /\ EditInv' /\ DiskInv'
  BY <1>1, <1>2, <1>3, NoJobIdle DEF JobInv, EditInv, DiskInv
<1>8. QueueInv'
  BY <1>2, <1>3 DEF QueueInv, Holds, Follows
<1> QED BY <1>5, <1>6, <1>7, <1>8 DEF Inv

LEMMA BootReconcilesKeepsInv ==
  ASSUME Inv, NEW saved \in BOOLEAN, NEW removed \in BOOLEAN, BootReconciles(saved, removed)
  PROVE  Inv'
<1>1. TypeOK /\ Clock /\ OneFire /\ JobInv /\ EditInv /\ DiskInv /\ QueueInv
  BY DEF Inv
<1>2. /\ process = "down" /\ process' = "up" /\ phase = "none" /\ writer = <<>> /\ editing = NoEdit
      /\ editing.kind = "none" /\ editing.before = NoJob /\ ~held
      /\ UNCHANGED <<now, due, attempts, success, admitted, writer, pending, editing, fires,
           putBack,
                     edits, crashes, phase, held>>
      /\ (pending' <=> pending) /\ (held' <=> held)
  BY <1>1 DEF BootReconciles, Restarts, history, Clock, NoEdit
<1>3. disk \in Jobs /\ disk # NoJob /\ mem' = [disk EXCEPT !.status = "completed"]
  BY <1>1, NoJobIdle DEF BootReconciles, Claimed, TypeOK
<1>4. /\ mem' \in Jobs /\ mem' # NoJob /\ mem'.status = "completed" /\ mem'.due = disk.due
      /\ mem'.left = disk.left
  BY <1>3, JobWithStatus
<1>5. faults' \in 0..MaxFaults
  BY <1>1, BoundAssumption DEF BootReconciles, TypeOK
<1>6. disk' \in {disk, mem'} /\ claim' \in {claim, 0} /\ (disk' = disk => claim' = claim)
  <2>1. CASE saved
    <3>1. disk' = mem' /\ disk' # disk
      BY <1>1, <1>4, <2>1 DEF BootReconciles, Claimed
    <3> QED BY <3>1 DEF BootReconciles
  <2>2. CASE ~saved
    BY <2>2 DEF BootReconciles
  <2> QED BY <2>1, <2>2
<1>7. TypeOK'
  BY <1>1, <1>2, <1>3, <1>4, <1>5, <1>6 DEF TypeOK, Phases
<1>8. Clock' /\ OneFire'
  BY <1>1, <1>2 DEF Clock, OneFire
<1>9. JobInv' /\ EditInv' /\ DiskInv'
  BY <1>1, <1>2, <1>3, <1>4, <1>6 DEF JobInv, EditInv, DiskInv
<1>10. QueueInv'
  BY <1>2 DEF QueueInv, Holds, Follows
<1> QED BY <1>7, <1>8, <1>9, <1>10 DEF Inv

LEMMA InitInv == Init => Inv
<1> SUFFICES ASSUME Init PROVE Inv
  OBVIOUS
<1>1. /\ now = 0 /\ process = "up" /\ phase = "sleeping" /\ due = 0 /\ attempts = 0
           /\ success = FALSE
      /\ pending = FALSE /\ held = FALSE /\ admitted = 0 /\ editing = NoEdit /\ putBack = {}
      /\ disk = mem /\ claim = 0 /\ writer = <<>> /\ edits = 0 /\ faults = 0 /\ crashes = 0
      /\ mem = [status |-> "active", due |-> 1, left |-> 1]
  BY DEF Init
<1>2. 1 \in Dues /\ \A d \in Dues : d >= 1
  BY BoundAssumption DEF Dues
<1>3. mem \in Jobs /\ mem.status = "active" /\ mem.due = 1 /\ mem.left = 1 /\ mem # NoJob
  BY <1>1, <1>2 DEF Jobs, NoJob
<1>4. fires \in [Dues -> Nat] /\ \A d \in Dues : fires[d] = 0
  BY DEF Init
<1>5. editing \in [kind : {"none", "update", "delete", "clear"}, before : Jobs, edited : Jobs,
                   held : BOOLEAN] /\ editing.kind = "none" /\ editing.before = NoJob
  BY <1>1, OpTypes DEF NoEdit
<1>6. TypeOK
  <2>1. writer \in Seq(Writes)
    BY <1>1
  <2>2. /\ now \in 0..MaxDue /\ edits \in 0..MaxEdits /\ faults \in 0..MaxFaults
             /\ crashes \in 0..MaxCrashes
        /\ attempts \in Nat
    BY <1>1, BoundAssumption
  <2>3. /\ process \in {"up", "stopped", "down"} /\ phase \in Phases /\ disk \in Jobs
        /\ claim \in Dues \cup {0} /\ due \in Dues \cup {0} /\ admitted \in Dues \cup {0}
    BY <1>1, <1>3 DEF Phases, Init
  <2>4. success \in BOOLEAN /\ pending \in BOOLEAN /\ held \in BOOLEAN /\ putBack \subseteq Dues
    BY <1>1
  <2> QED BY <1>3, <1>4, <1>5, <2>1, <2>2, <2>3, <2>4 DEF TypeOK
<1>7. Clock /\ OneFire
  BY <1>1, <1>4, <1>2 DEF Clock, OneFire
<1>8. JobInv /\ EditInv /\ DiskInv
  BY <1>1, <1>2, <1>3, <1>4, <1>5, NoJobIdle DEF JobInv, EditInv, DiskInv
<1>9. QueueInv
  BY <1>1, <1>5 DEF QueueInv, Holds, Follows
<1> QED BY <1>6, <1>7, <1>8, <1>9 DEF Inv

(* ----------------------------------------------------------------------- *)
(* Edits, deletions and their undoing.                                     *)

\* What an edit makes of the job.
LEMMA EditedJob ==
  ASSUME mem \in Jobs, mem # NoJob, NEW d \in Dues, NEW s \in {"active", "paused", "failed"}
  PROVE  /\ Edited(d, s) \in Jobs /\ Edited(d, s) # NoJob
         /\ Edited(d, s).due = d /\ Edited(d, s).status = s /\ Edited(d, s).left \in 0..1
         /\ Edited(d, s).left = mem.left \/ Edited(d, s).left = 1
         /\ Edited(d, s).due # mem.due => Edited(d, s).left = 1
<1>1. /\ mem \in [status : {"active", "paused", "completed", "failed"}, due : Dues, left : 0..1]
      /\ NoJob.status = "gone"
  BY DEF Jobs, NoJob
<1> DEFINE k == Edited(d, s)
<1>2. /\ k \in [status : {"active", "paused", "completed", "failed"}, due : Dues, left : 0..1]
      /\ k.due = d /\ k.status = s
      /\ k.left = mem.left \/ k.left = 1
      /\ d # mem.due => k.left = 1
  <2>1. CASE d # mem.due \/ (s = "active" /\ mem.status = "failed")
    <3>1. k = [mem EXCEPT !.due = d, !.status = s, !.left = 1]
      BY <2>1 DEF Edited
    <3>2. 1 \in 0..1
      OBVIOUS
    <3> HIDE DEF k
    <3>3. k.due = d /\ k.status = s /\ k.left = 1
      BY <1>1, <3>1
    <3>4. k \in [status : {"active", "paused", "completed", "failed"}, due : Dues, left : 0..1]
      BY <1>1, <3>1, <3>2
    <3> QED BY <3>3, <3>4
  <2>2. CASE ~(d # mem.due \/ (s = "active" /\ mem.status = "failed"))
    <3>1. k = [mem EXCEPT !.due = d, !.status = s, !.left = @]
      BY <2>2 DEF Edited
    <3> HIDE DEF k
    <3> QED BY <1>1, <2>2, <3>1
  <2> QED BY <2>1, <2>2
<1> HIDE DEF k
<1>3. k \in Jobs /\ k # NoJob /\ k.left \in 0..1
  BY <1>1, <1>2 DEF Jobs
<1> QED BY <1>2, <1>3 DEF k

LEMMA DeleteKeepsInv == ASSUME Inv, Delete PROVE Inv'
<1>1. TypeOK /\ Clock /\ OneFire /\ JobInv /\ EditInv /\ DiskInv /\ QueueInv
  BY DEF Inv
<1>2. /\ UNCHANGED <<now, process, admitted, fires, putBack, crashes>>
      /\ Up /\ editing = NoEdit /\ editing.kind = "none" /\ mem # NoJob /\ mem \in Jobs
      /\ mem' = NoJob /\ mem' \in Jobs /\ held' = held /\ (held' <=> held)
      /\ editing'.kind = "delete" /\ editing'.before = mem /\ editing'.edited = mem'
  BY <1>1, OpTypes DEF Delete, history, TypeOK, NoJob
<1>3. edits' \in 0..MaxEdits
        /\ editing' \in [kind : {"none", "update", "delete", "clear"}, before : Jobs, edited : Jobs,
        held : BOOLEAN]
  BY <1>1, <1>2, BoundAssumption, OpTypes DEF Delete, TypeOK
<1>4. TRUE
  OBVIOUS
<1>5. PICK op \in Writes : op.kind = "save" /\ op.by = "edit" /\ op.job = mem'
                             /\ Replaces("none", writer, <<op>>) /\ Stays
  <2>1. Save("edit", mem') \in Writes /\ Save("edit", mem').kind = "save"
          /\ Save("edit", mem').by = "edit"
        /\ Save("edit", mem').job = mem'
    BY <1>2, OpTypes
  <2>2. Replaces("none", writer, <<Save("edit", mem')>>) /\ Stays
    BY <1>2 DEF Delete
  <2> QED BY <2>1, <2>2
<1>6. \/ /\ phase \in Executing /\ pending' = TRUE /\ Handed(op)
         /\ UNCHANGED <<phase, due, attempts, success>>
      \/ /\ phase \notin Executing /\ phase' = "none" /\ due' = 0 /\ attempts' = 0
         /\ success' = FALSE /\ pending' = pending
         /\ writer' = Append(Orphans(writer, "nobody"), op)
  <2> DEFINE start == "none"
  <2>1. Replaces(start, writer, <<op>>)
    BY <1>5
  <2> HIDE DEF start
  <2>2. \/ /\ phase \in Executing /\ pending' = TRUE /\ Handed(op)
           /\ UNCHANGED <<phase, due, attempts, success>>
        \/ /\ phase \notin Executing /\ phase' = start /\ due' = 0 /\ attempts' = 0
           /\ success' = FALSE /\ pending' = pending
           /\ writer' = Append(Orphans(writer, "nobody"), op)
    BY <1>1, <1>5, <2>1, ReplacesShape
  <2> QED BY <2>2 DEF start
<1>7. \A x \in Writes : OpCalled(x) => x.by # "edit"
  BY <1>2, OpTypes DEF OpCalled
<1>8. UNCHANGED <<disk, claim, faults>>
  BY <1>5 DEF Stays
<1>9. CASE phase \in Executing
  <2>1. /\ pending' = TRUE /\ pending' /\ Handed(op)
        /\ UNCHANGED <<phase, due, attempts, success>> /\ phase # "none" /\ phase # "sleeping"
             /\ ~held
    BY <1>1, <1>6, <1>9 DEF Clock, Executing
  <2>2. TypeOK'
    BY <1>1, <1>2, <1>3, <1>4, <1>5, <1>7, <1>8, NoJobIdle, <1>9, <2>1 DEF TypeOK, Phases,
       Executing, Handed
  <2>3. Clock'
    BY <1>1, <1>2, <1>3, <1>4, <1>5, <1>7, <1>8, NoJobIdle, <1>9, <2>1 DEF Clock, Handed
  <2>4. OneFire'
    BY <1>1, <1>2, <1>3, <1>4, <1>5, <1>7, <1>8, NoJobIdle, <1>9, <2>1 DEF OneFire
  <2>5. JobInv'
    BY <1>1, <1>2, <1>3, <1>4, <1>5, <1>7, <1>8, NoJobIdle, <1>9, <2>1 DEF JobInv, Handed
  <2>6. EditInv'
    BY <1>1, <1>2, <1>3, <1>4, <1>5, <1>7, <1>8, NoJobIdle, <1>9, <2>1 DEF EditInv, Handed, JobInv
  <2>7. DiskInv'
    BY <1>1, <1>2, <1>3, <1>4, <1>5, <1>7, <1>8, NoJobIdle, <1>9, <2>1 DEF DiskInv, Handed
  <2>8. QueueInv'
    <3>1. OpCalled(op)' /\ OpSafe(op)'
      BY <1>1, <1>2, <1>3, <1>4, <1>5, <1>7, <1>8, NoJobIdle, <1>9, <2>1, <2>7 DEF Handed,
         OpCalled, OpSafe, DiskInv
    <3>2. ASSUME NEW o \in Writes, Holds(writer, o), OpCalled(o), OpSafe(o)
          PROVE  OpCalled(o)' /\ OpSafe(o)' /\ PairSafe(o, op)'
      <4>1. OpCalled(o)'
        BY <1>1, <1>2, <1>3, <1>4, <1>5, <1>7, <1>8, NoJobIdle, <1>9, <2>1, <3>2 DEF Handed,
           OpCalled, OpSafe, PairSafe, Executing, EditInv, DiskInv, JobInv, Clock
      <4>2. OpSafe(o)'
        BY <1>1, <1>2, <1>3, <1>4, <1>5, <1>7, <1>8, NoJobIdle, <1>9, <2>1, <3>2 DEF Handed,
           OpCalled, OpSafe, PairSafe, Executing, EditInv, DiskInv, JobInv, Clock
      <4>3. PairSafe(o, op)'
        BY <1>1, <1>2, <1>3, <1>4, <1>5, <1>7, <1>8, NoJobIdle, <1>9, <2>1, <3>2 DEF Handed,
           OpCalled, OpSafe, PairSafe, Executing, EditInv, DiskInv, JobInv, Clock
      <4> QED BY <4>1, <4>2, <4>3
    <3>3. ASSUME NEW a \in Writes, NEW b \in Writes, Follows(writer, a, b), OpCalled(a),
                 OpCalled(b), PairSafe(a, b)
          PROVE  PairSafe(a, b)'
      BY <1>1, <1>2, <1>3, <1>4, <1>5, <1>7, <1>8, NoJobIdle, <1>9, <2>1, <3>3 DEF Handed,
         OpCalled, PairSafe
    <3> QED BY <1>1, <1>2, <1>3, <1>4, <1>5, <1>7, <1>8, NoJobIdle, <1>9, <2>1, <3>1, <3>2, <3>3,
       FollowsHolds DEF Handed, QueueInv
  <2> QED BY <2>2, <2>3, <2>4, <2>5, <2>6, <2>7, <2>8 DEF Inv
<1>10. CASE phase \notin Executing
  <2>1. /\ phase' = "none" /\ due' = 0 /\ attempts' = 0 /\ success' = FALSE /\ pending' = pending
        /\ (pending' <=> pending) /\ phase' \in {"none", "sleeping"}
             /\ (phase' = "sleeping" => Armed(mem'))
        /\ writer' = Append(Orphans(writer, "nobody"), op)
    BY <1>6, <1>10 DEF Started
  <2>2. /\ writer' \in Seq(Writes) /\ Holds(writer', op)
        /\ \A x \in Writes : Holds(writer', x) => x = op \/ Harmless(x)
        /\ \A a, b \in Writes : Follows(writer', a, b) => Harmless(a) /\ (b = op \/ Harmless(b))
    BY <1>2, <1>10, <2>1, ReplacedQueue
  <2>3. TypeOK'
    BY <1>1, <1>2, <1>3, <1>4, <1>5, <1>7, <1>8, NoJobIdle, <1>10, <2>1, <2>2 DEF TypeOK, Phases,
       Stays
  <2>4. Clock'
    BY <1>1, <1>2, <1>3, <1>4, <1>5, <1>7, <1>8, NoJobIdle, <1>10, <2>1, <2>2 DEF Clock, Stays,
       TypeOK
  <2>5. OneFire'
    BY <1>1, <1>2, <1>3, <1>4, <1>5, <1>7, <1>8, NoJobIdle, <1>10, <2>1, <2>2 DEF OneFire
  <2>6. JobInv'
    BY <1>1, <1>2, <1>3, <1>4, <1>5, <1>7, <1>8, NoJobIdle, <1>10, <2>1, <2>2 DEF JobInv, Stays
  <2>7. EditInv'
    BY <1>1, <1>2, <1>3, <1>4, <1>5, <1>7, <1>8, NoJobIdle, <1>10, <2>1, <2>2 DEF EditInv, JobInv,
       Executing
  <2>8. DiskInv'
    BY <1>1, <1>2, <1>3, <1>4, <1>5, <1>7, <1>8, NoJobIdle, <1>10, <2>1, <2>2 DEF DiskInv, Stays
  <2>9. ASSUME NEW x \in Writes, Holds(writer', x) PROVE OpCalled(x)' /\ OpSafe(x)'
    <3>1. x = op \/ Harmless(x)
      BY <2>9, <2>2
    <3>2. CASE x = op
      BY <1>1, <1>2, <1>3, <1>4, <1>5, <1>7, <1>8, NoJobIdle, <1>10, <2>1, <1>8, <3>2 DEF OpCalled,
         OpSafe
    <3>3. CASE Harmless(x)
      BY <1>1, <1>2, <1>3, <1>4, <1>5, <1>7, <1>8, NoJobIdle, <1>10, <2>1, <1>8, <3>3 DEF Harmless,
         OpCalled, OpSafe, Executing
    <3> QED BY <3>1, <3>2, <3>3
  <2>10. ASSUME NEW a \in Writes, NEW b \in Writes, Follows(writer', a, b) PROVE PairSafe(a, b)'
    <3>1. Harmless(a) /\ (b = op \/ Harmless(b))
      BY <2>10, <2>2
    <3> QED BY <1>1, <1>2, <1>3, <1>4, <1>5, <1>7, <1>8, NoJobIdle, <1>10, <2>1, <1>8, <3>1
       DEF Harmless, PairSafe
  <2>11. QueueInv'
    BY <1>1, <1>2, <1>3, <1>4, <1>5, <1>7, <1>8, NoJobIdle, <1>10, <2>1, <1>8, <2>2, <2>9,
       <2>10 DEF QueueInv
  <2> QED BY <2>3, <2>4, <2>5, <2>6, <2>7, <2>8, <2>11 DEF Inv
<1> QED BY <1>9, <1>10

LEMMA EditKeepsInv ==
  ASSUME Inv, NEW d \in Dues, NEW s \in {"active", "paused", "failed"}, Edit(d, s)
  PROVE  Inv'
<1>1. TypeOK /\ Clock /\ OneFire /\ JobInv /\ EditInv /\ DiskInv /\ QueueInv
  BY DEF Inv
<1>2. /\ UNCHANGED <<now, process, admitted, fires, putBack, crashes>>
      /\ Up /\ editing = NoEdit /\ editing.kind = "none" /\ mem # NoJob /\ mem \in Jobs
      /\ mem' = Edited(d, s)
      /\ editing'.kind = "update" /\ editing'.before = mem /\ editing'.edited = mem'
           /\ editing'.held = held
      /\ held' = (held /\ phase' = "none") /\ (held' => held /\ phase' = "none")
  <2>1. mem # NoJob
    BY DEF Edit, NoJob
  <2>2. UNCHANGED <<now, process, admitted, fires, putBack, crashes>> /\ Up /\ editing = NoEdit
          /\ mem' = Edited(d, s)
    BY DEF Edit, history
  <2>3. editing' = [kind |-> "update", before |-> mem, edited |-> mem', held |-> held]
    BY DEF Edit
  <2>4. held' = (held /\ phase' = "none")
    BY DEF Edit
  <2>5. held' => held /\ phase' = "none"
    BY <2>4
  <2>6. editing.kind = "none" /\ mem \in Jobs
    BY <1>1, <2>2, OpTypes DEF TypeOK
  <2>7. editing'.kind = "update" /\ editing'.before = mem /\ editing'.edited = mem'
          /\ editing'.held = held
    BY <2>3
  <2> QED BY <2>1, <2>2, <2>4, <2>5, <2>6, <2>7
<1>3. /\ mem' \in Jobs /\ mem' # NoJob /\ mem'.due = d /\ mem'.status = s /\ mem'.left \in 0..1
      /\ mem'.left = mem.left \/ mem'.left = 1
      /\ mem'.due # mem.due => mem'.left = 1
  BY <1>2, EditedJob
<1>4. edits' \in 0..MaxEdits /\ held' \in BOOLEAN
        /\ editing' \in [kind : {"none", "update", "delete", "clear"}, before : Jobs, edited : Jobs,
        held : BOOLEAN]
  BY <1>1, <1>2, <1>3, BoundAssumption DEF Edit, TypeOK
<1>5. /\ d # mem.due => d > now
      /\ Armed(mem') => d > now
      /\ d > now => fires[d] = 0 /\ due # d
      /\ fires[d] \in Nat /\ mem.due \in Dues /\ due \in Dues \cup {0}
  BY <1>1, <1>2, <1>3, JobTypes DEF Edit, Clock, TypeOK, Dues
<1>6. Counted(mem')
  BY <1>1, <1>2, <1>3 DEF JobInv
<1>7. PICK op \in Writes : op.kind = "save" /\ op.by = "edit" /\ op.job = mem'
                             /\ Replaces(Started(mem'), writer, <<op>>) /\ Stays
  <2>1. Save("edit", mem') \in Writes /\ Save("edit", mem').kind = "save"
          /\ Save("edit", mem').by = "edit"
        /\ Save("edit", mem').job = mem'
    BY <1>2, <1>3, OpTypes
  <2>2. Replaces(Started(mem'), writer, <<Save("edit", mem')>>) /\ Stays
    BY <1>2 DEF Edit
  <2> QED BY <2>1, <2>2
<1>8. \/ /\ phase \in Executing /\ pending' = TRUE /\ Handed(op)
         /\ UNCHANGED <<phase, due, attempts, success>>
      \/ /\ phase \notin Executing /\ phase' = Started(mem') /\ due' = 0 /\ attempts' = 0
         /\ success' = FALSE /\ pending' = pending
         /\ writer' = Append(Orphans(writer, "nobody"), op)
  <2> DEFINE start == Started(mem')
  <2>1. Replaces(start, writer, <<op>>)
    BY <1>7
  <2> HIDE DEF start
  <2>2. \/ /\ phase \in Executing /\ pending' = TRUE /\ Handed(op)
           /\ UNCHANGED <<phase, due, attempts, success>>
        \/ /\ phase \notin Executing /\ phase' = start /\ due' = 0 /\ attempts' = 0
           /\ success' = FALSE /\ pending' = pending
           /\ writer' = Append(Orphans(writer, "nobody"), op)
    BY <1>1, <1>7, <2>1, ReplacesShape
  <2> QED BY <2>2 DEF start
<1>9. \A x \in Writes : OpCalled(x) => x.by # "edit"
  BY <1>2, OpTypes DEF OpCalled
<1>10. UNCHANGED <<disk, claim, faults>>
  BY <1>7 DEF Stays
<1>11. CASE phase \in Executing
  <2>1. /\ pending' = TRUE /\ pending' /\ Handed(op)
        /\ UNCHANGED <<phase, due, attempts, success>> /\ phase # "none" /\ phase # "sleeping"
             /\ ~held
    BY <1>1, <1>8, <1>11 DEF Clock, Executing
  <2>2. TypeOK'
    BY <1>1, <1>2, <1>4, <1>6, <1>3, <1>5, <1>7, <1>9, <1>10, NoJobIdle, <1>11, <2>1 DEF TypeOK,
       Phases, Executing, Handed
  <2>3. Clock'
    BY <1>1, <1>2, <1>4, <1>6, <1>3, <1>5, <1>7, <1>9, <1>10, NoJobIdle, <1>11, <2>1 DEF Clock,
       Handed
  <2>4. OneFire'
    BY <1>1, <1>2, <1>4, <1>6, <1>3, <1>5, <1>7, <1>9, <1>10, NoJobIdle, <1>11, <2>1 DEF OneFire
  <2>5. JobInv'
    BY <1>1, <1>2, <1>4, <1>6, <1>3, <1>5, <1>7, <1>9, <1>10, NoJobIdle, <1>11, <2>1 DEF JobInv,
       Handed
  <2>6. EditInv'
    BY <1>1, <1>2, <1>4, <1>6, <1>3, <1>5, <1>7, <1>9, <1>10, NoJobIdle, <1>11, <2>1 DEF EditInv,
       Handed, JobInv
  <2>7. DiskInv'
    BY <1>1, <1>2, <1>4, <1>6, <1>3, <1>5, <1>7, <1>9, <1>10, NoJobIdle, <1>11, <2>1 DEF DiskInv,
       Handed
  <2>8. QueueInv'
    <3>1. OpCalled(op)' /\ OpSafe(op)'
      BY <1>1, <1>2, <1>4, <1>6, <1>3, <1>5, <1>7, <1>9, <1>10, NoJobIdle, <1>11, <2>1, <2>7
         DEF Handed, OpCalled, OpSafe, DiskInv
    <3>2. ASSUME NEW o \in Writes, Holds(writer, o), OpCalled(o), OpSafe(o)
          PROVE  OpCalled(o)' /\ OpSafe(o)' /\ PairSafe(o, op)'
      <4>1. OpCalled(o)'
        BY <1>1, <1>2, <1>4, <1>6, <1>3, <1>5, <1>7, <1>9, <1>10, NoJobIdle, <1>11, <2>1, <3>2
           DEF Handed, OpCalled, OpSafe, PairSafe, Executing, EditInv, DiskInv, JobInv, Clock
      <4>2. OpSafe(o)'
        BY <1>1, <1>2, <1>4, <1>6, <1>3, <1>5, <1>7, <1>9, <1>10, NoJobIdle, <1>11, <2>1, <3>2
           DEF Handed, OpCalled, OpSafe, PairSafe, Executing, EditInv, DiskInv, JobInv, Clock
      <4>3. PairSafe(o, op)'
        BY <1>1, <1>2, <1>4, <1>6, <1>3, <1>5, <1>7, <1>9, <1>10, NoJobIdle, <1>11, <2>1, <3>2
           DEF Handed, OpCalled, OpSafe, PairSafe, Executing, EditInv, DiskInv, JobInv, Clock
      <4> QED BY <4>1, <4>2, <4>3
    <3>3. ASSUME NEW a \in Writes, NEW b \in Writes, Follows(writer, a, b), OpCalled(a),
                 OpCalled(b), PairSafe(a, b)
          PROVE  PairSafe(a, b)'
      BY <1>1, <1>2, <1>4, <1>6, <1>3, <1>5, <1>7, <1>9, <1>10, NoJobIdle, <1>11, <2>1, <3>3
         DEF Handed, OpCalled, PairSafe
    <3> QED BY <1>1, <1>2, <1>4, <1>6, <1>3, <1>5, <1>7, <1>9, <1>10, NoJobIdle, <1>11, <2>1, <3>1,
       <3>2, <3>3, FollowsHolds DEF Handed, QueueInv
  <2> QED BY <2>2, <2>3, <2>4, <2>5, <2>6, <2>7, <2>8 DEF Inv
<1>12. CASE phase \notin Executing
  <2>1. /\ phase' = Started(mem') /\ due' = 0 /\ attempts' = 0 /\ success' = FALSE
             /\ pending' = pending
        /\ (pending' <=> pending) /\ phase' \in {"none", "sleeping"}
             /\ (phase' = "sleeping" => Armed(mem'))
        /\ writer' = Append(Orphans(writer, "nobody"), op)
    BY <1>8, <1>12 DEF Started
  <2>2. /\ writer' \in Seq(Writes) /\ Holds(writer', op)
        /\ \A x \in Writes : Holds(writer', x) => x = op \/ Harmless(x)
        /\ \A a, b \in Writes : Follows(writer', a, b) => Harmless(a) /\ (b = op \/ Harmless(b))
    BY <1>2, <1>12, <2>1, ReplacedQueue
  <2>3. TypeOK'
    BY <1>1, <1>2, <1>4, <1>6, <1>3, <1>5, <1>7, <1>9, <1>10, NoJobIdle, <1>12, <2>1, <2>2
       DEF TypeOK, Phases, Stays
  <2>4. Clock'
    BY <1>1, <1>2, <1>4, <1>6, <1>3, <1>5, <1>7, <1>9, <1>10, NoJobIdle, <1>12, <2>1, <2>2
       DEF Clock, Stays, TypeOK
  <2>5. OneFire'
    BY <1>1, <1>2, <1>4, <1>6, <1>3, <1>5, <1>7, <1>9, <1>10, NoJobIdle, <1>12, <2>1, <2>2
       DEF OneFire
  <2>6. JobInv'
    BY <1>1, <1>2, <1>4, <1>6, <1>3, <1>5, <1>7, <1>9, <1>10, NoJobIdle, <1>12, <2>1, <2>2
       DEF JobInv, Stays
  <2>7. EditInv'
    BY <1>1, <1>2, <1>4, <1>6, <1>3, <1>5, <1>7, <1>9, <1>10, NoJobIdle, <1>12, <2>1, <2>2
       DEF EditInv, JobInv, Executing
  <2>8. DiskInv'
    BY <1>1, <1>2, <1>4, <1>6, <1>3, <1>5, <1>7, <1>9, <1>10, NoJobIdle, <1>12, <2>1, <2>2
       DEF DiskInv, Stays
  <2>9. ASSUME NEW x \in Writes, Holds(writer', x) PROVE OpCalled(x)' /\ OpSafe(x)'
    <3>1. x = op \/ Harmless(x)
      BY <2>9, <2>2
    <3>2. CASE x = op
      BY <1>1, <1>2, <1>4, <1>6, <1>3, <1>5, <1>7, <1>9, <1>10, NoJobIdle, <1>12, <2>1, <1>10,
         <3>2 DEF OpCalled, OpSafe
    <3>3. CASE Harmless(x)
      BY <1>1, <1>2, <1>4, <1>6, <1>3, <1>5, <1>7, <1>9, <1>10, NoJobIdle, <1>12, <2>1, <1>10,
         <3>3 DEF Harmless, OpCalled, OpSafe, Executing
    <3> QED BY <3>1, <3>2, <3>3
  <2>10. ASSUME NEW a \in Writes, NEW b \in Writes, Follows(writer', a, b) PROVE PairSafe(a, b)'
    <3>1. Harmless(a) /\ (b = op \/ Harmless(b))
      BY <2>10, <2>2
    <3> QED BY <1>1, <1>2, <1>4, <1>6, <1>3, <1>5, <1>7, <1>9, <1>10, NoJobIdle, <1>12, <2>1, <1>10,
       <3>1 DEF Harmless, PairSafe
  <2>11. QueueInv'
    BY <1>1, <1>2, <1>4, <1>6, <1>3, <1>5, <1>7, <1>9, <1>10, NoJobIdle, <1>12, <2>1, <1>10, <2>2,
       <2>9, <2>10 DEF QueueInv
  <2> QED BY <2>3, <2>4, <2>5, <2>6, <2>7, <2>8, <2>11 DEF Inv
<1> QED BY <1>11, <1>12

\* The edit's write h has failed and its task goes on, or is replaced.
LEMMA UndoShape ==
  ASSUME Inv, NEW job \in Jobs, NEW restart \in BOOLEAN, NEW again \in BOOLEAN,
         Undo(job, restart, again)
  PROVE  /\ UNCHANGED <<now, process, admitted, fires, edits, crashes, disk, claim>>
         /\ mem' = job /\ editing' = NoEdit /\ faults' \in 0..MaxFaults /\ held' \in BOOLEAN
         /\ held' => held /\ phase' = "none"
         /\ putBack' = IF again THEN putBack \cup {job.due} ELSE putBack
         /\ \E h \in Writes :
              /\ h.by = "edit" /\ SafelyServed(h)
              /\ \A x \in Writes : Holds(writer, x) /\ x.by # "edit" => x # h
              /\ \/ /\ ServedLast(h, "edit", FALSE) /\ UNCHANGED <<phase, due, attempts, success>>
                    /\ \/ process = "up" /\ restart /\ phase \in Executing /\ pending' = TRUE
                       \/ ~(process = "up" /\ restart) /\ pending' = pending
                 \/ /\ process = "up" /\ restart /\ phase \notin Executing /\ phase' = Started(job)
                    /\ due' = 0 /\ attempts' = 0 /\ success' = FALSE /\ pending' = pending
                    /\ writer' \in Seq(Writes)
                    /\ \A x \in Writes : Holds(writer', x) => Harmless(x)
<1> DEFINE h == Head(writer)  t == Tail(writer)
<1>1. TypeOK /\ QueueInv
  BY DEF Inv
<1>2. Written("edit", FALSE)
  BY DEF Undo
<1>3. /\ h \in Writes /\ h.by = "edit" /\ Holds(writer, h) /\ t \in Seq(Writes)
      /\ \A x \in Writes : Holds(t, x) => Follows(writer, h, x) /\ Holds(writer, x)
      /\ \A x \in Writes : Holds(writer, x) => x = h \/ Holds(t, x)
      /\ \A a, b \in Writes : Follows(t, a, b) => Follows(writer, a, b)
      /\ disk' \in Jobs /\ claim' \in Dues \cup {0} /\ faults' \in 0..MaxFaults
      /\ disk' = disk /\ claim' = claim
  BY <1>1, <1>2, WrittenQueue
<1> HIDE DEF h, t
<1>4. Served(h, "edit", FALSE) \/ writer' # t
  BY <1>3 DEF Served
<1>5. SafelyServed(h)
  <2>1. /\ OpCalled(h) /\ OpSafe(h)
    BY <1>1, <1>3 DEF QueueInv
  <2>2. \A x \in Writes : Follows(writer, h, x) =>
          OpCalled(x) /\ OpSafe(x) /\ PairSafe(h, x) /\ Holds(writer, x)
    BY <1>1, <1>3, FollowsHolds DEF QueueInv
  <2>3. Counted(disk) /\ (Risky(disk) => claim = disk.due)
        /\ (Up /\ mem = NoJob /\ ~Changing => disk = NoJob)
    BY DEF Inv, JobInv, DiskInv
  <2> QED BY <1>3, <2>1, <2>2, <2>3 DEF SafelyServed
<1>6. ASSUME NEW x \in Writes, Holds(t, x) PROVE Holds(writer, x) /\ x.by # "edit"
  BY <1>3, <1>5, <1>6 DEF SafelyServed, PairSafe
<1>7. CASE process = "up" /\ restart /\ phase \notin Executing
  <2>1. /\ phase' = Started(job) /\ due' = 0 /\ attempts' = 0 /\ success' = FALSE
        /\ pending' = pending /\ writer' = Orphans(t, "nobody") \o <<>>
    BY <1>7 DEF Undo, Replaces, t
  <2>2. /\ Orphans(t, "nobody") \in Seq(Writes)
        /\ \A x \in Writes : Holds(Orphans(t, "nobody"), x) => Harmless(x)
    BY <1>3, <1>6, <1>7, OrphansAreHarmless
  <2>3. writer' = Orphans(t, "nobody")
    BY <2>1, <2>2
  <2>4. held' = (held /\ phase' = "none")
    BY DEF Undo
  <2> QED BY <1>3, <1>5, <1>7, <2>1, <2>2, <2>3, <2>4 DEF Undo
<1>8. CASE ~(process = "up" /\ restart /\ phase \notin Executing)
  <2>1. writer' = t
    <3>1. writer' = t \/ writer' = t \o <<>>
      BY <1>8 DEF Undo, Replaces, t
    <3> QED BY <1>3, <3>1
  <2>2. ServedLast(h, "edit", FALSE)
    BY <1>3, <1>4, <2>1, FollowsHolds DEF ServedLast
  <2>3. /\ UNCHANGED <<phase, due, attempts, success>>
        /\ \/ process = "up" /\ restart /\ phase \in Executing /\ pending' = TRUE
           \/ ~(process = "up" /\ restart) /\ pending' = pending
    BY <1>8 DEF Undo, Replaces
  <2>4. held' = (held /\ phase' = "none")
    BY DEF Undo
  <2> QED BY <1>3, <1>5, <2>2, <2>3, <2>4 DEF Undo
<1> QED BY <1>7, <1>8

\* What the undo of an edit or of a deletion must bring back.
LEMMA UndoKeepsInv ==
  ASSUME Inv, Changing, NEW job \in Jobs, NEW restart \in BOOLEAN, NEW again \in BOOLEAN,
         Undo(job, restart, again),
         job # NoJob, job.due = editing.before.due, Counted(job),
         Active(job) => restart,
         restart \/ mem = NoJob,
         Up /\ Armed(job) => again \/ ~Used(job.due) \/ (phase = "started" /\ due = job.due),
         \A x \in Writes :
           Holds(writer, x) /\ x.kind = "claim" /\ Risky(disk) /\ disk.due # x.due => again
  PROVE  Inv'
<1>1. TypeOK /\ Clock /\ OneFire /\ JobInv /\ EditInv /\ DiskInv /\ QueueInv
  BY DEF Inv
<1>2. /\ UNCHANGED <<now, process, admitted, fires, edits, crashes, disk, claim>>
      /\ mem' = job /\ editing' = NoEdit /\ faults' \in 0..MaxFaults /\ held' \in BOOLEAN
      /\ held' => held /\ phase' = "none"
      /\ putBack' = IF again THEN putBack \cup {job.due} ELSE putBack
  BY UndoShape
<1>3. PICK h \in Writes :
        /\ h.by = "edit" /\ SafelyServed(h)
        /\ \A x \in Writes : Holds(writer, x) /\ x.by # "edit" => x # h
        /\ \/ /\ ServedLast(h, "edit", FALSE) /\ UNCHANGED <<phase, due, attempts, success>>
              /\ \/ process = "up" /\ restart /\ phase \in Executing /\ pending' = TRUE
                 \/ ~(process = "up" /\ restart) /\ pending' = pending
           \/ /\ process = "up" /\ restart /\ phase \notin Executing /\ phase' = Started(job)
              /\ due' = 0 /\ attempts' = 0 /\ success' = FALSE /\ pending' = pending
              /\ writer' \in Seq(Writes)
              /\ \A x \in Writes : Holds(writer', x) => Harmless(x)
  BY UndoShape
<1>4. /\ editing' \in [kind : {"none", "update", "delete", "clear"}, before : Jobs, edited : Jobs,
                       held : BOOLEAN]
      /\ editing'.kind = "none" /\ editing'.before = NoJob
      /\ job.due \in Dues /\ job.due # 0 /\ putBack' \subseteq Dues
           /\ (again => job.due \in putBack')
      /\ \A d : d \in putBack => d \in putBack'
      /\ process # "down"
  BY <1>1, <1>2, OpTypes, JobTypes DEF NoEdit, TypeOK, Clock
<1>5. Changing /\ job # NoJob /\ job.due = editing.before.due /\ Counted(job)
        /\ (Active(job) => restart)
      /\ (restart \/ mem = NoJob)
      /\ (Up /\ Armed(job) => again \/ ~Used(job.due) \/ (phase = "started" /\ due = job.due))
  OBVIOUS
<1>6. CASE /\ ServedLast(h, "edit", FALSE) /\ UNCHANGED <<phase, due, attempts, success>>
           /\ \/ process = "up" /\ restart /\ phase \in Executing /\ pending' = TRUE
              \/ ~(process = "up" /\ restart) /\ pending' = pending
  <2>1. /\ UNCHANGED <<phase, due, attempts, success>> /\ ServedLast(h, "edit", FALSE)
             /\ SafelyServed(h)
        /\ \/ Up /\ restart /\ phase \in Executing /\ pending' = TRUE /\ pending'
           \/ ~Up /\ phase = "none" /\ pending' = pending /\ (pending' <=> pending)
           \/ Up /\ ~restart /\ mem = NoJob /\ pending' = pending /\ (pending' <=> pending)
    <3>1. CASE process = "up" /\ restart /\ phase \in Executing /\ pending' = TRUE
      BY <1>3, <1>6, <3>1
    <3>2. CASE ~(process = "up" /\ restart) /\ pending' = pending
      <4>1. pending' <=> pending
        BY <3>2
      <4>2. ~Up \/ (Up /\ ~restart /\ mem = NoJob)
        BY <1>5, <3>2
      <4>3. ~Up => phase = "none"
        BY <1>1 DEF Clock
      <4> QED BY <1>3, <1>6, <3>2, <4>1, <4>2, <4>3
    <3> QED BY <1>6, <3>1, <3>2
  <2>2. pending' \in BOOLEAN /\ (phase \in Claimant => pending')
    BY <1>1, <2>1, NoJobIdle DEF TypeOK, JobInv
  <2>3. phase = "announcing" => \E x \in Writes : Holds(writer', x) /\ x.by = "fire"
    BY <1>1, <1>3, <2>1 DEF QueueInv, ServedLast, Served
  <2>4. TypeOK'
    BY <1>1, <1>2, <1>4, <1>5, <2>1, <2>2, NoJobIdle DEF TypeOK, Phases, Executing, Served,
       ServedLast
  <2>5. Clock'
    BY <1>1, <1>2, <1>4, <1>5, <2>1, <2>2, NoJobIdle DEF Clock, Served, ServedLast
  <2>6. OneFire'
    BY <1>1, <1>2, <1>4, <1>5, <2>1, <2>2, NoJobIdle DEF OneFire
  <2>7. JobInv'
    BY <1>1, <1>2, <1>4, <1>5, <2>1, <2>2, NoJobIdle DEF JobInv, Served, ServedLast, SafelyServed,
       Executing
  <2>8. EditInv'
    BY <1>1, <1>2, <1>4, <1>5, <2>1, <2>2, NoJobIdle DEF EditInv, Served, ServedLast, SafelyServed
  <2>9. DiskInv'
    BY <1>1, <1>2, <1>4, <1>5, <2>1, <2>2, NoJobIdle DEF DiskInv, Served, ServedLast, SafelyServed
  <2>10. QueueInv'
    <3>1. ASSUME NEW o \in Writes, Follows(writer, h, o), OpCalled(o), OpSafe(o), PairSafe(h, o)
          PROVE  OpCalled(o)' /\ OpSafe(o)'
      <4>1. OpCalled(o)'
        BY <1>1, <1>2, <1>4, <1>5, <2>1, <2>2, NoJobIdle, <3>1 DEF ServedLast, Served, OpCalled,
           PairSafe, Executing
      <4>2. o.kind = "claim" /\ Risky(disk) /\ disk.due # o.due => again /\ job.due = disk.due
        BY <1>5, <3>1, FollowsHolds DEF OpSafe
      <4>3. OpSafe(o)'
        BY <1>1, <1>2, <1>4, <1>5, <2>1, <2>2, NoJobIdle, <3>1, <4>2 DEF ServedLast, Served, OpSafe
      <4> QED BY <4>1, <4>3
    <3>2. ASSUME NEW a \in Writes, NEW b \in Writes, Follows(writer, a, b), PairSafe(h, a),
                 PairSafe(h, b), OpCalled(a), OpCalled(b), PairSafe(a, b)
          PROVE  PairSafe(a, b)'
      BY <1>1, <1>2, <1>4, <1>5, <2>1, <2>2, NoJobIdle, <3>2 DEF Served, ServedLast, SafelyServed,
         OpCalled, PairSafe
    <3> QED BY <1>1, <1>2, <1>4, <1>5, <2>1, <2>2, NoJobIdle, <3>1, <3>2, <2>3, FollowsHolds
       DEF ServedLast, Served, SafelyServed, QueueInv
  <2> QED BY <2>4, <2>5, <2>6, <2>7, <2>8, <2>9, <2>10 DEF Inv
<1>7. CASE /\ process = "up" /\ restart /\ phase \notin Executing /\ phase' = Started(job)
           /\ due' = 0 /\ attempts' = 0 /\ success' = FALSE /\ pending' = pending
           /\ writer' \in Seq(Writes)
           /\ \A x \in Writes : Holds(writer', x) => Harmless(x)
  <2>1. /\ process = "up" /\ phase \notin Executing /\ phase' \in {"none", "sleeping"}
        /\ (Armed(job) <=> phase' = "sleeping")
        /\ due' = 0 /\ attempts' = 0 /\ success' = FALSE /\ pending' = pending
             /\ (pending' <=> pending)
        /\ phase # "started"
    BY <1>7 DEF Started, Executing
  <2>2. writer' \in Seq(Writes) /\ \A x \in Writes : Holds(writer', x) => Harmless(x)
    BY <1>7
  <2>3. TypeOK'
    BY <1>1, <1>2, <1>4, <1>5, <2>1, NoJobIdle, <2>2 DEF TypeOK, Phases
  <2>4. Clock'
    BY <1>1, <1>2, <1>4, <1>5, <2>1, NoJobIdle, <2>2 DEF Clock, TypeOK
  <2>5. OneFire'
    BY <1>1, <1>2, <1>4, <1>5, <2>1, NoJobIdle, <2>2 DEF OneFire
  <2>6. JobInv'
    BY <1>1, <1>2, <1>4, <1>5, <2>1, NoJobIdle, <2>2 DEF JobInv
  <2>7. EditInv'
    BY <1>1, <1>2, <1>4, <1>5, <2>1, NoJobIdle, <2>2 DEF EditInv
  <2>8. DiskInv'
    BY <1>1, <1>2, <1>4, <1>5, <2>1, NoJobIdle, <2>2 DEF DiskInv
  <2>9. QueueInv'
    <3>1. ASSUME NEW x \in Writes, Holds(writer', x) PROVE OpCalled(x)' /\ OpSafe(x)'
      <4>1. Harmless(x)
        BY <2>2, <3>1
      <4> QED BY <1>1, <1>2, <1>4, <1>5, <2>1, NoJobIdle, <4>1 DEF Harmless, OpCalled, OpSafe,
         Executing
    <3>2. ASSUME NEW a \in Writes, NEW b \in Writes, Follows(writer', a, b) PROVE PairSafe(a, b)'
      <4>1. Harmless(a) /\ Harmless(b)
        BY <2>2, <3>2, FollowsHolds
      <4> QED BY <1>1, <1>2, <1>4, <1>5, <2>1, NoJobIdle, <4>1 DEF Harmless, PairSafe
    <3> QED BY <1>1, <1>2, <1>4, <1>5, <2>1, NoJobIdle, <3>1, <3>2 DEF QueueInv
  <2> QED BY <2>3, <2>4, <2>5, <2>6, <2>7, <2>8, <2>9 DEF Inv
<1> QED BY <1>3, <1>6, <1>7

LEMMA DeleteFailsKeepsInv == ASSUME Inv, DeleteFails PROVE Inv'
<1> DEFINE job == editing.before  restart == Active(job)  again == fires[job.due] > 0
<1>1. TypeOK /\ Clock /\ OneFire /\ JobInv /\ EditInv /\ DiskInv /\ QueueInv
  BY DEF Inv
<1>2. Undo(job, restart, again) /\ editing.kind = "delete"
  BY DEF DeleteFails
<1>3. /\ Changing /\ job \in Jobs /\ job # NoJob /\ Counted(job) /\ mem = NoJob
      /\ job.due = editing.before.due
      /\ restart \in BOOLEAN /\ again \in BOOLEAN /\ (Active(job) => restart)
  BY <1>1, <1>2 DEF TypeOK, EditInv, JobInv
<1>4. Up /\ Armed(job) => again \/ ~Used(job.due) \/ (phase = "started" /\ due = job.due)
  OBVIOUS
<1>5. \A x \in Writes :
        Holds(writer, x) /\ x.kind = "claim" /\ Risky(disk) /\ disk.due # x.due => again
  BY <1>1, <1>2 DEF QueueInv, OpSafe
<1> HIDE DEF job, restart, again
<1> QED BY <1>2, <1>3, <1>4, <1>5, UndoKeepsInv

\* What the undo of an edit makes of the job.
LEMMA TakenBackJob ==
  ASSUME Inv, Updating
  PROVE  LET b == editing.before IN
         /\ TakenBack \in Jobs /\ TakenBack # NoJob /\ TakenBack.due = b.due
         /\ Active(TakenBack) => Active(b)
         /\ TakenBack.left # 0 =>
              b.left # 0 /\ editing.edited.left = 1 /\ mem.left = 1 /\ admitted # b.due
         /\ TakenBack.left = 0 =>
              \/ admitted = b.due \/ b.left = 0 \/ (mem.left = 0 /\ b.left = editing.edited.left)
<1> DEFINE b == editing.before  e == editing.edited
           L == IF b.left = e.left THEN mem.left
                ELSE IF mem.left = e.left THEN b.left
                ELSE IF b.left > e.left - mem.left THEN b.left - (e.left - mem.left) ELSE 0
           S == IF b.status # e.status /\ mem.status = e.status THEN b.status ELSE mem.status
           back == [mem EXCEPT !.due = b.due, !.status = S, !.left = L]
<1>1. /\ mem \in Jobs /\ b \in Jobs /\ e \in Jobs /\ mem # NoJob /\ b # NoJob /\ e # NoJob
      /\ mem.due = e.due /\ mem.left <= e.left /\ (b.left # e.left => e.left = 1)
      /\ Active(mem) => Active(e)
  BY DEF Inv, TypeOK, EditInv
<1>2. /\ mem \in [status : {"active", "paused", "completed", "failed"}, due : Dues, left : 0..1]
      /\ b \in [status : {"active", "paused", "completed", "failed"}, due : Dues, left : 0..1]
      /\ e \in [status : {"active", "paused", "completed", "failed"}, due : Dues, left : 0..1]
      /\ NoJob.status = "gone"
  BY <1>1 DEF Jobs, NoJob
<1>3. TakenBack = IF back.due = admitted THEN [back EXCEPT !.left = 0] ELSE back
  <2>1. back = [mem EXCEPT
        !.due = IF @ = e.due THEN b.due ELSE @,
        !.status = IF b.status # e.status /\ @ = e.status THEN b.status ELSE @,
        !.left = IF b.left = e.left THEN @
                 ELSE IF @ = e.left THEN b.left
                 ELSE IF b.left > e.left - @ THEN b.left - (e.left - @) ELSE 0]
    BY <1>1
  <2> QED BY <2>1 DEF TakenBack
<1>4. /\ S \in {"active", "paused", "completed", "failed"}
      /\ S = "active" => b.status = "active"
  BY <1>1, <1>2
<1>5. /\ L \in 0..1
      /\ L # 0 => b.left # 0 /\ e.left = 1 /\ mem.left = 1
      /\ L = 0 => b.left = 0 \/ (mem.left = 0 /\ b.left = e.left)
  <2>1. b.left \in 0..1 /\ e.left \in 0..1 /\ mem.left \in 0..1
    BY <1>2
  <2> QED BY <1>1, <2>1
<1> HIDE DEF L, S
<1>6. /\ back \in [status : {"active", "paused", "completed", "failed"}, due : Dues, left : 0..1]
      /\ back.status = S /\ back.due = b.due /\ back.left = L
  BY <1>2, <1>4, <1>5
<1> HIDE DEF back
<1>7. CASE back.due = admitted
  <2>1. TakenBack = [back EXCEPT !.left = 0]
    BY <1>3, <1>7
  <2>2. 0 \in 0..1
    OBVIOUS
  <2>3. /\ TakenBack \in [status : {"active", "paused", "completed", "failed"}, due : Dues,
             left : 0..1]
        /\ TakenBack.status = S /\ TakenBack.due = b.due /\ TakenBack.left = 0
    BY <1>6, <2>1, <2>2
  <2> QED BY <1>2, <1>4, <1>6, <1>7, <2>3 DEF Jobs
<1>8. CASE back.due # admitted
  <2>1. TakenBack = back
    BY <1>3, <1>8
  <2> QED BY <1>2, <1>4, <1>5, <1>6, <1>8, <2>1 DEF Jobs
<1> QED BY <1>7, <1>8

LEMMA EditFailsKeepsInv == ASSUME Inv, EditFails PROVE Inv'
<1> DEFINE job == TakenBack
           replaced == \E i \in DOMAIN writer : writer[i].kind = "claim" /\ writer[i].due # job.due
           again == editing.held \/ replaced
           b == editing.before
<1>1. TypeOK /\ Clock /\ OneFire /\ JobInv /\ EditInv /\ DiskInv /\ QueueInv
  BY DEF Inv
<1>2. Undo(job, TRUE, again) /\ editing.kind = "update"
  BY DEF EditFails
<1>3. /\ job \in Jobs /\ job # NoJob /\ job.due = b.due
      /\ Active(job) => Active(b)
      /\ job.left # 0 => b.left # 0 /\ editing.edited.left = 1 /\ mem.left = 1 /\ admitted # b.due
      /\ job.left = 0 => \/ admitted = b.due \/ b.left = 0
                         \/ (mem.left = 0 /\ b.left = editing.edited.left)
  BY <1>2, TakenBackJob
<1>4. \A x \in Writes : Holds(writer, x) /\ x.kind = "claim" /\ job.due # x.due => replaced
  BY DEF Holds
<1>5. again \in BOOLEAN /\ (editing.held \/ replaced => again)
  BY <1>1 DEF TypeOK
<1> HIDE DEF job, replaced, again
<1>6. /\ b \in Jobs /\ b # NoJob /\ b.due \in Dues /\ mem # NoJob /\ mem.due = editing.edited.due
      /\ Counted(b) /\ Counted(mem) /\ editing.edited \in Jobs /\ editing.edited.due \in Dues
      /\ b.left \in 0..1 /\ mem.left \in 0..1 /\ (admitted # 0 => fires[admitted] > 0) /\ b.due # 0
  BY <1>1, <1>2, JobTypes DEF TypeOK, EditInv, JobInv, Clock
<1>7. Counted(job)
  <2> SUFFICES ASSUME job.left = 0 PROVE fires[b.due] > 0
    BY <1>3
  <2>1. CASE admitted = b.due
    BY <1>6, <2>1, JobTypes
  <2>2. CASE b.left = 0
    BY <1>6, <2>2
  <2>3. CASE mem.left = 0 /\ b.left = editing.edited.left
    <3>1. fires[editing.edited.due] > 0
      BY <1>6, <2>3
    <3>2. b.due = editing.edited.due
      BY <1>1, <1>2, <3>1 DEF EditInv
    <3> QED BY <3>1, <3>2
  <2> QED BY <1>3, <2>1, <2>2, <2>3
<1>8. Up /\ Armed(job) => again \/ ~Used(job.due) \/ (phase = "started" /\ due = job.due)
  BY <1>1, <1>2, <1>3, <1>5 DEF EditInv
<1>9. \A x \in Writes :
        Holds(writer, x) /\ x.kind = "claim" /\ Risky(disk) /\ disk.due # x.due => again
  BY <1>1, <1>2, <1>3, <1>4, <1>5 DEF QueueInv, OpSafe
<1>10. Changing /\ job.due = editing.before.due
  BY <1>2, <1>3
<1> QED BY <1>2, <1>3, <1>5, <1>7, <1>8, <1>9, <1>10, UndoKeepsInv

(* ----------------------------------------------------------------------- *)
(* The theorems.                                                           *)

LEMMA NextKeepsInv == Inv /\ [Next]_vars => Inv'
<1> SUFFICES ASSUME Inv, [Next]_vars PROVE Inv'
  OBVIOUS
<1>1. CASE Works
  BY <1>1, WakeKeepsInv, TakeSlotKeepsInv, AdmitKeepsInv, ReturnKeepsInv, OrphanEndsKeepsInv,
     TaskDoneKeepsInv,
     RefuseKeepsInv, RunEndsKeepsInv, EditSavedKeepsInv, EditFailsKeepsInv, DeleteSavedKeepsInv,
     DeleteFailsKeepsInv, ClaimLandsKeepsInv, AnnounceLandsKeepsInv, RefusedLandsKeepsInv,
     CancelledLandsKeepsInv, WithdrawLandsKeepsInv, RecordLandsKeepsInv, EndingLandsKeepsInv,
     FinalizeLandsKeepsInv, SettleLandsKeepsInv, AbandonLandsKeepsInv, LastUnclaimLandsKeepsInv,
     ClearLandsKeepsInv, StoppedLandsKeepsInv, NobodyLandsKeepsInv DEF Works
<1>2. CASE Tick \/ Delete \/ Stop \/ Die \/ Boot \/ BootHolds
  BY <1>2, TickKeepsInv, DeleteKeepsInv, StopKeepsInv, DieKeepsInv, BootKeepsInv, BootHoldsKeepsInv
<1>3. CASE \E d \in Dues, s \in {"active", "paused", "failed"} : Edit(d, s)
  BY <1>3, EditKeepsInv
<1>4. CASE \E saved, removed \in BOOLEAN : BootReconciles(saved, removed)
  BY <1>4, BootReconcilesKeepsInv
<1>5. CASE UNCHANGED vars
  BY <1>5 DEF vars, taskVars, history, bounds, Inv, TypeOK, Clock, OneFire, JobInv, EditInv,
     DiskInv, QueueInv,
     OpCalled, OpSafe, PairSafe
<1> QED BY <1>1, <1>2, <1>3, <1>4, <1>5 DEF Next

(* The inductive invariant: while a write, an edit or a crash may still    *)
(* follow, a used fire is claimed on disk or recorded in the job           *)
(* (_claim_once_fire, _remove_claim, _reconcile_once_claims).              *)
THEOREM FireInvariant == Spec => []Inv
<1> QED BY InitInv, NextKeepsInv, PTL DEF Spec

(* The state of the job, its files, its task and its edit keeps its types. *)
THEOREM TypeCorrect == Spec => []TypeOK
<1>1. Inv => TypeOK
  BY DEF Inv
<1> QED BY <1>1, FireInvariant, PTL

(* No instant is fired twice, whatever is edited, whatever write fails and *)
(* whenever the process dies, but where an undo brought its fire back.     *)
THEOREM NoFireIsRepeated == Spec => []FiresOnceUnlessPutBack
<1>1. Inv => FiresOnceUnlessPutBack
  BY DEF Inv, OneFire, FiresOnceUnlessPutBack
<1> QED BY <1>1, FireInvariant, PTL

(* A job scheduled for another instant while its Run was being admitted    *)
(* keeps the fire of that instant (_replacement_once_fire), undone edits   *)
(* included.                                                               *)
THEOREM ReplacementIsNotSpent == Spec => []ReplacementKeepsItsFire
<1>1. Inv => ReplacementKeepsItsFire
  BY NoJobIdle, JobTypes DEF Inv, TypeOK, JobInv, ReplacementKeepsItsFire
<1> QED BY <1>1, FireInvariant, PTL

(* Whenever the process dies, a fire that had its Run and that jobs.json   *)
(* still announces has its claim beside it: the start that follows finds it. *)
THEOREM UsedFireIsClaimed == Spec => []ConsumedFireIsGuarded
<1>1. Inv => ConsumedFireIsGuarded
  BY DEF Inv, DiskInv, ConsumedFireIsGuarded
<1> QED BY <1>1, FireInvariant, PTL
=============================================================================
