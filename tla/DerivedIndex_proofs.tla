-------------------------- MODULE DerivedIndex_proofs -------------------------
(***************************************************************************)
(* Theorems about the delivery of index work, for any number of calls,     *)
(* postings, subjects, faults and upgrades and any request size.           *)
(*                                                                         *)
(* TInv carries the types, what a drain's answer says and what a pass will *)
(* still get to.  Held says that the rows a drain has in hand are the rows *)
(* its queue has under their sequences, if it has any, so that a drain     *)
(* acknowledges only what the target took, however drains overlap.  That   *)
(* is what a reused sequence breaks, so KInv promises it until then.       *)
(***************************************************************************)
EXTENDS DerivedIndex, FiniteSetTheorems, SequenceTheorems, WellFoundedInduction, TLAPS

------------------------------------------------------------------------------
(* The invariants.                                                          *)

(* An operation is a posting of the property index, or a mutation's vector. *)
GoodOps ==
  {o \in Ops : o.kind = "vector" => o.by \in Calls /\ o.item \in Subjects}
(* The operations of a compaction.                                          *)
Rekeyed(I) == {o \in I : o.kind = "posting" /\ o.by \notin Calls}

(* Rows, the entries of a snapshot, and drains, all of operations in I.     *)
Rows(I) == [m : Calls \cup {0}, op : I, quarantined : BOOLEAN]
Fresh(I) == [m : Calls \cup {0}, op : I, quarantined : {FALSE}]
Entries(I) == [seq : Nat, row : Fresh(I)]
Drains(I) ==
  [pc : {"new", "idle", "done", "catalog", "wait", "answered"},
   src : {"none", "outbox", "journal", "flush"}, todo : Seq(Entries(I)),
   applied : Nat, outcome : {"none", "progress", "terminal", "error"}]

QueueIn(q, I) ==
  /\ DOMAIN q \subseteq Nat /\ IsFiniteSet(DOMAIN q)
  /\ \A i \in DOMAIN q : q[i] \in Rows(I)

(* Only the outbox holds vector work or quarantines a row.                  *)
JournalIn(q, I) ==
  /\ QueueIn(q, I)
  /\ \A i \in DOMAIN q : ~q[i].quarantined /\ q[i].op.kind = "posting"

Active(w) == w.pc \in {"wait", "answered"}
AllPostings(todo) == \A i \in 1..Len(todo) : KindOf(todo[i]) = "posting"
Under(m, todo) == \A i \in 1..Len(todo) : todo[i].row.m = m

(* A drain has work in hand exactly while it waits for an answer or has     *)
(* one.  Vector work is in the outbox, and a call flushes under its own id. *)
WorkIn(d, w, I) ==
  /\ w \in Drains(I)
  /\ Active(w) <=> w.todo # <<>>
  /\ Active(w) <=> w.src # "none"
  /\ w.src # "outbox" => AllPostings(w.todo)
  /\ d \in Calls /\ w.src = "flush" => Under(d, w.todo)
  /\ IF d = Timer THEN w.pc \in {"idle", "catalog", "wait", "answered"}
                  ELSE w.pc \in {"new", "wait", "answered", "done"}

(* The answer is about a part of the request, and what the target says it   *)
(* applied is in A.                                                         *)
Told(w, A) ==
  w.pc = "answered" =>
    /\ w.applied <= BatchLen(w.todo) /\ w.outcome \in {"progress", "terminal", "error"}
    /\ w.outcome = "terminal" => w.applied < BatchLen(w.todo) /\ KindOf(w.todo[1]) = "vector"
    /\ \A i \in 1..w.applied : w.todo[i].row.op \in A

ProcsOK ==
  /\ proc \in [Procs -> Drains(issued)]
  /\ \A d \in Procs : WorkIn(d, proc[d], issued) /\ Told(proc[d], accepted)

(* Every request is somebody's, who waits for it and for no other.          *)
NetOK ==
  /\ net \in [Kinds -> Seq(Procs)]
  /\ \A t \in Kinds : \A i \in 1..Len(net[t]) :
       /\ proc[net[t][i]].pc = "wait" /\ KindOf(proc[net[t][i]].todo[1]) = t
       /\ \A j \in 1..Len(net[t]) : net[t][i] = net[t][j] => i = j
  /\ \A d \in Procs : proc[d].pc = "wait" => \E t \in Kinds : d \in ToSet(net[t])

(* The vector canister keeps the newest stamp it was sent.                  *)
Stamped ==
  /\ vindex \in [Subjects -> Calls \cup {0}]
  /\ \A o \in accepted : o.kind = "vector" => vindex[o.item] >= o.by

StateOK ==
  /\ canon \subseteq Postings /\ index \subseteq Postings
  /\ moves \in 0..Moves /\ faults \in 0..MaxFaults /\ upgrades \in 0..MaxUpgrades
  /\ issued \subseteq GoodOps /\ accepted \subseteq issued
  /\ pending \in Seq(Rekeyed(issued))

TimerOK ==
  /\ timer \in [armed : BOOLEAN, running : BOOLEAN, requested : BOOLEAN]
  /\ timer.running <=> proc[Timer].pc # "idle"
  /\ timer.requested => timer.running
  /\ ~(timer.armed /\ timer.running)

(* What the pass under way will not get to is latched as a request.         *)
WakeOK ==
  /\ NoLostWake
  /\ proc[Timer].src = "flush" => pending = <<>>
  /\ proc[Timer].src = "journal" /\ pending # <<>> => timer.requested
  /\ proc[Timer].src = "outbox" /\ DOMAIN journal # {} => timer.requested

TInv ==
  /\ StateOK /\ QueueIn(outbox, issued) /\ JournalIn(journal, issued)
  /\ ProcsOK /\ NetOK /\ Stamped /\ TimerOK /\ WakeOK

(* What a drain of the outbox has in hand names its own rows or none, for   *)
(* another drain may have removed or quarantined them.  The journal is      *)
(* drained by the timer alone, so its rows are still there.                 *)
Distinct(todo) == \A i, j \in 1..Len(todo) : todo[i].seq = todo[j].seq => i = j
Present(q, todo) ==
  \A i \in 1..Len(todo) : todo[i].seq \in DOMAIN q /\ q[todo[i].seq] = todo[i].row
Agrees(q, todo) ==
  \A i \in 1..Len(todo) :
    todo[i].seq \in DOMAIN q => q[todo[i].seq].op = todo[i].row.op
SnapOK(d, w, ob, jr) ==
  /\ w.src = "outbox" => Agrees(ob, w.todo)
  /\ w.src = "journal" => d = Timer /\ Distinct(w.todo) /\ Present(jr, w.todo)
Snapshot == \A d \in Procs : SnapOK(d, proc[d], outbox, journal)

(* Where an operation waits for its delivery.                               *)
InRow(q, o, m) == \E i \in DOMAIN q : q[i].op = o /\ q[i].m = m
Flushing(o, w) == w.src = "flush" /\ \E i \in 1..Len(w.todo) : w.todo[i].row.op = o

(* What a call issued is applied or waits under the call's mutation id.     *)
CallsKept ==
  \A o \in issued : o.by \in Calls =>
    o \in accepted \/ InRow(outbox, o, o.by) \/ InRow(journal, o, o.by)
                   \/ Flushing(o, proc[o.by])

(* Everything issued is applied or held somewhere, except what compaction   *)
(* left on the heap before an upgrade.                                      *)
InQueue(q, o) == \E i \in DOMAIN q : q[i].op = o
Somewhere(o) ==
  \/ InQueue(outbox, o) \/ InQueue(journal, o)
  \/ \E i \in 1..Len(pending) : pending[i] = o
  \/ \E d \in Procs : Flushing(o, proc[d])
Forgotten(o) == upgrades # 0 /\ o.by \notin Calls
Kept == \A o \in issued : o \in accepted \/ Somewhere(o) \/ Forgotten(o)

Held == Snapshot /\ CallsKept /\ Kept
KInv == ~reused => Held

(* What the queue operations return: the queue grown by operations, the     *)
(* snapshot of a queue, the entries of a flush.                             *)
GrownBy(I, q, m, ops, a) ==
  /\ QueueIn(a, I)
  /\ \A i \in DOMAIN q : i \in DOMAIN a /\ a[i] = q[i]
  /\ \A k \in 1..Len(ops) : \E i \in DOMAIN a : a[i] = Row(m, ops[k])
  /\ \A i \in DOMAIN a : i \in DOMAIN q \/ \E k \in 1..Len(ops) : a[i] = Row(m, ops[k])
SnapshotOf(I, q, s) ==
  /\ s \in Seq(Entries(I)) /\ Len(s) = Cardinality(PendingRows(q))
  /\ Present(q, s) /\ Distinct(s)
  /\ s = <<>> <=> PendingRows(q) = {}
  /\ \A i \in 1..Len(s) : s[i].seq \in PendingRows(q)
LessRows(I, q, S, r) ==
  /\ QueueIn(r, I) /\ DOMAIN r = DOMAIN q \ S
  /\ \A i \in DOMAIN r : r[i] = q[i]
MarkedRow(I, q, x, r) ==
  /\ QueueIn(r, I) /\ DOMAIN r = DOMAIN q
  /\ \A i \in DOMAIN q : r[i].m = q[i].m /\ r[i].op = q[i].op
  /\ \A i \in DOMAIN q : i # x => r[i] = q[i]
  /\ \A i \in DOMAIN q : q[i].quarantined => r[i].quarantined
SuffixOf(S, todo, k, r) ==
  /\ r \in Seq(S)
  /\ \A i \in 1..Len(r) : k + i \in 1..Len(todo) /\ r[i] = todo[k + i]
  /\ \A j \in 1..Len(todo) : j > k => \E i \in 1..Len(r) : j = k + i
BatchOf(I, todo) ==
  /\ GroupLen(todo) \in 1..Len(todo) /\ BatchLen(todo) \in 1..GroupLen(todo)
  /\ BatchLen(todo) \in 1..Len(todo)
  /\ Batch(todo) \in Seq(Entries(I)) /\ Len(Batch(todo)) = BatchLen(todo)
  /\ \A i \in 1..BatchLen(todo) : Batch(todo)[i] = todo[i]
FlushOf(I, m, ops, v) ==
  /\ v \in Seq(Entries(I)) /\ Len(v) = Len(ops) /\ Under(m, v)
  /\ \A i \in 1..Len(ops) : v[i].row.op = ops[i]

(* What a pass may do after a drain of src: end, or one of the next stages. *)
StageAfter(I, src, ob, jr, pd, w) ==
  /\ WorkIn(Timer, w, I) /\ w.pc \in {"idle", "wait"}
  /\ w.pc = "idle" => /\ w.src = "none"
                      /\ src = "outbox" => PendingRows(ob) # {} \/ (DOMAIN jr = {} /\ pd = <<>>)
  /\ w.pc = "wait" => \/ /\ w.src = "journal" /\ src # "journal"
                         /\ DOMAIN jr # {} /\ w.todo = Peek(jr)
                      \/ w.src = "flush" /\ src = "outbox" /\ w.todo = Volatile(0, pd)

(* What a drain does after an answer: the next batch, the pass's next       *)
(* stage, or the end.                                                       *)
Resumed(I, d, src, todo, ob, jr, pd, w) ==
  /\ WorkIn(d, w, I) /\ w.pc \in {"wait", "idle", "done"}
  /\ \/ w.pc = "wait" /\ w.src = src /\ w.todo = todo /\ MaySend(src, todo, ob)
     \/ d = Timer /\ StageAfter(I, src, ob, jr, pd, w)
     \/ d # Timer /\ w.pc = "done" /\ w.src = "none"
  /\ MaySend(src, todo, ob) => w.pc = "wait" /\ w.src = src /\ w.todo = todo

(* What a pass starts with: jr is the journal it leaves.                    *)
FirstOf(I, ob, q, pd, jr, w) ==
  /\ JournalIn(jr, I) /\ WorkIn(Timer, w, I)
  /\ \A i \in DOMAIN q : i \in DOMAIN jr /\ jr[i] = q[i]
  /\ \/ /\ w.pc = "idle" /\ w.src = "none"
        /\ DOMAIN jr = {} /\ PendingRows(ob) = {} /\ pd = <<>>
     \/ w.pc = "wait" /\ w.src = "outbox" /\ DOMAIN jr = {} /\ w.todo = Peek(ob)
     \/ w.pc = "wait" /\ w.src = "flush" /\ w.todo = Volatile(0, pd)
     \/ /\ w.pc = "wait" /\ w.src = "journal" /\ w.todo = Peek(jr)
        /\ \A k \in 1..Len(pd) : \E i \in DOMAIN jr : jr[i] = Row(0, pd[k])

------------------------------------------------------------------------------
(* Numbers, sets and sequences.                                             *)

(* The natural numbers are well ordered.                                    *)
LEMMA LeastNat ==
  ASSUME NEW S \in SUBSET Nat, S # {}
  PROVE  Min(S) \in S /\ \A y \in S : Min(S) <= y
<1>. DEFINE R == OpToRel(<, Nat)
<1>1. IsWellFoundedOn(R, Nat)
  BY NatLessThanWellFounded
<1>2. \A x, y \in Nat : x < y => <<x, y>> \in R
  BY DEF OpToRel
<1>. HIDE DEF R
<1>3. PICK m \in S : \A j \in S : <<j, m>> \notin R
  BY <1>1, WFMin
<1>4. \A j \in S : m <= j
  <2>. TAKE j \in S
  <2>1. j \in Nat /\ m \in Nat
    OBVIOUS
  <2>2. ~(j < m)
    BY <1>2, <1>3, <2>1
  <2>. QED
    BY <2>1, <2>2
<1>. QED
  BY <1>4 DEF Min

(* A smaller subset has a smaller rank.                                     *)
LEMMA RankGrows ==
  ASSUME NEW S \in SUBSET Nat, IsFiniteSet(S), NEW x \in S, NEW y \in S, x < y
  PROVE  Cardinality({z \in S : z < x}) < Cardinality({z \in S : z < y})
<1>. DEFINE A == {z \in S : z < x}
            B == {z \in S : z < y}
<1>1. A \in SUBSET B /\ x \in B /\ x \notin A /\ B \in SUBSET S
  <2>1. ASSUME NEW z \in A PROVE z \in B
    <3>1. z \in S /\ z < x
      BY <2>1
    <3>2. z \in Nat /\ x \in Nat /\ y \in Nat
      BY <3>1
    <3>. QED
      BY <3>1, <3>2
  <2>2. x \in B
    OBVIOUS
  <2>3. x \in Nat
    OBVIOUS
  <2>4. x \notin A
    BY <2>3
  <2>5. B \in SUBSET S
    OBVIOUS
  <2>. HIDE DEF A, B
  <2>. QED BY <2>1, <2>2, <2>4, <2>5
<1>. HIDE DEF A, B
<1>2. IsFiniteSet(A) /\ IsFiniteSet(B)
  BY <1>1, FS_Subset
<1>3. Cardinality(A) \in Nat /\ Cardinality(B) \in Nat
  BY <1>2, FS_CardinalityType
<1>4. Cardinality(A) <= Cardinality(B) /\ Cardinality(A) # Cardinality(B)
  BY <1>1, <1>2, FS_Subset
<1>5. Cardinality(A) < Cardinality(B)
  BY <1>3, <1>4
<1>. QED
  BY <1>5 DEF A, B

(* A rank is below the size of the set.                                     *)
LEMMA RankBound ==
  ASSUME NEW S \in SUBSET Nat, IsFiniteSet(S), NEW x \in S
  PROVE  Cardinality({y \in S : y < x}) \in 0..(Cardinality(S) - 1)
<1>. DEFINE B == {y \in S : y < x}
<1>1. B \in SUBSET S /\ x \notin B
  OBVIOUS
<1>. HIDE DEF B
<1>2. /\ IsFiniteSet(B) /\ Cardinality(B) <= Cardinality(S)
      /\ (Cardinality(S) = Cardinality(B) => S = B)
  BY <1>1, FS_Subset
<1>3. Cardinality(B) \in Nat /\ Cardinality(S) \in Nat
  BY <1>2, FS_CardinalityType
<1>4. Cardinality(B) \in 0..(Cardinality(S) - 1)
  BY <1>1, <1>2, <1>3
<1>. QED
  BY <1>4 DEF B

(* Every rank is taken: Ranked picks the i-th element of a queue's rows.    *)
LEMMA RankedIn ==
  ASSUME NEW S \in SUBSET Nat, IsFiniteSet(S), NEW i \in 1..Cardinality(S)
  PROVE  /\ Ranked(S, i) \in S
         /\ Cardinality({y \in S : y < Ranked(S, i)}) = i - 1
<1>. DEFINE n == Cardinality(S)
            T == 0..(n - 1)
            rank == [x \in S |-> Cardinality({y \in S : y < x})]
<1>1. n \in Nat
  BY FS_CardinalityType
<1>2. ASSUME NEW x \in S PROVE rank[x] \in T
  BY RankBound
<1>3. rank \in [S -> T]
  BY <1>2
<1>4. ASSUME NEW x \in S, NEW y \in S, rank[x] = rank[y] PROVE x = y
  <2>1. rank[x] = Cardinality({z \in S : z < x}) /\ rank[y] = Cardinality({z \in S : z < y})
    OBVIOUS
  <2>2. x \in Nat /\ y \in Nat
    OBVIOUS
  <2>3. rank[x] \in Nat /\ rank[y] \in Nat
    <3>. HIDE DEF rank, n
    <3>. QED BY <1>1, <1>2
  <2>4. ASSUME x < y PROVE FALSE
    <3>1. rank[x] < rank[y]
      BY <2>1, <2>4, RankGrows
    <3>. HIDE DEF rank
    <3>. QED BY <1>4, <2>3, <3>1
  <2>5. ASSUME y < x PROVE FALSE
    <3>1. rank[y] < rank[x]
      BY <2>1, <2>5, RankGrows
    <3>. HIDE DEF rank
    <3>. QED BY <1>4, <2>3, <3>1
  <2>. QED
    BY <2>2, <2>4, <2>5
<1>5. IsFiniteSet(T) /\ Cardinality(T) = n
  <2>. HIDE DEF n
  <2>1. IsFiniteSet(T) /\ Cardinality(T) = IF 0 > n - 1 THEN 0 ELSE (n - 1) - 0 + 1
    BY <1>1, FS_Interval
  <2>. QED
    BY <1>1, <2>1
<1>6. rank \in Injection(S, T)
  <2>1. IsInjective(rank)
    <3>1. DOMAIN rank = S
      OBVIOUS
    <3>. HIDE DEF rank
    <3>. QED BY <1>4, <3>1 DEF IsInjective
  <2>. HIDE DEF rank, T
  <2>. QED BY <1>3, <2>1 DEF Injection
<1>7. rank \in Surjection(S, T)
  <2>. HIDE DEF rank, T
  <2>. QED BY <1>5, <1>6, FS_Injection
<1>8. i - 1 \in T
  <2>. HIDE DEF n
  <2>1. i \in 1..n
    BY DEF n
  <2>. QED BY <1>1, <2>1
<1>9. \E x \in S : rank[x] = i - 1
  <2>. HIDE DEF rank, T
  <2>. QED BY <1>7, <1>8 DEF Surjection
<1>10. \E x \in S : Cardinality({y \in S : y < x}) = i - 1
  BY <1>9
<1>. QED
  BY <1>10 DEF Ranked

(* A finite nonempty set of naturals has a greatest element.                *)
LEMMA GreatestNat ==
  ASSUME NEW S \in SUBSET Nat, IsFiniteSet(S), S # {}
  PROVE  Max(S) \in S /\ \A y \in S : y <= Max(S)
<1>1. Cardinality(S) \in Nat \ {0}
  BY FS_CardinalityType, FS_EmptySet
<1>2. PICK n : n = Cardinality(S)
  OBVIOUS
<1>3. PICK x : x = Ranked(S, n)
  OBVIOUS
<1>4. x \in S /\ Cardinality({y \in S : y < x}) = n - 1
  BY <1>1, <1>2, <1>3, RankedIn
<1>5. ASSUME NEW y \in S PROVE y <= x
  <2>1. x \in Nat /\ y \in Nat
    BY <1>4
  <2>2. ASSUME x < y PROVE FALSE
    <3>1. Cardinality({z \in S : z < x}) < Cardinality({z \in S : z < y})
      BY <1>4, <2>2, RankGrows
    <3>2. PICK r : r = Cardinality({z \in S : z < y})
      OBVIOUS
    <3>3. r \in 0..(n - 1)
      BY <1>2, <3>2, RankBound
    <3>4. n - 1 < r
      BY <1>4, <3>1, <3>2
    <3>. QED
      BY <1>1, <1>2, <3>3, <3>4
  <2>. QED
    BY <2>1, <2>2
<1>. QED
  BY <1>4, <1>5 DEF Max

(* The smaller of two numbers.                                              *)
LEMMA MinOfTwo ==
  ASSUME NEW a \in Nat, NEW b \in Nat
  PROVE  Min({a, b}) \in {a, b} /\ Min({a, b}) <= a /\ Min({a, b}) <= b
<1>1. {a, b} \in SUBSET Nat /\ {a, b} # {}
  OBVIOUS
<1>. QED
  BY <1>1, LeastNat

(* A finite set becomes a sequence of its elements.                         *)
LEMMA SetSeq ==
  ASSUME NEW S, IsFiniteSet(S)
  PROVE  /\ SetToSeq(S) \in Seq(S) /\ (S # {} => SetToSeq(S) # <<>>)
         /\ \A x \in S : \E i \in 1..Len(SetToSeq(S)) : SetToSeq(S)[i] = x
<1>1. PICK n \in Nat : n = Cardinality(S)
  BY FS_CardinalityType
<1>2. \E f : f \in Bijection(1..n, S)
  BY <1>1, FS_CardinalityType DEF ExistsBijection
<1>3. \E f \in [1..n -> S] : IsInjective(f)
  BY <1>2 DEF Bijection, Injection
<1>4. SetToSeq(S) \in [1..n -> S] /\ IsInjective(SetToSeq(S))
  BY <1>1, <1>3 DEF SetToSeq
<1>5. SetToSeq(S) \in Seq(S) /\ Len(SetToSeq(S)) = n
  BY <1>4
<1>6. ASSUME S # {} PROVE n # 0
  BY <1>1, <1>6, FS_EmptySet
<1>7. SetToSeq(S) \in Surjection(1..n, S)
  <2>1. SetToSeq(S) \in Injection(1..n, S)
    BY <1>4 DEF Injection
  <2>2. IsFiniteSet(1..n) /\ Cardinality(1..n) = n
    BY FS_Interval
  <2>. QED
    BY <1>1, <2>1, <2>2, FS_Injection
<1>8. \A x \in S : \E i \in 1..n : SetToSeq(S)[i] = x
  BY <1>7 DEF Surjection
<1>. QED
  BY <1>5, <1>6, <1>8

(* An image of a finite interval is finite.                                 *)
LEMMA FiniteImage ==
  ASSUME NEW n \in Nat, NEW f, NEW S, \A x \in S : \E i \in 1..n : x = f[i]
  PROVE  IsFiniteSet(S)
<1>. DEFINE T == {f[i] : i \in 1..n}
            g == [i \in 1..n |-> f[i]]
<1>1. g \in Surjection(1..n, T)
  BY DEF Surjection
<1>2. IsFiniteSet(1..n)
  BY FS_Interval
<1>3. S \in SUBSET T
  OBVIOUS
<1>. HIDE DEF T, g
<1>4. IsFiniteSet(T)
  BY <1>1, <1>2, FS_Surjection
<1>. QED
  BY <1>3, <1>4, FS_Subset

------------------------------------------------------------------------------
(* Queues.                                                                  *)

(* Rows of more operations.                                                 *)
LEMMA Widen ==
  ASSUME NEW I, NEW J, I \subseteq J
  PROVE  /\ Rows(I) \subseteq Rows(J) /\ Entries(I) \subseteq Entries(J)
         /\ Drains(I) \subseteq Drains(J)
         /\ \A q : QueueIn(q, I) => QueueIn(q, J)
         /\ \A q : JournalIn(q, I) => JournalIn(q, J)
         /\ \A d, w : WorkIn(d, w, I) => WorkIn(d, w, J)
         /\ \A s \in Seq(Rekeyed(I)) : s \in Seq(Rekeyed(J))
<1>1. Rows(I) \subseteq Rows(J)
  BY DEF Rows
<1>2. Entries(I) \subseteq Entries(J)
  <2>1. Fresh(I) \subseteq Fresh(J)
    BY DEF Fresh
  <2>. QED
    BY <2>1 DEF Entries
<1>3. Seq(Entries(I)) \subseteq Seq(Entries(J))
  BY <1>2, SeqMonotonic
<1>4. Drains(I) \subseteq Drains(J)
  BY <1>3 DEF Drains
<1>5. \A q : QueueIn(q, I) => QueueIn(q, J)
  BY <1>1 DEF QueueIn
<1>6. \A q : JournalIn(q, I) => JournalIn(q, J)
  BY <1>5 DEF JournalIn
<1>7. \A d, w : WorkIn(d, w, I) => WorkIn(d, w, J)
  BY <1>4 DEF WorkIn
<1>8. Rekeyed(I) \subseteq Rekeyed(J)
  BY DEF Rekeyed
<1>9. \A s \in Seq(Rekeyed(I)) : s \in Seq(Rekeyed(J))
  BY <1>8, SeqMonotonic
<1>. QED
  BY <1>1, <1>2, <1>4, <1>5, <1>6, <1>7, <1>9

(* The next sequence is beyond every row's.                                 *)
LEMMA NextSeqBeyond ==
  ASSUME NEW I, NEW q, QueueIn(q, I)
  PROVE  NextSeq(q) \in Nat /\ \A i \in DOMAIN q : i < NextSeq(q)
<1>1. CASE DOMAIN q = {}
  BY <1>1 DEF NextSeq
<1>2. CASE DOMAIN q # {}
  <2>1. PICK S : S = DOMAIN q
    OBVIOUS
  <2>2. S \in SUBSET Nat /\ IsFiniteSet(S) /\ S # {}
    BY <1>2, <2>1 DEF QueueIn
  <2>3. Max(S) \in S /\ \A y \in S : y <= Max(S)
    BY <2>2, GreatestNat
  <2>4. NextSeq(q) = Max(S) + 1
    BY <1>2, <2>1 DEF NextSeq
  <2>5. PICK x : x = Max(S)
    OBVIOUS
  <2>6. x \in Nat /\ \A y \in S : y \in Nat /\ y <= x
    BY <2>2, <2>3, <2>5
  <2>. QED
    BY <2>1, <2>4, <2>5, <2>6
<1>. QED
  BY <1>1, <1>2

(* append_prepared keeps the rows there are and adds one per operation.     *)
LEMMA AppendedRows ==
  ASSUME NEW I, NEW q, QueueIn(q, I), NEW m \in Calls \cup {0}, NEW ops \in Seq(I),
         NEW a, a = Appended(q, m, ops)
  PROVE  GrownBy(I, q, m, ops, a)
<1>1. PICK first \in Nat : first = NextSeq(q)
  BY NextSeqBeyond
<1>2. \A i \in DOMAIN q : i \in Nat /\ i < first
  BY <1>1, NextSeqBeyond DEF QueueIn
<1>3. PICK n \in Nat : n = Len(ops)
  OBVIOUS
<1>. DEFINE new == first .. (first + n - 1)
<1>4. a = [i \in DOMAIN q \cup new |-> IF i \in new THEN Row(m, ops[i - first + 1]) ELSE q[i]]
  BY <1>1, <1>3 DEF Appended
<1>5. DOMAIN a = DOMAIN q \cup new
  BY <1>4
<1>6. \A i \in new : i \in Nat /\ i - first + 1 \in 1..n /\ a[i] = Row(m, ops[i - first + 1])
  BY <1>4
<1>7. \A i \in DOMAIN q : i \notin new
  BY <1>2
<1>8. \A i \in DOMAIN q : a[i] = q[i]
  BY <1>4, <1>7
<1>9. IsFiniteSet(new)
  BY FS_Interval
<1>10. \A k \in 1..n : first + k - 1 \in new /\ (first + k - 1) - first + 1 = k
  OBVIOUS
<1>. HIDE DEF new
<1>11. IsFiniteSet(DOMAIN a)
  BY <1>5, <1>9, FS_Union DEF QueueIn
<1>12. \A i \in 1..n : Row(m, ops[i]) \in Rows(I)
  BY <1>3 DEF Row, Rows
<1>13. ASSUME NEW i \in DOMAIN a PROVE i \in Nat /\ a[i] \in Rows(I)
  <2>1. CASE i \in new
    BY <1>6, <1>12, <2>1
  <2>2. CASE i \in DOMAIN q
    BY <1>8, <2>2 DEF QueueIn
  <2>. QED
    BY <1>5, <2>1, <2>2
<1>14. QueueIn(a, I)
  BY <1>11, <1>13 DEF QueueIn
<1>15. ASSUME NEW k \in 1..Len(ops) PROVE \E i \in DOMAIN a : a[i] = Row(m, ops[k])
  BY <1>3, <1>5, <1>6, <1>10
<1>16. ASSUME NEW i \in DOMAIN a, i \notin DOMAIN q
       PROVE  \E k \in 1..Len(ops) : a[i] = Row(m, ops[k])
  BY <1>3, <1>5, <1>6, <1>16
<1>. QED
  BY <1>5, <1>8, <1>14, <1>15, <1>16 DEF GrownBy

(* A snapshot lists the pending rows, each once.                            *)
LEMMA PeekRows ==
  ASSUME NEW I, NEW q, QueueIn(q, I), NEW s, s = Peek(q)
  PROVE  SnapshotOf(I, q, s)
<1>1. PICK S : S = PendingRows(q)
  OBVIOUS
<1>2. S \in SUBSET DOMAIN q /\ \A i \in S : ~q[i].quarantined
  BY <1>1 DEF PendingRows
<1>3. S \in SUBSET Nat /\ IsFiniteSet(S)
  BY <1>2, FS_Subset DEF QueueIn
<1>4. PICK n \in Nat : n = Cardinality(S)
  BY <1>3, FS_CardinalityType
<1>5. s = [i \in 1..n |-> [seq |-> Ranked(S, i), row |-> q[Ranked(S, i)]]]
  BY <1>1, <1>4 DEF Peek
<1>6. \A i \in 1..n : Ranked(S, i) \in S
  BY <1>3, <1>4, RankedIn
<1>7. \A i \in 1..n : s[i].seq = Ranked(S, i) /\ s[i].row = q[Ranked(S, i)]
  BY <1>5
<1>8. ASSUME NEW i \in 1..n PROVE s[i] \in Entries(I)
  <2>1. PICK x : x = Ranked(S, i)
    OBVIOUS
  <2>2. PICK r : r = q[x]
    OBVIOUS
  <2>3. x \in Nat /\ r \in Rows(I) /\ ~r.quarantined
    BY <1>2, <1>3, <1>6, <2>1, <2>2 DEF QueueIn
  <2>4. r = [m |-> r.m, op |-> r.op, quarantined |-> FALSE] /\ r.m \in Calls \cup {0} /\ r.op \in I
    <3>1. r \in [m : Calls \cup {0}, op : I, quarantined : BOOLEAN]
      BY <2>3 DEF Rows
    <3>2. r.quarantined = FALSE
      BY <2>3, <3>1
    <3>. QED
      BY <3>1, <3>2
  <2>5. s[i] = [seq |-> x, row |-> r]
    BY <1>5, <2>1, <2>2
  <2>6. r \in Fresh(I)
    <3>1. [m |-> r.m, op |-> r.op, quarantined |-> FALSE] \in Fresh(I)
      BY <2>4 DEF Fresh
    <3>. QED
      BY <2>4, <3>1
  <2>7. [seq |-> x, row |-> r] \in Entries(I)
    BY <2>3, <2>6 DEF Entries
  <2>. QED
    BY <2>5, <2>7
<1>9. s \in Seq(Entries(I)) /\ Len(s) = n
  BY <1>5, <1>8
<1>10. Present(q, s)
  BY <1>2, <1>6, <1>7, <1>9 DEF Present
<1>11. ASSUME NEW i \in 1..n, NEW j \in 1..n, s[i].seq = s[j].seq PROVE i = j
  <2>1. Ranked(S, i) = Ranked(S, j)
    BY <1>7, <1>11
  <2>2. /\ Cardinality({y \in S : y < Ranked(S, i)}) = i - 1
        /\ Cardinality({y \in S : y < Ranked(S, j)}) = j - 1
    BY <1>3, <1>4, RankedIn
  <2>. QED
    BY <2>1, <2>2
<1>12. Distinct(s)
  BY <1>9, <1>11 DEF Distinct
<1>13. n = 0 <=> S = {}
  BY <1>3, <1>4, FS_EmptySet
<1>14. s = <<>> <=> n = 0
  BY <1>9
<1>. QED
  BY <1>1, <1>4, <1>6, <1>7, <1>9, <1>10, <1>12, <1>13, <1>14 DEF SnapshotOf

(* Removing rows leaves the others as they are.                             *)
LEMMA RemovedRows ==
  ASSUME NEW I, NEW q, QueueIn(q, I), NEW S, NEW r, r = Removed(q, S)
  PROVE  LessRows(I, q, S, r)
<1>1. r = [i \in DOMAIN q \ S |-> q[i]]
  BY DEF Removed
<1>2. DOMAIN r = DOMAIN q \ S /\ \A i \in DOMAIN r : r[i] = q[i]
  BY <1>1
<1>3. IsFiniteSet(DOMAIN r)
  BY <1>2, FS_Subset DEF QueueIn
<1>. QED
  BY <1>2, <1>3 DEF QueueIn, LessRows

(* Quarantining a row changes its mark alone.                               *)
LEMMA QuarantinedRows ==
  ASSUME NEW I, NEW q, QueueIn(q, I), NEW x, NEW r, r = Quarantine(q, x)
  PROVE  MarkedRow(I, q, x, r)
<1>1. DOMAIN r = DOMAIN q
  BY DEF Quarantine
<1>2. \A i \in DOMAIN q : q[i] \in Rows(I)
  BY DEF QueueIn
<1>3. \A i \in DOMAIN q : i # x => r[i] = q[i]
  BY DEF Quarantine
<1>4. x \in DOMAIN q => r[x] = [q[x] EXCEPT !.quarantined = TRUE]
  BY DEF Quarantine
<1>5. x \in DOMAIN q => r[x] \in Rows(I) /\ r[x].m = q[x].m /\ r[x].op = q[x].op /\ r[x].quarantined
  BY <1>2, <1>4 DEF Rows
<1>6. \A i \in DOMAIN q : r[i] \in Rows(I)
  BY <1>2, <1>3, <1>5
<1>7. QueueIn(r, I)
  BY <1>1, <1>6 DEF QueueIn
<1>8. \A i \in DOMAIN q : r[i].m = q[i].m /\ r[i].op = q[i].op
  BY <1>3, <1>5
<1>9. \A i \in DOMAIN q : q[i].quarantined => r[i].quarantined
  BY <1>3, <1>5
<1>. QED
  BY <1>1, <1>3, <1>7, <1>8, <1>9 DEF MarkedRow

------------------------------------------------------------------------------
(* Snapshots and batches.                                                   *)

(* A batch is a nonempty prefix of the first group.                         *)
LEMMA BatchPrefix ==
  ASSUME NEW I, NEW todo \in Seq(Entries(I)), todo # <<>>
  PROVE  BatchOf(I, todo)
<1>1. PICK n \in Nat \ {0} : n = Len(todo)
  OBVIOUS
<1>. DEFINE S == {i \in 1..Len(todo) : KindOf(todo[i]) # KindOf(todo[1])}
<1>2. Group(todo) = IF S # {} THEN Min(S) ELSE 0
  BY DEF Group, SelectInSeq
<1>3. S \in SUBSET Nat /\ 1 \notin S /\ \A i \in S : i \in 1..n
  BY <1>1
<1>. HIDE DEF S
<1>4. S # {} => Min(S) \in S
  BY <1>3, LeastNat
<1>5. Group(todo) = 0 \/ Group(todo) \in 2..n
  <2>1. ASSUME NEW g \in S PROVE g \in 2..n
    <3>1. g \in 1..n /\ g # 1
      BY <1>3, <2>1
    <3>. QED
      BY <3>1
  <2>. QED
    BY <1>2, <1>4, <2>1
<1>6. GroupLen(todo) \in 1..n
  BY <1>1, <1>5 DEF GroupLen
<1>7. BatchLen(todo) \in 1..GroupLen(todo)
  <2>1. PICK g \in Nat : g = GroupLen(todo) /\ g >= 1
    BY <1>6
  <2>2. Fit \in Nat /\ Fit >= 1
    BY IndexConstants
  <2>3. PICK b : b = Min({Fit, g})
    OBVIOUS
  <2>4. b \in {Fit, g} /\ b <= Fit /\ b <= g
    BY <2>1, <2>2, <2>3, MinOfTwo
  <2>5. b \in 1..g
    BY <2>1, <2>2, <2>4
  <2>. QED
    BY <2>1, <2>3, <2>5 DEF BatchLen
<1>8. PICK b \in Nat : b = BatchLen(todo) /\ b \in 1..n
  BY <1>6, <1>7
<1>9. \A i \in 1..b : todo[i] \in Entries(I)
  BY <1>1, <1>8
<1>10. /\ SubSeq(todo, 1, b) \in Seq(Entries(I)) /\ Len(SubSeq(todo, 1, b)) = b
       /\ \A i \in 1..b : SubSeq(todo, 1, b)[i] = todo[i]
  BY <1>1, <1>8, <1>9, SubSeqProperties
<1>. QED
  BY <1>1, <1>6, <1>7, <1>8, <1>10 DEF Batch, BatchOf

(* What is left of a snapshot.                                              *)
LEMMA DropSuffix ==
  ASSUME NEW S, NEW todo \in Seq(S), NEW k \in Nat, NEW r, r = Drop(todo, k)
  PROVE  SuffixOf(S, todo, k, r)
<1>1. PICK n \in Nat : n = Len(todo)
  OBVIOUS
<1>2. r = SubSeq(todo, k + 1, n)
  BY <1>1 DEF Drop
<1>3. \A i \in (k + 1)..n : todo[i] \in S
  BY <1>1
<1>4. /\ r \in Seq(S) /\ Len(r) = IF k + 1 <= n THEN n - (k + 1) + 1 ELSE 0
      /\ \A i \in 1..(n - (k + 1) + 1) : r[i] = todo[k + 1 + i - 1]
  BY <1>1, <1>2, <1>3, SubSeqProperties
<1>5. ASSUME NEW i \in 1..Len(r) PROVE k + i \in 1..n /\ r[i] = todo[k + i]
  <2>1. k + 1 <= n /\ i \in 1..(n - (k + 1) + 1) /\ k + 1 + i - 1 = k + i
    BY <1>1, <1>4, <1>5
  <2>2. k + i \in 1..n
    BY <1>1, <2>1
  <2>. QED
    BY <1>4, <2>1, <2>2
<1>6. ASSUME NEW j \in 1..n, j > k PROVE j - k \in 1..Len(r) /\ j = k + (j - k)
  BY <1>1, <1>4, <1>6
<1>. QED
  BY <1>1, <1>4, <1>5, <1>6 DEF SuffixOf

(* A property batch that was taken whole leaves at most what follows it.    *)
LEMMA LeftOverIsDrop ==
  ASSUME NEW I, NEW todo \in Seq(Entries(I)), todo # <<>>, NEW src,
         NEW k \in Nat, k <= BatchLen(todo)
  PROVE  \E n \in Nat : /\ k <= n /\ LeftOver(src, todo, k) = Drop(todo, n)
                        /\ src = "flush" => n = k
                        /\ n = k \/ n = GroupLen(todo)
<1>1. GroupLen(todo) \in 1..Len(todo) /\ BatchLen(todo) \in 1..GroupLen(todo)
  BY BatchPrefix DEF BatchOf
<1>2. GroupLen(todo) \in Nat /\ k <= GroupLen(todo) /\ k <= k
  <2>1. PICK g \in Nat, b \in Nat : g = GroupLen(todo) /\ b = BatchLen(todo) /\ b <= g
    BY <1>1
  <2>. QED
    BY <2>1
<1>. QED
  BY <1>1, <1>2 DEF LeftOver

------------------------------------------------------------------------------
(* Drains.                                                                  *)

(* The timer is not a call.                                                 *)
LEMMA ProcFacts ==
  /\ Timer \notin Calls /\ Timer \in Procs /\ Calls \subseteq Procs
  /\ \A d \in Procs : d # Timer => d \in Calls
  /\ Timer \in Calls \cup {0} /\ Calls \subseteq Nat /\ Kinds = {"posting", "vector"}
BY IndexConstants DEF Procs, Timer, Kinds

(* The fields of an entry.                                                  *)
LEMMA EntryFields ==
  ASSUME NEW I \in SUBSET GoodOps, NEW e \in Entries(I)
  PROVE  /\ e.seq \in Nat /\ e.row \in Fresh(I) /\ e.row.op \in I /\ e.row.m \in Calls \cup {0}
         /\ KindOf(e) \in Kinds
<1>1. e.seq \in Nat /\ e.row \in Fresh(I)
  BY DEF Entries
<1>2. e.row.op \in I /\ e.row.m \in Calls \cup {0}
  BY <1>1 DEF Fresh
<1>3. e.row.op \in Ops
  BY <1>2 DEF GoodOps
<1>. QED
  BY <1>1, <1>2, <1>3 DEF KindOf, Ops

(* A process that is in no drain.                                           *)
LEMMA StoppedIs ==
  ASSUME NEW I, NEW d \in Procs,
         NEW pc \in IF d = Timer THEN {"idle", "catalog"} ELSE {"new", "done"}
  PROVE  /\ WorkIn(d, Stopped(pc), I) /\ Stopped(pc).pc = pc /\ Stopped(pc).src = "none"
         /\ Stopped(pc).todo = <<>>
<1>1. Stopped(pc) = [pc |-> pc, src |-> "none", todo |-> <<>>, applied |-> 0, outcome |-> "none"]
  BY DEF Stopped
<1>2. pc \in {"new", "idle", "done", "catalog"}
  OBVIOUS
<1>3. <<>> \in Seq(Entries(I))
  BY EmptySeq
<1>4. Stopped(pc) \in Drains(I)
  BY <1>1, <1>2, <1>3 DEF Drains
<1>5. ~Active(Stopped(pc)) /\ AllPostings(Stopped(pc).todo) /\ Under(d, Stopped(pc).todo)
  BY <1>1, <1>2 DEF Active, AllPostings, Under
<1>. QED
  BY <1>1, <1>4, <1>5 DEF WorkIn

(* A drain that sends its first batch.                                      *)
LEMMA WorkIs ==
  ASSUME NEW I, NEW d \in Procs, NEW src \in {"outbox", "journal", "flush"},
         NEW todo \in Seq(Entries(I)), todo # <<>>, src # "outbox" => AllPostings(todo),
         d \in Calls /\ src = "flush" => Under(d, todo),
         NEW w, w = Work(src, todo)
  PROVE  WorkIn(d, w, I) /\ w.pc = "wait" /\ w.src = src /\ w.todo = todo
<1>1. w = [pc |-> "wait", src |-> src, todo |-> todo, applied |-> 0, outcome |-> "none"]
  BY DEF Work, Stopped
<1>2. w \in Drains(I)
  BY <1>1 DEF Drains
<1>3. w.pc = "wait" /\ w.src = src /\ w.todo = todo /\ Active(w)
  BY <1>1 DEF Active
<1>. QED
  BY <1>2, <1>3 DEF WorkIn

(* The entries of a flush.                                                  *)
LEMMA VolatileEntries ==
  ASSUME NEW I, NEW m \in Calls \cup {0}, NEW ops \in Seq(I), NEW v, v = Volatile(m, ops)
  PROVE  FlushOf(I, m, ops, v)
<1>1. v = [i \in 1..Len(ops) |-> [seq |-> 0, row |-> Row(m, ops[i])]]
  BY DEF Volatile
<1>2. ASSUME NEW i \in 1..Len(ops) PROVE [seq |-> 0, row |-> Row(m, ops[i])] \in Entries(I)
  <2>1. Row(m, ops[i]) \in Fresh(I)
    BY DEF Row, Fresh
  <2>. QED
    BY <2>1 DEF Entries
<1>3. Len(ops) \in Nat
  OBVIOUS
<1>4. v \in Seq(Entries(I)) /\ Len(v) = Len(ops)
  BY <1>1, <1>2, <1>3
<1>5. \A i \in 1..Len(ops) : v[i].row = Row(m, ops[i])
  BY <1>1
<1>6. ASSUME NEW i \in 1..Len(ops) PROVE v[i].row.op = ops[i] /\ v[i].row.m = m
  <2>1. v[i].row = Row(m, ops[i])
    BY <1>5
  <2>. QED
    BY <2>1 DEF Row
<1>. QED
  BY <1>4, <1>6 DEF Under, FlushOf

(* A flush of re-keyed postings.                                            *)
LEMMA RekeyedFlush ==
  ASSUME NEW I, NEW m \in Calls \cup {0}, NEW pd \in Seq(Rekeyed(I)), pd # <<>>,
         NEW v, v = Volatile(m, pd)
  PROVE  v \in Seq(Entries(I)) /\ v # <<>> /\ AllPostings(v) /\ Under(m, v)
<1>1. Rekeyed(I) \subseteq I
  BY DEF Rekeyed
<1>2. pd \in Seq(I)
  BY <1>1, SeqMonotonic
<1>3. \A i \in 1..Len(pd) : pd[i].kind = "posting"
  BY DEF Rekeyed
<1>4. FlushOf(I, m, pd, v)
  BY <1>2, VolatileEntries
<1>5. AllPostings(v)
  BY <1>3, <1>4 DEF AllPostings, KindOf, FlushOf
<1>6. Len(v) # 0
  BY <1>4 DEF FlushOf
<1>. QED
  BY <1>4, <1>5, <1>6 DEF FlushOf

(* Every row of the journal is pending.                                     *)
LEMMA JournalPeek ==
  ASSUME NEW I, NEW jr, JournalIn(jr, I)
  PROVE  /\ Peek(jr) \in Seq(Entries(I)) /\ AllPostings(Peek(jr))
         /\ DOMAIN jr # {} => Peek(jr) # <<>>
<1>1. QueueIn(jr, I) /\ PendingRows(jr) = DOMAIN jr
  BY DEF JournalIn, PendingRows
<1>2. SnapshotOf(I, jr, Peek(jr))
  BY <1>1, PeekRows
<1>. QED
  BY <1>1, <1>2 DEF AllPostings, Present, JournalIn, KindOf, SnapshotOf

(* The stages of a pass after the first (flush_and_repair).                 *)
LEMMA JournalStageIs ==
  ASSUME NEW I, NEW jr, JournalIn(jr, I), NEW w, w = JournalStage(jr)
  PROVE  /\ WorkIn(Timer, w, I)
         /\ \/ w.pc = "idle" /\ w.src = "none" /\ DOMAIN jr = {}
            \/ w.pc = "wait" /\ w.src = "journal" /\ DOMAIN jr # {} /\ w.todo = Peek(jr)
<1>1. CASE DOMAIN jr = {}
  <2>1. w = Stopped("idle")
    BY <1>1 DEF JournalStage
  <2>. QED
    BY <1>1, <2>1, StoppedIs, ProcFacts
<1>2. CASE DOMAIN jr # {}
  <2>1. w = Work("journal", Peek(jr))
    BY <1>2 DEF JournalStage
  <2>. QED
    BY <1>2, <2>1, JournalPeek, WorkIs, ProcFacts
<1>. QED
  BY <1>1, <1>2

(* With an empty journal the heap's postings are flushed first.             *)
LEMMA FlushStageIs ==
  ASSUME NEW I, NEW jr, JournalIn(jr, I), NEW pd \in Seq(Rekeyed(I)), NEW w, w = FlushStage(jr, pd)
  PROVE  /\ WorkIn(Timer, w, I)
         /\ \/ w.pc = "idle" /\ w.src = "none" /\ DOMAIN jr = {} /\ pd = <<>>
            \/ w.pc = "wait" /\ w.src = "journal" /\ DOMAIN jr # {} /\ w.todo = Peek(jr)
            \/ w.pc = "wait" /\ w.src = "flush" /\ w.todo = Volatile(0, pd)
<1>1. CASE DOMAIN jr = {} /\ pd # <<>>
  <2>1. w = Work("flush", Volatile(0, pd))
    BY <1>1 DEF FlushStage
  <2>2. PICK v : v = Volatile(0, pd)
    OBVIOUS
  <2>3. v \in Seq(Entries(I)) /\ v # <<>> /\ AllPostings(v)
    BY <1>1, <2>2, RekeyedFlush, ProcFacts DEF Timer
  <2>. QED
    BY <2>1, <2>2, <2>3, WorkIs, ProcFacts
<1>2. CASE ~(DOMAIN jr = {} /\ pd # <<>>)
  <2>1. w = JournalStage(jr)
    BY <1>2 DEF FlushStage
  <2>. QED
    BY <1>2, <2>1, JournalStageIs
<1>. QED
  BY <1>1, <1>2

(* What follows a stage.                                                    *)
LEMMA NextStageIs ==
  ASSUME NEW I, NEW ob, NEW jr, JournalIn(jr, I), NEW pd \in Seq(Rekeyed(I)),
         NEW src \in {"outbox", "journal", "flush"}, NEW w, w = NextStage(src, ob, jr, pd)
  PROVE  StageAfter(I, src, ob, jr, pd, w)
<1>1. CASE (src = "outbox" /\ PendingRows(ob) # {}) \/ src = "journal"
  <2>1. w = Stopped("idle")
    BY <1>1 DEF NextStage, OutboxStage
  <2>. QED
    BY <1>1, <2>1, StoppedIs, ProcFacts DEF StageAfter
<1>2. CASE src = "outbox" /\ PendingRows(ob) = {}
  <2>1. w = FlushStage(jr, pd)
    BY <1>2 DEF NextStage, OutboxStage
  <2>. QED
    BY <1>2, <2>1, FlushStageIs DEF StageAfter
<1>3. CASE src = "flush"
  <2>1. w = JournalStage(jr)
    BY <1>3 DEF NextStage
  <2>. QED
    BY <1>3, <2>1, JournalStageIs DEF StageAfter
<1>. QED
  BY <1>1, <1>2, <1>3

(* A drain resumes with what is left.                                       *)
LEMMA ResumeIs ==
  ASSUME NEW I, NEW ob, NEW jr, JournalIn(jr, I), NEW pd \in Seq(Rekeyed(I)),
         NEW d \in Procs, NEW src \in {"outbox", "journal", "flush"},
         NEW todo \in Seq(Entries(I)), src # "outbox" => AllPostings(todo),
         d \in Calls /\ src = "flush" => Under(d, todo),
         NEW w, w = Resume(d, src, todo, ob, jr, pd)
  PROVE  Resumed(I, d, src, todo, ob, jr, pd, w)
<1>1. CASE MaySend(src, todo, ob)
  <2>1. w = Work(src, todo) /\ todo # <<>>
    BY <1>1 DEF Resume, MaySend
  <2>. QED
    BY <1>1, <2>1, WorkIs DEF Resumed
<1>2. CASE ~MaySend(src, todo, ob) /\ d = Timer
  <2>1. w = NextStage(src, ob, jr, pd)
    BY <1>2 DEF Resume
  <2>2. StageAfter(I, src, ob, jr, pd, w)
    BY <2>1, NextStageIs
  <2>. QED
    BY <1>2, <2>2 DEF StageAfter, Resumed
<1>3. CASE ~MaySend(src, todo, ob) /\ d # Timer
  <2>1. w = Stopped("done")
    BY <1>3 DEF Resume
  <2>. QED
    BY <1>3, <2>1, StoppedIs DEF Resumed
<1>. QED
  BY <1>1, <1>2, <1>3

(* What a pass starts with.                                                 *)
LEMMA FirstStageIs ==
  ASSUME NEW I, NEW ob, QueueIn(ob, I), NEW jr, JournalIn(jr, I), NEW pd \in Seq(Rekeyed(I)),
         NEW j2, j2 = IF DOMAIN jr = {} THEN jr ELSE Appended(jr, 0, pd),
         NEW w, w = FirstStage(ob, jr, pd)
  PROVE  FirstOf(I, ob, jr, pd, j2, w)
<1>1. CASE DOMAIN jr # {}
  <2>1. Rekeyed(I) \subseteq I /\ 0 \in Calls \cup {0}
    BY DEF Rekeyed
  <2>2. pd \in Seq(I)
    BY <2>1, SeqMonotonic
  <2>3. j2 = Appended(jr, 0, pd) /\ QueueIn(jr, I)
    BY <1>1 DEF JournalIn
  <2>4. /\ QueueIn(j2, I)
        /\ \A i \in DOMAIN jr : i \in DOMAIN j2 /\ j2[i] = jr[i]
        /\ \A k \in 1..Len(pd) : \E i \in DOMAIN j2 : j2[i] = Row(0, pd[k])
        /\ \A i \in DOMAIN j2 :
             i \in DOMAIN jr \/ \E k \in 1..Len(pd) : j2[i] = Row(0, pd[k])
    <3>1. PICK z \in Calls \cup {0} : z = 0
      BY <2>1
    <3>2. j2 = Appended(jr, z, pd)
      BY <2>3, <3>1
    <3>3. GrownBy(I, jr, z, pd, j2)
      BY <2>2, <2>3, <3>2, AppendedRows
    <3>. QED
      BY <3>1, <3>3 DEF GrownBy
  <2>5. ASSUME NEW i \in DOMAIN j2
        PROVE  ~j2[i].quarantined /\ j2[i].op.kind = "posting"
    <3>1. CASE i \in DOMAIN jr
      BY <2>4, <3>1 DEF JournalIn
    <3>2. CASE i \notin DOMAIN jr
      <4>1. PICK k \in 1..Len(pd) : j2[i] = Row(0, pd[k])
        BY <2>4, <3>2
      <4>2. pd[k].kind = "posting"
        BY DEF Rekeyed
      <4>. QED
        BY <4>1, <4>2 DEF Row
    <3>. QED
      BY <3>1, <3>2
  <2>6. JournalIn(j2, I) /\ DOMAIN j2 # {}
    BY <1>1, <2>4, <2>5 DEF JournalIn
  <2>7. w = Work("journal", Peek(j2))
    BY <1>1, <2>3 DEF FirstStage
  <2>8. WorkIn(Timer, w, I) /\ w.pc = "wait" /\ w.src = "journal" /\ w.todo = Peek(j2)
    BY <2>6, <2>7, JournalPeek, WorkIs, ProcFacts
  <2>. QED
    BY <2>4, <2>6, <2>8 DEF FirstOf
<1>2. CASE DOMAIN jr = {} /\ PendingRows(ob) # {}
  <2>1. w = Work("outbox", Peek(ob)) /\ j2 = jr
    BY <1>2 DEF FirstStage
  <2>2. Peek(ob) \in Seq(Entries(I)) /\ Peek(ob) # <<>>
    <3>1. SnapshotOf(I, ob, Peek(ob))
      BY PeekRows
    <3>. QED
      BY <1>2, <3>1 DEF SnapshotOf
  <2>3. WorkIn(Timer, w, I) /\ w.pc = "wait" /\ w.src = "outbox" /\ w.todo = Peek(ob)
    BY <2>1, <2>2, WorkIs, ProcFacts
  <2>. QED
    BY <1>2, <2>1, <2>3 DEF FirstOf
<1>3. CASE DOMAIN jr = {} /\ PendingRows(ob) = {}
  <2>1. w = FlushStage(jr, pd) /\ j2 = jr
    BY <1>3 DEF FirstStage
  <2>2. /\ WorkIn(Timer, w, I)
        /\ \/ w.pc = "idle" /\ w.src = "none" /\ DOMAIN jr = {} /\ pd = <<>>
           \/ w.pc = "wait" /\ w.src = "journal" /\ DOMAIN jr # {} /\ w.todo = Peek(jr)
           \/ w.pc = "wait" /\ w.src = "flush" /\ w.todo = Volatile(0, pd)
    BY <2>1, FlushStageIs
  <2>. QED
    BY <1>3, <2>1, <2>2 DEF FirstOf
<1>. QED
  BY <1>1, <1>2, <1>3

------------------------------------------------------------------------------
(* Types, requests and wakes.                                               *)

(* What a process may turn into: it is not waiting, and goes on with w.     *)
GoesOn(d, w) ==
  /\ proc[d].pc # "wait" /\ w.pc # "answered"
  /\ WorkIn(d, w, issued') /\ proc' = [proc EXCEPT ![d] = w]

(* The other processes keep what they have.                                 *)
LEMMA ProcsGoOn ==
  ASSUME ProcsOK, NEW d \in Procs, NEW w, GoesOn(d, w),
         issued \subseteq issued', accepted \subseteq accepted'
  PROVE  /\ ProcsOK' /\ proc'[d] = w /\ \A e \in Procs : e # d => proc'[e] = proc[e]
<1>1. proc'[d] = w /\ \A e \in Procs : e # d => proc'[e] = proc[e]
  BY DEF GoesOn, ProcsOK
<1>2. Drains(issued) \subseteq Drains(issued') /\ \A e, v : WorkIn(e, v, issued) => WorkIn(e, v, issued')
  BY Widen
<1>3. w \in Drains(issued')
  BY DEF GoesOn, WorkIn
<1>4. proc' \in [Procs -> Drains(issued')]
  BY <1>2, <1>3 DEF GoesOn, ProcsOK
<1>5. ASSUME NEW e \in Procs PROVE WorkIn(e, proc'[e], issued') /\ Told(proc'[e], accepted')
  <2>1. CASE e = d
    BY <1>1, <2>1 DEF GoesOn, Told
  <2>2. CASE e # d
    <3>1. proc'[e] = proc[e] /\ WorkIn(e, proc[e], issued) /\ Told(proc[e], accepted)
      BY <1>1, <2>2 DEF ProcsOK
    <3>2. Told(proc[e], accepted')
      BY <3>1 DEF Told
    <3>. QED
      BY <1>2, <3>1, <3>2
  <2>. QED
    BY <2>1, <2>2
<1>. QED
  BY <1>1, <1>4, <1>5 DEF ProcsOK

(* A process that stops waiting for nobody leaves the requests alone.       *)
LEMMA NetStays ==
  ASSUME ProcsOK, NetOK, NEW d \in Procs, NEW w, GoesOn(d, w), w.pc # "wait",
         issued \subseteq issued', accepted \subseteq accepted', net' = net
  PROVE  NetOK'
<1>1. proc'[d] = w /\ \A e \in Procs : e # d => proc'[e] = proc[e]
  BY ProcsGoOn
<1>2. net \in [Kinds -> Seq(Procs)]
  BY DEF NetOK
<1>3. ASSUME NEW t \in Kinds, NEW i \in 1..Len(net[t])
      PROVE  /\ net[t][i] \in Procs /\ net[t][i] # d
             /\ proc[net[t][i]].pc = "wait" /\ KindOf(proc[net[t][i]].todo[1]) = t
             /\ \A j \in 1..Len(net[t]) : net[t][i] = net[t][j] => i = j
  <2>1. net[t] \in Seq(Procs)
    BY <1>2
  <2>2. net[t][i] \in Procs
    BY <2>1
  <2>3. proc[net[t][i]].pc = "wait" /\ KindOf(proc[net[t][i]].todo[1]) = t
    BY DEF NetOK
  <2>4. \A j \in 1..Len(net[t]) : net[t][i] = net[t][j] => i = j
    BY DEF NetOK
  <2>. QED
    BY <2>2, <2>3, <2>4 DEF GoesOn
<1>4. ASSUME NEW t \in Kinds, NEW i \in 1..Len(net'[t])
      PROVE  /\ proc'[net'[t][i]].pc = "wait" /\ KindOf(proc'[net'[t][i]].todo[1]) = t
             /\ \A j \in 1..Len(net'[t]) : net'[t][i] = net'[t][j] => i = j
  <2>1. i \in 1..Len(net[t])
    OBVIOUS
  <2>2. proc'[net[t][i]] = proc[net[t][i]]
    BY <1>1, <1>3, <2>1
  <2>. QED
    BY <1>3, <2>1, <2>2
<1>5. ASSUME NEW e \in Procs, proc'[e].pc = "wait" PROVE \E t \in Kinds : e \in ToSet(net'[t])
  <2>1. e # d
    BY <1>1, <1>5
  <2>2. proc[e].pc = "wait"
    BY <1>1, <1>5, <2>1
  <2>3. PICK t \in Kinds : e \in ToSet(net[t])
    BY <2>2 DEF NetOK
  <2>. QED
    BY <2>3
<1>6. net' \in [Kinds -> Seq(Procs)]
  BY <1>2
<1>. QED
  BY <1>4, <1>5, <1>6 DEF NetOK

(* A process that sends a batch joins the requests of one target.           *)
LEMMA NetJoins ==
  ASSUME ProcsOK, NetOK, NEW d \in Procs, NEW w, GoesOn(d, w), w.pc = "wait",
         issued \subseteq issued', accepted \subseteq accepted', issued' \subseteq GoodOps,
         net' = [net EXCEPT ![KindOf(w.todo[1])] = Append(@, d)]
  PROVE  NetOK'
<1>1. proc'[d] = w /\ \A e \in Procs : e # d => proc'[e] = proc[e]
  BY ProcsGoOn
<1>2. net \in [Kinds -> Seq(Procs)]
  BY DEF NetOK
<1>3. PICK k \in Kinds : k = KindOf(w.todo[1])
  <2>1. w \in Drains(issued') /\ w.todo # <<>>
    BY DEF GoesOn, WorkIn, Active
  <2>2. w.todo \in Seq(Entries(issued'))
    BY <2>1 DEF Drains
  <2>3. w.todo[1] \in Entries(issued')
    BY <2>1, <2>2
  <2>4. KindOf(w.todo[1]) \in Kinds
    BY <2>3, EntryFields
  <2>. QED
    BY <2>4
<1>4. net' = [net EXCEPT ![k] = Append(net[k], d)]
  BY <1>3
<1>5. /\ net'[k] = Append(net[k], d) /\ \A t \in Kinds : t # k => net'[t] = net[t]
      /\ net' \in [Kinds -> Seq(Procs)]
  <2>1. net[k] \in Seq(Procs)
    BY <1>2
  <2>2. Append(net[k], d) \in Seq(Procs)
    BY <2>1
  <2>. QED
    BY <1>2, <1>4, <2>2
<1>6. ASSUME NEW t \in Kinds, NEW i \in 1..Len(net[t])
      PROVE  /\ net[t][i] \in Procs /\ net[t][i] # d
             /\ proc[net[t][i]].pc = "wait" /\ KindOf(proc[net[t][i]].todo[1]) = t
             /\ \A j \in 1..Len(net[t]) : net[t][i] = net[t][j] => i = j
  <2>1. net[t] \in Seq(Procs)
    BY <1>2
  <2>2. net[t][i] \in Procs
    BY <2>1
  <2>3. proc[net[t][i]].pc = "wait" /\ KindOf(proc[net[t][i]].todo[1]) = t
    BY DEF NetOK
  <2>4. \A j \in 1..Len(net[t]) : net[t][i] = net[t][j] => i = j
    BY DEF NetOK
  <2>. QED
    BY <2>2, <2>3, <2>4 DEF GoesOn
<1>7. ASSUME NEW t \in Kinds, NEW i \in 1..Len(net[t])
      PROVE  proc'[net[t][i]].pc = "wait" /\ KindOf(proc'[net[t][i]].todo[1]) = t
  BY <1>1, <1>6
<1>8. ASSUME NEW t \in Kinds, NEW i \in 1..Len(net'[t])
      PROVE  /\ proc'[net'[t][i]].pc = "wait" /\ KindOf(proc'[net'[t][i]].todo[1]) = t
             /\ \A j \in 1..Len(net'[t]) : net'[t][i] = net'[t][j] => i = j
  <2>1. CASE t # k
    <3>1. net'[t] = net[t]
      BY <1>5, <2>1
    <3>2. i \in 1..Len(net[t])
      BY <3>1
    <3>3. proc'[net[t][i]].pc = "wait" /\ KindOf(proc'[net[t][i]].todo[1]) = t
      BY <1>7, <3>2
    <3>4. \A j \in 1..Len(net[t]) : net[t][i] = net[t][j] => i = j
      BY <1>6, <3>2
    <3>. QED
      BY <3>1, <3>3, <3>4
  <2>2. CASE t = k
    <3>1. net[k] \in Seq(Procs)
      BY <1>2
    <3>2. PICK n \in Nat : n = Len(net[k])
      BY <3>1
    <3>3. Len(net'[k]) = n + 1 /\ net'[k][n + 1] = d /\ \A j \in 1..n : net'[k][j] = net[k][j]
      BY <1>5, <3>1, <3>2
    <3>4. \A j \in 1..n : net'[k][j] # d
      BY <1>6, <3>2, <3>3
    <3>5. i \in 1..(n + 1)
      BY <2>2, <3>3
    <3>6. CASE i = n + 1
      <4>1. \A j \in 1..(n + 1) : j # n + 1 => j \in 1..n
        OBVIOUS
      <4>2. \A j \in 1..(n + 1) : net'[k][i] = net'[k][j] => i = j
        BY <3>3, <3>4, <3>6, <4>1
      <4>. QED
        BY <1>1, <1>3, <2>2, <3>3, <3>6, <4>2
    <3>7. CASE i # n + 1
      <4>1. i \in 1..n
        BY <3>5, <3>7
      <4>2. \A j \in 1..(n + 1) : j # n + 1 => j \in 1..n
        OBVIOUS
      <4>3. ASSUME NEW j \in 1..(n + 1), net'[k][i] = net'[k][j] PROVE i = j
        <5>1. j \in 1..n
          BY <3>3, <3>4, <4>1, <4>2, <4>3
        <5>2. net[k][i] = net[k][j]
          BY <3>3, <4>1, <4>3, <5>1
        <5>. QED
          BY <1>6, <3>2, <4>1, <5>1, <5>2
      <4>4. net'[k][i] = net[k][i]
        BY <3>3, <4>1
      <4>. QED
        BY <1>7, <2>2, <3>2, <3>3, <4>1, <4>3, <4>4
    <3>. QED
      BY <3>6, <3>7
  <2>. QED
    BY <2>1, <2>2
<1>9. ASSUME NEW e \in Procs, proc'[e].pc = "wait" PROVE \E t \in Kinds : e \in ToSet(net'[t])
  <2>1. net[k] \in Seq(Procs)
    BY <1>2
  <2>2. PICK n \in Nat : n = Len(net[k])
    BY <2>1
  <2>3. DOMAIN net'[k] = 1..(n + 1) /\ net'[k][n + 1] = d /\ \A j \in 1..n : net'[k][j] = net[k][j]
    BY <1>5, <2>1, <2>2
  <2>4. CASE e = d
    <3>1. e \in ToSet(net'[k])
      BY <2>3, <2>4 DEF ToSet
    <3>. QED
      BY <3>1
  <2>5. CASE e # d
    <3>1. proc[e].pc = "wait"
      BY <1>1, <1>9, <2>5
    <3>2. PICK t \in Kinds : e \in ToSet(net[t])
      BY <3>1 DEF NetOK
    <3>3. CASE t # k
      BY <1>5, <3>2, <3>3
    <3>4. CASE t = k
      <4>1. PICK j \in DOMAIN net[k] : e = net[k][j]
        BY <3>2, <3>4 DEF ToSet
      <4>2. j \in 1..n
        BY <2>1, <2>2, <4>1
      <4>3. e = net'[k][j] /\ j \in DOMAIN net'[k]
        BY <2>3, <4>1, <4>2
      <4>4. e \in ToSet(net'[k])
        BY <4>3 DEF ToSet
      <4>. QED
        BY <4>4
    <3>. QED
      BY <3>3, <3>4
  <2>. QED
    BY <2>4, <2>5
<1>. QED
  BY <1>5, <1>8, <1>9 DEF NetOK

(* Proceed keeps the processes and the requests in step.                    *)
LEMMA ProceedKeeps ==
  ASSUME ProcsOK, NetOK, NEW d \in Procs, NEW w, Proceed(d, w), proc[d].pc # "wait",
         w.pc # "answered", WorkIn(d, w, issued'),
         issued \subseteq issued', accepted \subseteq accepted', issued' \subseteq GoodOps
  PROVE  /\ ProcsOK' /\ NetOK' /\ proc'[d] = w
         /\ \A e \in Procs : e # d => proc'[e] = proc[e]
<1>1. GoesOn(d, w)
  BY DEF GoesOn, Proceed
<1>2. ProcsOK' /\ proc'[d] = w /\ \A e \in Procs : e # d => proc'[e] = proc[e]
  BY <1>1, ProcsGoOn
<1>3. CASE w.pc = "wait"
  <2>1. net' = [net EXCEPT ![KindOf(w.todo[1])] = Append(@, d)]
    BY <1>3 DEF Proceed
  <2>. QED
    BY <1>1, <1>2, <1>3, <2>1, NetJoins
<1>4. CASE w.pc # "wait"
  <2>1. net' = net
    BY <1>4 DEF Proceed
  <2>. QED
    BY <1>1, <1>2, <1>4, <2>1, NetStays
<1>. QED
  BY <1>3, <1>4

(* The targets take the first k operations of a batch.                      *)
LEMMA ApplyKeeps ==
  ASSUME StateOK, Stamped, NEW b \in Seq(Entries(issued)), NEW k \in Nat, k <= Len(b), Apply(b, k)
  PROVE  /\ Stamped' /\ index' \subseteq Postings /\ accepted \subseteq accepted'
         /\ accepted' \subseteq issued /\ \A i \in 1..k : b[i].row.op \in accepted'
<1>1. \A i \in 1..k : i \in 1..Len(b)
  OBVIOUS
<1>2. issued \in SUBSET GoodOps
  BY DEF StateOK
<1>3. ASSUME NEW i \in 1..k PROVE b[i].row.op \in issued
  <2>1. b[i] \in Entries(issued)
    BY <1>1
  <2>. QED
    BY <1>2, <2>1, EntryFields
<1>4. accepted' = accepted \cup Applied(b, k)
  BY DEF Apply
<1>5. Applied(b, k) \subseteq issued
  BY <1>3 DEF Applied
<1>6. \A i \in 1..k : b[i].row.op \in Applied(b, k)
  BY DEF Applied
<1>7. index' \subseteq Postings
  BY DEF Apply
<1>. DEFINE Marks(s) == {vindex[s]} \cup
                        {o.by : o \in {a \in Applied(b, k) : a.kind = "vector" /\ a.item = s}}
<1>8. vindex' = [s \in Subjects |-> Max(Marks(s))]
  BY DEF Apply
<1>9. ASSUME NEW s \in Subjects
      PROVE  /\ Max(Marks(s)) \in Calls \cup {0} /\ Max(Marks(s)) >= vindex[s]
             /\ \A o \in Applied(b, k) : o.kind = "vector" /\ o.item = s => Max(Marks(s)) >= o.by
  <2>1. vindex[s] \in Calls \cup {0}
    BY DEF Stamped
  <2>2. \A o \in Applied(b, k) : o.kind = "vector" => o.by \in Calls
    BY <1>2, <1>5 DEF GoodOps
  <2>3. Marks(s) \in SUBSET (Calls \cup {0}) /\ Marks(s) # {} /\ vindex[s] \in Marks(s)
    BY <2>1, <2>2
  <2>4. \A o \in Applied(b, k) : o.kind = "vector" /\ o.item = s => o.by \in Marks(s)
    OBVIOUS
  <2>5. IsFiniteSet(Marks(s))
    <3>. DEFINE f == [i \in 1..(k + 1) |-> IF i = k + 1 THEN vindex[s] ELSE b[i].row.op.by]
    <3>1. ASSUME NEW x \in Marks(s) PROVE \E i \in 1..(k + 1) : x = f[i]
      <4>1. CASE x = vindex[s]
        <5>1. k + 1 \in 1..(k + 1)
          OBVIOUS
        <5>. QED
          BY <4>1, <5>1
      <4>2. CASE x # vindex[s]
        <5>1. PICK o \in Applied(b, k) : x = o.by
          BY <4>2
        <5>2. PICK i \in 1..k : o = b[i].row.op
          BY <5>1 DEF Applied
        <5>3. i \in 1..(k + 1) /\ i # k + 1
          OBVIOUS
        <5>. QED
          BY <5>1, <5>2, <5>3
      <4>. QED
        BY <4>1, <4>2
    <3>2. k + 1 \in Nat
      OBVIOUS
    <3>. HIDE DEF f, Marks
    <3>. QED
      BY <3>1, <3>2, FiniteImage
  <2>. HIDE DEF Marks
  <2>6. Calls \cup {0} \subseteq Nat
    BY ProcFacts
  <2>7. Marks(s) \in SUBSET Nat
    BY <2>3, <2>6
  <2>8. Max(Marks(s)) \in Marks(s) /\ \A y \in Marks(s) : y <= Max(Marks(s))
    BY <2>3, <2>5, <2>7, GreatestNat
  <2>9. PICK x \in Nat : x = Max(Marks(s))
    BY <2>7, <2>8
  <2>10. \A y \in Marks(s) : y \in Nat /\ x >= y
    BY <2>7, <2>8, <2>9
  <2>. QED
    BY <2>3, <2>4, <2>8, <2>9, <2>10
<1>10. vindex' \in [Subjects -> Calls \cup {0}]
  <2>. HIDE DEF Marks
  <2>. QED
    BY <1>8, <1>9
<1>11. ASSUME NEW o \in accepted', o.kind = "vector" PROVE vindex'[o.item] >= o.by
  <2>1. o \in GoodOps
    BY <1>2, <1>4, <1>5, <1>11 DEF StateOK
  <2>2. o.item \in Subjects /\ o.by \in Calls
    BY <1>11, <2>1 DEF GoodOps
  <2>3. PICK s \in Subjects : s = o.item
    BY <2>2
  <2>4. PICK x : x = Max(Marks(s))
    OBVIOUS
  <2>5. vindex'[s] = x
    BY <1>8, <2>4
  <2>6. CASE o \in Applied(b, k)
    <3>. HIDE DEF Marks
    <3>. QED
      BY <1>9, <1>11, <2>3, <2>4, <2>5, <2>6
  <2>7. CASE o \in accepted
    <3>1. vindex[s] >= o.by
      BY <1>11, <2>3, <2>7 DEF Stamped
    <3>2. x >= vindex[s] /\ x \in Calls \cup {0}
      <4>. HIDE DEF Marks
      <4>. QED
        BY <1>9, <2>4
    <3>3. vindex[s] \in Calls \cup {0}
      BY DEF Stamped
    <3>4. x \in Nat /\ vindex[s] \in Nat /\ o.by \in Nat
      <4>1. Calls \cup {0} \subseteq Nat
        BY ProcFacts
      <4>. QED
        BY <2>2, <3>2, <3>3, <4>1
    <3>5. x >= o.by
      BY <3>1, <3>2, <3>4
    <3>. QED
      BY <2>3, <2>5, <3>5
  <2>. QED
    BY <1>4, <1>11, <2>6, <2>7
<1>. QED
  BY <1>4, <1>5, <1>6, <1>7, <1>10, <1>11 DEF Stamped, StateOK

(* The first request to a target: who sent it.                              *)
LEMMA Sender ==
  ASSUME TInv, NEW t \in Kinds, net[t] # <<>>, NEW d, d = Head(net[t])
  PROVE  /\ d \in Procs /\ proc[d].pc = "wait" /\ KindOf(proc[d].todo[1]) = t
         /\ proc[d].todo \in Seq(Entries(issued)) /\ proc[d].todo # <<>>
         /\ BatchOf(issued, proc[d].todo)
<1>1. net[t] \in Seq(Procs)
  BY DEF TInv, NetOK
<1>2. Len(net[t]) \in Nat /\ Len(net[t]) # 0 /\ d = net[t][1]
  BY <1>1
<1>3. 1 \in 1..Len(net[t])
  BY <1>2
<1>4. d \in Procs
  BY <1>1, <1>2, <1>3
<1>5. proc[d].pc = "wait" /\ KindOf(proc[d].todo[1]) = t
  BY <1>2, <1>3 DEF TInv, NetOK
<1>6. WorkIn(d, proc[d], issued)
  BY <1>4 DEF TInv, ProcsOK
<1>7. proc[d].todo \in Seq(Entries(issued)) /\ proc[d].todo # <<>>
  BY <1>5, <1>6 DEF WorkIn, Drains, Active
<1>8. BatchOf(issued, proc[d].todo)
  BY <1>7, BatchPrefix
<1>. QED
  BY <1>4, <1>5, <1>7, <1>8

(* An answer takes the request off the network.                             *)
LEMMA NetAnswers ==
  ASSUME TInv, NEW t \in Kinds, net[t] # <<>>, NEW d, d = Head(net[t]),
         net' = [net EXCEPT ![t] = Tail(@)], proc'[d].pc = "answered",
         \A e \in Procs : e # d => proc'[e] = proc[e]
  PROVE  NetOK'
<1>1. net[t] \in Seq(Procs) /\ net \in [Kinds -> Seq(Procs)] /\ NetOK
  BY DEF TInv, NetOK
<1>2. PICK n \in Nat : n = Len(net[t]) - 1 /\ Len(net[t]) = n + 1
  <2>1. Len(net[t]) \in Nat /\ Len(net[t]) # 0
    BY <1>1
  <2>2. Len(net[t]) - 1 \in Nat /\ Len(net[t]) = (Len(net[t]) - 1) + 1
    BY <2>1
  <2>. QED
    BY <2>2
<1>3. PICK s : s = Tail(net[t])
  OBVIOUS
<1>4. s \in Seq(Procs) /\ Len(s) = n /\ \A i \in 1..n : s[i] = net[t][i + 1] /\ i + 1 \in 1..(n + 1)
  BY <1>1, <1>2, <1>3
<1>5. net'[t] = s /\ \A u \in Kinds : u # t => net'[u] = net[u]
  BY <1>1, <1>3
<1>6. net' \in [Kinds -> Seq(Procs)]
  BY <1>1, <1>3, <1>4
<1>7. d = net[t][1] /\ 1 \in 1..(n + 1)
  BY <1>1, <1>2
<1>8. ASSUME NEW u \in Kinds, NEW i \in 1..Len(net[u])
      PROVE  /\ net[u][i] \in Procs
             /\ proc[net[u][i]].pc = "wait" /\ KindOf(proc[net[u][i]].todo[1]) = u
             /\ \A j \in 1..Len(net[u]) : net[u][i] = net[u][j] => i = j
  <2>1. net[u] \in Seq(Procs)
    BY <1>1
  <2>2. net[u][i] \in Procs
    BY <2>1
  <2>. QED
    BY <1>1, <2>2 DEF NetOK
<1>9. ASSUME NEW u \in Kinds, NEW i \in 1..Len(net'[u])
      PROVE  /\ proc'[net'[u][i]].pc = "wait" /\ KindOf(proc'[net'[u][i]].todo[1]) = u
             /\ \A j \in 1..Len(net'[u]) : net'[u][i] = net'[u][j] => i = j
  <2>1. CASE u = t
    <3>1. i \in 1..n /\ i + 1 \in 1..(n + 1) /\ net'[u][i] = net[t][i + 1]
      BY <1>4, <1>5, <2>1
    <3>2. PICK h \in 1..Len(net[t]) : h = i + 1
      BY <1>2, <3>1
    <3>3. net[t][h] # d
      BY <1>2, <1>7, <1>8, <3>1, <3>2
    <3>4. proc'[net[t][h]] = proc[net[t][h]]
      BY <1>8, <3>3
    <3>5. ASSUME NEW j \in 1..Len(net'[u]), net'[u][i] = net'[u][j] PROVE i = j
      <4>1. j \in 1..n /\ net'[u][j] = net[t][j + 1]
        BY <1>4, <1>5, <2>1
      <4>2. PICK g \in 1..Len(net[t]) : g = j + 1
        BY <1>2, <4>1
      <4>3. net[t][h] = net[t][g]
        BY <3>1, <3>2, <3>5, <4>1, <4>2
      <4>4. h = g
        BY <1>8, <4>3
      <4>. QED
        BY <3>1, <3>2, <4>1, <4>2, <4>4
    <3>. QED
      BY <1>8, <2>1, <3>1, <3>2, <3>4, <3>5
  <2>2. CASE u # t
    <3>1. net'[u] = net[u]
      BY <1>5, <2>2
    <3>2. i \in 1..Len(net[u])
      BY <3>1
    <3>3. KindOf(proc[d].todo[1]) = t
      BY Sender
    <3>4. net[u][i] # d
      BY <1>8, <2>2, <3>2, <3>3
    <3>5. proc'[net[u][i]] = proc[net[u][i]]
      BY <1>8, <3>2, <3>4
    <3>6. /\ proc[net[u][i]].pc = "wait" /\ KindOf(proc[net[u][i]].todo[1]) = u
          /\ \A j \in 1..Len(net[u]) : net[u][i] = net[u][j] => i = j
      BY <1>8, <3>2
    <3>. QED
      BY <3>1, <3>5, <3>6
  <2>. QED
    BY <2>1, <2>2
<1>10. ASSUME NEW e \in Procs, proc'[e].pc = "wait" PROVE \E u \in Kinds : e \in ToSet(net'[u])
  <2>1. e # d
    BY <1>10
  <2>2. proc[e].pc = "wait"
    BY <1>10, <2>1
  <2>3. PICK u \in Kinds : e \in ToSet(net[u])
    BY <1>1, <2>2 DEF NetOK
  <2>4. CASE u # t
    BY <1>5, <2>3, <2>4
  <2>5. CASE u = t
    <3>1. PICK j \in DOMAIN net[t] : e = net[t][j]
      BY <2>3, <2>5 DEF ToSet
    <3>2. j \in 1..(n + 1) /\ j # 1
      BY <1>1, <1>2, <1>7, <2>1, <3>1
    <3>3. PICK i \in 1..n : j = i + 1
      <4>1. j - 1 \in 1..n /\ j = (j - 1) + 1
        BY <3>2
      <4>. QED
        BY <4>1
    <3>4. e = s[i] /\ i \in DOMAIN s
      BY <1>4, <3>1, <3>3
    <3>5. e \in ToSet(net'[t])
      BY <1>5, <3>4 DEF ToSet
    <3>. QED
      BY <3>5
  <2>. QED
    BY <2>4, <2>5
<1>. QED
  BY <1>6, <1>9, <1>10 DEF NetOK

(* What an answer leaves of the process it goes to.                         *)
Reply(w, k, outcome) == [w EXCEPT !.pc = "answered", !.applied = k, !.outcome = outcome]

(* An answer reports what the target did.                                   *)
LEMMA AnswerKeeps ==
  ASSUME TInv, NEW t \in Kinds, net[t] # <<>>, NEW d, d = Head(net[t]),
         NEW k \in Nat, k <= BatchLen(proc[d].todo),
         NEW outcome \in {"progress", "terminal", "error"},
         outcome = "terminal" => t = "vector" /\ k < BatchLen(proc[d].todo),
         Answer(t, k, outcome), faults' \in 0..MaxFaults
  PROVE  /\ TInv' /\ d \in Procs /\ proc[d].pc = "wait" /\ proc'[d] = Reply(proc[d], k, outcome)
         /\ \A e \in Procs : e # d => proc'[e] = proc[e]
         /\ accepted \subseteq accepted'
<1>1. /\ d \in Procs /\ proc[d].pc = "wait" /\ KindOf(proc[d].todo[1]) = t
      /\ proc[d].todo \in Seq(Entries(issued)) /\ proc[d].todo # <<>>
      /\ BatchOf(issued, proc[d].todo)
  BY Sender
<1>2. proc \in [Procs -> Drains(issued)] /\ WorkIn(d, proc[d], issued)
  BY <1>1 DEF TInv, ProcsOK
<1>3. proc' = [proc EXCEPT ![d] = Reply(proc[d], k, outcome)]
  BY <1>1, <1>2 DEF Answer, Reply
<1>4. proc'[d] = Reply(proc[d], k, outcome) /\ \A e \in Procs : e # d => proc'[e] = proc[e]
  BY <1>1, <1>2, <1>3
<1>5. PICK w : w = Reply(proc[d], k, outcome)
  OBVIOUS
<1>6. /\ w \in Drains(issued) /\ w.pc = "answered" /\ w.todo = proc[d].todo
      /\ w.src = proc[d].src /\ w.applied = k /\ w.outcome = outcome
  <2>1. proc[d] \in Drains(issued)
    BY <1>1, <1>2
  <2>. QED
    BY <1>5, <2>1 DEF Drains, Reply
<1>7. PICK b \in Seq(Entries(issued)) : b = Batch(proc[d].todo)
  BY <1>1 DEF BatchOf
<1>8. Len(b) = BatchLen(proc[d].todo) /\ k <= Len(b) /\ \A i \in 1..k : b[i] = proc[d].todo[i]
  <2>1. Len(b) = BatchLen(proc[d].todo) /\ Len(b) \in Nat
    BY <1>1, <1>7 DEF BatchOf
  <2>2. \A i \in 1..k : i \in 1..BatchLen(proc[d].todo)
    BY <2>1
  <2>. QED
    BY <1>1, <1>7, <2>1, <2>2 DEF BatchOf
<1>9. /\ Apply(b, k) /\ canon' = canon /\ moves' = moves /\ pending' = pending /\ outbox' = outbox
      /\ journal' = journal /\ timer' = timer /\ issued' = issued /\ upgrades' = upgrades
      /\ net' = [net EXCEPT ![t] = Tail(@)]
  BY <1>7 DEF Answer, queueVars
<1>10. StateOK /\ Stamped
  BY DEF TInv
<1>11. /\ Stamped' /\ index' \subseteq Postings /\ accepted \subseteq accepted'
       /\ accepted' \subseteq issued /\ \A i \in 1..k : b[i].row.op \in accepted'
  BY <1>8, <1>9, <1>10, ApplyKeeps
<1>12. StateOK'
  BY <1>9, <1>10, <1>11 DEF StateOK
<1>13. WorkIn(d, w, issued) /\ Told(w, accepted')
  <2>1. WorkIn(d, w, issued)
    BY <1>1, <1>2, <1>6 DEF WorkIn, Active
  <2>2. Told(w, accepted')
    BY <1>1, <1>6, <1>8, <1>11 DEF Told
  <2>. QED
    BY <2>1, <2>2
<1>14. ASSUME NEW e \in Procs PROVE WorkIn(e, proc'[e], issued) /\ Told(proc'[e], accepted')
  <2>1. CASE e = d
    BY <1>4, <1>5, <1>13, <2>1
  <2>2. CASE e # d
    <3>1. proc'[e] = proc[e] /\ WorkIn(e, proc[e], issued) /\ Told(proc[e], accepted)
      BY <1>4, <2>2 DEF TInv, ProcsOK
    <3>2. Told(proc[e], accepted')
      BY <1>11, <3>1 DEF Told
    <3>. QED
      BY <3>1, <3>2
  <2>. QED
    BY <2>1, <2>2
<1>15. proc' \in [Procs -> Drains(issued)]
  BY <1>1, <1>2, <1>3, <1>5, <1>6
<1>16. ProcsOK'
  BY <1>9, <1>14, <1>15 DEF ProcsOK
<1>17. NetOK'
  <2>1. proc'[d].pc = "answered" /\ net' = [net EXCEPT ![t] = Tail(@)]
    BY <1>4, <1>5, <1>6, <1>9
  <2>2. \A e \in Procs : e # d => proc'[e] = proc[e]
    BY <1>4
  <2>. QED
    BY <2>1, <2>2, NetAnswers
<1>18. (proc'[Timer].pc = "idle" <=> proc[Timer].pc = "idle") /\ proc'[Timer].src = proc[Timer].src
  <2>1. CASE d = Timer
    BY <1>1, <1>4, <1>5, <1>6, <2>1
  <2>2. CASE d # Timer
    BY <1>4, <2>2, ProcFacts
  <2>. QED
    BY <2>1, <2>2
<1>19. TimerOK' /\ WakeOK'
  <2>1. TimerOK /\ WakeOK
    BY DEF TInv
  <2>2. TimerOK'
    BY <1>9, <1>18, <2>1 DEF TimerOK
  <2>3. WakeOK'
    BY <1>9, <1>18, <2>1 DEF WakeOK, NoLostWake, Delivering
  <2>. QED
    BY <2>2, <2>3
<1>20. QueueIn(outbox', issued') /\ JournalIn(journal', issued')
  BY <1>9 DEF TInv
<1>. QED
  BY <1>1, <1>4, <1>11, <1>12, <1>16, <1>17, <1>19, <1>20 DEF TInv

(* What is left of a snapshot is fit to go on with.                         *)
RestOf(d, todo) ==
  /\ todo \in Seq(Entries(issued))
  /\ proc[d].src # "outbox" => AllPostings(todo)
  /\ d \in Calls /\ proc[d].src = "flush" => Under(d, todo)

(* A queue some rows of which are gone or quarantined.                      *)
Shrunk(ob, jr) ==
  /\ QueueIn(ob, issued) /\ JournalIn(jr, issued)
  /\ DOMAIN jr \subseteq DOMAIN journal /\ PendingRows(ob) \subseteq PendingRows(outbox)

(* A process with an answer.                                                *)
LEMMA AnsweredIs ==
  ASSUME TInv, NEW d \in Procs, Answered(d)
  PROVE  /\ WorkIn(d, proc[d], issued) /\ proc[d].todo \in Seq(Entries(issued)) /\ proc[d].todo # <<>>
         /\ BatchOf(issued, proc[d].todo) /\ proc[d].applied \in Nat
         /\ proc[d].applied <= BatchLen(proc[d].todo)
         /\ proc[d].src \in {"outbox", "journal", "flush"} /\ Told(proc[d], accepted)
<1>1. WorkIn(d, proc[d], issued) /\ Told(proc[d], accepted)
  BY DEF TInv, ProcsOK
<1>2. /\ proc[d].todo \in Seq(Entries(issued)) /\ proc[d].todo # <<>> /\ proc[d].applied \in Nat
      /\ proc[d].src \in {"outbox", "journal", "flush"}
  BY <1>1 DEF WorkIn, Drains, Active, Answered
<1>3. BatchOf(issued, proc[d].todo)
  BY <1>2, BatchPrefix
<1>4. proc[d].applied <= BatchLen(proc[d].todo)
  BY <1>1 DEF Told, Answered
<1>. QED
  BY <1>1, <1>2, <1>3, <1>4

(* The wakes after a slice of the pass.                                     *)
LEMMA PassWakes ==
  ASSUME TInv, Answered(Timer), NEW ob, NEW jr, Shrunk(ob, jr), NEW w, NEW src,
         src = proc[Timer].src, proc'[Timer] = w,
         \/ w.pc = "wait" /\ w.src = src
         \/ StageAfter(issued, src, ob, jr, pending, w),
         outbox' = ob, journal' = jr, moves' = moves,
         pending' = IF w.src = "flush" /\ src # "flush" THEN <<>> ELSE pending,
         timer' = AfterPass(timer, w, ob, jr)
  PROVE  TimerOK' /\ WakeOK'
<1>1. TimerOK /\ WakeOK
  BY DEF TInv
<1>2. PICK a \in BOOLEAN, r \in BOOLEAN : timer = [armed |-> a, running |-> TRUE, requested |-> r]
  BY <1>1 DEF TimerOK, Answered
<1>3. a = FALSE
  BY <1>1, <1>2 DEF TimerOK
<1>4. /\ src = "flush" => pending = <<>>
      /\ src = "journal" /\ pending # <<>> => r
      /\ src = "outbox" /\ DOMAIN journal # {} => r
  BY <1>1, <1>2 DEF WakeOK
<1>5. src \in {"outbox", "journal", "flush"}
  BY AnsweredIs, ProcFacts
<1>6. w.pc \in {"idle", "wait"}
  BY DEF StageAfter
<1>7. CASE w.pc = "idle"
  <2>1. w.src = "none" /\ (src = "outbox" => PendingRows(ob) # {} \/ pending = <<>>)
    BY <1>7 DEF StageAfter
  <2>2. PICK m \in BOOLEAN : m <=> (r \/ moves' > 0 \/ Delivering(ob, jr))
    OBVIOUS
  <2>3. timer' = [armed |-> m, running |-> FALSE, requested |-> FALSE]
    <3>1. timer' = [armed |-> r \/ (moves' > 0 \/ Delivering(ob, jr)), running |-> FALSE, requested |-> FALSE]
      BY <1>2, <1>7 DEF AfterPass, Finished
    <3>2. (r \/ (moves' > 0 \/ Delivering(ob, jr))) = m
      BY <2>2
    <3>. QED
      BY <3>1, <3>2
  <2>4. TimerOK'
    BY <1>7, <2>3 DEF TimerOK
  <2>5. pending' = pending
    BY <2>1
  <2>6. Delivering(ob, jr) \/ pending # <<>> => m
    BY <1>4, <1>5, <2>1, <2>2 DEF Delivering
  <2>7. NoLostWake'
    BY <2>3, <2>5, <2>6 DEF NoLostWake, Delivering
  <2>8. WakeOK'
    BY <2>1, <2>7 DEF WakeOK
  <2>. QED
    BY <2>4, <2>8
<1>8. CASE w.pc = "wait"
  <2>1. timer' = timer
    BY <1>8 DEF AfterPass
  <2>2. TimerOK'
    BY <1>1, <1>2, <1>8, <2>1 DEF TimerOK
  <2>3. NoLostWake'
    BY <1>2, <2>1 DEF NoLostWake
  <2>4. DOMAIN jr \subseteq DOMAIN journal
    BY DEF Shrunk
  <2>5. \/ w.src = src
        \/ w.src = "journal" /\ src # "journal" /\ DOMAIN jr # {}
        \/ w.src = "flush" /\ src = "outbox"
    BY <1>8 DEF StageAfter
  <2>6. w.src = "flush" => pending' = <<>>
    BY <1>4, <1>5, <2>5
  <2>7. w.src = "journal" /\ pending' # <<>> => r
    BY <1>4, <1>5, <2>4, <2>5
  <2>8. w.src = "outbox" /\ DOMAIN jr # {} => r
    BY <1>4, <1>5, <2>4, <2>5
  <2>9. timer'.requested = r
    BY <1>2, <2>1
  <2>10. WakeOK'
    BY <2>3, <2>6, <2>7, <2>8, <2>9 DEF WakeOK
  <2>. QED
    BY <2>2, <2>10
<1>. QED
  BY <1>6, <1>7, <1>8

(* A call that reads an answer leaves the pass alone.                       *)
LEMMA CallWakes ==
  ASSUME TInv, NEW ob, NEW jr, Shrunk(ob, jr), proc'[Timer] = proc[Timer],
         outbox' = ob, journal' = jr, pending' \in {<<>>, pending}, timer' = timer
  PROVE  TimerOK' /\ WakeOK'
<1>1. TimerOK /\ WakeOK
  BY DEF TInv
<1>2. TimerOK'
  BY <1>1 DEF TimerOK
<1>3. DOMAIN jr \subseteq DOMAIN journal /\ PendingRows(ob) \subseteq PendingRows(outbox)
  BY DEF Shrunk
<1>4. Delivering(ob, jr) => Delivering(outbox, journal)
  BY <1>3 DEF Delivering
<1>5. NoLostWake'
  BY <1>1, <1>4 DEF WakeOK, NoLostWake, Delivering
<1>6. WakeOK'
  BY <1>1, <1>3, <1>5 DEF WakeOK
<1>. QED
  BY <1>2, <1>6

(* The drain of d goes on as w with what is left.                           *)
Went(d, src, todo, ob, jr, w) ==
  /\ Resumed(issued, d, src, todo, ob, jr, pending, w)
  /\ proc'[d] = w /\ \A e \in Procs : e # d => proc'[e] = proc[e]
  /\ outbox' = ob /\ journal' = jr /\ issued' = issued /\ accepted' = accepted
  /\ pending' = IF w.src = "flush" /\ src # "flush" THEN <<>> ELSE pending

(* A drain reads an answer and goes on.                                     *)
LEMMA ContinueKeeps ==
  ASSUME TInv, NEW d \in Procs, Answered(d), NEW todo, RestOf(d, todo), NEW ob, NEW jr, Shrunk(ob, jr),
         NEW src, src = proc[d].src, Continue(d, src, todo, ob, jr, pending)
  PROVE  TInv' /\ \E w : Went(d, src, todo, ob, jr, w)
<1>1. /\ WorkIn(d, proc[d], issued) /\ proc[d].pc = "answered"
      /\ src \in {"outbox", "journal", "flush"}
  BY AnsweredIs DEF Answered
<1>2. StateOK /\ ProcsOK /\ NetOK /\ Stamped
  BY DEF TInv
<1>3. PICK w : w = Resume(d, src, todo, ob, jr, pending)
  OBVIOUS
<1>4. /\ canon' = canon /\ moves' = moves /\ index' = index /\ vindex' = vindex
      /\ accepted' = accepted /\ issued' = issued /\ faults' = faults /\ upgrades' = upgrades
      /\ Proceed(d, w) /\ outbox' = ob /\ journal' = jr
      /\ pending' = IF w.src = "flush" /\ src # "flush" THEN <<>> ELSE pending
      /\ timer' = IF d = Timer THEN AfterPass(timer, w, ob, jr) ELSE timer
  BY <1>3 DEF Continue, targetVars
<1>5. pending \in Seq(Rekeyed(issued)) /\ issued \subseteq GoodOps
  BY <1>2 DEF StateOK
<1>6. /\ todo \in Seq(Entries(issued)) /\ (src # "outbox" => AllPostings(todo))
      /\ (d \in Calls /\ src = "flush" => Under(d, todo)) /\ JournalIn(jr, issued)
  BY DEF RestOf, Shrunk
<1>7. Resumed(issued, d, src, todo, ob, jr, pending, w)
  BY <1>1, <1>3, <1>5, <1>6, ResumeIs
<1>8. /\ WorkIn(d, w, issued) /\ w.pc \in {"wait", "idle", "done"}
      /\ \/ w.pc = "wait" /\ w.src = src /\ w.todo = todo /\ MaySend(src, todo, ob)
         \/ d = Timer /\ StageAfter(issued, src, ob, jr, pending, w)
         \/ d # Timer /\ w.pc = "done" /\ w.src = "none"
  BY <1>7 DEF Resumed
<1>9. /\ ProcsOK' /\ NetOK' /\ proc'[d] = w /\ \A e \in Procs : e # d => proc'[e] = proc[e]
  <2>1. /\ proc[d].pc # "wait" /\ w.pc # "answered" /\ WorkIn(d, w, issued')
        /\ issued \subseteq issued' /\ accepted \subseteq accepted' /\ issued' \subseteq GoodOps
    BY <1>1, <1>4, <1>5, <1>8
  <2>. QED
    BY <1>2, <1>4, <2>1, ProceedKeeps
<1>10. <<>> \in Seq(Rekeyed(issued))
  BY EmptySeq
<1>11. pending' \in Seq(Rekeyed(issued)) /\ pending' \in {<<>>, pending}
  BY <1>4, <1>5, <1>10
<1>12. StateOK' /\ Stamped'
  <2>1. StateOK'
    BY <1>2, <1>4, <1>11 DEF StateOK
  <2>2. Stamped'
    BY <1>2, <1>4 DEF Stamped
  <2>. QED
    BY <2>1, <2>2
<1>13. QueueIn(outbox', issued') /\ JournalIn(journal', issued')
  BY <1>4 DEF Shrunk
<1>14. TimerOK' /\ WakeOK'
  <2>1. CASE d = Timer
    <3>1. /\ Answered(Timer) /\ src = proc[Timer].src /\ proc'[Timer] = w
          /\ timer' = AfterPass(timer, w, ob, jr)
      BY <1>4, <1>9, <2>1
    <3>2. (w.pc = "wait" /\ w.src = src) \/ StageAfter(issued, src, ob, jr, pending, w)
      BY <1>8, <2>1
    <3>. QED
      BY <1>4, <3>1, <3>2, PassWakes
  <2>2. CASE d # Timer
    <3>1. proc'[Timer] = proc[Timer] /\ timer' = timer
      BY <1>4, <1>9, <2>2, ProcFacts
    <3>. QED
      BY <1>4, <1>11, <3>1, CallWakes
  <2>. QED
    BY <2>1, <2>2
<1>15. Went(d, src, todo, ob, jr, w)
  BY <1>4, <1>9, <1>7 DEF Went
<1>. QED
  BY <1>9, <1>12, <1>13, <1>14, <1>15 DEF TInv

(* What is left after the first k entries.                                  *)
LEMMA SuffixRest ==
  ASSUME TInv, NEW d \in Procs, Answered(d), NEW k \in Nat, NEW r, r = Drop(proc[d].todo, k)
  PROVE  RestOf(d, r) /\ SuffixOf(Entries(issued), proc[d].todo, k, r)
<1>1. WorkIn(d, proc[d], issued) /\ proc[d].todo \in Seq(Entries(issued))
  BY AnsweredIs
<1>2. SuffixOf(Entries(issued), proc[d].todo, k, r)
  BY <1>1, DropSuffix
<1>3. proc[d].src # "outbox" => AllPostings(r)
  BY <1>1, <1>2 DEF WorkIn, AllPostings, SuffixOf
<1>4. d \in Calls /\ proc[d].src = "flush" => Under(d, r)
  BY <1>1, <1>2 DEF WorkIn, Under, SuffixOf
<1>. QED
  BY <1>2, <1>3, <1>4 DEF RestOf, SuffixOf

(* Nothing left.                                                            *)
LEMMA NoRest ==
  ASSUME NEW d
  PROVE  RestOf(d, <<>>)
<1>1. <<>> \in Seq(Entries(issued))
  BY EmptySeq
<1>. QED
  BY <1>1 DEF RestOf, AllPostings, Under

(* The first k entries of a snapshot, and their sequences.                  *)
LEMMA TakenPart ==
  ASSUME NEW S, NEW todo \in Seq(S), NEW k \in Nat, k <= Len(todo), NEW r, r = SubSeq(todo, 1, k)
  PROVE  r \in Seq(S) /\ Len(r) = k /\ \A i \in 1..k : r[i] = todo[i]
<1>1. \A i \in 1..k : todo[i] \in S
  OBVIOUS
<1>. QED
  BY <1>1, SubSeqProperties

(* The rows that leave the queue are those of the entries taken.           *)
LEMMA TakenSeqs ==
  ASSUME NEW I, NEW todo \in Seq(Entries(I)), todo # <<>>, NEW k \in Nat, k <= BatchLen(todo)
  PROVE  SeqsOf(SubSeq(todo, 1, k)) = {todo[i].seq : i \in 1..k}
<1>1. BatchOf(I, todo)
  BY BatchPrefix
<1>2. k <= Len(todo)
  BY <1>1 DEF BatchOf
<1>3. PICK r : r = SubSeq(todo, 1, k)
  OBVIOUS
<1>4. Len(r) = k /\ \A i \in 1..k : r[i] = todo[i]
  BY <1>2, <1>3, TakenPart
<1>. QED
  BY <1>3, <1>4 DEF SeqsOf

(* A snapshot that is dropped whole.                                        *)
LEMMA NothingLeft ==
  ASSUME NEW S, NEW todo \in Seq(S), NEW l \in Nat, l = Len(todo)
  PROVE  SuffixOf(S, todo, l, <<>>)
<1>1. <<>> \in Seq(S) /\ Len(<<>>) = 0
  BY EmptySeq
<1>2. \A j \in 1..Len(todo) : ~(j > l)
  OBVIOUS
<1>. QED
  BY <1>1, <1>2 DEF SuffixOf

(* Queues that lose rows.                                                   *)
LEMMA RemovedShrinks ==
  ASSUME TInv, NEW S
  PROVE  /\ Shrunk(outbox, journal) /\ Shrunk(Removed(outbox, S), journal)
         /\ Shrunk(outbox, Removed(journal, S))
         /\ \A x : Shrunk(Quarantine(Removed(outbox, S), x), journal)
<1>1. QueueIn(outbox, issued) /\ JournalIn(journal, issued) /\ QueueIn(journal, issued)
  BY DEF TInv, JournalIn
<1>2. Shrunk(outbox, journal)
  BY <1>1 DEF Shrunk
<1>3. PICK o : o = Removed(outbox, S)
  OBVIOUS
<1>4. LessRows(issued, outbox, S, o)
  BY <1>1, <1>3, RemovedRows
<1>5. Shrunk(o, journal)
  BY <1>1, <1>4 DEF Shrunk, LessRows, PendingRows
<1>6. PICK j : j = Removed(journal, S)
  OBVIOUS
<1>7. LessRows(issued, journal, S, j)
  BY <1>1, <1>6, RemovedRows
<1>8. JournalIn(j, issued) /\ DOMAIN j \subseteq DOMAIN journal
  BY <1>1, <1>7 DEF LessRows, JournalIn
<1>9. Shrunk(outbox, j)
  BY <1>1, <1>8 DEF Shrunk
<1>10. ASSUME NEW x PROVE Shrunk(Quarantine(o, x), journal)
  <2>1. PICK r : r = Quarantine(o, x)
    OBVIOUS
  <2>2. QueueIn(o, issued)
    BY <1>4 DEF LessRows
  <2>3. MarkedRow(issued, o, x, r)
    BY <2>1, <2>2, QuarantinedRows
  <2>4. PendingRows(r) \subseteq PendingRows(o)
    BY <2>3 DEF MarkedRow, PendingRows
  <2>5. Shrunk(r, journal)
    BY <1>5, <2>3, <2>4 DEF Shrunk, MarkedRow
  <2>. QED
    BY <2>1, <2>5
<1>. QED
  BY <1>2, <1>3, <1>5, <1>6, <1>9, <1>10

(* One answer read: k rows that the target took leave their queue, n        *)
(* entries leave the snapshot, and at most the row after the k is marked.   *)
Took(d, k, n, rest, ob, jr) ==
  /\ k \in Nat /\ n \in Nat /\ k <= n /\ k <= proc[d].applied
  /\ SuffixOf(Entries(issued), proc[d].todo, n, rest)
  /\ proc[d].src = "flush" => n = k
  /\ \A i \in DOMAIN ob : i \in DOMAIN outbox /\ ob[i].op = outbox[i].op
  /\ \A i \in DOMAIN outbox :
       \/ /\ i \in DOMAIN ob /\ ob[i].op = outbox[i].op /\ ob[i].m = outbox[i].m
          /\ ob[i] = outbox[i] \/ (k < n /\ k + 1 \in 1..Len(proc[d].todo) /\ i = proc[d].todo[k + 1].seq)
       \/ proc[d].src = "outbox" /\ \E j \in 1..k : i = proc[d].todo[j].seq
  /\ DOMAIN jr \subseteq DOMAIN journal
  /\ \A i \in DOMAIN journal :
       \/ i \in DOMAIN jr /\ jr[i] = journal[i]
       \/ proc[d].src = "journal" /\ \E j \in 1..k : i = proc[d].todo[j].seq
ReadStep(d) ==
  \E k, n, rest, ob, jr, w :
    Took(d, k, n, rest, ob, jr) /\ Went(d, proc[d].src, rest, ob, jr, w)

(* An acknowledged property batch.                                          *)
LEMMA ReadPostingsKeeps ==
  ASSUME TInv, NEW d \in Procs, ReadPostings(d)
  PROVE  TInv' /\ ReadStep(d)
<1>1. PICK src, full, k : src = proc[d].src /\ full = proc[d].todo /\ k = proc[d].applied
  OBVIOUS
<1>2. PICK gone : gone = SeqsOf(SubSeq(full, 1, k))
  OBVIOUS
<1>3. PICK ob, jr : /\ ob = IF src = "outbox" THEN Removed(outbox, gone) ELSE outbox
                    /\ jr = IF src = "journal" THEN Removed(journal, gone) ELSE journal
  OBVIOUS
<1>4. PICK todo : todo = LeftOver(src, full, k)
  OBVIOUS
<1>5. Answered(d) /\ Continue(d, src, todo, ob, jr, pending) /\ KindOf(full[1]) = "posting"
  BY <1>1, <1>2, <1>3, <1>4 DEF ReadPostings
<1>6. Shrunk(ob, jr)
  BY <1>3, RemovedShrinks
<1>7. /\ full \in Seq(Entries(issued)) /\ full # <<>> /\ k \in Nat /\ k <= BatchLen(full)
      /\ BatchOf(issued, full)
  BY <1>1, <1>5, AnsweredIs
<1>8. PICK n \in Nat : /\ k <= n /\ todo = Drop(full, n) /\ (src = "flush" => n = k)
                       /\ n = k \/ n = GroupLen(full)
  BY <1>4, <1>7, LeftOverIsDrop
<1>9. RestOf(d, todo) /\ SuffixOf(Entries(issued), full, n, todo)
  BY <1>1, <1>5, <1>8, SuffixRest
<1>10. TInv' /\ \E w : Went(d, src, todo, ob, jr, w)
  BY <1>1, <1>5, <1>6, <1>9, ContinueKeeps
<1>11. gone = {full[i].seq : i \in 1..k}
  BY <1>2, <1>7, TakenSeqs
<1>12. QueueIn(outbox, issued) /\ QueueIn(journal, issued)
  BY DEF TInv, JournalIn
<1>13. \/ ob = outbox
       \/ src = "outbox" /\ LessRows(issued, outbox, gone, ob)
  BY <1>3, <1>12, RemovedRows
<1>14. \/ jr = journal
       \/ src = "journal" /\ LessRows(issued, journal, gone, jr)
  BY <1>3, <1>12, RemovedRows
<1>15. \A i \in DOMAIN outbox :
         \/ i \in DOMAIN ob /\ ob[i] = outbox[i]
         \/ src = "outbox" /\ \E j \in 1..k : i = full[j].seq
  BY <1>11, <1>13 DEF LessRows
<1>16. \A i \in DOMAIN ob : i \in DOMAIN outbox /\ ob[i].op = outbox[i].op
  BY <1>13 DEF LessRows
<1>17. /\ DOMAIN jr \subseteq DOMAIN journal
       /\ \A i \in DOMAIN journal :
            \/ i \in DOMAIN jr /\ jr[i] = journal[i]
            \/ src = "journal" /\ \E j \in 1..k : i = full[j].seq
  BY <1>11, <1>14 DEF LessRows
<1>18. Took(d, k, n, todo, ob, jr)
  BY <1>1, <1>7, <1>8, <1>9, <1>15, <1>16, <1>17 DEF Took
<1>. QED
  BY <1>1, <1>10, <1>18 DEF ReadStep

(* An answer about vector rows.                                             *)
LEMMA ReadVectorsKeeps ==
  ASSUME TInv, NEW d \in Procs, ReadVectors(d)
  PROVE  TInv' /\ ReadStep(d)
<1>1. PICK src, full, k : src = proc[d].src /\ full = proc[d].todo /\ k = proc[d].applied
  OBVIOUS
<1>2. PICK batch : batch = Batch(full)
  OBVIOUS
<1>3. PICK gone : gone = SeqsOf(SubSeq(batch, 1, k))
  OBVIOUS
<1>4. PICK o, x, q : o = Removed(outbox, gone) /\ x = batch[k + 1].seq /\ q = Quarantine(o, x)
  OBVIOUS
<1>5. Answered(d) /\ KindOf(full[1]) = "vector" /\ proc[d].outcome # "error"
  BY <1>1 DEF ReadVectors
<1>6. /\ BatchOf(issued, full) /\ k \in Nat /\ full \in Seq(Entries(issued)) /\ full # <<>>
      /\ k <= BatchLen(full) /\ Told(proc[d], accepted) /\ WorkIn(d, proc[d], issued)
  BY <1>1, <1>5, AnsweredIs
<1>7. PICK b \in Nat, g \in Nat, l \in Nat :
        /\ b = BatchLen(full) /\ g = GroupLen(full) /\ l = Len(full) /\ k <= b /\ b <= g /\ g <= l
        /\ 1 <= b
  BY <1>6 DEF BatchOf
<1>8. Len(batch) = b /\ batch \in Seq(Entries(issued)) /\ \A i \in 1..b : batch[i] = full[i]
  BY <1>2, <1>6, <1>7 DEF BatchOf
<1>9. src = "outbox"
  <2>1. src # "outbox" => AllPostings(full)
    BY <1>1, <1>6 DEF WorkIn
  <2>2. 1 \in 1..Len(full)
    BY <1>7
  <2>3. AllPostings(full) => KindOf(full[1]) = "posting"
    BY <2>2 DEF AllPostings
  <2>. QED
    BY <1>5, <2>1, <2>3
<1>10. Shrunk(outbox, journal) /\ Shrunk(o, journal) /\ Shrunk(q, journal)
  BY <1>4, RemovedShrinks
<1>11. \/ Continue(d, src, <<>>, outbox, journal, pending)
       \/ /\ SamePrefix(outbox, batch)
          /\ \/ Continue(d, src, Drop(full, k), o, journal, pending)
             \/ proc[d].outcome # "progress" /\ Continue(d, src, Drop(full, g), q, journal, pending)
  BY <1>1, <1>2, <1>3, <1>4, <1>7 DEF ReadVectors
<1>12. gone = {full[i].seq : i \in 1..k}
  <2>1. SubSeq(batch, 1, k) = SubSeq(full, 1, k)
    <3>1. \A i \in 1..k : batch[i] = full[i]
      BY <1>6, <1>7, <1>8
    <3>2. /\ Len(SubSeq(batch, 1, k)) = k /\ Len(SubSeq(full, 1, k)) = k
          /\ SubSeq(batch, 1, k) \in Seq(Entries(issued)) /\ SubSeq(full, 1, k) \in Seq(Entries(issued))
          /\ \A i \in 1..k : SubSeq(batch, 1, k)[i] = batch[i] /\ SubSeq(full, 1, k)[i] = full[i]
      <4>1. /\ Len(SubSeq(batch, 1, k)) = k /\ SubSeq(batch, 1, k) \in Seq(Entries(issued))
            /\ \A i \in 1..k : SubSeq(batch, 1, k)[i] = batch[i]
        BY <1>6, <1>7, <1>8, TakenPart
      <4>2. /\ Len(SubSeq(full, 1, k)) = k /\ SubSeq(full, 1, k) \in Seq(Entries(issued))
            /\ \A i \in 1..k : SubSeq(full, 1, k)[i] = full[i]
        BY <1>6, <1>7, TakenPart
      <4>. QED
        BY <4>1, <4>2
    <3>. QED
      BY <3>1, <3>2, SeqEqual
  <2>2. SeqsOf(SubSeq(full, 1, k)) = {full[i].seq : i \in 1..k}
    BY <1>6, TakenSeqs
  <2>. QED
    BY <1>3, <2>1, <2>2
<1>13. QueueIn(outbox, issued)
  BY DEF TInv
<1>14. LessRows(issued, outbox, gone, o)
  BY <1>4, <1>13, RemovedRows
<1>15. CASE Continue(d, src, <<>>, outbox, journal, pending)
  <2>1. RestOf(d, <<>>)
    BY NoRest
  <2>2. TInv' /\ \E w : Went(d, src, <<>>, outbox, journal, w)
    BY <1>1, <1>5, <1>10, <1>15, <2>1, ContinueKeeps
  <2>3. SuffixOf(Entries(issued), full, l, <<>>)
    BY <1>6, <1>7, NothingLeft
  <2>4. Took(d, 0, l, <<>>, outbox, journal)
    BY <1>1, <1>6, <1>7, <1>9, <2>3 DEF Took
  <2>. QED
    BY <1>1, <2>2, <2>4 DEF ReadStep
<1>16. CASE SamePrefix(outbox, batch) /\ Continue(d, src, Drop(full, k), o, journal, pending)
  <2>1. PICK rest : rest = Drop(full, k)
    OBVIOUS
  <2>2. RestOf(d, rest) /\ SuffixOf(Entries(issued), full, k, rest)
    BY <1>1, <1>5, <1>6, <2>1, SuffixRest
  <2>3. TInv' /\ \E w : Went(d, src, rest, o, journal, w)
    BY <1>1, <1>5, <1>10, <1>16, <2>1, <2>2, ContinueKeeps
  <2>4. \A i \in DOMAIN outbox :
          \/ i \in DOMAIN o /\ o[i] = outbox[i]
          \/ \E j \in 1..k : i = full[j].seq
    BY <1>12, <1>14 DEF LessRows
  <2>5. \A i \in DOMAIN o : i \in DOMAIN outbox /\ o[i].op = outbox[i].op
    BY <1>14 DEF LessRows
  <2>6. Took(d, k, k, rest, o, journal)
    BY <1>1, <1>6, <1>9, <2>2, <2>4, <2>5 DEF Took
  <2>. QED
    BY <1>1, <2>3, <2>6 DEF ReadStep
<1>17. CASE /\ SamePrefix(outbox, batch) /\ proc[d].outcome # "progress"
            /\ Continue(d, src, Drop(full, g), q, journal, pending)
  <2>1. PICK rest : rest = Drop(full, g)
    OBVIOUS
  <2>2. RestOf(d, rest) /\ SuffixOf(Entries(issued), full, g, rest)
    BY <1>1, <1>5, <1>7, <2>1, SuffixRest
  <2>3. TInv' /\ \E w : Went(d, src, rest, q, journal, w)
    BY <1>1, <1>5, <1>10, <1>17, <2>1, <2>2, ContinueKeeps
  <2>4. k < b
    <3>1. proc[d].outcome = "terminal"
      BY <1>5, <1>6, <1>17 DEF Told, Answered
    <3>. QED
      BY <1>1, <1>5, <1>6, <1>7, <3>1 DEF Told, Answered
  <2>5. k < g /\ k + 1 \in 1..l /\ k + 1 \in 1..b /\ x = full[k + 1].seq
    BY <1>4, <1>6, <1>7, <1>8, <2>4
  <2>6. QueueIn(o, issued)
    BY <1>14 DEF LessRows
  <2>7. MarkedRow(issued, o, x, q)
    BY <1>4, <2>6, QuarantinedRows
  <2>8. \A i \in DOMAIN outbox :
          \/ /\ i \in DOMAIN q /\ q[i].op = outbox[i].op /\ q[i].m = outbox[i].m
             /\ (q[i] = outbox[i] \/ i = x)
          \/ \E j \in 1..k : i = full[j].seq
    BY <1>12, <1>14, <2>7 DEF LessRows, MarkedRow
  <2>9. \A i \in DOMAIN q : i \in DOMAIN outbox /\ q[i].op = outbox[i].op
    BY <1>14, <2>7 DEF LessRows, MarkedRow
  <2>10. Took(d, k, g, rest, q, journal)
    BY <1>1, <1>6, <1>7, <1>9, <2>2, <2>5, <2>8, <2>9 DEF Took
  <2>. QED
    BY <1>1, <2>3, <2>10 DEF ReadStep
<1>. QED
  BY <1>11, <1>15, <1>16, <1>17

(* A drain that failed.                                                     *)
LEMMA ReadFailureKeeps ==
  ASSUME TInv, NEW d \in Procs, ReadFailure(d)
  PROVE  TInv' /\ ReadStep(d)
<1>1. PICK src, full : src = proc[d].src /\ full = proc[d].todo
  OBVIOUS
<1>2. Answered(d) /\ Continue(d, src, <<>>, outbox, journal, pending) /\ src # "flush"
  BY <1>1 DEF ReadFailure
<1>3. Shrunk(outbox, journal)
  BY RemovedShrinks
<1>4. RestOf(d, <<>>)
  BY NoRest
<1>5. TInv' /\ \E w : Went(d, src, <<>>, outbox, journal, w)
  BY <1>1, <1>2, <1>3, <1>4, ContinueKeeps
<1>6. full \in Seq(Entries(issued)) /\ proc[d].applied \in Nat
  BY <1>1, <1>2, AnsweredIs
<1>7. PICK l \in Nat : l = Len(full)
  BY <1>6
<1>8. SuffixOf(Entries(issued), full, l, <<>>)
  BY <1>6, <1>7, NothingLeft
<1>9. Took(d, 0, l, <<>>, outbox, journal)
  BY <1>1, <1>2, <1>6, <1>7, <1>8 DEF Took
<1>. QED
  BY <1>1, <1>5, <1>9 DEF ReadStep

(* request_arm latches while a pass runs and arms the timer otherwise.      *)
Timers == [armed : BOOLEAN, running : BOOLEAN, requested : BOOLEAN]
ArmedTimer(t, a) ==
  /\ a \in Timers /\ (a.running <=> t.running)
  /\ t.running => a.requested /\ (a.armed <=> t.armed)
  /\ ~t.running => a.armed /\ (a.requested <=> t.requested)

(* So an arm request is never dropped.                                      *)
LEMMA ArmedIs ==
  ASSUME NEW t \in [armed : BOOLEAN, running : BOOLEAN, requested : BOOLEAN]
  PROVE  ArmedTimer(t, Armed(t))
<1>1. CASE t.running
  <2>1. Armed(t) = [t EXCEPT !.requested = TRUE]
    BY <1>1 DEF Armed
  <2>. QED
    BY <1>1, <2>1 DEF ArmedTimer, Timers
<1>2. CASE ~t.running
  <2>1. Armed(t) = [t EXCEPT !.armed = TRUE]
    BY <1>2 DEF Armed
  <2>. QED
    BY <1>2, <2>1 DEF ArmedTimer, Timers
<1>. QED
  BY <1>1, <1>2

(* A flush that failed: its operations are journaled under one mutation id. *)
Spilled(d, m, ops) ==
  /\ Answered(d) /\ proc[d].src = "flush"
  /\ GrownBy(issued, journal, m, ops, journal')
  /\ Len(ops) = Len(proc[d].todo) /\ \A i \in 1..Len(ops) : ops[i] = proc[d].todo[i].row.op
  /\ m = proc[d].todo[1].row.m
  /\ \/ proc'[d].src = "none" /\ proc'[d].pc \in {"idle", "done"}
     \/ /\ d = Timer /\ proc'[d].src = "journal" /\ proc'[d].pc = "wait"
        /\ proc'[d].todo = Peek(journal')
  /\ \A e \in Procs : e # d => proc'[e] = proc[e]
  /\ outbox' = outbox /\ pending' = pending /\ issued' = issued /\ accepted' = accepted

(* It wakes the timer.                                                      *)
LEMMA FlushFailureKeeps ==
  ASSUME TInv, NEW d \in Procs, FlushFailure(d)
  PROVE  TInv' /\ \E m, ops : Spilled(d, m, ops)
<1>1. Answered(d) /\ proc[d].src = "flush"
  BY DEF FlushFailure
<1>2. PICK todo \in Seq(Entries(issued)) : todo = proc[d].todo /\ todo # <<>>
  BY <1>1, AnsweredIs
<1>3. WorkIn(d, proc[d], issued) /\ AllPostings(todo)
  BY <1>1, <1>2, AnsweredIs DEF WorkIn
<1>4. StateOK /\ ProcsOK /\ NetOK /\ Stamped /\ TimerOK /\ WakeOK /\ JournalIn(journal, issued)
  BY DEF TInv
<1>5. issued \in SUBSET GoodOps /\ pending \in Seq(Rekeyed(issued))
  BY <1>4 DEF StateOK
<1>6. PICK ops : ops = [i \in 1..Len(todo) |-> todo[i].row.op]
  OBVIOUS
<1>7. PICK m : m = todo[1].row.m
  OBVIOUS
<1>8. PICK jr : jr = Appended(journal, m, ops)
  OBVIOUS
<1>9. PICK w : w = Resume(d, "flush", <<>>, outbox, jr, pending)
  OBVIOUS
<1>10. /\ canon' = canon /\ moves' = moves /\ pending' = pending /\ outbox' = outbox /\ index' = index
       /\ vindex' = vindex /\ accepted' = accepted /\ issued' = issued /\ faults' = faults
       /\ upgrades' = upgrades /\ Proceed(d, w) /\ journal' = jr
       /\ timer' = IF d = Timer THEN AfterPass(Armed(timer), w, outbox, jr) ELSE Armed(timer)
  BY <1>2, <1>6, <1>7, <1>8, <1>9 DEF FlushFailure, targetVars
<1>11. \A i \in 1..Len(todo) : todo[i] \in Entries(issued)
  OBVIOUS
<1>12. \A i \in 1..Len(todo) : todo[i].row.op \in issued /\ todo[i].row.m \in Calls \cup {0}
  BY <1>5, <1>11, EntryFields
<1>13. Len(todo) \in Nat /\ Len(todo) # 0 /\ 1 \in 1..Len(todo)
  BY <1>2
<1>14. ops \in Seq(issued) /\ Len(ops) = Len(todo) /\ \A i \in 1..Len(ops) : ops[i].kind = "posting"
  BY <1>3, <1>6, <1>12, <1>13 DEF AllPostings, KindOf
<1>15. m \in Calls \cup {0}
  BY <1>7, <1>12, <1>13
<1>16. GrownBy(issued, journal, m, ops, jr)
  BY <1>4, <1>8, <1>14, <1>15, AppendedRows DEF JournalIn
<1>17. JournalIn(jr, issued) /\ DOMAIN jr # {}
  <2>1. ASSUME NEW i \in DOMAIN jr PROVE ~jr[i].quarantined /\ jr[i].op.kind = "posting"
    <3>1. CASE i \in DOMAIN journal
      BY <1>4, <1>16, <3>1 DEF GrownBy, JournalIn
    <3>2. CASE i \notin DOMAIN journal
      <4>1. PICK k \in 1..Len(ops) : jr[i] = Row(m, ops[k])
        BY <1>16, <3>2 DEF GrownBy
      <4>. QED
        BY <1>14, <4>1 DEF Row
    <3>. QED
      BY <3>1, <3>2
  <2>2. DOMAIN jr # {}
    BY <1>13, <1>14, <1>16 DEF GrownBy
  <2>. QED
    BY <1>16, <2>1, <2>2 DEF GrownBy, JournalIn
<1>18. RestOf(d, <<>>)
  BY NoRest
<1>19. Resumed(issued, d, "flush", <<>>, outbox, jr, pending, w)
  <2>1. <<>> \in Seq(Entries(issued)) /\ AllPostings(<<>>) /\ Under(d, <<>>)
    BY EmptySeq DEF AllPostings, Under
  <2>. QED
    BY <1>5, <1>9, <1>17, <2>1, ResumeIs
<1>20. WorkIn(d, w, issued) /\ w.pc \in {"wait", "idle", "done"}
  BY <1>19 DEF Resumed
<1>21. /\ ProcsOK' /\ NetOK' /\ proc'[d] = w /\ \A e \in Procs : e # d => proc'[e] = proc[e]
  <2>1. /\ proc[d].pc # "wait" /\ w.pc # "answered" /\ WorkIn(d, w, issued')
        /\ issued \subseteq issued' /\ accepted \subseteq accepted' /\ issued' \subseteq GoodOps
    BY <1>1, <1>5, <1>10, <1>20 DEF Answered
  <2>. QED
    BY <1>4, <1>10, <2>1, ProceedKeeps
<1>22. StateOK' /\ Stamped' /\ QueueIn(outbox', issued') /\ JournalIn(journal', issued')
  <2>1. StateOK'
    BY <1>4, <1>10 DEF StateOK
  <2>2. Stamped'
    BY <1>4, <1>10 DEF Stamped
  <2>3. QueueIn(outbox', issued') /\ JournalIn(journal', issued')
    BY <1>10, <1>17 DEF TInv
  <2>. QED
    BY <2>1, <2>2, <2>3
<1>23. \/ w.src = "none" /\ w.pc = "done"
       \/ d = Timer /\ w.pc = "wait" /\ w.src = "journal" /\ w.todo = Peek(jr)
  <2>1. ~MaySend("flush", <<>>, outbox)
    BY DEF MaySend
  <2>2. CASE d = Timer
    <3>1. w = JournalStage(jr)
      BY <1>9, <2>1, <2>2 DEF Resume, NextStage
    <3>2. w = Work("journal", Peek(jr))
      BY <1>17, <3>1 DEF JournalStage
    <3>. QED
      BY <2>2, <3>2 DEF Work, Stopped
  <2>3. CASE d # Timer
    <3>1. w = Stopped("done")
      BY <1>9, <2>1, <2>3 DEF Resume
    <3>. QED
      BY <3>1 DEF Stopped
  <2>. QED
    BY <2>2, <2>3
<1>24. Spilled(d, m, ops)
  <2>1. \A i \in 1..Len(ops) : ops[i] = todo[i].row.op
    BY <1>6, <1>14
  <2>. QED
    BY <1>1, <1>2, <1>7, <1>10, <1>14, <1>16, <1>21, <1>23, <2>1 DEF Spilled
<1>25. PICK a \in BOOLEAN, u \in BOOLEAN, q \in BOOLEAN :
         timer = [armed |-> a, running |-> u, requested |-> q]
  BY <1>4 DEF TimerOK
<1>26. CASE d = Timer
  <2>1. u = TRUE /\ a = FALSE
    BY <1>1, <1>4, <1>25, <1>26 DEF TimerOK, Answered
  <2>2. Armed(timer) = [armed |-> FALSE, running |-> TRUE, requested |-> TRUE]
    BY <1>25, <2>1 DEF Armed
  <2>3. w.pc = "wait" /\ w.src = "journal"
    <3>1. ~MaySend("flush", <<>>, outbox)
      BY DEF MaySend
    <3>2. w = JournalStage(jr)
      BY <1>9, <1>26, <3>1 DEF Resume, NextStage
    <3>3. w = Work("journal", Peek(jr))
      BY <1>17, <3>2 DEF JournalStage
    <3>. QED
      BY <3>3 DEF Work, Stopped
  <2>4. timer' = [armed |-> FALSE, running |-> TRUE, requested |-> TRUE]
    BY <1>10, <1>26, <2>2, <2>3 DEF AfterPass
  <2>5. TimerOK'
    BY <1>21, <1>26, <2>3, <2>4 DEF TimerOK
  <2>6. WakeOK'
    BY <1>21, <1>26, <2>3, <2>4 DEF WakeOK, NoLostWake
  <2>. QED
    BY <1>21, <1>22, <1>24, <2>5, <2>6 DEF TInv
<1>27. CASE d # Timer
  <2>1. proc'[Timer] = proc[Timer]
    BY <1>21, <1>27, ProcFacts
  <2>2. ArmedTimer(timer, timer')
    BY <1>4, <1>10, <1>27, ArmedIs DEF TimerOK
  <2>3. TimerOK'
    BY <1>4, <2>1, <2>2 DEF TimerOK, ArmedTimer, Timers
  <2>4. timer'.armed \/ timer'.running
    BY <2>2 DEF ArmedTimer
  <2>5. proc[Timer].src # "none" => timer'.requested
    <3>1. WorkIn(Timer, proc[Timer], issued)
      BY <1>4, ProcFacts DEF ProcsOK
    <3>2. proc[Timer].src # "none" => timer.running
      BY <1>4, <3>1 DEF WorkIn, Active, TimerOK
    <3>. QED
      BY <2>2, <3>2 DEF ArmedTimer
  <2>6. WakeOK'
    BY <1>4, <1>10, <2>1, <2>4, <2>5 DEF WakeOK, NoLostWake
  <2>. QED
    BY <1>21, <1>22, <1>24, <2>3, <2>6 DEF TInv
<1>. QED
  BY <1>26, <1>27

(* The operations a call may write: a posting that was there is removed,    *)
(* another is added.                                                        *)
Written(c, P, V) ==
  {o \in GoodOps : /\ o.by = c /\ (V = {} => o.kind = "posting") /\ (P = {} => o.kind = "vector")
                   /\ o.kind = "posting" => o.item \in P /\ (o.remove <=> o.item \in canon)}

(* A call writes its own operations, one for every posting of P.            *)
LEMMA WriteOpsAre ==
  ASSUME NEW c \in Calls, NEW P \in SUBSET Postings, NEW V \in SUBSET Subjects
  PROVE  /\ WriteOps(c, P, V) \in Seq(Written(c, P, V))
         /\ P \cup V # {} => WriteOps(c, P, V) # <<>>
         /\ \A p \in P : \E i \in 1..Len(WriteOps(c, P, V)) :
              WriteOps(c, P, V)[i].kind = "posting" /\ WriteOps(c, P, V)[i].item = p
<1>. DEFINE W == Written(c, P, V)
<1>1. IsFiniteSet(P \cap canon) /\ IsFiniteSet(P \ canon) /\ IsFiniteSet(V)
  <2>1. IsFiniteSet(Postings \cup Subjects)
    BY IndexConstants
  <2>2. P \cap canon \in SUBSET (Postings \cup Subjects)
    OBVIOUS
  <2>3. P \ canon \in SUBSET (Postings \cup Subjects)
    OBVIOUS
  <2>4. V \in SUBSET (Postings \cup Subjects)
    OBVIOUS
  <2>. QED
    BY <2>1, <2>2, <2>3, <2>4, FS_Subset
<1>2. PICK g : g = SetToSeq(P \cap canon)
  OBVIOUS
<1>3. PICK n : n = SetToSeq(P \ canon)
  OBVIOUS
<1>4. PICK v : v = SetToSeq(V)
  OBVIOUS
<1>5. /\ g \in Seq(P \cap canon) /\ (P \cap canon # {} => g # <<>>)
      /\ \A x \in P \cap canon : \E i \in 1..Len(g) : g[i] = x
  BY <1>1, <1>2, SetSeq
<1>6. /\ n \in Seq(P \ canon) /\ (P \ canon # {} => n # <<>>)
      /\ \A x \in P \ canon : \E i \in 1..Len(n) : n[i] = x
  BY <1>1, <1>3, SetSeq
<1>7. v \in Seq(V) /\ (V # {} => v # <<>>)
  BY <1>1, <1>4, SetSeq
<1>. PICK yes \in BOOLEAN, no \in BOOLEAN : yes = TRUE /\ no = FALSE
  OBVIOUS
<1>8. PICK a : a = [i \in 1..Len(g) |-> PostingOp(c, g[i], yes)]
  OBVIOUS
<1>9. PICK b : b = [i \in 1..Len(n) |-> PostingOp(c, n[i], no)]
  OBVIOUS
<1>10. PICK e : e = [i \in 1..Len(v) |-> VectorOp(c, v[i])]
  OBVIOUS
<1>11. WriteOps(c, P, V) = a \o b \o e
  BY <1>2, <1>3, <1>4, <1>8, <1>9, <1>10 DEF WriteOps
<1>12. \A p \in P, x \in BOOLEAN : (x <=> p \in canon) => PostingOp(c, p, x) \in W
  <2>. SUFFICES ASSUME NEW p \in P, NEW x \in BOOLEAN, x <=> p \in canon PROVE PostingOp(c, p, x) \in W
    OBVIOUS
  <2>1. PICK o : o = [by |-> c, kind |-> "posting", item |-> p, remove |-> x]
    OBVIOUS
  <2>2. o \in Ops /\ o.by = c /\ o.kind = "posting" /\ o.item = p /\ (o.remove <=> p \in canon)
    BY <2>1 DEF Ops, Kinds
  <2>3. o \in W
    BY <2>2 DEF GoodOps, Written
  <2>. QED
    <3>1. o = PostingOp(c, p, x)
      BY <2>1 DEF PostingOp
    <3>. HIDE DEF W
    <3>. QED
      BY <2>3, <3>1
<1>13. \A s \in V : VectorOp(c, s) \in W
  <2>. SUFFICES ASSUME NEW s \in V PROVE VectorOp(c, s) \in W
    OBVIOUS
  <2>1. PICK o : o = [by |-> c, kind |-> "vector", item |-> s, remove |-> FALSE]
    OBVIOUS
  <2>2. o \in Ops /\ o.by = c /\ o.kind = "vector" /\ o.item = s
    BY <2>1 DEF Ops, Kinds
  <2>3. o \in W
    BY <2>2 DEF GoodOps, Written
  <2>. QED
    <3>1. o = VectorOp(c, s)
      BY <2>1 DEF VectorOp
    <3>. HIDE DEF W
    <3>. QED
      BY <2>3, <3>1
<1>. HIDE DEF W
<1>14. a \in Seq(W) /\ Len(a) = Len(g)
  <2>1. \A i \in 1..Len(g) : g[i] \in P /\ (yes <=> g[i] \in canon)
    BY <1>5
  <2>2. Len(g) \in Nat
    BY <1>5
  <2>3. \A i \in 1..Len(g) : PostingOp(c, g[i], yes) \in W
    BY <1>12, <2>1
  <2>. QED
    <3>1. a \in [1..Len(g) -> W]
      BY <1>8, <2>3
    <3>. QED
      BY <2>2, <3>1
<1>15. b \in Seq(W) /\ Len(b) = Len(n)
  <2>1. \A i \in 1..Len(n) : n[i] \in P /\ (no <=> n[i] \in canon)
    BY <1>6
  <2>2. Len(n) \in Nat
    BY <1>6
  <2>3. \A i \in 1..Len(n) : PostingOp(c, n[i], no) \in W
    BY <1>12, <2>1
  <2>. QED
    <3>1. b \in [1..Len(n) -> W]
      BY <1>9, <2>3
    <3>. QED
      BY <2>2, <3>1
<1>16. e \in Seq(W) /\ Len(e) = Len(v)
  <2>1. \A i \in 1..Len(v) : v[i] \in V
    BY <1>7
  <2>2. Len(v) \in Nat
    BY <1>7
  <2>3. \A i \in 1..Len(v) : VectorOp(c, v[i]) \in W
    BY <1>13, <2>1
  <2>. QED
    <3>1. e \in [1..Len(v) -> W]
      BY <1>10, <2>3
    <3>. QED
      BY <2>2, <3>1
<1>17. /\ a \o b \in Seq(W) /\ Len(a \o b) = Len(a) + Len(b)
       /\ \A i \in 1..(Len(a) + Len(b)) : (a \o b)[i] = IF i <= Len(a) THEN a[i] ELSE b[i - Len(a)]
  BY <1>14, <1>15, ConcatProperties
<1>18. PICK ab : ab = a \o b
  OBVIOUS
<1>19. /\ ab \o e \in Seq(W) /\ Len(ab \o e) = Len(ab) + Len(e)
       /\ \A i \in 1..(Len(ab) + Len(e)) : (ab \o e)[i] = IF i <= Len(ab) THEN ab[i] ELSE e[i - Len(ab)]
  <2>1. ab \in Seq(W)
    BY <1>17, <1>18
  <2>. QED
    BY <1>16, <2>1, ConcatProperties
<1>20. WriteOps(c, P, V) = ab \o e /\ Len(ab) = Len(a) + Len(b)
  BY <1>11, <1>17, <1>18
<1>21. ASSUME P \cup V # {} PROVE WriteOps(c, P, V) # <<>>
  <2>1. P \cap canon # {} \/ P \ canon # {} \/ V # {}
    BY <1>21
  <2>2. Len(g) # 0 \/ Len(n) # 0 \/ Len(v) # 0
    BY <1>5, <1>6, <1>7, <2>1
  <2>3. Len(g) \in Nat /\ Len(n) \in Nat /\ Len(v) \in Nat
    BY <1>5, <1>6, <1>7
  <2>4. Len(WriteOps(c, P, V)) = Len(g) + Len(n) + Len(v)
    BY <1>14, <1>15, <1>16, <1>19, <1>20, <2>3
  <2>5. Len(WriteOps(c, P, V)) # 0
    BY <2>2, <2>3, <2>4
  <2>. QED
    BY <2>5
<1>22. PICK s : s = ab \o e
  OBVIOUS
<1>23. PICK x \in Nat, y \in Nat, z \in Nat : x = Len(g) /\ y = Len(n) /\ z = Len(v)
  BY <1>5, <1>6, <1>7
<1>24. \A i \in 1..x : i \in 1..(x + y) /\ i \in 1..(x + y + z) /\ i <= x /\ i <= x + y
  OBVIOUS
<1>25. \A i \in 1..y : /\ x + i \in 1..(x + y) /\ x + i \in 1..(x + y + z)
                       /\ ~(x + i <= x) /\ x + i <= x + y /\ (x + i) - x = i
  OBVIOUS
<1>26. Len(s) = x + y + z /\ Len(ab) = x + y /\ Len(a) = x /\ Len(b) = y /\ Len(e) = z
  BY <1>14, <1>15, <1>16, <1>17, <1>18, <1>19, <1>22, <1>23
<1>27. ASSUME NEW i \in 1..x PROVE s[i] = PostingOp(c, g[i], yes)
  <2>1. s[i] = ab[i] /\ ab[i] = a[i]
    BY <1>17, <1>18, <1>19, <1>22, <1>24, <1>26
  <2>. QED
    BY <1>8, <1>23, <2>1
<1>28. ASSUME NEW i \in 1..y PROVE s[x + i] = PostingOp(c, n[i], no)
  <2>1. s[x + i] = ab[x + i]
    BY <1>19, <1>22, <1>25, <1>26
  <2>2. ab[x + i] = b[i]
    BY <1>17, <1>18, <1>25, <1>26
  <2>. QED
    BY <1>9, <1>23, <2>1, <2>2
<1>29. ASSUME NEW p \in P PROVE \E i \in 1..Len(s) : s[i].kind = "posting" /\ s[i].item = p
  <2>1. CASE p \in canon
    <3>1. PICK i \in 1..x : g[i] = p
      BY <1>5, <1>23, <2>1
    <3>2. s[i] = PostingOp(c, p, yes) /\ i \in 1..Len(s)
      BY <1>24, <1>26, <1>27, <3>1
    <3>3. s[i].kind = "posting" /\ s[i].item = p
      BY <3>2 DEF PostingOp
    <3>. QED
      BY <3>2, <3>3
  <2>2. CASE p \notin canon
    <3>1. PICK i \in 1..y : n[i] = p
      BY <1>6, <1>23, <2>2
    <3>2. PICK k : k = x + i
      OBVIOUS
    <3>3. s[k] = PostingOp(c, p, no) /\ k \in 1..Len(s)
      BY <1>25, <1>26, <1>28, <3>1, <3>2
    <3>4. s[k].kind = "posting" /\ s[k].item = p
      BY <3>3 DEF PostingOp
    <3>. QED
      BY <3>3, <3>4
  <2>. QED
    BY <2>1, <2>2
<1>30. WriteOps(c, P, V) = s
  BY <1>20, <1>22
<1>. QED
  BY <1>19, <1>20, <1>21, <1>29, <1>30 DEF W

(* What every call does: operations s are issued and handed on with what    *)
(* was pending.                                                             *)
Issues(c, P, V, s, ops) ==
  /\ s \in Seq(Written(c, P, V)) /\ s \in Seq(issued') /\ s # <<>>
  /\ ops = pending \o s /\ ops \in Seq(issued') /\ Len(ops) = Len(pending) + Len(s) /\ ops # <<>>
  /\ \A i \in 1..Len(ops) : \/ \E j \in 1..Len(pending) : ops[i] = pending[j]
                            \/ \E j \in 1..Len(s) : ops[i] = s[j]
  /\ \A j \in 1..Len(pending) : \E i \in 1..Len(ops) : ops[i] = pending[j]
  /\ \A j \in 1..Len(s) : \E i \in 1..Len(ops) : ops[i] = s[j]
  /\ issued \subseteq issued' /\ issued' \subseteq GoodOps
  /\ \A o \in issued' : o \in issued \/ \E i \in 1..Len(s) : o = s[i]

(* The operations of a call.                                                *)
LEMMA WriteIssues ==
  ASSUME TInv, NEW c \in Calls, NEW P \in SUBSET Postings, NEW V \in SUBSET Subjects, Write(c, P, V),
         NEW s, s = WriteOps(c, P, V)
  PROVE  Issues(c, P, V, s, pending \o s)
<1>1. s \in Seq(Written(c, P, V)) /\ s # <<>>
  BY WriteOpsAre DEF Write
<1>2. issued' = issued \cup {s[i] : i \in DOMAIN s} /\ DOMAIN s = 1..Len(s)
  BY <1>1 DEF Write, ToSet
<1>3. issued \subseteq GoodOps /\ pending \in Seq(Rekeyed(issued))
  BY DEF TInv, StateOK
<1>4. \A i \in 1..Len(s) : s[i] \in Written(c, P, V)
  BY <1>1
<1>5. issued' \subseteq GoodOps
  BY <1>2, <1>3, <1>4 DEF Written
<1>6. s \in Seq(issued')
  <2>1. \A i \in 1..Len(s) : s[i] \in issued'
    BY <1>2
  <2>. QED
    BY <1>1, <2>1
<1>7. pending \in Seq(issued')
  <2>1. Rekeyed(issued) \subseteq issued'
    BY <1>2 DEF Rekeyed
  <2>. QED
    BY <1>3, <2>1, SeqMonotonic
<1>8. PICK ops : ops = pending \o s
  OBVIOUS
<1>9. PICK k \in Nat, n \in Nat : k = Len(pending) /\ n = Len(s) /\ n # 0
  BY <1>1, <1>3
<1>10. /\ ops \in Seq(issued') /\ Len(ops) = k + n
       /\ \A i \in 1..(k + n) : ops[i] = IF i <= k THEN pending[i] ELSE s[i - k]
  BY <1>6, <1>7, <1>8, <1>9, ConcatProperties
<1>11. \A i \in 1..(k + n) : (i <= k => i \in 1..k) /\ (~(i <= k) => i - k \in 1..n)
  OBVIOUS
<1>12. \A i \in 1..Len(ops) : \/ \E j \in 1..Len(pending) : ops[i] = pending[j]
                              \/ \E j \in 1..Len(s) : ops[i] = s[j]
  BY <1>9, <1>10, <1>11
<1>13. \A j \in 1..k : j \in 1..(k + n) /\ j <= k
  OBVIOUS
<1>14. \A j \in 1..n : j + k \in 1..(k + n) /\ ~(j + k <= k) /\ (j + k) - k = j
  OBVIOUS
<1>15. \A j \in 1..Len(pending) : \E i \in 1..Len(ops) : ops[i] = pending[j]
  BY <1>9, <1>10, <1>13
<1>16. ASSUME NEW j \in 1..Len(s) PROVE \E i \in 1..Len(ops) : ops[i] = s[j]
  <2>1. PICK i : i = j + k /\ i \in 1..(k + n) /\ ~(i <= k) /\ i - k = j
    BY <1>9, <1>14
  <2>. QED
    BY <1>10, <2>1
<1>17. ops # <<>>
  BY <1>9, <1>10
<1>18. \A o \in issued' : o \in issued \/ \E i \in 1..Len(s) : o = s[i]
  BY <1>2
<1>. QED
  BY <1>1, <1>2, <1>5, <1>6, <1>8, <1>9, <1>10, <1>12, <1>15, <1>16, <1>17, <1>18 DEF Issues

(* The state a call leaves, its process apart.                              *)
LEMMA WriteState ==
  ASSUME TInv, NEW c \in Calls, NEW P \in SUBSET Postings, NEW V, Write(c, P, V),
         issued \subseteq issued', issued' \subseteq GoodOps, pending' = <<>>
  PROVE  StateOK' /\ Stamped' /\ accepted' = accepted /\ moves' = moves
<1>1. /\ canon' = SymDiff(canon, P) /\ moves' = moves /\ index' = index /\ vindex' = vindex
      /\ accepted' = accepted /\ faults' = faults /\ upgrades' = upgrades
  BY DEF Write, targetVars
<1>2. StateOK /\ Stamped
  BY DEF TInv
<1>3. canon' \subseteq Postings
  BY <1>1, <1>2 DEF StateOK, SymDiff
<1>4. pending' \in Seq(Rekeyed(issued'))
  BY EmptySeq
<1>5. StateOK'
  BY <1>1, <1>2, <1>3, <1>4 DEF StateOK
<1>6. Stamped'
  BY <1>1, <1>2 DEF Stamped
<1>. QED
  BY <1>1, <1>5, <1>6

(* What a plan execution leaves: its operations and the pending ones are in *)
(* the outbox, and it drains that.                                          *)
Executed(c, P, V, s, ops) ==
  /\ proc[c].pc = "new" /\ Issues(c, P, V, s, ops)
  /\ GrownBy(issued', outbox, c, ops, outbox')
  /\ proc'[c].pc = "wait" /\ proc'[c].src = "outbox" /\ proc'[c].todo = Peek(outbox')
  /\ \A e \in Procs : e # c => proc'[e] = proc[e]
  /\ pending' = <<>> /\ journal' = journal /\ accepted' = accepted

(* What an ordered batch leaves: it flushes them itself.                    *)
OrderedExecuted(c, P, s, ops) ==
  /\ proc[c].pc = "new" /\ Issues(c, P, {}, s, ops)
  /\ FlushOf(issued', c, ops, proc'[c].todo)
  /\ proc'[c].pc = "wait" /\ proc'[c].src = "flush"
  /\ \A e \in Procs : e # c => proc'[e] = proc[e]
  /\ pending' = <<>> /\ outbox' = outbox /\ journal' = journal /\ accepted' = accepted

(* A plan execution.                                                        *)
LEMMA ExecuteKeeps ==
  ASSUME TInv, NEW c \in Calls, NEW P \in SUBSET Postings, NEW V \in SUBSET Subjects, Execute(c, P, V)
  PROVE  TInv' /\ \E s, ops : Executed(c, P, V, s, ops)
<1>1. PICK s : s = WriteOps(c, P, V)
  OBVIOUS
<1>2. PICK ops : ops = pending \o s
  OBVIOUS
<1>3. Write(c, P, V) /\ proc[c].pc = "new" /\ c \in Procs /\ c # Timer
  BY ProcFacts DEF Execute, Write
<1>4. Issues(c, P, V, s, ops)
  BY <1>1, <1>2, <1>3, WriteIssues
<1>5. /\ issued \subseteq issued' /\ issued' \subseteq GoodOps /\ ops \in Seq(issued') /\ ops # <<>>
  BY <1>4 DEF Issues
<1>6. /\ outbox' = Appended(outbox, c, ops) /\ pending' = <<>> /\ timer' = Armed(timer)
      /\ Proceed(c, Work("outbox", Peek(outbox'))) /\ journal' = journal
  BY <1>1, <1>2 DEF Execute
<1>7. QueueIn(outbox, issued') /\ JournalIn(journal', issued')
  BY <1>5, <1>6, Widen DEF TInv
<1>8. PICK ob : ob = outbox'
  OBVIOUS
<1>9. GrownBy(issued', outbox, c, ops, ob)
  BY <1>5, <1>6, <1>7, <1>8, AppendedRows
<1>10. QueueIn(ob, issued')
  BY <1>9 DEF GrownBy
<1>11. SnapshotOf(issued', ob, Peek(ob))
  BY <1>10, PeekRows
<1>12. Peek(ob) # <<>> /\ Peek(ob) \in Seq(Entries(issued'))
  <2>1. 1 \in 1..Len(ops)
    BY <1>5
  <2>2. PICK i \in DOMAIN ob : ob[i] = Row(c, ops[1])
    BY <1>9, <2>1 DEF GrownBy
  <2>3. i \in PendingRows(ob)
    BY <2>2 DEF PendingRows, Row
  <2>. QED
    BY <1>11, <2>3 DEF SnapshotOf
<1>13. PICK w : w = Work("outbox", Peek(ob))
  OBVIOUS
<1>14. WorkIn(c, w, issued') /\ w.pc = "wait"
  BY <1>3, <1>12, <1>13, WorkIs
<1>15. StateOK' /\ Stamped' /\ accepted' = accepted
  BY <1>3, <1>5, <1>6, WriteState
<1>16. ProcsOK' /\ NetOK' /\ proc'[c] = w /\ \A e \in Procs : e # c => proc'[e] = proc[e]
  <2>1. ProcsOK /\ NetOK /\ Proceed(c, w) /\ proc[c].pc # "wait" /\ w.pc # "answered"
    BY <1>3, <1>6, <1>8, <1>13, <1>14 DEF TInv
  <2>2. issued \subseteq issued' /\ accepted \subseteq accepted' /\ issued' \subseteq GoodOps
    BY <1>5, <1>15
  <2>. QED
    BY <1>3, <1>14, <2>1, <2>2, ProceedKeeps
<1>17. proc'[Timer] = proc[Timer] /\ TimerOK /\ WorkIn(Timer, proc[Timer], issued)
  BY <1>3, <1>16, ProcFacts DEF TInv, ProcsOK
<1>18. ArmedTimer(timer, timer')
  BY <1>6, <1>17, ArmedIs DEF TimerOK
<1>19. TimerOK'
  BY <1>17, <1>18 DEF TimerOK, ArmedTimer, Timers
<1>20. timer'.armed \/ timer'.running
  BY <1>18 DEF ArmedTimer
<1>21. proc[Timer].src # "none" => timer'.requested
  <2>1. proc[Timer].src # "none" => timer.running
    BY <1>17 DEF WorkIn, Active, TimerOK
  <2>. QED
    BY <1>18, <2>1 DEF ArmedTimer
<1>22. WakeOK'
  BY <1>6, <1>17, <1>20, <1>21 DEF WakeOK, NoLostWake
<1>23. TInv'
  BY <1>7, <1>8, <1>10, <1>15, <1>16, <1>19, <1>22 DEF TInv
<1>24. w.src = "outbox" /\ w.todo = Peek(outbox')
  BY <1>8, <1>13 DEF Work, Stopped
<1>25. Executed(c, P, V, s, ops)
  BY <1>3, <1>4, <1>6, <1>8, <1>9, <1>14, <1>15, <1>16, <1>24 DEF Executed
<1>. QED
  BY <1>23, <1>25

(* An ordered batch.                                                        *)
LEMMA ExecuteOrderedKeeps ==
  ASSUME TInv, NEW c \in Calls, NEW P \in SUBSET Postings, ExecuteOrdered(c, P)
  PROVE  TInv' /\ \E s, ops : OrderedExecuted(c, P, s, ops)
<1>1. PICK s : s = WriteOps(c, P, {})
  OBVIOUS
<1>2. PICK ops : ops = pending \o s
  OBVIOUS
<1>3. Write(c, P, {}) /\ proc[c].pc = "new" /\ c \in Procs /\ c # Timer /\ {} \in SUBSET Subjects
  BY ProcFacts DEF ExecuteOrdered, Write
<1>4. Issues(c, P, {}, s, ops)
  BY <1>1, <1>2, <1>3, WriteIssues
<1>5. /\ issued \subseteq issued' /\ issued' \subseteq GoodOps /\ ops \in Seq(issued') /\ ops # <<>>
  BY <1>4 DEF Issues
<1>6. /\ outbox' = outbox /\ pending' = <<>> /\ timer' = timer
      /\ Proceed(c, Work("flush", Volatile(c, ops))) /\ journal' = journal
  BY <1>1, <1>2 DEF ExecuteOrdered
<1>7. QueueIn(outbox', issued') /\ JournalIn(journal', issued')
  BY <1>5, <1>6, Widen DEF TInv
<1>8. \A i \in 1..Len(ops) : ops[i].kind = "posting"
  <2>1. \A j \in 1..Len(pending) : pending[j].kind = "posting"
    BY DEF TInv, StateOK, Rekeyed
  <2>2. \A j \in 1..Len(s) : s[j].kind = "posting"
    BY <1>4 DEF Issues, Written
  <2>. QED
    BY <1>4, <2>1, <2>2 DEF Issues
<1>9. PICK v : v = Volatile(c, ops)
  OBVIOUS
<1>10. FlushOf(issued', c, ops, v)
  BY <1>5, <1>9, VolatileEntries
<1>11. v \in Seq(Entries(issued')) /\ v # <<>> /\ AllPostings(v) /\ Under(c, v)
  BY <1>5, <1>8, <1>10 DEF FlushOf, AllPostings, KindOf
<1>12. PICK w : w = Work("flush", v)
  OBVIOUS
<1>13. WorkIn(c, w, issued') /\ w.pc = "wait"
  BY <1>3, <1>11, <1>12, WorkIs
<1>14. StateOK' /\ Stamped' /\ accepted' = accepted
  BY <1>3, <1>5, <1>6, WriteState
<1>15. ProcsOK' /\ NetOK' /\ proc'[c] = w /\ \A e \in Procs : e # c => proc'[e] = proc[e]
  <2>1. ProcsOK /\ NetOK /\ Proceed(c, w) /\ proc[c].pc # "wait" /\ w.pc # "answered"
    BY <1>3, <1>6, <1>9, <1>12, <1>13 DEF TInv
  <2>2. issued \subseteq issued' /\ accepted \subseteq accepted' /\ issued' \subseteq GoodOps
    BY <1>5, <1>14
  <2>. QED
    BY <1>3, <1>13, <2>1, <2>2, ProceedKeeps
<1>16. proc'[Timer] = proc[Timer] /\ TimerOK /\ WakeOK
  BY <1>3, <1>15, ProcFacts DEF TInv
<1>17. TimerOK'
  BY <1>6, <1>16 DEF TimerOK
<1>18. WakeOK'
  BY <1>6, <1>16 DEF WakeOK, NoLostWake, Delivering
<1>19. TInv'
  BY <1>7, <1>14, <1>15, <1>17, <1>18 DEF TInv
<1>20. w.src = "flush" /\ w.todo = v
  BY <1>12 DEF Work, Stopped
<1>21. OrderedExecuted(c, P, s, ops)
  BY <1>3, <1>4, <1>6, <1>10, <1>13, <1>14, <1>15, <1>20 DEF OrderedExecuted
<1>. QED
  BY <1>19, <1>21

(* The answers a target may give.                                           *)
Answers(t, k, outcome) ==
  LET n == BatchLen(proc[Head(net[t])].todo)
  IN  /\ net[t] # <<>> /\ Answer(t, k, outcome)
      /\ \/ outcome = "progress" /\ k \in 1..n /\ faults' = faults
         \/ outcome = "terminal" /\ k \in 0..(n - 1) /\ faults' = faults /\ t = "vector"
         \/ outcome = "error" /\ k \in 0..n /\ faults < MaxFaults /\ faults' = faults + 1

(* Each of them is about a part of the request.                             *)
LEMMA ReceiveKeeps ==
  ASSUME TInv, NEW t \in Kinds, NEW k, NEW outcome, Answers(t, k, outcome),
         NEW d, d = Head(net[t])
  PROVE  /\ TInv' /\ k \in Nat /\ d \in Procs /\ proc[d].pc = "wait"
         /\ proc'[d] = Reply(proc[d], k, outcome)
         /\ \A e \in Procs : e # d => proc'[e] = proc[e]
         /\ accepted \subseteq accepted'
<1>1. net[t] # <<>> /\ Answer(t, k, outcome)
  BY DEF Answers
<1>2. BatchOf(issued, proc[d].todo)
  BY <1>1, Sender
<1>3. PICK b \in Nat : b = BatchLen(proc[d].todo)
  BY <1>2 DEF BatchOf
<1>4. \/ outcome = "progress" /\ k \in 1..b /\ faults' = faults
      \/ outcome = "terminal" /\ k \in 0..(b - 1) /\ faults' = faults /\ t = "vector"
      \/ outcome = "error" /\ k \in 0..b /\ faults < MaxFaults /\ faults' = faults + 1
  BY <1>3 DEF Answers
<1>5. faults \in 0..MaxFaults /\ MaxFaults \in Nat
  BY IndexConstants DEF TInv, StateOK
<1>6. faults' \in 0..MaxFaults
  BY <1>4, <1>5
<1>7. k \in Nat /\ k <= b /\ (outcome = "terminal" => t = "vector" /\ k < b)
  BY <1>4
<1>8. outcome \in {"progress", "terminal", "error"}
  BY <1>4
<1>. QED
  BY <1>1, <1>3, <1>6, <1>7, <1>8, AnswerKeeps

(* An answer of any kind.                                                   *)
LEMMA AnyAnswer ==
  ASSUME (\E t \in Kinds : Receive(t) \/ ReceiveFault(t)) \/ ReceiveTerminal
  PROVE  \E t \in Kinds : \E k, outcome : Answers(t, k, outcome)
<1>1. CASE \E t \in Kinds : Receive(t)
  <2>1. PICK t \in Kinds : Receive(t)
    BY <1>1
  <2>2. PICK k \in 1..BatchLen(proc[Head(net[t])].todo) : Answer(t, k, "progress")
    BY <2>1 DEF Receive
  <2>3. net[t] # <<>> /\ faults' = faults
    BY <2>1 DEF Receive
  <2>. QED
    BY <2>2, <2>3 DEF Answers
<1>2. CASE \E t \in Kinds : ReceiveFault(t)
  <2>1. PICK t \in Kinds : ReceiveFault(t)
    BY <1>2
  <2>2. PICK k \in 0..BatchLen(proc[Head(net[t])].todo) : Answer(t, k, "error")
    BY <2>1 DEF ReceiveFault
  <2>3. net[t] # <<>> /\ faults < MaxFaults /\ faults' = faults + 1
    BY <2>1 DEF ReceiveFault
  <2>. QED
    BY <2>2, <2>3 DEF Answers
<1>3. CASE ReceiveTerminal
  <2>1. PICK t \in Kinds : t = "vector"
    BY DEF Kinds
  <2>2. PICK k \in 0..(BatchLen(proc[Head(net[t])].todo) - 1) : Answer(t, k, "terminal")
    BY <1>3, <2>1 DEF ReceiveTerminal
  <2>3. net[t] # <<>> /\ faults' = faults
    BY <1>3, <2>1 DEF ReceiveTerminal
  <2>. QED
    BY <2>1, <2>2, <2>3 DEF Answers
<1>. QED
  BY <1>1, <1>2, <1>3

(* What every answer is.                                                    *)
LEMMA AnAnswer ==
  ASSUME TInv,
         (\E t \in Kinds : Receive(t) \/ ReceiveFault(t)) \/ ReceiveTerminal
  PROVE  /\ TInv' /\ \E t \in Kinds, k \in Nat, outcome \in {"progress", "terminal", "error"}, d \in Procs :
            /\ Answer(t, k, outcome) /\ proc[d].pc = "wait" /\ proc'[d] = Reply(proc[d], k, outcome)
            /\ \A e \in Procs : e # d => proc'[e] = proc[e]
         /\ accepted \subseteq accepted'
<1>1. \E t \in Kinds : \E k, outcome : Answers(t, k, outcome)
  BY AnyAnswer
<1>2. PICK t \in Kinds : \E k, outcome : Answers(t, k, outcome)
  BY <1>1
<1>3. PICK k, outcome : Answers(t, k, outcome)
  BY <1>2
<1>4. PICK d : d = Head(net[t])
  OBVIOUS
<1>5. /\ TInv' /\ k \in Nat /\ d \in Procs /\ proc[d].pc = "wait"
      /\ proc'[d] = Reply(proc[d], k, outcome)
      /\ \A e \in Procs : e # d => proc'[e] = proc[e]
      /\ accepted \subseteq accepted'
  BY <1>3, <1>4, ReceiveKeeps
<1>6. outcome \in {"progress", "terminal", "error"} /\ Answer(t, k, outcome)
  BY <1>3 DEF Answers
<1>. QED
  BY <1>5, <1>6

(* The pass begins, or is put off.                                          *)
LEMMA PassKeeps ==
  ASSUME TInv, Fire \/ CatalogFailed
  PROVE  /\ TInv' /\ proc'[Timer] \in {Stopped("catalog"), Stopped("idle")}
         /\ \A e \in Procs : e # Timer => proc'[e] = proc[e]
<1>1. /\ StateOK /\ QueueIn(outbox, issued) /\ JournalIn(journal, issued) /\ ProcsOK /\ NetOK
      /\ Stamped /\ TimerOK /\ WakeOK
  BY DEF TInv
<1>2. /\ canon' = canon /\ moves' = moves /\ pending' = pending /\ outbox' = outbox
      /\ journal' = journal /\ net' = net /\ index' = index /\ vindex' = vindex
      /\ accepted' = accepted /\ issued' = issued /\ upgrades' = upgrades
  BY DEF Fire, CatalogFailed, queueVars, targetVars
<1>3. Timer \in Procs
  BY ProcFacts
<1>4. PICK pc \in {"catalog", "idle"} : proc' = [proc EXCEPT ![Timer] = Stopped(pc)]
  BY DEF Fire, CatalogFailed
<1>5. proc[Timer].pc # "wait"
  BY <1>1, <1>3 DEF Fire, CatalogFailed, TimerOK
<1>6. WorkIn(Timer, Stopped(pc), issued) /\ Stopped(pc).pc = pc /\ Stopped(pc).src = "none"
  BY <1>3, StoppedIs
<1>7. PICK w : w = Stopped(pc)
  OBVIOUS
<1>8. GoesOn(Timer, w) /\ w.pc # "wait"
  BY <1>2, <1>4, <1>5, <1>6, <1>7 DEF GoesOn
<1>9. issued \subseteq issued' /\ accepted \subseteq accepted'
  BY <1>2
<1>10. ProcsOK' /\ proc'[Timer] = w /\ \A e \in Procs : e # Timer => proc'[e] = proc[e]
  BY <1>1, <1>3, <1>8, <1>9, ProcsGoOn
<1>11. NetOK'
  BY <1>1, <1>2, <1>3, <1>8, <1>9, NetStays
<1>12. faults' \in 0..MaxFaults
  <2>1. faults \in 0..MaxFaults /\ MaxFaults \in Nat
    BY <1>1, IndexConstants DEF StateOK
  <2>. QED
    <3>1. CASE Fire
      BY <2>1, <3>1 DEF Fire
    <3>2. CASE CatalogFailed
      <4>1. faults < MaxFaults /\ faults' = faults + 1
        BY <3>2 DEF CatalogFailed
      <4>. QED
        BY <2>1, <4>1
    <3>. QED
      BY <3>1, <3>2
<1>13. StateOK' /\ Stamped' /\ QueueIn(outbox', issued') /\ JournalIn(journal', issued')
  <2>1. StateOK'
    BY <1>1, <1>2, <1>12 DEF StateOK
  <2>2. Stamped'
    BY <1>1, <1>2 DEF Stamped
  <2>. QED
    BY <1>1, <1>2, <2>1, <2>2
<1>14. CASE Fire
  <2>1. /\ timer' = [timer EXCEPT !.armed = FALSE, !.running = TRUE]
        /\ proc' = [proc EXCEPT ![Timer] = Stopped("catalog")]
    BY <1>14 DEF Fire
  <2>2. proc'[Timer].pc = "catalog"
    <3>1. proc'[Timer] = Stopped("catalog")
      BY <1>1, <1>3, <2>1 DEF ProcsOK
    <3>. QED
      BY <3>1 DEF Stopped
  <2>3. TimerOK'
    BY <1>1, <2>1, <2>2 DEF TimerOK
  <2>4. timer'.running
    BY <1>1, <2>1 DEF TimerOK
  <2>5. WakeOK'
    BY <1>6, <1>7, <1>10, <2>4 DEF WakeOK, NoLostWake
  <2>. QED
    BY <1>7, <1>10, <1>11, <1>13, <2>3, <2>5 DEF TInv
<1>15. CASE CatalogFailed
  <2>1. timer' = Finished(timer, TRUE) /\ proc' = [proc EXCEPT ![Timer] = Stopped("idle")]
    BY <1>15 DEF CatalogFailed
  <2>2. proc'[Timer].pc = "idle"
    <3>1. proc'[Timer] = Stopped("idle")
      BY <1>1, <1>3, <2>1 DEF ProcsOK
    <3>. QED
      BY <3>1 DEF Stopped
  <2>3. timer' = [armed |-> TRUE, running |-> FALSE, requested |-> FALSE]
    BY <2>1 DEF Finished
  <2>4. TimerOK'
    BY <2>2, <2>3 DEF TimerOK
  <2>5. WakeOK'
    BY <1>6, <1>7, <1>10, <2>3 DEF WakeOK, NoLostWake
  <2>. QED
    BY <1>7, <1>10, <1>11, <1>13, <2>4, <2>5 DEF TInv
<1>. QED
  BY <1>14, <1>15

(* The first slice of a pass that has pd to deliver.                        *)
Began(pd) ==
  /\ FirstOf(issued', outbox, journal, pd, journal', proc'[Timer])
  /\ \A e \in Procs : e # Timer => proc'[e] = proc[e]
  /\ pending' = (IF proc'[Timer].src \in {"journal", "flush"} THEN <<>> ELSE pd)
  /\ outbox' = outbox /\ accepted' = accepted /\ proc[Timer].pc = "catalog"

(* The pass has its catalog and starts to deliver.                          *)
LEMMA BeginKeeps ==
  ASSUME TInv, proc[Timer].pc = "catalog", NEW pd, pd \in Seq(Rekeyed(issued')), Begin(pd),
         issued \subseteq issued', issued' \subseteq GoodOps, canon' \subseteq Postings, moves' \in 0..Moves
  PROVE  TInv' /\ Began(pd)
<1>1. PICK w : w = FirstStage(outbox, journal, pd)
  OBVIOUS
<1>2. PICK jr : jr = IF DOMAIN journal = {} THEN journal ELSE Appended(journal, 0, pd)
  OBVIOUS
<1>3. /\ Proceed(Timer, w) /\ journal' = jr
      /\ pending' = (IF w.src \in {"journal", "flush"} THEN <<>> ELSE pd)
      /\ timer' = AfterPass(timer, w, outbox, jr)
      /\ outbox' = outbox /\ index' = index /\ vindex' = vindex /\ accepted' = accepted
      /\ faults' = faults /\ upgrades' = upgrades
  BY <1>1, <1>2 DEF Begin, targetVars
<1>4. QueueIn(outbox, issued') /\ JournalIn(journal, issued')
  BY Widen DEF TInv
<1>5. PICK I : I = issued'
  OBVIOUS
<1>6. FirstOf(I, outbox, journal, pd, jr, w)
  BY <1>1, <1>2, <1>4, <1>5, FirstStageIs
<1>7. /\ JournalIn(jr, I) /\ WorkIn(Timer, w, I)
      /\ \/ /\ w.pc = "idle" /\ w.src = "none"
            /\ DOMAIN jr = {} /\ PendingRows(outbox) = {} /\ pd = <<>>
         \/ w.pc = "wait" /\ w.src = "outbox" /\ DOMAIN jr = {} /\ w.todo = Peek(outbox)
         \/ w.pc = "wait" /\ w.src = "flush" /\ w.todo = Volatile(0, pd)
         \/ w.pc = "wait" /\ w.src = "journal" /\ w.todo = Peek(jr)
  BY <1>6 DEF FirstOf
<1>8. ProcsOK' /\ NetOK' /\ proc'[Timer] = w /\ \A e \in Procs : e # Timer => proc'[e] = proc[e]
  <2>1. /\ ProcsOK /\ NetOK /\ proc[Timer].pc # "wait" /\ w.pc # "answered"
        /\ WorkIn(Timer, w, issued') /\ accepted \subseteq accepted' /\ Timer \in Procs
    BY <1>3, <1>5, <1>7, ProcFacts DEF TInv
  <2>. QED
    BY <1>3, <2>1, ProceedKeeps
<1>9. Began(pd)
  BY <1>3, <1>5, <1>8, <1>6 DEF Began
<1>10. pending' \in Seq(Rekeyed(issued'))
  <2>1. <<>> \in Seq(Rekeyed(issued'))
    BY EmptySeq
  <2>. QED
    BY <1>3, <2>1
<1>11. StateOK /\ Stamped /\ TimerOK
  BY DEF TInv
<1>12. StateOK'
  BY <1>3, <1>10, <1>11 DEF StateOK
<1>13. Stamped'
  BY <1>3, <1>11 DEF Stamped
<1>14. timer.running /\ ~timer.armed /\ timer \in [armed : BOOLEAN, running : BOOLEAN, requested : BOOLEAN]
  BY <1>11 DEF TimerOK
<1>15. CASE w.pc = "idle"
  <2>1. /\ w.src = "none" /\ DOMAIN jr = {} /\ PendingRows(outbox) = {} /\ pending' = <<>>
    BY <1>3, <1>7, <1>15
  <2>2. PICK m \in BOOLEAN : timer' = [armed |-> m, running |-> FALSE, requested |-> FALSE]
    <3>1. timer' = Finished(timer, moves' > 0 \/ Delivering(outbox, jr))
      BY <1>3, <1>15 DEF AfterPass
    <3>2. PICK m \in BOOLEAN : m = (timer.requested \/ (moves' > 0 \/ Delivering(outbox, jr)))
      OBVIOUS
    <3>. QED
      BY <3>1, <3>2 DEF Finished
  <2>3. TimerOK'
    BY <1>8, <1>15, <2>2 DEF TimerOK
  <2>4. WakeOK'
    BY <1>3, <1>8, <2>1 DEF WakeOK, NoLostWake, Delivering
  <2>. QED
    BY <1>3, <1>4, <1>5, <1>7, <1>8, <1>12, <1>13, <1>9, <2>3, <2>4 DEF TInv
<1>16. CASE w.pc = "wait"
  <2>1. timer' = timer
    BY <1>3, <1>16 DEF AfterPass
  <2>2. TimerOK'
    BY <1>8, <1>11, <1>14, <1>16, <2>1 DEF TimerOK
  <2>3. w.src \in {"journal", "flush"} => pending' = <<>>
    BY <1>3
  <2>4. w.src = "outbox" => DOMAIN jr = {}
    BY <1>7
  <2>5. WakeOK'
    BY <1>3, <1>8, <1>14, <2>1, <2>3, <2>4 DEF WakeOK, NoLostWake
  <2>. QED
    BY <1>3, <1>4, <1>5, <1>7, <1>8, <1>12, <1>13, <1>9, <2>2, <2>5 DEF TInv
<1>. QED
  BY <1>7, <1>15, <1>16

(* A pass that compacts nothing.                                            *)
LEMMA NothingMovesKeeps ==
  ASSUME TInv, NothingMoves
  PROVE  TInv' /\ issued' = issued /\ Began(pending)
<1>1. canon' = canon /\ issued' = issued /\ moves' = Max({0, moves - 1}) /\ Begin(pending)
      /\ proc[Timer].pc = "catalog"
  BY DEF NothingMoves
<1>2. /\ moves \in 0..Moves /\ Moves \in Nat /\ canon \subseteq Postings /\ issued \subseteq GoodOps
      /\ pending \in Seq(Rekeyed(issued))
  BY IndexConstants DEF TInv, StateOK
<1>3. moves' \in 0..Moves
  <2>1. PICK S : S = {0, moves - 1}
    OBVIOUS
  <2>2. \E x \in S : \A y \in S : x >= y
    BY <1>2, <2>1
  <2>3. PICK z : z = Max(S)
    OBVIOUS
  <2>4. z \in S /\ \A y \in S : z >= y
    BY <2>2, <2>3 DEF Max
  <2>5. z \in 0..Moves
    BY <1>2, <2>1, <2>4
  <2>. QED
    BY <1>1, <2>1, <2>3, <2>5
<1>4. PICK pd : pd = pending
  OBVIOUS
<1>5. pd \in Seq(Rekeyed(issued')) /\ Begin(pd) /\ issued \subseteq issued' /\ issued' \subseteq GoodOps
      /\ canon' \subseteq Postings
  BY <1>1, <1>2, <1>4
<1>. QED
  BY <1>1, <1>3, <1>4, <1>5, BeginKeeps

(* A pass that moves an edge issues two re-keyed postings.                  *)
LEMMA MoveKeeps ==
  ASSUME TInv, NEW p \in Postings, NEW q \in Postings, Move(p, q)
  PROVE  /\ TInv' /\ issued \subseteq issued'
         /\ \E ops : /\ \A o \in issued' : o \in issued \/ \E i \in 1..Len(ops) : o = ops[i]
                     /\ ops \in Seq(Rekeyed(issued')) /\ pending \in Seq(Rekeyed(issued'))
                     /\ Began(pending \o ops)
<1>1. PICK a, b : a = PostingOp(-moves, p, TRUE) /\ b = PostingOp(-moves, q, FALSE)
  OBVIOUS
<1>2. PICK ops : ops = <<a, b>>
  OBVIOUS
<1>3. /\ proc[Timer].pc = "catalog" /\ moves > 0 /\ canon' = (canon \ {p}) \cup {q}
      /\ issued' = issued \cup ToSet(ops) /\ moves' = moves - 1 /\ Begin(pending \o ops)
  BY <1>1, <1>2 DEF Move
<1>4. /\ moves \in 0..Moves /\ Moves \in Nat /\ canon \subseteq Postings /\ issued \subseteq GoodOps
      /\ pending \in Seq(Rekeyed(issued))
  BY IndexConstants DEF TInv, StateOK
<1>5. PICK y : y = -moves
  OBVIOUS
<1>6. y \in (-Moves .. -1) /\ y \notin Calls
  BY <1>3, <1>4, <1>5, IndexConstants
<1>7. ASSUME NEW x \in Postings, NEW r \in BOOLEAN, NEW o, o = PostingOp(y, x, r)
      PROVE  o \in GoodOps /\ o.kind = "posting" /\ o.by = y
  <2>1. o = [by |-> y, kind |-> "posting", item |-> x, remove |-> r]
    BY <1>7 DEF PostingOp
  <2>2. o \in Ops /\ o.kind = "posting" /\ o.by = y
    BY <1>6, <2>1 DEF Ops, Kinds
  <2>. QED
    BY <2>2 DEF GoodOps
<1>8. a \in GoodOps /\ a.kind = "posting" /\ a.by = y /\ b \in GoodOps /\ b.kind = "posting" /\ b.by = y
  <2>1. PICK yes \in BOOLEAN, no \in BOOLEAN : yes = TRUE /\ no = FALSE
    OBVIOUS
  <2>2. a = PostingOp(y, p, yes) /\ b = PostingOp(y, q, no)
    BY <1>1, <1>5, <2>1
  <2>. QED
    BY <1>7, <2>2
<1>9. ToSet(ops) = {a, b}
  BY <1>2 DEF ToSet
<1>10. issued' \subseteq GoodOps /\ issued \subseteq issued' /\ a \in issued' /\ b \in issued'
  BY <1>3, <1>4, <1>8, <1>9
<1>11. a \in Rekeyed(issued') /\ b \in Rekeyed(issued')
  BY <1>6, <1>8, <1>10 DEF Rekeyed
<1>12. ops \in Seq(Rekeyed(issued')) /\ Len(ops) = 2 /\ ops[1] = a /\ ops[2] = b
  BY <1>2, <1>11
<1>13. pending \in Seq(Rekeyed(issued'))
  BY <1>4, <1>10, Widen
<1>14. PICK pd : pd = pending \o ops
  OBVIOUS
<1>15. pd \in Seq(Rekeyed(issued'))
  BY <1>12, <1>13, <1>14, ConcatProperties
<1>16. canon' \subseteq Postings /\ moves' \in 0..Moves
  BY <1>3, <1>4
<1>17. TInv' /\ Began(pd)
  BY <1>3, <1>10, <1>14, <1>15, <1>16, BeginKeeps
<1>18. \A o \in issued' : o \in issued \/ \E i \in 1..Len(ops) : o = ops[i]
  BY <1>3, <1>9, <1>12
<1>. QED
  BY <1>10, <1>12, <1>13, <1>14, <1>17, <1>18

(* An upgrade loses the heap and arms the timer.                            *)
LEMMA UpgradeKeeps ==
  ASSUME TInv, Upgrade
  PROVE  TInv' /\ proc' = proc
<1>1. /\ Quiet /\ upgrades < MaxUpgrades /\ upgrades' = upgrades + 1 /\ pending' = <<>>
      /\ timer' = [armed |-> moves > 0 \/ Delivering(outbox, journal), running |-> FALSE, requested |-> FALSE]
      /\ canon' = canon /\ moves' = moves /\ outbox' = outbox /\ journal' = journal /\ proc' = proc
      /\ net' = net /\ index' = index /\ vindex' = vindex /\ accepted' = accepted
      /\ issued' = issued /\ faults' = faults
  BY DEF Upgrade, targetVars
<1>2. /\ StateOK /\ QueueIn(outbox, issued) /\ JournalIn(journal, issued) /\ ProcsOK /\ NetOK
      /\ Stamped /\ TimerOK /\ WakeOK
  BY DEF TInv
<1>3. proc[Timer].pc = "idle" /\ proc[Timer].src = "none"
  <2>1. WorkIn(Timer, proc[Timer], issued) /\ proc[Timer].pc \in {"new", "idle", "done"}
    BY <1>1, <1>2, ProcFacts DEF ProcsOK, Quiet
  <2>. QED
    BY <2>1 DEF WorkIn, Active
<1>4. PICK m \in BOOLEAN : m <=> (moves > 0 \/ Delivering(outbox, journal))
  OBVIOUS
<1>5. timer' = [armed |-> m, running |-> FALSE, requested |-> FALSE]
  <2>1. m = (moves > 0 \/ Delivering(outbox, journal))
    BY <1>4
  <2>. QED
    BY <1>1, <2>1
<1>6. TimerOK'
  BY <1>1, <1>3, <1>5 DEF TimerOK
<1>7. WakeOK'
  BY <1>1, <1>3, <1>4, <1>5 DEF WakeOK, NoLostWake, Delivering
<1>8. StateOK'
  <2>1. upgrades \in 0..MaxUpgrades /\ MaxUpgrades \in Nat
    BY <1>2, IndexConstants DEF StateOK
  <2>2. upgrades' \in 0..MaxUpgrades
    BY <1>1, <2>1
  <2>3. pending' \in Seq(Rekeyed(issued'))
    BY <1>1, EmptySeq
  <2>. QED
    BY <1>1, <1>2, <2>2, <2>3 DEF StateOK
<1>9. ProcsOK' /\ NetOK' /\ Stamped' /\ QueueIn(outbox', issued') /\ JournalIn(journal', issued')
  BY <1>1, <1>2 DEF ProcsOK, NetOK, Stamped
<1>. QED
  BY <1>1, <1>6, <1>7, <1>8, <1>9 DEF TInv

(* Nothing is queued or under way at the start.                             *)
LEMMA InitTInv ==
  ASSUME Init
  PROVE  TInv
<1>1. DOMAIN outbox = {} /\ DOMAIN journal = {}
  BY DEF Init, Empty
<1>2. IsFiniteSet({})
  BY FS_EmptySet
<1>3. QueueIn(outbox, issued) /\ JournalIn(journal, issued)
  BY <1>1, <1>2 DEF QueueIn, JournalIn
<1>4. StateOK
  <2>1. pending \in Seq(Rekeyed(issued))
    BY EmptySeq DEF Init
  <2>. QED
    BY <2>1, IndexConstants DEF StateOK, Init
<1>5. proc = [d \in Procs |-> Stopped(IF d = Timer THEN "idle" ELSE "new")]
  BY DEF Init
<1>6. ASSUME NEW d \in Procs PROVE WorkIn(d, proc[d], issued) /\ ~Active(proc[d]) /\ proc[d].src = "none"
  <2>1. PICK pc : pc = IF d = Timer THEN "idle" ELSE "new"
    OBVIOUS
  <2>2. pc \in IF d = Timer THEN {"idle", "catalog"} ELSE {"new", "done"}
    BY <2>1
  <2>3. proc[d] = Stopped(pc)
    BY <1>5, <2>1
  <2>4. WorkIn(d, Stopped(pc), issued) /\ Stopped(pc).pc = pc /\ Stopped(pc).src = "none"
    BY <2>2, StoppedIs
  <2>. QED
    BY <2>1, <2>3, <2>4 DEF Active
<1>7. ProcsOK
  <2>1. \A d \in Procs : proc[d] \in Drains(issued) /\ Told(proc[d], accepted)
    BY <1>6 DEF WorkIn, Told, Active
  <2>2. proc \in [Procs -> Drains(issued)]
    BY <1>5, <2>1
  <2>. QED
    BY <1>6, <2>1, <2>2 DEF ProcsOK
<1>8. NetOK
  <2>1. net = [t \in Kinds |-> <<>>]
    BY DEF Init
  <2>2. <<>> \in Seq(Procs)
    BY EmptySeq
  <2>3. net \in [Kinds -> Seq(Procs)] /\ \A t \in Kinds : Len(net[t]) = 0
    BY <2>1, <2>2
  <2>. QED
    BY <1>6, <2>3 DEF NetOK, Active
<1>9. Stamped
  BY DEF Stamped, Init
<1>10. proc[Timer].pc = "idle" /\ proc[Timer].src = "none"
  BY <1>5, ProcFacts DEF Stopped
<1>11. TimerOK
  <2>1. PICK m \in BOOLEAN : m <=> Moves > 0
    OBVIOUS
  <2>2. timer = [armed |-> m, running |-> FALSE, requested |-> FALSE]
    <3>1. m = (Moves > 0)
      BY <2>1
    <3>. QED
      BY <3>1 DEF Init
  <2>. QED
    BY <1>10, <2>2 DEF TimerOK
<1>12. WakeOK
  <2>1. ~Delivering(outbox, journal) /\ pending = <<>>
    BY <1>1 DEF Delivering, PendingRows, Init
  <2>. QED
    BY <1>10, <2>1 DEF WakeOK, NoLostWake
<1>. QED
  BY <1>3, <1>4, <1>7, <1>8, <1>9, <1>11, <1>12 DEF TInv

(* A stuttering step.                                                       *)
LEMMA StutterTInv ==
  ASSUME TInv, UNCHANGED vars
  PROVE  TInv'
BY DEF vars, TInv, StateOK, QueueIn, JournalIn, ProcsOK, NetOK, Stamped, TimerOK, WakeOK, NoLostWake,
       Delivering, PendingRows

(* Every step keeps the types, the requests and the wakes.                  *)
LEMMA NextTInv ==
  ASSUME TInv, [Next]_vars
  PROVE  TInv'
<1>1. ASSUME NEW c \in Calls, NEW P \in SUBSET (Postings \cap Touches[c]),
             NEW V \in SUBSET (Subjects \cap Touches[c]), Execute(c, P, V)
      PROVE  TInv'
  <2>1. P \in SUBSET Postings /\ V \in SUBSET Subjects
    OBVIOUS
  <2>. QED
    BY <1>1, <2>1, ExecuteKeeps
<1>2. ASSUME NEW c \in Calls, NEW P \in SUBSET (Postings \cap Touches[c]), ExecuteOrdered(c, P)
      PROVE  TInv'
  <2>1. P \in SUBSET Postings
    OBVIOUS
  <2>. QED
    BY <1>2, <2>1, ExecuteOrderedKeeps
<1>3. CASE (\E t \in Kinds : Receive(t) \/ ReceiveFault(t)) \/ ReceiveTerminal
  BY <1>3, AnAnswer
<1>4. ASSUME NEW d \in Procs,
             ReadPostings(d) \/ ReadVectors(d) \/ ReadFailure(d) \/ FlushFailure(d)
      PROVE  TInv'
  BY <1>4, ReadPostingsKeeps, ReadVectorsKeeps, ReadFailureKeeps, FlushFailureKeeps
<1>5. CASE Fire \/ CatalogFailed
  BY <1>5, PassKeeps
<1>6. CASE NothingMoves
  BY <1>6, NothingMovesKeeps
<1>7. ASSUME NEW p \in Postings, NEW q \in Postings, Move(p, q) PROVE TInv'
  BY <1>7, MoveKeeps
<1>8. CASE Upgrade
  BY <1>8, UpgradeKeeps
<1>9. CASE UNCHANGED vars
  BY <1>9, StutterTInv
<1>. QED
  BY <1>1, <1>2, <1>3, <1>4, <1>5, <1>6, <1>7, <1>8, <1>9 DEF Next

(* TInv holds throughout.                                                   *)
THEOREM DeliverySafety == Spec => []TInv
<1>1. Init => TInv
  BY InitTInv
<1>2. TInv /\ [Next]_vars => TInv'
  BY NextTInv
<1>. QED
  BY <1>1, <1>2, PTL DEF Spec

(* A reuse of a sequence happened or it did not, and it is not forgotten.   *)
LEMMA ReuseKept ==
  ASSUME reused \in BOOLEAN, [Next]_vars
  PROVE  reused' \in BOOLEAN /\ (reused => reused')
<1>1. CASE \E c \in Calls :
             \E P \in SUBSET (Postings \cap Touches[c]), V \in SUBSET (Subjects \cap Touches[c]) :
               Execute(c, P, V)
  <2>1. reused' = (reused \/ \E i \in DOMAIN outbox' \ DOMAIN outbox : InHand(i))
    BY <1>1 DEF Execute
  <2>. QED
    BY <2>1
<1>2. CASE \E c \in Calls : \E P \in SUBSET (Postings \cap Touches[c]) : ExecuteOrdered(c, P)
  BY <1>2 DEF ExecuteOrdered
<1>3. CASE (\E t \in Kinds : Receive(t) \/ ReceiveFault(t)) \/ ReceiveTerminal
  BY <1>3 DEF Receive, ReceiveFault, ReceiveTerminal, Answer
<1>4. CASE \E d \in Procs : ReadPostings(d) \/ ReadVectors(d) \/ ReadFailure(d) \/ FlushFailure(d)
  BY <1>4 DEF ReadPostings, ReadVectors, ReadFailure, FlushFailure, Continue
<1>5. CASE Fire \/ CatalogFailed \/ NothingMoves \/ (\E p, q \in Postings : Move(p, q)) \/ Upgrade
  BY <1>5 DEF Fire, CatalogFailed, NothingMoves, Move, Begin, Upgrade
<1>6. CASE UNCHANGED vars
  BY <1>6 DEF vars
<1>. QED
  BY <1>1, <1>2, <1>3, <1>4, <1>5, <1>6 DEF Next

(* So the flag is always set or clear.                                      *)
Known == reused \in BOOLEAN
LEMMA ReuseIsKnown == Spec => []Known
<1>1. Init => Known
  BY DEF Init, Known
<1>2. Known /\ [Next]_vars => Known'
  BY ReuseKept DEF Known
<1>. QED
  BY <1>1, <1>2, PTL DEF Spec

(* TInv implies the type invariant.                                         *)
LEMMA TInvTypes ==
  ASSUME TInv, reused \in BOOLEAN
  PROVE  TypeOK
<1>1. /\ StateOK /\ QueueIn(outbox, issued) /\ JournalIn(journal, issued) /\ ProcsOK /\ NetOK
      /\ Stamped /\ TimerOK
  BY DEF TInv
<1>2. GoodOps \subseteq Ops /\ issued \subseteq Ops
  BY <1>1 DEF GoodOps, StateOK
<1>3. ASSUME NEW q, QueueIn(q, issued) PROVE IsQueue(q)
  <2>1. ASSUME NEW i \in DOMAIN q
        PROVE  i \in Nat /\ q[i] \in [m : Calls \cup {0}, op : Ops, quarantined : BOOLEAN]
    <3>1. i \in Nat /\ q[i] \in Rows(issued)
      BY <1>3 DEF QueueIn
    <3>. QED
      BY <1>2, <3>1 DEF Rows
  <2>. QED
    BY <2>1 DEF IsQueue
<1>4. IsQueue(outbox) /\ IsQueue(journal)
  BY <1>1, <1>3 DEF JournalIn
<1>5. \A i \in 1..Len(pending) : pending[i] \in Ops
  <2>1. pending \in Seq(Rekeyed(issued)) /\ Rekeyed(issued) \subseteq Ops
    BY <1>1, <1>2 DEF StateOK, Rekeyed
  <2>. QED
    BY <2>1
<1>6. ASSUME NEW d \in Procs
      PROVE  /\ proc[d].pc \in {"new", "idle", "done", "catalog", "wait", "answered"}
             /\ proc[d].pc \in {"wait", "answered"} <=> proc[d].todo # <<>>
             /\ proc[d].pc = "wait" <=> \E t \in Kinds : d \in ToSet(net[t])
  <2>1. WorkIn(d, proc[d], issued)
    BY <1>1 DEF ProcsOK
  <2>2. /\ proc[d].pc \in {"new", "idle", "done", "catalog", "wait", "answered"}
        /\ proc[d].pc \in {"wait", "answered"} <=> proc[d].todo # <<>>
    BY <2>1 DEF WorkIn, Drains, Active
  <2>3. ASSUME NEW t \in Kinds, d \in ToSet(net[t]) PROVE proc[d].pc = "wait"
    <3>1. net[t] \in Seq(Procs)
      BY <1>1 DEF NetOK
    <3>2. PICK i \in 1..Len(net[t]) : d = net[t][i]
      BY <2>3, <3>1 DEF ToSet
    <3>. QED
      BY <1>1, <3>2 DEF NetOK
  <2>4. proc[d].pc = "wait" => \E t \in Kinds : d \in ToSet(net[t])
    BY <1>1 DEF NetOK
  <2>. QED
    BY <2>2, <2>3, <2>4
<1>. QED
  BY <1>1, <1>2, <1>4, <1>5, <1>6 DEF TypeOK, StateOK, Stamped, TimerOK

(* Queues hold rows, a waiting process has a request under way, and the     *)
(* scheduler runs exactly while its pass does, however drains overlap.      *)
THEOREM TypeCorrect == Spec => []TypeOK
<1>1. TInv /\ Known => TypeOK
  BY TInvTypes DEF Known
<1>. QED
  BY <1>1, DeliverySafety, ReuseIsKnown, PTL

(* Work in a queue always has an armed timer or a pass to deliver it:       *)
(* request_arm loses no request while a pass awaits an answer.              *)
THEOREM WakeKept == Spec => []NoLostWake
<1>1. TInv => NoLostWake
  BY DEF TInv, WakeOK
<1>. QED
  BY <1>1, DeliverySafety, PTL

------------------------------------------------------------------------------
(* Nothing is lost as long as no sequence is reused under a drain.          *)

(* A process that stands by keeps a true snapshot, if the rows of the       *)
(* outbox stay what they were and no new one has a sequence in its hands.   *)
LEMMA StandsBy ==
  ASSUME Snapshot, NEW e \in Procs, proc'[e] = proc[e],
         \A i \in DOMAIN outbox' : \/ i \in DOMAIN outbox /\ outbox'[i].op = outbox[i].op
                                   \/ ~InHand(i),
         e = Timer => \A i \in DOMAIN journal : i \in DOMAIN journal' /\ journal'[i] = journal[i]
  PROVE  SnapOK(e, proc'[e], outbox', journal')
<1>1. SnapOK(e, proc[e], outbox, journal)
  BY DEF Snapshot
<1>2. ASSUME proc[e].src = "outbox" PROVE Agrees(outbox', proc[e].todo)
  <2>1. ASSUME NEW i \in 1..Len(proc[e].todo), proc[e].todo[i].seq \in DOMAIN outbox'
        PROVE  outbox'[proc[e].todo[i].seq].op = proc[e].todo[i].row.op
    <3>1. PICK x : x = proc[e].todo[i].seq
      OBVIOUS
    <3>2. InHand(x)
      BY <1>2, <3>1 DEF InHand, SeqsOf
    <3>3. x \in DOMAIN outbox /\ outbox'[x].op = outbox[x].op
      BY <2>1, <3>1, <3>2
    <3>4. outbox[x].op = proc[e].todo[i].row.op
      BY <1>1, <1>2, <3>1, <3>3 DEF SnapOK, Agrees
    <3>. QED
      BY <3>1, <3>3, <3>4
  <2>. QED
    BY <2>1 DEF Agrees
<1>3. ASSUME proc[e].src = "journal"
      PROVE  e = Timer /\ Distinct(proc[e].todo) /\ Present(journal', proc[e].todo)
  <2>1. e = Timer /\ Distinct(proc[e].todo) /\ Present(journal, proc[e].todo)
    BY <1>1, <1>3 DEF SnapOK
  <2>. QED
    BY <2>1 DEF Present
<1>. QED
  BY <1>2, <1>3 DEF SnapOK

(* The snapshots after a step of d that takes no row of the journal from    *)
(* the timer.                                                               *)
LEMMA Bystanders ==
  ASSUME Snapshot, NEW d \in Procs, \A e \in Procs : e # d => proc'[e] = proc[e],
         \A i \in DOMAIN outbox' : \/ i \in DOMAIN outbox /\ outbox'[i].op = outbox[i].op
                                   \/ ~InHand(i),
         d # Timer => \A i \in DOMAIN journal : i \in DOMAIN journal' /\ journal'[i] = journal[i],
         SnapOK(d, proc'[d], outbox', journal')
  PROVE  Snapshot'
<1>1. ASSUME NEW e \in Procs PROVE SnapOK(e, proc'[e], outbox', journal')
  <2>1. CASE e = d
    BY <2>1
  <2>2. CASE e # d
    BY <2>2, StandsBy
  <2>. QED
    BY <2>1, <2>2
<1>. QED
  BY <1>1 DEF Snapshot

(* A snapshot that was just taken.                                          *)
LEMMA FreshSnapshot ==
  ASSUME NEW I, NEW ob, QueueIn(ob, I), NEW jr, QueueIn(jr, I), NEW d, NEW w,
         \/ w.src = "outbox" /\ w.todo = Peek(ob)
         \/ d = Timer /\ w.src = "journal" /\ w.todo = Peek(jr)
         \/ w.src \in {"none", "flush"}
  PROVE  SnapOK(d, w, ob, jr)
<1>1. SnapshotOf(I, ob, Peek(ob)) /\ SnapshotOf(I, jr, Peek(jr))
  BY PeekRows
<1>2. Agrees(ob, Peek(ob))
  BY <1>1 DEF SnapshotOf, Present, Agrees
<1>. QED
  BY <1>1, <1>2 DEF SnapOK, SnapshotOf

(* What is left of a snapshot is still true: in the journal, the rows that  *)
(* were taken are other rows.                                               *)
LEMMA ReadSnapshot ==
  ASSUME TInv, TInv', Snapshot, NEW d \in Procs, Answered(d), ReadStep(d)
  PROVE  SnapOK(d, proc'[d], outbox', journal')
<1>1. PICK k, n, rest, ob, jr, w :
        Took(d, k, n, rest, ob, jr) /\ Went(d, proc[d].src, rest, ob, jr, w)
  BY DEF ReadStep
<1>2. PICK src, full : src = proc[d].src /\ full = proc[d].todo
  OBVIOUS
<1>3. proc'[d] = w /\ outbox' = ob /\ journal' = jr /\ issued' = issued
  BY <1>1 DEF Went
<1>4. Resumed(issued, d, src, rest, ob, jr, pending, w)
  BY <1>1, <1>2 DEF Went
<1>5. full \in Seq(Entries(issued)) /\ src \in {"outbox", "journal", "flush"}
  BY <1>2, AnsweredIs
<1>6. QueueIn(ob, issued) /\ QueueIn(jr, issued)
  BY <1>3 DEF TInv, JournalIn
<1>7. /\ k \in Nat /\ n \in Nat /\ k <= n /\ SuffixOf(Entries(issued), full, n, rest)
  BY <1>1, <1>2 DEF Took
<1>8. SnapOK(d, proc[d], outbox, journal)
  BY DEF Snapshot
<1>9. CASE w.src = src /\ w.todo = rest
  <2>1. ASSUME NEW i \in 1..Len(rest)
        PROVE  n + i \in 1..Len(full) /\ rest[i] = full[n + i] /\ n + i > k
    <3>1. n + i \in 1..Len(full) /\ rest[i] = full[n + i]
      BY <1>7 DEF SuffixOf
    <3>2. i \in Nat /\ i > 0
      OBVIOUS
    <3>. QED
      BY <1>7, <3>1, <3>2
  <2>2. CASE src = "flush"
    BY <1>3, <1>9, <2>2 DEF SnapOK
  <2>3. CASE src = "outbox"
    <3>1. ASSUME NEW i \in 1..Len(rest), rest[i].seq \in DOMAIN ob
          PROVE  ob[rest[i].seq].op = rest[i].row.op
      <4>1. n + i \in 1..Len(full) /\ rest[i] = full[n + i]
        BY <2>1
      <4>2. rest[i].seq \in DOMAIN outbox /\ ob[rest[i].seq].op = outbox[rest[i].seq].op
        BY <1>1, <3>1 DEF Took
      <4>3. outbox[rest[i].seq].op = rest[i].row.op
        BY <1>2, <1>8, <2>3, <4>1, <4>2 DEF SnapOK, Agrees
      <4>. QED
        BY <4>2, <4>3
    <3>2. Agrees(ob, rest)
      BY <3>1 DEF Agrees
    <3>. QED
      BY <1>3, <1>9, <2>3, <3>2 DEF SnapOK
  <2>4. CASE src = "journal"
    <3>1. \A i, j \in 1..Len(full) : full[i].seq = full[j].seq => i = j
      BY <1>2, <1>8, <2>4 DEF SnapOK, Distinct
    <3>2. ASSUME NEW i \in 1..Len(rest), NEW j \in 1..Len(rest), rest[i].seq = rest[j].seq
          PROVE  i = j
      <4>1. n + i = n + j
        BY <2>1, <3>1, <3>2
      <4>2. i \in Nat /\ j \in Nat
        OBVIOUS
      <4>. QED
        BY <1>7, <4>1, <4>2
    <3>3. Distinct(rest)
      BY <3>2 DEF Distinct
    <3>4. \A j \in 1..k : j <= k /\ j \in Nat
      BY <1>7
    <3>5. ASSUME NEW i \in 1..Len(rest) PROVE \A j \in 1..Len(full) : j <= k => full[j].seq # rest[i].seq
      <4>1. n + i \in 1..Len(full) /\ rest[i] = full[n + i] /\ n + i > k
        BY <2>1
      <4>2. ASSUME NEW j \in 1..Len(full), j <= k, full[j].seq = rest[i].seq PROVE FALSE
        <5>1. j = n + i
          BY <3>1, <4>1, <4>2
        <5>. QED
          BY <1>7, <4>1, <4>2, <5>1
      <4>. QED
        BY <4>2
    <3>6. \A j \in 1..k : j \in 1..Len(full)
      <4>1. k <= Len(full)
        <5>1. k <= proc[d].applied /\ proc[d].applied <= BatchLen(full) /\ BatchOf(issued, full)
              /\ proc[d].applied \in Nat
          BY <1>1, <1>2, AnsweredIs DEF Took
        <5>2. PICK b \in Nat : b = BatchLen(full) /\ b <= Len(full)
          BY <5>1 DEF BatchOf
        <5>3. PICK a \in Nat : a = proc[d].applied
          BY <5>1
        <5>4. Len(full) \in Nat
          BY <1>5
        <5>. QED
          BY <1>7, <5>1, <5>2, <5>3, <5>4
      <4>2. Len(full) \in Nat
        BY <1>5
      <4>. QED
        BY <1>7, <4>1, <4>2
    <3>7. ASSUME NEW i \in 1..Len(rest), NEW j \in 1..k PROVE rest[i].seq # full[j].seq
      BY <3>4, <3>5, <3>6
    <3>8. ASSUME NEW i \in 1..Len(rest) PROVE rest[i].seq \in DOMAIN jr /\ jr[rest[i].seq] = rest[i].row
      <4>1. PICK x : x = rest[i].seq
        OBVIOUS
      <4>2. n + i \in 1..Len(full) /\ rest[i] = full[n + i]
        BY <2>1
      <4>3. x \in DOMAIN journal /\ journal[x] = rest[i].row
        BY <1>2, <1>8, <2>4, <4>1, <4>2 DEF SnapOK, Present
      <4>4. ~\E j \in 1..k : x = full[j].seq
        BY <3>7, <4>1
      <4>5. x \in DOMAIN jr /\ jr[x] = journal[x]
        BY <1>1, <1>2, <4>3, <4>4 DEF Took
      <4>. QED
        BY <4>1, <4>3, <4>5
    <3>9. Present(jr, rest)
      BY <3>8 DEF Present
    <3>. QED
      BY <1>2, <1>3, <1>8, <1>9, <2>4, <3>3, <3>9 DEF SnapOK
  <2>. QED
    BY <1>5, <2>2, <2>3, <2>4
<1>10. CASE (d = Timer /\ StageAfter(issued, src, ob, jr, pending, w)) \/ w.src = "none"
  <2>1. w.src \in {"none", "flush"} \/ (d = Timer /\ w.src = "journal" /\ w.todo = Peek(jr))
    BY <1>10 DEF StageAfter
  <2>2. SnapOK(d, w, ob, jr)
    BY <1>6, <2>1, FreshSnapshot
  <2>. QED
    BY <1>3, <2>2
<1>. QED
  BY <1>4, <1>9, <1>10 DEF Resumed

(* A row that was taken is one the target applied.                          *)
LEMMA TakenApplied ==
  ASSUME TInv, Snapshot, NEW d \in Procs, Answered(d), NEW k, NEW n, NEW rest, NEW ob, NEW jr,
         Took(d, k, n, rest, ob, jr), NEW i, NEW j \in 1..k, i = proc[d].todo[j].seq
  PROVE  /\ proc[d].src = "outbox" /\ i \in DOMAIN outbox => outbox[i].op \in accepted
         /\ proc[d].src = "journal" => journal[i].op \in accepted
<1>1. k \in Nat /\ k <= proc[d].applied
  BY DEF Took
<1>2. /\ proc[d].applied \in Nat /\ proc[d].applied <= BatchLen(proc[d].todo)
      /\ BatchOf(issued, proc[d].todo) /\ Told(proc[d], accepted)
  BY AnsweredIs
<1>3. PICK a \in Nat, b \in Nat, l \in Nat :
        a = proc[d].applied /\ b = BatchLen(proc[d].todo) /\ l = Len(proc[d].todo) /\ b <= l
  BY <1>2 DEF BatchOf
<1>4. j \in 1..a /\ j \in 1..l
  BY <1>1, <1>2, <1>3
<1>5. proc[d].todo[j].row.op \in accepted
  BY <1>2, <1>3, <1>4 DEF Told, Answered
<1>6. SnapOK(d, proc[d], outbox, journal)
  BY DEF Snapshot
<1>. QED
  BY <1>3, <1>4, <1>5, <1>6 DEF SnapOK, Present, Agrees

(* What a flush has not delivered stays in its hands.                       *)
LEMMA FlushRest ==
  ASSUME TInv, NEW d \in Procs, Answered(d), NEW k, NEW n, NEW rest, NEW ob, NEW jr, NEW w,
         Took(d, k, n, rest, ob, jr), Went(d, proc[d].src, rest, ob, jr, w),
         NEW o, Flushing(o, proc[d])
  PROVE  o \in accepted \/ Flushing(o, w)
<1>1. PICK full : full = proc[d].todo
  OBVIOUS
<1>2. PICK i \in 1..Len(full) : full[i].row.op = o
  BY <1>1 DEF Flushing
<1>3. proc[d].src = "flush"
  BY DEF Flushing
<1>4. k \in Nat /\ n = k /\ k <= proc[d].applied /\ SuffixOf(Entries(issued), full, k, rest)
  BY <1>1, <1>3 DEF Took
<1>5. proc[d].applied \in Nat /\ Told(proc[d], accepted) /\ full \in Seq(Entries(issued))
  BY <1>1, AnsweredIs
<1>6. i \in Nat
  BY <1>5
<1>7. CASE i <= k
  <2>1. i \in 1..proc[d].applied
    BY <1>2, <1>4, <1>5, <1>6, <1>7
  <2>2. full[i].row.op \in accepted
    BY <1>1, <1>5, <2>1 DEF Told, Answered
  <2>. QED
    BY <1>2, <2>2
<1>8. CASE i > k
  <2>1. PICK h \in 1..Len(rest) : i = k + h
    BY <1>4, <1>8 DEF SuffixOf
  <2>2. rest[h] = full[i] /\ rest \in Seq(Entries(issued))
    BY <1>4, <2>1 DEF SuffixOf
  <2>3. rest # <<>>
    BY <2>1, <2>2
  <2>4. MaySend("flush", rest, ob)
    BY <2>3 DEF MaySend
  <2>5. w.src = "flush" /\ w.todo = rest
    BY <1>3, <2>4 DEF Went, Resumed
  <2>. QED
    BY <1>2, <2>1, <2>2, <2>5 DEF Flushing
<1>. QED
  BY <1>4, <1>6, <1>7, <1>8

(* Reading an answer loses nothing.                                         *)
LEMMA ReadKept ==
  ASSUME TInv, Snapshot, NEW d \in Procs, Answered(d), ReadStep(d), upgrades' = upgrades
  PROVE  (CallsKept => CallsKept') /\ (Kept => Kept')
<1>1. PICK k, n, rest, ob, jr, w :
        Took(d, k, n, rest, ob, jr) /\ Went(d, proc[d].src, rest, ob, jr, w)
  BY DEF ReadStep
<1>2. /\ proc'[d] = w /\ outbox' = ob /\ journal' = jr /\ issued' = issued /\ accepted' = accepted
      /\ \A e \in Procs : e # d => proc'[e] = proc[e]
  BY <1>1 DEF Went
<1>3. ASSUME NEW i \in DOMAIN outbox
      PROVE  \/ i \in DOMAIN ob /\ ob[i].op = outbox[i].op /\ ob[i].m = outbox[i].m
             \/ outbox[i].op \in accepted
  <2>1. CASE proc[d].src = "outbox" /\ \E j \in 1..k : i = proc[d].todo[j].seq
    <3>1. PICK j \in 1..k : i = proc[d].todo[j].seq
      BY <2>1
    <3>. QED
      BY <1>1, <1>3, <2>1, <3>1, TakenApplied
  <2>. QED
    BY <1>1, <2>1 DEF Took
<1>4. ASSUME NEW i \in DOMAIN journal
      PROVE  \/ i \in DOMAIN jr /\ jr[i] = journal[i]
             \/ journal[i].op \in accepted
  <2>1. CASE proc[d].src = "journal" /\ \E j \in 1..k : i = proc[d].todo[j].seq
    <3>1. PICK j \in 1..k : i = proc[d].todo[j].seq
      BY <2>1
    <3>. QED
      BY <1>1, <2>1, <3>1, TakenApplied
  <2>. QED
    BY <1>1, <2>1 DEF Took
<1>5. ASSUME NEW e \in Procs, NEW o, Flushing(o, proc[e]) PROVE o \in accepted \/ Flushing(o, proc'[e])
  <2>1. CASE e = d
    BY <1>1, <1>2, <1>5, <2>1, FlushRest
  <2>2. CASE e # d
    BY <1>2, <1>5, <2>2
  <2>. QED
    BY <2>1, <2>2
<1>6. ASSUME CallsKept PROVE CallsKept'
  <2>1. ASSUME NEW o \in issued, o.by \in Calls
        PROVE  o \in accepted \/ InRow(ob, o, o.by) \/ InRow(jr, o, o.by) \/ Flushing(o, proc'[o.by])
    <3>1. o \in accepted \/ InRow(outbox, o, o.by) \/ InRow(journal, o, o.by) \/ Flushing(o, proc[o.by])
      BY <1>6, <2>1 DEF CallsKept
    <3>2. InRow(outbox, o, o.by) => o \in accepted \/ InRow(ob, o, o.by)
      BY <1>3 DEF InRow
    <3>3. InRow(journal, o, o.by) => o \in accepted \/ InRow(jr, o, o.by)
      BY <1>4 DEF InRow
    <3>4. Flushing(o, proc[o.by]) => o \in accepted \/ Flushing(o, proc'[o.by])
      BY <1>5, <2>1, ProcFacts
    <3>. QED
      BY <3>1, <3>2, <3>3, <3>4
  <2>. QED
    BY <1>2, <2>1 DEF CallsKept
<1>7. ASSUME Kept PROVE Kept'
  <2>1. ASSUME NEW o \in issued PROVE o \in accepted \/ Somewhere(o)' \/ Forgotten(o)'
    <3>1. CASE InQueue(outbox, o)
      BY <1>2, <1>3, <3>1 DEF InQueue, Somewhere
    <3>2. CASE InQueue(journal, o)
      BY <1>2, <1>4, <3>2 DEF InQueue, Somewhere
    <3>3. CASE \E i \in 1..Len(pending) : pending[i] = o
      <4>1. CASE pending' = pending
        BY <3>3, <4>1 DEF Somewhere
      <4>2. CASE pending' # pending
        <5>1. w.src = "flush" /\ proc[d].src # "flush"
          BY <1>1, <4>2 DEF Went
        <5>2. StageAfter(issued, proc[d].src, ob, jr, pending, w)
          BY <1>1, <5>1 DEF Went, Resumed
        <5>3. w.pc \in {"idle", "wait"} /\ w.todo = Volatile(0, pending)
          BY <5>1, <5>2 DEF StageAfter
        <5>4. PICK z \in Calls \cup {0} : z = 0
          OBVIOUS
        <5>5. pending \in Seq(issued)
          <6>1. pending \in Seq(Rekeyed(issued)) /\ Rekeyed(issued) \subseteq issued
            BY DEF TInv, StateOK, Rekeyed
          <6>. QED
            BY <6>1, SeqMonotonic
        <5>6. PICK v : v = Volatile(z, pending)
          OBVIOUS
        <5>7. FlushOf(issued, z, pending, v)
          BY <5>5, <5>6, VolatileEntries
        <5>8. PICK i \in 1..Len(pending) : pending[i] = o
          BY <3>3
        <5>9. v[i].row.op = o /\ i \in 1..Len(v)
          BY <5>7, <5>8 DEF FlushOf
        <5>10. Flushing(o, w)
          BY <5>1, <5>3, <5>4, <5>6, <5>9 DEF Flushing
        <5>11. Flushing(o, proc'[d])
          BY <1>2, <5>10
        <5>. QED
          BY <5>11 DEF Somewhere
      <4>. QED
        BY <4>1, <4>2
    <3>4. CASE \E e \in Procs : Flushing(o, proc[e])
      BY <1>5, <3>4 DEF Somewhere
    <3>5. CASE Forgotten(o)
      BY <3>5 DEF Forgotten
    <3>. QED
      BY <1>7, <3>1, <3>2, <3>3, <3>4, <3>5 DEF Kept, Somewhere
  <2>. QED
    BY <1>2, <2>1 DEF Kept
<1>. QED
  BY <1>6, <1>7

(* The snapshots after a drain read an answer.                              *)
LEMMA ReadSnapshots ==
  ASSUME TInv, TInv', Snapshot, NEW d \in Procs, Answered(d), ReadStep(d)
  PROVE  Snapshot'
<1>1. PICK k, n, rest, ob, jr, w :
        Took(d, k, n, rest, ob, jr) /\ Went(d, proc[d].src, rest, ob, jr, w)
  BY DEF ReadStep
<1>2. outbox' = ob /\ journal' = jr /\ \A e \in Procs : e # d => proc'[e] = proc[e]
  BY <1>1 DEF Went
<1>3. \A i \in DOMAIN ob : i \in DOMAIN outbox /\ ob[i].op = outbox[i].op
  BY <1>1 DEF Took
<1>4. ASSUME d # Timer, NEW i \in DOMAIN journal PROVE i \in DOMAIN jr /\ jr[i] = journal[i]
  <2>1. proc[d].src # "journal"
    BY <1>4 DEF Snapshot, SnapOK
  <2>. QED
    BY <1>1, <1>4, <2>1 DEF Took
<1>5. SnapOK(d, proc'[d], outbox', journal')
  BY ReadSnapshot
<1>. QED
  BY <1>2, <1>3, <1>4, <1>5, Bystanders

(* A failed flush loses nothing: what it held is journaled.                 *)
LEMMA SpillKept ==
  ASSUME TInv, TInv', Held, NEW d \in Procs, NEW m, NEW ops, Spilled(d, m, ops), upgrades' = upgrades
  PROVE  Held'
<1>1. /\ Answered(d) /\ proc[d].src = "flush" /\ \A e \in Procs : e # d => proc'[e] = proc[e]
      /\ outbox' = outbox /\ pending' = pending /\ issued' = issued /\ accepted' = accepted
  BY DEF Spilled
<1>2. GrownBy(issued, journal, m, ops, journal')
  BY DEF Spilled
<1>3. \A i \in DOMAIN journal : i \in DOMAIN journal' /\ journal'[i] = journal[i]
  BY <1>2 DEF GrownBy
<1>4. proc'[d].src = "none" \/ (d = Timer /\ proc'[d].src = "journal" /\ proc'[d].todo = Peek(journal'))
  BY DEF Spilled
<1>5. QueueIn(outbox', issued') /\ QueueIn(journal', issued')
  BY DEF TInv, JournalIn
<1>6. SnapOK(d, proc'[d], outbox', journal')
  <2>1. PICK w, ob, jr, I : w = proc'[d] /\ ob = outbox' /\ jr = journal' /\ I = issued'
    OBVIOUS
  <2>2. SnapOK(d, w, ob, jr)
    BY <1>4, <1>5, <2>1, FreshSnapshot
  <2>. QED
    BY <2>1, <2>2
<1>7. Snapshot'
  BY <1>1, <1>3, <1>6, Bystanders DEF Held
<1>8. \A o, x : InRow(journal, o, x) => InRow(journal', o, x)
  BY <1>2 DEF GrownBy, InRow
<1>9. ASSUME NEW o, Flushing(o, proc[d]) PROVE InRow(journal', o, m)
  <2>1. PICK i \in 1..Len(proc[d].todo) : proc[d].todo[i].row.op = o
    BY <1>9 DEF Flushing
  <2>2. i \in 1..Len(ops) /\ ops[i] = o
    BY <2>1 DEF Spilled
  <2>3. PICK x \in DOMAIN journal' : journal'[x] = Row(m, ops[i])
    BY <1>2, <2>2 DEF GrownBy
  <2>. QED
    BY <2>2, <2>3 DEF InRow, Row
<1>10. d \in Calls => m = d
  <2>1. WorkIn(d, proc[d], issued) /\ proc[d].todo # <<>> /\ proc[d].todo \in Seq(Entries(issued))
    BY <1>1, AnsweredIs
  <2>2. 1 \in 1..Len(proc[d].todo)
    BY <2>1
  <2>3. d \in Calls => Under(d, proc[d].todo)
    BY <1>1, <2>1 DEF WorkIn
  <2>. QED
    BY <2>2, <2>3 DEF Under, Spilled
<1>11. CallsKept'
  <2>1. ASSUME NEW o \in issued, o.by \in Calls
        PROVE  \/ o \in accepted \/ InRow(outbox, o, o.by) \/ InRow(journal', o, o.by)
               \/ Flushing(o, proc'[o.by])
    <3>1. o \in accepted \/ InRow(outbox, o, o.by) \/ InRow(journal, o, o.by) \/ Flushing(o, proc[o.by])
      BY <2>1 DEF Held, CallsKept
    <3>2. ASSUME Flushing(o, proc[o.by]) PROVE InRow(journal', o, o.by) \/ Flushing(o, proc'[o.by])
      <4>1. CASE o.by = d
        BY <1>9, <1>10, <2>1, <3>2, <4>1
      <4>2. CASE o.by # d
        BY <1>1, <2>1, <3>2, <4>2, ProcFacts
      <4>. QED
        BY <4>1, <4>2
    <3>. QED
      BY <1>8, <3>1, <3>2
  <2>. QED
    BY <1>1, <2>1 DEF CallsKept
<1>12. Kept'
  <2>1. ASSUME NEW o \in issued PROVE o \in accepted \/ Somewhere(o)' \/ Forgotten(o)'
    <3>1. o \in accepted \/ Somewhere(o) \/ Forgotten(o)
      BY <2>1 DEF Held, Kept
    <3>2. \A x : InRow(journal', o, x) => InQueue(journal', o)
      BY DEF InRow, InQueue
    <3>3. InQueue(journal, o) => InQueue(journal', o)
      BY <1>2 DEF GrownBy, InQueue
    <3>4. ASSUME NEW e \in Procs, Flushing(o, proc[e])
          PROVE  InQueue(journal', o) \/ \E f \in Procs : Flushing(o, proc'[f])
      <4>1. CASE e = d
        BY <1>9, <3>2, <3>4, <4>1
      <4>2. CASE e # d
        BY <1>1, <3>4, <4>2
      <4>. QED
        BY <4>1, <4>2
    <3>. QED
      BY <1>1, <3>1, <3>3, <3>4 DEF Somewhere, Forgotten
  <2>. QED
    BY <1>1, <2>1 DEF Kept
<1>. QED
  BY <1>7, <1>11, <1>12 DEF Held

(* A process that is in no drain has nothing in hand.                       *)
LEMMA IdleHolds ==
  ASSUME TInv, NEW d \in Procs, proc[d].pc \notin {"wait", "answered"}
  PROVE  proc[d].src = "none" /\ \A o : ~Flushing(o, proc[d])
<1>1. WorkIn(d, proc[d], issued)
  BY DEF TInv, ProcsOK
<1>2. proc[d].src = "none"
  BY <1>1 DEF WorkIn, Active
<1>. QED
  BY <1>2 DEF Flushing

(* A plan execution puts all it issued in the outbox under its id.          *)
LEMMA ExecuteKept ==
  ASSUME TInv, TInv', Held, NEW c \in Calls, NEW P, NEW V, NEW s, NEW ops,
         Executed(c, P, V, s, ops), upgrades' = upgrades,
         \A i \in DOMAIN outbox' : i \in DOMAIN outbox \/ ~InHand(i)
  PROVE  Held'
<1>1. /\ proc[c].pc = "new" /\ Issues(c, P, V, s, ops) /\ GrownBy(issued', outbox, c, ops, outbox')
      /\ proc'[c].src = "outbox" /\ proc'[c].todo = Peek(outbox')
      /\ \A e \in Procs : e # c => proc'[e] = proc[e]
      /\ pending' = <<>> /\ journal' = journal /\ accepted' = accepted
  BY DEF Executed
<1>2. c \in Procs
  BY ProcFacts
<1>3. QueueIn(outbox', issued') /\ QueueIn(journal', issued')
  BY DEF TInv, JournalIn
<1>4. SnapOK(c, proc'[c], outbox', journal')
  <2>1. PICK w, ob, jr, I : w = proc'[c] /\ ob = outbox' /\ jr = journal' /\ I = issued'
    OBVIOUS
  <2>2. SnapOK(c, w, ob, jr)
    BY <1>1, <1>3, <2>1, FreshSnapshot
  <2>. QED
    BY <2>1, <2>2
<1>5. Snapshot'
  <2>1. \A i \in DOMAIN outbox : i \in DOMAIN outbox' /\ outbox'[i] = outbox[i]
    BY <1>1 DEF GrownBy
  <2>2. \A i \in DOMAIN outbox' :
          \/ i \in DOMAIN outbox /\ outbox'[i].op = outbox[i].op
          \/ ~InHand(i)
    BY <2>1
  <2>. QED
    BY <1>1, <1>2, <1>4, <2>2, Bystanders DEF Held
<1>6. ASSUME NEW i \in 1..Len(ops) PROVE InRow(outbox', ops[i], c)
  <2>1. PICK x \in DOMAIN outbox' : outbox'[x] = Row(c, ops[i])
    BY <1>1 DEF GrownBy
  <2>. QED
    BY <2>1 DEF InRow, Row
<1>7. \A o, x : InRow(outbox, o, x) => InRow(outbox', o, x)
  BY <1>1 DEF GrownBy, InRow
<1>8. ASSUME NEW e \in Procs, NEW o, Flushing(o, proc[e]) PROVE Flushing(o, proc'[e])
  <2>1. e # c
    BY <1>1, <1>2, <1>8, IdleHolds
  <2>. QED
    BY <1>1, <1>8, <2>1
<1>9. ASSUME NEW o \in issued', o \notin issued PROVE o.by = c /\ InRow(outbox', o, c)
  <2>1. PICK j \in 1..Len(s) : o = s[j]
    BY <1>1, <1>9 DEF Issues
  <2>2. s[j] \in Written(c, P, V)
    BY <1>1, <2>1 DEF Issues
  <2>3. PICK i \in 1..Len(ops) : ops[i] = s[j]
    BY <1>1, <2>1 DEF Issues
  <2>. QED
    BY <1>6, <2>1, <2>2, <2>3 DEF Written
<1>10. CallsKept'
  <2>1. ASSUME NEW o \in issued', o.by \in Calls
        PROVE  \/ o \in accepted \/ InRow(outbox', o, o.by) \/ InRow(journal, o, o.by)
               \/ Flushing(o, proc'[o.by])
    <3>1. CASE o \in issued
      <4>1. \/ o \in accepted \/ InRow(outbox, o, o.by) \/ InRow(journal, o, o.by)
            \/ Flushing(o, proc[o.by])
        BY <2>1, <3>1 DEF Held, CallsKept
      <4>2. Flushing(o, proc[o.by]) => Flushing(o, proc'[o.by])
        BY <1>8, <2>1, ProcFacts
      <4>. QED
        BY <1>7, <4>1, <4>2
    <3>2. CASE o \notin issued
      BY <1>9, <3>2
    <3>. QED
      BY <3>1, <3>2
  <2>. QED
    BY <1>1, <2>1 DEF CallsKept
<1>11. Kept'
  <2>1. ASSUME NEW o \in issued' PROVE o \in accepted \/ Somewhere(o)' \/ Forgotten(o)'
    <3>1. \A x : InRow(outbox', o, x) => InQueue(outbox', o)
      BY DEF InRow, InQueue
    <3>2. CASE o \notin issued
      BY <1>9, <3>1, <3>2 DEF Somewhere
    <3>3. CASE o \in issued
      <4>1. o \in accepted \/ Somewhere(o) \/ Forgotten(o)
        BY <3>3 DEF Held, Kept
      <4>2. InQueue(outbox, o) => InQueue(outbox', o)
        BY <1>1 DEF GrownBy, InQueue
      <4>3. ASSUME NEW j \in 1..Len(pending), pending[j] = o PROVE InQueue(outbox', o)
        <5>1. PICK i \in 1..Len(ops) : ops[i] = pending[j]
          BY <1>1 DEF Issues
        <5>. QED
          BY <1>6, <3>1, <4>3, <5>1
      <4>. QED
        BY <1>1, <1>8, <4>1, <4>2, <4>3 DEF Somewhere, Forgotten
    <3>. QED
      BY <3>2, <3>3
  <2>. QED
    BY <1>1, <2>1 DEF Kept
<1>. QED
  BY <1>5, <1>10, <1>11 DEF Held

(* An ordered batch has all it issued in hand.                              *)
LEMMA OrderedKept ==
  ASSUME TInv, TInv', Held, NEW c \in Calls, NEW P, NEW s, NEW ops,
         OrderedExecuted(c, P, s, ops), upgrades' = upgrades
  PROVE  Held'
<1>1. /\ proc[c].pc = "new" /\ Issues(c, P, {}, s, ops) /\ FlushOf(issued', c, ops, proc'[c].todo)
      /\ proc'[c].src = "flush" /\ \A e \in Procs : e # c => proc'[e] = proc[e]
      /\ pending' = <<>> /\ outbox' = outbox /\ journal' = journal /\ accepted' = accepted
  BY DEF OrderedExecuted
<1>2. c \in Procs
  BY ProcFacts
<1>3. SnapOK(c, proc'[c], outbox', journal')
  BY <1>1 DEF SnapOK
<1>4. Snapshot'
  BY <1>1, <1>2, <1>3, Bystanders DEF Held
<1>5. ASSUME NEW i \in 1..Len(ops) PROVE Flushing(ops[i], proc'[c])
  <2>1. i \in 1..Len(proc'[c].todo) /\ proc'[c].todo[i].row.op = ops[i]
    BY <1>1 DEF FlushOf
  <2>. QED
    BY <1>1, <2>1 DEF Flushing
<1>6. ASSUME NEW e \in Procs, NEW o, Flushing(o, proc[e]) PROVE Flushing(o, proc'[e])
  <2>1. e # c
    BY <1>1, <1>2, <1>6, IdleHolds
  <2>. QED
    BY <1>1, <1>6, <2>1
<1>7. ASSUME NEW o \in issued', o \notin issued PROVE o.by = c /\ Flushing(o, proc'[c])
  <2>1. PICK j \in 1..Len(s) : o = s[j]
    BY <1>1, <1>7 DEF Issues
  <2>2. s[j] \in Written(c, P, {})
    BY <1>1, <2>1 DEF Issues
  <2>3. PICK i \in 1..Len(ops) : ops[i] = s[j]
    BY <1>1, <2>1 DEF Issues
  <2>. QED
    BY <1>5, <2>1, <2>2, <2>3 DEF Written
<1>8. CallsKept'
  <2>1. ASSUME NEW o \in issued', o.by \in Calls
        PROVE  \/ o \in accepted \/ InRow(outbox, o, o.by) \/ InRow(journal, o, o.by)
               \/ Flushing(o, proc'[o.by])
    <3>1. CASE o \in issued
      <4>1. \/ o \in accepted \/ InRow(outbox, o, o.by) \/ InRow(journal, o, o.by)
            \/ Flushing(o, proc[o.by])
        BY <2>1, <3>1 DEF Held, CallsKept
      <4>2. Flushing(o, proc[o.by]) => Flushing(o, proc'[o.by])
        BY <1>6, <2>1, ProcFacts
      <4>. QED
        BY <4>1, <4>2
    <3>2. CASE o \notin issued
      BY <1>7, <3>2
    <3>. QED
      BY <3>1, <3>2
  <2>. QED
    BY <1>1, <2>1 DEF CallsKept
<1>9. Kept'
  <2>1. ASSUME NEW o \in issued' PROVE o \in accepted \/ Somewhere(o)' \/ Forgotten(o)'
    <3>1. CASE o \notin issued
      BY <1>2, <1>7, <3>1 DEF Somewhere
    <3>2. CASE o \in issued
      <4>1. o \in accepted \/ Somewhere(o) \/ Forgotten(o)
        BY <3>2 DEF Held, Kept
      <4>2. ASSUME NEW j \in 1..Len(pending), pending[j] = o PROVE Flushing(o, proc'[c])
        <5>1. PICK i \in 1..Len(ops) : ops[i] = pending[j]
          BY <1>1 DEF Issues
        <5>. QED
          BY <1>5, <4>2, <5>1
      <4>. QED
        BY <1>1, <1>2, <1>6, <4>1, <4>2 DEF Somewhere, Forgotten
    <3>. QED
      BY <3>1, <3>2
  <2>. QED
    BY <1>1, <2>1 DEF Kept
<1>. QED
  BY <1>4, <1>8, <1>9 DEF Held

(* The pass takes over what the heap held.                                  *)
LEMMA BeganKept ==
  ASSUME TInv, TInv', Held, NEW pd, Began(pd), pd \in Seq(Rekeyed(issued')), issued \subseteq issued',
         \A o \in issued' : o \in issued \/ o.by \notin Calls,
         \A o \in issued' : o \in issued \/ \E i \in 1..Len(pd) : pd[i] = o,
         \A j \in 1..Len(pending) : \E i \in 1..Len(pd) : pd[i] = pending[j],
         upgrades' = upgrades
  PROVE  Held'
<1>1. PICK w : w = proc'[Timer]
  OBVIOUS
<1>2. /\ FirstOf(issued', outbox, journal, pd, journal', w)
      /\ \A e \in Procs : e # Timer => proc'[e] = proc[e]
      /\ pending' = (IF w.src \in {"journal", "flush"} THEN <<>> ELSE pd)
      /\ outbox' = outbox /\ accepted' = accepted /\ proc[Timer].pc = "catalog"
  BY <1>1 DEF Began
<1>3. Timer \in Procs
  BY ProcFacts
<1>4. QueueIn(outbox', issued') /\ QueueIn(journal', issued')
  BY DEF TInv, JournalIn
<1>5. SnapOK(Timer, proc'[Timer], outbox', journal')
  <2>1. \/ w.src = "outbox" /\ w.todo = Peek(outbox)
        \/ w.src = "journal" /\ w.todo = Peek(journal')
        \/ w.src \in {"none", "flush"}
    BY <1>2 DEF FirstOf
  <2>2. PICK ob, jr, I : ob = outbox' /\ jr = journal' /\ I = issued'
    OBVIOUS
  <2>3. SnapOK(Timer, w, ob, jr)
    BY <1>2, <1>4, <2>1, <2>2, FreshSnapshot
  <2>. QED
    BY <1>1, <2>2, <2>3
<1>6. Snapshot'
  BY <1>2, <1>3, <1>5, Bystanders DEF Held
<1>7. \A o, x : InRow(journal, o, x) => InRow(journal', o, x)
  BY <1>2 DEF FirstOf, InRow
<1>8. \A o : InQueue(journal, o) => InQueue(journal', o)
  BY <1>2 DEF FirstOf, InQueue
<1>9. ASSUME NEW e \in Procs, NEW o, Flushing(o, proc[e]) PROVE Flushing(o, proc'[e])
  <2>1. e # Timer
    BY <1>2, <1>3, <1>9, IdleHolds
  <2>. QED
    BY <1>2, <1>9, <2>1
<1>10. CallsKept'
  <2>1. ASSUME NEW o \in issued', o.by \in Calls
        PROVE  \/ o \in accepted \/ InRow(outbox, o, o.by) \/ InRow(journal', o, o.by)
               \/ Flushing(o, proc'[o.by])
    <3>1. o \in issued
      BY <2>1
    <3>2. \/ o \in accepted \/ InRow(outbox, o, o.by) \/ InRow(journal, o, o.by)
          \/ Flushing(o, proc[o.by])
      BY <2>1, <3>1 DEF Held, CallsKept
    <3>3. Flushing(o, proc[o.by]) => Flushing(o, proc'[o.by])
      BY <1>9, <2>1, ProcFacts
    <3>. QED
      BY <1>7, <3>2, <3>3
  <2>. QED
    BY <1>2, <2>1 DEF CallsKept
<1>11. ASSUME NEW i \in 1..Len(pd) PROVE Somewhere(pd[i])'
  <2>1. CASE w.src = "flush"
    <3>1. w.todo = Volatile(0, pd)
      BY <1>2, <2>1 DEF FirstOf
    <3>2. PICK z \in Calls \cup {0} : z = 0
      OBVIOUS
    <3>3. pd \in Seq(issued')
      <4>1. Rekeyed(issued') \subseteq issued'
        BY DEF Rekeyed
      <4>. QED
        BY <4>1, SeqMonotonic
    <3>4. PICK v : v = Volatile(z, pd)
      OBVIOUS
    <3>5. FlushOf(issued', z, pd, v)
      BY <3>3, <3>4, VolatileEntries
    <3>6. v[i].row.op = pd[i] /\ i \in 1..Len(v)
      BY <3>5 DEF FlushOf
    <3>7. Flushing(pd[i], proc'[Timer])
      BY <1>1, <2>1, <3>1, <3>2, <3>4, <3>6 DEF Flushing
    <3>. QED
      BY <1>3, <3>7 DEF Somewhere
  <2>2. CASE w.src = "journal"
    <3>1. PICK x \in DOMAIN journal' : journal'[x] = Row(0, pd[i])
      BY <1>2, <2>2 DEF FirstOf
    <3>2. InQueue(journal', pd[i])
      BY <3>1 DEF InQueue, Row
    <3>. QED
      BY <3>2 DEF Somewhere
  <2>3. CASE w.src \notin {"journal", "flush"}
    BY <1>2, <2>3 DEF Somewhere
  <2>. QED
    BY <2>1, <2>2, <2>3
<1>12. Kept'
  <2>1. ASSUME NEW o \in issued' PROVE o \in accepted \/ Somewhere(o)' \/ Forgotten(o)'
    <3>1. CASE o \notin issued
      BY <1>11, <3>1
    <3>2. CASE o \in issued
      <4>1. o \in accepted \/ Somewhere(o) \/ Forgotten(o)
        BY <3>2 DEF Held, Kept
      <4>2. ASSUME NEW j \in 1..Len(pending), pending[j] = o PROVE Somewhere(o)'
        BY <1>11, <4>2
      <4>3. InQueue(outbox, o) \/ InQueue(journal, o) => Somewhere(o)'
        BY <1>2, <1>8 DEF Somewhere
      <4>4. (\E e \in Procs : Flushing(o, proc[e])) => Somewhere(o)'
        BY <1>9 DEF Somewhere
      <4>5. Somewhere(o) => Somewhere(o)'
        BY <4>2, <4>3, <4>4 DEF Somewhere
      <4>. QED
        BY <4>1, <4>5 DEF Forgotten
    <3>. QED
      BY <3>1, <3>2
  <2>. QED
    BY <1>2, <2>1 DEF Kept
<1>. QED
  BY <1>6, <1>10, <1>12 DEF Held

(* A step that changes no queue and gives no process other work.            *)
LEMMA SameWork ==
  ASSUME TInv, TInv', Held, NEW d \in Procs,
         \A e \in Procs : e # d => proc'[e] = proc[e],
         (proc'[d].src = proc[d].src /\ proc'[d].todo = proc[d].todo)
           \/ (proc[d].src = "none" /\ proc'[d].src = "none"),
         outbox' = outbox, journal' = journal, pending' = pending, issued' = issued,
         accepted \subseteq accepted', upgrades' = upgrades
  PROVE  Held'
<1>1. SnapOK(d, proc[d], outbox, journal)
  BY DEF Held, Snapshot
<1>2. SnapOK(d, proc'[d], outbox', journal')
  BY <1>1 DEF SnapOK
<1>3. Snapshot'
  BY <1>2, Bystanders DEF Held
<1>4. ASSUME NEW e \in Procs, NEW o, Flushing(o, proc[e]) PROVE Flushing(o, proc'[e])
  <2>1. CASE e = d
    BY <1>4, <2>1 DEF Flushing
  <2>2. CASE e # d
    BY <1>4, <2>2
  <2>. QED
    BY <2>1, <2>2
<1>5. CallsKept'
  <2>1. ASSUME NEW o \in issued, o.by \in Calls
        PROVE  \/ o \in accepted' \/ InRow(outbox, o, o.by) \/ InRow(journal, o, o.by)
               \/ Flushing(o, proc'[o.by])
    <3>1. \/ o \in accepted \/ InRow(outbox, o, o.by) \/ InRow(journal, o, o.by)
          \/ Flushing(o, proc[o.by])
      BY <2>1 DEF Held, CallsKept
    <3>2. Flushing(o, proc[o.by]) => Flushing(o, proc'[o.by])
      BY <1>4, <2>1, ProcFacts
    <3>. QED
      BY <3>1, <3>2
  <2>. QED
    BY <2>1 DEF CallsKept
<1>6. Kept'
  <2>1. ASSUME NEW o \in issued PROVE o \in accepted' \/ Somewhere(o)' \/ Forgotten(o)'
    <3>1. o \in accepted \/ Somewhere(o) \/ Forgotten(o)
      BY <2>1 DEF Held, Kept
    <3>2. Somewhere(o) => Somewhere(o)'
      BY <1>4 DEF Somewhere
    <3>. QED
      BY <3>1, <3>2 DEF Forgotten
  <2>. QED
    BY <2>1 DEF Kept
<1>. QED
  BY <1>3, <1>5, <1>6 DEF Held

(* An upgrade: only the heap's re-keyed postings are lost.                  *)
LEMMA UpgradeKept ==
  ASSUME TInv, Held, Upgrade
  PROVE  Held'
<1>1. /\ upgrades' = upgrades + 1 /\ outbox' = outbox /\ journal' = journal /\ proc' = proc
      /\ accepted' = accepted /\ issued' = issued
  BY DEF Upgrade, targetVars
<1>2. Snapshot'
  BY <1>1 DEF Held, Snapshot
<1>3. CallsKept'
  BY <1>1 DEF Held, CallsKept
<1>4. upgrades' # 0
  <2>1. upgrades \in 0..MaxUpgrades /\ MaxUpgrades \in Nat
    BY IndexConstants DEF TInv, StateOK
  <2>. QED
    BY <1>1, <2>1
<1>5. Kept'
  <2>1. ASSUME NEW o \in issued PROVE o \in accepted \/ Somewhere(o)' \/ Forgotten(o)'
    <3>1. o \in accepted \/ Somewhere(o) \/ Forgotten(o)
      BY DEF Held, Kept
    <3>2. ASSUME NEW i \in 1..Len(pending), pending[i] = o PROVE Forgotten(o)'
      <4>1. pending \in Seq(Rekeyed(issued))
        BY DEF TInv, StateOK
      <4>2. o \in Rekeyed(issued)
        BY <3>2, <4>1
      <4>. QED
        BY <1>4, <4>2 DEF Rekeyed, Forgotten
    <3>3. Forgotten(o) => Forgotten(o)'
      BY <1>4 DEF Forgotten
    <3>. QED
      BY <1>1, <3>1, <3>2, <3>3 DEF Somewhere
  <2>. QED
    BY <1>1, <2>1 DEF Kept
<1>. QED
  BY <1>2, <1>3, <1>5 DEF Held

(* Nothing is issued and nobody drains at the start.                        *)
LEMMA InitKInv ==
  ASSUME Init
  PROVE  KInv
<1>1. ASSUME NEW d \in Procs PROVE proc[d].src = "none"
  <2>1. proc[d] = Stopped(IF d = Timer THEN "idle" ELSE "new")
    BY DEF Init
  <2>. QED
    BY <2>1 DEF Stopped
<1>2. issued = {}
  BY DEF Init
<1>. QED
  BY <1>1, <1>2 DEF KInv, Held, Snapshot, SnapOK, CallsKept, Kept

(* A stuttering step.                                                       *)
LEMMA StutterHeld ==
  ASSUME Held, UNCHANGED vars
  PROVE  Held'
<1>1. /\ outbox' = outbox /\ journal' = journal /\ proc' = proc /\ pending' = pending
      /\ accepted' = accepted /\ issued' = issued /\ upgrades' = upgrades
  BY DEF vars
<1>2. Snapshot' /\ CallsKept'
  BY <1>1 DEF Held, Snapshot, CallsKept
<1>3. Kept'
  BY <1>1 DEF Held, Kept, Somewhere, Forgotten
<1>. QED
  BY <1>2, <1>3 DEF Held

(* Every step keeps the snapshots true and loses nothing.                   *)
LEMMA NextHeld ==
  ASSUME TInv, Held, [Next]_vars, ~reused'
  PROVE  Held'
<1>1. ASSUME NEW c \in Calls, NEW P \in SUBSET (Postings \cap Touches[c]),
             NEW V \in SUBSET (Subjects \cap Touches[c]), Execute(c, P, V)
      PROVE  Held'
  <2>1. P \in SUBSET Postings /\ V \in SUBSET Subjects
    OBVIOUS
  <2>2. TInv' /\ \E s, ops : Executed(c, P, V, s, ops)
    BY <1>1, <2>1, ExecuteKeeps
  <2>3. upgrades' = upgrades /\ \A i \in DOMAIN outbox' : i \in DOMAIN outbox \/ ~InHand(i)
    <3>1. upgrades' = upgrades
      BY <1>1 DEF Execute, Write
    <3>2. reused' = (reused \/ \E i \in DOMAIN outbox' \ DOMAIN outbox : InHand(i))
      BY <1>1 DEF Execute
    <3>. QED
      BY <3>1, <3>2
  <2>. QED
    BY <2>2, <2>3, ExecuteKept
<1>2. ASSUME NEW c \in Calls, NEW P \in SUBSET (Postings \cap Touches[c]), ExecuteOrdered(c, P)
      PROVE  Held'
  <2>1. P \in SUBSET Postings
    OBVIOUS
  <2>2. TInv' /\ \E s, ops : OrderedExecuted(c, P, s, ops)
    BY <1>2, <2>1, ExecuteOrderedKeeps
  <2>3. upgrades' = upgrades
    BY <1>2 DEF ExecuteOrdered, Write
  <2>. QED
    BY <2>2, <2>3, OrderedKept
<1>3. CASE (\E t \in Kinds : Receive(t) \/ ReceiveFault(t)) \/ ReceiveTerminal
  <2>1. PICK t \in Kinds, k \in Nat, outcome \in {"progress", "terminal", "error"}, d \in Procs :
          /\ Answer(t, k, outcome) /\ proc[d].pc = "wait" /\ proc'[d] = Reply(proc[d], k, outcome)
          /\ \A e \in Procs : e # d => proc'[e] = proc[e]
    BY <1>3, AnAnswer
  <2>2. TInv' /\ accepted \subseteq accepted'
    BY <1>3, AnAnswer
  <2>3. outbox' = outbox /\ journal' = journal /\ pending' = pending /\ issued' = issued
        /\ upgrades' = upgrades
    BY <2>1 DEF Answer, queueVars
  <2>4. proc'[d].src = proc[d].src /\ proc'[d].todo = proc[d].todo
    BY <2>1 DEF Reply
  <2>5. \A e \in Procs : e # d => proc'[e] = proc[e]
    BY <2>1
  <2>. QED
    BY <2>2, <2>3, <2>4, <2>5, SameWork
<1>4. ASSUME NEW d \in Procs, ReadPostings(d) \/ ReadVectors(d) \/ ReadFailure(d) PROVE Held'
  <2>1. TInv' /\ ReadStep(d)
    BY <1>4, ReadPostingsKeeps, ReadVectorsKeeps, ReadFailureKeeps
  <2>2. Answered(d) /\ upgrades' = upgrades
    BY <1>4 DEF ReadPostings, ReadVectors, ReadFailure, Continue
  <2>3. Snapshot'
    BY <2>1, <2>2, ReadSnapshots DEF Held
  <2>4. CallsKept' /\ Kept'
    BY <2>1, <2>2, ReadKept DEF Held
  <2>. QED
    BY <2>3, <2>4 DEF Held
<1>5. ASSUME NEW d \in Procs, FlushFailure(d) PROVE Held'
  <2>1. upgrades' = upgrades
    BY <1>5 DEF FlushFailure
  <2>. QED
    BY <1>5, <2>1, FlushFailureKeeps, SpillKept
<1>6. CASE Fire \/ CatalogFailed
  <2>1. /\ TInv' /\ proc'[Timer] \in {Stopped("catalog"), Stopped("idle")}
        /\ \A e \in Procs : e # Timer => proc'[e] = proc[e]
    BY <1>6, PassKeeps
  <2>2. outbox' = outbox /\ journal' = journal /\ pending' = pending /\ issued' = issued
        /\ accepted \subseteq accepted' /\ upgrades' = upgrades
    BY <1>6 DEF Fire, CatalogFailed, queueVars, targetVars
  <2>3. proc'[Timer].src = "none" /\ Timer \in Procs
    BY <2>1, ProcFacts DEF Stopped
  <2>4. proc[Timer].pc \notin {"wait", "answered"}
    BY <1>6 DEF Fire, CatalogFailed, TInv, TimerOK
  <2>5. proc[Timer].src = "none"
    BY <2>3, <2>4, IdleHolds
  <2>. QED
    BY <2>1, <2>2, <2>3, <2>5, SameWork
<1>7. CASE NothingMoves
  <2>1. TInv' /\ issued' = issued /\ Began(pending)
    BY <1>7, NothingMovesKeeps
  <2>2. PICK pd : pd = pending
    OBVIOUS
  <2>3. pd \in Seq(Rekeyed(issued')) /\ Began(pd)
    BY <2>1, <2>2 DEF TInv, StateOK
  <2>4. upgrades' = upgrades
    BY <1>7 DEF NothingMoves, Begin
  <2>. QED
    BY <2>1, <2>2, <2>3, <2>4, BeganKept
<1>8. ASSUME NEW p \in Postings, NEW q \in Postings, Move(p, q) PROVE Held'
  <2>1. TInv' /\ issued \subseteq issued'
    BY <1>8, MoveKeeps
  <2>2. PICK ops : /\ \A o \in issued' : o \in issued \/ \E i \in 1..Len(ops) : o = ops[i]
                   /\ ops \in Seq(Rekeyed(issued')) /\ pending \in Seq(Rekeyed(issued'))
                   /\ Began(pending \o ops)
    BY <1>8, MoveKeeps
  <2>3. PICK pd : pd = pending \o ops
    OBVIOUS
  <2>4. PICK k \in Nat, n \in Nat : k = Len(pending) /\ n = Len(ops)
    BY <2>2
  <2>5. /\ pd \in Seq(Rekeyed(issued')) /\ Len(pd) = k + n
        /\ \A i \in 1..(k + n) : pd[i] = IF i <= k THEN pending[i] ELSE ops[i - k]
    BY <2>2, <2>3, <2>4, ConcatProperties
  <2>6. \A j \in 1..k : j \in 1..(k + n) /\ j <= k
    OBVIOUS
  <2>7. \A j \in 1..n : j + k \in 1..(k + n) /\ ~(j + k <= k) /\ (j + k) - k = j
    OBVIOUS
  <2>8. \A j \in 1..Len(pending) : \E i \in 1..Len(pd) : pd[i] = pending[j]
    BY <2>4, <2>5, <2>6
  <2>9. \A j \in 1..Len(ops) : \E i \in 1..Len(pd) : pd[i] = ops[j]
    BY <2>4, <2>5, <2>7
  <2>10. \A o \in issued' : o \in issued \/ \E i \in 1..Len(pd) : pd[i] = o
    BY <2>2, <2>9
  <2>11. \A o \in issued' : o \in issued \/ o.by \notin Calls
    BY <2>2 DEF Rekeyed
  <2>12. upgrades' = upgrades
    BY <1>8 DEF Move, Begin
  <2>. QED
    BY <2>1, <2>2, <2>3, <2>5, <2>8, <2>10, <2>11, <2>12, BeganKept
<1>9. CASE Upgrade
  BY <1>9, UpgradeKept
<1>10. CASE UNCHANGED vars
  BY <1>10, StutterHeld
<1>. QED
  BY <1>1, <1>2, <1>3, <1>4, <1>5, <1>6, <1>7, <1>8, <1>9, <1>10 DEF Next

(* A drain acknowledges only what the target took, and nothing is lost, for *)
(* as long as no sequence was given out while a drain held it.              *)
THEOREM KeptSafety == Spec => []KInv
<1>1. Init => KInv
  BY InitKInv
<1>2. TInv /\ Known /\ KInv /\ [Next]_vars => KInv'
  BY NextHeld, ReuseKept DEF KInv, Known
<1>. QED
  BY <1>1, <1>2, DeliverySafety, ReuseIsKnown, PTL DEF Spec

------------------------------------------------------------------------------
(* What the shard promises.                                                 *)

(* A call that returned delivered everything its mutation issued once no    *)
(* row of the mutation is left.                                             *)
LEMMA BarrierFollows ==
  ASSUME TInv, KInv
  PROVE  IndexBarrier
<1>1. ASSUME ~reused, NEW c \in Calls, proc[c].pc = "done", \A m \in Floor \ {0} : c < m,
             NEW o \in issued, o.by = c
      PROVE  o \in accepted
  <2>1. c \in Nat \ {0} /\ c \in Procs
    BY IndexConstants DEF Procs
  <2>2. \A x : ~Flushing(x, proc[c])
    BY <1>1, <2>1, IdleHolds
  <2>3. c \notin Floor
    BY <1>1, <2>1
  <2>4. ~InRow(outbox, o, c) /\ ~InRow(journal, o, c)
    BY <2>3 DEF InRow, Floor
  <2>. QED
    BY <1>1, <2>2, <2>4 DEF KInv, Held, CallsKept
<1>. QED
  BY <1>1 DEF IndexBarrier

(* The read barrier of ADR 0031: the Router may read the index at a floor,  *)
(* the oldest mutation id a queue still holds, as if every call below it    *)
(* had been applied, unless a drain acknowledged by a reused sequence.      *)
THEOREM BarrierHolds == Spec => []IndexBarrier
<1>1. TInv /\ KInv => IndexBarrier
  BY BarrierFollows
<1>. QED
  BY <1>1, DeliverySafety, KeptSafety, PTL

(* Every place an operation may wait in is one of those NothingLost names.  *)
LEMMA KeptFollows ==
  ASSUME TInv, KInv
  PROVE  NothingLost
<1>1. ASSUME ~reused, NEW o \in issued, o \notin accepted PROVE o \in HeldBack \/ o \in HeapLost
  <2>1. Somewhere(o) \/ Forgotten(o)
    BY <1>1 DEF KInv, Held, Kept
  <2>2. CASE InQueue(outbox, o) \/ InQueue(journal, o)
    BY <2>2 DEF InQueue, HeldBack, RowOps
  <2>3. CASE \E i \in 1..Len(pending) : pending[i] = o
    <3>1. pending \in Seq(Rekeyed(issued))
      BY DEF TInv, StateOK
    <3>2. o \in ToSet(pending)
      BY <2>3, <3>1 DEF ToSet
    <3>. QED
      BY <3>2 DEF HeldBack
  <2>4. CASE \E d \in Procs : Flushing(o, proc[d])
    <3>1. PICK d \in Procs : Flushing(o, proc[d])
      BY <2>4
    <3>2. o \in InFlight
      BY <3>1 DEF Flushing, InFlight
    <3>. QED
      BY <3>2 DEF HeldBack
  <2>5. CASE Forgotten(o)
    <3>1. o \in Ops /\ o.by \notin Calls /\ upgrades # 0
      BY <2>5 DEF Forgotten, TInv, StateOK, GoodOps
    <3>2. o.by \in -Moves .. -1
      BY <3>1 DEF Ops
    <3>3. upgrades \in 0..MaxUpgrades /\ MaxUpgrades \in Nat /\ Moves \in Nat
      BY IndexConstants DEF TInv, StateOK
    <3>4. o.by < 0 /\ upgrades > 0
      BY <3>1, <3>2, <3>3
    <3>. QED
      BY <3>4 DEF HeapLost
  <2>. QED
    BY <2>1, <2>2, <2>3, <2>4, <2>5 DEF Somewhere
<1>. QED
  BY <1>1 DEF NothingLost

(* Nothing the shard committed to deliver is dropped, however drains        *)
(* overlap: a row leaves its queue only after the target applied its        *)
(* operation.  The two exceptions are in the statement: a sequence given    *)
(* out again while a drain held it, and what compaction had on the heap     *)
(* when the canister was upgraded.                                          *)
THEOREM NothingIsLost == Spec => []NothingLost
<1>1. TInv /\ KInv => NothingLost
  BY KeptFollows
<1>. QED
  BY <1>1, DeliverySafety, KeptSafety, PTL

(* Vector work waits in the outbox alone, and what was applied is stamped.  *)
LEMMA VectorsFollow ==
  ASSUME TInv, KInv
  PROVE  NewestVectorKept
<1>1. ASSUME ~reused, NEW o \in issued, o.kind = "vector" PROVE o \in accepted \/ o \in RowOps(outbox)
  <2>1. o.by \in Calls
    BY <1>1 DEF TInv, StateOK, GoodOps
  <2>2. ~InRow(journal, o, o.by)
    BY <1>1 DEF TInv, JournalIn, InRow
  <2>3. ~Flushing(o, proc[o.by])
    <3>1. PICK c \in Procs : c = o.by
      BY <2>1 DEF Procs
    <3>2. WorkIn(c, proc[c], issued)
      BY DEF TInv, ProcsOK
    <3>3. proc[c].src = "flush" => AllPostings(proc[c].todo)
      BY <3>2 DEF WorkIn
    <3>. QED
      BY <1>1, <3>1, <3>3 DEF Flushing, AllPostings, KindOf
  <2>4. InRow(outbox, o, o.by) => o \in RowOps(outbox)
    BY DEF InRow, RowOps
  <2>. QED
    BY <1>1, <2>1, <2>2, <2>3, <2>4 DEF KInv, Held, CallsKept
<1>. QED
  BY <1>1 DEF NewestVectorKept, TInv, Stamped

(* The newest vector of a subject is applied or still in the outbox, with   *)
(* postings beside it and however drains overlap, until a sequence in a     *)
(* drain's hands is reused.                                                 *)
THEOREM NewestVectorStays == Spec => []NewestVectorKept
<1>1. TInv /\ KInv => NewestVectorKept
  BY VectorsFollow
<1>. QED
  BY <1>1, DeliverySafety, KeptSafety, PTL
=============================================================================
