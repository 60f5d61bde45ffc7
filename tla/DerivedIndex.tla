----------------------------- MODULE DerivedIndex -----------------------------
(***************************************************************************)
(* How a graph shard delivers index work to the graph-index canister and   *)
(* to the vector canister (ADR 0023, ADR 0029, ADR 0031).                  *)
(*                                                                         *)
(* A plan execution appends the operations of its mutation to the durable  *)
(* outbox and drains the outbox before it answers.  An ordered batch sends *)
(* its operations directly and journals what it could not deliver.  The    *)
(* maintenance timer compacts edges, which re-keys their postings, and     *)
(* drains whatever is left.  Every drain works on a snapshot of its queue, *)
(* one request at a time; any number of drains may be waiting at once.     *)
(* Requests to one canister arrive in the order they were sent; answers    *)
(* come in any order.                                                      *)
(*                                                                         *)
(* Call c executes the mutation with id c.  The timer is process 0.        *)
(***************************************************************************)
EXTENDS Integers, FiniteSets, FiniteSetsExt, SequencesExt

CONSTANTS
  Calls,      \* mutation ids
  Ordered,    \* the calls that are ordered batches
  Postings,   \* postings of the property index
  Subjects,   \* subjects of the vector index
  Touches,    \* the postings and subjects each call may write
  Fit,        \* operations that fit one request
  Moves,      \* edge spans in the maintenance queue at the start
  Budget,     \* the index may run out of instructions inside a batch
  Pressure,   \* the vector canister may refuse a row for good
  MaxUpgrades, MaxFaults

ASSUME IndexConstants ==
  /\ Calls \subseteq Nat \ {0} /\ Ordered \subseteq Calls
  /\ Touches \in [Calls -> SUBSET (Postings \cup Subjects)]
  /\ IsFiniteSet(Postings \cup Subjects)
  /\ Fit \in Nat \ {0} /\ Moves \in Nat
  /\ {Budget, Pressure} \subseteq BOOLEAN
  /\ MaxUpgrades \in Nat /\ MaxFaults \in Nat

VARIABLES
  canon,     \* shard: postings the canonical store calls for
  moves,     \* shard: edge spans still in the maintenance queue
  pending,   \* shard heap: operations not handed to a queue yet
  outbox,    \* shard: DERIVED_INDEX_OUTBOX, by sequence
  journal,   \* shard: INDEX_REPAIR_JOURNAL, by sequence
  proc,      \* shard heap: the drain each call and the timer is in
  timer,     \* shard heap: MAINTENANCE_SCHEDULER
  net,       \* network: whose request is under way to which canister
  index,     \* graph-index: its postings
  vindex,    \* vector canister: the stamp of each subject
  issued,    \* history: operations the shard committed to deliver
  accepted,  \* history: operations a target applied
  reused,    \* history: a sequence was given out while a drain held it
  faults, upgrades

vars == <<canon, moves, pending, outbox, journal, proc, timer, net, index,
          vindex, issued, accepted, reused, faults, upgrades>>
queueVars == <<pending, outbox, journal>>
targetVars == <<index, vindex, accepted>>

------------------------------------------------------------------------------
(* Operations, queues and drains.                                           *)

Timer == 0
Procs == Calls \cup {Timer}
Kinds == {"posting", "vector"}

(* RepairPostingOp.  The author of a re-keyed posting is the move, a        *)
(* negative number; a vector operation is stamped with its mutation id.     *)
Ops == [by : Calls \cup (-Moves .. -1), kind : Kinds,
        item : Postings \cup Subjects, remove : BOOLEAN]
PostingOp(c, p, gone) == [by |-> c, kind |-> "posting", item |-> p, remove |-> gone]
VectorOp(c, s) == [by |-> c, kind |-> "vector", item |-> s, remove |-> FALSE]

(* An update removes the postings it found before it adds the new ones, and *)
(* vector work follows the property work.                                   *)
WriteOps(c, P, V) ==
  LET gone == SetToSeq(P \cap canon)
      new == SetToSeq(P \ canon)
      vec == SetToSeq(V)
  IN  [i \in 1..Len(gone) |-> PostingOp(c, gone[i], TRUE)] \o
      [i \in 1..Len(new) |-> PostingOp(c, new[i], FALSE)] \o
      [i \in 1..Len(vec) |-> VectorOp(c, vec[i])]

Row(m, op) == [m |-> m, op |-> op, quarantined |-> FALSE]
Empty == [i \in {} |-> {}]
NextSeq(q) == IF DOMAIN q = {} THEN 0 ELSE Max(DOMAIN q) + 1

(* append_prepared: sequences follow the last one in the map.               *)
Appended(q, m, ops) ==
  LET first == NextSeq(q)
      new == first .. (first + Len(ops) - 1)
  IN  [i \in DOMAIN q \cup new |->
         IF i \in new THEN Row(m, ops[i - first + 1]) ELSE q[i]]

PendingRows(q) == {i \in DOMAIN q : ~q[i].quarantined}
Ranked(S, i) == CHOOSE x \in S : Cardinality({y \in S : y < x}) = i - 1
Peek(q) ==
  [i \in 1..Cardinality(PendingRows(q)) |->
     LET at == Ranked(PendingRows(q), i) IN [seq |-> at, row |-> q[at]]]

(* derived_index_outbox_remove: whatever row the sequences name now.        *)
Removed(q, seqs) == [i \in DOMAIN q \ seqs |-> q[i]]
SeqsOf(entries) == {entries[i].seq : i \in 1..Len(entries)}

(* One drain: the queue it drains and what is left of its snapshot.  A      *)
(* flush of volatile work has no rows behind its entries.                   *)
Stopped(pc) == [pc |-> pc, src |-> "none", todo |-> <<>>,
                applied |-> 0, outcome |-> "none"]
Work(src, todo) == [Stopped("wait") EXCEPT !.src = src, !.todo = todo]
(* Mutant: a flush forgets whose operations it carries.                     *)
Volatile_Anonymous(m, ops) == [i \in 1..Len(ops) |-> [seq |-> 0, row |-> Row(0, ops[i])]]

Volatile(m, ops) == [i \in 1..Len(ops) |-> [seq |-> 0, row |-> Row(m, ops[i])]]

KindOf(entry) == entry.row.op.kind
Group(todo) ==
  SelectInSeq(todo, LAMBDA e : KindOf(e) # KindOf(todo[1]))
GroupLen(todo) == IF Group(todo) = 0 THEN Len(todo) ELSE Group(todo) - 1
BatchLen(todo) == Min({Fit, GroupLen(todo)})
Batch(todo) == SubSeq(todo, 1, BatchLen(todo))
Drop(todo, k) == SubSeq(todo, k + 1, Len(todo))

(* A vector batch of the outbox must still be the head of the outbox.       *)
SameHead(q, batch) ==
  LET head == Peek(q)
  IN  /\ Len(head) >= Len(batch)
      /\ \A i \in 1..Len(batch) : head[i].seq = batch[i].seq
MaySend(src, todo, ob) ==
  /\ todo # <<>>
  /\ src = "outbox" /\ KindOf(todo[1]) = "vector" => SameHead(ob, Batch(todo))

------------------------------------------------------------------------------
(* What a pass of the timer does next: flush_and_repair.                    *)

JournalStage(jr) ==
  IF DOMAIN jr = {} THEN Stopped("idle") ELSE Work("journal", Peek(jr))
FlushStage(jr, pd) ==
  IF DOMAIN jr = {} /\ pd # <<>> THEN Work("flush", Volatile(0, pd))
                                 ELSE JournalStage(jr)
OutboxStage(ob, jr, pd) ==
  IF PendingRows(ob) # {} THEN Stopped("idle") ELSE FlushStage(jr, pd)
FirstStage(ob, jr, pd) ==
  IF DOMAIN jr # {} THEN Work("journal", Peek(Appended(jr, 0, pd)))
  ELSE IF PendingRows(ob) # {} THEN Work("outbox", Peek(ob))
  ELSE FlushStage(jr, pd)
NextStage(src, ob, jr, pd) ==
  CASE src = "outbox" -> OutboxStage(ob, jr, pd)
    [] src = "flush" -> JournalStage(jr)
    [] OTHER -> Stopped("idle")

Resume(d, src, todo, ob, jr, pd) ==
  IF MaySend(src, todo, ob) THEN Work(src, todo)
  ELSE IF d = Timer THEN NextStage(src, ob, jr, pd)
  ELSE Stopped("done")

(* The process goes on with w: it sends the first batch of w, or ends.      *)
Proceed(d, w) ==
  /\ proc' = [proc EXCEPT ![d] = w]
  /\ net' = IF w.pc = "wait"
            THEN [net EXCEPT ![KindOf(w.todo[1])] = Append(@, d)]
            ELSE net

Delivering(ob, jr) == DOMAIN jr # {} \/ PendingRows(ob) # {}

(* request_arm, called with work in a queue.                                *)
Armed(t) == IF t.running THEN [t EXCEPT !.requested = TRUE]
                         ELSE [t EXCEPT !.armed = TRUE]
(* finish_pass, with the delay run_maintenance_pass computed.               *)
Finished(t, more) ==
  [armed |-> t.requested \/ more, running |-> FALSE, requested |-> FALSE]
(* Mutant: only the maintenance queue keeps the timer going.                *)
AfterPass_ReportOnly(t, w, ob, jr) ==
  IF w.pc = "idle" THEN Finished(t, moves' > 0) ELSE t

(* What a slice of the pass leaves: the pass ends when w does.              *)
AfterPass(t, w, ob, jr) ==
  IF w.pc = "idle" THEN Finished(t, moves' > 0 \/ Delivering(ob, jr)) ELSE t

Quiet == \A d \in Procs : proc[d].pc \in {"new", "idle", "done"}

Init ==
  /\ canon = {} /\ moves = Moves /\ pending = <<>>
  /\ outbox = Empty /\ journal = Empty
  /\ proc = [d \in Procs |-> Stopped(IF d = Timer THEN "idle" ELSE "new")]
  /\ timer = [armed |-> Moves > 0, running |-> FALSE, requested |-> FALSE]
  /\ net = [t \in Kinds |-> <<>>]
  /\ index = {} /\ vindex = [s \in Subjects |-> 0]
  /\ issued = {} /\ accepted = {} /\ reused = FALSE
  /\ faults = 0 /\ upgrades = 0

------------------------------------------------------------------------------
(* Client calls.                                                            *)

Write(c, P, V) ==
  /\ proc[c].pc = "new"
  /\ P \cup V # {}
  /\ canon' = SymDiff(canon, P)
  /\ issued' = issued \cup ToSet(WriteOps(c, P, V))
  /\ UNCHANGED <<moves, targetVars, faults, upgrades>>

(* A drain of the outbox still has the sequence in its snapshot.            *)
InHand(i) == \E d \in Procs : proc[d].src = "outbox" /\ i \in SeqsOf(proc[d].todo)

(* execute_plan: every volatile operation goes to the outbox under this     *)
(* mutation, the timer is armed and the outbox drained.                     *)
Execute(c, P, V) ==
  /\ c \notin Ordered
  /\ Write(c, P, V)
  /\ outbox' = Appended(outbox, c, pending \o WriteOps(c, P, V))
  /\ pending' = <<>>
  /\ timer' = Armed(timer)
  /\ Proceed(c, Work("outbox", Peek(outbox')))
  /\ reused' = (reused \/ \E i \in DOMAIN outbox' \ DOMAIN outbox : InHand(i))
  /\ UNCHANGED journal

(* An ordered batch adds edges and flushes what is pending.                 *)
ExecuteOrdered(c, P) ==
  /\ c \in Ordered
  /\ P \cap canon = {}
  /\ Write(c, P, {})
  /\ Proceed(c, Work("flush", Volatile(c, pending \o WriteOps(c, P, {}))))
  /\ pending' = <<>>
  /\ UNCHANGED <<outbox, journal, timer, reused>>

------------------------------------------------------------------------------
(* The targets.                                                             *)

Applied(batch, k) == {batch[i].row.op : i \in 1..k}

(* Where the first k operations of a batch write a posting.                 *)
On(batch, k, p) ==
  {i \in 1..k : KindOf(batch[i]) = "posting" /\ batch[i].row.op.item = p}

(* The canister applies the first k operations of the batch in turn: the    *)
(* last one on a posting counts.                                            *)
Apply(batch, k) ==
  /\ index' = {p \in Postings :
                 IF On(batch, k, p) = {} THEN p \in index
                 ELSE ~batch[Max(On(batch, k, p))].row.op.remove}
  /\ vindex' = [s \in Subjects |->
                  Max({vindex[s]} \cup
                      {o.by : o \in {a \in Applied(batch, k) :
                                       a.kind = "vector" /\ a.item = s}})]
  /\ accepted' = accepted \cup Applied(batch, k)

Answer(t, k, outcome) ==
  LET d == Head(net[t])
  IN  /\ net' = [net EXCEPT ![t] = Tail(@)]
      /\ proc' = [proc EXCEPT ![d].pc = "answered", ![d].applied = k,
                              ![d].outcome = outcome]
      /\ Apply(Batch(proc[d].todo), k)
      /\ UNCHANGED <<canon, moves, queueVars, timer, issued, reused, upgrades>>

Receive(t) ==
  /\ net[t] # <<>>
  /\ LET n == BatchLen(proc[Head(net[t])].todo)
     IN  \E k \in 1..n : (k = n \/ Budget) /\ Answer(t, k, "progress")
  /\ UNCHANGED faults

(* Table pressure: a row the vector canister will never take.               *)
ReceiveTerminal ==
  /\ Pressure /\ net["vector"] # <<>>
  /\ LET d == Head(net["vector"])
     IN  \E k \in 0..(BatchLen(proc[d].todo) - 1) : Answer("vector", k, "terminal")
  /\ UNCHANGED faults

(* The call fails: before, during or after the target did its work.         *)
ReceiveFault(t) ==
  /\ net[t] # <<>> /\ faults < MaxFaults
  /\ faults' = faults + 1
  /\ \E k \in 0..BatchLen(proc[Head(net[t])].todo) : Answer(t, k, "error")

------------------------------------------------------------------------------
(* A drain reads an answer.                                                 *)

(* A complete property batch ends its group, whatever did not fit it; a     *)
(* flush goes on with the next chunk.                                       *)
LeftOver(src, todo, k) ==
  IF KindOf(todo[1]) = "posting" /\ src # "flush" /\ k = BatchLen(todo)
  THEN Drop(todo, GroupLen(todo)) ELSE Drop(todo, k)

(* plan_vector_outcome: the submitted rows are still the pending prefix.    *)
SamePrefix(q, batch) ==
  /\ Cardinality(PendingRows(q)) >= Len(batch)
  /\ SubSeq(Peek(q), 1, Len(batch)) = batch

Continue(d, src, todo, ob, jr, pd) ==
  LET w == Resume(d, src, todo, ob, jr, pd)
  IN  /\ UNCHANGED <<canon, moves, targetVars, issued, reused, faults, upgrades>>
      /\ Proceed(d, w)
      /\ outbox' = ob /\ journal' = jr
      /\ pending' = IF w.src = "flush" /\ src # "flush" THEN <<>> ELSE pd
      /\ timer' = IF d = Timer THEN AfterPass(timer, w, ob, jr) ELSE timer

Answered(d) == proc[d].pc = "answered"

(* Mutant: the whole request is acknowledged, applied or not.               *)
ReadPostings_AckBatch(d) ==
  LET r == proc[d]  gone == SeqsOf(Batch(r.todo))
  IN  /\ Answered(d) /\ r.outcome = "progress"
      /\ KindOf(r.todo[1]) = "posting"
      /\ Continue(d, r.src, Drop(r.todo, BatchLen(r.todo)),
                  IF r.src = "outbox" THEN Removed(outbox, gone) ELSE outbox,
                  IF r.src = "journal" THEN Removed(journal, gone) ELSE journal,
                  pending)

(* Entries the target took leave the queue.                                 *)
ReadPostings(d) ==
  LET r == proc[d]  gone == SeqsOf(SubSeq(r.todo, 1, r.applied))
  IN  /\ Answered(d) /\ r.outcome = "progress"
      /\ KindOf(r.todo[1]) = "posting"
      /\ Continue(d, r.src, LeftOver(r.src, r.todo, r.applied),
                  IF r.src = "outbox" THEN Removed(outbox, gone) ELSE outbox,
                  IF r.src = "journal" THEN Removed(journal, gone) ELSE journal,
                  pending)

(* Mutant: a refused row is forgotten.                                      *)
Quarantine_Drop(q, i) == Removed(q, {i})

Quarantine(q, i) == [q EXCEPT ![i].quarantined = TRUE]

(* derived_index_outbox_apply_vector_outcome.                               *)
ReadVectors(d) ==
  LET r == proc[d]
      batch == Batch(r.todo)
      ob == Removed(outbox, SeqsOf(SubSeq(batch, 1, r.applied)))
  IN  /\ Answered(d) /\ r.outcome # "error"
      /\ KindOf(r.todo[1]) = "vector"
      /\ IF ~SamePrefix(outbox, batch)
         THEN Continue(d, r.src, <<>>, outbox, journal, pending)
         ELSE IF r.outcome = "progress"
         THEN Continue(d, r.src, Drop(r.todo, r.applied), ob, journal, pending)
         ELSE Continue(d, r.src, Drop(r.todo, GroupLen(r.todo)),
                       Quarantine(ob, batch[r.applied + 1].seq), journal, pending)

(* A drain stops and leaves its rows.                                       *)
ReadFailure(d) ==
  /\ Answered(d) /\ proc[d].outcome = "error" /\ proc[d].src # "flush"
  /\ Continue(d, proc[d].src, <<>>, outbox, journal, pending)

(* A flush journals what it did not deliver and arms the timer.             *)
FlushFailure(d) ==
  LET r == proc[d]
      ops == [i \in 1..Len(r.todo) |-> r.todo[i].row.op]
      jr == Appended(journal, r.todo[1].row.m, ops)
      w == Resume(d, "flush", <<>>, outbox, jr, pending)
  IN  /\ Answered(d) /\ r.outcome = "error" /\ r.src = "flush"
      /\ UNCHANGED <<canon, moves, pending, outbox, targetVars, issued, reused, faults, upgrades>>
      /\ Proceed(d, w)
      /\ journal' = jr
      /\ timer' = IF d = Timer THEN AfterPass(Armed(timer), w, outbox, jr)
                               ELSE Armed(timer)

------------------------------------------------------------------------------
(* The maintenance timer.                                                   *)

(* Mutant: the fired timer still counts as armed.                           *)
Fire_StaysArmed ==
  /\ timer.armed /\ ~timer.running
  /\ timer' = [timer EXCEPT !.running = TRUE]
  /\ proc' = [proc EXCEPT ![Timer] = Stopped("catalog")]
  /\ UNCHANGED <<canon, moves, queueVars, net, targetVars, issued, reused, faults, upgrades>>

(* on_tick: the pass begins and asks the Router for the catalog.            *)
Fire ==
  /\ timer.armed /\ ~timer.running
  /\ timer' = [timer EXCEPT !.armed = FALSE, !.running = TRUE]
  /\ proc' = [proc EXCEPT ![Timer] = Stopped("catalog")]
  /\ UNCHANGED <<canon, moves, queueVars, net, targetVars, issued, reused, faults, upgrades>>

(* Without the catalog the pass is put off.                                 *)
CatalogFailed ==
  /\ proc[Timer].pc = "catalog" /\ faults < MaxFaults
  /\ faults' = faults + 1
  /\ timer' = Finished(timer, TRUE)
  /\ proc' = [proc EXCEPT ![Timer] = Stopped("idle")]
  /\ UNCHANGED <<canon, moves, queueVars, net, targetVars, issued, reused, upgrades>>

(* With it, one span is compacted, which may move an edge from slot p to    *)
(* slot q, and delivery begins.                                             *)
Begin(pd) ==
  LET w == FirstStage(outbox, journal, pd)
      jr == IF DOMAIN journal = {} THEN journal ELSE Appended(journal, 0, pd)
  IN  /\ Proceed(Timer, w)
      /\ journal' = jr
      /\ pending' = IF w.src \in {"journal", "flush"} THEN <<>> ELSE pd
      /\ timer' = AfterPass(timer, w, outbox, jr)
      /\ UNCHANGED <<outbox, targetVars, reused, faults, upgrades>>

NothingMoves ==
  /\ proc[Timer].pc = "catalog"
  /\ moves' = Max({0, moves - 1})
  /\ Begin(pending)
  /\ UNCHANGED <<canon, issued>>

Move(p, q) ==
  LET ops == <<PostingOp(-moves, p, TRUE), PostingOp(-moves, q, FALSE)>>
  IN  /\ proc[Timer].pc = "catalog" /\ moves > 0
      /\ p \in canon /\ q \notin canon
      /\ canon' = (canon \ {p}) \cup {q}
      /\ issued' = issued \cup ToSet(ops)
      /\ moves' = moves - 1
      /\ Begin(pending \o ops)

(* Mutant: post_upgrade looks at the maintenance queue only.                *)
Upgrade_NoArm ==
  /\ Quiet /\ upgrades < MaxUpgrades
  /\ upgrades' = upgrades + 1
  /\ pending' = <<>>
  /\ timer' = [armed |-> moves > 0, running |-> FALSE, requested |-> FALSE]
  /\ UNCHANGED <<canon, moves, outbox, journal, proc, net, targetVars, issued, reused, faults>>

(* A stopped canister is upgraded: the heap is lost, post_upgrade arms.     *)
Upgrade ==
  /\ Quiet /\ upgrades < MaxUpgrades
  /\ upgrades' = upgrades + 1
  /\ pending' = <<>>
  /\ timer' = [armed |-> moves > 0 \/ Delivering(outbox, journal),
               running |-> FALSE, requested |-> FALSE]
  /\ UNCHANGED <<canon, moves, outbox, journal, proc, net, targetVars, issued, reused, faults>>

------------------------------------------------------------------------------
Next ==
  \/ \E c \in Calls :
       \E P \in SUBSET (Postings \cap Touches[c]), V \in SUBSET (Subjects \cap Touches[c]) :
         Execute(c, P, V)
  \/ \E c \in Calls : \E P \in SUBSET (Postings \cap Touches[c]) : ExecuteOrdered(c, P)
  \/ \E t \in Kinds : Receive(t) \/ ReceiveFault(t)
  \/ ReceiveTerminal
  \/ \E d \in Procs : ReadPostings(d) \/ ReadVectors(d) \/ ReadFailure(d) \/ FlushFailure(d)
  \/ Fire \/ CatalogFailed \/ NothingMoves
  \/ \E p, q \in Postings : Move(p, q)
  \/ Upgrade

Spec == Init /\ [][Next]_vars

(* Some request is answered, some answer is read, an armed timer fires and  *)
(* its catalog call returns.                                                *)
Fairness ==
  /\ WF_vars(\E t \in Kinds : Receive(t))
  /\ WF_vars(\E d \in Procs :
               ReadPostings(d) \/ ReadVectors(d) \/ ReadFailure(d) \/ FlushFailure(d))
  /\ WF_vars(Fire \/ NothingMoves \/ \E p, q \in Postings : Move(p, q))

FairSpec == Spec /\ Fairness

------------------------------------------------------------------------------
(* What is checked.                                                         *)

IsQueue(q) ==
  \A i \in DOMAIN q : i \in Nat /\ q[i] \in [m : Calls \cup {0}, op : Ops,
                                             quarantined : BOOLEAN]

(* Queues hold rows, a waiting process has something to wait for, and the   *)
(* scheduler runs exactly while its pass does.                              *)
TypeOK ==
  /\ canon \subseteq Postings /\ index \subseteq Postings
  /\ moves \in 0..Moves
  /\ \A i \in 1..Len(pending) : pending[i] \in Ops
  /\ IsQueue(outbox) /\ IsQueue(journal)
  /\ vindex \in [Subjects -> Calls \cup {0}]
  /\ \A d \in Procs :
       /\ proc[d].pc \in {"new", "idle", "done", "catalog", "wait", "answered"}
       /\ proc[d].pc \in {"wait", "answered"} <=> proc[d].todo # <<>>
       /\ proc[d].pc = "wait" <=> \E t \in Kinds : d \in ToSet(net[t])
  /\ timer \in [armed : BOOLEAN, running : BOOLEAN, requested : BOOLEAN]
  /\ timer.running <=> proc[Timer].pc \notin {"idle"}
  /\ timer.requested => timer.running
  /\ ~(timer.armed /\ timer.running)
  /\ issued \subseteq Ops /\ accepted \subseteq issued /\ reused \in BOOLEAN
  /\ faults \in 0..MaxFaults /\ upgrades \in 0..MaxUpgrades

RowOps(q) == {q[i].op : i \in DOMAIN q}
InFlight ==
  UNION {{proc[d].todo[i].row.op : i \in 1..Len(proc[d].todo)} :
           d \in {p \in Procs : proc[p].src = "flush"}}
HeldBack == RowOps(outbox) \cup RowOps(journal) \cup ToSet(pending) \cup InFlight

(* derived_index_outbox.rs: "callers acknowledge only entries they know the *)
(* target canister accepted".  However drains overlap, an operation the     *)
(* shard committed to is delivered or held somewhere, with two exceptions:  *)
(* a drain removes by sequence, and next_seq gives a sequence out again     *)
(* once the newest rows are gone, while a drain may still hold it; and the  *)
(* postings compaction re-keyed wait on the heap, which an upgrade clears.  *)
HeapLost == {o \in issued : o.by < 0 /\ upgrades > 0}
NothingLost == ~reused => issued \ accepted \subseteq HeldBack \cup HeapLost

AllDelivered ==
  Quiet /\ ~Delivering(outbox, journal) /\ pending = <<>>

(* ADR 0023, "re-application converges the index to the store": once every  *)
(* queue is empty and nothing is under way, the index holds the canonical   *)
(* postings.  The code does not give that when drains overlap.              *)
Converged == AllDelivered => index = canon

(* The newest vector operation on a subject is applied or still in the      *)
(* outbox, quarantined or not, with postings beside it and however drains   *)
(* overlap, until a sequence is given out that a drain still holds.         *)
NewestVectorKept ==
  ~reused => \A o \in issued :
    o.kind = "vector" => \/ vindex[o.item] >= o.by
                         \/ o \in RowOps(outbox)

(* The read barrier of ADR 0031: once a call returned and no row of its     *)
(* mutation or of an older one is left, everything the mutation issued was  *)
(* applied.  It holds however drains overlap, until a sequence is given out *)
(* that a drain still holds.                                                *)
Floor == {outbox[i].m : i \in DOMAIN outbox} \cup {journal[i].m : i \in DOMAIN journal}
IndexBarrier ==
  ~reused => \A c \in Calls :
    /\ proc[c].pc = "done"
    /\ \A m \in Floor \ {0} : c < m
    => {o \in issued : o.by = c} \subseteq accepted

(* Work in a queue, durable or not, always has a timer or a pass to deliver *)
(* it: no arm request is lost while a pass awaits an answer.                *)
NoLostWake ==
  Delivering(outbox, journal) \/ pending # <<>> => timer.armed \/ timer.running

(* Every row is delivered or quarantined in the end.                        *)
QueuesDrain == <>[](~Delivering(outbox, journal) /\ pending = <<>>)
=============================================================================
