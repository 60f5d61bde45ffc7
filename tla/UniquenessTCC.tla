---------------------------- MODULE UniquenessTCC ----------------------------
(***************************************************************************)
(* The cross-shard uniqueness protocol of the Router (ADR 0030): Try /     *)
(* Confirm / Release of value reservations, the graph shards' pinned       *)
(* effect outbox, and the two recovery drivers.  One graph, one            *)
(* FederatedTcc constraint.  One action is one message execution of a      *)
(* canister, i.e. the code between two awaits.                             *)
(*                                                                         *)
(* A mutation is a client mutation key with the mutation id the Router     *)
(* bound to it.  An insert creates one element, named by the mutation, and *)
(* claims its values; a delete removes values of elements on its shard.    *)
(* A call is one execution of the client's update; a retry is another call *)
(* of the same mutation.  A call that fails, times out or whose canister   *)
(* traps just takes no further step.  Wall-clock conditions (reservation   *)
(* TTL, routing lease, quarantine backoff, record retention) may turn true *)
(* at any time.                                                            *)
(***************************************************************************)
EXTENDS Integers, FiniteSets

CONSTANTS
  Inserts,    \* mutations that insert one vertex under the constraint
  Deletes,    \* mutations that delete vertices or remove properties
  Values,     \* encoded values of the constrained property
  Shards,     \* graph canisters
  Claims,     \* Claims[m]: the values insert m claims
  Home,       \* Home[m]: the shard mutation m is dispatched to
  Calls,      \* executions of client updates
  KeyOf,      \* KeyOf[c]: the mutation call c carries
  Drivers,    \* recovery passes that may be under way at once (the code: one)
  MaxGen,     \* largest reclaim generation (the code: u64::MAX)
  MaxFaults,  \* how often an inter-canister call of a driver may fail
  None

Mutations == Inserts \cup Deletes

ASSUME ConstantsAssumption ==
  /\ Inserts \cap Deletes = {}
  /\ None \notin Mutations
  /\ IsFiniteSet(Values)
  /\ Claims \in [Inserts -> SUBSET Values]
  /\ Home \in [Mutations -> Shards]
  /\ KeyOf \in [Calls -> Mutations]
  /\ MaxGen \in Nat
  /\ MaxFaults \in Nat

VARIABLES
  rec,      \* Router: the saga record of each mutation
  res,      \* Router: the reservation of each value
  slots,    \* Router: non-terminal reservations counted per mutation
  pend,     \* Router: the pending-effect discovery row of each mutation
  call,     \* Router: what each client call is waiting for
  task,     \* Router: what each recovery pass is waiting for
  held,     \* shards: <<element, value>> present in canonical storage
  applied,  \* shards: mutations with a completed journal entry
  outbox,   \* shards: pinned unique effects
  flight,   \* network: calls whose execute_plan request is under way
  acks,     \* network: effects whose ack request is under way
  faults    \* network: driver calls that have failed

vars == <<rec, res, slots, pend, call, task, held, applied, outbox, flight,
          acks, faults>>

------------------------------------------------------------------------------
(* Data.                                                                    *)

(* absent: no record; routing: routing_in_progress; released: routing given *)
(* up with no envelope; open: dispatch envelope durable, shard not captured *)
(* (CanonicalPending); captured: shard completed, projection not advanced;  *)
(* completed and failed are terminal; evicted: removed by the TTL GC.       *)
RecordStates == {"absent", "routing", "released", "open", "captured",
                 "completed", "failed", "evicted"}
Terminal == {"completed", "failed"}

Reservations ==
  [state : {"Free", "Reserved", "Reclaiming", "Committed"},
   claim : Inserts \cup {None}, gen : 0..MaxGen,
   owner : Inserts \cup {None}, ack : BOOLEAN]

Free == [state |-> "Free", claim |-> None, gen |-> 0, owner |-> None,
         ack |-> FALSE]
Reserved(m) == [Free EXCEPT !.state = "Reserved", !.claim = m]
Committed(r, e) == [r EXCEPT !.state = "Committed", !.owner = e, !.ack = TRUE]

NonTerminal(r) == r.state \in {"Reserved", "Reclaiming"}

Effects == [op : {"acquire", "release"}, m : Mutations, v : Values,
            owner : Inserts]
Acquire(m, v) == [op |-> "acquire", m |-> m, v |-> v, owner |-> m]
Release(m, e, v) == [op |-> "release", m |-> m, v |-> v, owner |-> e]

(* What a call waits for: "sent" the shard's reply, "captured" the label    *)
(* statistics projection, "settle" nothing (between two effect reads),      *)
(* "read" has an effect page in hand, "acking" the shard's ack reply.       *)
CallStates == [pc : {"new", "prepared", "sent", "captured", "settle", "read",
                     "acking", "done"},
               lease : BOOLEAN, seen : SUBSET Effects]

TaskStates ==
  [phase : {"idle", "scanned", "proof", "verdict", "ack", "page", "paged",
            "rescan", "rescanned"},
   v : Values \cup {None}, m : Mutations \cup {None},
   st : {"Free", "Reserved", "Reclaiming", "Committed"},
   gen : 0..MaxGen, ahead : SUBSET Calls,
   verdict : {"none", "present", "absent", "inconclusive"},
   seen : SUBSET Effects, orphan : BOOLEAN]
Idle == [phase |-> "idle", v |-> None, m |-> None, st |-> "Free", gen |-> 0,
         ahead |-> {}, verdict |-> "none", seen |-> {}, orphan |-> FALSE]

TypeOK ==
  /\ rec \in [Mutations -> RecordStates]
  /\ res \in [Values -> Reservations]
  /\ slots \in [Mutations -> Int]
  /\ pend \in [Mutations -> {"none", "active", "quarantined"}]
  /\ call \in [Calls -> CallStates]
  /\ task \in [Drivers -> TaskStates]
  /\ held \subseteq Inserts \X Values
  /\ applied \subseteq Mutations
  /\ outbox \subseteq Effects
  /\ flight \subseteq Calls
  /\ acks \subseteq Effects
  /\ faults \in 0..MaxFaults

Init ==
  /\ rec = [m \in Mutations |-> "absent"]
  /\ res = [v \in Values |-> Free]
  /\ slots = [m \in Mutations |-> 0]
  /\ pend = [m \in Mutations |-> "none"]
  /\ call = [c \in Calls |-> [pc |-> "new", lease |-> FALSE, seen |-> {}]]
  /\ task = [d \in Drivers |-> Idle]
  /\ held = {} /\ applied = {} /\ outbox = {}
  /\ flight = {} /\ acks = {} /\ faults = 0

shardVars == <<held, applied, outbox>>
netVars == <<flight, acks, faults>>

------------------------------------------------------------------------------
(* The client call: reserve the key, persist the envelope, Try, dispatch.   *)

SetCall(c, pc, lease, seen) ==
  call' = [call EXCEPT ![c] = [pc |-> pc, lease |-> lease, seen |-> seen]]

(* The first call of a key, a retry that takes over an expired routing      *)
(* lease, or a retry of a key whose routing was given up.                   *)
ReserveKey(c) ==
  /\ call[c].pc = "new"
  /\ rec[KeyOf[c]] \in {"absent", "routing", "released"}
  /\ rec' = [rec EXCEPT ![KeyOf[c]] = "routing"]
  /\ SetCall(c, "prepared", TRUE, {})
  /\ UNCHANGED <<res, slots, pend, task, shardVars, netVars>>

(* A retry of a key whose dispatch envelope is already durable.             *)
ReplayKey(c) ==
  /\ call[c].pc = "new"
  /\ rec[KeyOf[c]] = "open"
  /\ SetCall(c, "prepared", FALSE, {})
  /\ UNCHANGED <<rec, res, slots, pend, task, shardVars, netVars>>

(* A retry that is answered without dispatching: the routing lease is live, *)
(* the record is terminal, or its projection is first brought to an end.    *)
ReplayEarly(c) ==
  /\ call[c].pc = "new"
  /\ rec[KeyOf[c]] \in {"routing", "captured", "completed", "failed"}
  /\ rec' = [rec EXCEPT ![KeyOf[c]] = IF @ = "captured" THEN "completed" ELSE @]
  /\ SetCall(c, "done", FALSE, {})
  /\ UNCHANGED <<res, slots, pend, task, shardVars, netVars>>

(* Routing resolution or a gate before the envelope fails: the owner of the *)
(* routing lease gives it up.                                               *)
AbandonRouting(c) ==
  /\ call[c].pc = "prepared"
  /\ rec' = [rec EXCEPT ![KeyOf[c]] = IF call[c].lease /\ @ = "routing"
                                        THEN "released" ELSE @]
  /\ SetCall(c, "done", FALSE, {})
  /\ UNCHANGED <<res, slots, pend, task, shardVars, netVars>>

(* The record moved to a terminal state while the call was being prepared.  *)
EnvelopeRefused(c) ==
  /\ call[c].pc = "prepared"
  /\ rec[KeyOf[c]] \in {"completed", "failed", "evicted"}
  /\ SetCall(c, "done", FALSE, {})
  /\ UNCHANGED <<rec, res, slots, pend, task, shardVars, netVars>>

Dispatchable == {"routing", "released", "open", "captured"}
PersistEnvelope(m) ==
  rec' = [rec EXCEPT ![m] = IF @ = "captured" THEN @ ELSE "open"]
RegisterPending(m) ==
  pend' = [pend EXCEPT ![m] = IF @ = "none" THEN "active" ELSE @]

(* Mutant: Try accepts a value another claim holds.                         *)
TryOk_AnyClaim(m) == \A v \in Claims[m] : res[v].state # "Reclaiming"
(* Mutant: Try ignores that its own reservation is under a reclaim proof.   *)
TryOk_NoFence(m) ==
  \A v \in Claims[m] : res[v].state = "Free" \/ res[v].claim = m

(* Try: every claimed value is unreserved, or is this claim's own           *)
(* reservation outside a reclaim proof.                                     *)
TryOk(m) ==
  \A v \in Claims[m] : \/ res[v].state = "Free"
                       \/ /\ res[v].claim = m
                          /\ res[v].state \in {"Reserved", "Committed"}
FreshClaims(m) == {v \in Claims[m] : res[v].state = "Free"}

(* The count of a mutation's undecided reservations that pins its record:   *)
(* raised by the reservations a Try inserts, lowered by one for each that a *)
(* Confirm or a reclaim decides.  The code traps below zero.                *)
ApplySlots(m, n) == slots' = [slots EXCEPT ![m] = @ + n]
ReleaseSlots(m, n) == slots' = [slots EXCEPT ![m] = @ - n]

TryRefused(c) ==
  /\ call[c].pc = "prepared"
  /\ KeyOf[c] \in Inserts
  /\ rec[KeyOf[c]] \in Dispatchable
  /\ ~TryOk(KeyOf[c])
  /\ PersistEnvelope(KeyOf[c])
  /\ SetCall(c, "done", FALSE, {})
  /\ UNCHANGED <<res, slots, pend, task, shardVars, netVars>>

(* The dispatch gate sends the plan unless the shard is already captured.   *)
DispatchGate(c) ==
  flight' = IF rec[KeyOf[c]] = "captured" THEN flight ELSE flight \cup {c}

DispatchInsert(c) ==
  LET m == KeyOf[c] IN
  /\ call[c].pc = "prepared"
  /\ m \in Inserts
  /\ rec[m] \in Dispatchable
  /\ TryOk(m)
  /\ PersistEnvelope(m)
  /\ res' = [v \in Values |-> IF v \in FreshClaims(m) THEN Reserved(m) ELSE res[v]]
  /\ ApplySlots(m, Cardinality(FreshClaims(m)))
  /\ RegisterPending(m)
  /\ DispatchGate(c)
  /\ SetCall(c, "sent", FALSE, {})
  /\ UNCHANGED <<task, shardVars, acks, faults>>

DispatchDelete(c) ==
  LET m == KeyOf[c] IN
  /\ call[c].pc = "prepared"
  /\ m \in Deletes
  /\ rec[m] \in Dispatchable
  /\ PersistEnvelope(m)
  /\ RegisterPending(m)
  /\ DispatchGate(c)
  /\ SetCall(c, "sent", FALSE, {})
  /\ UNCHANGED <<res, slots, task, shardVars, acks, faults>>

------------------------------------------------------------------------------
(* The shards.  The canonical write, its effects and the completed journal  *)
(* entry are one message; a mutation whose journal is complete is answered  *)
(* from the journal.                                                        *)

ShardInsert(c) ==
  LET m == KeyOf[c] IN
  /\ c \in flight
  /\ m \in Inserts \ applied
  /\ flight' = flight \ {c}
  /\ applied' = applied \cup {m}
  /\ held' = held \cup {<<m, v>> : v \in Claims[m]}
  /\ outbox' = outbox \cup {Acquire(m, v) : v \in Claims[m]}
  /\ UNCHANGED <<rec, res, slots, pend, call, task, acks, faults>>

OnShard(m) == {h \in held : Home[h[1]] = Home[m]}

ShardDelete(c) ==
  LET m == KeyOf[c] IN
  /\ c \in flight
  /\ m \in Deletes \ applied
  /\ flight' = flight \ {c}
  /\ applied' = applied \cup {m}
  /\ \E R \in SUBSET OnShard(m) :
       /\ held' = held \ R
       /\ outbox' = outbox \cup {Release(m, h[1], h[2]) : h \in R}
  /\ UNCHANGED <<rec, res, slots, pend, call, task, acks, faults>>

ShardReplay(c) ==
  /\ c \in flight
  /\ KeyOf[c] \in applied
  /\ flight' = flight \ {c}
  /\ UNCHANGED <<rec, res, slots, pend, call, task, shardVars, acks, faults>>

(* The request is dropped, or the shard's execution fails or traps.         *)
DispatchLost(c) ==
  /\ c \in flight
  /\ flight' = flight \ {c}
  /\ UNCHANGED <<rec, res, slots, pend, call, task, shardVars, acks, faults>>

AckEffect(e) ==
  /\ e \in acks
  /\ outbox' = outbox \ {e}
  /\ acks' = acks \ {e}
  /\ UNCHANGED <<rec, res, slots, pend, call, task, held, applied, flight, faults>>

AckLost(e) ==
  /\ e \in acks
  /\ faults < MaxFaults
  /\ faults' = faults + 1
  /\ acks' = acks \ {e}
  /\ UNCHANGED <<rec, res, slots, pend, call, task, shardVars, flight>>

------------------------------------------------------------------------------
(* Capture of the shard's journal into the saga record, by the call itself  *)
(* or by the recovery pass; the projection marker completes the record.     *)

Captured(m) == rec' = [rec EXCEPT ![m] = IF @ = "open" THEN "captured" ELSE @]
Completed(m) == rec' = [rec EXCEPT ![m] = "completed"]

CallCapture(c) ==
  /\ call[c].pc = "sent"
  /\ KeyOf[c] \in applied
  /\ rec[KeyOf[c]] \in {"open", "captured", "completed"}
  /\ Captured(KeyOf[c])
  /\ SetCall(c, "captured", FALSE, {})
  /\ UNCHANGED <<res, slots, pend, task, shardVars, netVars>>

CallAdvance(c) ==
  /\ call[c].pc = "captured"
  /\ rec[KeyOf[c]] \in {"captured", "completed"}
  /\ Completed(KeyOf[c])
  /\ SetCall(c, "settle", FALSE, {})
  /\ UNCHANGED <<res, slots, pend, task, shardVars, netVars>>

RecoverCapture(m) ==
  /\ rec[m] = "open"
  /\ m \in applied
  /\ Captured(m)
  /\ UNCHANGED <<res, slots, pend, call, task, shardVars, netVars>>

RecoverAdvance(m) ==
  /\ rec[m] = "captured"
  /\ Completed(m)
  /\ UNCHANGED <<res, slots, pend, call, task, shardVars, netVars>>

(* Mutant: the GC pins nothing.                                             *)
Evictable_NoPin(m) == rec[m] \in Terminal

(* TTL eviction of a terminal record nothing pins.                          *)
Evictable(m) == rec[m] \in Terminal /\ slots[m] <= 0 /\ pend[m] = "none"

EvictRecord(m) ==
  /\ Evictable(m)
  /\ rec' = [rec EXCEPT ![m] = "evicted"]
  /\ UNCHANGED <<res, slots, pend, call, task, shardVars, netVars>>

------------------------------------------------------------------------------
(* Settling effects in the call: Confirm for inserts, Release for deletes.  *)

(* Mutant: a repeated proof is counted as a fresh commit.                   *)
FreshCommit_Repeat(e) ==
  res[e.v].claim = e.m /\ res[e.v].state \in {"Reserved", "Committed"}
(* Mutant: a claim under a reclaim proof is acked without being committed.  *)
ConfirmAcks_Reclaiming(e) == res[e.v].claim = e.m

(* A claim's own reservation moves Reserved -> Committed once; a repeated   *)
(* proof of a committed claim is only acked again.                          *)
FreshCommit(e) == res[e.v].claim = e.m /\ res[e.v].state = "Reserved"
ConfirmAcks(e) ==
  res[e.v].claim = e.m /\ res[e.v].state \in {"Reserved", "Committed"}

(* Mutant: a Release frees whatever element owns the value now.             *)
ReleaseFrees_AnyOwner(e) == res[e.v].state = "Committed" /\ ~res[e.v].ack
(* Mutant: a Release does not wait for the Acquire to be acked.             *)
ReleaseFrees_Early(e) == res[e.v].state = "Committed" /\ res[e.v].owner = e.owner
(* Mutant: a Release that has to wait is consumed all the same.             *)
ReleaseApplied_Always(e) == e.op = "release"

(* A Release frees the value its element still owns once the Acquire is     *)
(* acked, and is consumed unless it has to wait for the Acquire.            *)
ReleaseFrees(e) ==
  /\ res[e.v].state = "Committed"
  /\ res[e.v].owner = e.owner
  /\ ~res[e.v].ack
ReleaseApplied(e) ==
  \/ res[e.v].state = "Free"
  \/ res[e.v].state = "Committed" /\ res[e.v].owner # e.owner
  \/ ReleaseFrees(e)
AfterReleases(E) ==
  [v \in Values |-> IF \E e \in E : e.v = v /\ ReleaseFrees(e) THEN Free ELSE res[v]]

ReadEffects(c) ==
  LET m == KeyOf[c]
      page == {e \in outbox : e.m = m}
  IN
  /\ call[c].pc = "settle"
  /\ page # {}
  /\ SetCall(c, "read", FALSE, page)
  /\ UNCHANGED <<rec, res, slots, pend, task, shardVars, netVars>>

Confirm(c) ==
  LET m == KeyOf[c]
      fresh == {v \in Values : \E e \in call[c].seen : e.v = v /\ FreshCommit(e)}
      acked == {e \in call[c].seen : ConfirmAcks(e)}
  IN
  /\ call[c].pc = "read"
  /\ m \in Inserts
  /\ res' = [v \in Values |-> IF v \in fresh THEN Committed(res[v], m) ELSE res[v]]
  /\ ReleaseSlots(m, Cardinality(fresh))
  /\ acks' = acks \cup acked
  /\ IF acked = {} THEN SetCall(c, "settle", FALSE, {})
                   ELSE SetCall(c, "acking", FALSE, acked)
  /\ UNCHANGED <<rec, pend, task, shardVars, flight, faults>>

ReconcileReleases(c) ==
  LET acked == {e \in call[c].seen : ReleaseApplied(e)} IN
  /\ call[c].pc = "read"
  /\ KeyOf[c] \in Deletes
  /\ res' = AfterReleases(call[c].seen)
  /\ acks' = acks \cup acked
  /\ SetCall(c, "settle", FALSE, {})
  /\ UNCHANGED <<rec, slots, pend, task, shardVars, flight, faults>>

(* The ack marker of a committed claim is cleared once its Acquire is       *)
(* unpinned.                                                                *)
ClearAck(r, m) ==
  IF r.claim = m /\ r.state = "Committed" THEN [r EXCEPT !.ack = FALSE] ELSE r

ConfirmAcked(c) ==
  /\ call[c].pc = "acking"
  /\ call[c].seen \cap outbox = {}
  /\ res' = [v \in Values |-> IF \E e \in call[c].seen : e.v = v
                                THEN ClearAck(res[v], KeyOf[c]) ELSE res[v]]
  /\ SetCall(c, "settle", FALSE, {})
  /\ UNCHANGED <<rec, slots, pend, task, shardVars, netVars>>

ConfirmAckFailed(c) ==
  /\ call[c].pc = "acking"
  /\ SetCall(c, "settle", FALSE, {})
  /\ UNCHANGED <<rec, res, slots, pend, task, shardVars, netVars>>

------------------------------------------------------------------------------
(* Driver 1: reservations the call left unresolved.                         *)

SetTask(d, t) == task' = [task EXCEPT ![d] = t]

(* Mutant: interrupted proofs are not taken up again.                       *)
NeedsReclaim_NoResume(r) == r.state = "Reserved" \/ (r.state = "Committed" /\ r.ack)
(* Mutant: committed claims with an outstanding ack are not revisited.      *)
NeedsReclaim_NoReAck(r) == NonTerminal(r)

NeedsReclaim(r) == NonTerminal(r) \/ (r.state = "Committed" /\ r.ack)

Scan(d, v) ==
  /\ task[d].phase = "idle"
  /\ NeedsReclaim(res[v])
  /\ SetTask(d, [Idle EXCEPT !.phase = "scanned", !.v = v, !.m = res[v].claim,
                             !.st = res[v].state])
  /\ UNCHANGED <<rec, res, slots, pend, call, shardVars, netVars>>

(* The proof read queues behind every request already sent to the shard.    *)
SendProof(d, m, gen) ==
  SetTask(d, [task[d] EXCEPT !.phase = "proof", !.m = m, !.gen = gen,
                !.ahead = {c \in flight : Home[KeyOf[c]] = Home[m]}])

(* Mutant: the generation is incremented past its range.                    *)
BeginReclaim_NoBound(d) ==
  LET v == task[d].v IN
  /\ task[d].phase = "scanned" /\ task[d].st = "Reserved"
  /\ res[v].state = "Reserved"
  /\ res' = [res EXCEPT ![v].state = "Reclaiming", ![v].gen = @ + 1]
  /\ SendProof(d, res[v].claim, res[v].gen + 1)
  /\ UNCHANGED <<rec, slots, pend, call, shardVars, netVars>>

BeginReclaim(d) ==
  LET v == task[d].v IN
  /\ task[d].phase = "scanned" /\ task[d].st = "Reserved"
  /\ res[v].state = "Reserved"
  /\ res[v].gen < MaxGen
  /\ res' = [res EXCEPT ![v].state = "Reclaiming", ![v].gen = @ + 1]
  /\ SendProof(d, res[v].claim, res[v].gen + 1)
  /\ UNCHANGED <<rec, slots, pend, call, shardVars, netVars>>

ResumeReclaim(d) ==
  LET r == res[task[d].v] IN
  /\ task[d].phase = "scanned" /\ task[d].st = "Reclaiming"
  /\ r.state = "Reclaiming"
  /\ SendProof(d, r.claim, r.gen)
  /\ UNCHANGED <<rec, res, slots, pend, call, shardVars, netVars>>

ProveCommitted(d) ==
  /\ task[d].phase = "scanned" /\ task[d].st = "Committed"
  /\ SendProof(d, task[d].m, 0)
  /\ UNCHANGED <<rec, res, slots, pend, call, shardVars, netVars>>

(* The entry changed between the scan and now: nothing to reclaim.          *)
ReclaimAborted(d) ==
  LET r == res[task[d].v] IN
  /\ task[d].phase = "scanned"
  /\ \/ task[d].st = "Reserved" /\ ~(r.state = "Reserved" /\ r.gen < MaxGen)
     \/ task[d].st = "Reclaiming" /\ r.state # "Reclaiming"
  /\ SetTask(d, Idle)
  /\ UNCHANGED <<rec, res, slots, pend, call, shardVars, netVars>>

(* Mutant: the proof read may overtake a dispatched request.                *)
Arrived_Overtakes(t) == t.phase = "proof"

(* Requests of one canister to another arrive in the order they were sent.  *)
Arrived(t) == t.ahead \cap flight = {}

ReadProof(d) ==
  LET t == task[d] IN
  /\ t.phase = "proof"
  /\ Arrived(t)
  /\ SetTask(d, [t EXCEPT !.phase = "verdict", !.ahead = {},
       !.verdict = IF Acquire(t.m, t.v) \in outbox THEN "present" ELSE "absent"])
  /\ UNCHANGED <<rec, res, slots, pend, call, shardVars, netVars>>

ProofFailed(d) ==
  /\ task[d].phase = "proof"
  /\ faults < MaxFaults
  /\ faults' = faults + 1
  /\ SetTask(d, [task[d] EXCEPT !.phase = "verdict", !.ahead = {},
                                !.verdict = "inconclusive"])
  /\ UNCHANGED <<rec, res, slots, pend, call, shardVars, flight, acks>>

(* The fence every outcome of a reclaim proof is applied under.             *)
Fenced(t) ==
  /\ res[t.v].state = "Reclaiming"
  /\ res[t.v].claim = t.m
  /\ res[t.v].gen = t.gen

(* Absence authorises a cancel only together with an irreversible failure   *)
(* of a mutation whose canonical write no shard has reported.               *)
CanCancel(t) == slots[t.m] > 0 /\ Fenced(t) /\ rec[t.m] \in {"open", "failed"}

SendAck(d) ==
  /\ acks' = acks \cup {Acquire(task[d].m, task[d].v)}
  /\ SetTask(d, [task[d] EXCEPT !.phase = "ack", !.verdict = "none", !.gen = 0])

Reclaiming(d, verdict) ==
  /\ task[d].phase = "verdict"
  /\ task[d].st # "Committed"
  /\ task[d].verdict = verdict

ReclaimCommit(d) ==
  LET t == task[d] IN
  /\ Reclaiming(d, "present")
  /\ Fenced(t)
  /\ res' = [res EXCEPT ![t.v] = Committed(@, t.m)]
  /\ ReleaseSlots(t.m, 1)
  /\ SendAck(d)
  /\ UNCHANGED <<rec, pend, call, shardVars, flight, faults>>

ReclaimDiscarded(d) ==
  /\ Reclaiming(d, "present")
  /\ ~Fenced(task[d])
  /\ SetTask(d, Idle)
  /\ UNCHANGED <<rec, res, slots, pend, call, shardVars, netVars>>

ReclaimCancel(d) ==
  LET t == task[d] IN
  /\ Reclaiming(d, "absent")
  /\ CanCancel(t)
  /\ rec' = [rec EXCEPT ![t.m] = "failed"]
  /\ res' = [res EXCEPT ![t.v] = Free]
  /\ ReleaseSlots(t.m, 1)
  /\ SetTask(d, Idle)
  /\ UNCHANGED <<pend, call, shardVars, netVars>>

ReclaimHold(d) ==
  LET t == task[d] IN
  /\ \/ Reclaiming(d, "inconclusive")
     \/ Reclaiming(d, "absent") /\ ~CanCancel(t)
  /\ res' = IF Fenced(t) THEN [res EXCEPT ![t.v].state = "Reserved"] ELSE res
  /\ SetTask(d, Idle)
  /\ UNCHANGED <<rec, slots, pend, call, shardVars, netVars>>

CommittedProof(d, verdict) ==
  /\ task[d].phase = "verdict"
  /\ task[d].st = "Committed"
  /\ task[d].verdict = verdict

ReAck(d) ==
  /\ CommittedProof(d, "present")
  /\ SendAck(d)
  /\ UNCHANGED <<rec, res, slots, pend, call, shardVars, flight, faults>>

(* Mutant: absence of a committed claim's Acquire is treated as unknown.    *)
AckReplyLost_Holds(d) ==
  /\ CommittedProof(d, "absent")
  /\ SetTask(d, Idle)
  /\ UNCHANGED <<rec, res, slots, pend, call, shardVars, netVars>>

(* The ack had landed and only its reply was lost.                          *)
AckReplyLost(d) ==
  /\ CommittedProof(d, "absent")
  /\ res' = [res EXCEPT ![task[d].v] = ClearAck(@, task[d].m)]
  /\ SetTask(d, Idle)
  /\ UNCHANGED <<rec, slots, pend, call, shardVars, netVars>>

CommittedHold(d) ==
  /\ CommittedProof(d, "inconclusive")
  /\ SetTask(d, Idle)
  /\ UNCHANGED <<rec, res, slots, pend, call, shardVars, netVars>>

DriverAcked(d) ==
  LET t == task[d] IN
  /\ t.phase = "ack"
  /\ Acquire(t.m, t.v) \notin outbox
  /\ res' = [res EXCEPT ![t.v] = ClearAck(@, t.m)]
  /\ SetTask(d, Idle)
  /\ UNCHANGED <<rec, slots, pend, call, shardVars, netVars>>

DriverAckFailed(d) ==
  /\ task[d].phase = "ack"
  /\ SetTask(d, Idle)
  /\ UNCHANGED <<rec, res, slots, pend, call, shardVars, netVars>>

------------------------------------------------------------------------------
(* Driver 2: pinned effects found through the discovery rows.               *)

(* Only a mutation that can emit no more effects is drained.                *)
Drainable(m) == rec[m] \in Terminal

RowStart(d, m) ==
  /\ task[d].phase = "idle"
  /\ pend[m] # "none"
  /\ Drainable(m)
  /\ SetTask(d, [Idle EXCEPT !.phase = "page", !.m = m])
  /\ UNCHANGED <<rec, res, slots, pend, call, shardVars, netVars>>

ReadPage(d) ==
  LET page == {e \in outbox : e.m = task[d].m} IN
  /\ task[d].phase = "page"
  /\ SetTask(d, IF page = {} THEN [task[d] EXCEPT !.phase = "rescan"]
                ELSE [task[d] EXCEPT !.phase = "paged", !.seen = page])
  /\ UNCHANGED <<rec, res, slots, pend, call, shardVars, netVars>>

(* An Acquire is never acked here: its own reservation leads Driver 1 to    *)
(* it, and without one it is kept as evidence.                              *)
Orphan(e) == e.op = "acquire" /\ res[e.v].claim # e.m

(* Reservation first, then the ack, whose outcome is ignored.               *)
ProcessPage(d) ==
  LET releases == {e \in task[d].seen : e.op = "release"} IN
  /\ task[d].phase = "paged"
  /\ res' = AfterReleases(releases)
  /\ acks' = acks \cup {e \in releases : ReleaseApplied(e)}
  /\ SetTask(d, [task[d] EXCEPT !.phase = "rescan", !.seen = {},
                   !.orphan = \E e \in task[d].seen : Orphan(e)])
  /\ UNCHANGED <<rec, slots, pend, call, shardVars, flight, faults>>

Rescan(d) ==
  /\ task[d].phase = "rescan"
  /\ SetTask(d, [task[d] EXCEPT !.phase = "rescanned",
                   !.seen = {e \in outbox : e.m = task[d].m}])
  /\ UNCHANGED <<rec, res, slots, pend, call, shardVars, netVars>>

(* Mutant: the row goes away though effects are still pinned.               *)
RowOutcome_NoRescan(t, row) == IF t.orphan THEN row ELSE "none"

(* Removed when nothing is pinned, parked when an orphan was seen, left for *)
(* the next lap otherwise.                                                  *)
RowOutcome(t, row) ==
  IF t.seen = {} THEN "none"
  ELSE IF t.orphan /\ row # "none" THEN "quarantined" ELSE row

RowEnd(d) ==
  LET t == task[d] IN
  /\ t.phase = "rescanned"
  /\ pend' = [pend EXCEPT ![t.m] = RowOutcome(t, @)]
  /\ SetTask(d, Idle)
  /\ UNCHANGED <<rec, res, slots, call, shardVars, netVars>>

RowFailed(d) ==
  /\ task[d].phase \in {"page", "rescan"}
  /\ faults < MaxFaults
  /\ faults' = faults + 1
  /\ SetTask(d, Idle)
  /\ UNCHANGED <<rec, res, slots, pend, call, shardVars, flight, acks>>

(* A trap in a callback or a canister upgrade drops the pass.               *)
PassLost(d) ==
  /\ task[d].phase # "idle"
  /\ faults < MaxFaults
  /\ faults' = faults + 1
  /\ SetTask(d, Idle)
  /\ UNCHANGED <<rec, res, slots, pend, call, shardVars, flight, acks>>

------------------------------------------------------------------------------
CallStep(c) ==
  \/ ReserveKey(c) \/ ReplayKey(c) \/ ReplayEarly(c) \/ AbandonRouting(c)
  \/ EnvelopeRefused(c) \/ TryRefused(c)
  \/ DispatchInsert(c) \/ DispatchDelete(c)
  \/ CallCapture(c) \/ CallAdvance(c)
  \/ ReadEffects(c) \/ Confirm(c) \/ ReconcileReleases(c)
  \/ ConfirmAcked(c) \/ ConfirmAckFailed(c)

ShardStep(c) ==
  \/ ShardInsert(c) \/ ShardDelete(c) \/ ShardReplay(c) \/ DispatchLost(c)

RecordStep(m) == RecoverCapture(m) \/ RecoverAdvance(m) \/ EvictRecord(m)

(* The steps of a pass that has work in hand.  Its calls are bounded-wait,  *)
(* so it always gets an answer.                                             *)
Driver1Step(d) ==
  \/ BeginReclaim(d) \/ ResumeReclaim(d) \/ ProveCommitted(d)
  \/ ReclaimAborted(d) \/ ReadProof(d)
  \/ ReclaimCommit(d) \/ ReclaimDiscarded(d) \/ ReclaimCancel(d)
  \/ ReclaimHold(d) \/ ReAck(d) \/ AckReplyLost(d) \/ CommittedHold(d)
  \/ DriverAcked(d) \/ DriverAckFailed(d)
Driver2Step(d) == ReadPage(d) \/ ProcessPage(d) \/ Rescan(d) \/ RowEnd(d)
DriverFault(d) == ProofFailed(d) \/ RowFailed(d) \/ PassLost(d)

Next ==
  \/ \E c \in Calls : CallStep(c) \/ ShardStep(c)
  \/ \E e \in acks : AckEffect(e) \/ AckLost(e)
  \/ \E m \in Mutations : RecordStep(m)
  \/ \E d \in Drivers :
       \/ \E v \in Values : Scan(d, v)
       \/ \E m \in Mutations : RowStart(d, m)
       \/ Driver1Step(d) \/ Driver2Step(d) \/ DriverFault(d)

Spec == Init /\ [][Next]_vars

------------------------------------------------------------------------------
(* Safety.                                                                  *)

(* Graph-wide uniqueness: no value is in canonical storage for two          *)
(* elements, whatever calls are retried, lost or overtaken and whatever     *)
(* recovery cancels meanwhile.                                              *)
UniqueValues ==
  \A h, k \in held : h[2] = k[2] => h = k

(* A value in canonical storage is reserved by the claim that wrote it:     *)
(* neither a cancelled proof (cancel_reclaim) nor a Release                 *)
(* (release_reservation) ever frees a value that is still in use.           *)
LiveIsReserved ==
  \A h \in held : res[h[2]].state # "Free" /\ res[h[2]].claim = h[1]

(* While a claim is undecided the shard that wrote its value still pins the *)
(* Acquire, so a later absence read cannot mistake it for uncommitted: no   *)
(* ack may overtake the commit it stands for.                               *)
EvidencePinned ==
  \A h \in held : NonTerminal(res[h[2]]) => Acquire(h[1], h[2]) \in outbox

(* A pinned Acquire always has the reservation Driver 1 finds it by: the    *)
(* orphan Driver 2 quarantines never arises (release_reservation holds a    *)
(* Release until the Acquire is acked).                                     *)
NoOrphanAcquire ==
  \A e \in outbox : e.op = "acquire" => res[e.v].claim = e.m

(* Every pinned effect has its discovery row, so a crash cannot strand it:  *)
(* a row is removed only when its mutation can pin nothing any more.        *)
EffectsDiscoverable == \A e \in outbox : pend[e.m] # "none"

(* The reverse index counts exactly the undecided reservations of every     *)
(* mutation, so release_reservation_slot never traps and never unpins a     *)
(* record early.                                                            *)
SlotsExact ==
  \A m \in Mutations :
    slots[m] = Cardinality({v \in Values : NonTerminal(res[v]) /\ res[v].claim = m})

(* The record an undecided reservation or a pinned effect depends on is     *)
(* never evicted by the TTL garbage collection.                             *)
RecordPinned ==
  /\ \A v \in Values : NonTerminal(res[v]) => rec[res[v].claim] # "evicted"
  /\ \A e \in outbox : rec[e.m] # "evicted"

(* A committed reservation is owned: its element still holds the value, or  *)
(* the Release that will free it is still pinned. Otherwise the value would *)
(* be lost for good.                                                        *)
CommittedOwned ==
  \A v \in Values : res[v].state = "Committed" =>
    \/ <<res[v].owner, v>> \in held
    \/ \E e \in outbox : e.op = "release" /\ e.v = v /\ e.owner = res[v].owner

(* "`None` is authoritative non-commit while the reservation is             *)
(* non-terminal" (read_unique_effect_proof): a proof read of an undecided   *)
(* reservation finds no Acquire only if the mutation wrote nothing.         *)
NoneIsNonCommit ==
  \A v \in Values : NonTerminal(res[v]) /\ res[v].claim \in applied =>
    Acquire(res[v].claim, v) \in outbox

(* No step writes for a mutation that already failed terminally             *)
(* (terminally_fail_uncommitted_dispatch is irreversible on the shard too). *)
NoWriteAfterFailure ==
  [][\A m \in Mutations : rec[m] = "failed" /\ m \in applied' => m \in applied]_vars

(* The index the protocol implements.                                       *)
Index == INSTANCE UniqueIndex WITH Elements <- Inserts,
                                   born <- applied \cap Inserts
IndexSpec == Index!Spec

------------------------------------------------------------------------------
(* Liveness.  Driver calls fail at most MaxFaults times, the timer keeps    *)
(* passing, its cursors visit every reservation, row and record once a lap, *)
(* and a request that is not lost arrives.  Client calls may stop anywhere. *)
Fairness ==
  /\ \A c \in Calls : WF_vars(ShardStep(c))
  /\ \A e \in Effects : WF_vars(AckEffect(e))
  /\ \A m \in Mutations : WF_vars(RecoverCapture(m) \/ RecoverAdvance(m))
  /\ \A d \in Drivers :
       /\ WF_vars(Driver1Step(d)) /\ WF_vars(Driver2Step(d))
       /\ \A v \in Values : SF_vars(Scan(d, v))
       /\ \A m \in Mutations : SF_vars(RowStart(d, m))

FairSpec == Spec /\ Fairness

(* Every undecided reservation is decided, however the client behaves.      *)
ReservationsDecided ==
  \A v \in Values : NonTerminal(res[v]) ~> ~NonTerminal(res[v])

(* Every pinned effect is eventually reconciled and unpinned.               *)
EffectsDrain == (outbox # {}) ~> (outbox = {})

(* Once an element is gone its value becomes available again.               *)
DeadValuesFreed ==
  \A v \in Values :
    (res[v].state = "Committed" /\ <<res[v].owner, v>> \notin held)
      ~> (res[v].state # "Committed" \/ <<res[v].owner, v>> \in held)
==============================================================================
