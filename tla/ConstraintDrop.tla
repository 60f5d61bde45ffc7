---------------------------- MODULE ConstraintDrop ----------------------------
(***************************************************************************)
(* DROP CONSTRAINT and the reuse of a constraint id (ADR 0030 slice 9).    *)
(* One graph, one constraint name; its id outlives every DROP, so that a   *)
(* later CREATE puts a new incarnation, on a new label, under the old id.  *)
(* The recovery pass drains a Dropping constraint (Driver 3) and the       *)
(* record is removed behind a completion gate.                             *)
(*                                                                         *)
(* Mutations are numbered by the mutation ids the Router allots.  Insert m *)
(* creates one element, named m, with value Value[m] and the label of      *)
(* incarnation Label[m].  A key keeps the id of its first attempt, so ids  *)
(* need not be dispatched in order.  UniquenessTCC models the reservation  *)
(* protocol step by step; here a step stands for everything between two    *)
(* points at which the drain can tell the difference.  The lanes of a      *)
(* recovery pass run one after the other, so at most one is under way.     *)
(***************************************************************************)
EXTENDS Integers, FiniteSets, FiniteSetsExt

CONSTANTS
  Inserts, Deletes,  \* mutation ids
  Values,            \* encoded values of the constrained property
  Value,             \* Value[m]: what insert m writes
  Label,             \* Label[m]: the incarnation whose label insert m writes
  Calls, KeyOf,      \* executions of client updates, and what they carry
  Incarnations,      \* how often the constraint is created
  MaxDrops,          \* how many incarnations are dropped
  ProbePage,         \* PROBE_ROW_PAGE
  MaxFaults,         \* how often the network or a pass may fail
  None

Mutations == Inserts \cup Deletes

ASSUME DropConstants ==
  /\ Mutations \subseteq Nat \ {0} /\ Inserts \cap Deletes = {}
  /\ Value \in [Inserts -> Values]
  /\ Label \in [Inserts -> 1..Incarnations]
  /\ KeyOf \in [Calls -> Mutations]
  /\ Incarnations \in Nat /\ MaxDrops \in Nat /\ MaxFaults \in Nat
  /\ ProbePage \in Nat \ {0} /\ None \notin Inserts

VARIABLES
  con,      \* Router: the constraint record, with the incarnation it is
  rec,      \* Router: the saga record of each mutation
  res,      \* Router: the reservation of each value under the id
  rows,     \* Router: mutations with a pending-effect row
  call,     \* Router: what each client call waits for
  lap,      \* Router heap: DROP_PROBE_STATE of the constraint
  task,     \* Router: what the recovery pass waits for
  held,     \* shard: elements in canonical storage
  applied,  \* shard: mutations with a completed journal entry
  outbox,   \* shard: pinned effects carrying the id
  flight,   \* network: requests under way, with the incarnation they carry
  acks,     \* network: effects whose ack request is under way
  faults,   \* network: failures so far
  late      \* history: deletes sent under the set of a record that was gone

vars == <<con, rec, res, rows, call, lap, task, held, applied, outbox, flight,
          acks, faults, late>>
shardVars == <<held, applied, outbox>>
netVars == <<flight, acks, faults, late>>

------------------------------------------------------------------------------
(* Data.  Incarnation 0 stands for "no constraint carried".                 *)

Carried == 0..Incarnations
Effects == [op : {"acquire", "release"}, m : Mutations, owner : Inserts]
Acquire(m) == [op |-> "acquire", m |-> m, owner |-> m]
Release(m, e) == [op |-> "release", m |-> m, owner |-> e]

Reservations ==
  [state : {"Free", "Reserved", "Reclaiming", "Committed"},
   claim : Inserts \cup {None}, ack : BOOLEAN]
Free == [state |-> "Free", claim |-> None, ack |-> FALSE]
Reserved(m) == [state |-> "Reserved", claim |-> m, ack |-> FALSE]

NoLap == [row |-> 0, gen |-> 0, open |-> FALSE]
Idle == [phase |-> "idle", v |-> None, m |-> None, ahead |-> {},
         present |-> FALSE, queue |-> {}, last |-> 0, full |-> FALSE, gen |-> 0]

Terminal == {"completed", "failed"}

TypeOK ==
  /\ con \in [life : {"Absent", "Active", "Dropping"}, inc : Carried, gen : Nat]
  /\ rec \in [Mutations -> {"absent", "routing", "open", "completed", "failed"}]
  /\ res \in [Values -> Reservations]
  /\ \A v \in Values : /\ res[v].claim = None <=> res[v].state = "Free"
                       /\ res[v].ack => res[v].state = "Committed"
  /\ rows \subseteq Mutations
  /\ call \in [Calls -> [pc : {"new", "seeding", "sent", "acking", "done"},
                         k : Carried]]
  /\ lap \in [row : Nat, gen : Nat, open : BOOLEAN]
  /\ task \in [phase : {"idle", "proof", "verdict", "read"},
               v : Values \cup {None}, m : Inserts \cup {None},
               ahead : SUBSET (Calls \X Carried), present : BOOLEAN, queue : SUBSET Mutations,
               last : Nat, full : BOOLEAN, gen : Nat]
  /\ held \subseteq Inserts /\ applied \subseteq Mutations
  /\ outbox \subseteq Effects /\ acks \subseteq Effects
  /\ flight \subseteq Calls \X Carried
  /\ faults \in 0..MaxFaults
  /\ late \subseteq Deletes

Init ==
  /\ con = [life |-> "Absent", inc |-> 0, gen |-> 0]
  /\ rec = [m \in Mutations |-> "absent"]
  /\ res = [v \in Values |-> Free]
  /\ rows = {} /\ lap = NoLap /\ task = Idle
  /\ call = [c \in Calls |-> [pc |-> "new", k |-> 0]]
  /\ held = {} /\ applied = {} /\ outbox = {}
  /\ flight = {} /\ acks = {} /\ faults = 0 /\ late = {}

------------------------------------------------------------------------------
(* The constraint record.                                                   *)

(* CREATE CONSTRAINT: no record under the id, and a label nobody used yet.  *)
CreateConstraint ==
  /\ con.life = "Absent"
  /\ con.inc < Incarnations
  /\ con' = [life |-> "Active", inc |-> con.inc + 1, gen |-> 0]
  /\ UNCHANGED <<rec, res, rows, call, lap, task, shardVars, netVars>>

DropConstraint ==
  /\ con.life = "Active" /\ con.inc <= MaxDrops
  /\ con' = [con EXCEPT !.life = "Dropping"]
  /\ UNCHANGED <<rec, res, rows, call, lap, task, shardVars, netVars>>

(* Only an Active constraint makes an insert claim its value.               *)
ClaimedBy(m) ==
  IF con.life = "Active" /\ con.inc = Label[m] THEN con.inc ELSE 0
(* A delete carries the constrained properties of an Active or Dropping     *)
(* constraint.                                                              *)
ConstrainedSet == IF con.life = "Absent" THEN 0 ELSE con.inc

(* Mutant: the registration does not invalidate a lap under way.            *)
Register_NoBump(m) == rows' = rows \cup {m} /\ con' = con

(* A new pending-effect row moves the scan generation of a Dropping         *)
(* constraint.                                                              *)
Register(m) ==
  /\ rows' = rows \cup {m}
  /\ con' = [con EXCEPT !.gen = IF con.life = "Dropping" THEN @ + 1 ELSE @]

------------------------------------------------------------------------------
(* Client calls.                                                            *)

SetCall(c, pc, k) == call' = [call EXCEPT ![c] = [pc |-> pc, k |-> k]]
Open(m) == rec' = [rec EXCEPT ![m] = "open"]

TryOk(m) ==
  LET r == res[Value[m]] IN
  \/ r.state = "Free"
  \/ r.claim = m /\ r.state \in {"Reserved", "Committed"}

TryRefused(c) ==
  /\ SetCall(c, "done", 0)
  /\ UNCHANGED <<con, res, rows, flight>>

Sent(c, m, k) ==
  /\ flight' = flight \cup {<<c, k>>}
  /\ SetCall(c, "sent", k)
  /\ IF k = 0
       THEN UNCHANGED <<res, rows, con>>
       ELSE /\ res' = IF res[Value[m]].state = "Free"
                        THEN [res EXCEPT ![Value[m]] = Reserved(m)] ELSE res
            /\ Register(m)

(* Claims, envelope, Try, row and request: one message.                     *)
DispatchInsert(c) ==
  LET m == KeyOf[c]
      k == ClaimedBy(m)
  IN
  /\ call[c].pc = "new"
  /\ m \in Inserts
  /\ Label[m] <= con.inc
  /\ rec[m] \in {"absent", "open"}
  /\ Open(m)
  /\ IF k # 0 /\ ~TryOk(m) THEN TryRefused(c) ELSE Sent(c, m, k)
  /\ UNCHANGED <<lap, task, shardVars, acks, faults, late>>

Current(k) == con.life # "Absent" /\ k = con.inc

(* A delete whose constrained set is k is persisted, registered and sent.   *)
SendDelete(c, k) ==
  /\ Open(KeyOf[c])
  /\ flight' = flight \cup {<<c, k>>}
  /\ SetCall(c, "sent", k)
  /\ IF k = 0 THEN UNCHANGED <<rows, con>> ELSE Register(KeyOf[c])
  /\ late' = IF k = 0 \/ Current(k) THEN late ELSE late \cup {KeyOf[c]}
  /\ UNCHANGED <<res, lap, task, shardVars, acks, faults>>

(* The constrained set is read and used in one message, when the targets    *)
(* come from the saved envelope or need no lookup.                          *)
DispatchDelete(c) ==
  /\ call[c].pc = "new"
  /\ KeyOf[c] \in Deletes
  /\ rec[KeyOf[c]] \in {"absent", "open"}
  /\ SendDelete(c, ConstrainedSet)

(* Otherwise it is read, the index canister is asked, and it is used after. *)
SeedDelete(c) ==
  /\ call[c].pc = "new"
  /\ KeyOf[c] \in Deletes
  /\ rec[KeyOf[c]] = "absent"
  /\ rec' = [rec EXCEPT ![KeyOf[c]] = "routing"]
  /\ SetCall(c, "seeding", ConstrainedSet)
  /\ UNCHANGED <<con, res, rows, lap, task, shardVars, netVars>>

SeedFound(c) ==
  /\ call[c].pc = "seeding"
  /\ SendDelete(c, call[c].k)

(* Nothing to delete, which completes the mutation; or the lookup failed,   *)
(* which gives the key back.                                                *)
SeedNothing(c) ==
  /\ call[c].pc = "seeding"
  /\ \E s \in {"completed", "absent"} : rec' = [rec EXCEPT ![KeyOf[c]] = s]
  /\ SetCall(c, "done", 0)
  /\ UNCHANGED <<con, res, rows, lap, task, shardVars, netVars>>

------------------------------------------------------------------------------
(* The shard.                                                               *)

ShardInsert(c, k) ==
  LET m == KeyOf[c] IN
  /\ <<c, k>> \in flight
  /\ m \in Inserts \ applied
  /\ flight' = flight \ {<<c, k>>}
  /\ applied' = applied \cup {m}
  /\ held' = held \cup {m}
  /\ outbox' = IF k = 0 THEN outbox ELSE outbox \cup {Acquire(m)}
  /\ UNCHANGED <<con, rec, res, rows, call, lap, task, acks, faults, late>>

(* A Release is pinned for each removed value the carried set constrains.   *)
ShardDelete(c, k) ==
  LET m == KeyOf[c] IN
  /\ <<c, k>> \in flight
  /\ m \in Deletes \ applied
  /\ flight' = flight \ {<<c, k>>}
  /\ applied' = applied \cup {m}
  /\ \E R \in SUBSET held :
       /\ held' = held \ R
       /\ outbox' = outbox \cup {Release(m, e) : e \in {e \in R : Label[e] = k}}
  /\ UNCHANGED <<con, rec, res, rows, call, lap, task, acks, faults, late>>

ShardReplay(c, k) ==
  /\ <<c, k>> \in flight
  /\ KeyOf[c] \in applied
  /\ flight' = flight \ {<<c, k>>}
  /\ UNCHANGED <<con, rec, res, rows, call, lap, task, shardVars, acks, faults, late>>

DispatchLost(c, k) ==
  /\ <<c, k>> \in flight
  /\ faults < MaxFaults
  /\ faults' = faults + 1
  /\ flight' = flight \ {<<c, k>>}
  /\ UNCHANGED <<con, rec, res, rows, call, lap, task, shardVars, acks, late>>

AckEffect(e) ==
  /\ e \in acks
  /\ outbox' = outbox \ {e}
  /\ acks' = acks \ {e}
  /\ UNCHANGED <<con, rec, res, rows, call, lap, task, held, applied, flight, faults, late>>

AckLost(e) ==
  /\ e \in acks
  /\ faults < MaxFaults
  /\ faults' = faults + 1
  /\ acks' = acks \ {e}
  /\ UNCHANGED <<con, rec, res, rows, call, lap, task, shardVars, flight, late>>

------------------------------------------------------------------------------
(* The record completes; the call, or recovery, settles the effects.        *)

Complete(m) ==
  /\ rec[m] = "open"
  /\ m \in applied
  /\ rec' = [rec EXCEPT ![m] = "completed"]
  /\ UNCHANGED <<con, res, rows, call, lap, task, shardVars, netVars>>

Committed(m) == [state |-> "Committed", claim |-> m, ack |-> TRUE]
ClearAck(v, m) ==
  res' = IF res[v].claim = m /\ res[v].state = "Committed"
           THEN [res EXCEPT ![v].ack = FALSE] ELSE res

Confirm(c) ==
  LET m == KeyOf[c]
      v == Value[m]
  IN
  /\ call[c].pc = "sent" /\ call[c].k # 0
  /\ m \in Inserts
  /\ rec[m] = "completed"
  /\ Acquire(m) \in outbox
  /\ res[v].claim = m /\ res[v].state \in {"Reserved", "Committed"}
  /\ res' = IF res[v].state = "Reserved" THEN [res EXCEPT ![v] = Committed(m)] ELSE res
  /\ acks' = acks \cup {Acquire(m)}
  /\ SetCall(c, "acking", call[c].k)
  /\ UNCHANGED <<con, rec, rows, lap, task, shardVars, flight, faults, late>>

ConfirmAcked(c) ==
  /\ call[c].pc = "acking"
  /\ Acquire(KeyOf[c]) \notin outbox
  /\ ClearAck(Value[KeyOf[c]], KeyOf[c])
  /\ SetCall(c, "done", 0)
  /\ UNCHANGED <<con, rec, rows, lap, task, shardVars, netVars>>

(* Mutant: a Release frees whatever element owns the value now.             *)
ReleaseFrees_AnyOwner(e) ==
  res[Value[e.owner]].state = "Committed" /\ ~res[Value[e.owner]].ack

ReleaseFrees(e) ==
  LET r == res[Value[e.owner]] IN
  r.state = "Committed" /\ r.claim = e.owner /\ ~r.ack
ReleaseApplied(e) ==
  LET r == res[Value[e.owner]] IN
  r.state = "Free" \/ (r.state = "Committed" /\ r.claim # e.owner) \/ ReleaseFrees(e)

(* Driver 2 finds an effect through its row, the call through its reply.    *)
ReconcileRelease(e) ==
  /\ e \in outbox /\ e.op = "release"
  /\ rec[e.m] \in Terminal
  /\ \/ e.m \in rows /\ task.phase = "idle"
     \/ \E c \in Calls : KeyOf[c] = e.m /\ call[c].pc = "sent" /\ call[c].k # 0
  /\ ReleaseApplied(e)
  /\ res' = IF ReleaseFrees(e) THEN [res EXCEPT ![Value[e.owner]] = Free] ELSE res
  /\ acks' = acks \cup {e}
  /\ UNCHANGED <<con, rec, rows, call, lap, task, shardVars, flight, faults, late>>

EffectsOf(m) == {e \in outbox : e.m = m}

RemoveRow(m) ==
  /\ task.phase = "idle"
  /\ m \in rows
  /\ rec[m] \in Terminal
  /\ EffectsOf(m) = {}
  /\ rows' = rows \ {m}
  /\ UNCHANGED <<con, rec, res, call, lap, task, shardVars, netVars>>

------------------------------------------------------------------------------
(* Driver 1.  A reclaim proof is fenced by the Reclaiming state.            *)

StartProof(v) ==
  /\ task.phase = "idle"
  /\ res[v].state \in {"Reserved", "Reclaiming"} \/ res[v].ack
  /\ res' = [res EXCEPT ![v].state = IF @ = "Committed" THEN @ ELSE "Reclaiming"]
  /\ task' = [Idle EXCEPT !.phase = "proof", !.v = v, !.m = res[v].claim,
                          !.ahead = flight]
  /\ UNCHANGED <<con, rec, rows, call, lap, shardVars, netVars>>

(* Requests of one canister to another arrive in the order they were sent.  *)
Arrived == task.ahead \cap flight = {}

ReadProof ==
  /\ task.phase = "proof"
  /\ Arrived
  /\ task' = [task EXCEPT !.phase = "verdict", !.ahead = {},
                          !.present = Acquire(task.m) \in outbox]
  /\ UNCHANGED <<con, rec, res, rows, call, lap, shardVars, netVars>>

Fenced == res[task.v].state = "Reclaiming" /\ res[task.v].claim = task.m

ProofPresent ==
  /\ task.phase = "verdict" /\ task.present
  /\ res' = IF Fenced THEN [res EXCEPT ![task.v] = Committed(task.m)] ELSE res
  /\ acks' = acks \cup {Acquire(task.m)}
  /\ task' = Idle
  /\ UNCHANGED <<con, rec, rows, call, lap, shardVars, flight, faults, late>>

(* Absence cancels the claim together with its mutation, unless a shard has *)
(* reported its write.                                                      *)
ProofAbsent ==
  /\ task.phase = "verdict" /\ ~task.present
  /\ IF ~Fenced
       THEN ClearAck(task.v, task.m) /\ rec' = rec
     ELSE IF rec[task.m] \in {"open", "failed"}
       THEN /\ res' = [res EXCEPT ![task.v] = Free]
            /\ rec' = [rec EXCEPT ![task.m] = "failed"]
     ELSE /\ res' = [res EXCEPT ![task.v] = Reserved(task.m)]
          /\ rec' = rec
  /\ task' = Idle
  /\ UNCHANGED <<con, rows, call, lap, shardVars, netVars>>

ProofFailed ==
  /\ task.phase = "proof"
  /\ faults < MaxFaults
  /\ faults' = faults + 1
  /\ res' = IF Fenced THEN [res EXCEPT ![task.v] = Reserved(task.m)] ELSE res
  /\ task' = Idle
  /\ UNCHANGED <<con, rec, rows, call, lap, shardVars, flight, acks, late>>

------------------------------------------------------------------------------
(* Driver 3: the drain of a Dropping constraint.                            *)

(* Mutant: committed values are left to their Releases.                     *)
Purged_KeepCommitted(r) ==
  IF r.state = "Reserved" THEN [r EXCEPT !.state = "Reclaiming"] ELSE r
(* Mutant: whatever is not freed is handed to Driver 1.                     *)
Purged_KickAll(r) ==
  IF r.state = "Committed" /\ ~r.ack THEN Free
  ELSE [r EXCEPT !.state = "Reclaiming"]
(* Mutant: a committed value is freed before its Acquire is acked.          *)
Purged_AckPending(r) ==
  IF r.state = "Committed" THEN Free
  ELSE IF r.state = "Reserved" THEN [r EXCEPT !.state = "Reclaiming"] ELSE r

(* purge_constraint_reservations: committed values are freed, undecided     *)
(* ones handed to Driver 1.                                                 *)
Purged(r) ==
  IF r.state = "Committed" /\ ~r.ack THEN Free
  ELSE IF r.state = "Reserved" THEN [r EXCEPT !.state = "Reclaiming"] ELSE r

(* The rows of the lap's next page, in the order of their mutation ids.     *)
RowPage(after) ==
  {m \in rows : m > after /\ Cardinality({n \in rows : after < n /\ n <= m}) <= ProbePage}

(* A lap starts over when there is none or a row was registered since.      *)
LoadLap == IF lap.open /\ lap.gen = con.gen THEN lap
           ELSE [row |-> 0, gen |-> con.gen, open |-> TRUE]

HoldDrain == lap' = NoLap /\ task' = Idle

ScansOutbox(m) == rec[m] \in Terminal

(* The rows of page t are probed in turn: a row's mutation must be terminal *)
(* before its outbox is asked, which awaits.                                *)
ProbeRow(t, l) ==
  /\ t.queue # {}
  /\ IF ScansOutbox(Min(t.queue))
       THEN task' = [t EXCEPT !.phase = "read"] /\ lap' = l
       ELSE HoldDrain
  /\ con' = con

PageEnd(t) ==
  /\ t.queue = {} /\ t.full
  /\ lap' = [row |-> t.last, gen |-> t.gen, open |-> TRUE]
  /\ task' = Idle
  /\ con' = con

(* A short page ends the lap; the record goes if nothing was registered     *)
(* since the lap began.                                                     *)
LapEnd(t) ==
  /\ t.queue = {} /\ ~t.full
  /\ con' = IF con.gen = t.gen THEN [con EXCEPT !.life = "Absent", !.gen = 0] ELSE con
  /\ HoldDrain

(* What is done with page t up to the next await.                           *)
Probe(t, l) == ProbeRow(t, l) \/ PageEnd(t) \/ LapEnd(t)

DrainConstraint ==
  LET after == [v \in Values |-> Purged(res[v])]
      page == RowPage(LoadLap.row)
  IN
  /\ task.phase = "idle"
  /\ con.life = "Dropping"
  /\ res' = after
  /\ IF \E v \in Values : after[v].state # "Free"
       THEN lap' = NoLap /\ task' = task /\ con' = con
       ELSE Probe([Idle EXCEPT !.queue = page,
                     !.last = IF page = {} THEN 0 ELSE Max(page),
                     !.full = Cardinality(page) = ProbePage,
                     !.gen = LoadLap.gen], LoadLap)
  /\ UNCHANGED <<rec, rows, call, shardVars, netVars>>

ProbeRead ==
  /\ task.phase = "read"
  /\ IF EffectsOf(Min(task.queue)) = {}
       THEN Probe([task EXCEPT !.queue = @ \ {Min(@)}], lap)
       ELSE HoldDrain /\ con' = con
  /\ UNCHANGED <<rec, res, rows, call, shardVars, netVars>>

ProbeFailed ==
  /\ task.phase = "read"
  /\ faults < MaxFaults
  /\ faults' = faults + 1
  /\ HoldDrain
  /\ UNCHANGED <<con, rec, res, rows, call, shardVars, flight, acks, late>>

(* An upgrade loses the pass and the laps.                                  *)
Upgrade ==
  /\ faults < MaxFaults
  /\ faults' = faults + 1
  /\ task' = Idle /\ lap' = NoLap
  /\ UNCHANGED <<con, rec, res, rows, call, shardVars, flight, acks, late>>

------------------------------------------------------------------------------
CallStep(c) ==
  \/ DispatchInsert(c) \/ DispatchDelete(c)
  \/ SeedDelete(c) \/ SeedFound(c) \/ SeedNothing(c)
  \/ Confirm(c) \/ ConfirmAcked(c)
ShardStep(c, k) == ShardInsert(c, k) \/ ShardDelete(c, k) \/ ShardReplay(c, k)
ProofStep == ReadProof \/ ProofPresent \/ ProofAbsent
Fault ==
  \/ \E f \in flight : DispatchLost(f[1], f[2])
  \/ \E e \in acks : AckLost(e)
  \/ ProofFailed \/ ProbeFailed \/ Upgrade

Next ==
  \/ CreateConstraint \/ DropConstraint
  \/ \E c \in Calls : CallStep(c)
  \/ \E f \in flight : ShardStep(f[1], f[2])
  \/ \E e \in acks : AckEffect(e)
  \/ \E e \in outbox : ReconcileRelease(e)
  \/ \E m \in Mutations : Complete(m) \/ RemoveRow(m)
  \/ \E v \in Values : StartProof(v)
  \/ ProofStep \/ DrainConstraint \/ ProbeRead \/ Fault

Spec == Init /\ [][Next]_vars

------------------------------------------------------------------------------
(* Safety.                                                                  *)

(* "The id is now safe to reuse because no reservation, no pinned effect,   *)
(* and no non-terminal pending mutation can reference it": whatever carries *)
(* the id, and whatever can still pin an effect carrying it, belongs to the *)
(* incarnation the record describes.  The exception is a delete that read   *)
(* the constrained set, awaited its index lookup and registered after the   *)
(* record had gone.                                                         *)
ReusedIdIsClean ==
  /\ \A v \in Values : res[v].state # "Free" => Current(Label[res[v].claim])
  /\ \A e \in outbox : e.m \in late \/ Current(Label[e.owner])
  /\ \A f \in flight : f[2] # 0 /\ KeyOf[f[1]] \notin applied \cup late => Current(f[2])

(* While a constraint is Active its label's values are unique, whatever the *)
(* incarnation before it left behind.                                       *)
UniqueWhileActive ==
  con.life = "Active" =>
    \A a, b \in {e \in held : Label[e] = con.inc} :
      Value[a] = Value[b] => a = b

(* A Release, a reclaim proof or a drain of an earlier incarnation never    *)
(* frees a value an element of the Active one holds.                        *)
LiveIsReserved ==
  con.life = "Active" =>
    \A a \in held : Label[a] = con.inc => res[Value[a]].claim = a

(* A reservation the drain frees leaves no Acquire behind: such an effect   *)
(* is an orphan no driver may ack, and its row would hold every later DROP  *)
(* of the graph.                                                            *)
NoOrphanAcquire ==
  \A e \in outbox : e.op = "acquire" => res[Value[e.owner]].claim = e.m

------------------------------------------------------------------------------
(* Liveness.  The timer keeps passing while a lane has work, its laps visit *)
(* every reservation, row and Dropping constraint, failures end, and what   *)
(* is not lost arrives.                                                     *)
Arrival ==
  \/ \E f \in flight : ShardStep(f[1], f[2])
  \/ \E e \in acks : AckEffect(e)
  \/ \E m \in Mutations : Complete(m)
  \/ \E c \in Calls : SeedFound(c) \/ SeedNothing(c)
Fairness ==
  /\ WF_vars(Arrival) /\ WF_vars(ProofStep \/ ProbeRead)
  /\ SF_vars(\E e \in outbox : ReconcileRelease(e))
  /\ SF_vars(\E m \in Mutations : RemoveRow(m))
  /\ SF_vars(\E v \in Values : StartProof(v))
  /\ SF_vars(DrainConstraint)

FairSpec == Spec /\ Fairness

(* A registered mutation whose request was lost and is not repeated.        *)
Stranded(m) ==
  m \in rows /\ rec[m] = "open" /\ m \notin applied
  /\ \A f \in flight : KeyOf[f[1]] # m

(* DROP CONSTRAINT completes, unless a delete whose request was lost keeps  *)
(* its mutation open.                                                       *)
DropCompletes ==
  con.life = "Dropping" ~> (con.life # "Dropping" \/ \E m \in Deletes : Stranded(m))
==============================================================================
