------------------------- MODULE ConstraintDrop_proofs -------------------------
(***************************************************************************)
(* DROP CONSTRAINT and the reuse of its id, for any number of mutations,   *)
(* values, calls and incarnations.                                         *)
(*                                                                         *)
(* TInv adds to the types what a call or a proof under way is about.       *)
(* ResInv ties a reservation to the requests, effects and acks that refer  *)
(* to it, and a reclaim proof under way to the claim it is about.          *)
(* CleanInv says what a drain's lap has established: a mutation behind the *)
(* cursor has no pinned effect left and no request that could pin one,     *)
(* unless a row was registered since, which the scan generation shows.     *)
(* It excepts the deletes in `late', which registered after their record   *)
(* had gone.                                                               *)
(***************************************************************************)
EXTENDS ConstraintDrop, FiniteSetTheorems, WellFoundedInduction, TLAPS

------------------------------------------------------------------------------
(* The invariants.                                                          *)

Undecided == {"Reserved", "Reclaiming"}

(* Request f carries the claim of insert m, which is not executed yet.      *)
Carries(f, m) == KeyOf[f[1]] = m /\ f[2] # 0 /\ m \notin applied

(* An effect tells of something that happened.                              *)
Shapes ==
  /\ held \subseteq applied
  /\ \A e \in outbox \cup acks :
       /\ e.op = "acquire" => e.owner = e.m /\ e.m \in Inserts /\ e.m \in applied
       /\ e.op = "release" => e.owner \in applied /\ e.owner \notin held

(* Nothing of an incarnation exists before it does.                         *)
Fresh ==
  /\ \A m \in Inserts : rec[m] # "absent" \/ m \in applied => Label[m] <= con.inc
  /\ \A f \in flight : KeyOf[f[1]] \in Inserts => Label[KeyOf[f[1]]] <= con.inc

(* While the constraint is Active, every insert of its label claims.        *)
Claiming ==
  \A f \in flight : KeyOf[f[1]] \in Inserts =>
    /\ f[2] \in {0, Label[KeyOf[f[1]]]}
    /\ con.life = "Active" /\ Label[KeyOf[f[1]]] = con.inc => f[2] # 0

(* A claim on its way to the shard is undecided.                            *)
Flying ==
  \A f \in flight : \A m \in Inserts : Carries(f, m) =>
    res[Value[m]].claim = m /\ res[Value[m]].state \in Undecided

(* A pinned Acquire belongs to the reservation.                             *)
Pinned ==
  \A m \in Inserts : Acquire(m) \in outbox =>
    /\ res[Value[m]].claim = m
    /\ res[Value[m]].state = "Committed" => res[Value[m]].ack
    /\ Acquire(m) \in acks => res[Value[m]].state = "Committed"

(* A reservation is for the value its claim writes.                         *)
Owned ==
  \A v \in Values : res[v].state # "Free" =>
    /\ Value[res[v].claim] = v
    /\ res[v].state = "Committed" => res[v].claim \in applied

(* An element of the Active incarnation owns its value.                     *)
Live ==
  con.life = "Active" =>
    \A a \in held : Label[a] = con.inc =>
      /\ res[Value[a]].claim = a
      /\ res[Value[a]].state \in Undecided => Acquire(a) \in outbox

(* A reclaim proof is about a fenced claim, or about a decided one.         *)
Proving ==
  task.phase \in {"proof", "verdict"} =>
    /\ task.v \in Values /\ task.m \in Inserts /\ Value[task.m] = task.v
    /\ \/ Fenced
       \/ task.m \in applied /\ (Acquire(task.m) \in outbox => res[task.v].state = "Committed")
    /\ task.phase = "proof" /\ Fenced =>
         \A f \in flight : Carries(f, task.m) => f \in task.ahead
    /\ task.phase = "verdict" /\ task.present => task.m \in applied
    /\ task.phase = "verdict" /\ ~task.present =>
         /\ Acquire(task.m) \notin outbox
         /\ Fenced => \A f \in flight : ~Carries(f, task.m)

(* A failed mutation has no claim on its way.                               *)
FailedQuiet ==
  \A m \in Mutations : rec[m] = "failed" =>
    m \in Inserts /\ \A f \in flight : ~Carries(f, m)

ResInv ==
  /\ Shapes /\ Fresh /\ Claiming /\ Flying /\ Pinned
  /\ Owned /\ Live /\ Proving /\ FailedQuiet

(* Mutation m can no longer leave anything that carries the id.             *)
Quiet(m) == \A f \in flight : ~Carries(f, m)
Clean(m) == m \in late \/ (EffectsOf(m) = {} /\ Quiet(m))

(* A delete that asks the index holds its key, of which nothing is sent.    *)
Lookups ==
  /\ \A c \in Calls : call[c].pc = "seeding" => rec[KeyOf[c]] = "routing"
  /\ \A c, d \in Calls :
       call[c].pc = "seeding" /\ call[d].pc = "seeding" /\ KeyOf[c] = KeyOf[d] => c = d
  /\ \A m \in Mutations :
       rec[m] \in {"absent", "routing"} \/ (rec[m] = "completed" /\ m \notin applied)
       => Quiet(m)

(* Only a registered mutation is not clean.                                 *)
Registered == \A m \in Mutations \ rows : Clean(m)

(* What a lap put behind it is clean while the scan generation stands.      *)
LapClean(l) ==
  l.open =>
    /\ con.life = "Dropping" /\ l.gen <= con.gen
    /\ l.gen = con.gen => \A m \in Mutations : m <= l.row => Clean(m)

(* And so is what was probed of a page, and what it holds no row of.        *)
PageClean(t) ==
  /\ con.life = "Dropping" /\ t.gen <= con.gen
  /\ t.gen = con.gen =>
       \A m \in Mutations \ t.queue : m <= t.last \/ ~t.full => Clean(m)

LapInv == LapClean(lap)
PageInv ==
  task.phase = "read" =>
    /\ PageClean(task)
    /\ \A v \in Values : res[v].state = "Free"
    /\ task.queue # {} /\ ScansOutbox(Min(task.queue))

CleanInv == Registered /\ LapInv /\ PageInv /\ ReusedIdIsClean

(* The two outcomes of the Try of an insert.                                *)
RefusedInsert(c) ==
  LET m == KeyOf[c] IN
  /\ call[c].pc = "new"
  /\ m \in Inserts
  /\ Label[m] <= con.inc
  /\ rec[m] \in {"absent", "open"}
  /\ ClaimedBy(m) # 0
  /\ ~TryOk(m)
  /\ Open(m)
  /\ SetCall(c, "done", 0)
  /\ UNCHANGED <<con, res, rows, lap, task, shardVars, netVars>>
SentInsert(c) ==
  LET m == KeyOf[c]
      k == ClaimedBy(m)
  IN
  /\ call[c].pc = "new"
  /\ m \in Inserts
  /\ Label[m] <= con.inc
  /\ rec[m] \in {"absent", "open"}
  /\ Open(m)
  /\ flight' = flight \cup {<<c, k>>}
  /\ SetCall(c, "sent", k)
  /\ IF k = 0
       THEN UNCHANGED <<res, rows, con>>
       ELSE /\ TryOk(m)
            /\ res' = IF res[Value[m]].state = "Free"
                        THEN [res EXCEPT ![Value[m]] = Reserved(m)] ELSE res
            /\ Register(m)
  /\ UNCHANGED <<lap, task, shardVars, acks, faults, late>>

(* An insert is refused or sent.                                            *)
LEMMA InsertCases ==
  ASSUME NEW c, DispatchInsert(c)
  PROVE  RefusedInsert(c) \/ SentInsert(c)
<1>1. CASE ClaimedBy(KeyOf[c]) # 0 /\ ~TryOk(KeyOf[c])
  BY <1>1 DEF DispatchInsert, RefusedInsert, TryRefused, netVars
<1>2. CASE ~(ClaimedBy(KeyOf[c]) # 0 /\ ~TryOk(KeyOf[c]))
  BY <1>2 DEF DispatchInsert, SentInsert, Sent
<1>. QED
  BY <1>1, <1>2

------------------------------------------------------------------------------
(* Data.                                                                    *)

(* What DropConstants says about keys, labels and bounds.                   *)
LEMMA ConstantTypes ==
  /\ \A c \in Calls : KeyOf[c] \in Mutations
  /\ \A m \in Inserts : Value[m] \in Values /\ Label[m] \in 1..Incarnations /\ m \in Mutations
  /\ \A m \in Deletes : m \in Mutations /\ m \notin Inserts
  /\ \A m \in Mutations : m \in Nat /\ m # 0
  /\ Incarnations \in Nat /\ MaxFaults \in Nat /\ ProbePage \in Nat \ {0}
  /\ None \notin Inserts
BY DropConstants DEF Mutations

(* The effects, by their fields.                                            *)
LEMMA AcquireFields ==
  ASSUME NEW m
  PROVE  /\ Acquire(m).op = "acquire" /\ Acquire(m).m = m /\ Acquire(m).owner = m
         /\ m \in Inserts => Acquire(m) \in Effects
         /\ \A e \in Effects : e.op = "acquire" /\ e.owner = e.m => e = Acquire(e.m)
BY DEF Acquire, Effects, Mutations

(* A Release names its mutation and the owner it frees.                     *)
LEMMA ReleaseFields ==
  ASSUME NEW m, NEW o
  PROVE  /\ Release(m, o).op = "release" /\ Release(m, o).m = m /\ Release(m, o).owner = o
         /\ m \in Mutations /\ o \in Inserts => Release(m, o) \in Effects
BY DEF Release, Effects, Mutations

(* The fields of an effect.                                                 *)
LEMMA EffectFields ==
  ASSUME NEW e \in Effects
  PROVE  /\ e.op \in {"acquire", "release"} /\ e.m \in Mutations /\ e.owner \in Inserts
BY DEF Effects

(* The three reservations the steps write.                                  *)
LEMMA ReservationFields ==
  /\ Free \in Reservations /\ Free.state = "Free" /\ Free.claim = None /\ ~Free.ack
  /\ \A m \in Inserts :
       /\ Reserved(m) \in Reservations /\ Committed(m) \in Reservations
       /\ Reserved(m).state = "Reserved" /\ Reserved(m).claim = m /\ ~Reserved(m).ack
       /\ Committed(m).state = "Committed" /\ Committed(m).claim = m /\ Committed(m).ack
BY DEF Free, Reserved, Committed, Reservations

(* The natural numbers are well ordered.                                    *)
LEMMA LeastNat ==
  ASSUME NEW S \in SUBSET Nat, S # {}
  PROVE  \E x \in S : \A y \in S : x <= y
<1>. DEFINE R == OpToRel(<, Nat)
<1>1. IsWellFoundedOn(R, Nat)
  BY NatLessThanWellFounded
<1>2. \A x, y \in Nat : x < y => <<x, y>> \in R
  BY DEF OpToRel
<1>. HIDE DEF R
<1>3. PICK m \in S : \A j \in S : <<j, m>> \notin R
  BY <1>1, WFMin
<1>4. \A j \in S : m <= j
  <2>. TAKE j \in S
  <2>1. j \in Nat /\ m \in Nat
    OBVIOUS
  <2>2. ~(j < m)
    BY <1>2, <1>3, <2>1
  <2>. QED
    BY <2>1, <2>2
<1>. QED
  BY <1>4

(* A set of mutation ids has a least and, when it is finite, a greatest one. *)
LEMMA LeastIn ==
  ASSUME NEW S \in SUBSET Mutations, S # {}
  PROVE  Min(S) \in S /\ \A n \in S : Min(S) <= n
<1>1. S \in SUBSET Nat
  BY ConstantTypes
<1>. QED
  BY <1>1, LeastNat DEF Min

(* A finite nonempty set of mutations has a maximum.                        *)
LEMMA GreatestIn ==
  ASSUME NEW S \in SUBSET Mutations, S # {}, IsFiniteSet(S)
  PROVE  Max(S) \in S /\ \A n \in S : n <= Max(S)
<1>. DEFINE above(m) == {n \in S : n >= m}
            sizes == {Cardinality(above(m)) : m \in S}
<1>1. S \in SUBSET Nat
  BY ConstantTypes
<1>2. ASSUME NEW m \in S PROVE IsFiniteSet(above(m)) /\ Cardinality(above(m)) \in Nat
  <2>1. above(m) \in SUBSET S
    OBVIOUS
  <2>. QED
    BY <2>1, FS_Subset, FS_CardinalityType
<1>3. sizes \in SUBSET Nat /\ sizes # {}
  BY <1>2
<1>4. PICK s \in sizes : \A y \in sizes : s <= y
  <2>. HIDE DEF sizes
  <2>. QED BY <1>3, LeastNat
<1>5. PICK x \in S : s = Cardinality(above(x))
  BY <1>4
<1>6. ASSUME NEW y \in S, ~(y <= x) PROVE FALSE
  <2>1. x \in Nat /\ y \in Nat
    BY <1>1
  <2>2. above(y) \in SUBSET above(x) /\ x \in above(x) /\ x \notin above(y)
    <3>1. ASSUME NEW n \in above(y) PROVE n \in above(x)
      BY <1>1, <1>6, <2>1
    <3>2. x \in above(x)
      BY <2>1
    <3>3. x \notin above(y)
      BY <1>6, <2>1
    <3>. HIDE DEF above
    <3>. QED BY <3>1, <3>2, <3>3
  <2>3. /\ Cardinality(above(y)) <= Cardinality(above(x))
        /\ Cardinality(above(y)) # Cardinality(above(x))
    <3>. HIDE DEF above
    <3>. QED BY <1>2, <2>2, FS_Subset
  <2>4. Cardinality(above(x)) <= Cardinality(above(y))
    BY <1>4, <1>5
  <2>. QED
    <3>. HIDE DEF above
    <3>. QED BY <1>2, <2>3, <2>4
<1>. QED
  BY <1>1, <1>6 DEF Max

------------------------------------------------------------------------------
(* Types.                                                                   *)

(* The fields of an idle pass and of an unopened lap.                       *)
LEMMA IdleTask ==
  /\ Idle.phase = "idle" /\ Idle.v = None /\ Idle.m = None /\ Idle.ahead = {}
  /\ Idle.queue = {} /\ Idle.last = 0 /\ Idle.gen = 0
  /\ Idle.present = FALSE /\ Idle.full = FALSE
  /\ NoLap.row = 0 /\ NoLap.gen = 0 /\ NoLap.open = FALSE
  /\ NoLap \in [row : Nat, gen : Nat, open : BOOLEAN]
BY DEF Idle, NoLap

(* The claim of a request is an incarnation.                                *)
LEMMA CarriedTypes ==
  ASSUME TypeOK
  PROVE  /\ con.life \in {"Absent", "Active", "Dropping"} /\ con.inc \in Carried
         /\ con.gen \in Nat /\ con.inc \in Nat
         /\ \A m \in Inserts : ClaimedBy(m) \in Carried
         /\ ConstrainedSet \in Carried
         /\ \A c \in Calls : call[c].k \in Carried
BY ConstantTypes DEF TypeOK, ClaimedBy, ConstrainedSet, Carried

(* Registering a discovery row keeps the types.                             *)
LEMMA RegisterTypes ==
  ASSUME TypeOK, NEW m \in Mutations, Register(m)
  PROVE  /\ rows' \subseteq Mutations
         /\ con' \in [life : {"Absent", "Active", "Dropping"}, inc : Carried, gen : Nat]
BY CarriedTypes DEF TypeOK, Register

(* The components of the type invariant an action may change.               *)
ResTyped(r) ==
  /\ r \in [Values -> Reservations]
  /\ \A v \in Values : /\ r[v].claim = None <=> r[v].state = "Free"
                       /\ r[v].ack => r[v].state = "Committed"
TaskType ==
  [phase : {"idle", "proof", "verdict", "read"},
   v : Values \cup {None}, m : Inserts \cup {None},
   ahead : SUBSET (Calls \X Carried), present : BOOLEAN, queue : SUBSET Mutations,
   last : Nat, full : BOOLEAN, gen : Nat]

LapType == [row : Nat, gen : Nat, open : BOOLEAN]
ConType == [life : {"Absent", "Active", "Dropping"}, inc : Carried, gen : Nat]
(* A proof under way is about a claim.                                      *)
ProofTyped ==
  task.phase \in {"proof", "verdict"} => task.v \in Values /\ task.m \in Inserts
(* Only an insert is confirmed, only a delete looks its targets up.         *)
CallTyped ==
  \A c \in Calls : /\ call[c].pc = "acking" => KeyOf[c] \in Inserts
                   /\ call[c].pc = "seeding" => KeyOf[c] \in Deletes
TInv == TypeOK /\ ProofTyped /\ CallTyped /\ IsFiniteSet(rows)

(* The records the actions build.                                           *)
LEMMA TaskRecords ==
  /\ Idle \in TaskType
  /\ \A v \in Values, m \in Inserts, f \in SUBSET (Calls \X Carried) :
       [Idle EXCEPT !.phase = "proof", !.v = v, !.m = m, !.ahead = f] \in TaskType
  /\ \A q \in SUBSET Mutations, last \in Nat, full \in BOOLEAN, g \in Nat :
       [Idle EXCEPT !.queue = q, !.last = last, !.full = full, !.gen = g] \in TaskType
BY DEF TaskType, Idle

(* The updates of a task stay tasks.                                        *)
LEMMA TaskUpdates ==
  ASSUME NEW t \in TaskType
  PROVE  /\ \A b \in BOOLEAN :
              [t EXCEPT !.phase = "verdict", !.ahead = {}, !.present = b] \in TaskType
         /\ \A n : [t EXCEPT !.queue = @ \ {n}] \in TaskType
         /\ [t EXCEPT !.phase = "read"] \in TaskType
<1>1. ASSUME NEW n PROVE [t EXCEPT !.queue = @ \ {n}] \in TaskType
  <2>1. t.queue \ {n} \in SUBSET Mutations
    BY DEF TaskType
  <2>. QED
    BY <2>1 DEF TaskType
<1>. QED
  BY <1>1 DEF TaskType

(* Clearing an ack marker keeps the types.                                  *)
LEMMA ClearAckTypes ==
  ASSUME TypeOK, NEW v \in Values, NEW m, ClearAck(v, m)
  PROVE  ResTyped(res)'
<1>1. [res[v] EXCEPT !.ack = FALSE] \in Reservations
  BY DEF TypeOK, Reservations
<1>2. res' \in [Values -> Reservations]
  BY <1>1 DEF TypeOK, ClearAck
<1>3. \A w \in Values : /\ res'[w].claim = res[w].claim /\ res'[w].state = res[w].state
                        /\ res'[w].ack => res[w].ack
  BY DEF TypeOK, ClearAck, Reservations
<1>. QED
  BY <1>2, <1>3 DEF ResTyped, TypeOK

(* The types hold at the start.                                             *)
LEMMA TypeInit == Init => TInv
BY ConstantTypes, ReservationFields, IdleTask, FS_EmptySet DEF Init, TInv, ProofTyped, CallTyped,
   TypeOK, Carried, Idle

(* Types through a step of a call.                                          *)
LEMMA TypeClient ==
  ASSUME TypeOK, CallTyped, NEW c \in Calls, CallStep(c)
  PROVE  TypeOK'
<1>. USE ConstantTypes, CarriedTypes, ReservationFields, AcquireFields
<1>1. CASE SentInsert(c)
  <2>1. KeyOf[c] \in Inserts /\ KeyOf[c] \in Mutations
    BY <1>1 DEF SentInsert
  <2>2. ResTyped(res)'
    BY <1>1, <2>1 DEF TypeOK, SentInsert, ResTyped
  <2>3. rows' \subseteq Mutations /\ con' \in ConType
    BY <1>1, <2>1, RegisterTypes DEF TypeOK, SentInsert, ConType
  <2>4. /\ rec' \in [Mutations -> {"absent", "routing", "open", "completed", "failed"}]
        /\ call' \in [Calls -> [pc : {"new", "seeding", "sent", "acking", "done"}, k : Carried]]
        /\ flight' \subseteq Calls \X Carried
    BY <1>1, <2>1 DEF TypeOK, SentInsert, Open, SetCall
  <2>. QED
    BY <1>1, <2>2, <2>3, <2>4 DEF TypeOK, SentInsert, ResTyped, ConType, shardVars
<1>2. CASE RefusedInsert(c)
  BY <1>2 DEF TypeOK, RefusedInsert, Open, SetCall, shardVars, netVars, Carried
<1>3. CASE DispatchDelete(c)
  BY <1>3, RegisterTypes DEF TypeOK, DispatchDelete, SendDelete, Open, SetCall, shardVars
<1>4. CASE SeedDelete(c)
  BY <1>4 DEF TypeOK, SeedDelete, SetCall, shardVars, netVars
<1>5. CASE SeedFound(c)
  <2>1. KeyOf[c] \in Deletes /\ KeyOf[c] \in Mutations /\ call[c].k \in Carried
    BY <1>5 DEF CallTyped, SeedFound
  <2>2. rows' \subseteq Mutations /\ con' \in ConType
    BY <1>5, <2>1, RegisterTypes DEF TypeOK, SeedFound, SendDelete, ConType
  <2>3. late' \subseteq Deletes
    BY <1>5, <2>1 DEF TypeOK, SeedFound, SendDelete
  <2>. QED
    BY <1>5, <2>1, <2>2, <2>3
       DEF TypeOK, SeedFound, SendDelete, Open, SetCall, ConType, shardVars
<1>6. CASE SeedNothing(c)
  BY <1>6 DEF TypeOK, SeedNothing, SetCall, shardVars, netVars, Carried
<1>7. CASE Confirm(c)
  BY <1>7 DEF TypeOK, Confirm, SetCall, shardVars
<1>8. CASE ConfirmAcked(c)
  <2>1. ResTyped(res)'
    BY <1>8, ClearAckTypes DEF ConfirmAcked, CallTyped
  <2>. QED
    BY <1>8, <2>1 DEF TypeOK, ConfirmAcked, SetCall, ResTyped, shardVars, netVars, Carried
<1>. QED
  BY <1>1, <1>2, <1>3, <1>4, <1>5, <1>6, <1>7, <1>8, InsertCases DEF CallStep

(* Types through a step of a shard, or a lost request.                      *)
LEMMA TypeShard ==
  ASSUME TypeOK, NEW c \in Calls, NEW k \in Carried, ShardStep(c, k) \/ DispatchLost(c, k)
  PROVE  TypeOK'
<1>. USE ConstantTypes
<1>1. CASE ShardInsert(c, k)
  BY <1>1, AcquireFields DEF TypeOK, ShardInsert
<1>2. CASE ShardDelete(c, k)
  <2>1. PICK R \in SUBSET held :
          /\ held' = held \ R
          /\ outbox' = outbox \cup {Release(KeyOf[c], e) : e \in {e \in R : Label[e] = k}}
    BY <1>2 DEF ShardDelete
  <2>2. \A e \in R : Release(KeyOf[c], e) \in Effects
    BY ReleaseFields DEF TypeOK
  <2>3. outbox' \subseteq Effects
    BY <2>1, <2>2 DEF TypeOK
  <2>4. held' \subseteq Inserts
    BY <2>1 DEF TypeOK
  <2>. QED
    BY <1>2, <2>3, <2>4 DEF TypeOK, ShardDelete
<1>3. CASE ShardReplay(c, k)
  BY <1>3 DEF TypeOK, ShardReplay, shardVars
<1>4. CASE DispatchLost(c, k)
  BY <1>4 DEF TypeOK, DispatchLost, shardVars
<1>. QED
  BY <1>1, <1>2, <1>3, <1>4 DEF ShardStep

(* Types through the acks and Releases of effects.                          *)
LEMMA TypeEffects ==
  ASSUME TypeOK, NEW e \in Effects, AckEffect(e) \/ AckLost(e) \/ ReconcileRelease(e)
  PROVE  TypeOK'
<1>. USE ConstantTypes, ReservationFields, EffectFields
<1>1. CASE AckEffect(e)
  BY <1>1 DEF TypeOK, AckEffect
<1>2. CASE AckLost(e)
  BY <1>2 DEF TypeOK, AckLost, shardVars
<1>3. CASE ReconcileRelease(e)
  BY <1>3 DEF TypeOK, ReconcileRelease, shardVars
<1>. QED
  BY <1>1, <1>2, <1>3

(* Of a reservation only the state or the ack mark changes.                 *)
LEMMA ResetTyped ==
  ASSUME TypeOK, NEW v \in Values
  PROVE  /\ \A r \in Reservations :
              (r.claim = None <=> r.state = "Free") /\ (r.ack => r.state = "Committed")
              => ResTyped([res EXCEPT ![v] = r])
         /\ ResTyped(res)
         /\ res[v] \in Reservations
BY DEF TypeOK, ResTyped

(* Types through the reclaim proof.                                         *)
LEMMA TypeProof ==
  ASSUME TInv, ProofStep \/ ProofFailed \/ \E v \in Values : StartProof(v)
  PROVE  TypeOK' /\ ProofTyped'
<1>. USE ConstantTypes, ReservationFields, IdleTask DEF TInv
<1>0. Idle \in TaskType
  BY DEF Idle, TaskType
<1>1. CASE \E v \in Values : StartProof(v)
  <2>1. PICK v \in Values : StartProof(v)
    BY <1>1
  <2>. DEFINE r == [res[v] EXCEPT !.state = IF @ = "Committed" THEN @ ELSE "Reclaiming"]
  <2>2. res[v].claim \in Inserts
    BY <2>1 DEF TypeOK, StartProof, Reservations
  <2>3. /\ r \in Reservations /\ r.claim = res[v].claim /\ r.ack = res[v].ack
        /\ r.state = IF res[v].state = "Committed" THEN "Committed" ELSE "Reclaiming"
    BY <2>1 DEF TypeOK, Reservations
  <2>4. r.ack => r.state = "Committed"
    BY <2>3 DEF TypeOK
  <2>5. res' = [res EXCEPT ![v] = r]
    BY <2>1 DEF StartProof
  <2>6. ResTyped(res)'
    <3>. HIDE DEF r
    <3>. QED BY <2>2, <2>3, <2>4, <2>5, ResetTyped
  <2>7. (task \in TaskType)' /\ ProofTyped'
    <3>1. flight \in SUBSET (Calls \X Carried)
      BY DEF TypeOK
    <3>2. task' = [Idle EXCEPT !.phase = "proof", !.v = v, !.m = res[v].claim, !.ahead = flight]
      BY <2>1 DEF StartProof
    <3>3. task' \in TaskType
      BY <2>2, <3>1, <3>2, TaskRecords
    <3>. QED
      BY <2>2, <3>2, <3>3 DEF ProofTyped, Idle
  <2>. QED
    BY <2>1, <2>6, <2>7 DEF TypeOK, StartProof, ResTyped, TaskType, shardVars, netVars
<1>2. CASE ReadProof
  <2>1. (task \in TaskType)' /\ ProofTyped'
    <3>1. (Acquire(task.m) \in outbox) \in BOOLEAN /\ task \in TaskType
      BY DEF TypeOK, TaskType
    <3>2. (task \in TaskType)'
      BY <1>2, <3>1, TaskUpdates, Zenon DEF ReadProof
    <3>. QED
      BY <1>2, <3>1, <3>2 DEF ReadProof, ProofTyped, TaskType
  <2>. QED
    BY <1>2, <2>1 DEF TypeOK, ReadProof, TaskType, shardVars, netVars
<1>3. CASE ProofPresent
  <2>1. task.v \in Values /\ task.m \in Inserts /\ task' \in TaskType /\ ProofTyped'
    BY <1>0, <1>3 DEF ProofPresent, ProofTyped
  <2>2. ResTyped(res)'
    BY <1>3, <2>1, ResetTyped DEF ProofPresent
  <2>. QED
    BY <1>3, <2>1, <2>2, AcquireFields DEF TypeOK, ProofPresent, ResTyped, TaskType, shardVars
<1>4. CASE ProofAbsent
  <2>1. task.v \in Values /\ task.m \in Inserts /\ task' \in TaskType /\ ProofTyped'
    BY <1>0, <1>4 DEF ProofAbsent, ProofTyped
  <2>2. rec' \in [Mutations -> {"absent", "routing", "open", "completed", "failed"}]
    BY <1>4, <2>1 DEF TypeOK, ProofAbsent
  <2>3. CASE Fenced
    <3>1. ResTyped(res)'
      BY <1>4, <2>1, <2>3, ResetTyped DEF ProofAbsent
    <3>. QED
      BY <1>4, <2>1, <2>2, <3>1 DEF TypeOK, ProofAbsent, ResTyped, TaskType, shardVars, netVars
  <2>4. CASE ~Fenced
    <3>1. ClearAck(task.v, task.m)
      BY <1>4, <2>4 DEF ProofAbsent
    <3>2. ResTyped(res)'
      BY <2>1, <3>1, ClearAckTypes
    <3>. QED
      BY <1>4, <2>1, <2>2, <3>2 DEF TypeOK, ProofAbsent, ResTyped, TaskType, shardVars, netVars
  <2>. QED
    BY <2>3, <2>4
<1>5. CASE ProofFailed
  <2>1. task.v \in Values /\ task.m \in Inserts /\ task' \in TaskType /\ ProofTyped'
    BY <1>0, <1>5 DEF ProofFailed, ProofTyped
  <2>2. ResTyped(res)'
    BY <1>5, <2>1, ResetTyped DEF ProofFailed
  <2>. QED
    BY <1>5, <2>1, <2>2 DEF TypeOK, ProofFailed, ResTyped, TaskType, shardVars
<1>. QED
  BY <1>1, <1>2, <1>3, <1>4, <1>5 DEF ProofStep

(* A purged table is a table.                                               *)
LEMMA PurgedTypes ==
  ASSUME TypeOK
  PROVE  ResTyped([v \in Values |-> Purged(res[v])])
<1>1. ASSUME NEW v \in Values
      PROVE  /\ Purged(res[v]) \in Reservations
             /\ Purged(res[v]).claim = None <=> Purged(res[v]).state = "Free"
             /\ Purged(res[v]).ack => Purged(res[v]).state = "Committed"
  BY ReservationFields DEF TypeOK, Purged, Reservations
<1>. QED
  BY <1>1 DEF ResTyped

(* The page a drain begins with.                                            *)
PageTop(page) == IF page = {} THEN 0 ELSE Max(page)

(* Up to its next await a pass reads an outbox, or stops; only the record   *)
(* may go.                                                                  *)
LEMMA ProbeKeeps ==
  ASSUME TypeOK, NEW t \in TaskType, NEW l \in LapType, Probe(t, l)
  PROVE  /\ con' \in ConType /\ con'.inc = con.inc /\ con'.life \in {con.life, "Absent"}
         /\ task' \in TaskType /\ task'.phase \in {"idle", "read"}
         /\ lap' \in LapType
<1>. USE IdleTask, TaskRecords
<1>1. CASE HoldDrain /\ con' = con
  BY <1>1 DEF HoldDrain, TypeOK, ConType, LapType
<1>2. CASE ProbeRow(t, l)
  <2>1. CASE task' = [t EXCEPT !.phase = "read"] /\ lap' = l
    <3>1. task' \in TaskType
      BY <2>1, TaskUpdates
    <3>2. task'.phase = "read"
      BY <2>1 DEF TaskType
    <3>. QED
      BY <1>2, <2>1, <3>1, <3>2 DEF ProbeRow, TypeOK, ConType
  <2>. QED
    BY <1>1, <1>2, <2>1 DEF ProbeRow
<1>3. CASE PageEnd(t)
  BY <1>3 DEF PageEnd, TypeOK, ConType, LapType, TaskType
<1>4. CASE LapEnd(t)
  BY <1>4 DEF LapEnd, HoldDrain, TypeOK, ConType, LapType
<1>. QED
  BY <1>2, <1>3, <1>4 DEF Probe

(* A drain waits for reservations, or takes a page in hand.                 *)
LEMMA DrainPage ==
  ASSUME TInv, DrainConstraint
  PROVE  /\ task.phase = "idle" /\ con.life = "Dropping" /\ LoadLap \in LapType
         /\ \A v \in Values : res'[v] = Purged(res[v])
         /\ res' = [v \in Values |-> Purged(res[v])]
         /\ \/ task' = task /\ lap' = NoLap /\ con' = con
            \/ /\ \A v \in Values : res'[v].state = "Free"
               /\ \E t \in TaskType :
                    /\ Probe(t, LoadLap)
                    /\ t.queue = RowPage(LoadLap.row) /\ t.last = PageTop(t.queue)
                    /\ t.full <=> Cardinality(t.queue) = ProbePage
                    /\ t.gen = LoadLap.gen
<1>1. LoadLap \in LapType
  BY CarriedTypes DEF LoadLap, TInv, TypeOK, LapType
<1>2. /\ task.phase = "idle" /\ con.life = "Dropping"
      /\ res' = [v \in Values |-> Purged(res[v])]
  BY DEF DrainConstraint
<1>3. \A v \in Values : res'[v] = Purged(res[v])
  BY <1>2
<1>. DEFINE page == RowPage(LoadLap.row)
            full == Cardinality(page) = ProbePage
<1>4. CASE \E v \in Values : Purged(res[v]).state # "Free"
  <2>1. task' = task /\ lap' = NoLap /\ con' = con
    BY <1>4 DEF DrainConstraint
  <2>. QED
    BY <1>1, <1>2, <1>3, <2>1
<1>5. CASE ~\E v \in Values : Purged(res[v]).state # "Free"
  <2>1. PICK b \in BOOLEAN : b = full
    OBVIOUS
  <2>. DEFINE t == [Idle EXCEPT !.queue = page, !.last = PageTop(page),
                                !.full = b, !.gen = LoadLap.gen]
  <2>2. Probe(t, LoadLap)
    BY <1>5, <2>1 DEF DrainConstraint, PageTop
  <2>3. page \in SUBSET Mutations /\ IsFiniteSet(page)
    <3>1. page \in SUBSET rows
      BY DEF RowPage
    <3>. QED
      BY <3>1, FS_Subset DEF TInv, TypeOK
  <2>4. PageTop(page) \in Nat
    <3>. HIDE DEF page
    <3>. QED BY <2>3, GreatestIn, ConstantTypes DEF PageTop
  <2>5. t \in TaskType
    <3>. HIDE DEF page
    <3>. QED BY <1>1, <2>3, <2>4, TaskRecords DEF LapType
  <2>6. t.queue = page /\ t.last = PageTop(page) /\ t.full = b /\ t.gen = LoadLap.gen
    <3>. HIDE DEF page
    <3>. QED BY DEF Idle
  <2>7. t.full <=> Cardinality(t.queue) = ProbePage
    <3>. HIDE DEF t
    <3>. QED BY <2>1, <2>6
  <2>8. \A v \in Values : res'[v].state = "Free"
    BY <1>3, <1>5
  <2>. HIDE DEF t
  <2>. QED
    BY <1>1, <1>2, <1>3, <2>2, <2>5, <2>6, <2>7, <2>8
<1>. QED
  BY <1>4, <1>5

(* The answer about a row holds the drain, or the page shrinks.             *)
LEMMA ReadPage ==
  ASSUME TInv, ProbeRead
  PROVE  \/ HoldDrain /\ con' = con
         \/ /\ EffectsOf(Min(task.queue)) = {}
            /\ \E t \in TaskType :
                 /\ Probe(t, lap)
                 /\ t.queue = task.queue \ {Min(task.queue)} /\ t.last = task.last
                 /\ t.full = task.full /\ t.gen = task.gen
<1>1. task \in TaskType
  BY DEF TInv, TypeOK, TaskType
<1>. DEFINE t == [task EXCEPT !.queue = @ \ {Min(@)}]
<1>2. PICK n : n = Min(task.queue)
  OBVIOUS
<1>3. t = [task EXCEPT !.queue = @ \ {n}]
  BY <1>1, <1>2 DEF TaskType
<1>4. t \in TaskType
  BY <1>1, <1>3, TaskUpdates
<1>5. t.queue = task.queue \ {n} /\ t.last = task.last /\ t.full = task.full /\ t.gen = task.gen
  BY <1>1, <1>3 DEF TaskType
<1>6. CASE EffectsOf(Min(task.queue)) = {}
  <2>1. Probe(t, lap)
    BY <1>6 DEF ProbeRead
  <2>. HIDE DEF t
  <2>. QED
    BY <1>2, <1>4, <1>5, <1>6, <2>1
<1>7. CASE EffectsOf(Min(task.queue)) # {}
  BY <1>7 DEF ProbeRead
<1>. QED
  BY <1>6, <1>7

(* What a drain may do to the record and to the pass.                       *)
LEMMA DrainKeeps ==
  ASSUME TInv, DrainConstraint \/ ProbeRead
  PROVE  /\ con' \in ConType /\ con'.inc = con.inc /\ con'.life \in {con.life, "Absent"}
         /\ task' \in TaskType /\ task'.phase \in {"idle", "read"}
         /\ lap' \in LapType
<1>0. con \in ConType /\ task \in TaskType /\ lap \in LapType
  BY DEF TInv, TypeOK, ConType, TaskType, LapType
<1>1. CASE DrainConstraint
  <2>1. CASE task' = task /\ lap' = NoLap /\ con' = con
    BY <1>0, <1>1, <2>1, DrainPage, IdleTask DEF LapType
  <2>2. CASE \E t \in TaskType : Probe(t, LoadLap)
    BY <1>1, <2>2, DrainPage, ProbeKeeps DEF TInv
  <2>. QED
    BY <1>1, <2>1, <2>2, DrainPage
<1>2. CASE ProbeRead
  <2>1. CASE HoldDrain /\ con' = con
    BY <1>0, <2>1, IdleTask, TaskRecords DEF HoldDrain, LapType
  <2>2. CASE \E t \in TaskType : Probe(t, lap)
    BY <1>0, <2>2, ProbeKeeps DEF TInv
  <2>. QED
    BY <1>2, <2>1, <2>2, ReadPage
<1>. QED
  BY <1>1, <1>2

(* Types through the drain.                                                 *)
LEMMA TypeDrain ==
  ASSUME TInv, DrainConstraint \/ ProbeRead \/ ProbeFailed \/ Upgrade
  PROVE  TypeOK' /\ ProofTyped'
<1>. USE ConstantTypes, ReservationFields, IdleTask DEF TInv
<1>0. Idle \in TaskType /\ (HoldDrain => task' \in TaskType /\ ProofTyped' /\ lap' = NoLap)
  BY DEF Idle, TaskType, HoldDrain, ProofTyped
<1>1. CASE DrainConstraint
  <2>1. /\ con' \in ConType /\ task' \in TaskType /\ lap' \in LapType /\ ProofTyped'
    BY <1>1, DrainKeeps DEF ProofTyped
  <2>2. ResTyped(res)'
    BY <1>1, PurgedTypes, DrainPage
  <2>. QED
    BY <1>1, <2>1, <2>2
       DEF TypeOK, DrainConstraint, ResTyped, ConType, TaskType, LapType, shardVars, netVars
<1>2. CASE ProbeRead
  <2>1. /\ con' \in ConType /\ task' \in TaskType /\ lap' \in LapType /\ ProofTyped'
    BY <1>2, DrainKeeps DEF ProofTyped
  <2>. QED
    BY <1>2, <2>1 DEF TypeOK, ProbeRead, ConType, TaskType, LapType, shardVars, netVars
<1>3. CASE ProbeFailed
  BY <1>0, <1>3 DEF TypeOK, ProbeFailed, ProofTyped, TaskType, shardVars
<1>4. CASE Upgrade
  BY <1>0, <1>4 DEF TypeOK, Upgrade, ProofTyped, TaskType, shardVars
<1>. QED
  BY <1>1, <1>2, <1>3, <1>4

(* There are always finitely many rows, so a page has a last one.           *)
LEMMA FiniteRows ==
  ASSUME TInv, [Next]_vars
  PROVE  IsFiniteSet(rows)'
<1>1. \/ UNCHANGED rows
      \/ \E m \in Mutations : rows' = rows \cup {m}
      \/ \E m \in Mutations : rows' = rows \ {m}
  <2>1. ASSUME NEW c \in Calls, CallStep(c)
        PROVE  UNCHANGED rows \/ \E m \in Mutations : rows' = rows \cup {m}
    BY <2>1, ConstantTypes
       DEF CallStep, DispatchInsert, TryRefused, Sent, DispatchDelete, SeedDelete, SeedFound,
           SeedNothing, SendDelete, Confirm, ConfirmAcked, Register
  <2>2. ASSUME NEW m \in Mutations, RemoveRow(m) PROVE rows' = rows \ {m}
    BY <2>2 DEF RemoveRow
  <2>3. ASSUME Next, \A c \in Calls : ~CallStep(c), \A m \in Mutations : ~RemoveRow(m)
        PROVE  UNCHANGED rows
    BY <2>3
       DEF Next, CreateConstraint, DropConstraint, ShardStep, ShardInsert, ShardDelete, ShardReplay,
           AckEffect, ReconcileRelease, Complete, StartProof, ProofStep, ReadProof, ProofPresent,
           ProofAbsent, DrainConstraint, ProbeRead, Fault,
           DispatchLost, AckLost, ProofFailed, ProbeFailed, Upgrade
  <2>. QED
    BY <2>1, <2>2, <2>3 DEF vars
<1>. QED
  BY <1>1, FS_AddElement, FS_RemoveElement DEF TInv

(* A waiting call remembers the incarnation it was prepared under.          *)
LEMMA CallNext ==
  ASSUME TInv, [Next]_vars
  PROVE  CallTyped'
<1>1. UNCHANGED call \/ \E c \in Calls : CallStep(c)
  BY DEF vars, Next, CreateConstraint, DropConstraint, ShardStep, ShardInsert, ShardDelete,
         ShardReplay, AckEffect, ReconcileRelease, Complete, RemoveRow, StartProof, ProofStep,
         ReadProof, ProofPresent, ProofAbsent, DrainConstraint, ProbeRead,
         Fault, DispatchLost, AckLost, ProofFailed, ProbeFailed, Upgrade
<1>2. ASSUME NEW c \in Calls, CallStep(c) PROVE CallTyped'
  BY <1>2, DropConstants DEF TInv, TypeOK, CallTyped, CallStep, DispatchInsert, TryRefused,
     Sent, DispatchDelete,
              SeedDelete, SeedFound, SeedNothing, SendDelete, Confirm, ConfirmAcked, SetCall
<1>. QED
  BY <1>1, <1>2 DEF TInv, CallTyped

(* TInv is inductive.                                                       *)
LEMMA TypeNext ==
  ASSUME TInv, [Next]_vars
  PROVE  TInv'
<1>. USE DEF TInv
<1>0. IsFiniteSet(rows)' /\ CallTyped'
  BY FiniteRows, CallNext
<1>1. ASSUME NEW c \in Calls, CallStep(c) PROVE TInv'
  <2>1. UNCHANGED task
    BY <1>1 DEF CallStep, DispatchInsert, TryRefused, Sent, DispatchDelete, SeedDelete, SeedFound,
                SeedNothing, SendDelete, Confirm, ConfirmAcked
  <2>. QED
    BY <1>0, <1>1, <2>1, TypeClient DEF ProofTyped
<1>2. ASSUME NEW f \in flight, ShardStep(f[1], f[2]) \/ DispatchLost(f[1], f[2]) PROVE TInv'
  <2>1. f[1] \in Calls /\ f[2] \in Carried
    BY DEF TypeOK
  <2>2. UNCHANGED task
    BY <1>2 DEF ShardStep, ShardInsert, ShardDelete, ShardReplay, DispatchLost
  <2>. QED
    BY <1>0, <1>2, <2>1, <2>2, TypeShard DEF ProofTyped
<1>3. ASSUME NEW e \in outbox \cup acks, AckEffect(e) \/ AckLost(e) \/ ReconcileRelease(e)
      PROVE  TInv'
  <2>1. e \in Effects
    BY DEF TypeOK
  <2>2. UNCHANGED task
    BY <1>3 DEF AckEffect, AckLost, ReconcileRelease
  <2>. QED
    BY <1>0, <1>3, <2>1, <2>2, TypeEffects DEF ProofTyped
<1>4. ASSUME CreateConstraint \/ DropConstraint PROVE TInv'
  <2>1. con' \in ConType
    BY <1>4, ConstantTypes, CarriedTypes
       DEF CreateConstraint, DropConstraint, ConType, Carried, TypeOK
  <2>. QED
    BY <1>0, <1>4, <2>1
       DEF CreateConstraint, DropConstraint, ConType, TypeOK, ProofTyped, shardVars, netVars
<1>5. ASSUME NEW m \in Mutations, Complete(m) \/ RemoveRow(m) PROVE TInv'
  BY <1>0, <1>5 DEF Complete, RemoveRow, TypeOK, ProofTyped, shardVars, netVars
<1>6. ASSUME UNCHANGED vars PROVE TInv'
  BY <1>0, <1>6 DEF vars, TypeOK, ProofTyped
<1>. QED
  BY <1>0, <1>1, <1>2, <1>3, <1>4, <1>5, <1>6, TypeProof, TypeDrain DEF Next, Fault

------------------------------------------------------------------------------
(* Reservations, requests, effects and proofs.                              *)

(* The types of the parts an action reads.                                  *)
LEMMA Typed ==
  ASSUME TInv
  PROVE  /\ \A v \in Values :
              /\ res[v].state \in {"Free", "Reserved", "Reclaiming", "Committed"}
              /\ res[v].claim \in Inserts \cup {None} /\ res[v].ack \in BOOLEAN
              /\ res[v].claim = None <=> res[v].state = "Free"
              /\ res[v].ack => res[v].state = "Committed"
         /\ \A f \in flight : f[1] \in Calls /\ f[2] \in Carried /\ f = <<f[1], f[2]>>
         /\ \A c \in Calls, k \in Carried : <<c, k>>[1] = c /\ <<c, k>>[2] = k
         /\ con.inc \in Nat /\ con.gen \in Nat
         /\ outbox \subseteq Effects /\ acks \subseteq Effects
         /\ held \subseteq Inserts /\ applied \subseteq Mutations
         /\ res \in [Values -> Reservations]
         /\ DOMAIN rec = Mutations
         /\ task.phase \in {"proof", "verdict"} => task.v \in Values /\ task.m \in Inserts
BY ConstantTypes DEF TInv, TypeOK, ProofTyped, Reservations, Carried

(* What Register leaves of the record.                                      *)
LEMMA RegisterKeeps ==
  ASSUME TInv, NEW m, Register(m)
  PROVE  con'.life = con.life /\ con'.inc = con.inc
BY DEF TInv, TypeOK, Register

(* A pinned Acquire tells of an executed insert.                            *)
LEMMA PinnedApplied ==
  ASSUME TInv, Shapes, NEW m \in Inserts, Acquire(m) \in outbox
  PROVE  m \in applied
BY AcquireFields DEF Shapes

(* Clearing an ack marker changes no claim and no state.                    *)
LEMMA ClearAckKeeps ==
  ASSUME TInv, NEW v \in Values, NEW m, ClearAck(v, m)
  PROVE  /\ \A w \in Values : res'[w].claim = res[w].claim /\ res'[w].state = res[w].state
         /\ \A w \in Values : w # v => res'[w] = res[w]
BY DEF TInv, TypeOK, ClearAck, Reservations

(* ResInv through CreateConstraint.                                         *)
LEMMA ResCreateConstraint ==
  ASSUME TInv, TInv', ResInv, CreateConstraint
  PROVE  ResInv'
<1>. USE ConstantTypes, Typed, ReservationFields, IdleTask
<1>1. Shapes'
  BY AcquireFields, EffectFields DEF ResInv, Shapes, CreateConstraint, shardVars, netVars
<1>2. Fresh'
  BY DEF ResInv, Fresh, CreateConstraint, shardVars, netVars
<1>3. Claiming'
  BY DEF ResInv, Claiming, Fresh, CreateConstraint, shardVars, netVars
<1>4. Flying'
  BY DEF ResInv, Flying, Carries, Undecided, CreateConstraint, shardVars, netVars
<1>5. Pinned'
  BY AcquireFields, EffectFields DEF ResInv, Pinned, CreateConstraint, shardVars, netVars
<1>6. Owned'
  BY DEF ResInv, Owned, CreateConstraint, shardVars, netVars
<1>7. Live'
  BY AcquireFields, EffectFields DEF ResInv, Live, Undecided, Fresh, Shapes, CreateConstraint,
     shardVars, netVars
<1>8. Proving'
  BY AcquireFields, EffectFields DEF ResInv, Proving, Carries, Fenced, CreateConstraint,
     shardVars, netVars
<1>9. FailedQuiet'
  BY DEF ResInv, FailedQuiet, Carries, CreateConstraint, shardVars, netVars
<1>. QED
  BY <1>1, <1>2, <1>3, <1>4, <1>5, <1>6, <1>7, <1>8, <1>9 DEF ResInv

(* ResInv through DropConstraint.                                           *)
LEMMA ResDropConstraint ==
  ASSUME TInv, TInv', ResInv, DropConstraint
  PROVE  ResInv'
<1>. USE ConstantTypes, Typed, ReservationFields, IdleTask
<1>1. Shapes'
  BY AcquireFields, EffectFields DEF ResInv, Shapes, DropConstraint, shardVars, netVars
<1>2. Fresh'
  BY DEF ResInv, Fresh, DropConstraint, shardVars, netVars
<1>3. Claiming'
  BY DEF ResInv, Claiming, DropConstraint, shardVars, netVars
<1>4. Flying'
  BY DEF ResInv, Flying, Carries, Undecided, DropConstraint, shardVars, netVars
<1>5. Pinned'
  BY AcquireFields, EffectFields DEF ResInv, Pinned, DropConstraint, shardVars, netVars
<1>6. Owned'
  BY DEF ResInv, Owned, DropConstraint, shardVars, netVars
<1>7. Live'
  BY AcquireFields, EffectFields DEF ResInv, Live, Undecided, DropConstraint, shardVars, netVars
<1>8. Proving'
  BY AcquireFields, EffectFields DEF ResInv, Proving, Carries, Fenced, DropConstraint,
     shardVars, netVars
<1>9. FailedQuiet'
  BY DEF ResInv, FailedQuiet, Carries, DropConstraint, shardVars, netVars
<1>. QED
  BY <1>1, <1>2, <1>3, <1>4, <1>5, <1>6, <1>7, <1>8, <1>9 DEF ResInv

(* ResInv through SentInsert.                                           *)
LEMMA ResSentInsert ==
  ASSUME TInv, TInv', ResInv, NEW c \in Calls, SentInsert(c)
  PROVE  ResInv'
<1>. USE ConstantTypes, Typed, ReservationFields, IdleTask
<1>1. Shapes'
  BY AcquireFields, EffectFields DEF ResInv, Shapes, SentInsert, TryOk, Register, Open,
     SetCall, ClaimedBy, shardVars, netVars
<1>2. Fresh'
  <2>1. con'.life = con.life /\ con'.inc = con.inc
    BY RegisterKeeps DEF SentInsert
  <2>. QED
    BY <2>1 DEF ResInv, Fresh, SentInsert, Open, shardVars
<1>3. Claiming'
  <2>1. con'.life = con.life /\ con'.inc = con.inc
    BY RegisterKeeps DEF SentInsert
  <2>. QED
    BY <2>1 DEF ResInv, Claiming, SentInsert, ClaimedBy, shardVars
<1>4. Flying'
  BY DEF ResInv, Flying, Carries, Undecided, Pinned, Owned, SentInsert, TryOk, Register,
     Open, SetCall, ClaimedBy, shardVars, netVars
<1>5. Pinned'
  BY AcquireFields, EffectFields DEF ResInv, Pinned, Owned, SentInsert, TryOk, Register,
     Open, SetCall, ClaimedBy, shardVars, netVars
<1>6. Owned'
  BY DEF ResInv, Owned, SentInsert, TryOk, Register, Open, SetCall, ClaimedBy, shardVars,
     netVars
<1>7. Live'
  <2>1. con'.life = con.life /\ con'.inc = con.inc
    BY RegisterKeeps DEF SentInsert
  <2>. QED
    BY <2>1 DEF ResInv, Live, Undecided, Owned, SentInsert, TryOk, shardVars
<1>8. Proving'
  BY AcquireFields, EffectFields DEF ResInv, Proving, Carries, Fenced, Flying, Undecided,
     SentInsert, TryOk, Register, Open, SetCall, ClaimedBy, shardVars, netVars
<1>9. FailedQuiet'
  BY DEF ResInv, FailedQuiet, Carries, SentInsert, TryOk, Register, Open, SetCall,
     ClaimedBy, shardVars, netVars
<1>. QED
  BY <1>1, <1>2, <1>3, <1>4, <1>5, <1>6, <1>7, <1>8, <1>9 DEF ResInv

(* ResInv through RefusedInsert.                                               *)
LEMMA ResRefusedInsert ==
  ASSUME TInv, TInv', ResInv, NEW c \in Calls, RefusedInsert(c)
  PROVE  ResInv'
<1>. USE ConstantTypes, Typed, ReservationFields, IdleTask
<1>1. Shapes'
  BY AcquireFields, EffectFields DEF ResInv, Shapes, RefusedInsert, Open, SetCall, ClaimedBy,
     shardVars, netVars
<1>2. Fresh'
  BY DEF ResInv, Fresh, RefusedInsert, Open, SetCall, ClaimedBy, shardVars, netVars
<1>3. Claiming'
  BY DEF ResInv, Claiming, RefusedInsert, Open, SetCall, ClaimedBy, shardVars, netVars
<1>4. Flying'
  BY DEF ResInv, Flying, Carries, Undecided, RefusedInsert, Open, SetCall, ClaimedBy, shardVars,
     netVars
<1>5. Pinned'
  BY AcquireFields, EffectFields DEF ResInv, Pinned, RefusedInsert, Open, SetCall, ClaimedBy,
     shardVars, netVars
<1>6. Owned'
  BY DEF ResInv, Owned, RefusedInsert, Open, SetCall, ClaimedBy, shardVars, netVars
<1>7. Live'
  BY AcquireFields, EffectFields DEF ResInv, Live, Undecided, RefusedInsert, Open, SetCall,
     ClaimedBy, shardVars, netVars
<1>8. Proving'
  BY AcquireFields, EffectFields DEF ResInv, Proving, Carries, Fenced, RefusedInsert, Open,
     SetCall, ClaimedBy, shardVars, netVars
<1>9. FailedQuiet'
  BY DEF ResInv, FailedQuiet, Carries, RefusedInsert, Open, SetCall, ClaimedBy, shardVars, netVars
<1>. QED
  BY <1>1, <1>2, <1>3, <1>4, <1>5, <1>6, <1>7, <1>8, <1>9 DEF ResInv

(* ResInv through SendDelete.                                               *)
LEMMA ResSendDelete ==
  ASSUME TInv, TInv', ResInv, NEW c \in Calls, NEW k \in Carried, KeyOf[c] \in Deletes,
         SendDelete(c, k)
  PROVE  ResInv'
<1>. USE ConstantTypes, Typed, ReservationFields, IdleTask
<1>1. Shapes'
  BY AcquireFields, EffectFields DEF ResInv, Shapes, SendDelete, Register, Open, SetCall,
     shardVars, netVars
<1>2. Fresh'
  <2>1. con'.life = con.life /\ con'.inc = con.inc
    BY RegisterKeeps DEF SendDelete
  <2>. QED
    BY <2>1 DEF ResInv, Fresh, SendDelete, Open, shardVars
<1>3. Claiming'
  <2>1. con'.life = con.life /\ con'.inc = con.inc
    BY RegisterKeeps DEF SendDelete
  <2>. QED
    BY <2>1 DEF ResInv, Claiming, SendDelete, shardVars
<1>4. Flying'
  BY DEF ResInv, Flying, Carries, Undecided, SendDelete, Register, Open, SetCall, shardVars,
     netVars
<1>5. Pinned'
  BY AcquireFields, EffectFields DEF ResInv, Pinned, SendDelete, Register, Open, SetCall,
     shardVars, netVars
<1>6. Owned'
  BY DEF ResInv, Owned, SendDelete, Register, Open, SetCall, shardVars, netVars
<1>7. Live'
  <2>1. con'.life = con.life /\ con'.inc = con.inc
    BY RegisterKeeps DEF SendDelete
  <2>. QED
    BY <2>1 DEF ResInv, Live, Undecided, SendDelete, shardVars
<1>8. Proving'
  BY AcquireFields, EffectFields DEF ResInv, Proving, Carries, Fenced, SendDelete, Register,
     Open, SetCall, shardVars, netVars
<1>9. FailedQuiet'
  BY DEF ResInv, FailedQuiet, Carries, SendDelete, Register, Open, SetCall, shardVars, netVars
<1>. QED
  BY <1>1, <1>2, <1>3, <1>4, <1>5, <1>6, <1>7, <1>8, <1>9 DEF ResInv

(* ResInv through SeedDelete.                                               *)
LEMMA ResSeedDelete ==
  ASSUME TInv, TInv', ResInv, NEW c \in Calls, SeedDelete(c)
  PROVE  ResInv'
<1>. USE ConstantTypes, Typed, ReservationFields, IdleTask
<1>1. Shapes'
  BY AcquireFields, EffectFields DEF ResInv, Shapes, SeedDelete, SetCall, shardVars, netVars
<1>2. Fresh'
  BY DropConstants DEF ResInv, Fresh, SeedDelete, shardVars, netVars
<1>3. Claiming'
  BY DEF ResInv, Claiming, SeedDelete, SetCall, shardVars, netVars
<1>4. Flying'
  BY DEF ResInv, Flying, Carries, Undecided, SeedDelete, SetCall, shardVars, netVars
<1>5. Pinned'
  BY AcquireFields, EffectFields DEF ResInv, Pinned, SeedDelete, SetCall, shardVars, netVars
<1>6. Owned'
  BY DEF ResInv, Owned, SeedDelete, SetCall, shardVars, netVars
<1>7. Live'
  BY AcquireFields, EffectFields DEF ResInv, Live, Undecided, SeedDelete, SetCall, shardVars,
     netVars
<1>8. Proving'
  BY AcquireFields, EffectFields DEF ResInv, Proving, Carries, Fenced, SeedDelete, SetCall,
     shardVars, netVars
<1>9. FailedQuiet'
  BY DEF ResInv, FailedQuiet, Carries, SeedDelete, SetCall, shardVars, netVars
<1>. QED
  BY <1>1, <1>2, <1>3, <1>4, <1>5, <1>6, <1>7, <1>8, <1>9 DEF ResInv

(* ResInv through SeedNothing.                                              *)
LEMMA ResSeedNothing ==
  ASSUME TInv, TInv', ResInv, NEW c \in Calls, SeedNothing(c)
  PROVE  ResInv'
<1>. USE ConstantTypes, Typed, ReservationFields, IdleTask
<1>1. Shapes'
  BY AcquireFields, EffectFields DEF ResInv, Shapes, SeedNothing, SetCall, shardVars, netVars
<1>2. Fresh'
  BY DEF TInv, CallTyped, ResInv, Fresh, SeedNothing, shardVars, netVars
<1>3. Claiming'
  BY DEF ResInv, Claiming, SeedNothing, SetCall, shardVars, netVars
<1>4. Flying'
  BY DEF ResInv, Flying, Carries, Undecided, SeedNothing, SetCall, shardVars, netVars
<1>5. Pinned'
  BY AcquireFields, EffectFields DEF ResInv, Pinned, SeedNothing, SetCall, shardVars, netVars
<1>6. Owned'
  BY DEF ResInv, Owned, SeedNothing, SetCall, shardVars, netVars
<1>7. Live'
  BY AcquireFields, EffectFields DEF ResInv, Live, Undecided, SeedNothing, SetCall, shardVars,
     netVars
<1>8. Proving'
  BY AcquireFields, EffectFields DEF ResInv, Proving, Carries, Fenced, SeedNothing, SetCall,
     shardVars, netVars
<1>9. FailedQuiet'
  BY DEF ResInv, FailedQuiet, Carries, SeedNothing, SetCall, shardVars, netVars
<1>. QED
  BY <1>1, <1>2, <1>3, <1>4, <1>5, <1>6, <1>7, <1>8, <1>9 DEF ResInv

(* ResInv through Confirm.                                                  *)
LEMMA ResConfirm ==
  ASSUME TInv, TInv', ResInv, NEW c \in Calls, Confirm(c)
  PROVE  ResInv'
<1>. USE ConstantTypes, Typed, ReservationFields, IdleTask
<1>1. Shapes'
  BY AcquireFields, EffectFields DEF ResInv, Shapes, Confirm, SetCall, shardVars, netVars
<1>2. Fresh'
  BY DEF ResInv, Fresh, Confirm, SetCall, shardVars, netVars
<1>3. Claiming'
  BY DEF ResInv, Claiming, Confirm, SetCall, shardVars, netVars
<1>4. Flying'
  BY PinnedApplied DEF ResInv, Flying, Carries, Undecided, Confirm, shardVars
<1>5. Pinned'
  BY AcquireFields, EffectFields DEF ResInv, Pinned, Shapes, Confirm, SetCall, shardVars, netVars
<1>6. Owned'
  BY PinnedApplied DEF ResInv, Owned, Confirm, shardVars
<1>7. Live'
  BY AcquireFields, EffectFields DEF ResInv, Live, Undecided, Confirm, SetCall, shardVars, netVars
<1>8. Proving'
  BY AcquireFields, EffectFields DEF ResInv, Proving, Carries, Fenced, Confirm, SetCall,
     shardVars, netVars
<1>9. FailedQuiet'
  BY DEF ResInv, FailedQuiet, Carries, Confirm, SetCall, shardVars, netVars
<1>. QED
  BY <1>1, <1>2, <1>3, <1>4, <1>5, <1>6, <1>7, <1>8, <1>9 DEF ResInv

(* ResInv through ConfirmAcked.                                             *)
LEMMA ResConfirmAcked ==
  ASSUME TInv, TInv', ResInv, NEW c \in Calls, ConfirmAcked(c)
  PROVE  ResInv'
<1>. USE ConstantTypes, Typed, ReservationFields, IdleTask
<1>1. Shapes'
  BY AcquireFields, EffectFields DEF ResInv, Shapes, ConfirmAcked, ClearAck, SetCall, shardVars,
     netVars
<1>2. Fresh'
  BY DEF ResInv, Fresh, ConfirmAcked, ClearAck, SetCall, shardVars, netVars
<1>3. Claiming'
  BY DEF ResInv, Claiming, ConfirmAcked, ClearAck, SetCall, shardVars, netVars
<1>4. Flying'
  BY DEF ResInv, Flying, Carries, Undecided, ConfirmAcked, ClearAck, SetCall, shardVars, netVars
<1>5. Pinned'
  BY AcquireFields, EffectFields DEF ResInv, Pinned, ConfirmAcked, ClearAck, SetCall, shardVars,
     netVars
<1>6. Owned'
  BY DEF ResInv, Owned, ConfirmAcked, ClearAck, SetCall, shardVars, netVars
<1>7. Live'
  BY AcquireFields, EffectFields DEF ResInv, Live, Undecided, ConfirmAcked, ClearAck, SetCall,
     shardVars, netVars
<1>8. Proving'
  BY AcquireFields, EffectFields DEF ResInv, Proving, Carries, Fenced, ConfirmAcked, ClearAck,
     SetCall, shardVars, netVars
<1>9. FailedQuiet'
  BY DEF ResInv, FailedQuiet, Carries, ConfirmAcked, ClearAck, SetCall, shardVars, netVars
<1>. QED
  BY <1>1, <1>2, <1>3, <1>4, <1>5, <1>6, <1>7, <1>8, <1>9 DEF ResInv

(* ResInv through ShardInsert.                                              *)
LEMMA ResShardInsert ==
  ASSUME TInv, TInv', ResInv, NEW c \in Calls, NEW k \in Carried, ShardInsert(c, k)
  PROVE  ResInv'
<1>. USE ConstantTypes, Typed, ReservationFields, IdleTask
<1>1. Shapes'
  BY AcquireFields, EffectFields DEF ResInv, Shapes, ShardInsert, shardVars, netVars
<1>2. Fresh'
  BY DEF ResInv, Fresh, ShardInsert, shardVars, netVars
<1>3. Claiming'
  BY DEF ResInv, Claiming, ShardInsert, shardVars, netVars
<1>4. Flying'
  BY DEF ResInv, Flying, Carries, Undecided, ShardInsert, shardVars, netVars
<1>5. Pinned'
  BY AcquireFields, EffectFields DEF ResInv, Pinned, Flying, Carries, Undecided, Shapes,
     ShardInsert, shardVars, netVars
<1>6. Owned'
  BY DEF ResInv, Owned, ShardInsert, shardVars, netVars
<1>7. Live'
  BY AcquireFields, EffectFields DEF ResInv, Live, Undecided, Flying, Carries, Claiming, Shapes,
     ShardInsert, shardVars, netVars
<1>8. Proving'
  BY AcquireFields, EffectFields DEF ResInv, Proving, Carries, Fenced, ShardInsert, shardVars,
     netVars
<1>9. FailedQuiet'
  BY DEF ResInv, FailedQuiet, Carries, ShardInsert, shardVars, netVars
<1>. QED
  BY <1>1, <1>2, <1>3, <1>4, <1>5, <1>6, <1>7, <1>8, <1>9 DEF ResInv

(* ResInv through ShardDelete.                                              *)
LEMMA ResShardDelete ==
  ASSUME TInv, TInv', ResInv, NEW c \in Calls, NEW k \in Carried, ShardDelete(c, k)
  PROVE  ResInv'
<1>. USE ConstantTypes, Typed, ReservationFields, IdleTask
<1>1. Shapes'
  <2>1. PICK R \in SUBSET held :
          /\ held' = held \ R
          /\ outbox' = outbox \cup {Release(KeyOf[c], e) : e \in {e \in R : Label[e] = k}}
    BY DEF ShardDelete
  <2>2. ASSUME NEW e \in outbox' \cup acks'
        PROVE  /\ e.op = "acquire" => e.owner = e.m /\ e.m \in Inserts /\ e.m \in applied'
               /\ e.op = "release" => e.owner \in applied' /\ e.owner \notin held'
    <3>1. CASE e \in outbox \cup acks
      BY <2>1, <3>1 DEF ResInv, Shapes, ShardDelete
    <3>2. CASE \E o \in R : e = Release(KeyOf[c], o)
      BY <2>1, <3>2, ReleaseFields DEF ResInv, Shapes, ShardDelete
    <3>. QED
      BY <2>1, <3>1, <3>2 DEF ShardDelete
  <2>. QED
    BY <2>1, <2>2 DEF ResInv, Shapes, ShardDelete
<1>2. Fresh'
  BY DEF ResInv, Fresh, ShardDelete, shardVars, netVars
<1>3. Claiming'
  BY DEF ResInv, Claiming, ShardDelete, shardVars, netVars
<1>4. Flying'
  BY DEF ResInv, Flying, Carries, Undecided, ShardDelete, shardVars, netVars
<1>5. Pinned'
  <2>1. PICK R \in SUBSET held :
          /\ held' = held \ R
          /\ outbox' = outbox \cup {Release(KeyOf[c], e) : e \in {e \in R : Label[e] = k}}
    BY DEF ShardDelete
  <2>2. ASSUME NEW m \in Inserts PROVE Acquire(m) \in outbox' <=> Acquire(m) \in outbox
    BY <2>1, AcquireFields, ReleaseFields
  <2>. QED
    BY <2>2 DEF ResInv, Pinned, ShardDelete
<1>6. Owned'
  BY DEF ResInv, Owned, ShardDelete, shardVars, netVars
<1>7. Live'
  BY AcquireFields, EffectFields DEF ResInv, Live, Undecided, ShardDelete, shardVars, netVars
<1>8. Proving'
  <2>1. PICK R \in SUBSET held :
          /\ held' = held \ R
          /\ outbox' = outbox \cup {Release(KeyOf[c], e) : e \in {e \in R : Label[e] = k}}
    BY DEF ShardDelete
  <2>2. ASSUME NEW m \in Inserts PROVE Acquire(m) \in outbox' <=> Acquire(m) \in outbox
    BY <2>1, AcquireFields, ReleaseFields
  <2>. QED
    BY <2>2 DEF ResInv, Proving, Carries, Fenced, ShardDelete
<1>9. FailedQuiet'
  BY DEF ResInv, FailedQuiet, Carries, ShardDelete, shardVars, netVars
<1>. QED
  BY <1>1, <1>2, <1>3, <1>4, <1>5, <1>6, <1>7, <1>8, <1>9 DEF ResInv

(* ResInv through ShardReplay.                                              *)
LEMMA ResShardReplay ==
  ASSUME TInv, TInv', ResInv, NEW c \in Calls, NEW k \in Carried, ShardReplay(c, k)
  PROVE  ResInv'
<1>. USE ConstantTypes, Typed, ReservationFields, IdleTask
<1>1. Shapes'
  BY AcquireFields, EffectFields DEF ResInv, Shapes, ShardReplay, shardVars, netVars
<1>2. Fresh'
  BY DEF ResInv, Fresh, ShardReplay, shardVars, netVars
<1>3. Claiming'
  BY DEF ResInv, Claiming, ShardReplay, shardVars, netVars
<1>4. Flying'
  BY DEF ResInv, Flying, Carries, Undecided, ShardReplay, shardVars, netVars
<1>5. Pinned'
  BY AcquireFields, EffectFields DEF ResInv, Pinned, ShardReplay, shardVars, netVars
<1>6. Owned'
  BY DEF ResInv, Owned, ShardReplay, shardVars, netVars
<1>7. Live'
  BY AcquireFields, EffectFields DEF ResInv, Live, Undecided, ShardReplay, shardVars, netVars
<1>8. Proving'
  BY AcquireFields, EffectFields DEF ResInv, Proving, Carries, Fenced, ShardReplay, shardVars,
     netVars
<1>9. FailedQuiet'
  BY DEF ResInv, FailedQuiet, Carries, ShardReplay, shardVars, netVars
<1>. QED
  BY <1>1, <1>2, <1>3, <1>4, <1>5, <1>6, <1>7, <1>8, <1>9 DEF ResInv

(* ResInv through DispatchLost.                                             *)
LEMMA ResDispatchLost ==
  ASSUME TInv, TInv', ResInv, NEW c \in Calls, NEW k \in Carried, DispatchLost(c, k)
  PROVE  ResInv'
<1>. USE ConstantTypes, Typed, ReservationFields, IdleTask
<1>1. Shapes'
  BY AcquireFields, EffectFields DEF ResInv, Shapes, DispatchLost, shardVars, netVars
<1>2. Fresh'
  BY DEF ResInv, Fresh, DispatchLost, shardVars, netVars
<1>3. Claiming'
  BY DEF ResInv, Claiming, DispatchLost, shardVars, netVars
<1>4. Flying'
  BY DEF ResInv, Flying, Carries, Undecided, DispatchLost, shardVars, netVars
<1>5. Pinned'
  BY AcquireFields, EffectFields DEF ResInv, Pinned, DispatchLost, shardVars, netVars
<1>6. Owned'
  BY DEF ResInv, Owned, DispatchLost, shardVars, netVars
<1>7. Live'
  BY AcquireFields, EffectFields DEF ResInv, Live, Undecided, DispatchLost, shardVars, netVars
<1>8. Proving'
  BY AcquireFields, EffectFields DEF ResInv, Proving, Carries, Fenced, DispatchLost, shardVars,
     netVars
<1>9. FailedQuiet'
  BY DEF ResInv, FailedQuiet, Carries, DispatchLost, shardVars, netVars
<1>. QED
  BY <1>1, <1>2, <1>3, <1>4, <1>5, <1>6, <1>7, <1>8, <1>9 DEF ResInv

(* ResInv through AckEffect.                                                *)
LEMMA ResAckEffect ==
  ASSUME TInv, TInv', ResInv, NEW e \in Effects, AckEffect(e)
  PROVE  ResInv'
<1>. USE ConstantTypes, Typed, ReservationFields, IdleTask
<1>1. Shapes'
  BY AcquireFields, EffectFields DEF ResInv, Shapes, AckEffect, shardVars, netVars
<1>2. Fresh'
  BY DEF ResInv, Fresh, AckEffect, shardVars, netVars
<1>3. Claiming'
  BY DEF ResInv, Claiming, AckEffect, shardVars, netVars
<1>4. Flying'
  BY DEF ResInv, Flying, Carries, Undecided, AckEffect, shardVars, netVars
<1>5. Pinned'
  BY AcquireFields, EffectFields DEF ResInv, Pinned, AckEffect, shardVars, netVars
<1>6. Owned'
  BY DEF ResInv, Owned, AckEffect, shardVars, netVars
<1>7. Live'
  BY AcquireFields, EffectFields DEF ResInv, Live, Undecided, Pinned, Shapes, AckEffect,
     shardVars, netVars
<1>8. Proving'
  BY AcquireFields, EffectFields DEF ResInv, Proving, Carries, Fenced, AckEffect, shardVars,
     netVars
<1>9. FailedQuiet'
  BY DEF ResInv, FailedQuiet, Carries, AckEffect, shardVars, netVars
<1>. QED
  BY <1>1, <1>2, <1>3, <1>4, <1>5, <1>6, <1>7, <1>8, <1>9 DEF ResInv

(* ResInv through AckLost.                                                  *)
LEMMA ResAckLost ==
  ASSUME TInv, TInv', ResInv, NEW e \in Effects, AckLost(e)
  PROVE  ResInv'
<1>. USE ConstantTypes, Typed, ReservationFields, IdleTask
<1>1. Shapes'
  BY AcquireFields, EffectFields DEF ResInv, Shapes, AckLost, shardVars, netVars
<1>2. Fresh'
  BY DEF ResInv, Fresh, AckLost, shardVars, netVars
<1>3. Claiming'
  BY DEF ResInv, Claiming, AckLost, shardVars, netVars
<1>4. Flying'
  BY DEF ResInv, Flying, Carries, Undecided, AckLost, shardVars, netVars
<1>5. Pinned'
  BY AcquireFields, EffectFields DEF ResInv, Pinned, AckLost, shardVars, netVars
<1>6. Owned'
  BY DEF ResInv, Owned, AckLost, shardVars, netVars
<1>7. Live'
  BY AcquireFields, EffectFields DEF ResInv, Live, Undecided, AckLost, shardVars, netVars
<1>8. Proving'
  BY AcquireFields, EffectFields DEF ResInv, Proving, Carries, Fenced, AckLost, shardVars, netVars
<1>9. FailedQuiet'
  BY DEF ResInv, FailedQuiet, Carries, AckLost, shardVars, netVars
<1>. QED
  BY <1>1, <1>2, <1>3, <1>4, <1>5, <1>6, <1>7, <1>8, <1>9 DEF ResInv

(* ResInv through ReconcileRelease.                                         *)
LEMMA ResReconcileRelease ==
  ASSUME TInv, TInv', ResInv, NEW e \in Effects, ReconcileRelease(e)
  PROVE  ResInv'
<1>. USE ConstantTypes, Typed, ReservationFields, IdleTask
<1>1. Shapes'
  BY AcquireFields, EffectFields DEF ResInv, Shapes, ReconcileRelease, ReleaseFrees,
     ReleaseApplied, shardVars, netVars
<1>2. Fresh'
  BY DEF ResInv, Fresh, ReconcileRelease, ReleaseFrees, ReleaseApplied, shardVars, netVars
<1>3. Claiming'
  BY DEF ResInv, Claiming, ReconcileRelease, ReleaseFrees, ReleaseApplied, shardVars, netVars
<1>4. Flying'
  BY DEF ResInv, Flying, Carries, Undecided, ReconcileRelease, ReleaseFrees, ReleaseApplied,
     shardVars, netVars
<1>5. Pinned'
  BY AcquireFields, EffectFields DEF ResInv, Pinned, Shapes, ReconcileRelease, ReleaseFrees,
     ReleaseApplied, shardVars, netVars
<1>6. Owned'
  BY DEF ResInv, Owned, ReconcileRelease, ReleaseFrees, ReleaseApplied, shardVars, netVars
<1>7. Live'
  BY AcquireFields, EffectFields DEF ResInv, Live, Undecided, Shapes, ReconcileRelease,
     ReleaseFrees, ReleaseApplied, shardVars, netVars
<1>8. Proving'
  BY AcquireFields, EffectFields DEF ResInv, Proving, Carries, Fenced, Pinned, ReconcileRelease,
     ReleaseFrees, ReleaseApplied, shardVars, netVars
<1>9. FailedQuiet'
  BY DEF ResInv, FailedQuiet, Carries, ReconcileRelease, ReleaseFrees, ReleaseApplied,
     shardVars, netVars
<1>. QED
  BY <1>1, <1>2, <1>3, <1>4, <1>5, <1>6, <1>7, <1>8, <1>9 DEF ResInv

(* ResInv through Complete.                                                 *)
LEMMA ResComplete ==
  ASSUME TInv, TInv', ResInv, NEW m \in Mutations, Complete(m)
  PROVE  ResInv'
<1>. USE ConstantTypes, Typed, ReservationFields, IdleTask
<1>1. Shapes'
  BY AcquireFields, EffectFields DEF ResInv, Shapes, Complete, shardVars, netVars
<1>2. Fresh'
  BY DEF ResInv, Fresh, Complete, shardVars, netVars
<1>3. Claiming'
  BY DEF ResInv, Claiming, Complete, shardVars, netVars
<1>4. Flying'
  BY DEF ResInv, Flying, Carries, Undecided, Complete, shardVars, netVars
<1>5. Pinned'
  BY AcquireFields, EffectFields DEF ResInv, Pinned, Complete, shardVars, netVars
<1>6. Owned'
  BY DEF ResInv, Owned, Complete, shardVars, netVars
<1>7. Live'
  BY AcquireFields, EffectFields DEF ResInv, Live, Undecided, Complete, shardVars, netVars
<1>8. Proving'
  BY AcquireFields, EffectFields DEF ResInv, Proving, Carries, Fenced, Complete, shardVars,
     netVars
<1>9. FailedQuiet'
  BY DEF ResInv, FailedQuiet, Carries, Complete, shardVars, netVars
<1>. QED
  BY <1>1, <1>2, <1>3, <1>4, <1>5, <1>6, <1>7, <1>8, <1>9 DEF ResInv

(* ResInv through RemoveRow.                                                *)
LEMMA ResRemoveRow ==
  ASSUME TInv, TInv', ResInv, NEW m \in Mutations, RemoveRow(m)
  PROVE  ResInv'
<1>. USE ConstantTypes, Typed, ReservationFields, IdleTask
<1>1. Shapes'
  BY AcquireFields, EffectFields DEF ResInv, Shapes, RemoveRow, shardVars, netVars
<1>2. Fresh'
  BY DEF ResInv, Fresh, RemoveRow, shardVars, netVars
<1>3. Claiming'
  BY DEF ResInv, Claiming, RemoveRow, shardVars, netVars
<1>4. Flying'
  BY DEF ResInv, Flying, Carries, Undecided, RemoveRow, shardVars, netVars
<1>5. Pinned'
  BY AcquireFields, EffectFields DEF ResInv, Pinned, RemoveRow, shardVars, netVars
<1>6. Owned'
  BY DEF ResInv, Owned, RemoveRow, shardVars, netVars
<1>7. Live'
  BY AcquireFields, EffectFields DEF ResInv, Live, Undecided, RemoveRow, shardVars, netVars
<1>8. Proving'
  BY AcquireFields, EffectFields DEF ResInv, Proving, Carries, Fenced, RemoveRow, shardVars,
     netVars
<1>9. FailedQuiet'
  BY DEF ResInv, FailedQuiet, Carries, RemoveRow, shardVars, netVars
<1>. QED
  BY <1>1, <1>2, <1>3, <1>4, <1>5, <1>6, <1>7, <1>8, <1>9 DEF ResInv

(* ResInv through StartProof.                                               *)
LEMMA ResStartProof ==
  ASSUME TInv, TInv', ResInv, NEW v \in Values, StartProof(v)
  PROVE  ResInv'
<1>. USE ConstantTypes, Typed, ReservationFields, IdleTask
<1>1. Shapes'
  BY AcquireFields, EffectFields DEF ResInv, Shapes, StartProof, shardVars, netVars
<1>2. Fresh'
  BY DEF ResInv, Fresh, StartProof, shardVars, netVars
<1>3. Claiming'
  BY DEF ResInv, Claiming, StartProof, shardVars, netVars
<1>4. Flying'
  BY DEF ResInv, Flying, Carries, Undecided, StartProof, shardVars, netVars
<1>5. Pinned'
  BY AcquireFields, EffectFields DEF ResInv, Pinned, StartProof, shardVars, netVars
<1>6. Owned'
  BY DEF ResInv, Owned, StartProof, shardVars, netVars
<1>7. Live'
  BY AcquireFields, EffectFields DEF ResInv, Live, Undecided, StartProof, shardVars, netVars
<1>8. Proving'
  BY AcquireFields, EffectFields DEF ResInv, Proving, Carries, Fenced, Owned, Flying, Undecided,
     StartProof, shardVars, netVars
<1>9. FailedQuiet'
  BY DEF ResInv, FailedQuiet, Carries, StartProof, shardVars, netVars
<1>. QED
  BY <1>1, <1>2, <1>3, <1>4, <1>5, <1>6, <1>7, <1>8, <1>9 DEF ResInv

(* ResInv through ReadProof.                                                *)
LEMMA ResReadProof ==
  ASSUME TInv, TInv', ResInv, ReadProof
  PROVE  ResInv'
<1>. USE ConstantTypes, Typed, ReservationFields, IdleTask
<1>1. Shapes'
  BY AcquireFields, EffectFields DEF ResInv, Shapes, ReadProof, Arrived, shardVars, netVars
<1>2. Fresh'
  BY DEF ResInv, Fresh, ReadProof, Arrived, shardVars, netVars
<1>3. Claiming'
  BY DEF ResInv, Claiming, ReadProof, Arrived, shardVars, netVars
<1>4. Flying'
  BY DEF ResInv, Flying, Carries, Undecided, ReadProof, Arrived, shardVars, netVars
<1>5. Pinned'
  BY AcquireFields, EffectFields DEF ResInv, Pinned, ReadProof, Arrived, shardVars, netVars
<1>6. Owned'
  BY DEF ResInv, Owned, ReadProof, Arrived, shardVars, netVars
<1>7. Live'
  BY AcquireFields, EffectFields DEF ResInv, Live, Undecided, ReadProof, Arrived, shardVars,
     netVars
<1>8. Proving'
  <2>1. /\ task'.phase = "verdict" /\ task'.v = task.v /\ task'.m = task.m
        /\ (task'.present <=> Acquire(task.m) \in outbox) /\ task.phase = "proof"
    BY DEF ReadProof, TInv, TypeOK
  <2>2. Fenced' <=> Fenced
    BY <2>1 DEF Fenced, ReadProof
  <2>3. task.m \in Inserts /\ (Acquire(task.m) \in outbox => task.m \in applied)
    BY <2>1, PinnedApplied DEF ResInv
  <2>4. ASSUME Fenced, NEW f \in flight, Carries(f, task.m) PROVE FALSE
    BY <2>1, <2>4 DEF ResInv, Proving, ReadProof, Arrived
  <2>. QED
    BY <2>1, <2>2, <2>3, <2>4 DEF ResInv, Proving, Carries, ReadProof, shardVars, netVars
<1>9. FailedQuiet'
  BY DEF ResInv, FailedQuiet, Carries, ReadProof, Arrived, shardVars, netVars
<1>. QED
  BY <1>1, <1>2, <1>3, <1>4, <1>5, <1>6, <1>7, <1>8, <1>9 DEF ResInv

(* ResInv through ProofPresent.                                             *)
LEMMA ResProofPresent ==
  ASSUME TInv, TInv', ResInv, ProofPresent
  PROVE  ResInv'
<1>. USE ConstantTypes, Typed, ReservationFields, IdleTask
<1>1. Shapes'
  BY AcquireFields, EffectFields DEF ResInv, Shapes, Proving, Carries, Fenced, ProofPresent,
     shardVars, netVars
<1>2. Fresh'
  BY DEF ResInv, Fresh, ProofPresent, shardVars, netVars
<1>3. Claiming'
  BY DEF ResInv, Claiming, ProofPresent, shardVars, netVars
<1>4. Flying'
  BY DEF ResInv, Flying, Carries, Undecided, Proving, Fenced, ProofPresent, shardVars, netVars
<1>5. Pinned'
  BY AcquireFields, EffectFields DEF ResInv, Pinned, Proving, Carries, Fenced, ProofPresent,
     shardVars, netVars
<1>6. Owned'
  BY DEF ResInv, Owned, Proving, Carries, Fenced, ProofPresent, shardVars, netVars
<1>7. Live'
  BY AcquireFields, EffectFields DEF ResInv, Live, Undecided, Proving, Carries, Fenced,
     ProofPresent, shardVars, netVars
<1>8. Proving'
  BY AcquireFields, EffectFields DEF ResInv, Proving, Carries, Fenced, ProofPresent, shardVars,
     netVars
<1>9. FailedQuiet'
  BY DEF ResInv, FailedQuiet, Carries, ProofPresent, shardVars, netVars
<1>. QED
  BY <1>1, <1>2, <1>3, <1>4, <1>5, <1>6, <1>7, <1>8, <1>9 DEF ResInv

(* ResInv through ProofAbsent.                                              *)
LEMMA ResProofAbsent ==
  ASSUME TInv, TInv', ResInv, ProofAbsent
  PROVE  ResInv'
<1>. USE ConstantTypes, Typed, ReservationFields, IdleTask
<1>1. Shapes'
  BY AcquireFields, EffectFields DEF ResInv, Shapes, ProofAbsent, ClearAck, shardVars, netVars
<1>2. Fresh'
  BY DEF ResInv, Fresh, ProofAbsent, ClearAck, shardVars, netVars
<1>3. Claiming'
  BY DEF ResInv, Claiming, ProofAbsent, ClearAck, shardVars, netVars
<1>4. Flying'
  BY DEF ResInv, Flying, Carries, Undecided, Proving, Fenced, ProofAbsent, ClearAck, shardVars,
     netVars
<1>5. Pinned'
  BY AcquireFields, EffectFields DEF ResInv, Pinned, Proving, Carries, Fenced, ProofAbsent,
     ClearAck, shardVars, netVars
<1>6. Owned'
  <2>1. task.v \in Values /\ task.m \in Inserts /\ Value[task.m] = task.v
    BY DEF ResInv, Proving, ProofAbsent
  <2>2. CASE Fenced
    BY <2>1, <2>2 DEF ResInv, Owned, Fenced, ProofAbsent, shardVars
  <2>3. CASE ~Fenced
    BY <2>1, <2>3, ClearAckKeeps DEF ResInv, Owned, ProofAbsent, shardVars
  <2>. QED
    BY <2>2, <2>3
<1>7. Live'
  <2>1. /\ task.v \in Values /\ task.m \in Inserts /\ Value[task.m] = task.v
        /\ Acquire(task.m) \notin outbox
    BY DEF ResInv, Proving, ProofAbsent
  <2>2. CASE Fenced
    BY <2>1, <2>2 DEF ResInv, Live, Undecided, Fenced, ProofAbsent, shardVars
  <2>3. CASE ~Fenced
    BY <2>1, <2>3, ClearAckKeeps DEF ResInv, Live, Undecided, ProofAbsent, shardVars
  <2>. QED
    BY <2>2, <2>3
<1>8. Proving'
  BY AcquireFields, EffectFields DEF ResInv, Proving, Carries, Fenced, ProofAbsent, ClearAck,
     shardVars, netVars
<1>9. FailedQuiet'
  BY DEF ResInv, FailedQuiet, Carries, Proving, Fenced, ProofAbsent, ClearAck, shardVars, netVars
<1>. QED
  BY <1>1, <1>2, <1>3, <1>4, <1>5, <1>6, <1>7, <1>8, <1>9 DEF ResInv

(* ResInv through ProofFailed.                                              *)
LEMMA ResProofFailed ==
  ASSUME TInv, TInv', ResInv, ProofFailed
  PROVE  ResInv'
<1>. USE ConstantTypes, Typed, ReservationFields, IdleTask
<1>1. Shapes'
  BY AcquireFields, EffectFields DEF ResInv, Shapes, ProofFailed, shardVars, netVars
<1>2. Fresh'
  BY DEF ResInv, Fresh, ProofFailed, shardVars, netVars
<1>3. Claiming'
  BY DEF ResInv, Claiming, ProofFailed, shardVars, netVars
<1>4. Flying'
  BY DEF ResInv, Flying, Carries, Undecided, Proving, Fenced, ProofFailed, shardVars, netVars
<1>5. Pinned'
  BY AcquireFields, EffectFields DEF ResInv, Pinned, Proving, Carries, Fenced, ProofFailed,
     shardVars, netVars
<1>6. Owned'
  BY DEF ResInv, Owned, Proving, Carries, Fenced, ProofFailed, shardVars, netVars
<1>7. Live'
  BY AcquireFields, EffectFields DEF ResInv, Live, Undecided, Proving, Carries, Fenced,
     ProofFailed, shardVars, netVars
<1>8. Proving'
  BY AcquireFields, EffectFields DEF ResInv, Proving, Carries, Fenced, ProofFailed, shardVars,
     netVars
<1>9. FailedQuiet'
  BY DEF ResInv, FailedQuiet, Carries, ProofFailed, shardVars, netVars
<1>. QED
  BY <1>1, <1>2, <1>3, <1>4, <1>5, <1>6, <1>7, <1>8, <1>9 DEF ResInv

(* ResInv through DrainConstraint.                                          *)
LEMMA ResDrainConstraint ==
  ASSUME TInv, TInv', ResInv, DrainConstraint
  PROVE  ResInv'
<1>. USE ConstantTypes, Typed, ReservationFields, IdleTask
<1>0. con'.inc = con.inc /\ con'.life \in {con.life, "Absent"}
  BY DrainKeeps
<1>00. \A v \in Values : res'[v] = Purged(res[v])
  BY DrainPage
<1>000. task'.phase \in {"idle", "read"}
  BY DrainKeeps
<1>1. Shapes'
  BY AcquireFields, EffectFields DEF ResInv, Shapes, DrainConstraint, Purged, shardVars, netVars
<1>2. Fresh'
  BY <1>0 DEF ResInv, Fresh, DrainConstraint, shardVars, netVars
<1>3. Claiming'
  BY <1>0 DEF ResInv, Claiming, DrainConstraint, shardVars, netVars
<1>4. Flying'
  BY DEF ResInv, Flying, Carries, Undecided, DrainConstraint, Purged, shardVars, netVars
<1>5. Pinned'
  BY AcquireFields, EffectFields DEF ResInv, Pinned, DrainConstraint, Purged, shardVars, netVars
<1>6. Owned'
  BY DEF ResInv, Owned, DrainConstraint, Purged, shardVars, netVars
<1>7. Live'
  BY <1>0 DEF Live, DrainConstraint
<1>8. Proving'
  BY <1>000 DEF Proving
<1>9. FailedQuiet'
  BY DEF ResInv, FailedQuiet, Carries, DrainConstraint, Purged, shardVars, netVars
<1>. QED
  BY <1>1, <1>2, <1>3, <1>4, <1>5, <1>6, <1>7, <1>8, <1>9 DEF ResInv

(* ResInv through ProbeRead.                                                *)
LEMMA ResProbeRead ==
  ASSUME TInv, TInv', ResInv, ProbeRead
  PROVE  ResInv'
<1>. USE ConstantTypes, Typed, ReservationFields, IdleTask
<1>0. con'.inc = con.inc /\ con'.life \in {con.life, "Absent"}
  BY DrainKeeps
<1>000. task'.phase \in {"idle", "read"}
  BY DrainKeeps
<1>1. Shapes'
  BY AcquireFields, EffectFields DEF ResInv, Shapes, ProbeRead, shardVars, netVars
<1>2. Fresh'
  BY <1>0 DEF ResInv, Fresh, ProbeRead, shardVars, netVars
<1>3. Claiming'
  BY <1>0 DEF ResInv, Claiming, ProbeRead, shardVars, netVars
<1>4. Flying'
  BY DEF ResInv, Flying, Carries, Undecided, ProbeRead, shardVars, netVars
<1>5. Pinned'
  BY AcquireFields, EffectFields DEF ResInv, Pinned, ProbeRead, shardVars, netVars
<1>6. Owned'
  BY DEF ResInv, Owned, ProbeRead, shardVars, netVars
<1>7. Live'
  BY <1>0 DEF ResInv, Live, Undecided, ProbeRead, shardVars,
     netVars
<1>8. Proving'
  BY <1>000 DEF Proving
<1>9. FailedQuiet'
  BY DEF ResInv, FailedQuiet, Carries, ProbeRead, shardVars, netVars
<1>. QED
  BY <1>1, <1>2, <1>3, <1>4, <1>5, <1>6, <1>7, <1>8, <1>9 DEF ResInv

(* ResInv through ProbeFailed.                                              *)
LEMMA ResProbeFailed ==
  ASSUME TInv, TInv', ResInv, ProbeFailed
  PROVE  ResInv'
<1>. USE ConstantTypes, Typed, ReservationFields, IdleTask
<1>1. Shapes'
  BY AcquireFields, EffectFields DEF ResInv, Shapes, ProbeFailed, HoldDrain, shardVars, netVars
<1>2. Fresh'
  BY DEF ResInv, Fresh, ProbeFailed, HoldDrain, shardVars, netVars
<1>3. Claiming'
  BY DEF ResInv, Claiming, ProbeFailed, HoldDrain, shardVars, netVars
<1>4. Flying'
  BY DEF ResInv, Flying, Carries, Undecided, ProbeFailed, HoldDrain, shardVars, netVars
<1>5. Pinned'
  BY AcquireFields, EffectFields DEF ResInv, Pinned, ProbeFailed, HoldDrain, shardVars, netVars
<1>6. Owned'
  BY DEF ResInv, Owned, ProbeFailed, HoldDrain, shardVars, netVars
<1>7. Live'
  BY AcquireFields, EffectFields DEF ResInv, Live, Undecided, ProbeFailed, HoldDrain, shardVars,
     netVars
<1>8. Proving'
  BY AcquireFields, EffectFields DEF ResInv, Proving, Carries, Fenced, ProbeFailed, HoldDrain,
     shardVars, netVars
<1>9. FailedQuiet'
  BY DEF ResInv, FailedQuiet, Carries, ProbeFailed, HoldDrain, shardVars, netVars
<1>. QED
  BY <1>1, <1>2, <1>3, <1>4, <1>5, <1>6, <1>7, <1>8, <1>9 DEF ResInv

(* ResInv through Upgrade.                                                  *)
LEMMA ResUpgrade ==
  ASSUME TInv, TInv', ResInv, Upgrade
  PROVE  ResInv'
<1>. USE ConstantTypes, Typed, ReservationFields, IdleTask
<1>1. Shapes'
  BY AcquireFields, EffectFields DEF ResInv, Shapes, Upgrade, shardVars, netVars
<1>2. Fresh'
  BY DEF ResInv, Fresh, Upgrade, shardVars, netVars
<1>3. Claiming'
  BY DEF ResInv, Claiming, Upgrade, shardVars, netVars
<1>4. Flying'
  BY DEF ResInv, Flying, Carries, Undecided, Upgrade, shardVars, netVars
<1>5. Pinned'
  BY AcquireFields, EffectFields DEF ResInv, Pinned, Upgrade, shardVars, netVars
<1>6. Owned'
  BY DEF ResInv, Owned, Upgrade, shardVars, netVars
<1>7. Live'
  BY AcquireFields, EffectFields DEF ResInv, Live, Undecided, Upgrade, shardVars, netVars
<1>8. Proving'
  BY AcquireFields, EffectFields DEF ResInv, Proving, Carries, Fenced, Upgrade, shardVars, netVars
<1>9. FailedQuiet'
  BY DEF ResInv, FailedQuiet, Carries, Upgrade, shardVars, netVars
<1>. QED
  BY <1>1, <1>2, <1>3, <1>4, <1>5, <1>6, <1>7, <1>8, <1>9 DEF ResInv

(* ResInv holds at the start.                                               *)
LEMMA ResInit == Init => ResInv
BY ConstantTypes, IdleTask, ReservationFields
   DEF Init, ResInv, Shapes, Fresh, Claiming, Flying, Pinned, Owned, Live, Proving, FailedQuiet

(* ResInv is inductive.                                                     *)
LEMMA ResNext ==
  ASSUME TInv, TInv', ResInv, [Next]_vars
  PROVE  ResInv'
<1>1. ASSUME NEW c \in Calls, CallStep(c) PROVE ResInv'
  <2>1. ASSUME DispatchDelete(c) \/ SeedFound(c) PROVE ResInv'
    <3>1. PICK k \in Carried : SendDelete(c, k)
      BY <2>1, CarriedTypes DEF DispatchDelete, SeedFound, TInv
    <3>2. KeyOf[c] \in Deletes
      BY <2>1 DEF DispatchDelete, SeedFound, TInv, CallTyped
    <3>. QED
      BY <3>1, <3>2, ResSendDelete
  <2>. QED
    BY <1>1, <2>1, InsertCases, ResSentInsert, ResRefusedInsert, ResSeedDelete, ResSeedNothing, ResConfirm,
       ResConfirmAcked DEF CallStep
<1>2. ASSUME NEW f \in flight, ShardStep(f[1], f[2]) \/ DispatchLost(f[1], f[2]) PROVE ResInv'
  BY <1>2, Typed, ResShardInsert, ResShardDelete, ResShardReplay, ResDispatchLost DEF ShardStep
<1>3. ASSUME NEW e \in outbox \cup acks, AckEffect(e) \/ AckLost(e) \/ ReconcileRelease(e)
      PROVE  ResInv'
  <2>1. e \in Effects
    BY Typed
  <2>. QED
    BY <1>3, <2>1, ResAckEffect, ResAckLost, ResReconcileRelease
<1>4. ASSUME UNCHANGED vars PROVE ResInv'
  BY <1>4 DEF vars, ResInv, Shapes, Fresh, Claiming, Flying, Pinned, Owned, Live, Proving,
              FailedQuiet, Carries, Fenced
<1>. QED
  BY <1>1, <1>2, <1>3, <1>4, ResCreateConstraint, ResDropConstraint, ResComplete, ResRemoveRow,
     ResStartProof, ResReadProof, ResProofPresent, ResProofAbsent, ResProofFailed,
     ResDrainConstraint, ResProbeRead, ResProbeFailed, ResUpgrade DEF Next, ProofStep, Fault

(* The inductive invariant holds in every reachable state: a claim on its   *)
(* way to the shard is undecided, a pinned Acquire belongs to the           *)
(* reservation, an element of the Active incarnation owns its value and a   *)
(* reclaim proof is about a fenced or a decided claim.                      *)
THEOREM DropSafety == Spec => [](TInv /\ ResInv)
<1>1. Init => TInv /\ ResInv
  BY TypeInit, ResInit
<1>2. TInv /\ ResInv /\ [Next]_vars => TInv' /\ ResInv'
  BY TypeNext, ResNext
<1>. QED
  BY <1>1, <1>2, PTL DEF Spec

(* Every reachable state of DROP CONSTRAINT is well typed.                  *)
THEOREM TypeCorrect == Spec => []TypeOK
<1>1. TInv => TypeOK
  BY DEF TInv
<1>. QED
  BY <1>1, DropSafety, PTL

(* A reservation the drain, a Release or a reclaim proof frees leaves no    *)
(* Acquire behind, whatever deletes look their targets up first and         *)
(* however often a call is repeated.                                        *)
THEOREM NoOrphans == Spec => []NoOrphanAcquire
<1>1. TInv /\ ResInv => NoOrphanAcquire
  <2>1. SUFFICES ASSUME TInv, ResInv, NEW e \in outbox, e.op = "acquire"
                 PROVE  res[Value[e.owner]].claim = e.m
    BY DEF NoOrphanAcquire
  <2>2. e \in Effects /\ e.owner = e.m /\ e.m \in Inserts
    BY <2>1, Typed DEF ResInv, Shapes
  <2>3. PICK m \in Inserts : m = e.m
    BY <2>2
  <2>4. e = Acquire(m)
    BY <2>1, <2>2, <2>3 DEF Acquire, Effects
  <2>. QED
    BY <2>1, <2>2, <2>3, <2>4 DEF ResInv, Pinned
<1>. QED
  BY <1>1, DropSafety, PTL

(* A Release, a reclaim proof or a drain of an earlier incarnation never    *)
(* frees a value an element of the Active incarnation holds.                *)
THEOREM Reserved_Live == Spec => []LiveIsReserved
<1>1. ResInv => LiveIsReserved
  BY DEF ResInv, Live, LiveIsReserved
<1>. QED
  BY <1>1, DropSafety, PTL

(* The values of an Active constraint's label are unique, whatever the      *)
(* incarnation before it left behind.                                       *)
THEOREM Uniqueness == Spec => []UniqueWhileActive
<1>1. ResInv => UniqueWhileActive
  BY DEF ResInv, Live, UniqueWhileActive
<1>. QED
  BY <1>1, DropSafety, PTL

------------------------------------------------------------------------------
(* The drain.                                                               *)

(* A page holds the next rows in order; rows beyond it mean that it is full. *)
LEMMA PageCovers ==
  ASSUME TInv, NEW after \in Nat, NEW m \in rows, m > after, m \notin RowPage(after)
  PROVE  /\ Cardinality(RowPage(after)) = ProbePage
         /\ m > PageTop(RowPage(after))
<1>. DEFINE upto(x) == {n \in rows : after < n /\ n <= x}
            page == RowPage(after)
            rest == {x \in rows : x > after /\ x \notin page}
<1>1. rows \in SUBSET Mutations /\ IsFiniteSet(rows) /\ rows \in SUBSET Nat
  BY ConstantTypes DEF TInv, TypeOK
<1>2. ASSUME NEW x \in rows PROVE IsFiniteSet(upto(x)) /\ Cardinality(upto(x)) \in Nat
  <2>1. upto(x) \in SUBSET rows
    OBVIOUS
  <2>. QED
    BY <1>1, <2>1, FS_Subset, FS_CardinalityType
<1>3. \A x : x \in page <=> x \in rows /\ x > after /\ Cardinality(upto(x)) <= ProbePage
  BY DEF RowPage
<1>4. page \in SUBSET rows /\ IsFiniteSet(page) /\ Cardinality(page) \in Nat
  <2>1. page \in SUBSET rows
    BY DEF RowPage
  <2>. QED
    BY <1>1, <2>1, FS_Subset, FS_CardinalityType
<1>5. ASSUME NEW x \in page, NEW y \in rows, y > after, y <= x PROVE y \in page
  <2>1. x \in rows /\ x \in Nat /\ y \in Nat
    BY <1>1, <1>4
  <2>2. upto(y) \in SUBSET upto(x)
    <3>1. ASSUME NEW n \in upto(y) PROVE n \in upto(x)
      BY <1>1, <1>5, <2>1
    <3>. QED BY <3>1
  <2>3. Cardinality(upto(y)) <= Cardinality(upto(x))
    <3>. HIDE DEF upto
    <3>. QED BY <1>2, <2>1, <2>2, FS_Subset
  <2>4. Cardinality(upto(x)) <= ProbePage
    BY <1>3
  <2>5. Cardinality(upto(y)) <= ProbePage
    <3>. HIDE DEF upto
    <3>. QED BY <1>2, <2>1, <2>3, <2>4, ConstantTypes
  <2>. QED
    BY <1>3, <1>5, <2>5
<1>6. PICK x \in rest : \A y \in rest : x <= y
  <2>1. rest \in SUBSET Nat /\ rest # {}
    BY <1>1
  <2>. HIDE DEF rest
  <2>. QED
    BY <2>1, LeastNat
<1>7. x \in rows /\ x > after /\ x \notin page /\ x \in Nat
  BY <1>1, <1>6
<1>8. upto(x) \in SUBSET (page \cup {x})
  <2>1. ASSUME NEW n \in upto(x) PROVE n \in page \cup {x}
    BY <1>1, <1>6, <1>7
  <2>. QED BY <2>1
<1>9. Cardinality(page) >= ProbePage
  <2>. HIDE DEF upto, page
  <2>1. IsFiniteSet(page \cup {x}) /\ Cardinality(page \cup {x}) = Cardinality(page) + 1
    BY <1>4, <1>7, FS_AddElement
  <2>2. Cardinality(upto(x)) <= Cardinality(page) + 1
    BY <1>8, <2>1, FS_Subset
  <2>3. ~(Cardinality(upto(x)) <= ProbePage)
    BY <1>3, <1>7
  <2>. QED
    BY <1>2, <1>4, <1>7, <2>2, <2>3, ConstantTypes
<1>10. page # {}
  BY <1>9, FS_EmptySet, ConstantTypes
<1>11. Max(page) \in page /\ \A n \in page : n <= Max(page)
  <2>. HIDE DEF page
  <2>. QED BY <1>1, <1>4, <1>10, GreatestIn
<1>12. Cardinality(page) <= ProbePage
  <2>1. PICK top : top = Max(page)
    OBVIOUS
  <2>2. top \in rows /\ top > after /\ Cardinality(upto(top)) <= ProbePage
    BY <1>3, <1>11, <2>1
  <2>3. page \in SUBSET upto(top)
    BY <1>3, <1>11, <2>1
  <2>. HIDE DEF page, upto
  <2>4. Cardinality(page) <= Cardinality(upto(top))
    BY <1>2, <2>2, <2>3, FS_Subset
  <2>. QED
    BY <1>2, <1>4, <2>2, <2>4, ConstantTypes
<1>13. m > Max(page)
  <2>1. PICK top \in page : top = Max(page)
    BY <1>11
  <2>2. top \in Nat /\ m \in Nat
    BY <1>1, <1>4
  <2>3. ~(m <= top)
    BY <1>5
  <2>. QED
    BY <2>1, <2>2, <2>3
<1>. QED
  <2>. HIDE DEF page
  <2>1. Cardinality(page) = ProbePage
    BY <1>4, <1>9, <1>12, ConstantTypes
  <2>. QED
    BY <2>1, <1>10, <1>13 DEF PageTop, page

(* Lookups is inductive.                                                    *)
LEMMA LookupsNext ==
  ASSUME TInv, TInv', ResInv, Lookups, [Next]_vars
  PROVE  Lookups'
<1>. USE ConstantTypes, Typed
<1>1. ASSUME UNCHANGED call, flight' \subseteq flight, applied \subseteq applied',
             \A m \in Mutations :
               rec'[m] = rec[m] \/ (rec'[m] = "completed" /\ m \in applied') \/ rec'[m] = "failed",
             \A c \in Calls : rec[KeyOf[c]] = "routing" => rec'[KeyOf[c]] = rec[KeyOf[c]]
      PROVE  Lookups'
  BY <1>1 DEF Lookups, Quiet, Carries
<1>2. ASSUME NEW c \in Calls, CallStep(c) PROVE Lookups'
  <2>1. CASE SentInsert(c)
    BY <2>1 DEF SentInsert, Lookups, Quiet, Carries, Open, SetCall, shardVars, TInv, TypeOK
  <2>2. CASE RefusedInsert(c)
    BY <2>2 DEF RefusedInsert, Lookups, Quiet, Carries, Open, SetCall, shardVars, netVars, TInv, TypeOK
  <2>3. CASE DispatchDelete(c)
    BY <2>3
       DEF DispatchDelete, SendDelete, Lookups, Quiet, Carries, Open, SetCall, shardVars, TInv, TypeOK
  <2>4. CASE SeedDelete(c)
    BY <2>4 DEF SeedDelete, Lookups, Quiet, Carries, SetCall, shardVars, netVars, TInv, TypeOK
  <2>5. CASE SeedFound(c)
    BY <2>5
       DEF SeedFound, SendDelete, Lookups, Quiet, Carries, Open, SetCall, shardVars, TInv, TypeOK
  <2>6. CASE SeedNothing(c)
    BY <2>6 DEF SeedNothing, Lookups, Quiet, Carries, SetCall, shardVars, netVars, TInv, TypeOK
  <2>7. CASE Confirm(c) \/ ConfirmAcked(c)
    BY <2>7
       DEF Confirm, ConfirmAcked, Lookups, Quiet, Carries, SetCall, shardVars, netVars, TInv, TypeOK
  <2>. QED
    BY <1>2, <2>1, <2>2, <2>3, <2>4, <2>5, <2>6, <2>7, InsertCases DEF CallStep
<1>3. ASSUME NEW f \in flight, ShardStep(f[1], f[2]) \/ DispatchLost(f[1], f[2]) PROVE Lookups'
  BY <1>1, <1>3
     DEF ShardStep, ShardInsert, ShardDelete, ShardReplay, DispatchLost, shardVars
<1>4. ASSUME NEW m \in Mutations, Complete(m) \/ RemoveRow(m) PROVE Lookups'
  BY <1>1, <1>4 DEF Complete, RemoveRow, shardVars, netVars, TInv, TypeOK
<1>5. ASSUME ProofAbsent PROVE Lookups'
  BY <1>1, <1>5 DEF ProofAbsent, shardVars, netVars, TInv, TypeOK
<1>6. ASSUME UNCHANGED <<call, flight, applied, rec>> PROVE Lookups'
  BY <1>1, <1>6
<1>7. ASSUME Next, \A c \in Calls : ~CallStep(c),
             \A f \in flight : ~ShardStep(f[1], f[2]) /\ ~DispatchLost(f[1], f[2]),
             \A m \in Mutations : ~Complete(m) /\ ~RemoveRow(m), ~ProofAbsent
      PROVE  UNCHANGED <<call, flight, applied, rec>>
  BY <1>7
     DEF Next, CreateConstraint, DropConstraint, AckEffect, ReconcileRelease, StartProof, ProofStep,
         ReadProof, ProofPresent, DrainConstraint, ProbeRead, Fault, AckLost, ProofFailed,
         ProbeFailed, Upgrade, shardVars, netVars
<1>. QED
  BY <1>2, <1>3, <1>4, <1>5, <1>6, <1>7 DEF vars

(* Nothing more is pinned for a terminal mutation.                          *)
LEMMA QuietTerminal ==
  ASSUME TInv, ResInv, Lookups, NEW m \in Mutations, rec[m] \in Terminal
  PROVE  Quiet(m)
BY DEF Lookups, Quiet, Carries, ResInv, FailedQuiet, Terminal

(* CleanInv through CreateConstraint.                                       *)
LEMMA CleanCreateConstraint ==
  ASSUME TInv, TInv', ResInv, CleanInv, CreateConstraint
  PROVE  CleanInv'
<1>. USE ConstantTypes, Typed, ReservationFields, IdleTask
<1>0. \A n \in Mutations : Clean(n) => Clean(n)'
  BY DEF Clean, Quiet, EffectsOf, Carries, CreateConstraint, shardVars, netVars
<1>1. Registered'
  BY <1>0 DEF CleanInv, Registered, CreateConstraint, shardVars, netVars
<1>2. LapInv'
  BY <1>0 DEF CleanInv, LapInv, LapClean, CreateConstraint, shardVars, netVars
<1>3. PageInv'
  BY <1>0 DEF CleanInv, PageInv, PageClean, CreateConstraint, shardVars, netVars, ScansOutbox, Terminal
<1>4. ReusedIdIsClean'
  BY <1>0 DEF CleanInv, ReusedIdIsClean, CreateConstraint, shardVars, netVars, Current
<1>. QED
  BY <1>1, <1>2, <1>3, <1>4 DEF CleanInv

(* CleanInv through DropConstraint.                                         *)
LEMMA CleanDropConstraint ==
  ASSUME TInv, TInv', ResInv, CleanInv, DropConstraint
  PROVE  CleanInv'
<1>. USE ConstantTypes, Typed, ReservationFields, IdleTask
<1>0. \A n \in Mutations : Clean(n) => Clean(n)'
  BY DEF Clean, Quiet, EffectsOf, Carries, DropConstraint, shardVars, netVars
<1>1. Registered'
  BY <1>0 DEF CleanInv, Registered, DropConstraint, shardVars, netVars
<1>2. LapInv'
  BY <1>0 DEF CleanInv, LapInv, LapClean, DropConstraint, shardVars, netVars
<1>3. PageInv'
  BY <1>0 DEF CleanInv, PageInv, PageClean, DropConstraint, shardVars, netVars, ScansOutbox, Terminal
<1>4. ReusedIdIsClean'
  BY <1>0 DEF CleanInv, ReusedIdIsClean, DropConstraint, shardVars, netVars, Current
<1>. QED
  BY <1>1, <1>2, <1>3, <1>4 DEF CleanInv

(* CleanInv through SentInsert.                                         *)
LEMMA CleanSentInsert ==
  ASSUME TInv, TInv', ResInv, CleanInv, NEW c \in Calls, SentInsert(c)
  PROVE  CleanInv'
<1>. USE ConstantTypes, Typed, ReservationFields, IdleTask
<1>00. con'.life = con.life /\ con'.inc = con.inc
  BY RegisterKeeps DEF SentInsert
<1>0. \A m \in Mutations :
        Clean(m) => Clean(m)' \/ (m \in rows' /\ con.life = "Active")
  BY DEF Clean, Quiet, EffectsOf, Carries, SentInsert, Register, ClaimedBy, shardVars
<1>1. Registered'
  <2>1. rows \subseteq rows'
    BY DEF SentInsert, Register
  <2>. QED
    BY <1>0, <2>1 DEF CleanInv, Registered
<1>2. LapInv'
  BY <1>0 DEF CleanInv, LapInv, LapClean, SentInsert, TryOk, Register, Open, SetCall, ClaimedBy,
     shardVars, netVars
<1>3. PageInv'
  BY <1>0 DEF CleanInv, PageInv, PageClean, SentInsert, TryOk, Register, Open, SetCall, ClaimedBy,
     shardVars, netVars, ScansOutbox, Terminal
<1>4. ReusedIdIsClean'
  BY <1>00 DEF CleanInv, ReusedIdIsClean, Current, SentInsert, ClaimedBy, shardVars
<1>. QED
  BY <1>1, <1>2, <1>3, <1>4 DEF CleanInv

(* CleanInv through RefusedInsert.                                             *)
LEMMA CleanRefusedInsert ==
  ASSUME TInv, TInv', ResInv, CleanInv, NEW c \in Calls, RefusedInsert(c)
  PROVE  CleanInv'
<1>. USE ConstantTypes, Typed, ReservationFields, IdleTask
<1>0. \A n \in Mutations : Clean(n) => Clean(n)'
  BY DEF Clean, Quiet, EffectsOf, Carries, RefusedInsert, Open, SetCall, ClaimedBy, shardVars, netVars
<1>1. Registered'
  BY <1>0 DEF CleanInv, Registered, RefusedInsert, Open, SetCall, ClaimedBy, shardVars, netVars
<1>2. LapInv'
  BY <1>0 DEF CleanInv, LapInv, LapClean, RefusedInsert, Open, SetCall, ClaimedBy, shardVars, netVars
<1>3. PageInv'
  BY <1>0 DEF CleanInv, PageInv, PageClean, RefusedInsert, Open, SetCall, ClaimedBy, shardVars, netVars,
     ScansOutbox, Terminal
<1>4. ReusedIdIsClean'
  BY <1>0 DEF CleanInv, ReusedIdIsClean, RefusedInsert, Open, SetCall, ClaimedBy, shardVars,
     netVars, Current
<1>. QED
  BY <1>1, <1>2, <1>3, <1>4 DEF CleanInv

(* CleanInv through SendDelete.                                             *)
LEMMA CleanSendDelete ==
  ASSUME TInv, TInv', ResInv, CleanInv, NEW c \in Calls, NEW k \in Carried,
         rec[KeyOf[c]] \notin Terminal, SendDelete(c, k)
  PROVE  CleanInv'
<1>. USE ConstantTypes, Typed, ReservationFields, IdleTask
<1>1. con'.life = con.life /\ con'.inc = con.inc
  BY RegisterKeeps DEF SendDelete
<1>2. con'.gen \in Nat /\ con'.gen >= con.gen
  BY DEF SendDelete, Register, TInv, TypeOK
<1>3. late \subseteq late' /\ rows \subseteq rows'
  BY DEF SendDelete, Register
<1>4. \A m \in Mutations :
        Clean(m) => Clean(m)' \/ (m \in rows' /\ (con.life = "Dropping" => con'.gen # con.gen))
  <2>1. CASE k = 0
    BY <1>3, <2>1 DEF Clean, Quiet, EffectsOf, Carries, SendDelete, shardVars
  <2>2. CASE k # 0
    <3>1. KeyOf[c] \in rows' /\ (con.life = "Dropping" => con'.gen = con.gen + 1)
      BY <2>2 DEF SendDelete, Register, TInv, TypeOK
    <3>2. \A m \in Mutations : m # KeyOf[c] /\ Clean(m) => Clean(m)'
      BY <1>3 DEF Clean, Quiet, EffectsOf, Carries, SendDelete, shardVars
    <3>. QED
      BY <3>1, <3>2
  <2>. QED
    BY <2>1, <2>2
<1>5. Registered'
  BY <1>3, <1>4 DEF CleanInv, Registered
<1>6. LapInv'
  <2>1. UNCHANGED lap /\ (lap.open => lap.gen \in Nat)
    BY DEF SendDelete, TInv, TypeOK
  <2>. QED
    BY <1>1, <1>2, <1>4, <2>1 DEF CleanInv, LapInv, LapClean
<1>7. PageInv'
  <2>1. UNCHANGED <<task, res>> /\ task.gen \in Nat /\ task.queue \in SUBSET Mutations
    BY DEF SendDelete, TInv, TypeOK
  <2>2. \A m \in Mutations : ScansOutbox(m) => ScansOutbox(m)'
    BY DEF ScansOutbox, Terminal, SendDelete, Open
  <2>3. task.queue # {} => Min(task.queue) \in Mutations
    BY <2>1, LeastIn
  <2>. QED
    BY <1>1, <1>2, <1>4, <2>1, <2>2, <2>3 DEF CleanInv, PageInv, PageClean
<1>8. ReusedIdIsClean'
  BY <1>1, <1>3 DEF CleanInv, ReusedIdIsClean, Current, SendDelete, shardVars
<1>. QED
  BY <1>5, <1>6, <1>7, <1>8 DEF CleanInv

(* CleanInv through a lookup.                                               *)
LEMMA CleanLookup ==
  ASSUME TInv, TInv', ResInv, Lookups, CleanInv, NEW c \in Calls, SeedDelete(c) \/ SeedNothing(c)
  PROVE  CleanInv'
<1>. USE ConstantTypes, Typed, ReservationFields, IdleTask
<1>0. UNCHANGED <<con, res, rows, lap, task, shardVars, netVars>>
  BY DEF SeedDelete, SeedNothing
<1>00. \A m \in Mutations : ScansOutbox(m) => ScansOutbox(m)'
  BY DEF ScansOutbox, Terminal, SeedDelete, SeedNothing, Lookups
<1>000. task.queue # {} => Min(task.queue) \in Mutations
  BY LeastIn DEF TInv, TypeOK
<1>1. \A n \in Mutations : Clean(n) => Clean(n)'
  BY <1>0 DEF Clean, Quiet, EffectsOf, Carries, shardVars, netVars
<1>2. Registered' /\ LapInv'
  BY <1>0, <1>1 DEF CleanInv, Registered, LapInv, LapClean
<1>3. PageInv'
  BY <1>0, <1>00, <1>000, <1>1 DEF CleanInv, PageInv, PageClean
<1>4. ReusedIdIsClean'
  BY <1>0 DEF CleanInv, ReusedIdIsClean, shardVars, netVars, Current
<1>. QED
  BY <1>2, <1>3, <1>4 DEF CleanInv

(* CleanInv through Confirm.                                                *)
LEMMA CleanConfirm ==
  ASSUME TInv, TInv', ResInv, CleanInv, NEW c \in Calls, Confirm(c)
  PROVE  CleanInv'
<1>. USE ConstantTypes, Typed, ReservationFields, IdleTask
<1>0. \A n \in Mutations : Clean(n) => Clean(n)'
  BY DEF Clean, Quiet, EffectsOf, Carries, Confirm, SetCall, shardVars, netVars
<1>1. Registered'
  BY <1>0 DEF CleanInv, Registered, Confirm, SetCall, shardVars, netVars
<1>2. LapInv'
  BY <1>0 DEF CleanInv, LapInv, LapClean, Confirm, SetCall, shardVars, netVars
<1>3. PageInv'
  BY <1>0 DEF CleanInv, PageInv, PageClean, Confirm, SetCall, shardVars, netVars, ScansOutbox, Terminal
<1>4. ReusedIdIsClean'
  BY <1>0 DEF CleanInv, ReusedIdIsClean, Confirm, SetCall, shardVars, netVars, Current
<1>. QED
  BY <1>1, <1>2, <1>3, <1>4 DEF CleanInv

(* CleanInv through ConfirmAcked.                                           *)
LEMMA CleanConfirmAcked ==
  ASSUME TInv, TInv', ResInv, CleanInv, NEW c \in Calls, ConfirmAcked(c)
  PROVE  CleanInv'
<1>. USE ConstantTypes, Typed, ReservationFields, IdleTask
<1>0. \A n \in Mutations : Clean(n) => Clean(n)'
  BY DEF Clean, Quiet, EffectsOf, Carries, ConfirmAcked, ClearAck, SetCall, shardVars, netVars
<1>1. Registered'
  BY <1>0 DEF CleanInv, Registered, ConfirmAcked, ClearAck, SetCall, shardVars, netVars
<1>2. LapInv'
  BY <1>0 DEF CleanInv, LapInv, LapClean, ConfirmAcked, ClearAck, SetCall, shardVars, netVars
<1>3. PageInv'
  BY <1>0 DEF CleanInv, PageInv, PageClean, ConfirmAcked, ClearAck, SetCall, shardVars, netVars,
     ScansOutbox, Terminal
<1>4. ReusedIdIsClean'
  BY <1>0 DEF CleanInv, ReusedIdIsClean, ConfirmAcked, ClearAck, SetCall, shardVars, netVars,
     Current
<1>. QED
  BY <1>1, <1>2, <1>3, <1>4 DEF CleanInv

(* CleanInv through ShardInsert.                                            *)
LEMMA CleanShardInsert ==
  ASSUME TInv, TInv', ResInv, CleanInv, NEW c \in Calls, NEW k \in Carried,
         ShardInsert(c, k)
  PROVE  CleanInv'
<1>. USE ConstantTypes, Typed, ReservationFields, IdleTask
<1>0. \A n \in Mutations : Clean(n) => Clean(n)'
  BY AcquireFields DEF Clean, Quiet, EffectsOf, Carries, ShardInsert
<1>1. Registered'
  BY <1>0 DEF CleanInv, Registered, ShardInsert, shardVars, netVars
<1>2. LapInv'
  BY <1>0 DEF CleanInv, LapInv, LapClean, ShardInsert, shardVars, netVars
<1>3. PageInv'
  BY <1>0 DEF CleanInv, PageInv, PageClean, ShardInsert, shardVars, netVars, ScansOutbox, Terminal
<1>4. ReusedIdIsClean'
  <2>1. k # 0 => Current(k) /\ k = Label[KeyOf[c]]
    BY DEF CleanInv, ReusedIdIsClean, ResInv, Claiming, ShardInsert, TInv, TypeOK
  <2>2. Acquire(KeyOf[c]).owner = KeyOf[c]
    BY AcquireFields
  <2>. QED
    BY <2>1, <2>2 DEF CleanInv, ReusedIdIsClean, Current, ShardInsert
<1>. QED
  BY <1>1, <1>2, <1>3, <1>4 DEF CleanInv

(* CleanInv through ShardDelete.                                            *)
LEMMA CleanShardDelete ==
  ASSUME TInv, TInv', ResInv, CleanInv, NEW c \in Calls, NEW k \in Carried,
         ShardDelete(c, k)
  PROVE  CleanInv'
<1>. USE ConstantTypes, Typed, ReservationFields, IdleTask
<1>0. \A n \in Mutations : Clean(n) => Clean(n)'
  <2>1. PICK R \in SUBSET held :
          /\ held' = held \ R
          /\ outbox' = outbox \cup {Release(KeyOf[c], e) : e \in {e \in R : Label[e] = k}}
    BY DEF ShardDelete
  <2>2. ASSUME NEW m \in Mutations, Clean(m), m \notin late, NEW e \in outbox', e.m = m
        PROVE  FALSE
    <3>1. e \notin outbox
      BY <2>2 DEF Clean, EffectsOf
    <3>2. PICK o \in R : e = Release(KeyOf[c], o) /\ Label[o] = k
      BY <2>1, <3>1
    <3>3. KeyOf[c] = m /\ k # 0
      BY <2>2, <3>2, ReleaseFields
    <3>. QED
      BY <2>2, <3>3 DEF Clean, Quiet, Carries, ShardDelete
  <2>. QED
    BY <2>2 DEF Clean, Quiet, EffectsOf, Carries, ShardDelete
<1>1. Registered'
  BY <1>0 DEF CleanInv, Registered, ShardDelete, shardVars, netVars
<1>2. LapInv'
  BY <1>0 DEF CleanInv, LapInv, LapClean, ShardDelete, shardVars, netVars
<1>3. PageInv'
  BY <1>0 DEF CleanInv, PageInv, PageClean, ShardDelete, shardVars, netVars, ScansOutbox, Terminal
<1>4. ReusedIdIsClean'
  <2>1. PICK R \in SUBSET held :
          /\ held' = held \ R
          /\ outbox' = outbox \cup {Release(KeyOf[c], e) : e \in {e \in R : Label[e] = k}}
    BY DEF ShardDelete
  <2>2. ASSUME NEW e \in outbox', e \notin outbox PROVE e.m \in late \/ Current(Label[e.owner])
    <3>1. PICK o \in R : e = Release(KeyOf[c], o) /\ Label[o] = k
      BY <2>1, <2>2
    <3>2. e.owner = o /\ e.m = KeyOf[c] /\ k # 0
      BY <3>1, ReleaseFields
    <3>. QED
      BY <3>1, <3>2 DEF CleanInv, ReusedIdIsClean, ShardDelete
  <2>. QED
    BY <2>2 DEF CleanInv, ReusedIdIsClean, Current, ShardDelete
<1>. QED
  BY <1>1, <1>2, <1>3, <1>4 DEF CleanInv

(* CleanInv through ShardReplay.                                            *)
LEMMA CleanShardReplay ==
  ASSUME TInv, TInv', ResInv, CleanInv, NEW c \in Calls, NEW k \in Carried,
         ShardReplay(c, k)
  PROVE  CleanInv'
<1>. USE ConstantTypes, Typed, ReservationFields, IdleTask
<1>0. \A n \in Mutations : Clean(n) => Clean(n)'
  BY DEF Clean, Quiet, EffectsOf, Carries, ShardReplay, shardVars, netVars
<1>1. Registered'
  BY <1>0 DEF CleanInv, Registered, ShardReplay, shardVars, netVars
<1>2. LapInv'
  BY <1>0 DEF CleanInv, LapInv, LapClean, ShardReplay, shardVars, netVars
<1>3. PageInv'
  BY <1>0 DEF CleanInv, PageInv, PageClean, ShardReplay, shardVars, netVars, ScansOutbox, Terminal
<1>4. ReusedIdIsClean'
  BY <1>0 DEF CleanInv, ReusedIdIsClean, ShardReplay, shardVars, netVars, Current
<1>. QED
  BY <1>1, <1>2, <1>3, <1>4 DEF CleanInv

(* CleanInv through DispatchLost.                                           *)
LEMMA CleanDispatchLost ==
  ASSUME TInv, TInv', ResInv, CleanInv, NEW c \in Calls, NEW k \in Carried,
         DispatchLost(c, k)
  PROVE  CleanInv'
<1>. USE ConstantTypes, Typed, ReservationFields, IdleTask
<1>0. \A n \in Mutations : Clean(n) => Clean(n)'
  BY DEF Clean, Quiet, EffectsOf, Carries, DispatchLost, shardVars, netVars
<1>1. Registered'
  BY <1>0 DEF CleanInv, Registered, DispatchLost, shardVars, netVars
<1>2. LapInv'
  BY <1>0 DEF CleanInv, LapInv, LapClean, DispatchLost, shardVars, netVars
<1>3. PageInv'
  BY <1>0 DEF CleanInv, PageInv, PageClean, DispatchLost, shardVars, netVars, ScansOutbox, Terminal
<1>4. ReusedIdIsClean'
  BY <1>0 DEF CleanInv, ReusedIdIsClean, DispatchLost, shardVars, netVars, Current
<1>. QED
  BY <1>1, <1>2, <1>3, <1>4 DEF CleanInv

(* CleanInv through AckEffect.                                              *)
LEMMA CleanAckEffect ==
  ASSUME TInv, TInv', ResInv, CleanInv, NEW e \in Effects, AckEffect(e)
  PROVE  CleanInv'
<1>. USE ConstantTypes, Typed, ReservationFields, IdleTask
<1>0. \A n \in Mutations : Clean(n) => Clean(n)'
  BY DEF Clean, Quiet, EffectsOf, Carries, AckEffect, shardVars, netVars
<1>1. Registered'
  BY <1>0 DEF CleanInv, Registered, AckEffect, shardVars, netVars
<1>2. LapInv'
  BY <1>0 DEF CleanInv, LapInv, LapClean, AckEffect, shardVars, netVars
<1>3. PageInv'
  BY <1>0 DEF CleanInv, PageInv, PageClean, AckEffect, shardVars, netVars, ScansOutbox, Terminal
<1>4. ReusedIdIsClean'
  BY <1>0 DEF CleanInv, ReusedIdIsClean, AckEffect, shardVars, netVars, Current
<1>. QED
  BY <1>1, <1>2, <1>3, <1>4 DEF CleanInv

(* CleanInv through AckLost.                                                *)
LEMMA CleanAckLost ==
  ASSUME TInv, TInv', ResInv, CleanInv, NEW e \in Effects, AckLost(e)
  PROVE  CleanInv'
<1>. USE ConstantTypes, Typed, ReservationFields, IdleTask
<1>0. \A n \in Mutations : Clean(n) => Clean(n)'
  BY DEF Clean, Quiet, EffectsOf, Carries, AckLost, shardVars, netVars
<1>1. Registered'
  BY <1>0 DEF CleanInv, Registered, AckLost, shardVars, netVars
<1>2. LapInv'
  BY <1>0 DEF CleanInv, LapInv, LapClean, AckLost, shardVars, netVars
<1>3. PageInv'
  BY <1>0 DEF CleanInv, PageInv, PageClean, AckLost, shardVars, netVars, ScansOutbox, Terminal
<1>4. ReusedIdIsClean'
  BY <1>0 DEF CleanInv, ReusedIdIsClean, AckLost, shardVars, netVars, Current
<1>. QED
  BY <1>1, <1>2, <1>3, <1>4 DEF CleanInv

(* CleanInv through ReconcileRelease.                                       *)
LEMMA CleanReconcileRelease ==
  ASSUME TInv, TInv', ResInv, CleanInv, NEW e \in Effects, ReconcileRelease(e)
  PROVE  CleanInv'
<1>. USE ConstantTypes, Typed, ReservationFields, IdleTask
<1>0. \A n \in Mutations : Clean(n) => Clean(n)'
  BY DEF Clean, Quiet, EffectsOf, Carries, ReconcileRelease, ReleaseFrees, ReleaseApplied, shardVars,
     netVars
<1>1. Registered'
  BY <1>0 DEF CleanInv, Registered, ReconcileRelease, ReleaseFrees, ReleaseApplied, shardVars,
     netVars
<1>2. LapInv'
  BY <1>0 DEF CleanInv, LapInv, LapClean, ReconcileRelease, ReleaseFrees, ReleaseApplied, shardVars, netVars
<1>3. PageInv'
  BY <1>0 DEF CleanInv, PageInv, PageClean, ReconcileRelease, ReleaseFrees, ReleaseApplied, shardVars,
     netVars, ScansOutbox, Terminal
<1>4. ReusedIdIsClean'
  BY <1>0 DEF CleanInv, ReusedIdIsClean, ReconcileRelease, ReleaseFrees, ReleaseApplied,
     shardVars, netVars, Current
<1>. QED
  BY <1>1, <1>2, <1>3, <1>4 DEF CleanInv

(* CleanInv through Complete.                                               *)
LEMMA CleanComplete ==
  ASSUME TInv, TInv', ResInv, CleanInv, NEW m \in Mutations, Complete(m)
  PROVE  CleanInv'
<1>. USE ConstantTypes, Typed, ReservationFields, IdleTask
<1>0. \A n \in Mutations : Clean(n) => Clean(n)'
  BY DEF Clean, Quiet, EffectsOf, Carries, Complete, shardVars, netVars
<1>1. Registered'
  BY <1>0 DEF CleanInv, Registered, Complete, shardVars, netVars
<1>2. LapInv'
  BY <1>0 DEF CleanInv, LapInv, LapClean, Complete, shardVars, netVars
<1>3. PageInv'
  BY <1>0 DEF CleanInv, PageInv, PageClean, Complete, shardVars, netVars, ScansOutbox, Terminal
<1>4. ReusedIdIsClean'
  BY <1>0 DEF CleanInv, ReusedIdIsClean, Complete, shardVars, netVars, Current
<1>. QED
  BY <1>1, <1>2, <1>3, <1>4 DEF CleanInv

(* CleanInv through RemoveRow.                                              *)
LEMMA CleanRemoveRow ==
  ASSUME TInv, TInv', ResInv, Lookups, CleanInv, NEW m \in Mutations, RemoveRow(m)
  PROVE  CleanInv'
<1>. USE ConstantTypes, Typed, ReservationFields, IdleTask
<1>0. \A n \in Mutations : Clean(n) => Clean(n)'
  BY DEF Clean, Quiet, EffectsOf, Carries, RemoveRow, shardVars, netVars
<1>1. Registered'
  <2>1. Clean(m)
    BY QuietTerminal DEF Clean, RemoveRow
  <2>. QED
    BY <1>0, <2>1 DEF CleanInv, Registered, RemoveRow, shardVars, netVars
<1>2. LapInv'
  BY <1>0 DEF CleanInv, LapInv, LapClean, RemoveRow, shardVars, netVars
<1>3. PageInv'
  BY <1>0 DEF CleanInv, PageInv, PageClean, RemoveRow, shardVars, netVars, ScansOutbox, Terminal
<1>4. ReusedIdIsClean'
  BY <1>0 DEF CleanInv, ReusedIdIsClean, RemoveRow, shardVars, netVars, Current
<1>. QED
  BY <1>1, <1>2, <1>3, <1>4 DEF CleanInv

(* CleanInv through StartProof.                                             *)
LEMMA CleanStartProof ==
  ASSUME TInv, TInv', ResInv, CleanInv, NEW v \in Values, StartProof(v)
  PROVE  CleanInv'
<1>. USE ConstantTypes, Typed, ReservationFields, IdleTask
<1>0. \A n \in Mutations : Clean(n) => Clean(n)'
  BY DEF Clean, Quiet, EffectsOf, Carries, StartProof, shardVars, netVars
<1>1. Registered'
  BY <1>0 DEF CleanInv, Registered, StartProof, shardVars, netVars
<1>2. LapInv'
  BY <1>0 DEF CleanInv, LapInv, LapClean, StartProof, shardVars, netVars
<1>3. PageInv'
  BY <1>0 DEF CleanInv, PageInv, PageClean, StartProof, shardVars, netVars, ScansOutbox, Terminal
<1>4. ReusedIdIsClean'
  BY <1>0 DEF CleanInv, ReusedIdIsClean, StartProof, shardVars, netVars, Current
<1>. QED
  BY <1>1, <1>2, <1>3, <1>4 DEF CleanInv

(* CleanInv through ReadProof.                                              *)
LEMMA CleanReadProof ==
  ASSUME TInv, TInv', ResInv, CleanInv, ReadProof
  PROVE  CleanInv'
<1>. USE ConstantTypes, Typed, ReservationFields, IdleTask
<1>0. \A n \in Mutations : Clean(n) => Clean(n)'
  BY DEF Clean, Quiet, EffectsOf, Carries, ReadProof, Arrived, shardVars, netVars
<1>1. Registered'
  BY <1>0 DEF CleanInv, Registered, ReadProof, Arrived, shardVars, netVars
<1>2. LapInv'
  BY <1>0 DEF CleanInv, LapInv, LapClean, ReadProof, Arrived, shardVars, netVars
<1>3. PageInv'
  BY <1>0 DEF CleanInv, PageInv, PageClean, ReadProof, Arrived, shardVars, netVars, ScansOutbox, Terminal
<1>4. ReusedIdIsClean'
  BY <1>0 DEF CleanInv, ReusedIdIsClean, ReadProof, Arrived, shardVars, netVars, Current
<1>. QED
  BY <1>1, <1>2, <1>3, <1>4 DEF CleanInv

(* CleanInv through ProofPresent.                                           *)
LEMMA CleanProofPresent ==
  ASSUME TInv, TInv', ResInv, CleanInv, ProofPresent
  PROVE  CleanInv'
<1>. USE ConstantTypes, Typed, ReservationFields, IdleTask
<1>0. \A n \in Mutations : Clean(n) => Clean(n)'
  BY DEF Clean, Quiet, EffectsOf, Carries, ProofPresent, shardVars, netVars
<1>1. Registered'
  BY <1>0 DEF CleanInv, Registered, ProofPresent, shardVars, netVars
<1>2. LapInv'
  BY <1>0 DEF CleanInv, LapInv, LapClean, ProofPresent, shardVars, netVars
<1>3. PageInv'
  BY <1>0 DEF CleanInv, PageInv, PageClean, ProofPresent, shardVars, netVars, ScansOutbox, Terminal
<1>4. ReusedIdIsClean'
  BY DEF CleanInv, ReusedIdIsClean, Current, Fenced, ProofPresent, shardVars
<1>. QED
  BY <1>1, <1>2, <1>3, <1>4 DEF CleanInv

(* CleanInv through ProofAbsent.                                            *)
LEMMA CleanProofAbsent ==
  ASSUME TInv, TInv', ResInv, CleanInv, ProofAbsent
  PROVE  CleanInv'
<1>. USE ConstantTypes, Typed, ReservationFields, IdleTask
<1>0. \A n \in Mutations : Clean(n) => Clean(n)'
  BY DEF Clean, Quiet, EffectsOf, Carries, ProofAbsent, ClearAck, shardVars, netVars
<1>1. Registered'
  BY <1>0 DEF CleanInv, Registered, ProofAbsent, shardVars, netVars, TInv, TypeOK
<1>2. LapInv'
  BY <1>0 DEF CleanInv, LapInv, LapClean, ProofAbsent, ClearAck, shardVars, netVars
<1>3. PageInv'
  BY <1>0 DEF CleanInv, PageInv, PageClean, ProofAbsent, ClearAck, shardVars, netVars, ScansOutbox, Terminal
<1>4. ReusedIdIsClean'
  <2>1. CASE Fenced
    BY <2>1 DEF CleanInv, ReusedIdIsClean, Current, Fenced, ProofAbsent, shardVars, netVars
  <2>2. CASE ~Fenced
    <3>1. \A w \in Values : res'[w].claim = res[w].claim /\ res'[w].state = res[w].state
      BY <2>2, ClearAckKeeps DEF ProofAbsent
    <3>. QED
      BY <3>1 DEF CleanInv, ReusedIdIsClean, Current, ProofAbsent, shardVars, netVars
  <2>. QED
    BY <2>1, <2>2
<1>. QED
  BY <1>1, <1>2, <1>3, <1>4 DEF CleanInv

(* CleanInv through ProofFailed.                                            *)
LEMMA CleanProofFailed ==
  ASSUME TInv, TInv', ResInv, CleanInv, ProofFailed
  PROVE  CleanInv'
<1>. USE ConstantTypes, Typed, ReservationFields, IdleTask
<1>0. \A n \in Mutations : Clean(n) => Clean(n)'
  BY DEF Clean, Quiet, EffectsOf, Carries, ProofFailed, shardVars, netVars
<1>1. Registered'
  BY <1>0 DEF CleanInv, Registered, ProofFailed, shardVars, netVars
<1>2. LapInv'
  BY <1>0 DEF CleanInv, LapInv, LapClean, ProofFailed, shardVars, netVars
<1>3. PageInv'
  BY <1>0 DEF CleanInv, PageInv, PageClean, ProofFailed, shardVars, netVars, ScansOutbox, Terminal
<1>4. ReusedIdIsClean'
  BY DEF CleanInv, ReusedIdIsClean, Current, Fenced, ProofFailed, shardVars
<1>. QED
  BY <1>1, <1>2, <1>3, <1>4 DEF CleanInv

(* What a pass does with a clean page up to its next await keeps CleanInv;  *)
(* at the end of the lap nothing of the id is left.                         *)
LEMMA CleanProbe ==
  ASSUME TInv, TInv', CleanInv, NEW t \in TaskType, NEW l \in LapType, Probe(t, l),
         PageClean(t), LapClean(l), \A v \in Values : res'[v].state = "Free",
         UNCHANGED <<rec, rows, call, shardVars, netVars>>
  PROVE  CleanInv'
<1>. USE ConstantTypes, Typed, IdleTask
<1>0. \A n \in Mutations : Clean(n) => Clean(n)'
  BY DEF Clean, Quiet, EffectsOf, Carries, shardVars, netVars
<1>1. Registered'
  BY <1>0 DEF CleanInv, Registered
<1>2. CASE con' = con /\ lap' = NoLap /\ task' = Idle
  <2>1. LapInv' /\ PageInv'
    BY <1>2 DEF LapInv, LapClean, PageInv
  <2>2. ReusedIdIsClean'
    BY <1>2 DEF CleanInv, ReusedIdIsClean, Current, shardVars, netVars
  <2>. QED
    BY <1>1, <2>1, <2>2 DEF CleanInv
<1>3. CASE /\ t.queue # {} /\ ScansOutbox(Min(t.queue)) /\ con' = con
           /\ task' = [t EXCEPT !.phase = "read"] /\ lap' = l
  <2>1. /\ task'.queue = t.queue /\ task'.last = t.last /\ task'.full = t.full
        /\ task'.gen = t.gen
    BY <1>3 DEF TaskType
  <2>2. ScansOutbox(Min(t.queue))'
    BY <1>3, <2>1 DEF ScansOutbox
  <2>3. PageClean(task)'
    BY <1>0, <1>3, <2>1 DEF PageClean
  <2>4. PageInv'
    BY <1>3, <2>1, <2>2, <2>3 DEF PageInv, ScansOutbox
  <2>5. LapInv'
    BY <1>0, <1>3 DEF LapInv, LapClean
  <2>6. ReusedIdIsClean'
    BY <1>3 DEF CleanInv, ReusedIdIsClean, Current, shardVars, netVars
  <2>. QED
    BY <1>1, <2>4, <2>5, <2>6 DEF CleanInv
<1>4. CASE PageEnd(t)
  <2>1. /\ lap'.row = t.last /\ lap'.gen = t.gen /\ lap'.open /\ con' = con
        /\ task' = Idle /\ t.queue = {} /\ t.full
    BY <1>4 DEF PageEnd
  <2>2. LapInv' /\ PageInv'
    BY <1>0, <2>1 DEF LapInv, LapClean, PageClean, PageInv
  <2>3. ReusedIdIsClean'
    BY <2>1 DEF CleanInv, ReusedIdIsClean, Current, shardVars, netVars
  <2>. QED
    BY <1>1, <2>2, <2>3 DEF CleanInv
<1>5. CASE LapEnd(t)
  <2>1. lap' = NoLap /\ task' = Idle /\ t.queue = {} /\ ~t.full
    BY <1>5 DEF LapEnd, HoldDrain
  <2>2. LapInv' /\ PageInv'
    BY <2>1 DEF LapInv, LapClean, PageInv
  <2>3. CASE con.gen = t.gen
    <3>1. \A m \in Mutations : Clean(m)
      BY <2>1, <2>3 DEF PageClean
    <3>2. \A e \in outbox : e.m \in late
      BY <3>1, EffectFields DEF Clean, EffectsOf
    <3>3. \A f \in flight : f[2] # 0 => KeyOf[f[1]] \in applied \cup late
      BY <3>1 DEF Clean, Quiet, Carries
    <3>4. ReusedIdIsClean'
      BY <3>2, <3>3 DEF ReusedIdIsClean, shardVars, netVars
    <3>. QED
      BY <1>1, <2>2, <3>4 DEF CleanInv
  <2>4. CASE con.gen # t.gen
    BY <1>2, <1>5, <2>1, <2>4 DEF LapEnd
  <2>. QED
    BY <2>3, <2>4
<1>. QED
  BY <1>2, <1>3, <1>4, <1>5 DEF Probe, ProbeRow, HoldDrain

(* CleanInv through DrainConstraint.                                        *)
LEMMA CleanDrainConstraint ==
  ASSUME TInv, TInv', ResInv, CleanInv, DrainConstraint
  PROVE  CleanInv'
<1>. USE ConstantTypes, Typed, ReservationFields, IdleTask
<1>0. UNCHANGED <<rec, rows, call, shardVars, netVars>>
  BY DEF DrainConstraint
<1>1. CASE task' = task /\ lap' = NoLap /\ con' = con
  <2>1. \A n \in Mutations : Clean(n) => Clean(n)'
    BY <1>0 DEF Clean, Quiet, EffectsOf, Carries, shardVars, netVars
  <2>2. Registered'
    BY <1>0, <2>1 DEF CleanInv, Registered
  <2>3. LapInv' /\ PageInv'
    BY <1>1, DrainPage DEF LapInv, LapClean, PageInv
  <2>4. \A v \in Values :
          res'[v].state # "Free" => res[v].state # "Free" /\ res'[v].claim = res[v].claim
    <3>1. \A r \in Reservations :
            Purged(r).state # "Free" => r.state # "Free" /\ Purged(r).claim = r.claim
      BY DEF Purged, Reservations
    <3>2. \A v \in Values : res[v] \in Reservations
      OBVIOUS
    <3>. QED
      BY <3>1, <3>2, DrainPage
  <2>5. ReusedIdIsClean'
    BY <1>0, <1>1, <2>4 DEF CleanInv, ReusedIdIsClean, shardVars, netVars, Current
  <2>. QED
    BY <2>2, <2>3, <2>5 DEF CleanInv
<1>2. ASSUME NEW t \in TaskType, Probe(t, LoadLap), \A v \in Values : res'[v].state = "Free",
             t.queue = RowPage(LoadLap.row), t.last = PageTop(t.queue),
             t.full <=> Cardinality(t.queue) = ProbePage, t.gen = LoadLap.gen
      PROVE  CleanInv'
  <2>1. LoadLap \in LapType /\ con.life = "Dropping"
    BY DrainPage
  <2>2. /\ LoadLap.row \in Nat /\ LoadLap.gen = con.gen /\ LoadLap.open
        /\ \A m \in Mutations : m <= LoadLap.row => Clean(m)
    BY DEF LoadLap, TInv, TypeOK, CleanInv, LapInv, LapClean
  <2>3. LapClean(LoadLap)
    BY <2>1, <2>2 DEF LapClean
  <2>4. ASSUME NEW m \in Mutations, m \notin t.queue, m <= t.last \/ ~t.full
        PROVE  Clean(m)
    <3>1. CASE m <= LoadLap.row
      BY <2>2, <3>1
    <3>2. CASE m \notin rows
      BY <3>2 DEF CleanInv, Registered
    <3>3. CASE m \in rows /\ m > LoadLap.row
      <4>1. /\ Cardinality(RowPage(LoadLap.row)) = ProbePage
            /\ m > PageTop(RowPage(LoadLap.row))
        BY <1>2, <2>2, <2>4, <3>3, PageCovers
      <4>2. t.last \in Nat
        BY DEF TaskType
      <4>. QED
        BY <1>2, <2>4, <4>1, <4>2
    <3>. QED
      BY <2>2, <3>1, <3>2, <3>3
  <2>5. PageClean(t)
    BY <1>2, <2>1, <2>2, <2>4 DEF PageClean
  <2>. QED
    BY <1>0, <1>2, <2>1, <2>3, <2>5, CleanProbe
<1>. QED
  BY <1>1, <1>2, DrainPage

(* CleanInv through ProbeRead.                                              *)
LEMMA CleanProbeRead ==
  ASSUME TInv, TInv', ResInv, Lookups, CleanInv, ProbeRead
  PROVE  CleanInv'
<1>. USE ConstantTypes, Typed, ReservationFields, IdleTask
<1>0. UNCHANGED <<rec, res, rows, call, shardVars, netVars>>
  BY DEF ProbeRead
<1>1. CASE HoldDrain /\ con' = con
  <2>1. \A n \in Mutations : Clean(n) => Clean(n)'
    BY <1>0 DEF Clean, Quiet, EffectsOf, Carries, shardVars, netVars
  <2>2. Registered' /\ LapInv' /\ PageInv'
    BY <1>0, <1>1, <2>1 DEF CleanInv, Registered, LapInv, LapClean, PageInv, HoldDrain
  <2>3. ReusedIdIsClean'
    BY <1>0, <1>1 DEF CleanInv, ReusedIdIsClean, shardVars, netVars, Current
  <2>. QED
    BY <2>2, <2>3 DEF CleanInv
<1>2. ASSUME NEW t \in TaskType, Probe(t, lap), EffectsOf(Min(task.queue)) = {},
             t.queue = task.queue \ {Min(task.queue)}, t.last = task.last,
             t.full = task.full, t.gen = task.gen
      PROVE  CleanInv'
  <2>1. /\ PageClean(task) /\ \A v \in Values : res[v].state = "Free"
        /\ task.queue # {} /\ rec[Min(task.queue)] \in Terminal
    BY DEF CleanInv, PageInv, ProbeRead, ScansOutbox
  <2>2. PICK x \in Mutations : x = Min(task.queue)
    BY <2>1, LeastIn DEF TInv, TypeOK
  <2>3. Clean(x)
    BY <1>2, <2>1, <2>2, QuietTerminal DEF Clean
  <2>4. PageClean(t)
    BY <1>2, <2>1, <2>2, <2>3 DEF PageClean
  <2>5. lap \in LapType /\ LapClean(lap)
    BY DEF TInv, TypeOK, LapType, CleanInv, LapInv
  <2>. QED
    BY <1>0, <1>2, <2>1, <2>4, <2>5, CleanProbe
<1>. QED
  BY <1>1, <1>2, ReadPage

(* CleanInv through ProbeFailed.                                            *)
LEMMA CleanProbeFailed ==
  ASSUME TInv, TInv', ResInv, CleanInv, ProbeFailed
  PROVE  CleanInv'
<1>. USE ConstantTypes, Typed, ReservationFields, IdleTask
<1>0. \A n \in Mutations : Clean(n) => Clean(n)'
  BY DEF Clean, Quiet, EffectsOf, Carries, ProbeFailed, HoldDrain, shardVars, netVars
<1>1. Registered'
  BY <1>0 DEF CleanInv, Registered, ProbeFailed, HoldDrain, shardVars, netVars
<1>2. LapInv'
  BY <1>0 DEF CleanInv, LapInv, LapClean, ProbeFailed, HoldDrain, shardVars, netVars
<1>3. PageInv'
  BY <1>0 DEF CleanInv, PageInv, PageClean, ProbeFailed, HoldDrain, shardVars, netVars, ScansOutbox, Terminal
<1>4. ReusedIdIsClean'
  BY <1>0 DEF CleanInv, ReusedIdIsClean, ProbeFailed, HoldDrain, shardVars, netVars, Current
<1>. QED
  BY <1>1, <1>2, <1>3, <1>4 DEF CleanInv

(* CleanInv through Upgrade.                                                *)
LEMMA CleanUpgrade ==
  ASSUME TInv, TInv', ResInv, CleanInv, Upgrade
  PROVE  CleanInv'
<1>. USE ConstantTypes, Typed, ReservationFields, IdleTask
<1>0. \A n \in Mutations : Clean(n) => Clean(n)'
  BY DEF Clean, Quiet, EffectsOf, Carries, Upgrade, shardVars, netVars
<1>1. Registered'
  BY <1>0 DEF CleanInv, Registered, Upgrade, shardVars, netVars
<1>2. LapInv'
  BY <1>0 DEF CleanInv, LapInv, LapClean, Upgrade, shardVars, netVars
<1>3. PageInv'
  BY <1>0 DEF CleanInv, PageInv, PageClean, Upgrade, shardVars, netVars, ScansOutbox, Terminal
<1>4. ReusedIdIsClean'
  BY <1>0 DEF CleanInv, ReusedIdIsClean, Upgrade, shardVars, netVars, Current
<1>. QED
  BY <1>1, <1>2, <1>3, <1>4 DEF CleanInv

(* Lookups and CleanInv hold at the start.                                  *)
LEMMA CleanInit == Init => Lookups /\ CleanInv
BY IdleTask, ReservationFields, ConstantTypes
   DEF Init, Lookups, CleanInv, Registered, LapInv, LapClean, PageInv, ReusedIdIsClean, Clean,
       Quiet, EffectsOf

(* CleanInv is inductive.                                                   *)
LEMMA CleanNext ==
  ASSUME TInv, TInv', ResInv, Lookups, CleanInv, [Next]_vars
  PROVE  CleanInv'
<1>1. ASSUME NEW c \in Calls, CallStep(c) PROVE CleanInv'
  <2>1. ASSUME DispatchDelete(c) \/ SeedFound(c) PROVE CleanInv'
    <3>1. PICK k \in Carried : SendDelete(c, k)
      BY <2>1, CarriedTypes DEF TInv, DispatchDelete, SeedFound
    <3>2. rec[KeyOf[c]] \notin Terminal
      BY <2>1 DEF DispatchDelete, SeedFound, Lookups, Terminal
    <3>. QED
      BY <3>1, <3>2, CleanSendDelete
  <2>. QED
    BY <1>1, <2>1, InsertCases, CleanSentInsert, CleanRefusedInsert, CleanLookup, CleanConfirm,
       CleanConfirmAcked DEF CallStep
<1>2. ASSUME NEW f \in flight, ShardStep(f[1], f[2]) \/ DispatchLost(f[1], f[2]) PROVE CleanInv'
  BY <1>2, Typed, CleanShardInsert, CleanShardDelete, CleanShardReplay, CleanDispatchLost
     DEF ShardStep
<1>3. ASSUME NEW e \in outbox \cup acks, AckEffect(e) \/ AckLost(e) \/ ReconcileRelease(e)
      PROVE  CleanInv'
  <2>1. e \in Effects
    BY Typed
  <2>. QED
    BY <1>3, <2>1, CleanAckEffect, CleanAckLost, CleanReconcileRelease
<1>4. ASSUME UNCHANGED vars PROVE CleanInv'
  BY <1>4 DEF vars, CleanInv, Registered, LapInv, LapClean, PageInv, PageClean, ReusedIdIsClean, Current,
              Clean, Quiet, EffectsOf, Carries, ScansOutbox
<1>. QED
  BY <1>1, <1>2, <1>3, <1>4, CleanCreateConstraint, CleanDropConstraint, CleanComplete,
     CleanRemoveRow, CleanStartProof, CleanReadProof, CleanProofPresent, CleanProofAbsent,
     CleanProofFailed, CleanDrainConstraint, CleanProbeRead, CleanProbeFailed, CleanUpgrade
     DEF Next, ProofStep, Fault

(* When the drain removes a constraint's record, no reservation, no pinned  *)
(* effect and no request that could still pin one carries the id, so that   *)
(* the next incarnation starts clean, but for the deletes that read the     *)
(* constrained set before an index lookup and registered after the record   *)
(* had gone.                                                                *)
THEOREM IdReuse == Spec => []ReusedIdIsClean
<1>1. Init => Lookups /\ CleanInv
  BY CleanInit
<1>2. TInv /\ ResInv /\ (TInv /\ ResInv)' /\ Lookups /\ CleanInv /\ [Next]_vars
      => Lookups' /\ CleanInv'
  BY CleanNext, LookupsNext
<1>3. CleanInv => ReusedIdIsClean
  BY DEF CleanInv
<1>. QED
  BY <1>1, <1>2, <1>3, DropSafety, PTL DEF Spec
==============================================================================
