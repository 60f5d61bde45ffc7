------------------------- MODULE UniquenessType_proofs -------------------------
(***************************************************************************)
(* Type correctness of UniquenessTCC, one lemma per group of actions.  The *)
(* acks a recovery pass sends are well typed only because of what its      *)
(* ticket says about the claim, so the driver steps assume Tickets.        *)
(***************************************************************************)
EXTENDS UniquenessInv, FiniteSetTheorems, TLAPS

(* The initial state is well typed.                                         *)
LEMMA TypeInit == Init => TypeOK
  BY ConstantsAssumption
  DEF Init, TypeOK, Free, Idle, Reservations, CallStates, TaskStates,
      RecordStates, Mutations

(* A free value is a reservation.                                           *)
LEMMA FreeType == Free \in Reservations
  BY ConstantsAssumption DEF Reservations, Free

(* Every update of the reservation catalog stores a reservation.            *)
LEMMA ReservationType ==
  ASSUME NEW r \in Reservations, NEW m \in Inserts
  PROVE  /\ Free \in Reservations
         /\ Reserved(m) \in Reservations
         /\ Committed(r, m) \in Reservations
  <1>1. Free \in Reservations
    BY FreeType
  <1>2. Reserved(m) \in Reservations
    BY <1>1 DEF Reserved, Reservations
  <1>3. Committed(r, m) \in Reservations
    BY DEF Committed, Reservations
  <1> QED BY <1>1, <1>2, <1>3

(* Clearing the ack marker keeps a reservation well formed.                 *)
LEMMA ClearAckType ==
  ASSUME NEW r \in Reservations, NEW m
  PROVE  ClearAck(r, m) \in Reservations
  BY DEF Reservations, ClearAck

(* The idle state of a recovery pass, and its updates, are well formed.     *)
LEMMA IdleType == Idle \in TaskStates
  BY ConstantsAssumption DEF TaskStates, Idle

(* SetTask stores a well-formed pass state.                                 *)
LEMMA SetTaskType ==
  ASSUME TypeOK, NEW d \in Drivers, NEW t \in TaskStates, SetTask(d, t)
  PROVE  task' \in [Drivers -> TaskStates]
  BY DEF TypeOK, SetTask

(* The updates a pass makes to its own state keep it well formed.           *)
LEMMA ProofUpdate ==
  ASSUME NEW t \in TaskStates, NEW m \in Mutations \cup {None},
         NEW g \in 0..MaxGen, NEW a \in SUBSET Calls
  PROVE  [t EXCEPT !.phase = "proof", !.m = m, !.gen = g, !.ahead = a]
           \in TaskStates
  BY DEF TaskStates

(* The answer to a proof read.                                              *)
LEMMA VerdictUpdate ==
  ASSUME NEW t \in TaskStates,
         NEW x \in {"none", "present", "absent", "inconclusive"}
  PROVE  [t EXCEPT !.phase = "verdict", !.ahead = {}, !.verdict = x] \in TaskStates
  BY DEF TaskStates

(* The pass waits for an ack.                                               *)
LEMMA AckUpdate ==
  ASSUME NEW t \in TaskStates
  PROVE  [t EXCEPT !.phase = "ack", !.verdict = "none", !.gen = 0] \in TaskStates
  <1>1. 0 \in 0..MaxGen
    BY ConstantsAssumption
  <1> QED BY <1>1 DEF TaskStates

(* The pages Driver 2 reads and processes.                                  *)
LEMMA PageUpdate ==
  ASSUME NEW t \in TaskStates, NEW E \in SUBSET Effects, NEW b \in BOOLEAN
  PROVE  /\ [t EXCEPT !.phase = "rescan"] \in TaskStates
         /\ [t EXCEPT !.phase = "paged", !.seen = E] \in TaskStates
         /\ [t EXCEPT !.phase = "rescan", !.seen = {}, !.orphan = b] \in TaskStates
         /\ [t EXCEPT !.phase = "rescanned", !.seen = E] \in TaskStates
  <1>1. [t EXCEPT !.phase = "rescan"] \in TaskStates
    BY DEF TaskStates
  <1>2. [t EXCEPT !.phase = "paged", !.seen = E] \in TaskStates
    BY DEF TaskStates
  <1>3. [t EXCEPT !.phase = "rescan", !.seen = {}, !.orphan = b] \in TaskStates
    BY DEF TaskStates
  <1>4. [t EXCEPT !.phase = "rescanned", !.seen = E] \in TaskStates
    BY DEF TaskStates
  <1> QED BY <1>1, <1>2, <1>3, <1>4

(* The number of values of a claim is a natural number.                     *)
LEMMA ValueCount ==
  ASSUME NEW S \in SUBSET Values
  PROVE  Cardinality(S) \in Nat
  BY ConstantsAssumption, FS_Subset, FS_CardinalityType

(* Steps of a client call keep the types.                                   *)
LEMMA CallType ==
  ASSUME TypeOK, NEW c \in Calls, CallStep(c)
  PROVE  TypeOK'
  <1> USE ConstantsAssumption DEF TypeOK, SetCall, shardVars, netVars,
                                  CallStates, Mutations
  <1>ReserveKey. CASE ReserveKey(c)
    BY <1>ReserveKey DEF ReserveKey, RecordStates
  <1>ReplayKey. CASE ReplayKey(c)
    BY <1>ReplayKey DEF ReplayKey
  <1>ReplayEarly. CASE ReplayEarly(c)
    BY <1>ReplayEarly DEF ReplayEarly, RecordStates
  <1>AbandonRouting. CASE AbandonRouting(c)
    BY <1>AbandonRouting DEF AbandonRouting, RecordStates
  <1>EnvelopeRefused. CASE EnvelopeRefused(c)
    BY <1>EnvelopeRefused DEF EnvelopeRefused
  <1>TryRefused. CASE TryRefused(c)
    BY <1>TryRefused DEF TryRefused, PersistEnvelope, RecordStates
  <1>DispatchInsert. CASE DispatchInsert(c)
    <2> DEFINE m == KeyOf[c]
    <2>1. /\ m \in Inserts
          /\ res' = [v \in Values |-> IF v \in FreshClaims(m) THEN Reserved(m)
                                                            ELSE res[v]]
          /\ slots' = [slots EXCEPT ![m] = @ + Cardinality(FreshClaims(m))]
      BY <1>DispatchInsert DEF DispatchInsert, ApplySlots
    <2>2. Cardinality(FreshClaims(m)) \in Nat
      BY <2>1, ValueCount DEF FreshClaims
    <2>3. res' \in [Values -> Reservations]
      BY <2>1, ReservationType
    <2>4. slots' \in [Mutations -> Int]
      BY <2>1, <2>2
    <2> QED BY <1>DispatchInsert, <2>3, <2>4
            DEF DispatchInsert, ApplySlots, PersistEnvelope, RegisterPending, DispatchGate,
                RecordStates
  <1>DispatchDelete. CASE DispatchDelete(c)
    BY <1>DispatchDelete DEF DispatchDelete, PersistEnvelope, RegisterPending, DispatchGate, RecordStates
  <1>CallCapture. CASE CallCapture(c)
    BY <1>CallCapture DEF CallCapture, Captured, RecordStates
  <1>CallAdvance. CASE CallAdvance(c)
    BY <1>CallAdvance DEF CallAdvance, Completed, RecordStates
  <1>ReadEffects. CASE ReadEffects(c)
    BY <1>ReadEffects DEF ReadEffects
  <1>Confirm. CASE Confirm(c)
    <2> DEFINE m == KeyOf[c]
               fresh == {v \in Values :
                           \E e \in call[c].seen : e.v = v /\ FreshCommit(e)}
               acked == {e \in call[c].seen : ConfirmAcks(e)}
    <2>1. /\ m \in Inserts
          /\ res' = [v \in Values |-> IF v \in fresh THEN Committed(res[v], m)
                                                    ELSE res[v]]
          /\ slots' = [slots EXCEPT ![m] = @ - Cardinality(fresh)]
          /\ acks' = acks \cup acked
          /\ \/ SetCall(c, "settle", FALSE, {})
             \/ SetCall(c, "acking", FALSE, acked)
      BY <1>Confirm DEF Confirm, ReleaseSlots
    <2>2. acked \subseteq Effects
      OBVIOUS
    <2>3. Cardinality(fresh) \in Nat
      BY ValueCount
    <2> HIDE DEF fresh, acked
    <2>4. call' \in [Calls -> CallStates]
      <3>1. /\ [pc |-> "acking", lease |-> FALSE, seen |-> acked] \in CallStates
            /\ [pc |-> "settle", lease |-> FALSE, seen |-> {}] \in CallStates
        BY <2>2
      <3> HIDE DEF CallStates
      <3> QED BY <2>1, <3>1
    <2>5. res' \in [Values -> Reservations]
      BY <2>1, ReservationType
    <2>6. slots' \in [Mutations -> Int]
      BY <2>1, <2>3
    <2> QED BY <1>Confirm, <2>1, <2>2, <2>4, <2>5, <2>6 DEF Confirm, ReleaseSlots
  <1>ReconcileReleases. CASE ReconcileReleases(c)
    BY <1>ReconcileReleases DEF ReconcileReleases, AfterReleases, Free, Reservations
  <1>ConfirmAcked. CASE ConfirmAcked(c)
    <2> DEFINE hit(v) == \E e \in call[c].seen : e.v = v
    <2>1. res' = [v \in Values |-> IF hit(v) THEN ClearAck(res[v], KeyOf[c])
                                           ELSE res[v]]
      BY <1>ConfirmAcked DEF ConfirmAcked
    <2> HIDE DEF hit
    <2>2. res' \in [Values -> Reservations]
      BY <2>1, ClearAckType
    <2> QED BY <1>ConfirmAcked, <2>2 DEF ConfirmAcked
  <1>ConfirmAckFailed. CASE ConfirmAckFailed(c)
    BY <1>ConfirmAckFailed DEF ConfirmAckFailed
  <1> QED BY <1>ReserveKey, <1>ReplayKey, <1>ReplayEarly, <1>AbandonRouting,
     <1>EnvelopeRefused, <1>TryRefused, <1>DispatchInsert, <1>DispatchDelete,
     <1>CallCapture, <1>CallAdvance, <1>ReadEffects, <1>Confirm,
     <1>ReconcileReleases, <1>ConfirmAcked, <1>ConfirmAckFailed
      DEF CallStep

(* Steps of a shard keep the types.                                         *)
LEMMA ShardType ==
  ASSUME TypeOK, NEW c \in Calls, ShardStep(c)
  PROVE  TypeOK'
  <1> USE ConstantsAssumption DEF TypeOK, shardVars, Mutations
  <1>ShardInsert. CASE ShardInsert(c)
    BY <1>ShardInsert DEF ShardInsert, Effects, Acquire
  <1>ShardDelete. CASE ShardDelete(c)
    BY <1>ShardDelete DEF ShardDelete, Effects, Release, OnShard
  <1>ShardReplay. CASE ShardReplay(c)
    BY <1>ShardReplay DEF ShardReplay
  <1>DispatchLost. CASE DispatchLost(c)
    BY <1>DispatchLost DEF DispatchLost
  <1> QED BY <1>ShardInsert, <1>ShardDelete, <1>ShardReplay, <1>DispatchLost
      DEF ShardStep

(* Deliveries and losses of acks keep the types.                            *)
LEMMA AckType ==
  ASSUME TypeOK, NEW e \in acks, AckEffect(e) \/ AckLost(e)
  PROVE  TypeOK'
  BY ConstantsAssumption DEF TypeOK, AckEffect, AckLost, shardVars

(* Recovery of a saga record and its eviction keep the types.               *)
LEMMA RecordType ==
  ASSUME TypeOK, NEW m \in Mutations, RecordStep(m)
  PROVE  TypeOK'
  BY DEF TypeOK, RecordStep, shardVars, netVars, RecoverCapture, RecoverAdvance,
         EvictRecord, Captured, Completed, RecordStates

(* The starts of a recovery pass keep the types.                            *)
LEMMA ScanType ==
  ASSUME TypeOK, NEW d \in Drivers,
         \/ \E v \in Values : Scan(d, v)
         \/ \E m \in Mutations : RowStart(d, m)
  PROVE  TypeOK'
  <1> USE DEF Mutations
  <1>1. ASSUME NEW v \in Values, Scan(d, v) PROVE task' \in [Drivers -> TaskStates]
    <2>1. [Idle EXCEPT !.phase = "scanned", !.v = v, !.m = res[v].claim,
                       !.st = res[v].state] \in TaskStates
      BY IdleType DEF TypeOK, Reservations, TaskStates
    <2> QED BY <1>1, <2>1, SetTaskType DEF Scan
  <1>2. ASSUME NEW m \in Mutations, RowStart(d, m)
        PROVE  task' \in [Drivers -> TaskStates]
    <2>1. [Idle EXCEPT !.phase = "page", !.m = m] \in TaskStates
      BY IdleType DEF TaskStates
    <2> QED BY <1>2, <2>1, SetTaskType DEF RowStart
  <1> QED BY <1>1, <1>2 DEF TypeOK, Scan, RowStart, shardVars, netVars

(* Steps of Driver 1 keep the types.                                        *)
LEMMA Driver1Type ==
  ASSUME TypeOK, Tickets, NEW d \in Drivers, Driver1Step(d)
  PROVE  TypeOK'
  <1> USE DEF TypeOK, Mutations, shardVars, netVars
  <1>t. Ticket(task[d])
    BY DEF Tickets
  <1>BeginReclaim. CASE BeginReclaim(d)
    <2> DEFINE v == task[d].v
               ahead == {c \in flight : Home[KeyOf[c]] = Home[res[v].claim]}
    <2>1. /\ v \in Values /\ res[v].gen < MaxGen
          /\ res' = [res EXCEPT ![v].state = "Reclaiming", ![v].gen = @ + 1]
          /\ SetTask(d, [task[d] EXCEPT !.phase = "proof", !.m = res[v].claim,
                           !.gen = res[v].gen + 1, !.ahead = ahead])
      BY <1>BeginReclaim, <1>t
      DEF BeginReclaim, SendProof, Ticket, TicketScanned
    <2>2. /\ res[v].gen + 1 \in 0..MaxGen
          /\ res[v].claim \in Mutations \cup {None}
          /\ ahead \in SUBSET Calls
      BY <2>1, ConstantsAssumption DEF Reservations
    <2> HIDE DEF v, ahead
    <2>3. res' \in [Values -> Reservations]
      BY <2>1, <2>2 DEF Reservations
    <2>4. task' \in [Drivers -> TaskStates]
      BY <2>1, <2>2, ProofUpdate, SetTaskType
    <2> QED BY <1>BeginReclaim, <2>3, <2>4 DEF BeginReclaim
  <1>ResumeReclaim. CASE ResumeReclaim(d)
    <2> DEFINE r == res[task[d].v]
               ahead == {c \in flight : Home[KeyOf[c]] = Home[r.claim]}
    <2>1. /\ task[d].v \in Values
          /\ SetTask(d, [task[d] EXCEPT !.phase = "proof", !.m = r.claim,
                           !.gen = r.gen, !.ahead = ahead])
      BY <1>ResumeReclaim, <1>t
      DEF ResumeReclaim, SendProof, Ticket, TicketScanned
    <2>2. /\ r.gen \in 0..MaxGen /\ r.claim \in Mutations \cup {None}
          /\ ahead \in SUBSET Calls
      BY <2>1 DEF Reservations
    <2> HIDE DEF r, ahead
    <2>3. task' \in [Drivers -> TaskStates]
      BY <2>1, <2>2, ProofUpdate, SetTaskType
    <2> QED BY <1>ResumeReclaim, <2>3 DEF ResumeReclaim
  <1>ProveCommitted. CASE ProveCommitted(d)
    <2> DEFINE ahead == {c \in flight : Home[KeyOf[c]] = Home[task[d].m]}
    <2>1. SetTask(d, [task[d] EXCEPT !.phase = "proof", !.m = task[d].m,
                        !.gen = 0, !.ahead = ahead])
      BY <1>ProveCommitted DEF ProveCommitted, SendProof
    <2>2. /\ 0 \in 0..MaxGen /\ ahead \in SUBSET Calls
          /\ task[d].m \in Mutations \cup {None}
      BY ConstantsAssumption DEF TaskStates
    <2> HIDE DEF ahead
    <2>3. task' \in [Drivers -> TaskStates]
      BY <2>1, <2>2, ProofUpdate, SetTaskType
    <2> QED BY <1>ProveCommitted, <2>3 DEF ProveCommitted
  <1>ReclaimAborted. CASE ReclaimAborted(d)
    <2>t. task' \in [Drivers -> TaskStates]
      BY <1>ReclaimAborted, IdleType, SetTaskType DEF ReclaimAborted
    <2> QED BY <1>ReclaimAborted, <2>t DEF ReclaimAborted
  <1>ReadProof. CASE ReadProof(d)
    <2>1. PICK x \in {"none", "present", "absent", "inconclusive"} :
            SetTask(d, [task[d] EXCEPT !.phase = "verdict", !.ahead = {},
                                       !.verdict = x])
      BY <1>ReadProof DEF ReadProof
    <2>u. [task[d] EXCEPT !.phase = "verdict", !.ahead = {}, !.verdict = x]
            \in TaskStates
      BY VerdictUpdate
    <2>2. task' \in [Drivers -> TaskStates]
      BY <2>1, <2>u, SetTaskType
    <2> QED BY <1>ReadProof, <2>2 DEF ReadProof
  <1>ReclaimCommit. CASE ReclaimCommit(d)
    <2>1. task[d].m \in Inserts /\ task[d].v \in Values
      BY <1>ReclaimCommit, <1>t
      DEF ReclaimCommit, Reclaiming, Ticket, TicketOwn, Reclaims
    <2>2. Committed(res[task[d].v], task[d].m) \in Reservations
      BY <2>1, ReservationType
    <2>3. res' \in [Values -> Reservations]
      BY <1>ReclaimCommit, <2>2 DEF ReclaimCommit, ReleaseSlots
    <2>4. Acquire(task[d].m, task[d].v) \in Effects
      BY <2>1 DEF Acquire, Effects
    <2>t. task' \in [Drivers -> TaskStates]
      BY <1>ReclaimCommit, AckUpdate, SetTaskType DEF ReclaimCommit, SendAck
    <2> QED BY <1>ReclaimCommit, <2>t, <2>1, <2>3, <2>4 DEF ReclaimCommit, ReleaseSlots, SendAck
  <1>ReclaimDiscarded. CASE ReclaimDiscarded(d)
    <2>t. task' \in [Drivers -> TaskStates]
      BY <1>ReclaimDiscarded, IdleType, SetTaskType DEF ReclaimDiscarded
    <2> QED BY <1>ReclaimDiscarded, <2>t DEF ReclaimDiscarded
  <1>ReclaimCancel. CASE ReclaimCancel(d)
    <2>1. task' \in [Drivers -> TaskStates]
      BY <1>ReclaimCancel, IdleType, SetTaskType DEF ReclaimCancel
    <2>2. res' \in [Values -> Reservations]
      BY <1>ReclaimCancel, FreeType DEF ReclaimCancel
    <2>3. rec' \in [Mutations -> RecordStates]
      BY <1>ReclaimCancel DEF ReclaimCancel, RecordStates
    <2>4. slots' \in [Mutations -> Int]
      <3>1. slots' = [slots EXCEPT ![task[d].m] = @ - 1]
        BY <1>ReclaimCancel DEF ReclaimCancel, ReleaseSlots
      <3>2. task[d].m \in Mutations
        BY <1>ReclaimCancel, <1>t
        DEF ReclaimCancel, Reclaiming, Ticket, TicketOwn, Reclaims
      <3> QED BY <3>1, <3>2
    <2> QED BY <1>ReclaimCancel, <2>1, <2>2, <2>3, <2>4 DEF ReclaimCancel, ReleaseSlots
  <1>ReclaimHold. CASE ReclaimHold(d)
    <2>1. task' \in [Drivers -> TaskStates]
      BY <1>ReclaimHold, IdleType, SetTaskType DEF ReclaimHold
    <2>2. res' \in [Values -> Reservations]
      <3>1. \/ res' = res
            \/ res' = [res EXCEPT ![task[d].v].state = "Reserved"]
        BY <1>ReclaimHold DEF ReclaimHold
      <3> QED BY <3>1 DEF Reservations
    <2> QED BY <1>ReclaimHold, <2>1, <2>2 DEF ReclaimHold
  <1>ReAck. CASE ReAck(d)
    <2>1. task[d].m \in Inserts /\ task[d].v \in Values
      BY <1>ReAck, <1>t DEF ReAck, CommittedProof, Ticket, TicketCommitted
    <2>2. Acquire(task[d].m, task[d].v) \in Effects
      BY <2>1 DEF Acquire, Effects
    <2>t. task' \in [Drivers -> TaskStates]
      BY <1>ReAck, AckUpdate, SetTaskType DEF ReAck, SendAck
    <2> QED BY <1>ReAck, <2>t, <2>2 DEF ReAck, SendAck
  <1>AckReplyLost. CASE AckReplyLost(d)
    <2>1. \A v \in Values : ClearAck(res[v], task[d].m) \in Reservations
      BY ClearAckType
    <2>2. res' \in [Values -> Reservations]
      BY <1>AckReplyLost, <2>1 DEF AckReplyLost
    <2>t. task' \in [Drivers -> TaskStates]
      BY <1>AckReplyLost, IdleType, SetTaskType DEF AckReplyLost
    <2> QED BY <1>AckReplyLost, <2>t, <2>2 DEF AckReplyLost
  <1>CommittedHold. CASE CommittedHold(d)
    <2>t. task' \in [Drivers -> TaskStates]
      BY <1>CommittedHold, IdleType, SetTaskType DEF CommittedHold
    <2> QED BY <1>CommittedHold, <2>t DEF CommittedHold
  <1>DriverAcked. CASE DriverAcked(d)
    <2>1. \A v \in Values : ClearAck(res[v], task[d].m) \in Reservations
      BY ClearAckType
    <2>2. res' \in [Values -> Reservations]
      BY <1>DriverAcked, <2>1 DEF DriverAcked
    <2>t. task' \in [Drivers -> TaskStates]
      BY <1>DriverAcked, IdleType, SetTaskType DEF DriverAcked
    <2> QED BY <1>DriverAcked, <2>t, <2>2 DEF DriverAcked
  <1>DriverAckFailed. CASE DriverAckFailed(d)
    <2>t. task' \in [Drivers -> TaskStates]
      BY <1>DriverAckFailed, IdleType, SetTaskType DEF DriverAckFailed
    <2> QED BY <1>DriverAckFailed, <2>t DEF DriverAckFailed
  <1> QED BY <1>BeginReclaim, <1>ResumeReclaim, <1>ProveCommitted,
     <1>ReclaimAborted, <1>ReadProof, <1>ReclaimCommit, <1>ReclaimDiscarded,
     <1>ReclaimCancel, <1>ReclaimHold, <1>ReAck, <1>AckReplyLost,
     <1>CommittedHold, <1>DriverAcked, <1>DriverAckFailed
      DEF Driver1Step

(* Steps of Driver 2 keep the types.                                        *)
LEMMA Driver2Type ==
  ASSUME TypeOK, NEW d \in Drivers, Driver2Step(d)
  PROVE  TypeOK'
  <1>o. outbox \subseteq Effects /\ task[d] \in TaskStates
    BY DEF TypeOK
  <1>ReadPage. CASE ReadPage(d)
    <2> DEFINE page == {e \in outbox : e.m = task[d].m}
    <2>1. \/ SetTask(d, [task[d] EXCEPT !.phase = "rescan"])
          \/ SetTask(d, [task[d] EXCEPT !.phase = "paged", !.seen = page])
      BY <1>ReadPage DEF ReadPage
    <2>2. page \in SUBSET Effects
      BY <1>o, Zenon
    <2> HIDE DEF page
    <2>u. /\ [task[d] EXCEPT !.phase = "rescan"] \in TaskStates
          /\ [task[d] EXCEPT !.phase = "paged", !.seen = page] \in TaskStates
      BY <1>o, <2>2, PageUpdate
    <2>3. task' \in [Drivers -> TaskStates]
      BY <2>1, <2>u, SetTaskType
    <2> QED BY <1>ReadPage, <2>3 DEF ReadPage,
           TypeOK, Mutations, shardVars, netVars
  <1>ProcessPage. CASE ProcessPage(d)
    <2>1. PICK b \in BOOLEAN :
            SetTask(d, [task[d] EXCEPT !.phase = "rescan", !.seen = {}, !.orphan = b])
      BY <1>ProcessPage DEF ProcessPage
    <2>u. [task[d] EXCEPT !.phase = "rescan", !.seen = {}, !.orphan = b]
            \in TaskStates
      BY <1>o, PageUpdate
    <2>2. task' \in [Drivers -> TaskStates]
      BY <2>1, <2>u, SetTaskType
    <2>3. res' \in [Values -> Reservations]
      BY <1>ProcessPage, FreeType DEF ProcessPage, AfterReleases, TypeOK
    <2>4. acks' \subseteq Effects
      BY <1>ProcessPage DEF ProcessPage, TaskStates, TypeOK
    <2> QED BY <1>ProcessPage, <2>2, <2>3, <2>4 DEF ProcessPage,
           TypeOK, Mutations, shardVars, netVars
  <1>Rescan. CASE Rescan(d)
    <2> DEFINE page == {e \in outbox : e.m = task[d].m}
    <2>1. SetTask(d, [task[d] EXCEPT !.phase = "rescanned", !.seen = page])
      BY <1>Rescan DEF Rescan
    <2>2. page \in SUBSET Effects
      BY <1>o, Zenon
    <2> HIDE DEF page
    <2>u. [task[d] EXCEPT !.phase = "rescanned", !.seen = page] \in TaskStates
      BY <1>o, <2>2, PageUpdate
    <2>3. task' \in [Drivers -> TaskStates]
      BY <2>1, <2>u, SetTaskType
    <2> QED BY <1>Rescan, <2>3 DEF Rescan,
           TypeOK, Mutations, shardVars, netVars
  <1>RowEnd. CASE RowEnd(d)
    <2>t. task' \in [Drivers -> TaskStates]
      BY <1>RowEnd, IdleType, SetTaskType DEF RowEnd, TypeOK
    <2> QED BY <1>RowEnd, <2>t DEF RowEnd, RowOutcome,
           TypeOK, Mutations, shardVars, netVars
  <1> QED BY <1>ReadPage, <1>ProcessPage, <1>Rescan, <1>RowEnd DEF Driver2Step

(* Failures of a recovery pass keep the types.                              *)
LEMMA DriverFaultType ==
  ASSUME TypeOK, NEW d \in Drivers, DriverFault(d)
  PROVE  TypeOK'
  <1> USE DEF TypeOK, shardVars
  <1>ProofFailed. CASE ProofFailed(d)
    <2>1. PICK x \in {"none", "present", "absent", "inconclusive"} :
            SetTask(d, [task[d] EXCEPT !.phase = "verdict", !.ahead = {},
                                       !.verdict = x])
      BY <1>ProofFailed DEF ProofFailed
    <2>u. [task[d] EXCEPT !.phase = "verdict", !.ahead = {}, !.verdict = x]
            \in TaskStates
      BY VerdictUpdate
    <2>2. task' \in [Drivers -> TaskStates]
      BY <2>1, <2>u, SetTaskType
    <2> QED BY <1>ProofFailed, <2>2, ConstantsAssumption DEF ProofFailed
  <1>RowFailed. CASE RowFailed(d)
    <2>t. task' \in [Drivers -> TaskStates]
      BY <1>RowFailed, IdleType, SetTaskType DEF RowFailed
    <2> QED BY <1>RowFailed, <2>t, ConstantsAssumption DEF RowFailed
  <1>PassLost. CASE PassLost(d)
    <2>t. task' \in [Drivers -> TaskStates]
      BY <1>PassLost, IdleType, SetTaskType DEF PassLost
    <2> QED BY <1>PassLost, <2>t, ConstantsAssumption DEF PassLost
  <1> QED BY <1>ProofFailed, <1>RowFailed, <1>PassLost DEF DriverFault

(* Every step keeps the types.                                              *)
LEMMA TypeNext ==
  ASSUME TypeOK, Tickets, [Next]_vars
  PROVE  TypeOK'
  <1>1. CASE Next
    BY <1>1, CallType, ShardType, AckType, RecordType, ScanType, Driver1Type,
       Driver2Type, DriverFaultType DEF Next
  <1>2. CASE UNCHANGED vars
    BY <1>2 DEF TypeOK, vars
  <1> QED BY <1>1, <1>2
================================================================================
