------------------------ MODULE UniquenessIndex_proofs ------------------------
(***************************************************************************)
(* Action properties of UniquenessTCC, and the proof that it implements    *)
(* the unique index of module UniqueIndex.                                 *)
(***************************************************************************)
EXTENDS UniquenessTCC_proofs

(* Only the canonical write of a shard touches canonical storage.           *)
LEMMA StorageSteps ==
  ASSUME [Next]_vars
  PROVE  \/ UNCHANGED <<held, applied>>
         \/ \E c \in Calls : ShardInsert(c) \/ ShardDelete(c)
  <1>1. ASSUME NEW c \in Calls, CallStep(c) PROVE UNCHANGED <<held, applied>>
    BY <1>1
    DEF CallStep, ReserveKey, ReplayKey, ReplayEarly, AbandonRouting,
        EnvelopeRefused, TryRefused, DispatchInsert, DispatchDelete, CallCapture,
        CallAdvance, ReadEffects, Confirm, ReconcileReleases, ConfirmAcked,
        ConfirmAckFailed, shardVars
  <1>2. ASSUME NEW c \in Calls, ShardReplay(c) \/ DispatchLost(c)
        PROVE  UNCHANGED <<held, applied>>
    BY <1>2 DEF ShardReplay, DispatchLost, shardVars
  <1>3. ASSUME NEW e \in acks, AckEffect(e) \/ AckLost(e)
        PROVE  UNCHANGED <<held, applied>>
    BY <1>3 DEF AckEffect, AckLost, shardVars
  <1>4. ASSUME NEW m \in Mutations, RecordStep(m) PROVE UNCHANGED <<held, applied>>
    BY <1>4 DEF RecordStep, RecoverCapture, RecoverAdvance, EvictRecord, shardVars
  <1>5. ASSUME NEW d \in Drivers,
               \/ \E v \in Values : Scan(d, v)
               \/ \E m \in Mutations : RowStart(d, m)
               \/ Driver1Step(d) \/ Driver2Step(d) \/ DriverFault(d)
        PROVE  UNCHANGED <<held, applied>>
    BY <1>5
    DEF Scan, RowStart, Driver1Step, Driver2Step, DriverFault, BeginReclaim,
        ResumeReclaim, ProveCommitted, ReclaimAborted, ReadProof, ReclaimCommit,
        ReclaimDiscarded, ReclaimCancel, ReclaimHold, ReAck, AckReplyLost,
        CommittedHold, DriverAcked, DriverAckFailed, ReadPage, ProcessPage,
        Rescan, RowEnd, ProofFailed, RowFailed, PassLost, shardVars
  <1> QED BY <1>1, <1>2, <1>3, <1>4, <1>5 DEF Next, ShardStep, vars

(* A mutation that failed terminally never writes afterwards: a request     *)
(* that can still write belongs to a record that has not failed.            *)
THEOREM FailureIsFinal == Spec => NoWriteAfterFailure
  <1> DEFINE P == \A m \in Mutations : rec[m] = "failed" /\ m \in applied' => m \in applied
  <1>1. TypeOK /\ IInv /\ [Next]_vars => P
    <2> SUFFICES ASSUME TypeOK, IInv, [Next]_vars, NEW m \in Mutations,
                        rec[m] = "failed", m \in applied', m \notin applied
                 PROVE  FALSE
      OBVIOUS
    <2>1. PICK c \in Calls : ShardInsert(c) \/ ShardDelete(c)
      BY StorageSteps
    <2>2. c \in flight /\ KeyOf[c] = m
      BY <2>1 DEF ShardInsert, ShardDelete
    <2> QED BY <2>2 DEF IInv, DispatchCovered, Gone
  <1>2. [](TypeOK /\ IInv) /\ [][Next]_vars => [][P]_vars
    BY <1>1, PTL
  <1> QED BY <1>2, Safety, PTL DEF Spec, NoWriteAfterFailure

(* The protocol implements the unique index: the shard's canonical write is *)
(* the index's Insert, its delete the index's Remove, and every reservation,*)
(* effect, ack and recovery step is invisible.                              *)
THEOREM Refinement == Spec => IndexSpec
  <1>1. Init => Index!Init
    BY DEF Init, Index!Init
  <1>2. TypeOK /\ IInv /\ [Next]_vars => [Index!Next]_(Index!ivars)
    <2> SUFFICES ASSUME TypeOK, IInv, [Next]_vars
                 PROVE  [Index!Next]_(Index!ivars)
      OBVIOUS
    <2>1. ASSUME NEW c \in Calls, ShardInsert(c) PROVE Index!Next
      <3> DEFINE m == KeyOf[c]
      <3>1. /\ m \in Inserts /\ m \notin applied /\ c \in flight
            /\ held' = held \cup {<<m, v>> : v \in Claims[m]}
            /\ applied' = applied \cup {m}
        BY <2>1 DEF ShardInsert
      <3>2. \A v \in Claims[m] : res[v].claim = m
        BY <3>1 DEF IInv, DispatchCovered
      <3>3. ASSUME NEW v \in Claims[m], NEW o \in Inserts PROVE <<o, v>> \notin held
        <4> SUFFICES ASSUME <<o, v>> \in held PROVE FALSE
          OBVIOUS
        <4>1. o \in applied /\ res[v].claim = o
          BY DEF IInv, ShardShape, LiveIsReserved
        <4> QED BY <3>1, <3>2, <4>1
      <3>4. Index!Insert(m)
        BY <3>1, <3>3 DEF Index!Insert
      <3> QED BY <3>1, <3>4 DEF Index!Next
    <2>2. ASSUME NEW c \in Calls, ShardDelete(c) PROVE Index!Next
      <3>1. /\ KeyOf[c] \notin Inserts /\ applied' = applied \cup {KeyOf[c]}
            /\ \E R \in SUBSET held : held' = held \ R
        BY <2>2, ConstantsAssumption DEF ShardDelete, OnShard
      <3> QED BY <3>1 DEF Index!Next, Index!Remove
    <2>3. CASE UNCHANGED <<held, applied>>
      BY <2>3 DEF Index!ivars
    <2> QED BY <2>1, <2>2, <2>3, StorageSteps
  <1> QED BY <1>1, <1>2, Safety, PTL DEF Spec, IndexSpec, Index!Spec
===============================================================================
