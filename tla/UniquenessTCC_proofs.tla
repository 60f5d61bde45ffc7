------------------------- MODULE UniquenessTCC_proofs -------------------------
(***************************************************************************)
(* The inductive invariant IInv of UniquenessTCC and what follows from it. *)
(* Three frame lemmas say which kinds of step cannot disturb IInv; after   *)
(* them comes one lemma per action or group of similar actions.            *)
(***************************************************************************)
EXTENDS UniquenessType_proofs

(* A step that only moves saga records and client calls keeps the           *)
(* invariant, unless it captures a mutation that did not run or fails or    *)
(* revives one that has not.                                                *)
LEMMA RecordFrame ==
  ASSUME TypeOK, IInv,
         UNCHANGED <<res, task, held, applied, outbox, flight, acks>>,
         \A m \in Mutations :
           rec'[m] \in {"captured", "completed"} => m \in applied,
         \A m \in Mutations \ applied : (rec'[m] \in Gone) <=> (rec[m] \in Gone),
         \A c \in Calls : call'[c].seen \subseteq call[c].seen
  PROVE  IInv'
  <1>1. (LiveIsReserved /\ EvidencePinned /\ ClaimShape /\ ShardShape)'
    BY DEF IInv, LiveIsReserved, EvidencePinned, ClaimShape, ShardShape, NonTerminal
  <1>2. CapturedRan' /\ AcksCommitted'
    BY DEF IInv, CapturedRan, AcksCommitted
  <1>3. ReleasesDead' /\ CallReads'
    BY DEF IInv, ReleasesDead, CallReads, Dead
  <1>4. DispatchCovered'
    BY ConstantsAssumption DEF IInv, TypeOK, DispatchCovered
  <1>5. Tickets'
    <2> SUFFICES ASSUME NEW d \in Drivers PROVE Ticket(task[d])'
      BY DEF Tickets
    <2>1. Ticket(task[d])
      BY DEF IInv, Tickets
    <2>2. TicketGen(task[d])'
      BY <2>1, ConstantsAssumption
      DEF Ticket, TicketOwn, TicketGen, Reclaims, Matters, Mutations
    <2>3. TicketQueued(task[d])' /\ TicketAbsent(task[d])'
      BY <2>1 DEF Ticket, TicketQueued, TicketAbsent, Reclaims, Fenced, Writing
    <2> QED BY <2>1, <2>2, <2>3
        DEF Ticket, TicketOwn, TicketPresent, TicketCommitted, TicketScanned,
            Reclaims
  <1> QED BY <1>1, <1>2, <1>3, <1>4, <1>5 DEF IInv

(* A step of a recovery pass that only changes what the pass holds in hand  *)
(* keeps the invariant if the new ticket is valid.                          *)
LEMMA TaskFrame ==
  ASSUME TypeOK, IInv, UNCHANGED <<rec, res, call, held, applied, outbox, flight>>,
         NEW d \in Drivers, NEW t, SetTask(d, t),
         Ticket(t), \A e \in t.seen : Dead(e), AcksCommitted'
  PROVE  IInv'
  <1>1. (LiveIsReserved /\ EvidencePinned /\ ClaimShape /\ ShardShape)'
    BY DEF IInv, LiveIsReserved, EvidencePinned, ClaimShape, ShardShape, NonTerminal
  <1>2. CapturedRan' /\ CallReads' /\ DispatchCovered'
    BY DEF IInv, CapturedRan, CallReads, DispatchCovered
  <1>3. \A x \in Drivers : task'[x] = IF x = d THEN t ELSE task[x]
    BY DEF SetTask, TypeOK
  <1>4. ReleasesDead'
    BY <1>3 DEF IInv, ReleasesDead, Dead
  <1>5. Tickets'
    <2> SUFFICES ASSUME NEW x \in Drivers PROVE Ticket(task[x])'
      BY DEF Tickets
    <2>1. Ticket(task'[x])
      BY <1>3 DEF IInv, Tickets
    <2> QED BY <2>1
        DEF Ticket, TicketOwn, TicketGen, TicketQueued, TicketAbsent,
            TicketPresent, TicketCommitted, TicketScanned, Reclaims, Matters,
            Fenced, Writing
  <1> QED BY <1>1, <1>2, <1>4, <1>5 DEF IInv

(* Same claim and generation, and the state kept, confirmed or held back.   *)
Kept(r, s) ==
  /\ s.claim = r.claim /\ s.gen = r.gen
  /\ \/ s.state = r.state /\ s.owner = r.owner
     \/ r.state = "Reclaiming" /\ s.state = "Reserved"
     \/ /\ NonTerminal(r) /\ s.state = "Committed"
        /\ s.owner = r.claim /\ r.claim \in applied
Released(v, r, s) ==
  r.state = "Committed" /\ s.state = "Free" /\ <<r.owner, v>> \notin held

(* A step that only confirms, holds back or releases reservations keeps the *)
(* invariant, and may ack the claims it leaves committed.                   *)
LEMMA ReservationFrame ==
  ASSUME TypeOK, IInv, UNCHANGED <<rec, held, applied, outbox, flight>>,
         \A v \in Values : Kept(res[v], res'[v]) \/ Released(v, res[v], res'[v]),
         \A e \in acks' : e \in acks \/ (e.op = "acquire" =>
                            (e.m \in applied /\ res'[e.v].state = "Committed")),
         \A c \in Calls : call'[c].seen \subseteq call[c].seen,
         \A d \in Drivers :
           /\ task'[d].seen \subseteq task[d].seen
           /\ \/ task'[d] = task[d]
              \/ task'[d].phase \notin {"scanned", "proof", "verdict"}
  PROVE  IInv'
  <1>1. ShardShape' /\ CapturedRan' /\ CallReads' /\ ReleasesDead'
    BY DEF IInv, ShardShape, CapturedRan, CallReads, ReleasesDead, Dead
  <1>2. ClaimShape'
    <2> SUFFICES ASSUME NEW v \in Values, res'[v].state # "Free"
                 PROVE  /\ res'[v].claim \in Inserts
                        /\ v \in Claims[res'[v].claim]
                        /\ res'[v].state = "Committed" =>
                             (res'[v].owner = res'[v].claim /\ res'[v].claim \in applied)
      BY DEF ClaimShape
    <2>1. Kept(res[v], res'[v])
      BY DEF Released
    <2>2. res[v].state # "Free"
      BY <2>1 DEF Kept, NonTerminal
    <2> QED BY <2>1, <2>2 DEF IInv, ClaimShape, Kept
  <1>3. \A h \in held : h[2] \in Values /\ h = <<h[1], h[2]>>
    BY DEF TypeOK
  <1>4. \A h \in held : Kept(res[h[2]], res'[h[2]])
    <2> SUFFICES ASSUME NEW h \in held, Released(h[2], res[h[2]], res'[h[2]])
                 PROVE  FALSE
      BY <1>3
    <2>1. res[h[2]].claim = h[1] /\ res[h[2]].state = "Committed"
      BY DEF IInv, LiveIsReserved, Released
    <2>2. res[h[2]].owner = h[1]
      BY <1>3, <2>1 DEF IInv, ClaimShape
    <2> QED BY <1>3, <2>2 DEF Released
  <1>5. LiveIsReserved'
    BY <1>3, <1>4 DEF IInv, LiveIsReserved, Kept, NonTerminal
  <1>6. EvidencePinned'
    BY <1>3, <1>4 DEF IInv, EvidencePinned, Kept, NonTerminal
  <1>7. AcksCommitted'
    <2> SUFFICES ASSUME NEW e \in acks', e.op = "acquire"
                 PROVE  /\ e.m \in applied
                        /\ <<e.m, e.v>> \in held => res'[e.v].state = "Committed"
      BY DEF AcksCommitted
    <2>1. CASE e \in acks
      <3>1. /\ e.m \in applied
            /\ <<e.m, e.v>> \in held => res[e.v].state = "Committed"
        BY <2>1 DEF IInv, AcksCommitted
      <3>2. <<e.m, e.v>> \in held => Kept(res[e.v], res'[e.v])
        BY <1>4
      <3> QED BY <3>1, <3>2 DEF Kept
    <2> QED BY <2>1
  <1>8. DispatchCovered'
    <2> SUFFICES ASSUME NEW c \in flight, KeyOf[c] \notin applied,
                        KeyOf[c] \in Inserts, NEW v \in Claims[KeyOf[c]]
                 PROVE  res'[v].state # "Free" /\ res'[v].claim = KeyOf[c]
      BY DEF IInv, DispatchCovered
    <2>1. /\ res[v].state # "Free" /\ res[v].claim = KeyOf[c] /\ v \in Values
      BY ConstantsAssumption DEF IInv, DispatchCovered
    <2>2. Kept(res[v], res'[v])
      BY <2>1 DEF IInv, ClaimShape, Released
    <2> QED BY <2>1, <2>2 DEF Kept
  <1>9. Tickets'
    <2> SUFFICES ASSUME NEW d \in Drivers PROVE Ticket(task[d])'
      BY DEF Tickets
    <2>1. CASE task'[d].phase \notin {"scanned", "proof", "verdict"}
      BY <2>1 DEF Ticket, TicketOwn, TicketGen, TicketQueued, TicketAbsent,
                  TicketPresent, TicketCommitted, TicketScanned, Reclaims
    <2>2. CASE task'[d] = task[d]
      <3>1. Ticket(task[d])
        BY DEF IInv, Tickets
      <3>2. TicketOwn(task[d])' /\ TicketPresent(task[d])' /\ TicketScanned(task[d])'
        BY <2>2, <3>1 DEF Ticket, TicketOwn, TicketPresent, TicketScanned, Reclaims
      <3>3. TicketGen(task[d])'
        <4> DEFINE t == task[d]
        <4> SUFFICES ASSUME Reclaims(t), Matters(t)
                     PROVE  /\ res'[t.v].state # "Free" /\ res'[t.v].claim = t.m
                            /\ t.gen <= res'[t.v].gen
          BY <2>2 DEF TicketGen, Reclaims, Matters
        <4>1. /\ res[t.v].state # "Free" /\ res[t.v].claim = t.m
              /\ t.gen <= res[t.v].gen /\ t.v \in Values
          BY <3>1 DEF Ticket, TicketOwn, TicketGen
        <4>2. Kept(res[t.v], res'[t.v])
          <5> SUFFICES ASSUME Released(t.v, res[t.v], res'[t.v]) PROVE FALSE
            BY <4>1
          <5>1. res[t.v].owner = t.m /\ t.m \in applied
            BY <4>1 DEF IInv, ClaimShape, Released
          <5> QED BY <5>1 DEF Matters, Released
        <4> QED BY <4>1, <4>2 DEF Kept
      <3>4. TicketQueued(task[d])' /\ TicketAbsent(task[d])'
        <4> DEFINE t == task[d]
        <4>1. Reclaims(t) /\ Fenced(t)' => Fenced(t)
          BY <2>2, <3>1
          DEF Ticket, TicketOwn, Fenced, Kept, Released, NonTerminal
        <4>2. TicketQueued(t)'
          BY <2>2, <3>1, <4>1 DEF Ticket, TicketQueued, Reclaims, Writing
        <4>3. TicketAbsent(t)'
          BY <2>2, <3>1, <4>1 DEF Ticket, TicketAbsent, Reclaims, Writing
        <4> QED BY <2>2, <4>2, <4>3
      <3>5. TicketCommitted(task[d])'
        BY <2>2, <3>1, <1>4
        DEF Ticket, TicketCommitted, LiveIsReserved, Kept, Released, NonTerminal
      <3> QED BY <3>2, <3>3, <3>4, <3>5 DEF Ticket
    <2> QED BY <2>1, <2>2
  <1> QED BY <1>1, <1>2, <1>5, <1>6, <1>7, <1>8, <1>9 DEF IInv

------------------------------------------------------------------------------
(* One lemma per group of actions.                                          *)

(* A call that only moves its saga record keeps the invariant.              *)
LEMMA CallRecordStep ==
  ASSUME TypeOK, IInv, NEW c \in Calls,
         \/ ReserveKey(c) \/ ReplayKey(c) \/ ReplayEarly(c) \/ AbandonRouting(c)
         \/ EnvelopeRefused(c) \/ TryRefused(c) \/ CallCapture(c)
         \/ CallAdvance(c) \/ ConfirmAckFailed(c)
  PROVE  IInv'
  <1> USE ConstantsAssumption
      DEF TypeOK, IInv, CapturedRan, SetCall, shardVars, netVars, Gone, CallStates
  <1>ReserveKey. CASE ReserveKey(c)
    BY <1>ReserveKey, RecordFrame DEF ReserveKey
  <1>ReplayKey. CASE ReplayKey(c)
    BY <1>ReplayKey, RecordFrame DEF ReplayKey
  <1>ReplayEarly. CASE ReplayEarly(c)
    BY <1>ReplayEarly, RecordFrame DEF ReplayEarly
  <1>AbandonRouting. CASE AbandonRouting(c)
    BY <1>AbandonRouting, RecordFrame DEF AbandonRouting
  <1>EnvelopeRefused. CASE EnvelopeRefused(c)
    BY <1>EnvelopeRefused, RecordFrame DEF EnvelopeRefused
  <1>TryRefused. CASE TryRefused(c)
    BY <1>TryRefused, RecordFrame DEF TryRefused, PersistEnvelope, Dispatchable
  <1>CallCapture. CASE CallCapture(c)
    BY <1>CallCapture, RecordFrame DEF CallCapture, Captured
  <1>CallAdvance. CASE CallAdvance(c)
    BY <1>CallAdvance, RecordFrame DEF CallAdvance, Completed
  <1>ConfirmAckFailed. CASE ConfirmAckFailed(c)
    BY <1>ConfirmAckFailed, RecordFrame DEF ConfirmAckFailed
  <1> QED BY <1>ReserveKey, <1>ReplayKey, <1>ReplayEarly, <1>AbandonRouting,
             <1>EnvelopeRefused, <1>TryRefused, <1>CallCapture, <1>CallAdvance,
             <1>ConfirmAckFailed

(* So do the recovery of a saga record and its eviction.                    *)
LEMMA RecordStepInv ==
  ASSUME TypeOK, IInv, NEW m \in Mutations, RecordStep(m)
  PROVE  IInv'
  BY RecordFrame
  DEF TypeOK, IInv, CapturedRan, Gone, shardVars, netVars, RecordStep,
      RecoverCapture, RecoverAdvance, EvictRecord, Captured, Completed,
      Evictable, Terminal

(* An ack that arrives unpins no evidence that is still needed.             *)
LEMMA AckStepInv ==
  ASSUME TypeOK, IInv, NEW e \in acks, AckEffect(e) \/ AckLost(e)
  PROVE  IInv'
  <1>1. /\ UNCHANGED <<rec, res, call, task, held, applied, flight>>
        /\ acks' \subseteq acks /\ outbox' \subseteq outbox
        /\ \A x \in outbox : x \in outbox' \/ x = e
    BY DEF AckEffect, AckLost, shardVars
  <1>2. EvidencePinned'
    <2> SUFFICES ASSUME NEW h \in held, NonTerminal(res[h[2]])
                 PROVE  Acquire(h[1], h[2]) \in outbox'
      BY <1>1 DEF EvidencePinned, NonTerminal
    <2>1. h = <<h[1], h[2]>> /\ Acquire(h[1], h[2]) \in outbox
      BY DEF IInv, TypeOK, EvidencePinned
    <2>2. e # Acquire(h[1], h[2])
      <3> SUFFICES ASSUME e = Acquire(h[1], h[2]) PROVE FALSE
        OBVIOUS
      <3>1. e.op = "acquire" /\ e.m = h[1] /\ e.v = h[2]
        BY DEF Acquire
      <3> QED BY <2>1, <3>1 DEF IInv, AcksCommitted, NonTerminal
    <2> QED BY <1>1, <2>1, <2>2
  <1>3. (LiveIsReserved /\ ClaimShape /\ ShardShape /\ CapturedRan)'
    BY <1>1 DEF IInv, LiveIsReserved, ClaimShape, ShardShape, CapturedRan
  <1>4. (ReleasesDead /\ CallReads /\ AcksCommitted /\ DispatchCovered)'
    BY <1>1 DEF IInv, ReleasesDead, Dead, CallReads, AcksCommitted, DispatchCovered
  <1>5. Tickets'
    BY <1>1 DEF IInv, Tickets, Ticket, TicketOwn, TicketGen, TicketQueued,
                TicketAbsent, TicketPresent, TicketCommitted, TicketScanned,
                Reclaims, Matters, Fenced, Writing
  <1> QED BY <1>2, <1>3, <1>4, <1>5 DEF IInv

(* Reading a page of effects.                                               *)
LEMMA ReadEffectsInv ==
  ASSUME TypeOK, IInv, NEW c \in Calls, ReadEffects(c)
  PROVE  IInv'
  <1>1. /\ UNCHANGED <<rec, res, task, held, applied, outbox, flight, acks>>
        /\ \A x \in Calls : call'[x].seen = IF x = c THEN {e \in outbox : e.m = KeyOf[c]}
                                                    ELSE call[x].seen
    BY DEF ReadEffects, SetCall, TypeOK, shardVars, netVars
  <1>2. ReleasesDead'
    BY <1>1 DEF IInv, ReleasesDead, Dead
  <1>3. CallReads'
    <2>1. \A e \in outbox : /\ e.m \in applied
                            /\ e.m \in Inserts => e.op = "acquire" /\ e.owner = e.m
                            /\ e.m \in Deletes => e.op = "release"
      <3>1. \A e \in outbox : e.op \in {"acquire", "release"}
        BY DEF TypeOK, Effects
      <3> QED BY <3>1, ConstantsAssumption DEF IInv, ShardShape
    <2>2. ASSUME NEW e \in call'[c].seen PROVE e \in outbox /\ e.m = KeyOf[c]
      BY <1>1
    <2> SUFFICES ASSUME NEW x \in Calls, NEW e \in call'[x].seen
                 PROVE  /\ e.m = KeyOf[x] /\ e.m \in applied
                        /\ KeyOf[x] \in Inserts => e.op = "acquire" /\ e.owner = e.m
                        /\ KeyOf[x] \in Deletes => e.op = "release"
      BY <1>1 DEF CallReads
    <2>3. CASE x = c
      BY <2>1, <2>2, <2>3
    <2>4. CASE x # c
      <3>1. e \in call[x].seen
        BY <1>1, <2>4
      <3> QED BY <3>1 DEF IInv, CallReads
    <2> QED BY <2>3, <2>4
  <1>4. (LiveIsReserved /\ EvidencePinned /\ ClaimShape /\ ShardShape)'
    BY <1>1 DEF IInv, LiveIsReserved, EvidencePinned, ClaimShape, ShardShape,
                NonTerminal
  <1>5. (CapturedRan /\ AcksCommitted /\ DispatchCovered)'
    BY <1>1 DEF IInv, CapturedRan, AcksCommitted, DispatchCovered
  <1>6. Tickets'
    BY <1>1 DEF IInv, Tickets, Ticket, TicketOwn, TicketGen, TicketQueued,
                TicketAbsent, TicketPresent, TicketCommitted, TicketScanned,
                Reclaims, Matters, Fenced, Writing
  <1> QED BY <1>2, <1>3, <1>4, <1>5, <1>6 DEF IInv

(* Confirm commits only what its own mutation wrote.                        *)
LEMMA ConfirmInv ==
  ASSUME TypeOK, IInv, NEW c \in Calls, Confirm(c)
  PROVE  IInv'
  <1> DEFINE m == KeyOf[c]
  <1>1. /\ UNCHANGED <<rec, task, held, applied, outbox, flight>>
        /\ m \in Inserts
        /\ \A x \in Calls : call'[x].seen \subseteq call[x].seen
    BY DEF Confirm, SetCall, TypeOK, shardVars
  <1>2. \A v \in Values : Kept(res[v], res'[v])
    <2> SUFFICES ASSUME NEW v \in Values PROVE Kept(res[v], res'[v])
      OBVIOUS
    <2>1. CASE \E e \in call[c].seen : e.v = v /\ FreshCommit(e)
      <3>1. res'[v] = Committed(res[v], m)
        BY <2>1 DEF Confirm
      <3>2. res[v].claim = m /\ res[v].state = "Reserved" /\ m \in applied
        BY <2>1 DEF FreshCommit, IInv, CallReads
      <3> QED BY <3>1, <3>2
          DEF TypeOK, Reservations, Kept, Committed, NonTerminal
    <2>2. CASE ~ \E e \in call[c].seen : e.v = v /\ FreshCommit(e)
      BY <2>2 DEF Confirm, Kept
    <2> QED BY <2>1, <2>2
  <1>3. ASSUME NEW e \in acks', e \notin acks
        PROVE  e.m \in applied /\ res'[e.v].state = "Committed"
    <2>1. e \in call[c].seen /\ ConfirmAcks(e)
      BY <1>3 DEF Confirm
    <2>2. e.v \in Values /\ e.m \in applied
      BY <2>1 DEF TypeOK, CallStates, Effects, IInv, CallReads
    <2>3. CASE FreshCommit(e)
      <3>1. res'[e.v] = Committed(res[e.v], m)
        BY <2>1, <2>2, <2>3 DEF Confirm
      <3> QED BY <2>2, <3>1 DEF TypeOK, Reservations, Committed
    <2>4. CASE ~FreshCommit(e)
      <3>1. res[e.v].state = "Committed"
        BY <2>1, <2>4 DEF ConfirmAcks, FreshCommit
      <3> QED BY <1>2, <2>2, <3>1 DEF Kept, NonTerminal
    <2> QED BY <2>3, <2>4
  <1> HIDE DEF m
  <1> QED BY <1>1, <1>2, <1>3, ReservationFrame

(* A Release frees only what its dead element held.                         *)
LEMMA ReleaseStep ==
  ASSUME TypeOK, IInv, NEW E \in SUBSET Effects,
         \A e \in E : e.op = "release" /\ Dead(e), res' = AfterReleases(E)
  PROVE  \A v \in Values : Kept(res[v], res'[v]) \/ Released(v, res[v], res'[v])
  <1> SUFFICES ASSUME NEW v \in Values
               PROVE  Kept(res[v], res'[v]) \/ Released(v, res[v], res'[v])
    OBVIOUS
  <1>1. CASE \E e \in E : e.v = v /\ ReleaseFrees(e)
    <2>1. res'[v] = Free
      BY <1>1 DEF AfterReleases
    <2> QED BY <1>1, <2>1 DEF ReleaseFrees, Dead, Released, Free
  <1>2. CASE ~ \E e \in E : e.v = v /\ ReleaseFrees(e)
    BY <1>2 DEF AfterReleases, Kept
  <1> QED BY <1>1, <1>2

(* reconcile_releases_collect_acks in the client call frees only values     *)
(* whose elements gave them up.                                             *)
LEMMA ReconcileReleasesInv ==
  ASSUME TypeOK, IInv, NEW c \in Calls, ReconcileReleases(c)
  PROVE  IInv'
  <1>1. /\ UNCHANGED <<rec, task, held, applied, outbox, flight>>
        /\ KeyOf[c] \in Deletes /\ res' = AfterReleases(call[c].seen)
        /\ \A e \in acks' : e \in acks \/ e \in call[c].seen
        /\ \A x \in Calls : call'[x].seen \subseteq call[x].seen
    BY DEF ReconcileReleases, SetCall, TypeOK, shardVars
  <1>2. call[c].seen \in SUBSET Effects
    BY DEF TypeOK, CallStates
  <1>3. \A e \in call[c].seen : e.op = "release" /\ Dead(e)
    BY <1>1 DEF IInv, CallReads, ReleasesDead
  <1>4. \A v \in Values : Kept(res[v], res'[v]) \/ Released(v, res[v], res'[v])
    BY <1>1, <1>2, <1>3, ReleaseStep
  <1> QED BY <1>1, <1>3, <1>4, ReservationFrame

(* Clearing an ack marker decides nothing.                                  *)
LEMMA ClearAckKept ==
  ASSUME NEW r \in Reservations, NEW m
  PROVE  Kept(r, ClearAck(r, m)) /\ Kept(r, r)
  BY DEF Reservations, Kept, ClearAck

(* clear_acquire_ack after the shard's reply decides nothing.               *)
LEMMA ConfirmAckedInv ==
  ASSUME TypeOK, IInv, NEW c \in Calls, ConfirmAcked(c)
  PROVE  IInv'
  <1>1. /\ UNCHANGED <<rec, task, held, applied, outbox, flight, acks>>
        /\ \A x \in Calls : call'[x].seen \subseteq call[x].seen
    BY DEF ConfirmAcked, SetCall, TypeOK, shardVars, netVars
  <1>2. ASSUME NEW v \in Values PROVE Kept(res[v], res'[v])
    <2>1. res[v] \in Reservations
      BY DEF TypeOK
    <2>2. res'[v] = ClearAck(res[v], KeyOf[c]) \/ res'[v] = res[v]
      BY DEF ConfirmAcked
    <2> QED BY <2>1, <2>2, ClearAckKept
  <1> QED BY <1>1, <1>2, ReservationFrame

(* Dispatch.  Try never touches a value under a reclaim proof, so no valid  *)
(* ticket is overtaken by the new request.                                  *)
LEMMA DispatchDeleteInv ==
  ASSUME TypeOK, IInv, NEW c \in Calls, DispatchDelete(c)
  PROVE  IInv'
  <1> DEFINE m == KeyOf[c]
  <1>1. /\ UNCHANGED <<res, task, held, applied, outbox, acks>>
        /\ m \in Deletes /\ m \notin Inserts
        /\ rec[m] \in Dispatchable
        /\ \A x \in Mutations : rec'[x] = rec[x] \/ (x = m /\ rec'[x] = "open")
        /\ flight' \subseteq flight \cup {c}
        /\ \A x \in Calls : call'[x].seen \subseteq call[x].seen
    BY ConstantsAssumption
    DEF DispatchDelete, PersistEnvelope, DispatchGate, SetCall, TypeOK, shardVars
  <1> HIDE DEF m
  <1>2. (LiveIsReserved /\ EvidencePinned /\ ClaimShape /\ ShardShape)'
    BY <1>1 DEF IInv, LiveIsReserved, EvidencePinned, ClaimShape, ShardShape,
                NonTerminal
  <1>3. (CapturedRan /\ AcksCommitted)'
    BY <1>1 DEF IInv, CapturedRan, AcksCommitted
  <1>4. (ReleasesDead /\ CallReads)'
    BY <1>1 DEF IInv, ReleasesDead, Dead, CallReads
  <1>5. DispatchCovered'
    BY <1>1, ConstantsAssumption
    DEF IInv, TypeOK, DispatchCovered, Gone, Dispatchable, m
  <1>6. Tickets'
    <2> SUFFICES ASSUME NEW d \in Drivers PROVE Ticket(task[d])'
      BY DEF Tickets
    <2>1. Ticket(task[d])
      BY DEF IInv, Tickets
    <2>2. TicketGen(task[d])'
      BY <1>1, <2>1
      DEF Ticket, TicketOwn, TicketGen, Reclaims, Matters, Mutations, Gone
    <2>3. Reclaims(task[d]) => Writing(task[d].m)' \subseteq Writing(task[d].m)
      BY <1>1, <2>1 DEF Ticket, TicketOwn, Writing, m
    <2>4. TicketQueued(task[d])' /\ TicketAbsent(task[d])'
      BY <1>1, <2>1, <2>3
      DEF Ticket, TicketQueued, TicketAbsent, Reclaims, Fenced
    <2> QED BY <1>1, <2>1, <2>2, <2>4
        DEF Ticket, TicketOwn, TicketPresent, TicketCommitted, TicketScanned,
            Reclaims
  <1> QED BY <1>2, <1>3, <1>4, <1>5, <1>6 DEF IInv

(* Try and dispatch: the request about to be sent is covered by its         *)
(* reservations, and no proof read under a valid fence misses it.           *)
LEMMA DispatchInsertInv ==
  ASSUME TypeOK, IInv, NEW c \in Calls, DispatchInsert(c)
  PROVE  IInv'
  <1> DEFINE m == KeyOf[c]
  <1>1. /\ UNCHANGED <<task, held, applied, outbox, acks>>
        /\ m \in Inserts /\ m \in Mutations /\ Claims[m] \subseteq Values
        /\ rec[m] \in Dispatchable /\ TryOk(m)
        /\ \A x \in Mutations : rec'[x] = rec[x] \/ (x = m /\ rec'[x] = "open")
        /\ flight' \subseteq flight \cup {c}
        /\ \A x \in Calls : call'[x].seen \subseteq call[x].seen
    BY ConstantsAssumption
    DEF DispatchInsert, PersistEnvelope, DispatchGate, SetCall, TypeOK, shardVars,
        Mutations
  <1>2. \A v \in Values :
          \/ res[v].state # "Free" /\ res'[v] = res[v]
          \/ res[v].state = "Free" /\ v \notin Claims[m] /\ res'[v] = res[v]
          \/ res[v].state = "Free" /\ v \in Claims[m] /\ res'[v] = Reserved(m)
    BY DEF DispatchInsert, FreshClaims
  <1>3. Reserved(m).state = "Reserved" /\ Reserved(m).claim = m
    BY DEF Reserved, Free
  <1>4. \A v \in Claims[m] :
          /\ res'[v].state \in {"Reserved", "Committed"} /\ res'[v].claim = m
    BY <1>1, <1>2, <1>3 DEF TryOk
  <1>c. c \in Calls /\ KeyOf[c] = m
    OBVIOUS
  <1> HIDE DEF m
  <1>5. \A h \in held : h[2] \in Values /\ res'[h[2]] = res[h[2]]
    BY <1>2 DEF IInv, TypeOK, LiveIsReserved
  <1>6. (LiveIsReserved /\ EvidencePinned)'
    BY <1>1, <1>5 DEF IInv, LiveIsReserved, EvidencePinned, NonTerminal
  <1>7. ClaimShape'
    BY <1>1, <1>2, <1>3 DEF IInv, ClaimShape
  <1>8. (ShardShape /\ CapturedRan /\ ReleasesDead /\ CallReads)'
    BY <1>1 DEF IInv, ShardShape, CapturedRan, ReleasesDead, Dead, CallReads
  <1>9. AcksCommitted'
    <2>1. \A e \in acks : <<e.m, e.v>> \in held => res'[e.v] = res[e.v]
      BY <1>5
    <2> QED BY <1>1, <2>1 DEF IInv, AcksCommitted
  <1>10. DispatchCovered'
    <2> SUFFICES ASSUME NEW x \in flight', KeyOf[x] \notin applied
                 PROVE  /\ rec'[KeyOf[x]] \notin Gone
                        /\ KeyOf[x] \in Inserts =>
                             \A v \in Claims[KeyOf[x]] :
                               res'[v].state # "Free" /\ res'[v].claim = KeyOf[x]
      BY <1>1 DEF DispatchCovered
    <2>1. CASE KeyOf[x] = m
      BY <1>1, <1>4, <2>1 DEF Gone, Dispatchable
    <2>2. CASE KeyOf[x] # m
      <3>1. /\ x \in flight /\ KeyOf[x] \in Mutations
            /\ KeyOf[x] \in Inserts => Claims[KeyOf[x]] \subseteq Values
        BY <1>1, <1>c, <2>2, ConstantsAssumption DEF TypeOK
      <3>2. rec'[KeyOf[x]] = rec[KeyOf[x]]
        BY <1>1, <2>2, <3>1
      <3> QED BY <1>2, <3>1, <3>2 DEF IInv, DispatchCovered
    <2> QED BY <2>1, <2>2
  <1>11. Tickets'
    <2> SUFFICES ASSUME NEW d \in Drivers PROVE Ticket(task[d])'
      BY DEF Tickets
    <2>1. Ticket(task[d])
      BY DEF IInv, Tickets
    <2>2. TicketGen(task[d])'
      <3>1. Reclaims(task[d]) /\ Matters(task[d])' => Matters(task[d])
        BY <1>1, <2>1 DEF Ticket, TicketOwn, Matters, Mutations, Gone, Dispatchable
      <3> QED BY <1>1, <1>2, <2>1, <3>1 DEF Ticket, TicketOwn, TicketGen, Reclaims
    <2>3. Reclaims(task[d]) /\ Fenced(task[d])' => Fenced(task[d]) /\ task[d].m # m
      BY <1>1, <1>2, <1>3, <1>4, <2>1 DEF Ticket, TicketOwn, Fenced
    <2>4. task[d].m # m => Writing(task[d].m)' \subseteq Writing(task[d].m)
      BY <1>1, <1>c DEF Writing
    <2>5. TicketQueued(task[d])' /\ TicketAbsent(task[d])'
      BY <1>1, <2>1, <2>3, <2>4 DEF Ticket, TicketQueued, TicketAbsent, Reclaims
    <2>6. TicketCommitted(task[d])'
      BY <1>1, <1>5, <2>1 DEF Ticket, TicketCommitted
    <2> QED BY <1>1, <2>1, <2>2, <2>5, <2>6
        DEF Ticket, TicketOwn, TicketPresent, TicketScanned, Reclaims
  <1> QED BY <1>6, <1>7, <1>8, <1>9, <1>10, <1>11 DEF IInv

(* The canonical write of an insert lands on values its own claim reserves. *)
LEMMA ShardInsertInv ==
  ASSUME TypeOK, IInv, NEW c \in Calls, ShardInsert(c)
  PROVE  IInv'
  <1> DEFINE m == KeyOf[c]
             new == {<<m, v>> : v \in Claims[m]}
  <1>1. /\ UNCHANGED <<rec, res, call, task, acks>>
        /\ c \in flight /\ m \in Inserts /\ m \notin applied
        /\ flight' = flight \ {c} /\ applied' = applied \cup {m}
        /\ held' = held \cup new
        /\ outbox' = outbox \cup {Acquire(m, v) : v \in Claims[m]}
    BY DEF ShardInsert
  <1>2. /\ rec[m] \notin Gone
        /\ \A v \in Claims[m] : res[v].state # "Free" /\ res[v].claim = m
    BY <1>1 DEF IInv, DispatchCovered
  <1>3. /\ \A h \in held' : h \in held \/ (h[1] = m /\ h[2] \in Claims[m])
        /\ \A x, v : <<x, v>> \in held' => <<x, v>> \in held \/ x = m
        /\ \A h \in held : h[1] \in applied
    BY <1>1 DEF IInv, ShardShape
  <1>4. \A e \in outbox' : e \in outbox \/
           (e.op = "acquire" /\ e.m = m /\ e.owner = m)
    BY <1>1 DEF Acquire
  <1>5. \A v \in Claims[m] : Acquire(m, v) \in outbox'
    BY <1>1
  <1>6. outbox \subseteq outbox'
    BY <1>1
  <1>c. KeyOf[c] = m
    OBVIOUS
  <1> HIDE DEF m, new
  <1>7. LiveIsReserved'
    BY <1>1, <1>2, <1>3 DEF IInv, LiveIsReserved
  <1>8. EvidencePinned'
    BY <1>1, <1>3, <1>5, <1>6 DEF IInv, EvidencePinned, NonTerminal
  <1>9. (ClaimShape /\ ShardShape /\ CapturedRan)'
    BY <1>1, <1>3, <1>4 DEF IInv, ClaimShape, ShardShape, CapturedRan
  <1>10. ReleasesDead'
    <2>1. \A e : Dead(e) => Dead(e)'
      BY <1>1, <1>3 DEF Dead
    <2>2. \A e : e.op = "acquire" => Dead(e)'
      BY DEF Dead
    <2> QED BY <1>1, <1>4, <2>1, <2>2 DEF IInv, ReleasesDead
  <1>11. (CallReads /\ AcksCommitted)'
    BY <1>1, <1>3 DEF IInv, CallReads, AcksCommitted
  <1>12. DispatchCovered'
    BY <1>1 DEF IInv, DispatchCovered
  <1>13. Tickets'
    <2> SUFFICES ASSUME NEW d \in Drivers PROVE Ticket(task[d])'
      BY DEF Tickets
    <2>1. Ticket(task[d])
      BY DEF IInv, Tickets
    <2>2. TicketGen(task[d])'
      <3>1. Matters(task[d])' => Matters(task[d])
        BY <1>1, <1>2, <1>3 DEF Matters
      <3> QED BY <1>1, <2>1, <3>1 DEF Ticket, TicketGen, Reclaims
    <2>3. Writing(task[d].m)' \subseteq Writing(task[d].m)
      BY <1>1 DEF Writing
    <2>4. TicketQueued(task[d])'
      BY <1>1, <2>1, <2>3 DEF Ticket, TicketQueued, Reclaims, Fenced
    <2>5. TicketAbsent(task[d])'
      <3>1. task[d].m = m => c \in Writing(task[d].m)
        BY <1>1, <1>c DEF Writing
      <3> QED BY <1>1, <1>3, <2>1, <2>3, <3>1
          DEF Ticket, TicketAbsent, Reclaims, Fenced
    <2>6. TicketCommitted(task[d])'
      BY <1>1, <1>3, <2>1 DEF Ticket, TicketCommitted
    <2> QED BY <1>1, <2>1, <2>2, <2>4, <2>5, <2>6
        DEF Ticket, TicketOwn, TicketPresent, TicketScanned, Reclaims
  <1> QED BY <1>7, <1>8, <1>9, <1>10, <1>11, <1>12, <1>13 DEF IInv

(* A delete gives values up and pins Releases of dead elements only.        *)
LEMMA ShardDeleteInv ==
  ASSUME TypeOK, IInv, NEW c \in Calls, ShardDelete(c)
  PROVE  IInv'
  <1> DEFINE m == KeyOf[c]
  <1>1. PICK R \in SUBSET OnShard(m) :
          /\ held' = held \ R
          /\ outbox' = outbox \cup {Release(m, h[1], h[2]) : h \in R}
    BY DEF ShardDelete
  <1>2. /\ UNCHANGED <<rec, res, call, task, acks>>
        /\ m \in Deletes /\ m \notin Inserts
        /\ flight' = flight \ {c} /\ applied' = applied \cup {m}
    BY ConstantsAssumption DEF ShardDelete
  <1>3. \A h \in R : h \in held /\ h = <<h[1], h[2]>>
    BY DEF OnShard, TypeOK
  <1>4. \A e \in outbox' : e \in outbox \/
          /\ e.op = "release" /\ e.m = m
          /\ <<e.owner, e.v>> \in R
    BY <1>1, <1>3 DEF Release
  <1>5. outbox \subseteq outbox' /\ held' \subseteq held
    BY <1>1
  <1> HIDE DEF m
  <1>6. (LiveIsReserved /\ EvidencePinned)'
    BY <1>2, <1>5 DEF IInv, LiveIsReserved, EvidencePinned, NonTerminal
  <1>7. (ClaimShape /\ ShardShape /\ CapturedRan)'
    BY <1>2, <1>4, <1>5 DEF IInv, ClaimShape, ShardShape, CapturedRan
  <1>8. ReleasesDead'
    <2>1. \A e : Dead(e) => Dead(e)'
      BY <1>2, <1>5 DEF Dead
    <2>2. \A e \in outbox' : Dead(e)'
      <3> SUFFICES ASSUME NEW e \in outbox', <<e.owner, e.v>> \in R PROVE Dead(e)'
        BY <1>4, <2>1 DEF IInv, ReleasesDead
      <3>1. e.owner \in applied
        BY <1>3 DEF IInv, ShardShape
      <3> QED BY <1>1, <1>2, <3>1 DEF Dead
    <2> QED BY <1>2, <2>1, <2>2 DEF IInv, ReleasesDead
  <1>9. (CallReads /\ AcksCommitted /\ DispatchCovered)'
    BY <1>2, <1>5 DEF IInv, CallReads, AcksCommitted, DispatchCovered
  <1>10. Tickets'
    BY <1>2, <1>5
    DEF IInv, Tickets, Ticket, TicketOwn, TicketGen, TicketQueued, TicketAbsent,
        TicketPresent, TicketCommitted, TicketScanned, Reclaims, Matters,
        Fenced, Writing
  <1> QED BY <1>6, <1>7, <1>8, <1>9, <1>10 DEF IInv

(* A request answered from the journal, or lost, changes nothing durable.   *)
LEMMA ShardReplayInv ==
  ASSUME TypeOK, IInv, NEW c \in Calls, ShardReplay(c) \/ DispatchLost(c)
  PROVE  IInv'
  <1>1. /\ UNCHANGED <<rec, res, call, task, held, applied, outbox, acks>>
        /\ flight' \subseteq flight
    BY DEF ShardReplay, DispatchLost, shardVars
  <1>2. (LiveIsReserved /\ EvidencePinned /\ ClaimShape /\ ShardShape)'
    BY <1>1 DEF IInv, LiveIsReserved, EvidencePinned, ClaimShape, ShardShape,
                NonTerminal
  <1>3. (CapturedRan /\ ReleasesDead /\ CallReads /\ AcksCommitted)'
    BY <1>1 DEF IInv, CapturedRan, ReleasesDead, Dead, CallReads, AcksCommitted
  <1>4. DispatchCovered'
    BY <1>1 DEF IInv, DispatchCovered
  <1>5. Tickets'
    BY <1>1
    DEF IInv, Tickets, Ticket, TicketOwn, TicketGen, TicketQueued, TicketAbsent,
        TicketPresent, TicketCommitted, TicketScanned, Reclaims, Matters,
        Fenced, Writing
  <1> QED BY <1>2, <1>3, <1>4, <1>5 DEF IInv

(* A pass that is not working on a reservation has an empty ticket.         *)
LEMMA NoTicket ==
  ASSUME NEW t, t.phase \notin {"scanned", "proof", "verdict"}
  PROVE  Ticket(t)
  BY DEF Ticket, TicketOwn, TicketGen, TicketQueued, TicketAbsent, TicketPresent,
         TicketCommitted, TicketScanned, Reclaims

(* A pass that ends, or only reads, keeps the invariant.                    *)
LEMMA IdleInv ==
  ASSUME TypeOK, IInv, NEW d \in Drivers,
         \/ ReclaimAborted(d) \/ ReclaimDiscarded(d) \/ CommittedHold(d)
         \/ DriverAckFailed(d) \/ RowEnd(d) \/ RowFailed(d) \/ PassLost(d)
  PROVE  IInv'
  <1>1. /\ SetTask(d, Idle)
        /\ UNCHANGED <<rec, res, call, held, applied, outbox, flight, acks>>
    BY DEF ReclaimAborted, ReclaimDiscarded, CommittedHold, DriverAckFailed,
           RowEnd, RowFailed, PassLost, shardVars, netVars
  <1>2. Ticket(Idle) /\ Idle.seen = {}
    BY NoTicket DEF Idle
  <1>3. AcksCommitted'
    BY <1>1 DEF IInv, AcksCommitted
  <1> QED BY <1>1, <1>2, <1>3, TaskFrame

(* So does a pass that reads a page of effects.                             *)
LEMMA PageInv ==
  ASSUME TypeOK, IInv, NEW d \in Drivers,
         ReadPage(d) \/ Rescan(d) \/ \E m \in Mutations : RowStart(d, m)
  PROVE  IInv'
  <1> DEFINE page == {e \in outbox : e.m = task[d].m}
  <1>1. /\ UNCHANGED <<rec, res, call, held, applied, outbox, flight, acks>>
        /\ \/ SetTask(d, [task[d] EXCEPT !.phase = "rescan"])
           \/ SetTask(d, [task[d] EXCEPT !.phase = "paged", !.seen = page])
           \/ SetTask(d, [task[d] EXCEPT !.phase = "rescanned", !.seen = page])
           \/ \E m \in Mutations : SetTask(d, [Idle EXCEPT !.phase = "page", !.m = m])
    BY DEF ReadPage, Rescan, RowStart, shardVars, netVars
  <1>2. task[d] \in TaskStates /\ Idle \in TaskStates /\ Idle.seen = {}
    BY IdleType DEF TypeOK, Idle
  <1>3. /\ AcksCommitted'
        /\ \A e \in page \cup task[d].seen : Dead(e)
    BY <1>1 DEF IInv, AcksCommitted, ReleasesDead
  <1> HIDE DEF page
  <1>4. ASSUME NEW t, SetTask(d, t), t.seen \subseteq page \cup task[d].seen,
               t.phase \in {"page", "paged", "rescan", "rescanned"}
        PROVE  IInv'
    BY <1>1, <1>3, <1>4, NoTicket, TaskFrame
  <1>5. CASE SetTask(d, [task[d] EXCEPT !.phase = "rescan"])
    BY <1>2, <1>4, <1>5 DEF TaskStates
  <1>6. CASE SetTask(d, [task[d] EXCEPT !.phase = "paged", !.seen = page])
    BY <1>2, <1>4, <1>6 DEF TaskStates
  <1>7. CASE SetTask(d, [task[d] EXCEPT !.phase = "rescanned", !.seen = page])
    BY <1>2, <1>4, <1>7 DEF TaskStates
  <1>8. ASSUME NEW m \in Mutations, SetTask(d, [Idle EXCEPT !.phase = "page", !.m = m])
        PROVE  IInv'
    BY <1>2, <1>4, <1>8 DEF TaskStates
  <1> QED BY <1>1, <1>5, <1>6, <1>7, <1>8

(* The scan opens a ticket; a committed claim is committed for good while   *)
(* its element lives.                                                       *)
LEMMA ScanInv ==
  ASSUME TypeOK, IInv, NEW d \in Drivers, NEW v \in Values, Scan(d, v)
  PROVE  IInv'
  <1> DEFINE t == [Idle EXCEPT !.phase = "scanned", !.v = v, !.m = res[v].claim,
                               !.st = res[v].state]
  <1>1. /\ SetTask(d, t) /\ res[v].state # "Free"
        /\ UNCHANGED <<rec, res, call, held, applied, outbox, flight, acks>>
    BY DEF Scan, NeedsReclaim, NonTerminal, shardVars, netVars
  <1>2. /\ t.phase = "scanned" /\ t.v = v /\ t.m = res[v].claim
        /\ t.st = res[v].state /\ t.seen = {}
    BY DEF Idle
  <1> HIDE DEF t
  <1>3. Ticket(t)
    BY <1>1, <1>2
    DEF IInv, ClaimShape, Ticket, TicketOwn, TicketGen, TicketQueued,
        TicketAbsent, TicketPresent, TicketCommitted, TicketScanned, Reclaims
  <1>4. AcksCommitted'
    BY <1>1 DEF IInv, AcksCommitted
  <1> QED BY <1>1, <1>2, <1>3, <1>4, TaskFrame

(* A proof read sent now queues behind every request of the claim.          *)
LEMMA ProofQueues ==
  ASSUME TypeOK, NEW m
  PROVE  Writing(m) \subseteq {c \in flight : Home[KeyOf[c]] = Home[m]}
  BY DEF Writing

(* A proof read sent anew, for an interrupted reclaim or for a committed    *)
(* claim, queues behind every request already sent.                         *)
LEMMA ResumeInv ==
  ASSUME TypeOK, IInv, NEW d \in Drivers, ResumeReclaim(d) \/ ProveCommitted(d)
  PROVE  IInv'
  <1>1. UNCHANGED <<rec, res, call, held, applied, outbox, flight, acks>>
    BY DEF ResumeReclaim, ProveCommitted, shardVars, netVars
  <1>2. AcksCommitted'
    BY <1>1 DEF IInv, AcksCommitted
  <1>3. /\ task[d] \in TaskStates /\ Ticket(task[d])
        /\ \A e \in task[d].seen : Dead(e)
    BY DEF TypeOK, IInv, Tickets, ReleasesDead
  <1>4. CASE ResumeReclaim(d)
    <2> DEFINE r == res[task[d].v]
               ahead == {c \in flight : Home[KeyOf[c]] = Home[r.claim]}
               t == [task[d] EXCEPT !.phase = "proof", !.m = r.claim,
                                    !.gen = r.gen, !.ahead = ahead]
    <2>1. /\ SetTask(d, t) /\ task[d].v \in Values
          /\ r.state = "Reclaiming" /\ task[d].st = "Reclaiming"
      BY <1>3, <1>4 DEF ResumeReclaim, SendProof, Ticket, TicketScanned
    <2>2. /\ t.phase = "proof" /\ t.v = task[d].v /\ t.m = r.claim
          /\ t.gen = r.gen /\ t.ahead = ahead /\ t.seen = task[d].seen
          /\ t.st = task[d].st
      BY <1>3 DEF TaskStates
    <2>3. Writing(r.claim) \subseteq ahead
      BY ProofQueues
    <2>4. r.gen \in 0..MaxGen
      BY <2>1 DEF TypeOK, Reservations
    <2> HIDE DEF t, ahead
    <2>5. Ticket(t)
      BY <2>1, <2>2, <2>3, <2>4
      DEF IInv, ClaimShape, Ticket, TicketOwn, TicketGen, TicketQueued,
          TicketAbsent, TicketPresent, TicketCommitted, TicketScanned, Reclaims
    <2> QED BY <1>1, <1>2, <1>3, <2>1, <2>2, <2>5, TaskFrame
  <1>5. CASE ProveCommitted(d)
    <2> DEFINE ahead == {c \in flight : Home[KeyOf[c]] = Home[task[d].m]}
               t == [task[d] EXCEPT !.phase = "proof", !.m = task[d].m,
                                    !.gen = 0, !.ahead = ahead]
    <2>1. SetTask(d, t) /\ task[d].phase = "scanned" /\ task[d].st = "Committed"
      BY <1>5 DEF ProveCommitted, SendProof
    <2>2. /\ t.phase = "proof" /\ t.v = task[d].v /\ t.m = task[d].m
          /\ t.seen = task[d].seen /\ t.st = task[d].st
      BY <1>3 DEF TaskStates
    <2> HIDE DEF t, ahead
    <2>3. Ticket(t)
      BY <1>3, <2>1, <2>2
      DEF Ticket, TicketOwn, TicketGen, TicketQueued, TicketAbsent,
          TicketPresent, TicketCommitted, TicketScanned, Reclaims
    <2> QED BY <1>1, <1>2, <1>3, <2>1, <2>2, <2>3, TaskFrame
  <1> QED BY <1>4, <1>5

(* The answer of a proof read.  Nothing that could still write was sent     *)
(* before it and has not arrived; what had written is still pinned.         *)
LEMMA ReadProofInv ==
  ASSUME TypeOK, IInv, NEW d \in Drivers, ReadProof(d) \/ ProofFailed(d)
  PROVE  IInv'
  <1> DEFINE o == task[d]
             t(x) == [o EXCEPT !.phase = "verdict", !.ahead = {}, !.verdict = x]
  <1>1. PICK x : /\ SetTask(d, t(x)) /\ o.phase = "proof"
                 /\ \/ x = "inconclusive"
                    \/ x = "present" /\ Acquire(o.m, o.v) \in outbox
                    \/ /\ x = "absent" /\ Acquire(o.m, o.v) \notin outbox
                       /\ Arrived(o)
    BY DEF ReadProof, ProofFailed
  <1>2. UNCHANGED <<rec, res, call, held, applied, outbox, flight, acks>>
    BY DEF ReadProof, ProofFailed, shardVars, netVars
  <1>3. AcksCommitted'
    BY <1>2 DEF IInv, AcksCommitted
  <1>4. /\ o \in TaskStates /\ Ticket(o) /\ \A e \in o.seen : Dead(e)
    BY DEF TypeOK, IInv, Tickets, ReleasesDead
  <1>5. /\ t(x).phase = "verdict" /\ t(x).v = o.v /\ t(x).m = o.m
        /\ t(x).gen = o.gen /\ t(x).seen = o.seen /\ t(x).st = o.st
        /\ t(x).verdict = x
    BY <1>4 DEF TaskStates
  <1> HIDE DEF o, t
  <1>6. Fenced(t(x)) => Fenced(o)
    BY <1>5 DEF Fenced
  <1>7. TicketOwn(t(x)) /\ TicketGen(t(x)) /\ TicketCommitted(t(x))
    BY <1>1, <1>4, <1>5
    DEF Ticket, TicketOwn, TicketGen, TicketCommitted, Reclaims, Matters
  <1>8. TicketPresent(t(x))
    <2>1. Acquire(o.m, o.v) \in outbox => o.m \in applied
      <3>1. Acquire(o.m, o.v).m = o.m
        BY DEF Acquire
      <3> QED BY <3>1 DEF IInv, ShardShape
    <2> QED BY <1>1, <1>5, <2>1 DEF TicketPresent
  <1>9. TicketAbsent(t(x))
    <2> SUFFICES ASSUME Reclaims(t(x)), x = "absent", Fenced(t(x))
                 PROVE  <<o.m, o.v>> \notin held /\ Writing(o.m) = {}
      BY <1>5 DEF TicketAbsent
    <2>1. Reclaims(o) /\ Fenced(o) /\ Acquire(o.m, o.v) \notin outbox /\ Arrived(o)
      BY <1>1, <1>5, <1>6 DEF Reclaims
    <2>2. Writing(o.m) = {}
      BY <1>1, <1>4, <2>1 DEF Ticket, TicketQueued, Arrived, Writing
    <2>3. <<o.m, o.v>> \notin held
      BY <2>1 DEF IInv, EvidencePinned, Fenced, NonTerminal
    <2> QED BY <2>2, <2>3
  <1>10. Ticket(t(x))
    BY <1>5, <1>7, <1>8, <1>9 DEF Ticket, TicketQueued, TicketScanned
  <1> QED BY <1>1, <1>2, <1>3, <1>4, <1>5, <1>10, TaskFrame DEF o

(* A pass that acks a committed claim.                                      *)
LEMMA ReAckInv ==
  ASSUME TypeOK, IInv, NEW d \in Drivers, ReAck(d)
  PROVE  IInv'
  <1> DEFINE t == [task[d] EXCEPT !.phase = "ack", !.verdict = "none", !.gen = 0]
  <1>1. /\ UNCHANGED <<rec, res, call, held, applied, outbox, flight>>
        /\ SetTask(d, t) /\ acks' = acks \cup {Acquire(task[d].m, task[d].v)}
        /\ task[d].phase = "verdict" /\ task[d].st = "Committed"
    BY DEF ReAck, SendAck, CommittedProof, shardVars
  <1>2. /\ task[d] \in TaskStates /\ Ticket(task[d])
        /\ \A e \in task[d].seen : Dead(e)
    BY DEF TypeOK, IInv, Tickets, ReleasesDead
  <1>3. t.phase = "ack" /\ t.seen = task[d].seen
    BY <1>2 DEF TaskStates
  <1>4. AcksCommitted'
    BY <1>1, <1>2 DEF IInv, AcksCommitted, Ticket, TicketCommitted, Acquire
  <1> HIDE DEF t
  <1> QED BY <1>1, <1>2, <1>3, <1>4, NoTicket, TaskFrame

(* A present proof commits the claim and acks it in one step.               *)
LEMMA ReclaimCommitInv ==
  ASSUME TypeOK, IInv, NEW d \in Drivers, ReclaimCommit(d)
  PROVE  IInv'
  <1> DEFINE o == task[d]
             t == [o EXCEPT !.phase = "ack", !.verdict = "none", !.gen = 0]
  <1>1. /\ UNCHANGED <<rec, call, held, applied, outbox, flight>>
        /\ SetTask(d, t) /\ acks' = acks \cup {Acquire(o.m, o.v)}
        /\ o.phase = "verdict" /\ o.verdict = "present" /\ o.st # "Committed"
        /\ Fenced(o) /\ res' = [res EXCEPT ![o.v] = Committed(@, o.m)]
    BY DEF ReclaimCommit, SendAck, Reclaiming, shardVars
  <1>2. o \in TaskStates /\ o.m \in applied /\ o.v \in Values
    BY <1>1 DEF TypeOK, IInv, Tickets, Ticket, TicketOwn, TicketPresent, Reclaims
  <1>3. /\ Committed(res[o.v], o.m).state = "Committed"
        /\ Committed(res[o.v], o.m).claim = res[o.v].claim
        /\ Committed(res[o.v], o.m).gen = res[o.v].gen
        /\ Committed(res[o.v], o.m).owner = o.m
    BY <1>2 DEF TypeOK, Reservations, Committed
  <1>4. t.phase = "ack" /\ t.seen = o.seen
    BY <1>2 DEF TaskStates
  <1>5. \A x \in Drivers : task'[x] = IF x = d THEN t ELSE task[x]
    BY <1>1 DEF SetTask, TypeOK
  <1> HIDE DEF t
  <1>6. \A v \in Values : res'[v] = IF v = o.v THEN Committed(res[v], o.m) ELSE res[v]
    BY <1>1 DEF TypeOK
  <1>7. \A v \in Values : Kept(res[v], res'[v])
    BY <1>1, <1>2, <1>3, <1>6 DEF Kept, Fenced, NonTerminal
  <1>8. \A e \in acks' : e \in acks \/ (e.m = o.m /\ e.v = o.v)
    BY <1>1 DEF Acquire
  <1>9. res'[o.v].state = "Committed"
    BY <1>2, <1>3, <1>6
  <1>10. \A x \in Drivers :
           /\ task'[x].seen \subseteq task[x].seen
           /\ task'[x] = task[x] \/ task'[x].phase \notin {"scanned", "proof", "verdict"}
    BY <1>4, <1>5
  <1> QED BY <1>1, <1>2, <1>7, <1>8, <1>9, <1>10, ReservationFrame

(* Holding a reclaim back, and clearing an ack marker.                      *)
LEMMA HoldInv ==
  ASSUME TypeOK, IInv, NEW d \in Drivers,
         ReclaimHold(d) \/ AckReplyLost(d) \/ DriverAcked(d)
  PROVE  IInv'
  <1>1. /\ UNCHANGED <<rec, call, held, applied, outbox, flight, acks>>
        /\ SetTask(d, Idle)
    BY DEF ReclaimHold, AckReplyLost, DriverAcked, shardVars, netVars
  <1>2. \A x \in Drivers :
          /\ task'[x].seen \subseteq task[x].seen
          /\ task'[x] = task[x] \/ task'[x].phase \notin {"scanned", "proof", "verdict"}
    BY <1>1 DEF SetTask, TypeOK, Idle
  <1>3. ASSUME NEW v \in Values PROVE Kept(res[v], res'[v])
    <2>1. res[v] \in Reservations
      BY DEF TypeOK
    <2>2. CASE AckReplyLost(d) \/ DriverAcked(d)
      <3>1. res'[v] = ClearAck(res[v], task[d].m) \/ res'[v] = res[v]
        BY <2>2 DEF TypeOK, AckReplyLost, DriverAcked
      <3> QED BY <2>1, <3>1, ClearAckKept
    <2>3. CASE ReclaimHold(d)
      <3>1. \/ res'[v] = res[v]
            \/ /\ res[v].state = "Reclaiming"
               /\ res'[v] = [res[v] EXCEPT !.state = "Reserved"]
        BY <2>3 DEF TypeOK, ReclaimHold, Fenced
      <3> QED BY <2>1, <3>1 DEF Reservations, Kept
    <2> QED BY <2>2, <2>3
  <1> QED BY <1>1, <1>2, <1>3, ReservationFrame

(* Driver 2 releases what dead elements held.                               *)
LEMMA ProcessPageInv ==
  ASSUME TypeOK, IInv, NEW d \in Drivers, ProcessPage(d)
  PROVE  IInv'
  <1> DEFINE E == {e \in task[d].seen : e.op = "release"}
  <1>1. /\ UNCHANGED <<rec, call, held, applied, outbox, flight>>
        /\ res' = AfterReleases(E)
        /\ \A e \in acks' : e \in acks \/ e \in E
        /\ \E b : SetTask(d, [task[d] EXCEPT !.phase = "rescan", !.seen = {},
                                             !.orphan = b])
    BY DEF ProcessPage, shardVars
  <1>2. task[d] \in TaskStates
    BY DEF TypeOK
  <1>3. \A x \in Drivers :
          /\ task'[x].seen \subseteq task[x].seen
          /\ task'[x] = task[x] \/ task'[x].phase \notin {"scanned", "proof", "verdict"}
    BY <1>1, <1>2 DEF SetTask, TypeOK, TaskStates
  <1>4. E \in SUBSET Effects
    BY <1>2 DEF TaskStates
  <1>5. \A e \in E : e.op = "release" /\ Dead(e)
    BY DEF IInv, ReleasesDead
  <1> HIDE DEF E
  <1>6. \A v \in Values : Kept(res[v], res'[v]) \/ Released(v, res[v], res'[v])
    BY <1>1, <1>4, <1>5, ReleaseStep
  <1> QED BY <1>1, <1>3, <1>5, <1>6, ReservationFrame

(* A new generation invalidates every older ticket, and a ticket that would *)
(* carry the new generation already belongs to a claim that cannot write.   *)
LEMMA BeginReclaimInv ==
  ASSUME TypeOK, IInv, NEW d \in Drivers, BeginReclaim(d)
  PROVE  IInv'
  <1> DEFINE v == task[d].v
             m == res[v].claim
             g == res[v].gen
             ahead == {c \in flight : Home[KeyOf[c]] = Home[m]}
             t == [task[d] EXCEPT !.phase = "proof", !.m = m, !.gen = g + 1,
                                  !.ahead = ahead]
             s == [res[v] EXCEPT !.state = "Reclaiming", !.gen = g + 1]
  <1>1. /\ UNCHANGED <<rec, call, held, applied, outbox, flight, acks>>
        /\ SetTask(d, t) /\ v \in Values
        /\ res[v].state = "Reserved" /\ task[d].st = "Reserved"
        /\ res' = [res EXCEPT ![v].state = "Reclaiming", ![v].gen = @ + 1]
    BY DEF BeginReclaim, SendProof, shardVars, netVars, IInv, Tickets, Ticket,
           TicketScanned
  <1>2. /\ task[d] \in TaskStates /\ res[v] \in Reservations /\ g \in Nat
        /\ \A e \in task[d].seen : Dead(e)
    BY <1>1 DEF TypeOK, Reservations, IInv, ReleasesDead
  <1>3. /\ t.phase = "proof" /\ t.v = v /\ t.m = m /\ t.gen = g + 1
        /\ t.ahead = ahead /\ t.seen = task[d].seen /\ t.st = "Reserved"
    BY <1>1, <1>2 DEF TaskStates
  <1>4. /\ \A x \in Values : res'[x] = IF x = v THEN s ELSE res[x]
        /\ s.state = "Reclaiming" /\ s.claim = m /\ s.gen = g + 1
    BY <1>1, <1>2 DEF TypeOK, Reservations
  <1>5. \A x \in Drivers : task'[x] = IF x = d THEN t ELSE task[x]
    BY <1>1 DEF SetTask, TypeOK
  <1>6. Writing(m) \subseteq ahead
    BY ProofQueues
  <1>7. m \in Inserts /\ v \in Claims[m]
    BY <1>1 DEF IInv, ClaimShape
  <1>8. \A h \in held : h[2] \in Values
    BY DEF TypeOK
  <1>r. res[v].claim = m /\ res[v].gen = g
    OBVIOUS
  <1> HIDE DEF v, m, g, ahead, t, s
  <1>9. (LiveIsReserved /\ EvidencePinned)'
    <2> SUFFICES ASSUME NEW h \in held
                 PROVE  /\ res'[h[2]].state # "Free" /\ res'[h[2]].claim = h[1]
                        /\ NonTerminal(res'[h[2]]) => Acquire(h[1], h[2]) \in outbox
      BY <1>1 DEF LiveIsReserved, EvidencePinned
    <2>1. /\ res[h[2]].state # "Free" /\ res[h[2]].claim = h[1]
          /\ NonTerminal(res[h[2]]) => Acquire(h[1], h[2]) \in outbox
      BY DEF IInv, LiveIsReserved, EvidencePinned
    <2>2. CASE h[2] = v
      BY <1>1, <1>4, <1>8, <1>r, <2>1, <2>2 DEF NonTerminal
    <2>3. CASE h[2] # v
      <3>1. res'[h[2]] = res[h[2]]
        BY <1>4, <1>8, <2>3
      <3> QED BY <2>1, <3>1
    <2> QED BY <2>2, <2>3
  <1>10. ClaimShape'
    <2> SUFFICES ASSUME NEW x \in Values, res'[x].state # "Free"
                 PROVE  /\ res'[x].claim \in Inserts
                        /\ x \in Claims[res'[x].claim]
                        /\ res'[x].state = "Committed" =>
                             (res'[x].owner = res'[x].claim /\ res'[x].claim \in applied)
      BY <1>1 DEF ClaimShape
    <2>1. CASE x = v
      BY <1>4, <1>7, <2>1
    <2>2. CASE x # v
      BY <1>4, <2>2 DEF IInv, ClaimShape
    <2> QED BY <2>1, <2>2
  <1>11. (ShardShape /\ CapturedRan /\ CallReads)'
    BY <1>1 DEF IInv, ShardShape, CapturedRan, CallReads
  <1>12. ReleasesDead'
    BY <1>1, <1>2, <1>3, <1>5 DEF IInv, ReleasesDead, Dead
  <1>13. AcksCommitted'
    <2>1. \A e \in acks : <<e.m, e.v>> \in held => e.v \in Values
      BY <1>8
    <2> QED BY <1>1, <1>4, <2>1 DEF IInv, AcksCommitted
  <1>14. DispatchCovered'
    <2>1. \A x \in Inserts : Claims[x] \subseteq Values
      BY ConstantsAssumption
    <2>2. \A x \in Values : /\ res'[x].claim = res[x].claim
                            /\ res[x].state # "Free" => res'[x].state # "Free"
      BY <1>4, <1>r
    <2> QED BY <1>1, <2>1, <2>2 DEF IInv, DispatchCovered
  <1>15. Tickets'
    <2> SUFFICES ASSUME NEW x \in Drivers PROVE Ticket(task[x])'
      BY DEF Tickets
    <2>1. CASE x = d
      <3>1. task'[x] = t /\ res'[v] = s
        BY <1>1, <1>4, <1>5, <2>1
      <3>2. TicketOwn(task[x])'
        BY <1>1, <1>3, <1>7, <3>1 DEF TicketOwn
      <3>4. g + 1 <= g + 1
        BY <1>2
      <3>5. TicketGen(task[x])'
        BY <1>3, <1>4, <3>1, <3>4 DEF TicketGen
      <3>3. TicketQueued(task[x])'
        BY <1>1, <1>3, <1>6, <3>1 DEF TicketQueued, Writing
      <3> QED BY <1>3, <3>1, <3>2, <3>3, <3>5
          DEF Ticket, TicketAbsent, TicketPresent, TicketCommitted, TicketScanned
    <2>2. CASE x # d
      <3>1. Ticket(task[x]) /\ task'[x] = task[x]
        BY <1>5, <2>2 DEF IInv, Tickets
      <3>2. /\ TicketOwn(task[x])' /\ TicketPresent(task[x])' /\ TicketScanned(task[x])'
        BY <1>1, <3>1 DEF Ticket, TicketOwn, TicketPresent, TicketScanned, Reclaims
      <3>3. TicketCommitted(task[x])'
        BY <1>1, <1>4, <3>1 DEF Ticket, TicketCommitted
      <3>4. task[x] \in TaskStates
        BY DEF TypeOK
      <3>5. TicketGen(task[x])'
        <4> SUFFICES ASSUME Reclaims(task[x]), Matters(task[x])
                     PROVE  /\ res'[task[x].v].state # "Free"
                            /\ res'[task[x].v].claim = task[x].m
                            /\ task[x].gen <= res'[task[x].v].gen
          BY <1>1, <3>1 DEF TicketGen, Reclaims, Matters
        <4>1. /\ task[x].v \in Values /\ res[task[x].v].state # "Free"
              /\ res[task[x].v].claim = task[x].m
              /\ task[x].gen <= res[task[x].v].gen
          BY <3>1 DEF Ticket, TicketOwn, TicketGen
        <4>2. task[x].gen \in Nat
          BY <3>4 DEF TaskStates
        <4> QED BY <1>2, <1>4, <1>r, <4>1, <4>2
      <3>6. Reclaims(task[x]) /\ Fenced(task[x])' /\ ~Fenced(task[x]) =>
              <<task[x].m, task[x].v>> \notin held /\ Writing(task[x].m) = {}
        <4> SUFFICES ASSUME Reclaims(task[x]), Fenced(task[x])', ~Fenced(task[x])
                     PROVE  <<task[x].m, task[x].v>> \notin held /\ Writing(task[x].m) = {}
          OBVIOUS
        <4>1. task[x].v = v /\ task[x].m = m /\ task[x].gen = g + 1
          BY <1>4, <3>1 DEF Fenced, Ticket, TicketOwn
        <4>2. ~Matters(task[x])
          BY <1>2, <1>r, <3>1, <4>1 DEF Ticket, TicketGen
        <4> QED BY <4>2 DEF Matters, Writing, IInv, DispatchCovered
      <3>7. TicketQueued(task[x])' /\ TicketAbsent(task[x])'
        BY <1>1, <3>1, <3>6
        DEF Ticket, TicketQueued, TicketAbsent, Reclaims, Writing
      <3> QED BY <3>2, <3>3, <3>5, <3>7 DEF Ticket
    <2> QED BY <2>1, <2>2
  <1> QED BY <1>9, <1>10, <1>11, <1>12, <1>13, <1>14, <1>15 DEF IInv

(* A cancel frees a value nobody holds and fails a mutation nobody writes.  *)
LEMMA ReclaimCancelInv ==
  ASSUME TypeOK, IInv, NEW d \in Drivers, ReclaimCancel(d)
  PROVE  IInv'
  <1> DEFINE o == task[d]
             v == o.v
             m == o.m
  <1>1. /\ UNCHANGED <<call, held, applied, outbox, flight, acks>>
        /\ SetTask(d, Idle) /\ o.phase = "verdict" /\ o.verdict = "absent"
        /\ Fenced(o) /\ Reclaims(o) /\ rec[m] \in {"open", "failed"}
        /\ rec' = [rec EXCEPT ![m] = "failed"] /\ res' = [res EXCEPT ![v] = Free]
    BY DEF ReclaimCancel, Reclaiming, CanCancel, Reclaims, shardVars, netVars
  <1>2. /\ m \in Inserts /\ v \in Values
        /\ <<m, v>> \notin held /\ Writing(m) = {}
        /\ res[v].state = "Reclaiming" /\ res[v].claim = m
    BY <1>1 DEF IInv, Tickets, Ticket, TicketOwn, TicketAbsent, Fenced
  <1>3. \A x \in Values : x # v => res'[x] = res[x]
    BY <1>1 DEF TypeOK
  <1>4. res'[v].state = "Free"
    BY <1>1, <1>2 DEF TypeOK, Free
  <1>5. \A x \in Mutations : rec'[x] = IF x = m THEN "failed" ELSE rec[x]
    BY <1>1 DEF TypeOK
  <1>6. \A x \in Drivers : task'[x] = IF x = d THEN Idle ELSE task[x]
    BY <1>1 DEF SetTask, TypeOK
  <1> HIDE DEF o, v, m
  <1>7. \A h \in held : h[2] \in Values /\ h[2] # v /\ h = <<h[1], h[2]>>
    BY <1>2 DEF IInv, TypeOK, LiveIsReserved
  <1>8. (LiveIsReserved /\ EvidencePinned)'
    BY <1>1, <1>3, <1>7 DEF IInv, LiveIsReserved, EvidencePinned, NonTerminal
  <1>9. ClaimShape'
    BY <1>1, <1>3, <1>4 DEF IInv, ClaimShape
  <1>10. (ShardShape /\ CapturedRan /\ CallReads)'
    BY <1>1, <1>5 DEF IInv, ShardShape, CapturedRan, CallReads
  <1>11. ReleasesDead'
    BY <1>1, <1>6 DEF IInv, ReleasesDead, Dead, Idle
  <1>12. AcksCommitted'
    <2>1. \A e \in acks : <<e.m, e.v>> \in held => res'[e.v] = res[e.v]
      BY <1>3, <1>7
    <2> QED BY <1>1, <2>1 DEF IInv, AcksCommitted
  <1>13. DispatchCovered'
    <2> SUFFICES ASSUME NEW c \in flight, KeyOf[c] \notin applied
                 PROVE  /\ rec'[KeyOf[c]] \notin Gone
                        /\ KeyOf[c] \in Inserts =>
                             \A x \in Claims[KeyOf[c]] :
                               res'[x].state # "Free" /\ res'[x].claim = KeyOf[c]
      BY <1>1 DEF DispatchCovered
    <2>1. KeyOf[c] # m
      BY <1>2 DEF Writing
    <2>2. /\ KeyOf[c] \in Mutations
          /\ KeyOf[c] \in Inserts => Claims[KeyOf[c]] \subseteq Values
      BY ConstantsAssumption DEF TypeOK
    <2> QED BY <1>2, <1>3, <1>5, <2>1, <2>2 DEF IInv, DispatchCovered
  <1>14. Tickets'
    <2> SUFFICES ASSUME NEW x \in Drivers PROVE Ticket(task[x])'
      BY DEF Tickets
    <2>1. CASE x = d
      BY <1>6, <2>1
      DEF Ticket, TicketOwn, TicketGen, TicketQueued, TicketAbsent,
          TicketPresent, TicketCommitted, TicketScanned, Reclaims, Idle
    <2>2. CASE x # d
      <3>1. Ticket(task[x]) /\ task'[x] = task[x]
        BY <1>6, <2>2 DEF IInv, Tickets
      <3>2. /\ TicketOwn(task[x])' /\ TicketPresent(task[x])' /\ TicketScanned(task[x])'
        BY <1>1, <3>1 DEF Ticket, TicketOwn, TicketPresent, TicketScanned, Reclaims
      <3>3. TicketCommitted(task[x])'
        BY <1>1, <1>3, <1>7, <3>1 DEF Ticket, TicketCommitted
      <3>4. TicketGen(task[x])'
        <4>1. Reclaims(task[x]) /\ Matters(task[x])' => Matters(task[x]) /\ task[x].v # v
          BY <1>1, <1>2, <1>5, <1>7, <3>1
          DEF Matters, Ticket, TicketOwn, TicketGen, Mutations, Gone
        <4> QED BY <1>3, <3>1, <4>1 DEF Ticket, TicketOwn, TicketGen, Reclaims
      <3>5. Reclaims(task[x]) /\ Fenced(task[x])' => Fenced(task[x])
        BY <1>3, <1>4, <3>1 DEF Fenced, Ticket, TicketOwn
      <3>6. TicketQueued(task[x])' /\ TicketAbsent(task[x])'
        BY <1>1, <3>1, <3>5
        DEF Ticket, TicketQueued, TicketAbsent, Reclaims, Writing
      <3> QED BY <3>2, <3>3, <3>4, <3>6 DEF Ticket
    <2> QED BY <2>1, <2>2
  <1> QED BY <1>8, <1>9, <1>10, <1>11, <1>12, <1>13, <1>14 DEF IInv

------------------------------------------------------------------------------
(* The invariant holds initially and every step keeps it.                   *)
LEMMA InvInit == Init => IInv
  BY DEF Init, IInv, LiveIsReserved, EvidencePinned, ClaimShape, ShardShape,
         CapturedRan, ReleasesDead, CallReads, AcksCommitted, DispatchCovered,
         Tickets, Ticket, TicketOwn, TicketGen, TicketQueued, TicketAbsent,
         TicketPresent, TicketCommitted, TicketScanned, Reclaims, Free, Idle

(* Every step of the protocol keeps the invariant.                          *)
LEMMA InvNext ==
  ASSUME TypeOK, IInv, [Next]_vars
  PROVE  IInv'
  <1>1. ASSUME NEW c \in Calls, CallStep(c) PROVE IInv'
    BY <1>1, CallRecordStep, DispatchInsertInv, DispatchDeleteInv, ReadEffectsInv,
       ConfirmInv, ReconcileReleasesInv, ConfirmAckedInv DEF CallStep
  <1>2. ASSUME NEW c \in Calls, ShardStep(c) PROVE IInv'
    BY <1>2, ShardInsertInv, ShardDeleteInv, ShardReplayInv DEF ShardStep
  <1>3. ASSUME NEW d \in Drivers, Driver1Step(d) PROVE IInv'
    BY <1>3, BeginReclaimInv, ResumeInv, IdleInv, ReadProofInv, ReclaimCommitInv,
       ReclaimCancelInv, HoldInv, ReAckInv DEF Driver1Step
  <1>4. ASSUME NEW d \in Drivers, Driver2Step(d) \/ DriverFault(d) PROVE IInv'
    BY <1>4, PageInv, ProcessPageInv, IdleInv, ReadProofInv
    DEF Driver2Step, DriverFault
  <1>5. CASE Next
    BY <1>1, <1>2, <1>3, <1>4, <1>5, AckStepInv, RecordStepInv, ScanInv, PageInv
    DEF Next
  <1>6. CASE UNCHANGED vars
    <2>1. UNCHANGED <<rec, res, call, task, held, applied, outbox, flight, acks>>
      BY <1>6 DEF vars
    <2> QED BY <2>1, RecordFrame DEF IInv, CapturedRan
  <1> QED BY <1>5, <1>6

(* Types and inductive invariant together: what a ticket says types the     *)
(* acks a pass sends, and the types bound what the invariant speaks of.     *)
THEOREM Safety == Spec => [](TypeOK /\ IInv)
  <1>1. Init => TypeOK /\ IInv
    BY TypeInit, InvInit
  <1>2. TypeOK /\ IInv /\ [Next]_vars => (TypeOK /\ IInv)'
    BY TypeNext, InvNext DEF IInv
  <1> QED BY <1>1, <1>2, PTL DEF Spec

(* Every reachable state is well typed.                                     *)
THEOREM TypeCorrect == Spec => []TypeOK
  BY Safety, PTL

(* A value in canonical storage is always reserved by the claim that wrote  *)
(* it, and its Acquire stays pinned while that claim is undecided.          *)
THEOREM Reserved_Live == Spec => [](LiveIsReserved /\ EvidencePinned)
  <1>1. IInv => LiveIsReserved /\ EvidencePinned
    BY DEF IInv
  <1> QED BY <1>1, Safety, PTL

(* Graph-wide uniqueness, for any number of mutations, values, shards,      *)
(* retries, concurrent recovery passes and lost messages.                   *)
THEOREM Uniqueness == Spec => []UniqueValues
  <1>1. TypeOK /\ LiveIsReserved => UniqueValues
    <2> SUFFICES ASSUME TypeOK, LiveIsReserved, NEW h \in held, NEW k \in held,
                        h[2] = k[2]
                 PROVE  h = k
      BY DEF UniqueValues
    <2>1. h = <<h[1], h[2]>> /\ k = <<k[1], k[2]>>
      BY DEF TypeOK
    <2>2. h[1] = k[1]
      BY DEF LiveIsReserved
    <2> QED BY <2>1, <2>2
  <1> QED BY <1>1, Safety, PTL DEF IInv
===============================================================================
