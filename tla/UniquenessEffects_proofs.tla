----------------------- MODULE UniquenessEffects_proofs -----------------------
(***************************************************************************)
(* Theorems about the evidence of UniquenessTCC: pinned effects always     *)
(* have their reservation and their discovery row, the slots count the     *)
(* undecided reservations, no record they need is evicted, a committed     *)
(* value has an owner, and absence of evidence means that nothing was      *)
(* written.  Frame lemmas say which steps cannot disturb the parts of      *)
(* EInv, OInv and NInv; after each come the steps that are not frames.     *)
(***************************************************************************)
EXTENDS UniquenessTCC_proofs

(* What a step of a pass leaves in its hand.                                *)
LEMMA HandMoves ==
  ASSUME TypeOK, NEW d \in Drivers,
         \/ Driver1Step(d) \/ Driver2Step(d) \/ DriverFault(d)
         \/ \E v \in Values : Scan(d, v)
         \/ \E m \in Mutations : RowStart(d, m)
  PROVE  /\ \A x \in Drivers : x # d => task'[x] = task[x]
         /\ \A e \in task'[d].seen : e \in task[d].seen \/ e \in outbox
         /\ task'[d].phase = "verdict" => ReadProof(d) \/ ProofFailed(d)
         /\ \/ task'[d].phase \notin Draining
            \/ Driver2Step(d) \/ \E m \in Mutations : RowStart(d, m)
  <1> DEFINE o == task[d]
             page == {e \in outbox : e.m = o.m}
             OfDriver1 == {"idle", "scanned", "proof", "ack"}
  <1>1. /\ o \in TaskStates /\ Idle \in TaskStates
        /\ Idle.phase = "idle" /\ Idle.seen = {}
    BY IdleType DEF TypeOK, Idle
  <1>2. ASSUME NEW t, SetTask(d, t)
        PROVE  task'[d] = t /\ \A x \in Drivers : x # d => task'[x] = task[x]
    BY <1>2 DEF SetTask, TypeOK
  <1>3. OfDriver1 \cap Draining = {} /\ "verdict" \notin OfDriver1 /\ "verdict" \notin Draining
    BY DEF Draining
  <1>4. ASSUME NEW t, SetTask(d, t), t.phase \in OfDriver1, t.seen \in {o.seen, {}}
        PROVE  /\ \A x \in Drivers : x # d => task'[x] = task[x]
               /\ \A e \in task'[d].seen : e \in task[d].seen \/ e \in outbox
               /\ task'[d].phase \notin Draining /\ task'[d].phase # "verdict"
    BY <1>2, <1>3, <1>4
  <1>5. CASE \/ ReclaimAborted(d) \/ ReclaimDiscarded(d) \/ ReclaimCancel(d)
             \/ ReclaimHold(d) \/ AckReplyLost(d) \/ CommittedHold(d)
             \/ DriverAcked(d) \/ DriverAckFailed(d) \/ RowFailed(d)
             \/ PassLost(d) \/ RowEnd(d)
    <2>1. SetTask(d, Idle)
      BY <1>5
      DEF ReclaimAborted, ReclaimDiscarded, ReclaimCancel, ReclaimHold,
          AckReplyLost, CommittedHold, DriverAcked, DriverAckFailed, RowFailed,
          PassLost, RowEnd
    <2> QED BY <1>1, <1>4, <2>1
  <1>6. CASE BeginReclaim(d) \/ ResumeReclaim(d) \/ ProveCommitted(d)
    <2>1. PICK m, g : SendProof(d, m, g)
      BY <1>6 DEF BeginReclaim, ResumeReclaim, ProveCommitted
    <2> DEFINE t == [o EXCEPT !.phase = "proof", !.m = m, !.gen = g,
                              !.ahead = {c \in flight : Home[KeyOf[c]] = Home[m]}]
    <2>2. SetTask(d, t) /\ t.phase = "proof" /\ t.seen = o.seen
      BY <1>1, <2>1 DEF SendProof, TaskStates
    <2> HIDE DEF t
    <2> QED BY <1>4, <2>2
  <1>7. CASE ReadProof(d) \/ ProofFailed(d)
    <2>1. PICK x : SetTask(d, [o EXCEPT !.phase = "verdict", !.ahead = {}, !.verdict = x])
      BY <1>7 DEF ReadProof, ProofFailed
    <2> DEFINE t == [o EXCEPT !.phase = "verdict", !.ahead = {}, !.verdict = x]
    <2>2. SetTask(d, t) /\ t.phase = "verdict" /\ t.seen = o.seen
      BY <1>1, <2>1 DEF TaskStates
    <2> HIDE DEF t
    <2> QED BY <1>2, <1>3, <1>7, <2>2
  <1>8. CASE ReclaimCommit(d) \/ ReAck(d)
    <2> DEFINE t == [o EXCEPT !.phase = "ack", !.verdict = "none", !.gen = 0]
    <2>1. SetTask(d, t) /\ t.phase = "ack" /\ t.seen = o.seen
      BY <1>1, <1>8 DEF ReclaimCommit, ReAck, SendAck, TaskStates
    <2> HIDE DEF t
    <2> QED BY <1>4, <2>1
  <1>9. ASSUME NEW v \in Values, Scan(d, v)
        PROVE  /\ \A x \in Drivers : x # d => task'[x] = task[x]
               /\ \A e \in task'[d].seen : e \in task[d].seen \/ e \in outbox
               /\ task'[d].phase \notin Draining /\ task'[d].phase # "verdict"
    <2> DEFINE t == [Idle EXCEPT !.phase = "scanned", !.v = v,
                                 !.m = res[v].claim, !.st = res[v].state]
    <2>1. SetTask(d, t) /\ t.phase = "scanned" /\ t.seen = {}
      BY <1>1, <1>9 DEF Scan, TaskStates
    <2> HIDE DEF t
    <2> QED BY <1>4, <2>1
  <1>10. ASSUME ReadPage(d) \/ ProcessPage(d) \/ Rescan(d) \/ \E m \in Mutations : RowStart(d, m)
         PROVE  /\ \A x \in Drivers : x # d => task'[x] = task[x]
                /\ \A e \in task'[d].seen : e \in task[d].seen \/ e \in outbox
                /\ task'[d].phase # "verdict"
    <2>1. ASSUME NEW t, SetTask(d, t), t.phase \in Draining, t.seen \in {o.seen, page, {}}
          PROVE  /\ \A x \in Drivers : x # d => task'[x] = task[x]
                 /\ \A e \in task'[d].seen : e \in task[d].seen \/ e \in outbox
                 /\ task'[d].phase # "verdict"
      BY <1>2, <1>3, <2>1
    <2>2. CASE ReadPage(d) \/ Rescan(d)
      <3>1. \/ SetTask(d, [o EXCEPT !.phase = "rescan"])
            \/ SetTask(d, [o EXCEPT !.phase = "paged", !.seen = page])
            \/ SetTask(d, [o EXCEPT !.phase = "rescanned", !.seen = page])
        BY <2>2 DEF ReadPage, Rescan
      <3> HIDE DEF page
      <3>2. /\ [o EXCEPT !.phase = "rescan"].phase = "rescan"
            /\ [o EXCEPT !.phase = "rescan"].seen = o.seen
            /\ [o EXCEPT !.phase = "paged", !.seen = page].phase = "paged"
            /\ [o EXCEPT !.phase = "paged", !.seen = page].seen = page
            /\ [o EXCEPT !.phase = "rescanned", !.seen = page].phase = "rescanned"
            /\ [o EXCEPT !.phase = "rescanned", !.seen = page].seen = page
        BY <1>1 DEF TaskStates
      <3> QED BY <2>1, <3>1, <3>2 DEF Draining
    <2>3. CASE ProcessPage(d)
      <3>1. PICK b : SetTask(d, [o EXCEPT !.phase = "rescan", !.seen = {}, !.orphan = b])
        BY <2>3 DEF ProcessPage
      <3> DEFINE t == [o EXCEPT !.phase = "rescan", !.seen = {}, !.orphan = b]
      <3>2. SetTask(d, t) /\ t.phase = "rescan" /\ t.seen = {}
        BY <1>1, <3>1 DEF TaskStates
      <3> HIDE DEF t
      <3> QED BY <2>1, <3>2 DEF Draining
    <2>4. ASSUME NEW m \in Mutations, RowStart(d, m)
          PROVE  /\ \A x \in Drivers : x # d => task'[x] = task[x]
                 /\ \A e \in task'[d].seen : e \in task[d].seen \/ e \in outbox
                 /\ task'[d].phase # "verdict"
      <3> DEFINE t == [Idle EXCEPT !.phase = "page", !.m = m]
      <3>1. SetTask(d, t) /\ t.phase = "page" /\ t.seen = {}
        BY <1>1, <2>4 DEF RowStart, TaskStates
      <3> HIDE DEF t
      <3> QED BY <2>1, <3>1 DEF Draining
    <2> QED BY <1>10, <2>2, <2>3, <2>4
  <1> QED BY <1>5, <1>6, <1>7, <1>8, <1>9, <1>10
      DEF Driver1Step, Driver2Step, DriverFault

------------------------------------------------------------------------------
(* The evidence: pinned Acquires, their reservations and the absences read. *)

(* A pinned Acquire names its element, and a mutation that ran.             *)
LEMMA PinnedShape ==
  ASSUME TypeOK, IInv, NEW e \in outbox, e.op = "acquire"
  PROVE  e = Acquire(e.m, e.v) /\ e.m \in Inserts /\ e.v \in Values /\ e.m # None
  BY ConstantsAssumption
  DEF TypeOK, IInv, ShardShape, Effects, Acquire, Mutations

(* An Acquire is pinned for the reservation's own claim or not at all.      *)
LEMMA NoAcquire ==
  ASSUME TypeOK, IInv, EvidenceInv, NEW v \in Values,
         res[v].state = "Free" \/ Acquire(res[v].claim, v) \notin outbox
  PROVE  \A m : Acquire(m, v) \notin outbox
  <1> SUFFICES ASSUME NEW m, Acquire(m, v) \in outbox PROVE FALSE
    OBVIOUS
  <1>1. Acquire(m, v).op = "acquire" /\ Acquire(m, v).m = m /\ Acquire(m, v).v = v
    BY DEF Acquire
  <1>2. res[v].claim = m /\ m # None
    BY <1>1, PinnedShape DEF EvidenceInv, NoOrphanAcquire
  <1> QED BY <1>2 DEF EvidenceInv, FreeBlank

(* What may happen to a reservation while its Acquire is pinned: it keeps   *)
(* its claim, its generation only grows, and its ack marker stays.          *)
Steady(v) ==
  \/ res'[v] = res[v]
  \/ /\ res[v].state # "Free" /\ res'[v].state # "Free"
     /\ res'[v].claim = res[v].claim /\ res[v].gen <= res'[v].gen
     /\ res'[v].state = "Reclaiming" =>
          (res[v].state = "Reclaiming" /\ res'[v].gen = res[v].gen)
            \/ res[v].gen < res'[v].gen
     /\ res'[v].state = "Committed" /\ ~res'[v].ack =>
          Acquire(res[v].claim, v) \notin outbox
  \/ res'[v] = Free /\ \A m : Acquire(m, v) \notin outbox
  \/ res[v].state = "Free" /\ res'[v].state = "Reserved"

(* A step that pins no Acquire and is steady on every reservation keeps the *)
(* evidence, if the tickets it opens are good.                              *)
LEMMA EvidenceFrame ==
  ASSUME TypeOK, TypeOK', IInv, EvidenceInv,
         \A e \in outbox' : e \in outbox \/ e.op = "release",
         \A v \in Values : Steady(v),
         \A d \in Drivers :
           task'[d] = task[d] \/ (StillAbsent(task[d])' /\ PinnedGen(task[d])')
  PROVE  EvidenceInv'
  <1>1. \A m, v : Acquire(m, v) \in outbox' => Acquire(m, v) \in outbox
    BY DEF Acquire
  <1>2. ASSUME NEW m, NEW v, Acquire(m, v) \in outbox
        PROVE  /\ v \in Values /\ res[v].claim = m /\ res[v].state # "Free"
    <2>1. Acquire(m, v).op = "acquire" /\ Acquire(m, v).m = m /\ Acquire(m, v).v = v
      BY DEF Acquire
    <2>2. v \in Values /\ res[v].claim = m /\ m # None
      BY <1>2, <2>1, PinnedShape DEF EvidenceInv, NoOrphanAcquire
    <2> QED BY <2>2 DEF EvidenceInv, FreeBlank
  <1>3. ASSUME NEW m, NEW v, Acquire(m, v) \in outbox
        PROVE  /\ v \in Values /\ res'[v].claim = m /\ res[v].gen <= res'[v].gen
               /\ res'[v].state = "Reclaiming" =>
                    (res[v].state = "Reclaiming" /\ res'[v].gen = res[v].gen)
                      \/ res[v].gen < res'[v].gen
    <2>1. v \in Values /\ res[v].claim = m /\ res[v].state # "Free"
      BY <1>2, <1>3
    <2>2. res[v].gen \in Nat
      BY <2>1 DEF TypeOK, Reservations
    <2> QED BY <1>3, <2>1, <2>2 DEF Steady
  <1>4. FreeBlank'
    BY DEF EvidenceInv, FreeBlank, Steady, Free
  <1>5. AckCleared'
    <2> SUFFICES ASSUME NEW v \in Values, res'[v].state = "Committed", ~res'[v].ack
                 PROVE  Acquire(res'[v].claim, v) \notin outbox'
      BY DEF AckCleared
    <2> QED BY <1>1 DEF EvidenceInv, AckCleared, Steady, Free
  <1>6. NoOrphanAcquire'
    <2> SUFFICES ASSUME NEW e \in outbox', e.op = "acquire"
                 PROVE  res'[e.v].claim = e.m
      BY DEF NoOrphanAcquire
    <2>1. e = Acquire(e.m, e.v) /\ e \in outbox
      BY PinnedShape
    <2> QED BY <1>3, <2>1
  <1>7. ASSUME NEW d \in Drivers, task'[d] = task[d]
        PROVE  StillAbsent(task[d])' /\ PinnedGen(task[d])'
    <2> DEFINE t == task[d]
    <2>1. StillAbsent(t) /\ PinnedGen(t) /\ t.gen \in Nat
      BY DEF EvidenceInv, TypeOK, TaskStates
    <2>2. PinnedGen(t)'
      <3> SUFFICES ASSUME Reclaims(t), Acquire(t.m, t.v) \in outbox
                   PROVE  t.gen <= res'[t.v].gen
        BY <1>1, <1>7 DEF PinnedGen, Reclaims
      <3>1. t.v \in Values /\ t.gen <= res[t.v].gen /\ res[t.v].gen <= res'[t.v].gen
        BY <1>3, <2>1 DEF PinnedGen
      <3>2. res[t.v].gen \in Nat /\ res'[t.v].gen \in Nat
        BY <3>1 DEF TypeOK, Reservations
      <3> QED BY <2>1, <3>1, <3>2
    <2>3. StillAbsent(t)'
      <3> SUFFICES ASSUME t.phase = "verdict", t.verdict = "absent",
                          t.st = "Committed" \/ Fenced(t)',
                          Acquire(t.m, t.v) \in outbox
                   PROVE  FALSE
        BY <1>1, <1>7 DEF StillAbsent, Acquire
      <3>1. t.st # "Committed" /\ Reclaims(t)
        BY <2>1 DEF StillAbsent, Reclaims
      <3>2. /\ res'[t.v].state = "Reclaiming" /\ res'[t.v].gen = t.gen
            /\ ~Fenced(t) /\ res[t.v].claim = t.m
        BY <1>2, <1>7, <2>1, <3>1 DEF StillAbsent, Fenced
      <3>3. t.gen <= res[t.v].gen /\ res[t.v].gen < res'[t.v].gen /\ t.v \in Values
        BY <1>3, <2>1, <3>1, <3>2 DEF PinnedGen, Fenced
      <3>4. res[t.v].gen \in Nat
        BY <3>3 DEF TypeOK, Reservations
      <3> QED BY <2>1, <3>2, <3>3, <3>4
    <2> QED BY <2>2, <2>3
  <1> QED BY <1>4, <1>5, <1>6, <1>7 DEF EvidenceInv

(* The canonical write pins Acquires under reservations of their own claim, *)
(* and no absence in hand is about a request that could still write.        *)
LEMMA ShardInsertEvidence ==
  ASSUME TypeOK, IInv, EvidenceInv, NEW c \in Calls, ShardInsert(c)
  PROVE  EvidenceInv'
  <1> DEFINE m == KeyOf[c]
  <1>1. /\ UNCHANGED <<rec, res, task>>
        /\ c \in flight /\ m \in Inserts /\ m \notin applied
        /\ outbox' = outbox \cup {Acquire(m, v) : v \in Claims[m]}
    BY DEF ShardInsert
  <1>2. /\ rec[m] \notin Gone
        /\ \A v \in Claims[m] : res[v].state # "Free" /\ res[v].claim = m
    BY <1>1 DEF IInv, DispatchCovered
  <1>3. \A e \in outbox' : e \in outbox \/
          (e.op = "acquire" /\ e.m = m /\ e.v \in Claims[m])
    BY <1>1 DEF Acquire
  <1>4. ASSUME NEW x, NEW v, Acquire(x, v) \in outbox'
        PROVE  Acquire(x, v) \in outbox \/ (x = m /\ v \in Claims[m])
    <2>1. Acquire(x, v).m = x /\ Acquire(x, v).v = v
      BY DEF Acquire
    <2> QED BY <1>3, <1>4, <2>1
  <1>5. c \in Writing(m)
    BY <1>1 DEF Writing
  <1> HIDE DEF m
  <1>6. FreeBlank' /\ NoOrphanAcquire'
    BY <1>1, <1>2, <1>3 DEF EvidenceInv, FreeBlank, NoOrphanAcquire
  <1>7. AckCleared'
    BY <1>1, <1>4 DEF EvidenceInv, AckCleared, IInv, ClaimShape
  <1>8. ASSUME NEW d \in Drivers
        PROVE  StillAbsent(task[d])' /\ PinnedGen(task[d])'
    <2> DEFINE t == task[d]
    <2>1. StillAbsent(t) /\ PinnedGen(t) /\ Ticket(t)
      BY DEF EvidenceInv, IInv, Tickets
    <2>2. StillAbsent(t)'
      BY <1>1, <1>4, <1>5, <2>1
      DEF StillAbsent, Fenced, Ticket, TicketAbsent, TicketCommitted, Reclaims
    <2>3. PinnedGen(t)'
      BY <1>1, <1>2, <1>4, <2>1 DEF PinnedGen, Reclaims, Ticket, TicketGen, Matters
    <2> QED BY <2>2, <2>3
  <1> QED BY <1>6, <1>7, <1>8 DEF EvidenceInv

(* A Release frees only a value whose Acquire is acked.                     *)
LEMMA ReleaseSteady ==
  ASSUME TypeOK, IInv, EvidenceInv, NEW E, res' = AfterReleases(E)
  PROVE  \A v \in Values : Steady(v)
  <1> SUFFICES ASSUME NEW v \in Values PROVE Steady(v)
    OBVIOUS
  <1>1. CASE \E e \in E : e.v = v /\ ReleaseFrees(e)
    <2>1. res'[v] = Free /\ res[v].state = "Committed" /\ ~res[v].ack
      BY <1>1 DEF AfterReleases, ReleaseFrees
    <2>2. \A m : Acquire(m, v) \notin outbox
      BY <2>1, NoAcquire DEF EvidenceInv, AckCleared
    <2> QED BY <2>1, <2>2 DEF Steady
  <1>2. CASE ~ \E e \in E : e.v = v /\ ReleaseFrees(e)
    BY <1>2 DEF AfterReleases, Steady
  <1> QED BY <1>1, <1>2

(* Clearing an ack marker is steady once the Acquire is gone.               *)
LEMMA ClearSteady ==
  ASSUME TypeOK, NEW v \in Values, NEW m,
         res'[v] = ClearAck(res[v], m), Acquire(m, v) \notin outbox
  PROVE  Steady(v)
  <1>1. res[v] \in Reservations /\ res[v].gen \in Nat
    BY DEF TypeOK, Reservations
  <1>2. CASE res[v].claim = m /\ res[v].state = "Committed"
    BY <1>1, <1>2 DEF ClearAck, Steady, Reservations
  <1>3. CASE ~(res[v].claim = m /\ res[v].state = "Committed")
    BY <1>3 DEF ClearAck, Steady
  <1> QED BY <1>2, <1>3

(* So is a commit, which sets the marker.                                   *)
LEMMA CommitSteady ==
  ASSUME TypeOK, NEW v \in Values, NEW m,
         res'[v] = Committed(res[v], m), res[v].state # "Free"
  PROVE  Steady(v)
  BY DEF TypeOK, Reservations, Committed, Steady

(* Steps of a client call keep the evidence.                                *)
LEMMA CallEvidence ==
  ASSUME TypeOK, TypeOK', IInv, EvidenceInv, NEW c \in Calls, CallStep(c)
  PROVE  EvidenceInv'
  <1>1. UNCHANGED <<task, outbox>>
    BY DEF CallStep, ReserveKey, ReplayKey, ReplayEarly, AbandonRouting,
           EnvelopeRefused, TryRefused, DispatchInsert, DispatchDelete,
           CallCapture, CallAdvance, ReadEffects, Confirm, ReconcileReleases,
           ConfirmAcked, ConfirmAckFailed, shardVars
  <1>2. ASSUME NEW v \in Values, res' = res PROVE Steady(v)
    BY <1>2 DEF Steady
  <1>3. CASE DispatchInsert(c)
    BY <1>1, <1>3, EvidenceFrame DEF DispatchInsert, FreshClaims, Reserved, Free, Steady
  <1>4. CASE Confirm(c)
    <2> SUFFICES ASSUME NEW v \in Values PROVE Steady(v)
      BY <1>1, EvidenceFrame
    <2>1. CASE \E e \in call[c].seen : e.v = v /\ FreshCommit(e)
      <3>1. res'[v] = Committed(res[v], KeyOf[c]) /\ res[v].state # "Free"
        BY <1>4, <2>1 DEF Confirm, FreshCommit
      <3> QED BY <3>1, CommitSteady
    <2>2. CASE ~ \E e \in call[c].seen : e.v = v /\ FreshCommit(e)
      BY <1>4, <2>2 DEF Confirm, Steady
    <2> QED BY <2>1, <2>2
  <1>5. CASE ReconcileReleases(c)
    <2>1. \A v \in Values : Steady(v)
      BY <1>5, ReleaseSteady DEF ReconcileReleases
    <2> QED BY <1>1, <2>1, EvidenceFrame
  <1>6. CASE ConfirmAcked(c)
    <2> SUFFICES ASSUME NEW v \in Values PROVE Steady(v)
      BY <1>1, EvidenceFrame
    <2>1. CASE \E e \in call[c].seen : e.v = v
      <3> PICK e \in call[c].seen : e.v = v
        BY <2>1
      <3>1. res'[v] = ClearAck(res[v], KeyOf[c]) /\ e \notin outbox
        BY <1>6, <2>1 DEF ConfirmAcked
      <3>2. CASE KeyOf[c] \in Inserts
        <4>1. e = Acquire(KeyOf[c], v)
          BY <3>2 DEF TypeOK, CallStates, Effects, IInv, CallReads, Acquire
        <4> QED BY <3>1, <4>1, ClearSteady
      <3>3. CASE KeyOf[c] \notin Inserts
        <4>1. \A x \in outbox : x.op = "acquire" => x.m # KeyOf[c]
          BY <3>3, PinnedShape
        <4>2. Acquire(KeyOf[c], v) \notin outbox
          BY <4>1 DEF Acquire
        <4> QED BY <3>1, <4>2, ClearSteady
      <3> QED BY <3>2, <3>3
    <2>2. CASE ~ \E e \in call[c].seen : e.v = v
      BY <1>6, <2>2 DEF ConfirmAcked, Steady
    <2> QED BY <2>1, <2>2
  <1>7. CASE ~(DispatchInsert(c) \/ Confirm(c) \/ ReconcileReleases(c) \/ ConfirmAcked(c))
    <2>1. res' = res
      BY <1>7 DEF CallStep, ReserveKey, ReplayKey, ReplayEarly, AbandonRouting,
           EnvelopeRefused, TryRefused, DispatchDelete,
           CallCapture, CallAdvance, ReadEffects, ConfirmAckFailed
    <2> QED BY <1>1, <1>2, <2>1, EvidenceFrame
  <1> QED BY <1>3, <1>4, <1>5, <1>6, <1>7

(* A step of a pass that leaves it with no ticket in hand keeps the         *)
(* evidence, if it is steady.                                               *)
LEMMA PassEvidence ==
  ASSUME TypeOK, TypeOK', IInv, EvidenceInv, outbox' = outbox,
         \A v \in Values : Steady(v),
         NEW d \in Drivers, NEW t, SetTask(d, t), t.phase \notin {"proof", "verdict"}
  PROVE  EvidenceInv'
  <1>1. \A x \in Drivers : task'[x] = IF x = d THEN t ELSE task[x]
    BY DEF SetTask, TypeOK
  <1>2. \A x \in Drivers :
          task'[x] = task[x] \/ (StillAbsent(task[x])' /\ PinnedGen(task[x])')
    BY <1>1 DEF StillAbsent, PinnedGen, Reclaims
  <1> QED BY <1>2, EvidenceFrame

(* Opening a ticket: a new generation is ahead of every older ticket, and   *)
(* its own ticket carries just that generation.                             *)
LEMMA OpenEvidence ==
  ASSUME TypeOK, TypeOK', IInv, EvidenceInv, NEW d \in Drivers,
         BeginReclaim(d) \/ ResumeReclaim(d) \/ ProveCommitted(d)
  PROVE  EvidenceInv'
  <1> DEFINE o == task[d]
             v == o.v
  <1>1. outbox' = outbox /\ o.phase = "scanned" /\ o \in TaskStates
    BY DEF BeginReclaim, ResumeReclaim, ProveCommitted, shardVars, TypeOK
  <1>2. v \in Values
    BY <1>1 DEF IInv, Tickets, Ticket, TicketScanned
  <1>3. res[v] \in Reservations /\ res[v].gen \in Nat
    BY <1>2 DEF TypeOK, Reservations
  <1>4. ASSUME NEW m, NEW g, SendProof(d, m, g), \A x \in Values : Steady(x),
               o.st = "Committed" \/ (g \in Nat /\ res'[v].gen = g)
        PROVE  EvidenceInv'
    <2>1. \A x \in Drivers : x # d => task'[x] = task[x]
      BY <1>4 DEF SendProof, SetTask, TypeOK
    <2>2. /\ task'[d].phase = "proof" /\ task'[d].v = v /\ task'[d].gen = g
          /\ task'[d].st = o.st
      BY <1>1, <1>4 DEF SendProof, SetTask, TypeOK, TaskStates
    <2>3. StillAbsent(task[d])' /\ PinnedGen(task[d])'
      BY <1>4, <2>2 DEF StillAbsent, PinnedGen, Reclaims
    <2> QED BY <1>1, <1>4, <2>1, <2>3, EvidenceFrame
  <1>5. ASSUME res' = res PROVE \A x \in Values : Steady(x)
    BY <1>5 DEF Steady
  <1>6. CASE BeginReclaim(d)
    <2>1. /\ res[v].state = "Reserved" /\ SendProof(d, res[v].claim, res[v].gen + 1)
          /\ res' = [res EXCEPT ![v].state = "Reclaiming", ![v].gen = @ + 1]
      BY <1>6 DEF BeginReclaim
    <2>2. /\ \A x \in Values : x # v => res'[x] = res[x]
          /\ res'[v].state = "Reclaiming" /\ res'[v].claim = res[v].claim
          /\ res'[v].gen = res[v].gen + 1
      BY <1>2, <1>3, <2>1 DEF TypeOK, Reservations
    <2>3. \A x \in Values : Steady(x)
      <3> SUFFICES ASSUME NEW x \in Values PROVE Steady(x)
        OBVIOUS
      <3>1. CASE x = v
        <4>1. res[v].gen <= res[v].gen + 1 /\ res[v].gen < res[v].gen + 1
          BY <1>3
        <4> QED BY <2>1, <2>2, <3>1, <4>1 DEF Steady
      <3>2. CASE x # v
        BY <2>2, <3>2 DEF Steady
      <3> QED BY <3>1, <3>2
    <2> QED BY <1>3, <1>4, <2>1, <2>2, <2>3
  <1>7. CASE ResumeReclaim(d)
    BY <1>3, <1>4, <1>5, <1>7 DEF ResumeReclaim
  <1>8. CASE ProveCommitted(d)
    BY <1>4, <1>5, <1>8 DEF ProveCommitted
  <1> QED BY <1>6, <1>7, <1>8

(* The answer of a proof read is what the outbox holds at that moment.      *)
LEMMA AnswerEvidence ==
  ASSUME TypeOK, TypeOK', IInv, EvidenceInv, NEW d \in Drivers,
         ReadProof(d) \/ ProofFailed(d)
  PROVE  EvidenceInv'
  <1> DEFINE o == task[d]
  <1>1. /\ outbox' = outbox /\ res' = res /\ o.phase = "proof" /\ o \in TaskStates
    BY DEF ReadProof, ProofFailed, shardVars, TypeOK
  <1>2. PICK x : /\ SetTask(d, [o EXCEPT !.phase = "verdict", !.ahead = {}, !.verdict = x])
                 /\ \/ x = "inconclusive" \/ x = "present"
                    \/ x = "absent" /\ Acquire(o.m, o.v) \notin outbox
    BY DEF ReadProof, ProofFailed
  <1>3. /\ \A y \in Drivers : y # d => task'[y] = task[y]
        /\ task'[d].phase = "verdict" /\ task'[d].verdict = x
        /\ task'[d].m = o.m /\ task'[d].v = o.v
        /\ task'[d].gen = o.gen /\ task'[d].st = o.st
    BY <1>1, <1>2 DEF SetTask, TypeOK, TaskStates
  <1>4. StillAbsent(task[d])'
    BY <1>1, <1>2, <1>3 DEF StillAbsent
  <1>5. PinnedGen(o)
    BY DEF EvidenceInv
  <1>6. PinnedGen(task[d])'
    BY <1>1, <1>3, <1>5 DEF PinnedGen, Reclaims
  <1> QED BY <1>1, <1>3, <1>4, <1>6, EvidenceFrame DEF Steady

(* Driver 1 keeps the evidence: it frees a value only on an absence that    *)
(* still holds, and clears a marker only when the Acquire is gone.          *)
LEMMA Driver1Evidence ==
  ASSUME TypeOK, TypeOK', IInv, EvidenceInv, NEW d \in Drivers, Driver1Step(d)
  PROVE  EvidenceInv'
  <1> DEFINE o == task[d]
  <1>1. o \in TaskStates /\ Ticket(o) /\ StillAbsent(o)
    BY DEF TypeOK, IInv, Tickets, EvidenceInv
  <1>2. Idle.phase = "idle"
    BY DEF Idle
  <1>3. ASSUME res' = res PROVE \A x \in Values : Steady(x)
    BY <1>3 DEF Steady
  <1>4. CASE ReclaimAborted(d) \/ ReclaimDiscarded(d) \/ CommittedHold(d) \/ DriverAckFailed(d)
    <2>1. SetTask(d, Idle) /\ res' = res /\ outbox' = outbox
      BY <1>4 DEF ReclaimAborted, ReclaimDiscarded, CommittedHold, DriverAckFailed,
                  shardVars
    <2> QED BY <1>2, <1>3, <2>1, PassEvidence
  <1>5. CASE ReAck(d)
    <2> DEFINE t == [o EXCEPT !.phase = "ack", !.verdict = "none", !.gen = 0]
    <2>1. SetTask(d, t) /\ res' = res /\ outbox' = outbox /\ t.phase = "ack"
      BY <1>1, <1>5 DEF ReAck, SendAck, shardVars, TaskStates
    <2> HIDE DEF t
    <2> QED BY <1>3, <2>1, PassEvidence
  <1>6. CASE ReclaimCommit(d)
    <2> DEFINE t == [o EXCEPT !.phase = "ack", !.verdict = "none", !.gen = 0]
    <2>1. /\ SetTask(d, t) /\ res' = [res EXCEPT ![o.v] = Committed(@, o.m)]
          /\ outbox' = outbox /\ t.phase = "ack" /\ Fenced(o) /\ Reclaims(o)
      BY <1>1, <1>6 DEF ReclaimCommit, Reclaiming, SendAck, shardVars, TaskStates, Reclaims
    <2>2. o.v \in Values /\ res[o.v].state # "Free"
      BY <1>1, <2>1 DEF Ticket, TicketOwn, Fenced
    <2>3. \A x \in Values : res'[x] = IF x = o.v THEN Committed(res[x], o.m) ELSE res[x]
      BY <2>1 DEF TypeOK
    <2>4. ASSUME NEW x \in Values PROVE Steady(x)
      <3>1. CASE x = o.v
        BY <2>2, <2>3, <3>1, CommitSteady
      <3> QED BY <2>3, <3>1 DEF Steady
    <2> HIDE DEF t
    <2> QED BY <2>1, <2>4, PassEvidence
  <1>7. CASE ReclaimCancel(d)
    <2>1. /\ SetTask(d, Idle) /\ res' = [res EXCEPT ![o.v] = Free]
          /\ outbox' = outbox /\ o.phase = "verdict" /\ o.verdict = "absent"
          /\ Fenced(o) /\ Reclaims(o)
      BY <1>7 DEF ReclaimCancel, Reclaiming, CanCancel, shardVars, Reclaims
    <2>2. o.v \in Values /\ Acquire(res[o.v].claim, o.v) \notin outbox
      BY <1>1, <2>1 DEF Ticket, TicketOwn, Fenced, StillAbsent
    <2>3. \A m : Acquire(m, o.v) \notin outbox
      BY <2>2, NoAcquire
    <2>4. \A x \in Values : Steady(x)
      BY <2>1, <2>3 DEF TypeOK, Steady
    <2> QED BY <1>2, <2>1, <2>4, PassEvidence
  <1>8. CASE ReclaimHold(d)
    <2>1. /\ SetTask(d, Idle) /\ outbox' = outbox /\ Reclaims(o)
          /\ res' = IF Fenced(o) THEN [res EXCEPT ![o.v].state = "Reserved"] ELSE res
      BY <1>8 DEF ReclaimHold, Reclaiming, shardVars, Reclaims
    <2>2. o.v \in Values /\ res[o.v] \in Reservations /\ res[o.v].gen \in Nat
      BY <1>1, <2>1 DEF Ticket, TicketOwn, TypeOK, Reservations
    <2>3. CASE Fenced(o)
      <3>1. /\ \A x \in Values : x # o.v => res'[x] = res[x]
            /\ res'[o.v].state = "Reserved" /\ res'[o.v].claim = res[o.v].claim
            /\ res'[o.v].gen = res[o.v].gen
        BY <2>1, <2>2, <2>3 DEF TypeOK, Reservations
      <3>2. \A x \in Values : Steady(x)
        BY <2>2, <2>3, <3>1 DEF Steady, Fenced
      <3> QED BY <1>2, <2>1, <3>2, PassEvidence
    <2> QED BY <1>2, <1>3, <2>1, <2>3, PassEvidence
  <1>9. CASE AckReplyLost(d) \/ DriverAcked(d)
    <2>1. /\ SetTask(d, Idle) /\ outbox' = outbox
          /\ res' = [res EXCEPT ![o.v] = ClearAck(@, o.m)]
          /\ Acquire(o.m, o.v) \notin outbox
      BY <1>1, <1>9
      DEF AckReplyLost, CommittedProof, DriverAcked, shardVars, netVars, StillAbsent
    <2>2. \A x \in Values : res'[x] = IF x = o.v THEN ClearAck(res[x], o.m) ELSE res[x]
      BY <2>1 DEF TypeOK
    <2>3. ASSUME NEW x \in Values PROVE Steady(x)
      <3>1. CASE x = o.v
        BY <2>1, <2>2, <3>1, ClearSteady
      <3> QED BY <2>2, <3>1 DEF Steady
    <2> QED BY <1>2, <2>1, <2>3, PassEvidence
  <1> QED BY <1>4, <1>5, <1>6, <1>7, <1>8, <1>9, OpenEvidence, AnswerEvidence
      DEF Driver1Step

(* Driver 2, a lost pass and the scans keep the evidence.                   *)
LEMMA Driver2Evidence ==
  ASSUME TypeOK, TypeOK', IInv, EvidenceInv, NEW d \in Drivers,
         \/ Driver2Step(d) \/ DriverFault(d)
         \/ \E v \in Values : Scan(d, v)
         \/ \E m \in Mutations : RowStart(d, m)
  PROVE  EvidenceInv'
  <1> DEFINE o == task[d]
  <1>1. o \in TaskStates /\ Idle \in TaskStates /\ Idle.phase = "idle"
    BY IdleType DEF TypeOK, Idle
  <1>2. ASSUME res' = res PROVE \A x \in Values : Steady(x)
    BY <1>2 DEF Steady
  <1>3. CASE ProofFailed(d)
    BY <1>3, AnswerEvidence
  <1>4. CASE ProcessPage(d)
    <2>1. /\ \E E : res' = AfterReleases(E)
          /\ outbox' = outbox
          /\ \E b : SetTask(d, [o EXCEPT !.phase = "rescan", !.seen = {}, !.orphan = b])
      BY <1>4 DEF ProcessPage, shardVars
    <2>2. \A x \in Values : Steady(x)
      BY <2>1, ReleaseSteady
    <2>3. PICK b : SetTask(d, [o EXCEPT !.phase = "rescan", !.seen = {}, !.orphan = b])
      BY <2>1
    <2>4. [o EXCEPT !.phase = "rescan", !.seen = {}, !.orphan = b].phase = "rescan"
      BY <1>1 DEF TaskStates
    <2> QED BY <2>1, <2>2, <2>3, <2>4, PassEvidence
  <1>5. CASE \/ ReadPage(d) \/ Rescan(d) \/ RowEnd(d) \/ RowFailed(d) \/ PassLost(d)
             \/ \E v \in Values : Scan(d, v)
             \/ \E m \in Mutations : RowStart(d, m)
    <2>1. res' = res /\ outbox' = outbox
      BY <1>5 DEF ReadPage, Rescan, RowEnd, RowFailed, PassLost, Scan, RowStart, shardVars
    <2>2. ASSUME NEW t, SetTask(d, t), t.phase \notin {"proof", "verdict"}
          PROVE  EvidenceInv'
      BY <1>2, <2>1, <2>2, PassEvidence
    <2>3. CASE ReadPage(d) \/ Rescan(d)
      <3> DEFINE page == {e \in outbox : e.m = o.m}
      <3>1. \/ SetTask(d, [o EXCEPT !.phase = "rescan"])
            \/ SetTask(d, [o EXCEPT !.phase = "paged", !.seen = page])
            \/ SetTask(d, [o EXCEPT !.phase = "rescanned", !.seen = page])
        BY <2>3 DEF ReadPage, Rescan
      <3>2. /\ [o EXCEPT !.phase = "rescan"].phase = "rescan"
            /\ [o EXCEPT !.phase = "paged", !.seen = page].phase = "paged"
            /\ [o EXCEPT !.phase = "rescanned", !.seen = page].phase = "rescanned"
        BY <1>1 DEF TaskStates
      <3> QED BY <2>2, <3>1, <3>2
    <2>4. CASE RowEnd(d) \/ RowFailed(d) \/ PassLost(d)
      BY <1>1, <2>2, <2>4 DEF RowEnd, RowFailed, PassLost
    <2>5. ASSUME NEW v \in Values, Scan(d, v) PROVE EvidenceInv'
      <3> DEFINE t == [Idle EXCEPT !.phase = "scanned", !.v = v,
                                   !.m = res[v].claim, !.st = res[v].state]
      <3>1. SetTask(d, t) /\ t.phase = "scanned"
        BY <1>1, <2>5 DEF Scan, TaskStates
      <3> QED BY <2>2, <3>1
    <2>6. ASSUME NEW m \in Mutations, RowStart(d, m) PROVE EvidenceInv'
      <3> DEFINE t == [Idle EXCEPT !.phase = "page", !.m = m]
      <3>1. SetTask(d, t) /\ t.phase = "page"
        BY <1>1, <2>6 DEF RowStart, TaskStates
      <3> QED BY <2>2, <3>1
    <2> QED BY <1>5, <2>3, <2>4, <2>5, <2>6
  <1> QED BY <1>3, <1>4, <1>5 DEF Driver2Step, DriverFault

(* Every step keeps the evidence.                                           *)
LEMMA EvidenceNext ==
  ASSUME TypeOK, TypeOK', IInv, EvidenceInv, [Next]_vars
  PROVE  EvidenceInv'
  <1>1. ASSUME res' = res, task' = task,
               \A e \in outbox' : e \in outbox \/ e.op = "release"
        PROVE  EvidenceInv'
    BY <1>1, EvidenceFrame DEF Steady
  <1>2. ASSUME NEW c \in Calls, ShardStep(c) PROVE EvidenceInv'
    <2>1. CASE ShardDelete(c)
      <3>1. res' = res /\ task' = task
        BY <2>1 DEF ShardDelete
      <3>2. \A e \in outbox' : e \in outbox \/ e.op = "release"
        BY <2>1 DEF ShardDelete, Release
      <3> QED BY <1>1, <3>1, <3>2
    <2>2. CASE ShardReplay(c) \/ DispatchLost(c)
      BY <1>1, <2>2 DEF ShardReplay, DispatchLost, shardVars
    <2> QED BY <1>2, <2>1, <2>2, ShardInsertEvidence DEF ShardStep
  <1>3. ASSUME NEW e \in acks, AckEffect(e) \/ AckLost(e) PROVE EvidenceInv'
    BY <1>1, <1>3 DEF AckEffect, AckLost, shardVars
  <1>4. ASSUME NEW m \in Mutations, RecordStep(m) PROVE EvidenceInv'
    BY <1>1, <1>4 DEF RecordStep, RecoverCapture, RecoverAdvance, EvictRecord, shardVars
  <1>5. CASE UNCHANGED vars
    BY <1>1, <1>5 DEF vars
  <1> QED BY <1>2, <1>3, <1>4, <1>5, CallEvidence, Driver1Evidence, Driver2Evidence
      DEF Next

------------------------------------------------------------------------------
(* The discovery rows.                                                      *)

(* A request that can still write belongs to a mutation that is not quiet.  *)
LEMMA WriterShape ==
  ASSUME TypeOK, IInv, NEW c \in flight, KeyOf[c] \notin applied
  PROVE  KeyOf[c] \in Mutations /\ ~Quiet(KeyOf[c])
  BY ConstantsAssumption DEF TypeOK, IInv, DispatchCovered, Quiet

(* A step that drains no discovery row keeps the rows: new effects come     *)
(* from requests that have a row, and new requests bring theirs.            *)
LEMMA RowFrame ==
  ASSUME TypeOK, IInv, RowsInv,
         \A e \in outbox' \ outbox : \E c \in flight : KeyOf[c] = e.m /\ e.m \notin applied,
         \A e \in outbox' : e.m \in Mutations,
         applied \subseteq applied',
         \A m \in Mutations : rec[m] \in Gone => rec'[m] \in Gone,
         \A m \in Mutations : pend[m] # "none" => pend'[m] # "none",
         \A c \in flight' : KeyOf[c] \in Mutations /\ (c \in flight \/ pend'[KeyOf[c]] # "none"),
         \A d \in Drivers : task'[d] = task[d] \/ task'[d].phase \notin Draining
  PROVE  RowsInv'
  <1>1. DispatchRow'
    BY DEF RowsInv, DispatchRow
  <1>2. EffectsDiscoverable'
    <2> SUFFICES ASSUME NEW e \in outbox' PROVE pend'[e.m] # "none"
      BY DEF EffectsDiscoverable
    <2>1. pend[e.m] # "none"
      BY DEF RowsInv, EffectsDiscoverable, DispatchRow
    <2> QED BY <2>1
  <1>3. ASSUME NEW d \in Drivers PROVE RowQuiet(task[d])' /\ RowEmpty(task[d])'
    <2>1. CASE task'[d].phase \notin Draining
      BY <2>1 DEF RowQuiet, RowEmpty, Draining
    <2>2. CASE task'[d] = task[d]
      <3>1. RowQuiet(task[d]) /\ RowEmpty(task[d])
        BY DEF RowsInv
      <3>2. RowQuiet(task[d])'
        BY <2>2, <3>1 DEF RowQuiet, Quiet
      <3>3. RowEmpty(task[d])'
        <4> SUFFICES ASSUME task[d].phase = "rescanned", task[d].seen = {},
                            NEW e \in outbox', e.m = task[d].m
                     PROVE  FALSE
          BY <2>2 DEF RowEmpty
        <4>1. e \notin outbox
          BY <3>1 DEF RowEmpty
        <4>2. Quiet(e.m)
          BY <3>1 DEF RowQuiet, Draining
        <4> QED BY <4>1, <4>2, WriterShape
      <3> QED BY <3>2, <3>3
    <2> QED BY <2>1, <2>2
  <1> QED BY <1>1, <1>2, <1>3 DEF RowsInv

(* Neither does a pass that only changes what it holds in hand, if it holds *)
(* a row that may be drained.                                               *)
LEMMA RowTask ==
  ASSUME TypeOK, RowsInv, UNCHANGED <<rec, pend, applied, outbox, flight>>,
         NEW d \in Drivers, NEW t, SetTask(d, t), RowQuiet(t), RowEmpty(t)
  PROVE  RowsInv'
  <1>1. \A x \in Drivers : task'[x] = IF x = d THEN t ELSE task[x]
    BY DEF SetTask, TypeOK
  <1>2. DispatchRow' /\ EffectsDiscoverable'
    BY DEF RowsInv, DispatchRow, EffectsDiscoverable
  <1>3. \A x \in Drivers : RowQuiet(task[x])' /\ RowEmpty(task[x])'
    BY <1>1 DEF RowsInv, RowQuiet, RowEmpty, Quiet
  <1> QED BY <1>2, <1>3 DEF RowsInv

(* A client call never takes a row away, and registers one before it sends. *)
LEMMA CallRows ==
  ASSUME TypeOK, TypeOK', IInv, RowsInv, NEW c \in Calls, CallStep(c)
  PROVE  RowsInv'
  <1> USE ConstantsAssumption DEF TypeOK
  <1>1. UNCHANGED <<task, outbox, applied>>
    BY DEF CallStep, ReserveKey, ReplayKey, ReplayEarly, AbandonRouting,
           EnvelopeRefused, TryRefused, DispatchInsert, DispatchDelete,
           CallCapture, CallAdvance, ReadEffects, Confirm, ReconcileReleases,
           ConfirmAcked, ConfirmAckFailed, shardVars
  <1>2. \A m \in Mutations : rec[m] \in Gone => rec'[m] \in Gone
    BY DEF CallStep, ReserveKey, ReplayKey, ReplayEarly, AbandonRouting,
           EnvelopeRefused, TryRefused, DispatchInsert, DispatchDelete,
           CallCapture, CallAdvance, ReadEffects, Confirm, ReconcileReleases,
           ConfirmAcked, ConfirmAckFailed, PersistEnvelope, Captured, Completed,
           Gone, Dispatchable
  <1>3. CASE DispatchInsert(c) \/ DispatchDelete(c)
    <2>1. pend' = [pend EXCEPT ![KeyOf[c]] = IF @ = "none" THEN "active" ELSE @]
      BY <1>3 DEF DispatchInsert, DispatchDelete, RegisterPending
    <2>2. flight' \subseteq flight \cup {c}
      BY <1>3 DEF DispatchInsert, DispatchDelete, DispatchGate
    <2>3. KeyOf[c] \in Mutations /\ pend'[KeyOf[c]] # "none"
      BY <2>1
    <2>4. \A m \in Mutations : pend[m] # "none" => pend'[m] # "none"
      BY <2>1
    <2>5. \A e \in outbox : e.m \in Mutations
      BY DEF Effects
    <2> QED BY <1>1, <1>2, <2>2, <2>3, <2>4, <2>5, RowFrame
  <1>4. CASE ~(DispatchInsert(c) \/ DispatchDelete(c))
    <2>1. UNCHANGED <<pend, flight>>
      BY <1>4 DEF CallStep, ReserveKey, ReplayKey, ReplayEarly, AbandonRouting,
           EnvelopeRefused, TryRefused, CallCapture, CallAdvance, ReadEffects,
           Confirm, ReconcileReleases, ConfirmAcked, ConfirmAckFailed, netVars
    <2>2. \A e \in outbox : e.m \in Mutations
      BY DEF Effects
    <2> QED BY <1>1, <1>2, <2>1, <2>2, RowFrame
  <1> QED BY <1>3, <1>4

(* A shard pins effects only for requests that had their row.               *)
LEMMA ShardRows ==
  ASSUME TypeOK, TypeOK', IInv, RowsInv, NEW c \in Calls, ShardStep(c)
  PROVE  RowsInv'
  <1>1. UNCHANGED <<rec, pend, task>> /\ flight' \subseteq flight /\ applied \subseteq applied'
    BY DEF ShardStep, ShardInsert, ShardDelete, ShardReplay, DispatchLost, shardVars
  <1>2. \A e \in outbox' \ outbox : c \in flight /\ KeyOf[c] = e.m /\ e.m \notin applied
    BY DEF ShardStep, ShardInsert, ShardDelete, ShardReplay, DispatchLost, shardVars,
           Acquire, Release
  <1>3. /\ \A e \in outbox' : e.m \in Mutations
        /\ \A x \in flight' : KeyOf[x] \in Mutations
    BY ConstantsAssumption DEF TypeOK, Effects
  <1> QED BY <1>1, <1>2, <1>3, RowFrame

(* The drain of a row: it starts on a mutation that can pin nothing more,   *)
(* and removes the row only after an empty second read.                     *)
LEMMA DrainRows ==
  ASSUME TypeOK, IInv, RowsInv, NEW d \in Drivers,
         Driver2Step(d) \/ \E m \in Mutations : RowStart(d, m)
  PROVE  RowsInv'
  <1> DEFINE o == task[d]
             page == {e \in outbox : e.m = o.m}
  <1>1. o \in TaskStates /\ Idle \in TaskStates /\ Idle.phase = "idle"
    BY IdleType DEF TypeOK, Idle
  <1>2. RowQuiet(o) /\ RowEmpty(o)
    BY DEF RowsInv
  <1>3. ASSUME NEW m \in Mutations, RowStart(d, m) PROVE RowsInv'
    <2> DEFINE t == [Idle EXCEPT !.phase = "page", !.m = m]
    <2>1. /\ UNCHANGED <<rec, pend, applied, outbox, flight>>
          /\ SetTask(d, t) /\ rec[m] \in Terminal
      BY <1>3 DEF RowStart, Drainable, shardVars, netVars
    <2>2. t.phase = "page" /\ t.m = m
      BY <1>1 DEF TaskStates
    <2>3. Quiet(m)
      BY <2>1 DEF Terminal, Quiet, Gone, IInv, CapturedRan
    <2> HIDE DEF t
    <2>4. RowQuiet(t) /\ RowEmpty(t)
      BY <2>2, <2>3 DEF RowQuiet, RowEmpty
    <2> QED BY <2>1, <2>4, RowTask
  <1>4. CASE ReadPage(d)
    <2>1. /\ UNCHANGED <<rec, pend, applied, outbox, flight>> /\ o.phase = "page"
          /\ \/ SetTask(d, [o EXCEPT !.phase = "rescan"])
             \/ SetTask(d, [o EXCEPT !.phase = "paged", !.seen = page])
      BY <1>4 DEF ReadPage, shardVars, netVars
    <2>2. /\ [o EXCEPT !.phase = "rescan"].phase = "rescan"
          /\ [o EXCEPT !.phase = "rescan"].m = o.m
          /\ [o EXCEPT !.phase = "paged", !.seen = page].phase = "paged"
          /\ [o EXCEPT !.phase = "paged", !.seen = page].m = o.m
      BY <1>1 DEF TaskStates
    <2>3. ASSUME NEW t, SetTask(d, t), t.m = o.m, t.phase \in {"rescan", "paged"}
          PROVE  RowsInv'
      BY <1>2, <2>1, <2>3, RowTask DEF RowQuiet, RowEmpty, Draining
    <2> QED BY <2>1, <2>2, <2>3
  <1>5. CASE ProcessPage(d)
    <2>1. /\ UNCHANGED <<rec, pend, applied, outbox, flight>> /\ o.phase = "paged"
          /\ \E b : SetTask(d, [o EXCEPT !.phase = "rescan", !.seen = {}, !.orphan = b])
      BY <1>5 DEF ProcessPage, shardVars, netVars
    <2>2. PICK b : SetTask(d, [o EXCEPT !.phase = "rescan", !.seen = {}, !.orphan = b])
      BY <2>1
    <2> DEFINE t == [o EXCEPT !.phase = "rescan", !.seen = {}, !.orphan = b]
    <2>3. SetTask(d, t) /\ t.phase = "rescan" /\ t.m = o.m
      BY <1>1, <2>2 DEF TaskStates
    <2> HIDE DEF t
    <2>4. RowQuiet(t) /\ RowEmpty(t)
      BY <1>2, <2>1, <2>3 DEF RowQuiet, RowEmpty, Draining
    <2> QED BY <2>1, <2>3, <2>4, RowTask
  <1>6. CASE Rescan(d)
    <2> DEFINE t == [o EXCEPT !.phase = "rescanned", !.seen = page]
    <2>1. /\ UNCHANGED <<rec, pend, applied, outbox, flight>> /\ o.phase = "rescan"
          /\ SetTask(d, t)
      BY <1>6 DEF Rescan, shardVars, netVars
    <2>2. t.phase = "rescanned" /\ t.m = o.m /\ t.seen = page
      BY <1>1 DEF TaskStates
    <2> HIDE DEF t
    <2>3. RowQuiet(t) /\ RowEmpty(t)
      BY <1>2, <2>1, <2>2 DEF RowQuiet, RowEmpty, Draining
    <2> QED BY <2>1, <2>3, RowTask
  <1>7. CASE RowEnd(d)
    <2>1. /\ UNCHANGED <<rec, applied, outbox, flight>> /\ o.phase = "rescanned"
          /\ pend' = [pend EXCEPT ![o.m] = RowOutcome(o, @)] /\ SetTask(d, Idle)
      BY <1>7 DEF RowEnd, shardVars, netVars
    <2>2. o.m \in Mutations /\ Quiet(o.m)
      BY <1>2, <2>1 DEF RowQuiet, Draining
    <2>3. \A m \in Mutations : pend[m] # "none" /\ pend'[m] = "none" => m = o.m /\ o.seen = {}
      BY <2>1 DEF TypeOK, RowOutcome
    <2>4. DispatchRow'
      <3> SUFFICES ASSUME NEW c \in flight, KeyOf[c] \notin applied
                   PROVE  pend'[KeyOf[c]] # "none"
        BY <2>1 DEF DispatchRow
      <3>1. KeyOf[c] \in Mutations /\ KeyOf[c] # o.m
        BY <2>2, WriterShape
      <3> QED BY <2>3, <3>1 DEF RowsInv, DispatchRow
    <2>5. EffectsDiscoverable'
      <3> SUFFICES ASSUME NEW e \in outbox PROVE pend'[e.m] # "none"
        BY <2>1 DEF EffectsDiscoverable
      <3>1. e.m \in Mutations /\ pend[e.m] # "none"
        BY DEF TypeOK, Effects, RowsInv, EffectsDiscoverable
      <3> QED BY <1>2, <2>1, <2>3, <3>1 DEF RowEmpty
    <2>6. ASSUME NEW x \in Drivers PROVE RowQuiet(task[x])' /\ RowEmpty(task[x])'
      <3>1. task'[x] = IF x = d THEN Idle ELSE task[x]
        BY <2>1 DEF SetTask, TypeOK
      <3> QED BY <1>1, <2>1, <3>1 DEF RowsInv, RowQuiet, RowEmpty, Quiet, Draining
    <2> QED BY <2>4, <2>5, <2>6 DEF RowsInv
  <1> QED BY <1>3, <1>4, <1>5, <1>6, <1>7 DEF Driver2Step

(* Driver 1, a lost pass and the scan drain no row.                         *)
LEMMA Driver1Rows ==
  ASSUME TypeOK, IInv, RowsInv, NEW d \in Drivers,
         Driver1Step(d) \/ DriverFault(d) \/ \E v \in Values : Scan(d, v)
  PROVE  RowsInv'
  <1>1. CASE Driver2Step(d) \/ \E m \in Mutations : RowStart(d, m)
    BY <1>1, DrainRows
  <1> SUFFICES ASSUME ~(Driver2Step(d) \/ \E m \in Mutations : RowStart(d, m))
               PROVE  RowsInv'
    BY <1>1
  <1>2. UNCHANGED <<pend, applied, outbox, flight>>
    BY DEF Driver1Step, BeginReclaim, ResumeReclaim, ProveCommitted, ReclaimAborted,
           ReadProof, ReclaimCommit, ReclaimDiscarded, ReclaimCancel, ReclaimHold,
           ReAck, AckReplyLost, CommittedHold, DriverAcked, DriverAckFailed,
           DriverFault, ProofFailed, RowFailed, PassLost, Scan, shardVars, netVars
  <1>3. \A m \in Mutations : rec[m] \in Gone => rec'[m] \in Gone
    BY DEF Driver1Step, BeginReclaim, ResumeReclaim, ProveCommitted, ReclaimAborted,
           ReadProof, ReclaimCommit, ReclaimDiscarded, ReclaimCancel, ReclaimHold,
           ReAck, AckReplyLost, CommittedHold, DriverAcked, DriverAckFailed,
           DriverFault, ProofFailed, RowFailed, PassLost, Scan, TypeOK, Gone
  <1>4. /\ \A x \in Drivers : x # d => task'[x] = task[x]
        /\ task'[d].phase \notin Draining
    BY HandMoves
  <1>5. /\ \A e \in outbox : e.m \in Mutations
        /\ \A x \in flight : KeyOf[x] \in Mutations
    BY ConstantsAssumption DEF TypeOK, Effects
  <1>6. \A x \in Drivers : task'[x] = task[x] \/ task'[x].phase \notin Draining
    BY <1>4
  <1> QED BY <1>2, <1>3, <1>5, <1>6, RowFrame

(* Every step keeps the rows.                                               *)
LEMMA RowsNext ==
  ASSUME TypeOK, TypeOK', IInv, RowsInv, [Next]_vars
  PROVE  RowsInv'
  <1>0. /\ \A e \in outbox' \cup outbox : e.m \in Mutations
        /\ \A x \in flight : KeyOf[x] \in Mutations
    BY ConstantsAssumption DEF TypeOK, Effects
  <1>1. ASSUME outbox' \subseteq outbox, UNCHANGED <<applied, pend, flight, task>>,
               \A m \in Mutations : rec[m] \in Gone => rec'[m] \in Gone
        PROVE  RowsInv'
    BY <1>0, <1>1, RowFrame
  <1>2. ASSUME NEW e \in acks, AckEffect(e) \/ AckLost(e) PROVE RowsInv'
    BY <1>1, <1>2 DEF AckEffect, AckLost, shardVars
  <1>3. ASSUME NEW m \in Mutations, RecordStep(m) PROVE RowsInv'
    BY <1>1, <1>3
    DEF RecordStep, RecoverCapture, RecoverAdvance, EvictRecord, Captured,
        Completed, Evictable, Gone, TypeOK, shardVars, netVars
  <1>4. CASE UNCHANGED vars
    BY <1>1, <1>4 DEF vars
  <1> QED BY <1>2, <1>3, <1>4, CallRows, ShardRows, DrainRows, Driver1Rows DEF Next

------------------------------------------------------------------------------
(* The slots and the records they pin.                                      *)

(* The undecided reservations of a mutation, which its slots count.         *)
UndecidedOf(m) == {v \in Values : Undecided(m, v)}

(* No reservation becomes undecided, is decided or changes its claim.       *)
SameUndecided ==
  \A v \in Values : /\ NonTerminal(res'[v]) <=> NonTerminal(res[v])
                    /\ NonTerminal(res[v]) => res'[v].claim = res[v].claim

(* The slots are exact when they count the undecided reservations.          *)
LEMMA SlotsCount ==
  SlotsExact <=> \A m \in Mutations : slots[m] = Cardinality(UndecidedOf(m))
  BY DEF SlotsExact, UndecidedOf, Undecided

(* A step that decides nothing and reserves nothing keeps the slots.        *)
LEMMA SlotsFrame ==
  ASSUME SlotsExact, slots' = slots, SameUndecided
  PROVE  SlotsExact'
  <1>1. \A m : UndecidedOf(m)' = UndecidedOf(m)
    BY DEF UndecidedOf, Undecided, SameUndecided
  <1> QED BY <1>1, SlotsCount DEF SlotsExact, UndecidedOf, Undecided

(* Slots applied for the values a Try reserves.                             *)
LEMMA SlotsApplied ==
  ASSUME TypeOK, SlotsExact, NEW m \in Mutations, NEW S \in SUBSET Values,
         ApplySlots(m, Cardinality(S)), S \cap UndecidedOf(m) = {},
         UndecidedOf(m)' = UndecidedOf(m) \cup S,
         \A x \in Mutations \ {m} : UndecidedOf(x)' = UndecidedOf(x)
  PROVE  SlotsExact'
  <1>1. UndecidedOf(m) \in SUBSET Values
    BY DEF UndecidedOf
  <1>2. IsFiniteSet(S) /\ IsFiniteSet(UndecidedOf(m))
    BY <1>1, FS_Subset, ConstantsAssumption
  <1>3. Cardinality(UndecidedOf(m) \cup S) =
          Cardinality(UndecidedOf(m)) + Cardinality(S) - Cardinality(UndecidedOf(m) \cap S)
    BY <1>2, FS_Union
  <1>4. Cardinality(UndecidedOf(m) \cap S) = 0
    <2>1. UndecidedOf(m) \cap S = {}
      OBVIOUS
    <2> QED BY <2>1, FS_EmptySet
  <1>5. Cardinality(S) \in Nat /\ Cardinality(UndecidedOf(m)) \in Nat
    BY <1>1, ValueCount
  <1>6. \A x \in Mutations : slots[x] = Cardinality(UndecidedOf(x))
    BY SlotsCount
  <1>7. \A x \in Mutations : slots'[x] = IF x = m THEN slots[x] + Cardinality(S) ELSE slots[x]
    BY DEF ApplySlots, TypeOK
  <1>8. Cardinality(UndecidedOf(m) \cup S) = slots'[m]
    BY <1>3, <1>4, <1>5, <1>6, <1>7
  <1>9. ASSUME NEW x \in Mutations PROVE slots'[x] = Cardinality(UndecidedOf(x)')
    <2>1. CASE x = m
      BY <1>8, <2>1
    <2>2. CASE x # m
      BY <1>6, <1>7, <2>2
    <2> QED BY <2>1, <2>2
  <1> QED BY <1>9, SlotsCount DEF SlotsExact, UndecidedOf, Undecided

(* Slots released for the reservations a step decides.                      *)
LEMMA SlotsReleased ==
  ASSUME TypeOK, SlotsExact, NEW m \in Mutations, NEW S \in SUBSET UndecidedOf(m),
         ReleaseSlots(m, Cardinality(S)), UndecidedOf(m)' = UndecidedOf(m) \ S,
         \A x \in Mutations \ {m} : UndecidedOf(x)' = UndecidedOf(x)
  PROVE  SlotsExact'
  <1>1. UndecidedOf(m) \in SUBSET Values /\ S \in SUBSET Values
    BY DEF UndecidedOf
  <1>2. IsFiniteSet(UndecidedOf(m))
    BY <1>1, FS_Subset, ConstantsAssumption
  <1>3. Cardinality(UndecidedOf(m) \ S) =
          Cardinality(UndecidedOf(m)) - Cardinality(UndecidedOf(m) \cap S)
    BY <1>2, FS_Difference
  <1>4. UndecidedOf(m) \cap S = S
    OBVIOUS
  <1>5. Cardinality(S) \in Nat /\ Cardinality(UndecidedOf(m)) \in Nat
    BY <1>1, ValueCount
  <1>6. \A x \in Mutations : slots[x] = Cardinality(UndecidedOf(x))
    BY SlotsCount
  <1>7. \A x \in Mutations : slots'[x] = IF x = m THEN slots[x] - Cardinality(S) ELSE slots[x]
    BY DEF ReleaseSlots, TypeOK
  <1>8. Cardinality(UndecidedOf(m) \ S) = slots'[m]
    BY <1>3, <1>4, <1>5, <1>6, <1>7
  <1>9. ASSUME NEW x \in Mutations PROVE slots'[x] = Cardinality(UndecidedOf(x)')
    <2>1. CASE x = m
      BY <1>8, <2>1
    <2>2. CASE x # m
      BY <1>6, <1>7, <2>2
    <2> QED BY <2>1, <2>2
  <1> QED BY <1>9, SlotsCount DEF SlotsExact, UndecidedOf, Undecided

(* A step that evicts nothing keeps the records that are pinned, if what it *)
(* reserves or pins belongs to a record that is there.                      *)
LEMMA PinnedFrame ==
  ASSUME TypeOK, IInv, RecordPinned,
         \A v \in Values : NonTerminal(res'[v]) =>
           \/ NonTerminal(res[v]) /\ res'[v].claim = res[v].claim
           \/ rec'[res'[v].claim] # "evicted",
         \A e \in outbox' : e \in outbox \/ rec'[e.m] # "evicted",
         \A m \in Mutations : rec'[m] = "evicted" => rec[m] = "evicted"
  PROVE  RecordPinned'
  <1>1. \A v \in Values : NonTerminal(res[v]) => res[v].claim \in Mutations
    BY DEF IInv, ClaimShape, NonTerminal, Mutations
  <1>2. \A e \in outbox : e.m \in Mutations
    BY DEF TypeOK, Effects
  <1>3. \A v \in Values : NonTerminal(res'[v]) => rec'[res'[v].claim] # "evicted"
    BY <1>1 DEF RecordPinned
  <1>4. \A e \in outbox' : rec'[e.m] # "evicted"
    BY <1>2 DEF RecordPinned
  <1> QED BY <1>3, <1>4 DEF RecordPinned, NonTerminal

(* A step that decides nothing and evicts nothing keeps both.               *)
LEMMA SlotsRecords ==
  ASSUME TypeOK, IInv, SlotsExact, RecordPinned, slots' = slots, SameUndecided,
         \A e \in outbox' : e \in outbox \/ rec'[e.m] # "evicted",
         \A m \in Mutations : rec'[m] = "evicted" => rec[m] = "evicted"
  PROVE  SlotsExact' /\ RecordPinned'
  <1>1. \A v \in Values : NonTerminal(res'[v]) =>
          NonTerminal(res[v]) /\ res'[v].claim = res[v].claim
    BY DEF SameUndecided
  <1> QED BY <1>1, SlotsFrame, PinnedFrame

(* Try counts the reservations it inserts.                                  *)
LEMMA DispatchInsertSlots ==
  ASSUME TypeOK, IInv, SlotsExact, RecordPinned, NEW c \in Calls, DispatchInsert(c)
  PROVE  SlotsExact' /\ RecordPinned'
  <1> DEFINE m == KeyOf[c]
             S == FreshClaims(m)
  <1>1. /\ m \in Mutations /\ m \in Inserts /\ outbox' = outbox
        /\ ApplySlots(m, Cardinality(S)) /\ S \in SUBSET Values
        /\ \A x \in Mutations : rec'[x] = "evicted" => rec[x] = "evicted"
        /\ rec'[m] # "evicted"
    BY ConstantsAssumption
    DEF DispatchInsert, PersistEnvelope, FreshClaims, TypeOK, shardVars, Dispatchable
  <1>2. \A v \in Values : res'[v] = IF v \in S THEN Reserved(m) ELSE res[v]
    BY DEF DispatchInsert
  <1>3. \A v \in S : res[v].state = "Free"
    BY DEF FreshClaims
  <1>4. NonTerminal(Reserved(m)) /\ Reserved(m).claim = m
    BY DEF NonTerminal, Reserved, Free
  <1> HIDE DEF m, S
  <1>5. S \cap UndecidedOf(m) = {}
    BY <1>3 DEF UndecidedOf, Undecided, NonTerminal
  <1>6. UndecidedOf(m)' = UndecidedOf(m) \cup S
    BY <1>1, <1>2, <1>4 DEF UndecidedOf, Undecided
  <1>7. \A x \in Mutations \ {m} : UndecidedOf(x)' = UndecidedOf(x)
    BY <1>1, <1>2, <1>3, <1>4 DEF UndecidedOf, Undecided, NonTerminal
  <1>8. SlotsExact'
    BY <1>1, <1>5, <1>6, <1>7, SlotsApplied
  <1>9. \A v \in Values : NonTerminal(res'[v]) =>
          \/ NonTerminal(res[v]) /\ res'[v].claim = res[v].claim
          \/ rec'[res'[v].claim] # "evicted"
    BY <1>1, <1>2, <1>4
  <1> QED BY <1>1, <1>8, <1>9, PinnedFrame

(* A step that takes some of a mutation's undecided reservations to a       *)
(* terminal state and releases as many slots.                               *)
LEMMA DecideSlots ==
  ASSUME TypeOK, IInv, SlotsExact, RecordPinned, outbox' = outbox,
         NEW m \in Mutations, NEW S \in SUBSET UndecidedOf(m),
         ReleaseSlots(m, Cardinality(S)),
         \A v \in Values : IF v \in S THEN ~NonTerminal(res'[v]) ELSE res'[v] = res[v],
         \A x \in Mutations : rec'[x] = "evicted" => rec[x] = "evicted"
  PROVE  SlotsExact' /\ RecordPinned'
  <1>1. UndecidedOf(m)' = UndecidedOf(m) \ S
    BY DEF UndecidedOf, Undecided
  <1>2. \A x \in Mutations \ {m} : UndecidedOf(x)' = UndecidedOf(x)
    BY DEF UndecidedOf, Undecided
  <1>3. \A v \in Values : NonTerminal(res'[v]) =>
          NonTerminal(res[v]) /\ res'[v].claim = res[v].claim
    OBVIOUS
  <1> QED BY <1>1, <1>2, <1>3, SlotsReleased, PinnedFrame

(* Steps of a client call keep the slots and the pinned records.            *)
LEMMA CallSlots ==
  ASSUME TypeOK, IInv, SlotsExact, RecordPinned, NEW c \in Calls, CallStep(c)
  PROVE  SlotsExact' /\ RecordPinned'
  <1>1. \A m \in Mutations : rec'[m] = "evicted" => rec[m] = "evicted"
    BY ConstantsAssumption
    DEF TypeOK, CallStep, ReserveKey, ReplayKey, ReplayEarly, AbandonRouting,
           EnvelopeRefused, TryRefused, DispatchInsert, DispatchDelete,
           CallCapture, CallAdvance, ReadEffects, Confirm, ReconcileReleases,
           ConfirmAcked, ConfirmAckFailed, PersistEnvelope, Captured, Completed
  <1>2. outbox' = outbox
    BY DEF CallStep, ReserveKey, ReplayKey, ReplayEarly, AbandonRouting,
           EnvelopeRefused, TryRefused, DispatchInsert, DispatchDelete,
           CallCapture, CallAdvance, ReadEffects, Confirm, ReconcileReleases,
           ConfirmAcked, ConfirmAckFailed, shardVars
  <1>3. ASSUME slots' = slots, SameUndecided PROVE SlotsExact' /\ RecordPinned'
    BY <1>1, <1>2, <1>3, SlotsRecords
  <1>4. CASE Confirm(c)
    <2> DEFINE m == KeyOf[c]
               S == {v \in Values : \E e \in call[c].seen : e.v = v /\ FreshCommit(e)}
    <2>1. /\ ReleaseSlots(m, Cardinality(S)) /\ m \in Mutations
          /\ \A v \in Values : res'[v] = IF v \in S THEN Committed(res[v], m) ELSE res[v]
      BY <1>4, ConstantsAssumption DEF Confirm
    <2>2. S \in SUBSET UndecidedOf(m)
      BY DEF IInv, CallReads, FreshCommit, UndecidedOf, Undecided, NonTerminal
    <2>3. \A v \in Values : ~NonTerminal(Committed(res[v], m))
      BY DEF TypeOK, Reservations, NonTerminal, Committed
    <2> HIDE DEF m, S
    <2> QED BY <1>1, <1>2, <2>1, <2>2, <2>3, DecideSlots
  <1>5. CASE ReconcileReleases(c)
    <2>1. slots' = slots /\ SameUndecided
      BY <1>5 DEF ReconcileReleases, AfterReleases, ReleaseFrees, SameUndecided,
                  NonTerminal, Free
    <2> QED BY <1>3, <2>1
  <1>6. CASE ConfirmAcked(c)
    <2>1. slots' = slots
      BY <1>6 DEF ConfirmAcked
    <2>2. ASSUME NEW v \in Values
          PROVE  res'[v].state = res[v].state /\ res'[v].claim = res[v].claim
      <3>1. res'[v] = ClearAck(res[v], KeyOf[c]) \/ res'[v] = res[v]
        BY <1>6 DEF ConfirmAcked
      <3> QED BY <3>1 DEF ClearAck, TypeOK, Reservations
    <2> QED BY <1>3, <2>1, <2>2 DEF SameUndecided, NonTerminal
  <1>7. CASE ~(DispatchInsert(c) \/ Confirm(c) \/ ReconcileReleases(c) \/ ConfirmAcked(c))
    <2>1. res' = res /\ slots' = slots
      BY <1>7 DEF CallStep, ReserveKey, ReplayKey, ReplayEarly, AbandonRouting,
           EnvelopeRefused, TryRefused, DispatchDelete,
           CallCapture, CallAdvance, ReadEffects, ConfirmAckFailed
    <2> QED BY <1>3, <2>1 DEF SameUndecided
  <1> QED BY <1>4, <1>5, <1>6, <1>7, DispatchInsertSlots

(* The steps of the passes do too: a reclaim releases one slot when it      *)
(* commits or cancels, and none when it holds.                              *)
LEMMA DriverSlots ==
  ASSUME TypeOK, IInv, SlotsExact, RecordPinned, NEW d \in Drivers,
         \/ Driver1Step(d) \/ Driver2Step(d) \/ DriverFault(d)
         \/ \E v \in Values : Scan(d, v)
         \/ \E m \in Mutations : RowStart(d, m)
  PROVE  SlotsExact' /\ RecordPinned'
  <1> DEFINE o == task[d]
  <1>t. Ticket(o)
    BY DEF IInv, Tickets
  <1>1. /\ \A m \in Mutations : rec'[m] = "evicted" => rec[m] = "evicted"
        /\ outbox' = outbox
    BY DEF Driver1Step, BeginReclaim, ResumeReclaim, ProveCommitted, ReclaimAborted,
           ReadProof, ReclaimCommit, ReclaimDiscarded, ReclaimCancel, ReclaimHold,
           ReAck, AckReplyLost, CommittedHold, DriverAcked, DriverAckFailed,
           DriverFault, ProofFailed, RowFailed, PassLost, Scan, Driver2Step,
           ReadPage, ProcessPage, Rescan, RowEnd, RowStart, shardVars, TypeOK
  <1>2. ASSUME slots' = slots, SameUndecided PROVE SlotsExact' /\ RecordPinned'
    BY <1>1, <1>2, SlotsRecords
  <1>3. CASE ReclaimCommit(d) \/ ReclaimCancel(d)
    <2>1. /\ Reclaims(o) /\ Fenced(o) /\ ReleaseSlots(o.m, 1)
          /\ \/ res' = [res EXCEPT ![o.v] = Committed(@, o.m)]
             \/ res' = [res EXCEPT ![o.v] = Free]
      BY <1>3 DEF ReclaimCommit, ReclaimCancel, Reclaiming, Reclaims, CanCancel
    <2>2. o.m \in Mutations /\ o.v \in Values /\ {o.v} \in SUBSET UndecidedOf(o.m)
      BY <1>t, <2>1
      DEF Ticket, TicketOwn, Fenced, UndecidedOf, Undecided, NonTerminal, Mutations
    <2>3. Cardinality({o.v}) = 1
      BY FS_Singleton
    <2>4. \A v \in Values : IF v \in {o.v} THEN ~NonTerminal(res'[v]) ELSE res'[v] = res[v]
      <3>1. \A v \in Values : v # o.v => res'[v] = res[v]
        BY <2>1 DEF TypeOK
      <3>2. \/ res'[o.v] = Committed(res[o.v], o.m) \/ res'[o.v] = Free
        BY <2>1, <2>2 DEF TypeOK
      <3>3. res[o.v] \in Reservations
        BY <2>2 DEF TypeOK
      <3>4. Committed(res[o.v], o.m).state = "Committed" /\ Free.state = "Free"
        BY <3>3 DEF Reservations, Committed, Free
      <3>5. ~NonTerminal(res'[o.v])
        BY <3>2, <3>4 DEF NonTerminal
      <3> QED BY <3>1, <3>5
    <2> QED BY <1>1, <2>1, <2>2, <2>3, <2>4, DecideSlots
  <1>4. CASE BeginReclaim(d) \/ ReclaimHold(d)
    <2>1. slots' = slots
      BY <1>4 DEF BeginReclaim, ReclaimHold
    <2>2. o.v \in Values
      BY <1>t, <1>4
      DEF BeginReclaim, ReclaimHold, Reclaiming, Ticket, TicketScanned, TicketOwn, Reclaims
    <2>3. \A v \in Values : v # o.v => res'[v] = res[v]
      BY <1>4 DEF BeginReclaim, ReclaimHold, TypeOK
    <2>4. \/ res' = res
          \/ /\ NonTerminal(res[o.v]) /\ NonTerminal(res'[o.v])
             /\ res'[o.v].claim = res[o.v].claim
      BY <1>4, <2>2 DEF BeginReclaim, ReclaimHold, Fenced, NonTerminal, TypeOK, Reservations
    <2> QED BY <1>2, <2>1, <2>3, <2>4 DEF SameUndecided
  <1>5. CASE AckReplyLost(d) \/ DriverAcked(d)
    <2>1. slots' = slots /\ res' = [res EXCEPT ![o.v] = ClearAck(@, o.m)]
      BY <1>5 DEF AckReplyLost, DriverAcked
    <2>2. \A v \in Values : res'[v].state = res[v].state /\ res'[v].claim = res[v].claim
      BY <2>1 DEF TypeOK, Reservations, ClearAck
    <2> QED BY <1>2, <2>1, <2>2 DEF SameUndecided, NonTerminal
  <1>6. CASE ProcessPage(d)
    <2>1. slots' = slots /\ SameUndecided
      BY <1>6 DEF ProcessPage, AfterReleases, ReleaseFrees, SameUndecided,
                  NonTerminal, Free
    <2> QED BY <1>2, <2>1
  <1>7. CASE ~(\/ ReclaimCommit(d) \/ ReclaimCancel(d) \/ BeginReclaim(d)
               \/ ReclaimHold(d) \/ AckReplyLost(d) \/ DriverAcked(d) \/ ProcessPage(d))
    <2>1. slots' = slots /\ res' = res
      BY <1>7 DEF Driver1Step, ResumeReclaim, ProveCommitted, ReclaimAborted,
           ReadProof, ReclaimDiscarded, ReAck, CommittedHold, DriverAckFailed,
           DriverFault, ProofFailed, RowFailed, PassLost, Scan, Driver2Step,
           ReadPage, Rescan, RowEnd, RowStart
    <2> QED BY <1>2, <2>1 DEF SameUndecided
  <1> QED BY <1>3, <1>4, <1>5, <1>6, <1>7

(* Retention removes only records that nothing undecided and nothing pinned *)
(* depends on.                                                              *)
LEMMA EvictSlots ==
  ASSUME TypeOK, IInv, EInv, NEW m \in Mutations, EvictRecord(m)
  PROVE  SlotsExact' /\ RecordPinned'
  <1>1. /\ UNCHANGED <<res, slots, outbox>> /\ slots[m] <= 0 /\ pend[m] = "none"
        /\ \A x \in Mutations : rec'[x] = IF x = m THEN "evicted" ELSE rec[x]
    BY DEF EvictRecord, Evictable, shardVars, TypeOK
  <1>2. SlotsExact'
    BY <1>1, SlotsFrame DEF EInv, SameUndecided
  <1>3. UndecidedOf(m) = {}
    <2>1. UndecidedOf(m) \in SUBSET Values
      BY DEF UndecidedOf
    <2>2. IsFiniteSet(UndecidedOf(m)) /\ Cardinality(UndecidedOf(m)) \in Nat
      BY <2>1, ValueCount, FS_Subset, ConstantsAssumption
    <2>3. Cardinality(UndecidedOf(m)) = 0
      BY <1>1, <2>2, SlotsCount DEF EInv
    <2> QED BY <2>2, <2>3, FS_EmptySet
  <1>4. \A e \in outbox : e.m \in Mutations /\ e.m # m
    BY <1>1 DEF EInv, RowsInv, EffectsDiscoverable, TypeOK, Effects
  <1>5. \A v \in Values : NonTerminal(res[v]) =>
          res[v].claim \in Mutations /\ res[v].claim # m
    BY <1>3 DEF UndecidedOf, Undecided, IInv, ClaimShape, NonTerminal, Mutations
  <1>6. RecordPinned'
    <2>1. \A v \in Values : NonTerminal(res'[v]) => rec'[res'[v].claim] # "evicted"
      BY <1>1, <1>5 DEF EInv, RecordPinned
    <2>2. \A e \in outbox' : rec'[e.m] # "evicted"
      BY <1>1, <1>4 DEF EInv, RecordPinned
    <2> QED BY <2>1, <2>2 DEF RecordPinned, NonTerminal
  <1> QED BY <1>2, <1>6

(* Every step keeps the slots and the pinned records.                       *)
LEMMA SlotsNext ==
  ASSUME TypeOK, IInv, EInv, [Next]_vars
  PROVE  SlotsExact' /\ RecordPinned'
  <1> USE DEF EInv
  <1>1. ASSUME UNCHANGED <<res, slots>>,
               \A e \in outbox' : e \in outbox \/ rec'[e.m] # "evicted",
               \A m \in Mutations : rec'[m] = "evicted" => rec[m] = "evicted"
        PROVE  SlotsExact' /\ RecordPinned'
    BY <1>1, SlotsRecords DEF SameUndecided
  <1>2. ASSUME NEW c \in Calls, ShardStep(c) PROVE SlotsExact' /\ RecordPinned'
    <2>1. UNCHANGED <<res, slots, rec>>
      BY <1>2 DEF ShardStep, ShardInsert, ShardDelete, ShardReplay, DispatchLost
    <2>2. \A e \in outbox' : \/ e \in outbox
                             \/ c \in flight /\ e.m = KeyOf[c] /\ e.m \notin applied
      BY <1>2 DEF ShardStep, ShardInsert, ShardDelete, ShardReplay, DispatchLost,
                  shardVars, Acquire, Release
    <2>3. \A e \in outbox' : e \in outbox \/ rec'[e.m] # "evicted"
      BY <2>1, <2>2 DEF IInv, DispatchCovered, Gone
    <2> QED BY <1>1, <2>1, <2>3
  <1>3. ASSUME NEW e \in acks, AckEffect(e) \/ AckLost(e)
        PROVE  SlotsExact' /\ RecordPinned'
    BY <1>1, <1>3 DEF AckEffect, AckLost, shardVars
  <1>4. ASSUME NEW m \in Mutations, RecordStep(m) PROVE SlotsExact' /\ RecordPinned'
    BY <1>1, <1>4, EvictSlots
    DEF RecordStep, RecoverCapture, RecoverAdvance, Captured, Completed, shardVars, TypeOK
  <1>5. CASE UNCHANGED vars
    BY <1>1, <1>5 DEF vars
  <1>6. ASSUME NEW c \in Calls, CallStep(c) PROVE SlotsExact' /\ RecordPinned'
    BY <1>6, CallSlots
  <1>7. CASE Next
    BY <1>2, <1>3, <1>4, <1>6, <1>7, DriverSlots DEF Next
  <1> QED BY <1>5, <1>7

------------------------------------------------------------------------------
(* Initially nothing is pinned, reserved or counted.                        *)
LEMMA EffectsInit == Init => EInv
  <1> SUFFICES ASSUME Init PROVE EInv
    OBVIOUS
  <1>1. EvidenceInv
    BY DEF Init, EvidenceInv, FreeBlank, AckCleared, NoOrphanAcquire, StillAbsent,
           PinnedGen, Reclaims, Free, Idle
  <1>2. RowsInv
    BY DEF Init, RowsInv, DispatchRow, EffectsDiscoverable, RowQuiet, RowEmpty,
           Draining, Idle
  <1>3. SlotsExact
    <2>1. \A m : UndecidedOf(m) = {}
      BY DEF Init, UndecidedOf, Undecided, NonTerminal, Free
    <2>2. \A m \in Mutations : slots[m] = 0
      BY DEF Init
    <2> QED BY <2>1, <2>2, FS_EmptySet, SlotsCount
  <1>4. RecordPinned
    BY DEF Init, RecordPinned, NonTerminal, Free
  <1> QED BY <1>1, <1>2, <1>3, <1>4 DEF EInv

(* Together with IInv the three groups are inductive.                       *)
THEOREM EffectsSafety == Spec => [](TypeOK /\ IInv /\ EInv)
  <1>1. Init => EInv
    BY EffectsInit
  <1>2. ASSUME TypeOK, TypeOK', IInv, EInv, [Next]_vars PROVE EInv'
    BY <1>2, EvidenceNext, RowsNext, SlotsNext DEF EInv
  <1> QED BY <1>1, <1>2, Safety, PTL DEF Spec

(* Every pinned Acquire has the reservation Driver 1 finds it by, so the    *)
(* orphans Driver 2 would quarantine (unique_effect.rs) never arise.        *)
THEOREM NoOrphans == Spec => []NoOrphanAcquire
  BY EffectsSafety, PTL DEF EInv, EvidenceInv

(* Every pinned effect has its discovery row, through crashes of calls and  *)
(* passes at any step.                                                      *)
THEOREM Discoverable == Spec => []EffectsDiscoverable
  BY EffectsSafety, PTL DEF EInv, RowsInv

(* The slots count exactly the undecided reservations of a mutation, so     *)
(* releasing a slot never underflows (reservation_catalog.rs).              *)
THEOREM SlotsCounted == Spec => []SlotsExact
  BY EffectsSafety, PTL DEF EInv

(* The retention sweep removes no record that an undecided reservation or a *)
(* pinned effect still depends on.                                          *)
THEOREM RecordsKept == Spec => []RecordPinned
  BY EffectsSafety, PTL DEF EInv

------------------------------------------------------------------------------
(* Committed values have an owner.                                          *)

(* Passes do not overlap: what PassesAlone shows of the recovery timer.     *)
OnePass == \A x, y \in Drivers : x = y

(* A reservation of v that says m wrote it, or may come to say so.          *)
Relied(m, v) == res[v].state # "Free" /\ res[v].claim = m

(* A reservation a Try inserts: nothing in hand can be evidence for it.     *)
Fresh(v) ==
  /\ res[v].state = "Free" /\ res'[v].state = "Reserved"
  /\ rec[res'[v].claim] \notin {"completed", "evicted"}

(* A step keeps the owners if it acks no Release that is still relied on,   *)
(* commits only on evidence, and opens no ticket with an old presence.      *)
LEMMA OwnedFrame ==
  ASSUME TypeOK, TypeOK', IInv, EvidenceInv, OInv,
         \A v \in Values : \A m : Owned(m, v) /\ Relied(m, v)' => Owned(m, v)',
         \A v \in Values : res'[v].state = "Committed" =>
           /\ res'[v].claim = res[v].claim
           /\ res[v].state = "Committed" \/ Owned(res[v].claim, v),
         \A v \in Values : NonTerminal(res'[v]) =>
           (NonTerminal(res[v]) /\ res'[v].claim = res[v].claim) \/ Fresh(v),
         \A e \in outbox' : e.op = "acquire" => e \in outbox,
         \A c \in Calls : \A e \in call'[c].seen : e \in call[c].seen \/ e \in outbox,
         \A d \in Drivers :
           \/ ProvenEvidence(task[d])'
           \/ /\ task'[d] = task[d]
              /\ \A v \in Values : res'[v].state = "Reclaiming" => res'[v] = res[v]
  PROVE  /\ CommittedSettled' /\ PinnedEvidence' /\ SeenEvidence'
         /\ \A d \in Drivers : ProvenEvidence(task[d])'
  <1>1. CommittedSettled'
    <2> SUFFICES ASSUME NEW v \in Values, res'[v].state = "Committed",
                        NEW m, m = res'[v].claim
                 PROVE  Owned(m, v)'
      BY DEF CommittedSettled, Owned
    <2>1. Owned(m, v)
      BY DEF OInv, CommittedSettled
    <2>2. Relied(m, v)'
      BY DEF Relied
    <2> QED BY <2>1, <2>2
  <1>2. ASSUME NEW v \in Values, NEW m, Undecided(m, v)',
               Fresh(v) => FALSE, Undecided(m, v) => Owned(m, v)
        PROVE  Owned(m, v)'
    <2>1. NonTerminal(res'[v]) /\ res'[v].claim = m
      BY <1>2 DEF Undecided
    <2>2. Undecided(m, v)
      BY <1>2, <2>1 DEF Undecided
    <2>3. Relied(m, v)'
      BY <2>1 DEF Relied, NonTerminal
    <2> QED BY <1>2, <2>2, <2>3
  <1>3. ASSUME NEW e \in outbox, e.op = "acquire", Fresh(e.v) PROVE FALSE
    <2>1. e = Acquire(e.m, e.v) /\ e.v \in Values
      BY <1>3, PinnedShape
    <2>2. \A m : Acquire(m, e.v) \notin outbox
      BY <1>3, <2>1, NoAcquire DEF Fresh
    <2> QED BY <2>1, <2>2
  <1>4. PinnedEvidence'
    <2> SUFFICES ASSUME NEW e \in outbox', e.op = "acquire", Undecided(e.m, e.v)'
                 PROVE  Owned(e.m, e.v)'
      BY DEF PinnedEvidence, Undecided
    <2>1. e \in outbox /\ e.v \in Values
      BY DEF TypeOK, Effects
    <2>2. Undecided(e.m, e.v) => Owned(e.m, e.v)
      BY <2>1 DEF OInv, PinnedEvidence
    <2> QED BY <1>2, <1>3, <2>1, <2>2
  <1>5. SeenEvidence'
    <2> SUFFICES ASSUME NEW c \in Calls, NEW e \in call'[c].seen,
                        e.op = "acquire", Undecided(e.m, e.v)'
                 PROVE  Owned(e.m, e.v)'
      BY DEF SeenEvidence, Undecided
    <2>1. e.v \in Values
      BY DEF TypeOK, CallStates, Effects
    <2>2. Undecided(e.m, e.v) => Owned(e.m, e.v)
      BY DEF OInv, PinnedEvidence, SeenEvidence
    <2>3. ASSUME Fresh(e.v) PROVE FALSE
      <3>1. CASE e \in outbox
        BY <1>3, <2>3, <3>1
      <3>2. CASE e \in call[c].seen
        <4>1. e.m = KeyOf[c] /\ rec[e.m] \in {"completed", "evicted"}
          BY <3>2 DEF IInv, CallReads, OInv, SettlesCompleted
        <4>2. res'[e.v].claim = e.m
          BY DEF Undecided
        <4> QED BY <2>3, <4>1, <4>2 DEF Fresh
      <3> QED BY <3>1, <3>2
    <2> QED BY <1>2, <2>1, <2>2, <2>3
  <1>6. ASSUME NEW d \in Drivers, task'[d] = task[d],
               \A v \in Values : res'[v].state = "Reclaiming" => res'[v] = res[v]
        PROVE  ProvenEvidence(task[d])'
    <2> DEFINE t == task[d]
    <2> SUFFICES ASSUME Reclaims(t), t.phase = "verdict", t.verdict = "present",
                        Fenced(t)'
                 PROVE  Owned(t.m, t.v)'
      BY <1>6 DEF ProvenEvidence, Reclaims, Fenced, Owned
    <2>1. t.v \in Values
      BY DEF IInv, Tickets, Ticket, TicketOwn
    <2>2. Fenced(t)
      BY <1>6, <2>1 DEF Fenced
    <2>3. Owned(t.m, t.v)
      BY <2>2 DEF OInv, ProvenEvidence
    <2>4. Relied(t.m, t.v)'
      BY <1>6 DEF Relied, Fenced
    <2>5. \A m : m = t.m => Owned(m, t.v)'
      BY <1>6, <2>1, <2>3, <2>4
    <2> QED BY <1>6, <2>5
  <1> QED BY <1>1, <1>4, <1>5, <1>6

(* Nothing is deleted and no Release is acked: every owner is kept.         *)
LEMMA OwnersKept ==
  ASSUME held \subseteq held',
         \A e \in outbox \ acks : e.op = "release" => e \in outbox' /\ e \notin acks'
  PROVE  \A v \in Values : \A m : Owned(m, v) => Owned(m, v)'
  BY DEF Owned

(* A Release is acked only when no reservation relies on it any more.       *)
LEMMA ReleaseOwners ==
  ASSUME TypeOK, IInv, UNCHANGED <<held, outbox>>, NEW E, res' = AfterReleases(E),
         \A e \in acks' : e \in acks \/ (e \in E /\ ReleaseApplied(e))
  PROVE  \A v \in Values : \A m : Owned(m, v) /\ Relied(m, v)' => Owned(m, v)'
  <1> SUFFICES ASSUME NEW v \in Values, NEW m, Owned(m, v), Relied(m, v)',
                      <<m, v>> \notin held
               PROVE  Owned(m, v)'
    BY DEF Owned
  <1>1. PICK e \in outbox \ acks : e.op = "release" /\ e.v = v /\ e.owner = m
    BY DEF Owned
  <1>2. e \notin acks'
    <2> SUFFICES ASSUME e \in E, ReleaseApplied(e) PROVE FALSE
      OBVIOUS
    <2>1. res'[v] = res[v] /\ ~ReleaseFrees(e)
      BY <1>1 DEF Relied, AfterReleases, Free
    <2>2. res[v].claim = m /\ res[v].state # "Free"
      BY <2>1 DEF Relied
    <2>3. res[v].state = "Committed" /\ res[v].owner # m
      BY <1>1, <2>1, <2>2 DEF ReleaseApplied
    <2> QED BY <2>2, <2>3 DEF IInv, ClaimShape
  <1> QED BY <1>1, <1>2 DEF Owned

(* What OInv says of the call's progress and of the acks under way.         *)
BookInv == SettlesCompleted /\ AcksRan

(* A step that moves no call keeps a completed record complete.             *)
LEMMA BookFrame ==
  ASSUME BookInv, UNCHANGED call, applied \subseteq applied',
         \A c \in Calls : rec[KeyOf[c]] \in {"completed", "evicted"} =>
                            rec'[KeyOf[c]] \in {"completed", "evicted"},
         \A e \in acks' : e \in acks \/ e.m \in applied',
         \A d \in Drivers : \A e \in task'[d].seen : e \in task[d].seen \/ e.m \in applied'
  PROVE  BookInv'
  BY DEF BookInv, SettlesCompleted, AcksRan

(* Calls settle effects only after completing their record.                 *)
LEMMA CallBook ==
  ASSUME TypeOK, IInv, BookInv, NEW c \in Calls, CallStep(c)
  PROVE  BookInv'
  <1> DEFINE Settling == {"settle", "read", "acking"}
             Done == {"completed", "evicted"}
  <1>1. UNCHANGED <<applied, task>>
    BY DEF CallStep, ReserveKey, ReplayKey, ReplayEarly, AbandonRouting,
           EnvelopeRefused, TryRefused, DispatchInsert, DispatchDelete,
           CallCapture, CallAdvance, ReadEffects, Confirm, ReconcileReleases,
           ConfirmAcked, ConfirmAckFailed, shardVars
  <1>2. \A e \in acks' : e \in acks \/ e \in call[c].seen
    BY DEF CallStep, ReserveKey, ReplayKey, ReplayEarly, AbandonRouting,
           EnvelopeRefused, TryRefused, DispatchInsert, DispatchDelete,
           CallCapture, CallAdvance, ReadEffects, Confirm, ReconcileReleases,
           ConfirmAcked, ConfirmAckFailed, netVars
  <1>3. AcksRan'
    BY <1>1, <1>2 DEF BookInv, AcksRan, IInv, CallReads
  <1>4. \A m \in Mutations : rec[m] \in Done => rec'[m] \in Done
    BY ConstantsAssumption
    DEF TypeOK, CallStep, ReserveKey, ReplayKey, ReplayEarly, AbandonRouting,
           EnvelopeRefused, TryRefused, DispatchInsert, DispatchDelete,
           CallCapture, CallAdvance, ReadEffects, Confirm, ReconcileReleases,
           ConfirmAcked, ConfirmAckFailed, PersistEnvelope, Captured, Completed,
           Dispatchable
  <1>5. \A x \in Calls : x # c => call'[x] = call[x]
    BY DEF TypeOK, SetCall, CallStep, ReserveKey, ReplayKey, ReplayEarly, AbandonRouting,
           EnvelopeRefused, TryRefused, DispatchInsert, DispatchDelete,
           CallCapture, CallAdvance, ReadEffects, Confirm, ReconcileReleases,
           ConfirmAcked, ConfirmAckFailed
  <1>6. \/ call'[c].pc \notin Settling /\ call'[c].seen = {}
        \/ rec'[KeyOf[c]] = "completed"
        \/ call[c].pc \in Settling /\ UNCHANGED rec
    <2> USE DEF TypeOK, SetCall
    <2>1. CASE \/ ReserveKey(c) \/ ReplayKey(c) \/ ReplayEarly(c) \/ AbandonRouting(c)
               \/ EnvelopeRefused(c) \/ TryRefused(c) \/ DispatchInsert(c)
               \/ DispatchDelete(c) \/ CallCapture(c)
      BY <2>1 DEF ReserveKey, ReplayKey, ReplayEarly, AbandonRouting,
                  EnvelopeRefused, TryRefused, DispatchInsert, DispatchDelete, CallCapture
    <2>2. CASE CallAdvance(c)
      BY <2>2, ConstantsAssumption DEF CallAdvance, Completed
    <2>3. CASE \/ ReadEffects(c) \/ Confirm(c) \/ ReconcileReleases(c)
               \/ ConfirmAcked(c) \/ ConfirmAckFailed(c)
      BY <2>3 DEF ReadEffects, Confirm, ReconcileReleases, ConfirmAcked, ConfirmAckFailed
    <2> QED BY <2>1, <2>2, <2>3 DEF CallStep
  <1>7. SettlesCompleted'
    <2> SUFFICES ASSUME NEW x \in Calls, call'[x].pc \in Settling \/ call'[x].seen # {}
                 PROVE  rec'[KeyOf[x]] \in Done
      BY DEF SettlesCompleted
    <2>1. KeyOf[x] \in Mutations
      BY ConstantsAssumption
    <2>2. CASE x # c
      BY <1>4, <1>5, <2>1, <2>2 DEF BookInv, SettlesCompleted
    <2>3. CASE x = c
      BY <1>6, <2>3 DEF BookInv, SettlesCompleted
    <2> QED BY <2>2, <2>3
  <1> QED BY <1>3, <1>7 DEF BookInv

(* What OInv says of the owners.                                            *)
OwnersInv ==
  /\ CommittedSettled /\ PinnedEvidence /\ SeenEvidence
  /\ \A d \in Drivers : ProvenEvidence(task[d])

(* A client call commits only what the Acquires it has read stand for.      *)
LEMMA CallOwners ==
  ASSUME TypeOK, TypeOK', IInv, EvidenceInv, OInv, NEW c \in Calls, CallStep(c)
  PROVE  OwnersInv'
  <1>1. UNCHANGED <<task, outbox, held>>
    BY DEF CallStep, ReserveKey, ReplayKey, ReplayEarly, AbandonRouting,
           EnvelopeRefused, TryRefused, DispatchInsert, DispatchDelete,
           CallCapture, CallAdvance, ReadEffects, Confirm, ReconcileReleases,
           ConfirmAcked, ConfirmAckFailed, shardVars
  <1>2. \A x \in Calls : \A e \in call'[x].seen : e \in call[x].seen \/ e \in outbox
    BY DEF TypeOK, SetCall, CallStep, ReserveKey, ReplayKey, ReplayEarly, AbandonRouting,
           EnvelopeRefused, TryRefused, DispatchInsert, DispatchDelete,
           CallCapture, CallAdvance, ReadEffects, Confirm, ReconcileReleases,
           ConfirmAcked, ConfirmAckFailed
  <1>3. ASSUME \A v \in Values : \A m : Owned(m, v) /\ Relied(m, v)' => Owned(m, v)',
               \A v \in Values :
                 /\ res'[v].state = "Committed" =>
                      /\ res'[v].claim = res[v].claim
                      /\ res[v].state = "Committed" \/ Owned(res[v].claim, v)
                 /\ NonTerminal(res'[v]) =>
                      (NonTerminal(res[v]) /\ res'[v].claim = res[v].claim) \/ Fresh(v)
                 /\ res'[v].state = "Reclaiming" => res'[v] = res[v]
        PROVE  OwnersInv'
    BY <1>1, <1>2, <1>3, OwnedFrame DEF OwnersInv
  <1>4. CASE DispatchInsert(c)
    <2>1. acks' = acks
      BY <1>4 DEF DispatchInsert
    <2>2. \A v \in Values : \A m : Owned(m, v) => Owned(m, v)'
      BY <1>1, <2>1, OwnersKept
    <2>3. rec[KeyOf[c]] \notin {"completed", "evicted"}
      BY <1>4 DEF DispatchInsert, Dispatchable
    <2>4. /\ Reserved(KeyOf[c]).state = "Reserved" /\ Reserved(KeyOf[c]).claim = KeyOf[c]
      BY DEF Reserved, Free
    <2>5. \A v \in Values :
            \/ res'[v] = res[v]
            \/ res[v].state = "Free" /\ res'[v] = Reserved(KeyOf[c])
      BY <1>4 DEF DispatchInsert, FreshClaims
    <2> QED BY <1>3, <2>2, <2>3, <2>4, <2>5 DEF Fresh, NonTerminal
  <1>5. CASE Confirm(c)
    <2> DEFINE m == KeyOf[c]
    <2>1. \A e \in acks' : e \in acks \/ e.op = "acquire"
      BY <1>5 DEF Confirm, IInv, CallReads
    <2>2. \A v \in Values : \A x : Owned(x, v) => Owned(x, v)'
      BY <1>1, <2>1, OwnersKept
    <2>3. ASSUME NEW v \in Values
          PROVE  \/ res'[v] = res[v]
                 \/ /\ res'[v].state = "Committed" /\ res'[v].claim = res[v].claim
                    /\ Owned(res[v].claim, v)
      <3>1. CASE \E e \in call[c].seen : e.v = v /\ FreshCommit(e)
        <4>1. PICK e \in call[c].seen : e.v = v /\ FreshCommit(e)
          BY <3>1
        <4>2. res'[v] = Committed(res[v], m)
          BY <1>5, <3>1 DEF Confirm
        <4>3. res[v] \in Reservations /\ e.op = "acquire" /\ e.m = res[v].claim
          BY <1>5, <4>1 DEF TypeOK, IInv, CallReads, Confirm, FreshCommit
        <4>4. Undecided(e.m, e.v)
          BY <4>1 DEF Undecided, FreshCommit, NonTerminal
        <4>5. Owned(res[v].claim, v)
          BY <4>1, <4>3, <4>4 DEF OInv, SeenEvidence
        <4> QED BY <4>2, <4>3, <4>5 DEF Committed, Reservations
      <3>2. CASE ~ \E e \in call[c].seen : e.v = v /\ FreshCommit(e)
        BY <1>5, <3>2 DEF Confirm
      <3> QED BY <3>1, <3>2
    <2> QED BY <1>3, <2>2, <2>3 DEF NonTerminal
  <1>6. CASE ReconcileReleases(c)
    <2>1. /\ res' = AfterReleases(call[c].seen)
          /\ \A e \in acks' : e \in acks \/ (e \in call[c].seen /\ ReleaseApplied(e))
      BY <1>6 DEF ReconcileReleases
    <2>2. \A v \in Values : \A m : Owned(m, v) /\ Relied(m, v)' => Owned(m, v)'
      BY <1>1, <2>1, ReleaseOwners
    <2>3. \A v \in Values : res'[v] = res[v] \/ res'[v].state = "Free"
      BY <2>1 DEF AfterReleases, Free
    <2> QED BY <1>3, <2>2, <2>3 DEF NonTerminal
  <1>7. CASE ConfirmAcked(c)
    <2>1. acks' = acks
      BY <1>7 DEF ConfirmAcked, netVars
    <2>2. \A v \in Values : \A m : Owned(m, v) => Owned(m, v)'
      BY <1>1, <2>1, OwnersKept
    <2>3. ASSUME NEW v \in Values
          PROVE  \/ res'[v] = res[v]
                 \/ /\ res[v].state = "Committed" /\ res'[v].state = "Committed"
                    /\ res'[v].claim = res[v].claim
      <3>1. res'[v] = ClearAck(res[v], KeyOf[c]) \/ res'[v] = res[v]
        BY <1>7 DEF ConfirmAcked
      <3> QED BY <3>1 DEF ClearAck, TypeOK, Reservations
    <2> QED BY <1>3, <2>2, <2>3 DEF NonTerminal
  <1>8. CASE ~(DispatchInsert(c) \/ Confirm(c) \/ ReconcileReleases(c) \/ ConfirmAcked(c))
    <2>1. res' = res /\ acks' = acks
      BY <1>8 DEF CallStep, ReserveKey, ReplayKey, ReplayEarly, AbandonRouting,
           EnvelopeRefused, TryRefused, DispatchDelete,
           CallCapture, CallAdvance, ReadEffects, ConfirmAckFailed, netVars
    <2>2. \A v \in Values : \A m : Owned(m, v) => Owned(m, v)'
      BY <1>1, <2>1, OwnersKept
    <2> QED BY <1>3, <2>1, <2>2 DEF OInv, CommittedSettled
  <1> QED BY <1>4, <1>5, <1>6, <1>7, <1>8

(* A canonical write holds what its Acquires stand for; a delete pins a     *)
(* Release nobody has acked for every value it gives up.                    *)
LEMMA ShardOwners ==
  ASSUME TypeOK, TypeOK', IInv, EvidenceInv, OInv, NEW c \in Calls, ShardStep(c)
  PROVE  OwnersInv'
  <1>1. UNCHANGED <<res, call, task, acks>>
    BY DEF ShardStep, ShardInsert, ShardDelete, ShardReplay, DispatchLost
  <1>2. ASSUME \A v \in Values : \A m : Owned(m, v) => Owned(m, v)',
               \A e \in outbox' : e.op = "acquire" => e \in outbox
        PROVE  OwnersInv'
    BY <1>1, <1>2, OwnedFrame DEF OwnersInv
  <1>3. CASE ShardInsert(c)
    <2> DEFINE m == KeyOf[c]
    <2>1. /\ held' = held \cup {<<m, v>> : v \in Claims[m]}
          /\ outbox' = outbox \cup {Acquire(m, v) : v \in Claims[m]}
      BY <1>3 DEF ShardInsert
    <2>2. \A v \in Values : \A x : Owned(x, v) => Owned(x, v)'
      BY <1>1, <2>1, OwnersKept
    <2>3. \A e \in outbox' : e \in outbox \/ <<e.m, e.v>> \in held'
      BY <2>1 DEF Acquire
    <2>4. CommittedSettled'
      BY <1>1, <2>2 DEF OInv, CommittedSettled
    <2>5. PinnedEvidence'
      <3> SUFFICES ASSUME NEW e \in outbox', e.op = "acquire", Undecided(e.m, e.v)'
                   PROVE  Owned(e.m, e.v)'
        BY DEF PinnedEvidence, Undecided
      <3>1. e.v \in Values /\ Undecided(e.m, e.v)
        BY <1>1 DEF TypeOK, Effects, Undecided
      <3>2. CASE e \in outbox
        BY <2>2, <3>1, <3>2 DEF OInv, PinnedEvidence
      <3>3. CASE <<e.m, e.v>> \in held'
        BY <3>3 DEF Owned
      <3> QED BY <2>3, <3>2, <3>3
    <2>6. SeenEvidence'
      <3> SUFFICES ASSUME NEW x \in Calls, NEW e \in call[x].seen, e.op = "acquire",
                          Undecided(e.m, e.v)
                   PROVE  Owned(e.m, e.v)'
        BY <1>1 DEF SeenEvidence, Undecided
      <3>1. e.v \in Values
        BY DEF TypeOK, CallStates, Effects
      <3> QED BY <2>2, <3>1 DEF OInv, SeenEvidence
    <2>7. ASSUME NEW d \in Drivers PROVE ProvenEvidence(task[d])'
      <3>1. ProvenEvidence(task[d]) /\ TicketOwn(task[d])
        BY DEF OInv, IInv, Tickets, Ticket
      <3> QED BY <1>1, <2>2, <3>1 DEF ProvenEvidence, Reclaims, Fenced, TicketOwn
    <2> QED BY <2>4, <2>5, <2>6, <2>7 DEF OwnersInv
  <1>4. CASE ShardDelete(c)
    <2> DEFINE m == KeyOf[c]
    <2>1. PICK R \in SUBSET OnShard(m) :
            /\ held' = held \ R
            /\ outbox' = outbox \cup {Release(m, h[1], h[2]) : h \in R}
      BY <1>4 DEF ShardDelete
    <2>2. m \notin applied
      BY <1>4 DEF ShardDelete
    <2>3. ASSUME NEW x, NEW v, <<x, v>> \in R
          PROVE  /\ Release(m, x, v) \in outbox' /\ Release(m, x, v) \notin acks
                 /\ Release(m, x, v).op = "release" /\ Release(m, x, v).v = v
                 /\ Release(m, x, v).owner = x
      <3>1. <<x, v>>[1] = x /\ <<x, v>>[2] = v
        OBVIOUS
      <3>2. Release(m, x, v) \in outbox'
        BY <2>1, <2>3, <3>1
      <3>3. Release(m, x, v).m = m
        BY DEF Release
      <3>4. Release(m, x, v) \notin acks
        BY <2>2, <3>3 DEF OInv, AcksRan
      <3> QED BY <3>2, <3>4 DEF Release
    <2>4. \A v \in Values : \A x : Owned(x, v) => Owned(x, v)'
      <3> SUFFICES ASSUME NEW v \in Values, NEW x, Owned(x, v) PROVE Owned(x, v)'
        OBVIOUS
      <3>1. CASE <<x, v>> \in R
        BY <1>1, <2>3, <3>1 DEF Owned
      <3>2. CASE <<x, v>> \notin R
        BY <1>1, <2>1, <3>2 DEF Owned
      <3> QED BY <3>1, <3>2
    <2>5. \A e \in outbox' : e.op = "acquire" => e \in outbox
      BY <2>1 DEF Release
    <2> QED BY <1>2, <2>4, <2>5
  <1>5. CASE ShardReplay(c) \/ DispatchLost(c)
    <2>1. UNCHANGED <<held, outbox>>
      BY <1>5 DEF ShardReplay, DispatchLost, shardVars
    <2>2. \A v \in Values : \A m : Owned(m, v) => Owned(m, v)'
      BY <1>1, <2>1, OwnersKept
    <2> QED BY <1>2, <2>1, <2>2
  <1> QED BY <1>3, <1>4, <1>5 DEF ShardStep

(* With one pass at a time the passes keep the owners: a commit follows a   *)
(* presence read under the same fence, and a cancel frees no owned value.   *)
LEMMA DriverOwners ==
  ASSUME OnePass, TypeOK, TypeOK', IInv, EvidenceInv, OInv, NEW d \in Drivers,
         \/ Driver1Step(d) \/ Driver2Step(d) \/ DriverFault(d)
         \/ \E v \in Values : Scan(d, v)
         \/ \E m \in Mutations : RowStart(d, m)
  PROVE  OwnersInv'
  <1> DEFINE o == task[d]
  <1>t. Ticket(o) /\ o \in TaskStates
    BY DEF IInv, Tickets, TypeOK
  <1>1. UNCHANGED <<outbox, held, call>>
    BY DEF Driver1Step, BeginReclaim, ResumeReclaim, ProveCommitted, ReclaimAborted,
           ReadProof, ReclaimCommit, ReclaimDiscarded, ReclaimCancel, ReclaimHold,
           ReAck, AckReplyLost, CommittedHold, DriverAcked, DriverAckFailed,
           DriverFault, ProofFailed, RowFailed, PassLost, Scan, Driver2Step,
           ReadPage, ProcessPage, Rescan, RowEnd, RowStart, shardVars
  <1>2. ASSUME \A v \in Values : \A m : Owned(m, v) /\ Relied(m, v)' => Owned(m, v)',
               \A v \in Values :
                 /\ res'[v].state = "Committed" =>
                      /\ res'[v].claim = res[v].claim
                      /\ res[v].state = "Committed" \/ Owned(res[v].claim, v)
                 /\ NonTerminal(res'[v]) =>
                      NonTerminal(res[v]) /\ res'[v].claim = res[v].claim,
               ProvenEvidence(task[d])'
        PROVE  OwnersInv'
    BY <1>1, <1>2, OwnedFrame DEF OwnersInv, OnePass
  <1>3. CASE ReadProof(d) \/ ProofFailed(d)
    <2>1. res' = res /\ acks' = acks
      BY <1>3 DEF ReadProof, ProofFailed, netVars
    <2>2. \A v \in Values : \A m : Owned(m, v) => Owned(m, v)'
      BY <1>1, <2>1, OwnersKept
    <2>3. PICK x : /\ SetTask(d, [o EXCEPT !.phase = "verdict", !.ahead = {}, !.verdict = x])
                   /\ o.phase = "proof"
                   /\ \/ x = "inconclusive" \/ x = "absent"
                      \/ x = "present" /\ Acquire(o.m, o.v) \in outbox
      BY <1>3 DEF ReadProof, ProofFailed
    <2>4. /\ task'[d].verdict = x /\ task'[d].m = o.m /\ task'[d].v = o.v
          /\ task'[d].st = o.st
      BY <1>t, <2>3 DEF SetTask, TypeOK, TaskStates
    <2>5. ProvenEvidence(task[d])'
      <3> SUFFICES ASSUME o.st # "Committed", x = "present", Fenced(task[d])',
                          NEW m, m = o.m, NEW v, v = o.v
                   PROVE  Owned(m, v)'
        BY <2>4 DEF ProvenEvidence, Reclaims, Owned
      <3>1. v \in Values /\ Undecided(m, v)
        BY <1>t, <2>1, <2>3, <2>4
        DEF Ticket, TicketOwn, Reclaims, Fenced, Undecided, NonTerminal
      <3>2. Acquire(m, v).op = "acquire" /\ Acquire(m, v).m = m /\ Acquire(m, v).v = v
        BY DEF Acquire
      <3>3. Owned(m, v)
        BY <2>3, <3>1, <3>2 DEF OInv, PinnedEvidence
      <3> QED BY <2>2, <3>1, <3>3
    <2> QED BY <1>2, <2>1, <2>2, <2>5 DEF OInv, CommittedSettled
  <1> SUFFICES ASSUME ~(ReadProof(d) \/ ProofFailed(d)) PROVE OwnersInv'
    BY <1>3
  <1>4. task'[d].phase # "verdict"
    BY HandMoves
  <1>5. ProvenEvidence(task[d])'
    BY <1>4 DEF ProvenEvidence
  <1>6. ASSUME \A e \in acks' : e \in acks \/ e.op = "acquire"
        PROVE  \A v \in Values : \A m : Owned(m, v) => Owned(m, v)'
    BY <1>1, <1>6, OwnersKept
  <1>7. CASE ProcessPage(d)
    <2> DEFINE E == {e \in o.seen : e.op = "release"}
    <2>1. /\ res' = AfterReleases(E)
          /\ \A e \in acks' : e \in acks \/ (e \in E /\ ReleaseApplied(e))
      BY <1>7 DEF ProcessPage
    <2> HIDE DEF E
    <2>2. \A v \in Values : \A m : Owned(m, v) /\ Relied(m, v)' => Owned(m, v)'
      BY <1>1, <2>1, ReleaseOwners
    <2>3. \A v \in Values : res'[v] = res[v] \/ res'[v].state = "Free"
      BY <2>1 DEF AfterReleases, Free
    <2> QED BY <1>2, <1>5, <2>2, <2>3 DEF NonTerminal
  <1>8. CASE ReclaimCommit(d)
    <2>1. /\ res' = [res EXCEPT ![o.v] = Committed(@, o.m)] /\ Fenced(o) /\ Reclaims(o)
          /\ o.phase = "verdict" /\ o.verdict = "present"
      BY <1>8 DEF ReclaimCommit, Reclaiming, Reclaims
    <2>2. \A e \in acks' : e \in acks \/ e.op = "acquire"
      BY <1>8 DEF ReclaimCommit, SendAck, Acquire
    <2>3. o.v \in Values /\ res[o.v].claim = o.m /\ Owned(o.m, o.v)
      BY <1>t, <2>1 DEF Ticket, TicketOwn, Fenced, OInv, ProvenEvidence
    <2>4. /\ \A v \in Values : v # o.v => res'[v] = res[v]
          /\ res'[o.v].state = "Committed" /\ res'[o.v].claim = o.m
      BY <2>1, <2>3 DEF TypeOK, Reservations, Committed
    <2> QED BY <1>2, <1>5, <1>6, <2>2, <2>3, <2>4 DEF NonTerminal
  <1>9. CASE ReclaimCancel(d) \/ BeginReclaim(d) \/ ReclaimHold(d)
    <2>1. acks' = acks
      BY <1>9 DEF ReclaimCancel, BeginReclaim, ReclaimHold, netVars
    <2>2. o.v \in Values
      BY <1>t, <1>9
      DEF ReclaimCancel, BeginReclaim, ReclaimHold, Reclaiming, Ticket,
          TicketScanned, TicketOwn, Reclaims
    <2>3. \A v \in Values : v # o.v => res'[v] = res[v]
      BY <1>9 DEF ReclaimCancel, BeginReclaim, ReclaimHold, TypeOK
    <2>4. \/ res' = res
          \/ res'[o.v].state = "Free"
          \/ /\ NonTerminal(res[o.v]) /\ NonTerminal(res'[o.v])
             /\ res'[o.v].claim = res[o.v].claim
      BY <1>9, <2>2 DEF ReclaimCancel, BeginReclaim, ReclaimHold, Fenced, Free,
                        NonTerminal, TypeOK, Reservations
    <2> QED BY <1>2, <1>5, <1>6, <2>1, <2>3, <2>4 DEF NonTerminal
  <1>10. CASE AckReplyLost(d) \/ DriverAcked(d)
    <2>1. acks' = acks /\ res' = [res EXCEPT ![o.v] = ClearAck(@, o.m)]
      BY <1>10 DEF AckReplyLost, DriverAcked, netVars
    <2>2. \A v \in Values : res'[v].state = res[v].state /\ res'[v].claim = res[v].claim
      BY <2>1 DEF TypeOK, Reservations, ClearAck
    <2> QED BY <1>2, <1>5, <1>6, <2>1, <2>2 DEF NonTerminal
  <1>11. CASE ~(\/ ReclaimCommit(d) \/ ReclaimCancel(d) \/ BeginReclaim(d)
                \/ ReclaimHold(d) \/ AckReplyLost(d) \/ DriverAcked(d) \/ ProcessPage(d))
    <2>1. res' = res /\ (acks' = acks \/ acks' = acks \cup {Acquire(o.m, o.v)})
      BY <1>11 DEF Driver1Step, ResumeReclaim, ProveCommitted, ReclaimAborted,
           ReclaimDiscarded, ReAck, SendAck, CommittedHold, DriverAckFailed,
           DriverFault, RowFailed, PassLost, Scan, Driver2Step,
           ReadPage, Rescan, RowEnd, RowStart, netVars
    <2>2. \A e \in acks' : e \in acks \/ e.op = "acquire"
      BY <2>1 DEF Acquire
    <2> QED BY <1>2, <1>5, <1>6, <2>1, <2>2 DEF OInv, CommittedSettled
  <1> QED BY <1>7, <1>8, <1>9, <1>10, <1>11

(* The passes ack only effects of mutations that ran.                       *)
LEMMA DriverBook ==
  ASSUME TypeOK, IInv, BookInv, NEW d \in Drivers,
         \/ Driver1Step(d) \/ Driver2Step(d) \/ DriverFault(d)
         \/ \E v \in Values : Scan(d, v)
         \/ \E m \in Mutations : RowStart(d, m)
  PROVE  BookInv'
  <1> DEFINE o == task[d]
  <1>1. UNCHANGED <<applied, call>>
    BY DEF Driver1Step, BeginReclaim, ResumeReclaim, ProveCommitted, ReclaimAborted,
           ReadProof, ReclaimCommit, ReclaimDiscarded, ReclaimCancel, ReclaimHold,
           ReAck, AckReplyLost, CommittedHold, DriverAcked, DriverAckFailed,
           DriverFault, ProofFailed, RowFailed, PassLost, Scan, Driver2Step,
           ReadPage, ProcessPage, Rescan, RowEnd, RowStart, shardVars
  <1>2. rec' = rec \/ ReclaimCancel(d)
    BY DEF Driver1Step, BeginReclaim, ResumeReclaim, ProveCommitted, ReclaimAborted,
           ReadProof, ReclaimCommit, ReclaimDiscarded, ReclaimHold,
           ReAck, AckReplyLost, CommittedHold, DriverAcked, DriverAckFailed,
           DriverFault, ProofFailed, RowFailed, PassLost, Scan, Driver2Step,
           ReadPage, ProcessPage, Rescan, RowEnd, RowStart
  <1>3. \A c \in Calls : rec[KeyOf[c]] \in {"completed", "evicted"} =>
                           rec'[KeyOf[c]] \in {"completed", "evicted"}
    BY <1>2, ConstantsAssumption DEF ReclaimCancel, CanCancel, TypeOK
  <1>4. \A x \in Drivers : \A e \in task'[x].seen : e \in task[x].seen \/ e.m \in applied
    BY HandMoves DEF IInv, ShardShape
  <1>5. \A e \in acks' : e \in acks \/ e.m \in applied
    <2>1. CASE ProcessPage(d)
      BY <2>1 DEF ProcessPage, BookInv, AcksRan
    <2>2. CASE ReclaimCommit(d) \/ ReAck(d)
      <3>1. acks' = acks \cup {Acquire(o.m, o.v)} /\ o.phase = "verdict"
            /\ o.verdict = "present"
        BY <2>2 DEF ReclaimCommit, ReAck, SendAck, Reclaiming, CommittedProof
      <3>2. o.m \in applied /\ Acquire(o.m, o.v).m = o.m
        BY <3>1 DEF IInv, Tickets, Ticket, TicketPresent, Acquire
      <3> QED BY <3>1, <3>2
    <2>3. CASE ~(ProcessPage(d) \/ ReclaimCommit(d) \/ ReAck(d))
      BY <2>3
      DEF Driver1Step, BeginReclaim, ResumeReclaim, ProveCommitted, ReclaimAborted,
           ReadProof, ReclaimDiscarded, ReclaimCancel, ReclaimHold,
           AckReplyLost, CommittedHold, DriverAcked, DriverAckFailed,
           DriverFault, ProofFailed, RowFailed, PassLost, Scan, Driver2Step,
           ReadPage, Rescan, RowEnd, RowStart, netVars
    <2> QED BY <2>1, <2>2, <2>3
  <1> QED BY <1>1, <1>3, <1>4, <1>5, BookFrame

(* Every step keeps the owners.                                             *)
LEMMA OwnersNext ==
  ASSUME OnePass, TypeOK, TypeOK', IInv, EvidenceInv, OInv, [Next]_vars
  PROVE  OInv'
  <1>0. BookInv /\ OwnersInv
    BY DEF OInv, BookInv, OwnersInv
  <1>1. (OwnersInv /\ BookInv)' => OInv'
    BY DEF OInv, BookInv, OwnersInv
  <1>2. ASSUME UNCHANGED <<res, call, task, held, applied>>, acks' \subseteq acks,
               outbox' \subseteq outbox,
               \A e \in outbox \ acks : e \in outbox',
               \A m \in Mutations : rec[m] \in {"completed", "evicted"} =>
                                      rec'[m] \in {"completed", "evicted"}
        PROVE  OInv'
    <2>1. \A v \in Values : \A m : Owned(m, v) => Owned(m, v)'
      BY <1>2, OwnersKept
    <2>2. OwnersInv'
      BY <1>2, <2>1, OwnedFrame DEF OwnersInv, OInv, CommittedSettled
    <2>3. \A c \in Calls : KeyOf[c] \in Mutations
      BY ConstantsAssumption
    <2>4. BookInv'
      BY <1>0, <1>2, <2>3, BookFrame
    <2> QED BY <1>1, <2>2, <2>4
  <1>3. ASSUME NEW c \in Calls, CallStep(c) PROVE OInv'
    BY <1>0, <1>1, <1>3, CallOwners, CallBook
  <1>4. ASSUME NEW c \in Calls, ShardStep(c) PROVE OInv'
    <2>1. UNCHANGED <<rec, call, task, acks>> /\ applied \subseteq applied'
      BY <1>4 DEF ShardStep, ShardInsert, ShardDelete, ShardReplay, DispatchLost, shardVars
    <2>2. BookInv'
      BY <1>0, <2>1, BookFrame
    <2> QED BY <1>1, <1>4, <2>2, ShardOwners
  <1>5. ASSUME NEW e \in acks, AckEffect(e) \/ AckLost(e) PROVE OInv'
    BY <1>2, <1>5 DEF AckEffect, AckLost, shardVars
  <1>6. ASSUME NEW m \in Mutations, RecordStep(m) PROVE OInv'
    BY <1>2, <1>6
    DEF RecordStep, RecoverCapture, RecoverAdvance, EvictRecord, Captured,
        Completed, TypeOK, shardVars, netVars
  <1>7. ASSUME NEW d \in Drivers,
               \/ Driver1Step(d) \/ Driver2Step(d) \/ DriverFault(d)
               \/ \E v \in Values : Scan(d, v)
               \/ \E m \in Mutations : RowStart(d, m)
        PROVE  OInv'
    BY <1>0, <1>1, <1>7, DriverOwners, DriverBook
  <1>8. CASE UNCHANGED vars
    BY <1>2, <1>8 DEF vars
  <1>9. CASE Next
    BY <1>3, <1>4, <1>5, <1>6, <1>7, <1>9 DEF Next
  <1> QED BY <1>8, <1>9

(* A committed value is never lost: its element is there, or the Release    *)
(* that frees it is still pinned.  The hypothesis is what the timer         *)
(* guarantees (PassesAlone): passes do not overlap.  A late retry of a      *)
(* claim that was committed, deleted and released reserves its value a      *)
(* second time while the record is open; of two passes one could carry the  *)
(* presence read under the first reservation over to the second.            *)
THEOREM NoLostValue ==
  ASSUME OnePass
  PROVE  Spec => []CommittedOwned
  <1>1. Init => OInv
    BY DEF Init, OInv, CommittedSettled, PinnedEvidence, SeenEvidence,
           ProvenEvidence, SettlesCompleted, AcksRan, Reclaims, Free, Idle
  <1>2. TypeOK /\ TypeOK' /\ IInv /\ EInv /\ OInv /\ [Next]_vars => OInv'
    BY OwnersNext DEF EInv
  <1>3. IInv /\ OInv => CommittedOwned
    BY DEF IInv, ClaimShape, OInv, CommittedSettled, Owned, CommittedOwned
  <1> QED BY <1>1, <1>2, <1>3, EffectsSafety, PTL DEF Spec

------------------------------------------------------------------------------
(* Absence is non-commit, and a failed mutation wrote nothing.              *)

(* What NInv says of decided claims, of the calls still to dispatch, and    *)
(* of the failed records.                                                   *)
DecidedInv ==
  NoneIsNonCommit /\ AcksDecided /\ \A d \in Drivers : TicketDecided(task[d])
DispatchInv == WrittenHeld /\ FirstDispatch

(* A step reopens no claim of a mutation that has written.                  *)
NoRelapse == \A v \in Values : \A m \in applied : Undecided(m, v)' => Undecided(m, v)

(* The Acquires unpinned by a step are acked ones, and an ack is sent only  *)
(* for a decided claim: absence keeps meaning non-commit.                   *)
LEMMA DecidedFrame ==
  ASSUME TypeOK, TypeOK', IInv, DecidedInv, NoRelapse, applied' = applied,
         \A e \in outbox : e \in outbox' \/ e \in acks,
         \A e \in acks' : e.op = "acquire" => e \in acks \/ ~Undecided(e.m, e.v)',
         \A d \in Drivers : task'[d] = task[d] \/ TicketDecided(task[d])'
  PROVE  DecidedInv'
  <1>1. NoneIsNonCommit'
    <2> SUFFICES ASSUME NEW v \in Values, NonTerminal(res'[v]), NEW m \in applied,
                        m = res'[v].claim
                 PROVE  Acquire(m, v) \in outbox'
      BY DEF NoneIsNonCommit
    <2>1. Undecided(m, v)
      BY DEF NoRelapse, Undecided
    <2>2. Acquire(m, v) \in outbox
      BY <2>1 DEF DecidedInv, NoneIsNonCommit, Undecided
    <2>3. Acquire(m, v).op = "acquire" /\ Acquire(m, v).m = m /\ Acquire(m, v).v = v
      BY DEF Acquire
    <2>4. Acquire(m, v) \notin acks
      BY <2>1, <2>3 DEF DecidedInv, AcksDecided
    <2> QED BY <2>2, <2>4
  <1>2. AcksDecided'
    <2> SUFFICES ASSUME NEW e \in acks', e.op = "acquire", e \in acks
                 PROVE  ~Undecided(e.m, e.v)'
      BY DEF AcksDecided, Undecided
    <2>1. e.m \in applied /\ e.v \in Values
      BY DEF IInv, AcksCommitted, TypeOK, Effects
    <2> QED BY <2>1 DEF DecidedInv, AcksDecided, NoRelapse
  <1>3. ASSUME NEW d \in Drivers, task'[d] = task[d] PROVE TicketDecided(task[d])'
    <2> DEFINE t == task[d]
    <2> SUFFICES ASSUME t.phase \in {"scanned", "proof", "verdict"}, t.st = "Committed",
                        NEW m, m = t.m, NEW v, v = t.v
                 PROVE  ~Undecided(m, v)'
      BY <1>3 DEF TicketDecided, Undecided
    <2>1. m \in applied /\ v \in Values
      BY DEF IInv, Tickets, Ticket, TicketCommitted
    <2>2. ~Undecided(m, v)
      BY DEF DecidedInv, TicketDecided
    <2> QED BY <2>1, <2>2 DEF NoRelapse
  <1> QED BY <1>1, <1>2, <1>3 DEF DecidedInv

(* A Try reserves no value for an insert that has written: its values are   *)
(* still held and so reserved, or no earlier call of it was dispatched.     *)
LEMMA NothingFresh ==
  ASSUME NoLateRetry, TypeOK, IInv, DispatchInv, NEW c \in Calls, DispatchInsert(c),
         KeyOf[c] \in applied
  PROVE  FreshClaims(KeyOf[c]) = {}
  <1>1. call[c].pc = "prepared" /\ KeyOf[c] \in Inserts
    BY DEF DispatchInsert
  <1>2. Deletes = {}
    BY <1>1 DEF NoLateRetry, DispatchInv, FirstDispatch
  <1>3. ASSUME NEW v \in Claims[KeyOf[c]] PROVE res[v].state # "Free"
    <2>1. <<KeyOf[c], v>> \in held
      BY <1>1, <1>2 DEF DispatchInv, WrittenHeld
    <2> QED BY <2>1 DEF IInv, LiveIsReserved
  <1> QED BY <1>3 DEF FreshClaims

(* Calls: only a Try inserts reservations, and Confirm acks only what it    *)
(* has just committed or finds committed.                                   *)
LEMMA CallDecided ==
  ASSUME NoLateRetry, TypeOK, TypeOK', IInv, DecidedInv, DispatchInv,
         NEW c \in Calls, CallStep(c)
  PROVE  DecidedInv'
  <1>1. UNCHANGED <<task, outbox, applied>>
    BY DEF CallStep, ReserveKey, ReplayKey, ReplayEarly, AbandonRouting,
           EnvelopeRefused, TryRefused, DispatchInsert, DispatchDelete,
           CallCapture, CallAdvance, ReadEffects, Confirm, ReconcileReleases,
           ConfirmAcked, ConfirmAckFailed, shardVars
  <1>2. ASSUME NoRelapse,
               \A e \in acks' : e.op = "acquire" => e \in acks \/ ~Undecided(e.m, e.v)'
        PROVE  DecidedInv'
    BY <1>1, <1>2, DecidedFrame
  <1>3. CASE DispatchInsert(c)
    <2> DEFINE k == KeyOf[c]
    <2>1. acks' = acks
      BY <1>3 DEF DispatchInsert
    <2>2. Reserved(k).claim = k
      BY DEF Reserved, Free
    <2>3. \A v \in Values : res'[v] = res[v] \/ (v \in FreshClaims(k) /\ res'[v] = Reserved(k))
      BY <1>3 DEF DispatchInsert
    <2>4. k \in applied => FreshClaims(k) = {}
      BY <1>3, NothingFresh
    <2>5. NoRelapse
      BY <2>2, <2>3, <2>4 DEF NoRelapse, Undecided
    <2> QED BY <1>2, <2>1, <2>5
  <1>4. CASE Confirm(c)
    <2> DEFINE m == KeyOf[c]
    <2>1. ASSUME NEW v \in Values
          PROVE  \/ res'[v] = res[v] /\ ~ \E e \in call[c].seen : e.v = v /\ FreshCommit(e)
                 \/ res'[v].state = "Committed"
      <3>1. res[v] \in Reservations
        BY DEF TypeOK
      <3> QED BY <1>4, <3>1 DEF Confirm, Committed, Reservations
    <2>2. NoRelapse
      BY <2>1 DEF NoRelapse, Undecided, NonTerminal
    <2>3. ASSUME NEW e \in acks', e \notin acks PROVE ~Undecided(e.m, e.v)'
      <3>1. e \in call[c].seen /\ ConfirmAcks(e)
        BY <1>4, <2>3 DEF Confirm
      <3>2. e.v \in Values
        BY <3>1 DEF TypeOK, CallStates, Effects
      <3>3. res'[e.v].state = "Committed"
        BY <2>1, <3>1, <3>2 DEF ConfirmAcks, FreshCommit
      <3> QED BY <3>3 DEF Undecided, NonTerminal
    <2> QED BY <1>2, <2>2, <2>3
  <1>5. CASE ReconcileReleases(c)
    <2>1. \A v \in Values : res'[v] = res[v] \/ res'[v].state = "Free"
      BY <1>5 DEF ReconcileReleases, AfterReleases, Free
    <2>2. \A e \in acks' : e \in acks \/ e.op = "release"
      BY <1>5 DEF ReconcileReleases, IInv, CallReads
    <2>3. NoRelapse
      BY <2>1 DEF NoRelapse, Undecided, NonTerminal
    <2> QED BY <1>2, <2>2, <2>3
  <1>6. CASE ConfirmAcked(c)
    <2>1. acks' = acks
      BY <1>6 DEF ConfirmAcked, netVars
    <2>2. \A v \in Values : res'[v].state = res[v].state /\ res'[v].claim = res[v].claim
      <3> SUFFICES ASSUME NEW v \in Values
                   PROVE  res'[v].state = res[v].state /\ res'[v].claim = res[v].claim
        OBVIOUS
      <3>1. res'[v] = ClearAck(res[v], KeyOf[c]) \/ res'[v] = res[v]
        BY <1>6 DEF ConfirmAcked
      <3> QED BY <3>1 DEF ClearAck, TypeOK, Reservations
    <2>3. NoRelapse
      BY <2>2 DEF NoRelapse, Undecided, NonTerminal
    <2> QED BY <1>2, <2>1, <2>3
  <1>7. CASE ~(DispatchInsert(c) \/ Confirm(c) \/ ReconcileReleases(c) \/ ConfirmAcked(c))
    <2>1. res' = res /\ acks' = acks
      BY <1>7 DEF CallStep, ReserveKey, ReplayKey, ReplayEarly, AbandonRouting,
           EnvelopeRefused, TryRefused, DispatchDelete,
           CallCapture, CallAdvance, ReadEffects, ConfirmAckFailed, netVars
    <2> QED BY <1>2, <2>1 DEF NoRelapse, Undecided
  <1> QED BY <1>3, <1>4, <1>5, <1>6, <1>7

(* Shards: the canonical write pins an Acquire for every claimed value.     *)
LEMMA ShardDecided ==
  ASSUME TypeOK, TypeOK', IInv, DecidedInv, NEW c \in Calls, ShardStep(c)
  PROVE  DecidedInv'
  <1>1. UNCHANGED <<res, task, acks>> /\ outbox \subseteq outbox'
    BY DEF ShardStep, ShardInsert, ShardDelete, ShardReplay, DispatchLost, shardVars
  <1>2. AcksDecided' /\ \A d \in Drivers : TicketDecided(task[d])'
    BY <1>1 DEF DecidedInv, AcksDecided, TicketDecided, Undecided
  <1>3. NoneIsNonCommit'
    <2> SUFFICES ASSUME NEW v \in Values, NonTerminal(res[v]), NEW m, m = res[v].claim,
                        m \in applied'
                 PROVE  Acquire(m, v) \in outbox'
      BY <1>1 DEF NoneIsNonCommit
    <2>1. CASE m \in applied
      BY <1>1, <2>1 DEF DecidedInv, NoneIsNonCommit
    <2>2. CASE m \notin applied
      <3>1. m \in Inserts /\ v \in Claims[m]
        BY DEF IInv, ClaimShape, NonTerminal
      <3>2. ShardInsert(c) /\ KeyOf[c] = m
        BY <2>2, <3>1, ConstantsAssumption
        DEF ShardStep, ShardInsert, ShardDelete, ShardReplay, DispatchLost, shardVars
      <3> QED BY <3>1, <3>2 DEF ShardInsert
    <2> QED BY <2>1, <2>2
  <1> QED BY <1>2, <1>3 DEF DecidedInv

(* Passes: a ticket for a committed claim is opened on a committed one, and *)
(* an ack is sent under such a ticket or with the commit itself.            *)
LEMMA DriverDecided ==
  ASSUME TypeOK, TypeOK', IInv, DecidedInv, NEW d \in Drivers,
         \/ Driver1Step(d) \/ Driver2Step(d) \/ DriverFault(d)
         \/ \E v \in Values : Scan(d, v)
         \/ \E m \in Mutations : RowStart(d, m)
  PROVE  DecidedInv'
  <1> DEFINE o == task[d]
  <1>t. Ticket(o) /\ o \in TaskStates /\ TicketDecided(o)
    BY DEF IInv, Tickets, TypeOK, DecidedInv
  <1>1. UNCHANGED <<outbox, applied>>
    BY DEF Driver1Step, BeginReclaim, ResumeReclaim, ProveCommitted, ReclaimAborted,
           ReadProof, ReclaimCommit, ReclaimDiscarded, ReclaimCancel, ReclaimHold,
           ReAck, AckReplyLost, CommittedHold, DriverAcked, DriverAckFailed,
           DriverFault, ProofFailed, RowFailed, PassLost, Scan, Driver2Step,
           ReadPage, ProcessPage, Rescan, RowEnd, RowStart, shardVars
  <1>2. ASSUME NoRelapse, TicketDecided(task[d])',
               \A e \in acks' : e.op = "acquire" => e \in acks \/ ~Undecided(e.m, e.v)'
        PROVE  DecidedInv'
    BY <1>1, <1>2, HandMoves, DecidedFrame
  <1>3. ASSUME res' = res, \A e \in acks' : e \in acks \/ e.op = "release",
               TicketDecided(task[d])'
        PROVE  DecidedInv'
    BY <1>2, <1>3 DEF NoRelapse, Undecided
  <1>4. ASSUME NEW t, SetTask(d, t), t.phase \notin {"scanned", "proof", "verdict"}
        PROVE  TicketDecided(task[d])'
    BY <1>4 DEF SetTask, TypeOK, TicketDecided
  <1>5. ASSUME SetTask(d, Idle) PROVE TicketDecided(task[d])'
    BY <1>4, <1>5 DEF Idle
  <1>6. ASSUME NEW v \in Values, Scan(d, v) PROVE DecidedInv'
    <2>1. res' = res /\ acks' = acks
      BY <1>6 DEF Scan, netVars
    <2>2. task'[d].v = v /\ task'[d].m = res[v].claim /\ task'[d].st = res[v].state
      BY <1>6, IdleType DEF Scan, SetTask, TypeOK, Idle
    <2>3. TicketDecided(task[d])'
      BY <2>1, <2>2 DEF TicketDecided, Undecided, NonTerminal
    <2> QED BY <1>3, <2>1, <2>3
  <1>7. CASE ResumeReclaim(d) \/ BeginReclaim(d)
    <2>1. acks' = acks /\ o.phase = "scanned" /\ o.st # "Committed" /\ o.v \in Values
      BY <1>t, <1>7 DEF ResumeReclaim, BeginReclaim, netVars, Ticket, TicketScanned
    <2>2. task'[d].st = o.st
      <3>1. PICK m, g : SendProof(d, m, g)
        BY <1>7 DEF ResumeReclaim, BeginReclaim
      <3> QED BY <1>t, <3>1 DEF SendProof, SetTask, TypeOK, TaskStates
    <2>3. \A v \in Values : \/ res'[v] = res[v]
                            \/ /\ NonTerminal(res[v]) /\ res'[v].claim = res[v].claim
      BY <1>7, <2>1 DEF ResumeReclaim, BeginReclaim, TypeOK, Reservations, NonTerminal
    <2>4. NoRelapse /\ TicketDecided(task[d])'
      BY <2>1, <2>2, <2>3 DEF NoRelapse, Undecided, TicketDecided
    <2> QED BY <1>2, <2>1, <2>4
  <1>8. CASE ProveCommitted(d) \/ ReadProof(d) \/ ProofFailed(d)
    <2>1. res' = res /\ acks' = acks /\ o.phase \in {"scanned", "proof"}
      BY <1>8 DEF ProveCommitted, ReadProof, ProofFailed, netVars
    <2>2. task'[d].st = o.st /\ task'[d].m = o.m /\ task'[d].v = o.v
      <3>1. CASE ProveCommitted(d)
        BY <1>t, <3>1 DEF ProveCommitted, SendProof, SetTask, TypeOK, TaskStates
      <3>2. CASE ReadProof(d) \/ ProofFailed(d)
        <4>1. PICK x : SetTask(d, [o EXCEPT !.phase = "verdict", !.ahead = {}, !.verdict = x])
          BY <3>2 DEF ReadProof, ProofFailed
        <4> QED BY <1>t, <4>1 DEF SetTask, TypeOK, TaskStates
      <3> QED BY <1>8, <3>1, <3>2
    <2>3. TicketDecided(task[d])'
      BY <1>t, <2>1, <2>2 DEF TicketDecided, Undecided
    <2> QED BY <1>3, <2>1, <2>3
  <1>9. CASE ReclaimCommit(d)
    <2> DEFINE t == [o EXCEPT !.phase = "ack", !.verdict = "none", !.gen = 0]
    <2>1. SetTask(d, t) /\ t.phase = "ack"
      BY <1>t, <1>9 DEF ReclaimCommit, SendAck, TaskStates
    <2> HIDE DEF t
    <2>2. /\ res' = [res EXCEPT ![o.v] = Committed(@, o.m)] /\ Reclaims(o)
          /\ acks' = acks \cup {Acquire(o.m, o.v)}
      BY <1>9 DEF ReclaimCommit, SendAck, Reclaiming, Reclaims
    <2>3. o.v \in Values
      BY <1>t, <2>2 DEF Ticket, TicketOwn
    <2>4. res'[o.v].state = "Committed" /\ \A v \in Values : v # o.v => res'[v] = res[v]
      BY <2>2, <2>3 DEF TypeOK, Reservations, Committed
    <2>5. NoRelapse
      BY <2>4 DEF NoRelapse, Undecided, NonTerminal
    <2>6. Acquire(o.m, o.v).v = o.v
      BY DEF Acquire
    <2>7. \A e \in acks' : e \in acks \/ ~Undecided(e.m, e.v)'
      BY <2>2, <2>4, <2>6 DEF Undecided, NonTerminal
    <2> QED BY <1>2, <1>4, <2>1, <2>5, <2>7
  <1>10. CASE ReAck(d)
    <2> DEFINE t == [o EXCEPT !.phase = "ack", !.verdict = "none", !.gen = 0]
    <2>1. SetTask(d, t) /\ t.phase = "ack"
      BY <1>t, <1>10 DEF ReAck, SendAck, TaskStates
    <2> HIDE DEF t
    <2>2. /\ res' = res /\ acks' = acks \cup {Acquire(o.m, o.v)}
          /\ o.phase = "verdict" /\ o.st = "Committed"
      BY <1>10 DEF ReAck, SendAck, CommittedProof
    <2>3. Acquire(o.m, o.v).m = o.m /\ Acquire(o.m, o.v).v = o.v
      BY DEF Acquire
    <2>4. ~Undecided(o.m, o.v)
      BY <1>t, <2>2 DEF TicketDecided
    <2>5. \A e \in acks' : e \in acks \/ ~Undecided(e.m, e.v)
      BY <2>2, <2>3, <2>4
    <2>6. NoRelapse
      BY <2>2 DEF NoRelapse, Undecided
    <2>7. \A e \in acks' : e \in acks \/ ~Undecided(e.m, e.v)'
      BY <2>2, <2>5 DEF Undecided
    <2> QED BY <1>2, <1>4, <2>1, <2>6, <2>7
  <1>11. CASE ReclaimCancel(d) \/ ReclaimHold(d)
    <2>1. acks' = acks /\ SetTask(d, Idle) /\ Reclaims(o)
      BY <1>11 DEF ReclaimCancel, ReclaimHold, netVars, Reclaiming, Reclaims
    <2>2. o.v \in Values
      BY <1>t, <2>1 DEF Ticket, TicketOwn
    <2>3. \A v \in Values : \/ res'[v] = res[v] \/ res'[v].state = "Free"
                            \/ /\ NonTerminal(res[v]) /\ res'[v].claim = res[v].claim
      BY <1>11, <2>2
      DEF ReclaimCancel, ReclaimHold, Fenced, Free, NonTerminal, TypeOK, Reservations
    <2>4. NoRelapse
      BY <2>3 DEF NoRelapse, Undecided, NonTerminal
    <2> QED BY <1>2, <1>5, <2>1, <2>4
  <1>12. CASE AckReplyLost(d) \/ DriverAcked(d)
    <2>1. /\ acks' = acks /\ res' = [res EXCEPT ![o.v] = ClearAck(@, o.m)]
          /\ SetTask(d, Idle)
      BY <1>12 DEF AckReplyLost, DriverAcked, netVars
    <2>2. \A v \in Values : res'[v].state = res[v].state /\ res'[v].claim = res[v].claim
      BY <2>1 DEF TypeOK, Reservations, ClearAck
    <2>3. NoRelapse
      BY <2>2 DEF NoRelapse, Undecided, NonTerminal
    <2> QED BY <1>2, <1>5, <2>1, <2>3
  <1>13. CASE \/ ReclaimAborted(d) \/ ReclaimDiscarded(d) \/ CommittedHold(d)
              \/ DriverAckFailed(d) \/ RowFailed(d) \/ PassLost(d) \/ RowEnd(d)
    <2>1. res' = res /\ acks' = acks /\ SetTask(d, Idle)
      BY <1>13 DEF ReclaimAborted, ReclaimDiscarded, CommittedHold, DriverAckFailed,
                   RowFailed, PassLost, RowEnd, netVars
    <2> QED BY <1>3, <1>5, <2>1
  <1>14. CASE ReadPage(d) \/ Rescan(d) \/ \E m \in Mutations : RowStart(d, m)
    <2>1. res' = res /\ acks' = acks
      BY <1>14 DEF ReadPage, Rescan, RowStart, netVars
    <2>2. task'[d].phase \in Draining
      <3>1. \/ SetTask(d, [o EXCEPT !.phase = "rescan"])
            \/ \E E : SetTask(d, [o EXCEPT !.phase = "paged", !.seen = E])
            \/ \E E : SetTask(d, [o EXCEPT !.phase = "rescanned", !.seen = E])
            \/ \E m : SetTask(d, [Idle EXCEPT !.phase = "page", !.m = m])
        BY <1>14 DEF ReadPage, Rescan, RowStart
      <3>2. ASSUME NEW E, NEW m
            PROVE  /\ [o EXCEPT !.phase = "rescan"].phase = "rescan"
                   /\ [o EXCEPT !.phase = "paged", !.seen = E].phase = "paged"
                   /\ [o EXCEPT !.phase = "rescanned", !.seen = E].phase = "rescanned"
                   /\ [Idle EXCEPT !.phase = "page", !.m = m].phase = "page"
        BY <1>t, IdleType DEF TaskStates
      <3>3. \E t : SetTask(d, t) /\ t.phase \in Draining
        BY <3>1, <3>2 DEF Draining
      <3> QED BY <3>3 DEF SetTask, TypeOK
    <2>3. TicketDecided(task[d])'
      BY <2>2 DEF TicketDecided, Draining
    <2> QED BY <1>3, <2>1, <2>3
  <1>15. CASE ProcessPage(d)
    <2>1. /\ \A v \in Values : res'[v] = res[v] \/ res'[v].state = "Free"
          /\ \A e \in acks' : e \in acks \/ e.op = "release"
      BY <1>15 DEF ProcessPage, AfterReleases, Free
    <2>2. task'[d].phase = "rescan"
      BY <1>t, <1>15 DEF ProcessPage, SetTask, TypeOK, TaskStates
    <2>3. NoRelapse /\ TicketDecided(task[d])'
      BY <2>1, <2>2 DEF NoRelapse, Undecided, NonTerminal, TicketDecided
    <2> QED BY <1>2, <2>1, <2>3
  <1> QED BY <1>6, <1>7, <1>8, <1>9, <1>10, <1>11, <1>12, <1>13, <1>14, <1>15
      DEF Driver1Step, Driver2Step, DriverFault

(* Before a call dispatches, its insert is unwritten or its values are      *)
(* still held.                                                              *)
LEMMA DispatchNext ==
  ASSUME TypeOK, DispatchInv, [Next]_vars
  PROVE  DispatchInv'
  <1> DEFINE Before == {"new", "prepared"}
  <1>0. \A c \in Calls : KeyOf[c] \in Mutations
    BY ConstantsAssumption
  <1>1. ASSUME UNCHANGED <<held, applied>>,
               \A c \in Calls : call'[c].pc \in Before => call[c].pc \in Before,
               \A c \in Calls : c \in flight' /\ c \notin flight => call'[c].pc \notin Before
        PROVE  DispatchInv'
    BY <1>1 DEF DispatchInv, WrittenHeld, FirstDispatch
  <1>2. ASSUME NEW c \in Calls, CallStep(c) PROVE DispatchInv'
    <2>1. UNCHANGED <<held, applied>>
      BY <1>2
      DEF CallStep, ReserveKey, ReplayKey, ReplayEarly, AbandonRouting,
           EnvelopeRefused, TryRefused, DispatchInsert, DispatchDelete,
           CallCapture, CallAdvance, ReadEffects, Confirm, ReconcileReleases,
           ConfirmAcked, ConfirmAckFailed, shardVars
    <2>2. \A x \in Calls : x # c => call'[x] = call[x]
      BY <1>2 DEF TypeOK, SetCall, CallStep, ReserveKey, ReplayKey, ReplayEarly,
           AbandonRouting, EnvelopeRefused, TryRefused, DispatchInsert, DispatchDelete,
           CallCapture, CallAdvance, ReadEffects, Confirm, ReconcileReleases,
           ConfirmAcked, ConfirmAckFailed
    <2>3. CASE DispatchInsert(c) \/ DispatchDelete(c)
      <3>1. call'[c].pc = "sent"
        BY <2>3 DEF DispatchInsert, DispatchDelete, SetCall, TypeOK
      <3>2. flight' \subseteq flight \cup {c}
        BY <2>3 DEF DispatchInsert, DispatchDelete, DispatchGate
      <3> QED BY <1>1, <2>1, <2>2, <3>1, <3>2
    <2>4. CASE ~(DispatchInsert(c) \/ DispatchDelete(c))
      <3>1. flight' = flight
        BY <1>2, <2>4
        DEF CallStep, ReserveKey, ReplayKey, ReplayEarly, AbandonRouting,
           EnvelopeRefused, TryRefused, CallCapture, CallAdvance, ReadEffects,
           Confirm, ReconcileReleases, ConfirmAcked, ConfirmAckFailed, netVars
      <3>2. call'[c].pc \in Before => call[c].pc \in Before
        BY <1>2, <2>4
        DEF TypeOK, SetCall, CallStep, ReserveKey, ReplayKey, ReplayEarly,
           AbandonRouting, EnvelopeRefused, TryRefused, CallCapture, CallAdvance,
           ReadEffects, Confirm, ReconcileReleases, ConfirmAcked, ConfirmAckFailed
      <3> QED BY <1>1, <2>1, <2>2, <3>1, <3>2
    <2> QED BY <2>3, <2>4
  <1>3. ASSUME NEW c \in Calls, ShardInsert(c) \/ ShardDelete(c) PROVE DispatchInv'
    <2>1. /\ c \in flight /\ flight' \subseteq flight /\ applied' = applied \cup {KeyOf[c]}
          /\ UNCHANGED call
      BY <1>3 DEF ShardInsert, ShardDelete
    <2>2. FirstDispatch'
      BY <2>1 DEF DispatchInv, FirstDispatch, Once
    <2>3. WrittenHeld'
      <3> SUFFICES ASSUME Deletes = {}, NEW m \in applied' \cap Inserts, NEW v \in Claims[m]
                   PROVE  <<m, v>> \in held'
        BY DEF WrittenHeld
      <3>1. ShardInsert(c)
        BY <1>3 DEF ShardDelete
      <3>2. held' = held \cup {<<KeyOf[c], x>> : x \in Claims[KeyOf[c]]}
        BY <3>1 DEF ShardInsert
      <3>3. CASE m \in applied
        BY <3>2, <3>3 DEF DispatchInv, WrittenHeld
      <3>4. CASE m = KeyOf[c]
        BY <3>2, <3>4
      <3> QED BY <2>1, <3>3, <3>4
    <2> QED BY <2>2, <2>3 DEF DispatchInv
  <1>4. ASSUME NEW c \in Calls, ShardReplay(c) \/ DispatchLost(c) PROVE DispatchInv'
    BY <1>1, <1>4 DEF ShardReplay, DispatchLost, shardVars
  <1>5. ASSUME NEW e \in acks, AckEffect(e) \/ AckLost(e) PROVE DispatchInv'
    BY <1>1, <1>5 DEF AckEffect, AckLost, shardVars
  <1>6. ASSUME NEW m \in Mutations, RecordStep(m) PROVE DispatchInv'
    BY <1>1, <1>6
    DEF RecordStep, RecoverCapture, RecoverAdvance, EvictRecord, shardVars, netVars
  <1>7. ASSUME NEW d \in Drivers,
               \/ Driver1Step(d) \/ Driver2Step(d) \/ DriverFault(d)
               \/ \E v \in Values : Scan(d, v)
               \/ \E m \in Mutations : RowStart(d, m)
        PROVE  DispatchInv'
    <2>1. UNCHANGED <<held, applied, call, flight>>
      BY <1>7
      DEF Driver1Step, BeginReclaim, ResumeReclaim, ProveCommitted, ReclaimAborted,
           ReadProof, ReclaimCommit, ReclaimDiscarded, ReclaimCancel, ReclaimHold,
           ReAck, AckReplyLost, CommittedHold, DriverAcked, DriverAckFailed,
           DriverFault, ProofFailed, RowFailed, PassLost, Scan, Driver2Step,
           ReadPage, ProcessPage, Rescan, RowEnd, RowStart, shardVars, netVars
    <2> QED BY <1>1, <2>1
  <1>8. CASE UNCHANGED vars
    BY <1>1, <1>8 DEF vars
  <1> QED BY <1>2, <1>3, <1>4, <1>5, <1>6, <1>7, <1>8 DEF Next, ShardStep

(* Only a cancel fails a record, and it has just proved that its insert     *)
(* wrote nothing; a request of a failed record writes no more.              *)
LEMMA FailedNext ==
  ASSUME TypeOK, IInv, EvidenceInv, NoneIsNonCommit, FailedUnwritten, [Next]_vars
  PROVE  FailedUnwritten'
  <1>1. ASSUME applied' = applied,
               \A m \in Mutations : rec'[m] = "failed" => rec[m] = "failed"
        PROVE  FailedUnwritten'
    BY <1>1 DEF FailedUnwritten
  <1>2. ASSUME NEW c \in Calls, CallStep(c) PROVE FailedUnwritten'
    <2>1. applied' = applied
      BY <1>2
      DEF CallStep, ReserveKey, ReplayKey, ReplayEarly, AbandonRouting,
           EnvelopeRefused, TryRefused, DispatchInsert, DispatchDelete,
           CallCapture, CallAdvance, ReadEffects, Confirm, ReconcileReleases,
           ConfirmAcked, ConfirmAckFailed, shardVars
    <2>2. \A m \in Mutations : rec'[m] = "failed" => rec[m] = "failed"
      BY <1>2, ConstantsAssumption
      DEF TypeOK, CallStep, ReserveKey, ReplayKey, ReplayEarly, AbandonRouting,
           EnvelopeRefused, TryRefused, DispatchInsert, DispatchDelete,
           CallCapture, CallAdvance, ReadEffects, Confirm, ReconcileReleases,
           ConfirmAcked, ConfirmAckFailed, PersistEnvelope, Captured, Completed
    <2> QED BY <1>1, <2>1, <2>2
  <1>3. ASSUME NEW c \in Calls, ShardStep(c) PROVE FailedUnwritten'
    <2>1. /\ rec' = rec
          /\ \/ applied' = applied
             \/ c \in flight /\ KeyOf[c] \notin applied /\ applied' = applied \cup {KeyOf[c]}
      BY <1>3 DEF ShardStep, ShardInsert, ShardDelete, ShardReplay, DispatchLost, shardVars
    <2> QED BY <2>1 DEF FailedUnwritten, IInv, DispatchCovered, Gone
  <1>4. ASSUME NEW e \in acks, AckEffect(e) \/ AckLost(e) PROVE FailedUnwritten'
    BY <1>1, <1>4 DEF AckEffect, AckLost, shardVars
  <1>5. ASSUME NEW m \in Mutations, RecordStep(m) PROVE FailedUnwritten'
    BY <1>1, <1>5
    DEF RecordStep, RecoverCapture, RecoverAdvance, EvictRecord, Captured,
        Completed, TypeOK, shardVars
  <1>6. ASSUME NEW d \in Drivers, ReclaimCancel(d) PROVE FailedUnwritten'
    <2> DEFINE t == task[d]
    <2>1. /\ t.phase = "verdict" /\ t.verdict = "absent" /\ Fenced(t) /\ t.st # "Committed"
          /\ rec' = [rec EXCEPT ![t.m] = "failed"] /\ applied' = applied
      BY <1>6 DEF ReclaimCancel, Reclaiming, CanCancel, shardVars
    <2>2. StillAbsent(t) /\ TicketOwn(t)
      BY DEF EvidenceInv, IInv, Tickets, Ticket
    <2>3. Acquire(t.m, t.v) \notin outbox /\ t.v \in Values
      BY <2>1, <2>2 DEF StillAbsent, TicketOwn, Reclaims
    <2>4. t.m \notin applied
      BY <2>1, <2>3 DEF NoneIsNonCommit, Fenced, NonTerminal
    <2> QED BY <2>1, <2>4 DEF FailedUnwritten, TypeOK
  <1>7. ASSUME NEW d \in Drivers,
               \/ Driver1Step(d) \/ Driver2Step(d) \/ DriverFault(d)
               \/ \E v \in Values : Scan(d, v)
               \/ \E m \in Mutations : RowStart(d, m),
               ~ReclaimCancel(d)
        PROVE  FailedUnwritten'
    <2>1. UNCHANGED <<applied, rec>>
      BY <1>7
      DEF Driver1Step, BeginReclaim, ResumeReclaim, ProveCommitted, ReclaimAborted,
           ReadProof, ReclaimCommit, ReclaimDiscarded, ReclaimHold,
           ReAck, AckReplyLost, CommittedHold, DriverAcked, DriverAckFailed,
           DriverFault, ProofFailed, RowFailed, PassLost, Scan, Driver2Step,
           ReadPage, ProcessPage, Rescan, RowEnd, RowStart, shardVars
    <2> QED BY <1>1, <2>1
  <1>8. CASE UNCHANGED vars
    BY <1>1, <1>8 DEF vars
  <1> QED BY <1>2, <1>3, <1>4, <1>5, <1>6, <1>7, <1>8 DEF Next

(* Every step keeps NInv.                                                   *)
LEMMA DecidedNext ==
  ASSUME NoLateRetry, TypeOK, TypeOK', IInv, EvidenceInv, NInv, [Next]_vars
  PROVE  NInv'
  <1>0. DecidedInv /\ DispatchInv /\ FailedUnwritten /\ NoneIsNonCommit
    BY DEF NInv, DecidedInv, DispatchInv
  <1>1. DispatchInv' /\ FailedUnwritten'
    BY <1>0, DispatchNext, FailedNext
  <1>2. ASSUME UNCHANGED <<res, task, applied>>, acks' \subseteq acks,
               \A e \in outbox : e \in outbox' \/ e \in acks
        PROVE  DecidedInv'
    BY <1>0, <1>2, DecidedFrame DEF NoRelapse, Undecided
  <1>3. ASSUME NEW c \in Calls, CallStep(c) \/ ShardStep(c) PROVE DecidedInv'
    BY <1>0, <1>3, CallDecided, ShardDecided
  <1>4. ASSUME NEW e \in acks, AckEffect(e) \/ AckLost(e) PROVE DecidedInv'
    BY <1>2, <1>4 DEF AckEffect, AckLost, shardVars
  <1>5. ASSUME NEW m \in Mutations, RecordStep(m) PROVE DecidedInv'
    BY <1>2, <1>5
    DEF RecordStep, RecoverCapture, RecoverAdvance, EvictRecord, shardVars, netVars
  <1>6. ASSUME NEW d \in Drivers,
               \/ Driver1Step(d) \/ Driver2Step(d) \/ DriverFault(d)
               \/ \E v \in Values : Scan(d, v)
               \/ \E m \in Mutations : RowStart(d, m)
        PROVE  DecidedInv'
    BY <1>0, <1>6, DriverDecided
  <1>7. ASSUME UNCHANGED vars PROVE DecidedInv'
    <2>1. UNCHANGED <<res, task, applied>> /\ acks' = acks /\ outbox' = outbox
      BY <1>7 DEF vars
    <2> QED BY <1>2, <2>1
  <1>8. DecidedInv'
    <2>1. CASE Next
      BY <1>3, <1>4, <1>5, <1>6, <2>1 DEF Next
    <2>2. CASE UNCHANGED vars
      BY <1>7, <2>2
    <2> QED BY <2>1, <2>2
  <1> QED BY <1>1, <1>8 DEF NInv, DecidedInv, DispatchInv

(* NInv holds throughout, given that no call reserves values again for an   *)
(* insert that has already written.                                         *)
THEOREM DecidedSafety ==
  ASSUME NoLateRetry
  PROVE  Spec => []NInv
  <1>1. Init => NInv
    BY DEF Init, NInv, NoneIsNonCommit, FailedUnwritten, AcksDecided, TicketDecided,
           WrittenHeld, FirstDispatch, Idle
  <1>2. TypeOK /\ TypeOK' /\ IInv /\ EInv /\ NInv /\ [Next]_vars => NInv'
    BY DecidedNext DEF EInv
  <1> QED BY <1>1, <1>2, EffectsSafety, PTL DEF Spec

(* "`None` is authoritative non-commit" (read_unique_effect_proof): while a *)
(* reservation is undecided the shard pins its Acquire if the insert wrote. *)
(* The hypothesis is needed: with a delete, a retry of a settled insert     *)
(* reserves its value again and finds no Acquire for the write.             *)
THEOREM AbsenceIsNonCommit ==
  ASSUME NoLateRetry
  PROVE  Spec => []NoneIsNonCommit
  BY DecidedSafety, PTL DEF NInv

(* A mutation answered as terminally failed (the code of                    *)
(* terminally_fail_uncommitted_dispatch) has written nothing, and by        *)
(* FailureIsFinal never will.                                               *)
THEOREM FailedWroteNothing ==
  ASSUME NoLateRetry
  PROVE  Spec => []FailedUnwritten
  BY DecidedSafety, PTL DEF NInv
===============================================================================
