---------------------------- MODULE UniquenessInv ----------------------------
(***************************************************************************)
(* The inductive invariant behind the theorems about UniquenessTCC.  The   *)
(* safety properties LiveIsReserved and EvidencePinned are two of its      *)
(* parts; the others say why they survive every step.                      *)
(***************************************************************************)
EXTENDS UniquenessTCC

(* A reservation belongs to an insert that claims the value; a committed    *)
(* one to an insert that has written.                                       *)
ClaimShape ==
  \A v \in Values : res[v].state # "Free" =>
    /\ res[v].claim \in Inserts
    /\ v \in Claims[res[v].claim]
    /\ res[v].state = "Committed" =>
         (res[v].owner = res[v].claim /\ res[v].claim \in applied)

(* Only mutations that ran hold values or pin effects; an Acquire names the *)
(* element its insert created.                                              *)
ShardShape ==
  /\ \A h \in held : h[1] \in applied
  /\ \A e \in outbox :
       /\ e.m \in applied
       /\ e.op = "acquire" => e.m \in Inserts /\ e.owner = e.m
       /\ e.op = "release" => e.m \in Deletes

(* A saga record is captured only after its shard ran the mutation.         *)
CapturedRan ==
  \A m \in Mutations : rec[m] \in {"captured", "completed"} => m \in applied

(* A Release in the outbox or in hand names an element that has given the   *)
(* value up for good.                                                       *)
Dead(e) == e.op = "release" => e.owner \in applied /\ <<e.owner, e.v>> \notin held
ReleasesDead ==
  /\ \A e \in outbox : Dead(e)
  /\ \A c \in Calls : \A e \in call[c].seen : Dead(e)
  /\ \A d \in Drivers : \A e \in task[d].seen : Dead(e)

(* What a call has read belongs to its own mutation, which has run.         *)
CallReads ==
  \A c \in Calls : \A e \in call[c].seen :
    /\ e.m = KeyOf[c] /\ e.m \in applied
    /\ KeyOf[c] \in Inserts => e.op = "acquire" /\ e.owner = e.m
    /\ KeyOf[c] \in Deletes => e.op = "release"

(* The ack of an Acquire is sent only after the write it stands for, and    *)
(* never while the reservation is undecided.                                *)
AcksCommitted ==
  \A e \in acks : e.op = "acquire" =>
    /\ e.m \in applied
    /\ <<e.m, e.v>> \in held => res[e.v].state = "Committed"

(* A request that will still write is covered by its reservations, and its  *)
(* record has not failed.                                                   *)
Gone == {"failed", "evicted"}
DispatchCovered ==
  \A c \in flight : KeyOf[c] \notin applied =>
    /\ rec[KeyOf[c]] \notin Gone
    /\ KeyOf[c] \in Inserts =>
         \A v \in Claims[KeyOf[c]] :
           res[v].state # "Free" /\ res[v].claim = KeyOf[c]

(* What a pass knows about the reservation it is working on.                *)
Reclaims(t) == t.phase \in {"proof", "verdict"} /\ t.st # "Committed"
Writing(m) == {c \in flight : KeyOf[c] = m /\ m \notin applied}

TicketOwn(t) ==
  Reclaims(t) => t.m \in Inserts /\ t.v \in Values /\ t.v \in Claims[t.m]
(* The claim of a ticket can still write its value, or holds it.            *)
Matters(t) ==
  (t.m \notin applied /\ rec[t.m] \notin Gone) \/ <<t.m, t.v>> \in held
(* A ticket for such a claim is never ahead of its reservation.             *)
TicketGen(t) ==
  Reclaims(t) /\ Matters(t) =>
    /\ res[t.v].state # "Free" /\ res[t.v].claim = t.m
    /\ t.gen <= res[t.v].gen
(* A proof read under a valid fence is queued behind every request of its   *)
(* claim that can still write.                                              *)
TicketQueued(t) ==
  Reclaims(t) /\ t.phase = "proof" /\ Fenced(t) => Writing(t.m) \subseteq t.ahead
(* Absence under a valid fence is final.                                    *)
TicketAbsent(t) ==
  Reclaims(t) /\ t.phase = "verdict" /\ t.verdict = "absent" /\ Fenced(t) =>
    <<t.m, t.v>> \notin held /\ Writing(t.m) = {}
(* Presence means the claim committed.                                      *)
TicketPresent(t) ==
  t.phase = "verdict" /\ t.verdict = "present" => t.m \in applied
(* A pass that scanned a committed claim may ack it at any later time.      *)
TicketCommitted(t) ==
  t.phase \in {"scanned", "proof", "verdict"} /\ t.st = "Committed" =>
    /\ t.m \in applied \cap Inserts /\ t.v \in Values
    /\ <<t.m, t.v>> \in held => res[t.v].state = "Committed"
TicketScanned(t) == t.phase = "scanned" => t.v \in Values /\ t.st # "Free"

Ticket(t) ==
  /\ TicketOwn(t) /\ TicketGen(t) /\ TicketQueued(t) /\ TicketAbsent(t)
  /\ TicketPresent(t) /\ TicketCommitted(t) /\ TicketScanned(t)
Tickets == \A d \in Drivers : Ticket(task[d])

IInv ==
  /\ LiveIsReserved /\ EvidencePinned
  /\ ClaimShape /\ ShardShape /\ CapturedRan /\ ReleasesDead /\ CallReads
  /\ AcksCommitted /\ DispatchCovered /\ Tickets

------------------------------------------------------------------------------
(* What the effects, the discovery rows and the slots need on top of IInv.  *)

(* A free entry names no claim.                                             *)
FreeBlank == \A v \in Values : res[v].state = "Free" => res[v].claim = None

(* A committed claim's ack marker is cleared only when its Acquire is gone. *)
AckCleared ==
  \A v \in Values : res[v].state = "Committed" /\ ~res[v].ack =>
    Acquire(res[v].claim, v) \notin outbox

(* An absence a pass has read under a valid fence, or for a committed       *)
(* claim, is still an absence.                                              *)
StillAbsent(t) ==
  t.phase = "verdict" /\ t.verdict = "absent" /\ (t.st = "Committed" \/ Fenced(t)) =>
    Acquire(t.m, t.v) \notin outbox

(* No ticket is ahead of a reservation whose Acquire is pinned.             *)
PinnedGen(t) ==
  Reclaims(t) /\ Acquire(t.m, t.v) \in outbox => t.gen <= res[t.v].gen

(* A request that will still write has its discovery row.                   *)
DispatchRow == \A c \in flight : KeyOf[c] \notin applied => pend[KeyOf[c]] # "none"

(* A row is drained only once its mutation can pin no further effect, so an *)
(* empty second read is final.                                              *)
Draining == {"page", "paged", "rescan", "rescanned"}
Quiet(m) == m \in applied \/ rec[m] \in Gone
RowQuiet(t) == t.phase \in Draining => t.m \in Mutations /\ Quiet(t.m)
RowEmpty(t) ==
  t.phase = "rescanned" /\ t.seen = {} => \A e \in outbox : e.m # t.m

EvidenceInv ==
  /\ FreeBlank /\ AckCleared /\ NoOrphanAcquire
  /\ \A d \in Drivers : StillAbsent(task[d]) /\ PinnedGen(task[d])
RowsInv ==
  /\ DispatchRow /\ EffectsDiscoverable
  /\ \A d \in Drivers : RowQuiet(task[d]) /\ RowEmpty(task[d])
EInv == EvidenceInv /\ RowsInv /\ SlotsExact /\ RecordPinned

------------------------------------------------------------------------------
(* Why a committed value has an owner.  The element is there, or a Release  *)
(* that nobody has acked yet is pinned for it.                              *)
Owned(m, v) ==
  \/ <<m, v>> \in held
  \/ \E e \in outbox \ acks : e.op = "release" /\ e.v = v /\ e.owner = m

Undecided(m, v) == NonTerminal(res[v]) /\ res[v].claim = m

(* Whoever may still commit a claim holds evidence that is not stale.       *)
CommittedSettled == \A v \in Values : res[v].state = "Committed" => Owned(res[v].claim, v)
PinnedEvidence ==
  \A e \in outbox : e.op = "acquire" /\ Undecided(e.m, e.v) => Owned(e.m, e.v)
SeenEvidence ==
  \A c \in Calls : \A e \in call[c].seen :
    e.op = "acquire" /\ Undecided(e.m, e.v) => Owned(e.m, e.v)
ProvenEvidence(t) ==
  Reclaims(t) /\ t.phase = "verdict" /\ t.verdict = "present" /\ Fenced(t) => Owned(t.m, t.v)

(* A call settles effects only after its record has completed, and no       *)
(* effect is acked before its mutation ran.                                 *)
SettlesCompleted ==
  \A c \in Calls :
    call[c].pc \in {"settle", "read", "acking"} \/ call[c].seen # {} =>
      rec[KeyOf[c]] \in {"completed", "evicted"}
AcksRan ==
  /\ \A e \in acks : e.m \in applied
  /\ \A d \in Drivers : \A e \in task[d].seen : e.m \in applied

OInv ==
  /\ CommittedSettled /\ PinnedEvidence /\ SeenEvidence
  /\ \A d \in Drivers : ProvenEvidence(task[d])
  /\ SettlesCompleted /\ AcksRan

------------------------------------------------------------------------------
(* Why absence means non-commit, and why a failed mutation wrote nothing.   *)

(* No mutation is retried, or nothing is deleted: no call can reserve a     *)
(* value again for an insert that has written.                              *)
Once == \A c, e \in Calls : KeyOf[c] = KeyOf[e] => c = e
NoLateRetry == Deletes = {} \/ Once

(* An Acquire is acked only once its claim is decided, now or for good.     *)
AcksDecided == \A e \in acks : e.op = "acquire" => ~Undecided(e.m, e.v)
TicketDecided(t) ==
  t.phase \in {"scanned", "proof", "verdict"} /\ t.st = "Committed" =>
    ~Undecided(t.m, t.v)

(* A call that has not dispatched finds its insert unwritten, or its values *)
(* still held.                                                              *)
WrittenHeld ==
  Deletes = {} => \A m \in applied \cap Inserts : \A v \in Claims[m] : <<m, v>> \in held
FirstDispatch ==
  Once => \A c \in Calls : call[c].pc \in {"new", "prepared"} =>
            KeyOf[c] \notin applied /\ c \notin flight

(* A mutation the Router reports as failed has written nothing: a cancelled *)
(* reservation (terminally_fail_uncommitted_dispatch) undoes no insert that *)
(* a shard ran.                                                             *)
FailedUnwritten == \A m \in Mutations : rec[m] = "failed" => m \notin applied

NInv ==
  /\ NoneIsNonCommit /\ FailedUnwritten
  /\ AcksDecided /\ (\A d \in Drivers : TicketDecided(task[d]))
  /\ WrittenHeld /\ FirstDispatch
==============================================================================
