# Gleaph: a TLA+ development

Gleaph is a graph database on the Internet Computer. A **Router** canister owns
the catalogs, plans GQL and drives every mutation as a saga; **graph shards**
hold the canonical data; index, vector and text canisters hold what is derived
from it. This directory models the part of the system that is hardest to test:
what happens between the awaits of several canisters when calls are retried,
lost, overtaken or interrupted by an upgrade.

| module | what it is |
|---|---|
| `UniqueIndex` | abstract specification: what a UNIQUE constraint promises |
| `UniquenessTCC` | the cross-shard uniqueness protocol (ADR 0030): Router, shards, network, both recovery drivers |
| `UniquenessInv` | its inductive invariants |
| `MCUniqueness` | instances of it for TLC |
| `UniquenessType_proofs`, `UniquenessTCC_proofs`, `UniquenessIndex_proofs`, `UniquenessEffects_proofs` | type correctness; invariant and uniqueness; refinement of `UniqueIndex`; evidence, discovery rows, slots, owners and the meaning of absence |
| `RecoveryScheduler` | the Router's recovery timer, its lanes, laps and cursors (ADR 0029 Phase 4) |
| `RecoveryScheduler_proofs` | its theorems |
| `SagaOutcome` | abstract specification: what a mutation on several shards promises its client |
| `MutationSaga`, `MCMutationSaga` | a mutation on several shards as a roll-forward saga, with the label-statistics projection (ADR 0029) |
| `MutationSaga_proofs` | its theorems: the projection, the outcome of a mutation, refinement of `SagaOutcome` |
| `ConstraintDrop`, `MCConstraintDrop` | DROP CONSTRAINT, its drain and the reuse of the constraint's id (ADR 0030 slice 9) |
| `ConstraintDrop_proofs` | its theorems: reservations through a drop, and the clean reuse of an id |
| `DerivedIndex`, `MCDerivedIndex` | a shard's delivery of index and vector work: outbox, repair journal, maintenance timer (ADR 0023, 0029, 0031) |
| `DerivedIndex_proofs` | its theorems: wake-ups, the read barrier, nothing lost, newest vectors |

Definitions keep the source's names where they can. Paths below are relative to
`src/crates/`.

## 1. Inventory

State, operations, interactions and correctness of the parts that carry the
core logic. `PROJECT.json` lists all parts with their status.

**Router, value reservations** (`router/src/facade/stable/reservation_catalog.rs`,
`facade/store/uniqueness.rs`). A table from (graph, constraint, encoded value) to
a record `Reserved | Reclaiming | Committed` with claim, reclaim generation, owner
and pending-ack marker. Operations: all-or-nothing Try, confirm, clear ack,
begin/resume/commit/cancel/hold of a reclaim, release. Called from the mutation
path, from both drivers, between their awaits. Correct when no value in use is
ever free or claimed by somebody else, and no value is lost for good.

**Router, saga record** (`facade/store/idempotency.rs`, `facade/stable/label_stats.rs`).
One record per client mutation key: routing lease, dispatch envelope, per-shard
progress (captured, projection advanced), terminal failure, retention; and a
reverse index counting the undecided reservations of a mutation. Correct when a
key is applied at most once, a terminal outcome is final, and a record is kept
while something depends on it.

**Router, mutation path** (`router/src/gql.rs`). Reserve the key, resolve routing,
persist the envelope, Try, register discovery rows, dispatch, capture the shard's
journal, advance the projection, then Confirm or reconcile Releases. Any await may
be its last step.

**Router, drivers** (`reclaim.rs`, `effect_recovery.rs`,
`facade/stable/unique_effect_pending.rs`). Driver 1 scans reservations, reads the
shard's Acquire proof and commits, cancels or holds; Driver 2 drains the pinned
effects of finished mutations through discovery rows. Hard: they act on what they
read before an await.

**Router, recovery timer** (`recovery.rs`). A one-shot timer that reschedules
itself, running six lanes with bounded pages and round-robin cursors. Correct when
passes never overlap and outstanding work always has a pass ahead of it.

**Graph shard** (`graph/src/gql_run.rs`, `facade/stable/unique_effect_outbox.rs`,
`canister/handlers.rs`). Canonical write, effects and completed journal entry in one
message; effects stay pinned until acked; a repeated mutation is answered from the
journal.

**Label statistics** (`graph/src/facade/store/label_stats_delta.rs`,
`router/src/facade/store/label_stats_projection.rs`). A shard appends one numbered delta
per canonical segment; whoever on the Router waits for a mutation pulls pages behind a
cursor, adds them up and has the prefix removed. Correct when every delta counts once
and nobody meets a gap, although several callers pull the same page.

**Router, constraint drop** (`constraint_drop.rs`, `facade/stable/constraint_catalog.rs`).
A Dropping constraint is drained by a third driver: it purges reservations and probes
the shards of every pending-effect row, page by page, in laps whose validity a generation
token guards; the record goes when a lap is clean. Correct when the drop ends and its id is
reused only when nothing of the old incarnation is left.

**Graph shard, delivery to index canisters** (`facade/stable/derived_index_outbox.rs`,
`index/repair_journal.rs`, `facade/maintenance_timer.rs`, `facade/store/index_pending_floor.rs`).
A plan's index operations go to a durable outbox that the plan's own call drains before it
answers; ordered batches and compaction send directly and journal what fails; a
self-rescheduling timer retries. Correct when the index converges, nothing is lost and the
read barrier never calls an undelivered mutation indexed.

The parts that are not modelled, and why, are in section 8.

## 2. UniquenessTCC

One graph and one FederatedTcc constraint. One action is one message execution,
the code between two awaits. Variables and the code they stand for:

| variable | code |
|---|---|
| `rec` | `RouterMutationRecord` phase: absent, routing, released, open (envelope durable), captured, completed, failed, evicted |
| `res` | `ROUTER_UNIQUE_RESERVATIONS` |
| `slots` | non-terminal count of the mutation reverse index |
| `pend` | pending-effect discovery row: none, active, quarantined |
| `call` | where each execution of a client update is waiting |
| `task` | what a recovery pass has in hand across an await |
| `held`, `applied`, `outbox` | shard: values stored, completed journal entries, pinned effects |
| `flight`, `acks` | requests under way to a shard |
| `faults` | failed driver calls so far (bounded) |

Actions follow the code: `ReserveKey`, `ReplayKey`, `ReplayEarly`,
`AbandonRouting`, `EnvelopeRefused`, `TryRefused`, `DispatchInsert`,
`DispatchDelete` (prepare and dispatch), `ShardInsert`, `ShardDelete`, `ShardReplay`,
`AckEffect` (shard), `CallCapture`, `CallAdvance`, `RecoverCapture`,
`RecoverAdvance`, `EvictRecord` (record), `ReadEffects`, `Confirm`,
`ReconcileReleases`, `ConfirmAcked` (settling in the call), `Scan` …
`DriverAckFailed` (Driver 1), `RowStart` … `RowEnd` (Driver 2), and the faults
`DispatchLost`, `AckLost`, `ProofFailed`, `RowFailed`, `PassLost`.

Abstractions.
- A claim is identified by its mutation and value; the element an insert creates is
  named by the mutation. A mutation goes to one shard, as the pre-envelope gate of
  the code requires for constrained inserts.
- Clock conditions (reservation TTL, routing lease, quarantine backoff, retention)
  may be true at any time. A call that errs, times out or traps takes no further step.
- A page read returns all pinned effects of the mutation; acks arrive one by one.
- Requests from the Router to one shard arrive in the order sent (`Arrived`), as the
  platform guarantees per canister pair; a proof read therefore waits for the
  requests sent before it (`ahead`). `DispatchLost` may drop any of them.
- A delete's read phase and canonical segment on the shard are one step.
- `Drivers` may hold several passes although the code runs one: the fences are
  checked without relying on that.
- Shard-local-global constraints and bulk load are not in the model; constraint drop has
  its own module (section 5).

### Runs

`SameValue`: every insert claims `v1`. `i1` and the delete live on shard `s1`, `i2` on `s2`.

| run | instance | distinct states | what it shows |
|---|---|---|---|
| `tcc_delete` | i1, i2, x1, one call each, MaxGen 1, no faults | 1.2 M | `UniqueValues`, `LiveIsReserved`, `NoOrphanAcquire`, `EffectsDiscoverable`, `RecordPinned`, `CommittedOwned`; the protocol implements `UniqueIndex` (`IndexSpec`) |
| `tcc_retry` | i1 twice, two passes at once (symmetric), MaxGen 2, two faults | 1.6 M | `TypeOK`, `SlotsExact`, `NoneIsNonCommit`, `NoWriteAfterFailure`, and `IInv`, the inductive invariant (with `LiveIsReserved` and `EvidencePinned`) |
| `tcc_live` | i1, x1, MaxGen 2, one fault | 0.07 M | `ReservationsDecided`, `EffectsDrain`, `DeadValuesFreed` under fairness |
| `tcc_late_retry` | i1 twice, x1 | stops at the violation | `NoneIsNonCommit` fails (section 7) |

Why the bounds are enough. A race over a value needs two claimants; a retry needs a
second call of one key; ABA on the generation needs two generations and one failed
proof; Release-before-Acquire needs one delete. Each run combines the ones its
properties speak of, and every property has a mutant of a mapped definition that
breaks it in that run. `MaxGen` stands for `u64::MAX`; at the bound `begin_reclaim`
aborts as the code's `checked_add` does. Deadlock is not checked: a finished system
has nothing to do.

Fairness (`tcc_live`). Driver calls are bounded-wait, so a pass always gets an answer
(WF on its steps); a request that is not lost arrives (WF on the shard's steps);
recovery visits every record, reservation and row once a lap, whatever else it finds
(WF on capture and advance, SF on `Scan` and `RowStart` per key, since one pass works
on one key at a time). Nothing is assumed of client calls. That the timer keeps
passing is the subject of `RecoveryScheduler`: it does while a lane has found work, but a row
that arrived behind its lane's lap may have to wait for a later mutation or an upgrade to arm
the timer (`sched_behind`). The liveness properties here and in sections 4 and 5 are about a
Router that keeps receiving mutations, or whose rows were not overtaken.

`NoneIsNonCommit` is checked with a retry and without deletes: with both, the run
`tcc_late_retry` applies.

### Proofs

Assumptions: `ConstantsAssumption` (disjoint inserts and deletes, finite `Values`,
well-typed constants). All theorems hold for any number of mutations, values, shards,
calls, passes and faults.

- `TypeCorrect`: `Spec => []TypeOK`.
- `Safety`: `Spec => [](TypeOK /\ IInv)`.
- `Reserved_Live`: `LiveIsReserved` and `EvidencePinned`.
- `Uniqueness`: `UniqueValues`, which follows from `LiveIsReserved` since a reservation
  has one claim.
- `FailureIsFinal`: `NoWriteAfterFailure`, from `DispatchCovered`.
- `Refinement`: `Spec => IndexSpec`.
- `NoOrphans`, `Discoverable`, `SlotsCounted`, `RecordsKept` (module `UniquenessEffects_proofs`):
  `NoOrphanAcquire`, `EffectsDiscoverable`, `SlotsExact`, `RecordPinned`.
- `NoLostValue`: `CommittedOwned`, under the hypothesis `OnePass` that recovery passes do not
  overlap, which is what `PassesNeverOverlap` of section 3 shows of the timer.
- `AbsenceIsNonCommit`: `NoneIsNonCommit`, and `FailedWroteNothing`: `FailedUnwritten`, that a
  mutation the Router reports as failed has written nothing on its shard; both from
  `DecidedSafety` (`Spec => []NInv`), under the hypothesis `NoLateRetry` that nothing is deleted or
  no mutation is retried.

The argument. `LiveIsReserved` alone is not inductive: a cancel frees a value on the
strength of an answer read earlier. `IInv` adds what makes that answer still true.
*Tickets*: while a proof read is under way under a valid fence, every request of the
claim that can still write is queued ahead of it (`TicketQueued`), because Try refuses a
claim under `Reclaiming`; hence absence under a valid fence means the value is not stored
and nothing will write it (`TicketAbsent`); a ticket is never ahead of its reservation's
generation (`TicketGen`), so a hold and a new proof invalidate it. *Evidence*: an Acquire
is acked only when the claim is committed or its value is gone (`AcksCommitted`,
`TicketCommitted`), so absence of evidence is not caused by an ack. *Requests*: what is
in flight and will write is reserved and not failed (`DispatchCovered`). *Releases*: a
Release in the outbox or in hand names an element that has given the value up for good
(`ReleasesDead`). Three frame lemmas say which kinds of step disturb none of this; one
lemma per action does the rest.

`EInv`, inductive on top of `IInv`, is about what recovery finds. *Evidence*: a pinned Acquire
belongs to its reservation, and a Release that would free it waits in hand or in the outbox
until the Acquire is acked. *Rows*: whoever pinned, sent or read an effect has its discovery row,
and a row is removed only when its mutation can pin nothing more. *Slots*: `SlotsExact` itself,
by a lemma on how one reservation moves the count, and `RecordPinned`. `OInv` is about the
other direction: a committed value has the evidence it was committed on. It needs `OnePass`,
because a late retry (section 7, item 1) can reserve a released value again for the same claim;
a second pass that still carries the presence read of the first reservation would commit the
second one for an element that no longer exists.

`NInv`, inductive on top of `IInv` and `EInv`, is about what a proof read may conclude. An Acquire
leaves the outbox only by an ack, and an ack is sent only for a claim that is decided
(`AcksDecided`, `TicketDecided`); so an applied insert whose claim is undecided still has its
Acquire. That a decided claim stays decided is where `NoLateRetry` comes in: only a call that
dispatches an insert a second time, after its value was released, could reserve it again. Without
deletes an applied insert holds its values (`WrittenHeld`); without retries a call that is yet to
dispatch belongs to an insert no shard has applied (`FirstDispatch`). With both, `tcc_late_retry`
is the counterexample. Before the proof, TLC found no violation of
`NInv` under the constants of `tcc_delete` and of `tcc_retry`, one for each half of the hypothesis.

Only model-checked: liveness, which is out of the prover's reach.

## 3. RecoveryScheduler

`sched` is `RecoverySchedulerState`; `timers` the IC timers really scheduled; `cursor`
and `found` the heap cursors and lap flags of each lane; `pass` the lane a pass is in,
the rows it selected and the cursor it will store. A lane's table is a set of keys
(`rows`), some of them outstanding (`work`): a row is outstanding while the lane's scan
would select it. `Arrive` and `Arm` are the two ends of a client call, which arms when it
ends (`unarmed` in between). A row may arrive at any key: the journal lane is ordered by caller,
graph and client key, the reservations by value. `overtaken` is history, the outstanding rows
that arrived at or behind the position of their lane's lap (`Position`); a new lap of the
lane, or the end of the row, clears it. `Tick` is `on_tick` with the first scan, `Attempt` the end of
one row's recovery, `NextLane` and `FinishPass` the ends of lanes and pass. `Trap` drops the
pass and leaves `running` set; `Upgrade` resets the heap and arms (`post_upgrade`).

Abstractions. The floor, relaxed and quarantine delays are one outcome. `Eager` lanes
(journal, reclaim, vector) reschedule when they selected anything, the others (effects,
drop, retirement) only for rows an attempt left. The journal lane's cursor is stored with
the other lanes' at the end of the lane; nothing reads it before the pass ends. A
reservation younger than its TTL is not outstanding for its lane; the journal and effect
lanes keep the timer awake meanwhile, which this module does not show.

| run | instance | what it shows |
|---|---|---|
| `sched` | 2 lanes, one of them eager, 2 keys each, budget 1, one call at a time, one trap or upgrade | `TypeOK`, `NoLostWake`, `PassesAlone`, `EveryRowVisited` (WF on the timer and on the steps of a pass) |
| `sched_behind` | the same constants | `WakePromised` fails (section 7) |

Budget 1 over 2 keys gives laps of one, two and three pages, with and without a final
empty page; two lanes let one lane's lap end while another's goes on. Key 1 arriving while the
lap stands at 1 or 2 is the row behind the cursor. `NoLostWake` says that a row whose call has
armed the timer has a timer or a pass ahead of it unless it was overtaken; `EveryRowVisited`
that it is taken up or settled unless it was overtaken *and* the timer has stopped: an
overtaken row is still taken up whenever another lap begins. `WakePromised` is the same without the
exception, as the comment at `recovery.rs:249` has it.

Proved for any number of lanes, keys, traps and upgrades and any page size, without a
hypothesis: `TypeCorrect`, `PassesNeverOverlap` (`PassesAlone`) and `WakeKept` (`NoLostWake`). The
strengthening `Awake` says why a running pass or a scheduled timer will not overlook a row that
was not overtaken: a request is latched, the lap's scan has the row still ahead of its cursor, the
row is in hand, or the lap has found work.

## 4. MutationSaga

One action is again the code between two awaits, of three kinds of actors: client calls
(`Calls`, several of them attempts of one key), the recovery pass, and shards.

| variable | code |
|---|---|
| `rec` | scalar `RouterMutationRecord`: none, open (envelope durable, per-shard `completed`, `row_count`, `projection_advanced`), done (compacted, with `completed_row_count`) |
| `cursor`, `stats` | the Router's projection cursor of a shard and the deltas added to its statistics |
| `proc` | where each call and the pass wait: dispatch, journal read, delta page, acknowledgement, hot-vertex finalization |
| `net` | requests under way to a shard, in order; `live` while somebody waits for the answer |
| `journal`, `log`, `pruned` | shard: completed entries, delta log, prefix removed from it |
| `runs` | shard: executions suspended in an index lookup of a read phase |
| `applied` | history: how often each plan was applied |

`Prepare` is the replay part of `prepare_mutation_for_batch`, `Dispatch`/`Dispatched`
`dispatch_plan_group` and its `join_all`, `ReadEntry`, `ReadPage`, `ReadAck` the callbacks of
`capture_scalar_mutation_outcome`, `RecoverStart` `recover_mutation_record`. `mode` tells the
three users of capture apart: a call after dispatch, a retry's reconciliation, recovery.
`Execute` and `Resume` are `execute_plan_update` before and after an awaited lookup. Every
call of the Router is bounded-wait: `Reject` fails it, `Timeout` and `RunTimeout` fail it and
let it execute later; `RunFails` ends a suspended execution after some of its segments.

Abstractions. A segment is one delta; the rows a shard reports are any of `Counts`. Entries
read for several shards in one batch (`PreflightContext`) are read one by one: entries do
not change, and a stale miss only fails the attempt, as a failed read does. The key's
reservation and routing lease are in `UniquenessTCC`; here attempts of a key may overlap
freely. A read plan after the last DML plan of a bundle, which may also await, is left out.

| run | instance | distinct states | what it shows |
|---|---|---|---|
| `saga_retry` | one mutation on two shards, two attempts (symmetric), row counts 1 or 2, hot vertices, two faults | 4.2 M | `TypeOK`, `AnsweredMeansDone`, `ExactlyOnce` |
| `saga_live` | one mutation on both shards, one suspended on the first, one call each, one fault | 0.3 M | `StatsExact`, `OnlyCallsFail`, `CommittedRollsForward`; the saga implements `SagaOutcome` (`OutcomeSpec`) |
| `saga_twice` | two attempts of a suspended mutation, one fault | stops at the violation | `ExactlyOnce` fails (section 7) |

`OnlyCallsFail` says that none of the complaints of the code (gap, lag, missing journal
entry, conflicting count, reply that disagrees with the journal) is ever raised: an attempt
fails only because one of its calls did. Two row counts make a second execution visible in
the answer; pages of one delta make pullers overlap. Fairness of `saga_live`: a shard
serves what it received, an awaited lookup returns, the Router handles answers (WF), and the
recovery scan comes back to every open record (SF, since the pass works on one at a time).
Nothing is assumed of clients, so a mutation that misses a shard may stay open for ever:
`CommittedRollsForward` is about mutations all their shards committed, as ADR 0029 has it.

`SagaOutcome` is what a client may rely on: a shard reports its rows once and for all, their
statistics become visible, then the mutation has one total, and a call is answered with that
total when it is on record, so that every later attempt replays it. The mapping reads rows and
visibility off the shards' journals and the cursors, the total off the completed record, and the
answer off the calls that returned. A dispatch, a capture, a timeout, a retry or a
recovery pass is either one of these steps or invisible. `OutcomeSpec` implies
`CompletedMeansAll` and adds that nothing a client saw is ever taken back. In `saga_live` calls,
late executions and recovery race for two mutations, with one attempt each; with two attempts
(the constants of `saga_retry`) TLC finds `OutcomeSpec` to hold as well, only more slowly, and
the theorem below covers any number of them.

### Proofs

From `SagaConstants` alone, for any number of mutations, shards, calls, plans, faults and
suspended executions: `PullSafety` (`Spec => []PullInv`), `SagaTypes` (`TypeOK`) and
`StatsCountedOnce` (`StatsExact`). What makes a page count once although several processes pull
it is the order of a shard's queue (`ReadsOrdered`): a page is asked for from `cursor + 1` or
earlier, an acknowledgement names a sequence the cursor has reached, and no acknowledgement
queued before a page's request reaches into the page; so the shard never answers with a gap,
and what a late page repeats is filtered by the cursor.

Under `Suspends = {}` (no execution awaits between reading the journal and writing it; the run
`saga_twice` shows what happens otherwise): `SagaSafety` (`SagaInv`), `AppliedOnce`
(`ExactlyOnce`), `NoComplaints` (`OnlyCallsFail`), `CompletionIsFinal` (`CompletedMeansAll`) and
`SameAnswer` (`AnsweredMeansDone`). `SagaInv` says that journal entries never change and that
everything the Router knows is read off them: the marks of a record, the replies in hand, the
answer a process reads, and the sum of a capture, which is the row total of the shards the
process has put behind it. The sums and extrema the model takes from the community modules are
characterised by lemmas that argue with a minimal counterexample (`WFMin`), since the induction
theorems cannot be used.

`SagaImplementsOutcome` (`Spec => OutcomeSpec`), under the same hypothesis, needs one more fact.
The call that captures the last shard is answered after recording its projection marker; that the
record is complete by then does not follow from what this call captured, since the markers
of the other shards are kept by the record. `MarkInv`: while its record is open, a capture has
marked every shard it has put behind it; marks are never taken back (`Onward`); an answered call's
record is complete; and plans are sent only to the shards of their mutation, so a write of the
shard is a write the outcome allows. The proof shows for every action which abstract step it is:
`Execute` writes, `ReadPage` shows a set of mutations at once, the Router's callbacks
complete or answer, everything else stutters. Without the hypothesis it fails: the second
execution of `saga_twice` overwrites a journal entry whose statistics were already visible.

## 5. ConstraintDrop

One constraint name whose id is reused by a later incarnation. `con` is the catalog record
(life, generation token, incarnation), `rows` the pending-effect rows, `lap` the heap state of
the drain, `task` what the pass holds across an await, the rest as in `UniquenessTCC` with the
reservation protocol coarsened to the steps the drain can tell apart. `DrainConstraint` is
`drain_constraint` up to its first await: purge, page of rows, and for the rows in turn the
terminal gate, until one must be read from its shard, one holds, or the page is through.
`ProbeRead` is the answer of that read with everything up to the next one; the end of a page
(`PageEnd`) or of a lap (`LapEnd`) belongs to the same step. `SeedDelete` is a delete that
captures the constrained set and then awaits an index lookup; `SeedFound` and `SeedNothing` are its
two ends. Requests carry the incarnation they were prepared under, which the code does
not: the properties need it to tell old from new. `late` is history: the deletes that were
registered and sent, after their lookup, under a record that had gone.

| run | instance | distinct states | what it shows |
|---|---|---|---|
| `drop_live` | an insert under the first incarnation, one of the same value under the second, a delete that may or may not await a lookup, pages of two rows, one fault or upgrade | 0.18 M | `TypeOK`, `ReusedIdIsClean`, `LiveIsReserved`, `NoOrphanAcquire`, `DropCompletes` |

The delete has the smallest mutation id, since a key keeps the id of its first attempt: its row
can be registered while the constraint is Dropping, behind a lap that is already at the insert's
row. That is the case the generation token exists for, and without the bump `ReusedIdIsClean`
fails. With pages of two rows a lap of one row ends on a partial page after its probe, and a lap of
two goes on after the full page to end on an empty one.

`ReusedIdIsClean` excepts the late deletes, which the code lets through (section 7, item 5).
`LiveIsReserved` has no exception: the stale Release of a late delete finds a value owned by
another element, and frees nothing of the new incarnation. Fairness: shards execute what
arrives (WF); the pass takes up every reservation, row and the drain again and again, and
finishes what it has in hand (SF on taking up, WF on finishing). `DropCompletes` excepts a
delete whose request was lost before it ran: its record stays open until its client
retries, and the drain rightly waits.

### Proofs

From `DropConstants` alone: `DropSafety` (`TInv /\ ResInv`), `TypeCorrect`, `NoOrphans`,
`Reserved_Live` and `Uniqueness`, for any number of inserts, deletes, values, calls and
incarnations, with seeded deletes and retries. `ResInv`: a claim on its way to the shard is
undecided and its own (`Flying`, `Claiming`), a pinned Acquire belongs to its reservation
(`Pinned`), elements of the Active incarnation own their value (`Live`), nothing of an
incarnation exists before it does (`Fresh`), and a reclaim proof is about a fenced or a decided
claim (`Proving`).

`IdReuse` (`ReusedIdIsClean`), from the same constants, with lookups and retries, for any page
size. `CleanInv`: a mutation without a row is clean (`Registered`); what a lap has put behind its
cursor, and what a page has probed, is clean as long as the generation it started with stands
(`LapInv`, `PageInv`).

## 6. DerivedIndex

A call appends its operations to the `outbox`, drains it and answers; an ordered batch
(`Ordered`) and the timer's flush send directly and put what failed into the `journal`. `proc`
holds each drain's snapshot, the stage of the pass and the answer; `timer` is
`MaintenanceSchedulerState`. `Receive`, `ReceiveTerminal` and `ReceiveFault` are the batch
endpoints of the index and vector canisters: a prefix applied, a row refused for good, a
failure with or without effect. `Move` is a compaction that re-keys a posting; the
operations stay in the heap (`pending`) until the pass flushes them. `Upgrade` clears the heap
and arms the timer. `issued` and `accepted` are history.

| run | instance | distinct states | what it shows |
|---|---|---|---|
| `index_live` | a plan that writes a posting, one that writes a vector, an ordered batch of another posting, two operations per request, a compaction, partial batches, refused rows, one fault, an upgrade | 0.2 M | `TypeOK`, `NothingLost`, `IndexBarrier`, `NewestVectorKept`, `NoLostWake`, `QueuesDrain` |
| `index_diverge` | three plans on one posting, one fault | stops at the violation | `Converged` fails (section 7) |

Nothing serialises drains, in the code or in the model: each call and the timer may all be
waiting for an answer at once, on snapshots of one outbox. The outbox acknowledges postings by
sequence, and a sequence is given out again once the rows at the end of the map are gone
(`next_seq`). `reused` is history: a sequence was given out while a drain had it in its
snapshot (`InHand`). Until then an acknowledgement can only remove a row the target applied, and
`NothingLost`, `IndexBarrier` and `NewestVectorKept` hold however drains overlap; afterwards they
do not (section 7, item 6), so they say `~reused =>`. `NothingLost` also excepts what the code keeps on the
heap across an upgrade (`HeapLost`): the postings re-keyed by compaction, and nothing else.
Convergence is not among the properties that hold (items 4, 7 and 9). Fairness: some request is
answered, some answer is read, an armed timer fires and its catalog call returns (one WF
each).

### Proofs

For any number of calls, postings, subjects, faults, upgrades and any request size, from
`IndexConstants` alone. `DeliverySafety` (`Spec => []TInv`), `TypeCorrect` and `WakeKept`
(`NoLostWake`): `TInv` says what an answer is about (a prefix of the request, applied by the
target), that every request has one sender that waits for it, that only the outbox holds
vector work or quarantines a row, and for each stage of a pass that what the stage will not get to
is latched as a request to run again (`WakeOK`).

`KeptSafety` (`Spec => []KInv`), and from it `BarrierHolds` (`IndexBarrier`), `NothingIsLost`
(`NothingLost`) and `NewestVectorStays` (`NewestVectorKept`). `KInv` is `~reused => Held`: an entry of
a drain's snapshot that still has a row in the outbox has *its* row there (`Snapshot`; other drains may
have removed it), so an acknowledgement by sequence removes only what the target applied; what a
call issued is applied or waits under the call's own mutation id (`CallsKept`), which is what the
barrier reads; and everything issued is applied or somewhere, up to the heap an upgrade clears
(`Kept`). The step that needs `~reused` is `Execute`: a new row must not get a sequence another
drain still has in hand.

## 7. Divergences between documents and code

Recorded as runs:

1. **A late retry reserves again for a committed mutation** (`tcc_late_retry`;
   `router/src/gql.rs:5041`). `read_unique_effect_proof` documents that "`None` is
   authoritative non-commit while the reservation is non-terminal"
   (`graph/src/canister/handlers.rs:1717`). If an insert was applied, committed by Driver 1,
   deleted and released while its saga record was still open, a retry finds the value free,
   reserves it again, and the shard answers from its journal without pinning an Acquire.
   Uniqueness is not in danger (the theorems cover this case); but the mutation can be
   recorded as failed although it committed, or the value can stay reserved.
2. **Two attempts of a mutation may both be applied** (`saga_twice`; `graph/src/gql_run.rs:1411`).
   "Each graph shard applies the same `mutation_id` idempotently" (ADR 0029, line 192). The
   journal is read once, before the read phases, and the scalar path writes nothing until the
   end. A read phase that reaches an index scan (a later statement of a bundle, or router
   seeds that hydration dropped) awaits the index canister; a retry sent after the bounded wait
   of the first attempt then passes the same check.

3. **A row behind a lap loses its wake-up** (`sched_behind`; `router/src/recovery.rs:412`). "A durable
   arm request raised while the pass was awaiting a remote call takes priority so work arriving
   after the scan cannot lose its wake-up" (`recovery.rs:249`). The latched request starts a pass
   that continues the lap under way; a row behind the cursor is not in it, and if the lap finds
   nothing else the timer stops until the next mutation or upgrade.
4. **The index can stay different from the store** (`index_diverge`;
   `graph/src/facade/stable/derived_index_outbox.rs:119`). "Stable FIFO keyed by a monotonic sequence
   [...] callers acknowledge only entries they know the target canister accepted"
   (lines 106-107), and "re-application converges the index to the store" (ADR 0023, line
   391). Calls 1 and 2 both deliver row 0 and call 2 acknowledges it; the outbox is empty, so the row
   of call 3 gets sequence 0 again; its request fails; the late acknowledgement of call 1
   removes it, undelivered.

Met as exceptions that the properties of a passing run state and its model reaches:

5. *A delete registers under an id that has been given up* (`late` in `ReusedIdIsClean`). It reads its
   constrained set (`gql.rs:4719`) before an awaited lookup and registers its row after it
   (`gql.rs:5103`); the drain can finish in between, against `constraint_drop.rs:396` ("the id is now
   safe to reuse"). `drop_live` without the exception: CREATE, DROP, `SeedDelete`, `DrainConstraint`,
   `SeedFound`. Uniqueness survives (`LiveIsReserved`, `Uniqueness`): a Release checks its owner.
6. *A reused sequence breaks the read barrier and loses vectors* (`reused` in `IndexBarrier`,
   `NothingLost`, `NewestVectorKept`): the mechanism of item 4.
7. *An upgrade loses re-keyed postings* (`HeapLost` in `NothingLost`). When the outbox cannot be
   drained, a pass ends with the postings it re-keyed in the heap (`maintenance_timer.rs:288`).

Two more disagreements are about promises no property of this development makes, because the
code does not keep them:

8. *A retry while the constraint is Dropping passes by the fence.* `plan_unique_claims` sees only
   Active constraints (`facade/store/uniqueness.rs:163`), so such a retry claims nothing and is
   dispatched although Driver 1 may be proving the absence of the first attempt, which
   `reclaim.rs:16` takes to be fenced. In `ConstraintDrop` with one insert called twice:
   `DispatchInsert`, DROP, `DispatchInsert` again, the first request lost, the second executed, which
   carries no constraint and pins no Acquire, then `StartProof`, `ReadProof`, `ProofAbsent`: the
   mutation is recorded as failed although it was written.
9. *A journaled operation is replayed over a newer one.* A call drains the outbox, and an ordered
   batch flushes, without looking at the repair journal (`handlers.rs:182`, `handlers.rs:492`). An
   ordered batch's insert fails and is journaled; a plan removes the same posting and delivers at
   once; the timer replays the journal and the posting is back. No two drains overlap in this
   trace: `Converged` fails in it with `Ordered = {3}` and one fault even under a state constraint that
   allows one drain at a time. A compaction whose flush fails gives the same with `Moves = 1` and
   two faults.

## 8. Not modelled

The repository has about half a million lines; most of them are sequential and are covered by
ordinary tests: the LARA adjacency store and the stable containers, the GQL parser, planner and
executor, search, wire formats, CLI, SDK, explorer. A model of them would be a transliteration,
too large for TLC. The map covers the protocol code, about one per cent of the lines, and
no honest abstraction brings that share near a third.

Protocol code that is left: bulk load (parents, receipts, their GC), ordered edge, vertex and
mixed batches (a journal of `Incomplete` entries), the index retirement drain, the Router's
vector ingest outbox, index builds and backfills, schema migration, provisioning, journal
retention, shard-local-global uniqueness. The clock is never modelled: TTLs and leases may have
run out at any time. The reclaim lane's TTL with the other lanes keeping the timer awake would
need three modules composed, beyond TLC at bounds that show anything.

Only model-checked: liveness, which is out of the prover's reach (`ReservationsDecided`,
`EffectsDrain`, `DeadValuesFreed`, `EveryRowVisited`, `CommittedRollsForward`, `DropCompletes`,
`QueuesDrain`). Three hypotheses appear in theorems: `OnePass`, `NoLateRetry` and `Suspends = {}`. The
first is itself proved of the timer; for the other two a run is the counterexample that makes them
necessary (`tcc_late_retry`, `saga_twice`). The theorems about the timer, the constraint drop and
the index delivery have none: where the code makes an exception, the property says which.

## 9. Plan

1. Done: the uniqueness protocol with its abstract index and theorems, the recovery timer, the
   multi-shard saga, the constraint drop drain, index delivery with the maintenance timer.
2. Done: theorems for all of these, both refinements included; every invariant and every
   action property of a passing run is stated by one, with the hypotheses named in section 8.
   Disagreements of documents and code recorded by runs or stated as exceptions (section 7).
3. Bulk load and the ordered batches on top of `MutationSaga`; the index retirement drain as a
   second user of `ConstraintDrop`'s lap.
