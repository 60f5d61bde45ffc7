----------------------------- MODULE MutationSaga -----------------------------
(***************************************************************************)
(* A federated mutation as a roll-forward saga (ADR 0029): the Router's    *)
(* client calls and its recovery pass, the graph shards that execute the   *)
(* plans and journal them, and the label-statistics projection that a      *)
(* shard's completion waits for.                                           *)
(*                                                                         *)
(* A call sends the plans to every shard of its mutation, then captures    *)
(* each shard in turn: it reads the shard's journal entry, records the     *)
(* count, and pulls the label-statistics deltas up to the entry's last     *)
(* sequence.  A retry first reconciles the shards an earlier attempt left  *)
(* captured and not projected.  Recovery captures what it can and never    *)
(* sends plans.  Every request is bounded-wait: it may fail and still be   *)
(* executed later.  Requests of the Router reach a shard in order.         *)
(***************************************************************************)
EXTENDS Integers, Sequences, FiniteSets, FiniteSetsExt, SequencesExt

CONSTANTS
  Mutations,   \* one per client key
  Shards,
  Targets,     \* Targets[m]: the shards of m's envelope, in order
  Calls,       \* client calls
  KeyOf,       \* KeyOf[c]: the mutation of call c
  Recovery,    \* the recovery pass
  Plans,       \* DML plans in a bundle
  Suspends,    \* mutations whose read phases await an index lookup
  Hot,         \* mutations with hot vertices to finalize
  Counts,      \* row counts a shard may report
  PageLimit,   \* LABEL_STATS_PROJECTION_BATCH_LIMIT
  MaxFaults

ASSUME SagaConstants ==
  /\ Targets \in [Mutations -> Seq(Shards) \ {<<>>}]
  /\ \A m \in Mutations : IsInjective(Targets[m])
  /\ KeyOf \in [Calls -> Mutations]
  /\ Suspends \cup Hot \subseteq Mutations
  /\ Recovery \notin Calls
  /\ Plans \in Nat \ {0} /\ PageLimit \in Nat \ {0} /\ MaxFaults \in Nat
  /\ Counts \subseteq Nat

VARIABLES
  rec,       \* Router: ROUTER_MUTATION_BY_CLIENT_KEY
  cursor,    \* Router: ROUTER_LABEL_STATS_PROJECTION, by shard
  stats,     \* Router: deltas of each mutation in the label statistics
  proc,      \* Router heap: the calls and the recovery pass
  net,       \* requests under way to each shard
  journal,   \* shard: GRAPH_MUTATION_JOURNAL
  log,       \* shard: LABEL_STATS_DELTA_LOG with what was removed from it
  pruned,    \* shard: the deltas removed from it
  runs,      \* shard heap: executions waiting for an index lookup
  applied,   \* history: how often each plan was applied
  faults

vars == <<rec, cursor, stats, proc, net, journal, log, pruned, runs, applied, faults>>
routerVars == <<rec, cursor, stats>>
shardVars == <<journal, log, pruned, runs, applied>>

Procs == Calls \cup {Recovery}
Nobody == "nobody"
ShardsOf(m) == ToSet(Targets[m])

------------------------------------------------------------------------------
(* The Router's record.                                                     *)

Pristine == [done |-> FALSE, count |-> 0, projected |-> FALSE]
NoRecord == [state |-> "none", shards |-> [s \in Shards |-> Pristine], total |-> 0]
Envelope == [NoRecord EXCEPT !.state = "open"]

(* CanonicalCompleted: after compaction a late callback changes nothing.    *)
Captured(r, s, n) ==
  IF r.state # "open" THEN r
  ELSE [r EXCEPT !.shards[s].done = TRUE, !.shards[s].count = n]
(* Mutant: a shard can be captured only once.                               *)
Conflicts_Any(r, s, n) == r.state = "open" /\ r.shards[s].done
(* A second capture must report the same count.                             *)
Conflicts(r, s, n) ==
  r.state = "open" /\ r.shards[s].done /\ r.shards[s].count # n

(* Mutant: the last shard to finish completes the record.                   *)
Finishes_Any(r, m) == \E s \in ShardsOf(m) : r.shards[s].projected
Finishes(r, m) == \A s \in ShardsOf(m) : r.shards[s].done /\ r.shards[s].projected

(* ProjectionAdvanced, and the completion and compaction that may follow.   *)
Advanced(r, m, s) ==
  LET next == [r EXCEPT !.shards[s].projected = TRUE]
  IN  IF r.state # "open" THEN r
      ELSE IF Finishes(next, m)
      THEN [NoRecord EXCEPT !.state = "done",
              !.total = MapThenSumSet(LAMBDA t : next.shards[t].count, ShardsOf(m))]
      ELSE next

------------------------------------------------------------------------------
(* Requests and answers.                                                    *)

Waiting == [kind |-> "waiting", first |-> 0, last |-> 0]
Failure == [kind |-> "failed", first |-> 0, last |-> 0]
Answer(kind, a, b) == [kind |-> kind, first |-> a, last |-> b]

(* live: the sender still awaits the answer.                                *)
Request(p, op, m, arg) ==
  [p |-> p, op |-> op, m |-> m, arg |-> arg, live |-> TRUE]

(* A process: its mutation, the shards left, the outcome of each dispatch,  *)
(* the entry in hand (count and last sequence), the rows merged so far and  *)
(* the answer it awaits.                                                    *)
Blank(pc) ==
  [pc |-> pc, mode |-> "none", m |-> Nobody, todo |-> {},
   out |-> [s \in Shards |-> Waiting], count |-> 0, target |-> 0, from |-> 0,
   sum |-> 0, ans |-> Waiting, why |-> "none"]
(* The shard it is at: the first one left, in the envelope's order.         *)
FirstOf == [m \in Mutations |-> [T \in (SUBSET ShardsOf(m)) \ {{}} |->
              Targets[m][Min({i \in DOMAIN Targets[m] : Targets[m][i] \in T})]]]
At(w) == FirstOf[w.m][w.todo]

(* An attempt fails: because a call of its own did, or with a complaint.    *)
Failed(w, why) ==
  [Blank(IF w.mode = "recover" THEN "idle" ELSE "error") EXCEPT !.why = why]
Replied(n) == [Blank("ok") EXCEPT !.count = n]

Init ==
  /\ rec = [m \in Mutations |-> NoRecord]
  /\ cursor = [s \in Shards |-> 0]
  /\ stats = [s \in Shards |-> [m \in Mutations |-> 0]]
  /\ proc = [p \in Procs |-> IF p \in Calls THEN Blank("new") ELSE Blank("idle")]
  /\ net = [s \in Shards |-> <<>>]
  /\ journal = [s \in Shards |-> [m \in Mutations |-> Waiting]]
  /\ log = [s \in Shards |-> <<>>]
  /\ pruned = [s \in Shards |-> 0]
  /\ runs = [s \in Shards |-> {}]
  /\ applied = [s \in Shards |-> [m \in Mutations |-> [i \in 1..Plans |-> 0]]]
  /\ faults = 0

(* Process p goes on as w: a process that awaits one shard sends it what    *)
(* its pc names.                                                            *)
Sends(w) == w.pc \in {"fetch", "list", "ack"}
Continue(p, w) ==
  /\ proc' = [proc EXCEPT ![p] = w]
  /\ net' = IF Sends(w)
            THEN [net EXCEPT ![At(w)] = Append(@, Request(p, w.pc, w.m, w.from))]
            ELSE net

------------------------------------------------------------------------------
(* Capture: one shard after the other.  r is the mutation's record as the   *)
(* slice left it, cur the cursors.                                          *)

Fetching(w, mode, todo) ==
  [w EXCEPT !.pc = "fetch", !.mode = mode, !.todo = todo, !.ans = Waiting,
            !.from = 0, !.count = 0, !.target = 0]

(* merge_execute_plan_result: a call that dispatched answers the rows of    *)
(* the entries it read.                                                     *)
Merged(w) == IF w.mode = "capture" THEN w.sum + w.count ELSE 0

(* After the last shard: a completed record answers with its total, and a   *)
(* capture without one with the merged rows.                                *)
Ended(w, r) ==
  CASE w.mode = "recover" -> Blank("idle")
    [] w.mode # "recover" /\ r.state = "done" -> Replied(r.total)
    [] w.mode = "capture" /\ r.state # "done" -> Replied(Merged(w))
    [] w.mode = "reconcile" /\ r.state # "done" -> [Blank("prepared") EXCEPT !.m = w.m]

NextShard(w, r) ==
  IF w.todo # {At(w)}
  THEN [Fetching(w, w.mode, w.todo \ {At(w)}) EXCEPT !.sum = Merged(w)]
  ELSE Ended(w, r)

(* A shard is captured and projected.  A direct reply must agree with the   *)
(* entry; hot vertices are finalized before the marker is set.              *)
Disagrees(w) ==
  /\ w.mode = "capture"
  /\ w.out[At(w)].kind = "ok" /\ w.out[At(w)].first # w.count
Finalizes(w) == w.mode = "capture" /\ w.m \in Hot

Settle(p, w, r) ==
  IF Disagrees(w)
  THEN Continue(p, Failed(w, "mismatch")) /\ rec' = [rec EXCEPT ![w.m] = r]
  ELSE IF Finalizes(w)
  THEN Continue(p, [w EXCEPT !.pc = "finalize", !.ans = Waiting]) /\ rec' = [rec EXCEPT ![w.m] = r]
  ELSE LET next == Advanced(r, w.m, At(w))
       IN  Continue(p, NextShard(w, next)) /\ rec' = [rec EXCEPT ![w.m] = next]

(* Mutant: the marker is set without pulling the deltas.                    *)
Project_Skip(p, w, r) == Settle(p, w, r)
(* advance_label_stats_projection_through: the next page, or the end.       *)
Project(p, w, r) ==
  IF cursor[At(w)] >= w.target THEN Settle(p, w, r)
  ELSE /\ Continue(p, [w EXCEPT !.pc = "list", !.ans = Waiting,
                                !.from = cursor[At(w)] + 1])
       /\ rec' = [rec EXCEPT ![w.m] = r]

(* No completed entry.                                                      *)
NoEntry(w) ==
  CASE w.mode = "recover" -> NextShard(w, rec[w.m])
    [] w.mode = "capture" /\ w.out[At(w)].kind = "failed" -> Failed(w, "none")
    [] OTHER -> Failed(w, "missing")

Answered(p, pc) == proc[p].pc = pc /\ proc[p].ans.kind # "waiting"
Lost(p) ==
  /\ proc[p].ans.kind = "failed"
  /\ Continue(p, Failed(proc[p], "none"))
  /\ UNCHANGED <<routerVars, shardVars, faults>>

(* capture_scalar_mutation_outcome, from the journal entry on.              *)
ReadEntry(p) ==
  LET w == proc[p]
      n == w.ans.first
      r == rec[w.m]
  IN  /\ Answered(p, "fetch")
      /\ \/ Lost(p)
         \/ /\ w.ans.kind = "none"
            /\ Continue(p, NoEntry(w))
            /\ UNCHANGED <<routerVars, shardVars, faults>>
         \/ /\ w.ans.kind = "entry" /\ Conflicts(r, At(w), n)
            /\ Continue(p, Failed(w, "conflict"))
            /\ UNCHANGED <<routerVars, shardVars, faults>>
         \/ /\ w.ans.kind = "entry" /\ ~Conflicts(r, At(w), n)
            /\ Project(p, [w EXCEPT !.count = n, !.target = w.ans.last],
                       Captured(r, At(w), n))
            /\ UNCHANGED <<cursor, stats, shardVars, faults>>

(* Mutant: the page is added to the statistics as it came.                  *)
Fresh_All(s, first, last) == first..last
(* apply_label_stats_delta_event skips what the cursor has passed.          *)
Fresh(s, first, last) == {i \in first..last : i > cursor[s]}

(* A page of deltas: applied, then acknowledged.                            *)
ReadPage(p) ==
  LET w == proc[p]
      s == At(w)
      first == w.ans.first
      last == w.ans.last
  IN  /\ Answered(p, "list")
      /\ \/ Lost(p)
         \/ /\ w.ans.kind = "page" /\ first > last
            /\ Continue(p, Failed(w, "lag"))
            /\ UNCHANGED <<routerVars, shardVars, faults>>
         \/ /\ w.ans.kind = "page" /\ first <= last /\ first # w.from
            /\ Continue(p, Failed(w, "gap"))
            /\ UNCHANGED <<routerVars, shardVars, faults>>
         \/ /\ w.ans.kind = "page" /\ first <= last /\ first = w.from
            /\ stats' = [stats EXCEPT ![s] = [m \in Mutations |-> @[m] +
                 Cardinality({i \in Fresh(s, first, last) : log[s][i] = m})]]
            /\ cursor' = [cursor EXCEPT ![s] = Max({@, last})]
            /\ Continue(p, [w EXCEPT !.pc = "ack", !.ans = Waiting, !.from = last])
            /\ UNCHANGED <<rec, shardVars, faults>>

ReadAck(p) ==
  LET w == proc[p] IN
  /\ Answered(p, "ack")
  /\ \/ Lost(p)
     \/ /\ w.ans.kind = "acked"
        /\ Project(p, w, rec[w.m])
        /\ UNCHANGED <<cursor, stats, shardVars, faults>>

(* maybe_finalize_hot_vertices_after_dml returned.                          *)
Finalized(p) ==
  LET w == proc[p]
      next == Advanced(rec[w.m], w.m, At(w))
  IN  /\ w.pc = "finalize"
      /\ Continue(p, NextShard(w, next))
      /\ rec' = [rec EXCEPT ![w.m] = next]
      /\ UNCHANGED <<cursor, stats, shardVars, faults>>

FinalizeFailed(p) ==
  /\ proc[p].pc = "finalize" /\ faults < MaxFaults
  /\ faults' = faults + 1
  /\ Continue(p, Failed(proc[p], "none"))
  /\ UNCHANGED <<routerVars, shardVars>>

------------------------------------------------------------------------------
(* Client calls and the recovery pass begin.                                *)

Unprojected(m) ==
  {s \in ShardsOf(m) : rec[m].shards[s].done /\ ~rec[m].shards[s].projected}
Unfinished(m) ==
  {s \in ShardsOf(m) : ~(rec[m].shards[s].done /\ rec[m].shards[s].projected)}

(* prepare_mutation_for_batch: a completed key is answered, what an earlier *)
(* attempt captured is reconciled, and the envelope is made durable.        *)
Prepare(c) ==
  LET m == KeyOf[c]
      w == [Blank("prepared") EXCEPT !.m = m]
  IN  /\ proc[c].pc = "new"
      /\ Continue(c, CASE rec[m].state = "done" -> Replied(rec[m].total)
                       [] rec[m].state # "done" /\ Unprojected(m) # {} ->
                            Fetching(w, "reconcile", Unprojected(m))
                       [] OTHER -> w)
      /\ rec' = IF rec[m].state = "none" THEN [rec EXCEPT ![m] = Envelope] ELSE rec
      /\ UNCHANGED <<cursor, stats, shardVars, faults>>

(* scalar_dispatch_gate: a captured shard is not sent the plans again.      *)
Gate(r, s) == ~r.shards[s].done

Dispatch(c) ==
  LET w == proc[c]
      r == rec[w.m]
      to == {s \in ShardsOf(w.m) : Gate(r, s)}
  IN  /\ w.pc = "prepared"
      /\ IF r.state = "done"
         THEN Continue(c, Replied(r.total))
         ELSE /\ proc' = [proc EXCEPT ![c].pc = "exec",
                            ![c].out = [s \in Shards |-> IF s \in to THEN Waiting
                                                         ELSE Answer("captured", 0, 0)]]
              /\ net' = [s \in Shards |-> IF s \in to
                           THEN Append(net[s], Request(c, "exec", w.m, 0)) ELSE net[s]]
      /\ UNCHANGED <<routerVars, shardVars, faults>>

(* join_all: every shard has answered or failed.                            *)
Dispatched(c) ==
  LET w == proc[c] IN
  /\ w.pc = "exec"
  /\ \A s \in ShardsOf(w.m) : w.out[s].kind # "waiting"
  /\ Continue(c, Fetching(w, "capture", ShardsOf(w.m)))
  /\ UNCHANGED <<routerVars, shardVars, faults>>

(* recover_mutation_record, on the record the scan selected.                *)
RecoverStart(m) ==
  /\ proc[Recovery].pc = "idle" /\ rec[m].state = "open"
  /\ Continue(Recovery, Fetching([Blank("idle") EXCEPT !.m = m], "recover", Unfinished(m)))
  /\ UNCHANGED <<routerVars, shardVars, faults>>

------------------------------------------------------------------------------
(* Graph shards.                                                            *)

Deliver(q, s, a) ==
  proc' = IF ~q.live THEN proc
          ELSE IF q.op = "exec" THEN [proc EXCEPT ![q.p].out[s] = a]
          ELSE [proc EXCEPT ![q.p].ans = a]

(* pending_label_stats_deltas: what is left of the log from a sequence on.  *)
PageOf(s, from) ==
  LET first == Max({from, pruned[s] + 1})
      last == Min({Len(log[s]), first + PageLimit - 1})
  IN  IF first > last THEN Answer("page", 1, 0) ELSE Answer("page", first, last)

(* Mutant: the bound of remove_through is taken one too far.                *)
Acked_Past(s, seq) == Max({pruned[s], seq + 1})
(* ack_label_stats_deltas_through removes the prefix up to a sequence.      *)
Acked(s, seq) == Max({pruned[s], seq})

(* Journal reads, delta pages and acknowledgements.                         *)
Serve(s) ==
  LET q == Head(net[s]) IN
  /\ net[s] # <<>> /\ q.op # "exec"
  /\ net' = [net EXCEPT ![s] = Tail(@)]
  /\ pruned' = IF q.op = "ack" THEN [pruned EXCEPT ![s] = Acked(s, q.arg)] ELSE pruned
  /\ Deliver(q, s, CASE q.op = "list" -> PageOf(s, q.arg)
                     [] q.op = "ack" -> Answer("acked", 0, 0)
                     [] q.op = "fetch" /\ journal[s][q.m].kind = "entry" -> journal[s][q.m]
                     [] OTHER -> Answer("none", 0, 0))
  /\ UNCHANGED <<routerVars, journal, log, runs, applied, faults>>

(* Canonical segments of plans i to j of m: writes and one delta each.      *)
Applies(s, m, i, j) ==
  /\ applied' = [applied EXCEPT ![s][m] =
                   [k \in 1..Plans |-> IF k \in i..j THEN @[k] + 1 ELSE @[k]]]
  /\ log' = [log EXCEPT ![s] = @ \o [k \in 1..(j - i + 1) |-> m]]

(* The completed entry is written with the last segment.                    *)
Complete(s, q) ==
  \E n \in Counts :
    /\ journal' = [journal EXCEPT ![s][q.m] = Answer("entry", n, Len(log'[s]))]
    /\ Deliver(q, s, Answer("ok", n, 0))

(* Mutant: the journal is not consulted.                                    *)
Replays_Never(s, m) == FALSE
(* run_wire_plans_inner: a completed mutation is answered from the journal. *)
Replays(s, m) == journal[s][m].kind = "entry"

(* execute_plan_update: the journal is checked once, before the read phases.*)
Execute(s) ==
  LET q == Head(net[s]) IN
  /\ net[s] # <<>> /\ q.op = "exec"
  /\ net' = [net EXCEPT ![s] = Tail(@)]
  /\ \/ /\ Replays(s, q.m)
        /\ Deliver(q, s, Answer("ok", journal[s][q.m].first, 0))
        /\ UNCHANGED <<journal, log, runs, applied>>
     \/ /\ ~Replays(s, q.m) /\ q.m \notin Suspends
        /\ Applies(s, q.m, 1, Plans)
        /\ Complete(s, q)
        /\ UNCHANGED runs
     \/ /\ ~Replays(s, q.m) /\ q.m \in Suspends
        /\ runs' = [runs EXCEPT ![s] = @ \cup {[q EXCEPT !.arg = 1]}]
        /\ UNCHANGED <<proc, journal, log, applied>>
  /\ UNCHANGED <<routerVars, pruned, faults>>

(* An awaited lookup of plan q.arg returns and its segment is applied.      *)
Resume(s, q) ==
  /\ q \in runs[s]
  /\ Applies(s, q.m, q.arg, q.arg)
  /\ IF q.arg < Plans
     THEN /\ runs' = [runs EXCEPT ![s] = (@ \ {q}) \cup {[q EXCEPT !.arg = @ + 1]}]
          /\ UNCHANGED <<proc, journal>>
     ELSE /\ runs' = [runs EXCEPT ![s] = @ \ {q}]
          /\ Complete(s, q)
  /\ UNCHANGED <<routerVars, net, pruned, faults>>

------------------------------------------------------------------------------
(* Failures.                                                                *)

Fault ==
  /\ faults < MaxFaults
  /\ faults' = faults + 1
  /\ UNCHANGED routerVars

(* A request is refused, or its execution traps and is rolled back.         *)
Reject(s, i) ==
  /\ i \in 1..Len(net[s]) /\ net[s][i].live
  /\ Fault
  /\ net' = [net EXCEPT ![s] = RemoveAt(@, i)]
  /\ Deliver(net[s][i], s, Failure)
  /\ UNCHANGED shardVars

(* The bounded wait ends before the request was executed or answered.  An   *)
(* error after the commit (the index drain that follows it fails) is the    *)
(* same to the Router.  A late read changes nothing and is left out.        *)
Timeout(s, i) ==
  /\ i \in 1..Len(net[s]) /\ net[s][i].live /\ net[s][i].op \in {"exec", "ack"}
  /\ Fault
  /\ net' = [net EXCEPT ![s][i].live = FALSE]
  /\ Deliver(net[s][i], s, Failure)
  /\ UNCHANGED shardVars

RunTimeout(s, q) ==
  /\ q \in runs[s] /\ q.live
  /\ Fault
  /\ runs' = [runs EXCEPT ![s] = (@ \ {q}) \cup {[q EXCEPT !.live = FALSE]}]
  /\ Deliver(q, s, Failure)
  /\ UNCHANGED <<net, journal, log, pruned, applied>>

(* A lookup fails or a later segment traps: earlier segments stay.          *)
RunFails(s, q) ==
  /\ q \in runs[s]
  /\ Fault
  /\ runs' = [runs EXCEPT ![s] = @ \ {q}]
  /\ Deliver(q, s, Failure)
  /\ UNCHANGED <<net, journal, log, pruned, applied>>

------------------------------------------------------------------------------
RouterStep(p) == ReadEntry(p) \/ ReadPage(p) \/ ReadAck(p) \/ Finalized(p)

Next ==
  \/ \E c \in Calls : Prepare(c) \/ Dispatch(c) \/ Dispatched(c)
  \/ \E m \in Mutations : RecoverStart(m)
  \/ \E s \in Shards : Serve(s) \/ Execute(s)
  \/ \E p \in Procs : RouterStep(p) \/ FinalizeFailed(p)
  \/ \E s \in Shards : \E q \in runs[s] : Resume(s, q) \/ RunTimeout(s, q) \/ RunFails(s, q)
  \/ \E s \in Shards : \E i \in 1..Len(net[s]) : Reject(s, i) \/ Timeout(s, i)

Spec == Init /\ [][Next]_vars

(* Shards serve their requests, the Router reads answers, and the recovery  *)
(* pass takes up every open record again and again.                         *)
Fairness ==
  /\ \A s \in Shards : WF_vars(Serve(s) \/ Execute(s))
  /\ \A s \in Shards : WF_vars(\E q \in runs[s] : Resume(s, q))
  /\ \A p \in Procs : WF_vars(RouterStep(p))
  /\ \A m \in Mutations : SF_vars(RecoverStart(m))

FairSpec == Spec /\ Fairness

------------------------------------------------------------------------------
(* What is checked.                                                         *)

Answers == [kind : {"waiting", "failed", "none", "entry", "page", "acked", "ok", "captured"},
            first : Nat, last : Nat]

TypeOK ==
  /\ \A m \in Mutations : rec[m].state \in {"none", "open", "done"}
  /\ \A s \in Shards :
       /\ pruned[s] <= cursor[s] /\ cursor[s] <= Len(log[s])
       /\ \A m \in Mutations : journal[s][m] \in Answers
  /\ \A p \in Procs :
       /\ proc[p].pc \in {"new", "prepared", "exec", "fetch", "list", "ack",
                          "finalize", "ok", "error", "idle"}
       /\ proc[p].ans \in Answers
  /\ faults \in 0..MaxFaults

(* The Router's label statistics are the deltas up to the cursor, each      *)
(* counted once, although several processes pull the same page at once.     *)
StatsExact ==
  \A s \in Shards, m \in Mutations :
    stats[s][m] = Cardinality({i \in 1..cursor[s] : log[s][i] = m})

(* The projection never meets a gap or a lag, a captured shard always has   *)
(* its entry, and counts never conflict: an attempt fails only because one  *)
(* of its calls did.                                                        *)
OnlyCallsFail == \A p \in Procs : proc[p].why = "none"

Journaled(m) == \A s \in ShardsOf(m) : journal[s][m].kind = "entry"
RowsOf(m) == MapThenSumSet(LAMBDA s : journal[s][m].first, ShardsOf(m))
Projected(m) == \A s \in ShardsOf(m) : journal[s][m].last <= cursor[s]

(* ADR 0029: a completed record means that every shard committed, that its  *)
(* statistics are visible and that the count is the sum of the shards'.     *)
CompletedMeansAll ==
  \A m \in Mutations :
    rec[m].state = "done" => Journaled(m) /\ Projected(m) /\ rec[m].total = RowsOf(m)

(* Whatever attempt answers a client, and however late, the count is the    *)
(* same and everything the mutation wrote is visible.                       *)
AnsweredMeansDone ==
  \A c \in Calls :
    proc[c].pc = "ok" => LET m == KeyOf[c] IN
      Journaled(m) /\ Projected(m) /\ proc[c].count = RowsOf(m)

(* "Each graph shard applies the same `mutation_id` idempotently" (ADR      *)
(* 0029): no plan is applied twice, and a completed one was applied whole.  *)
ExactlyOnce ==
  \A s \in Shards, m \in Mutations : \A i \in 1..Plans :
    /\ applied[s][m][i] <= 1
    /\ journal[s][m].kind = "entry" => applied[s][m][i] = 1

(* What a client sees of a mutation: rows journaled once by every shard,    *)
(* then visible, then one total, on record before any call is told of it.   *)
Unset == -1
OutcomeRows ==
  [s \in Shards |-> [m \in Mutations |->
     IF journal[s][m].kind = "entry" THEN journal[s][m].first ELSE Unset]]
OutcomeShown ==
  {x \in Shards \X Mutations : /\ journal[x[1]][x[2]].kind = "entry"
                               /\ journal[x[1]][x[2]].last <= cursor[x[1]]}
OutcomeTotal ==
  [m \in Mutations |-> IF rec[m].state = "done" THEN rec[m].total ELSE Unset]
OutcomeAnswer ==
  [c \in Calls |-> IF proc[c].pc = "ok" THEN proc[c].count ELSE Unset]

Outcome == INSTANCE SagaOutcome WITH
  Parts <- [m \in Mutations |-> ShardsOf(m)], rows <- OutcomeRows,
  shown <- OutcomeShown, total <- OutcomeTotal, answer <- OutcomeAnswer

(* The saga implements the outcome: a shard's entry is never overwritten, a *)
(* completed record never reopens, no total or answer ever changes, and a   *)
(* call is answered only when its record is complete (so that a retry finds *)
(* it), whatever is retried, timed out, refused or recovered meanwhile.     *)
OutcomeSpec == Outcome!Spec

(* A mutation that every shard committed is completed without its client.   *)
CommittedRollsForward ==
  \A m \in Mutations : Journaled(m) ~> rec[m].state = "done"
=============================================================================
