-------------------------- MODULE MutationSaga_proofs -------------------------
(***************************************************************************)
(* Theorems about the saga, for every number of mutations, shards, calls,  *)
(* plans and faults.  PullInv carries the types and the label-statistics   *)
(* projection, whatever the executions await; SagaInv the outcome of a     *)
(* mutation, for mutations whose executions await nothing (Suspends = {}): *)
(* the others may be applied twice, as run saga_twice shows.  MarkInv adds *)
(* what ties an answer to its record, and with the other two shows that    *)
(* the saga implements SagaOutcome.                                        *)
(***************************************************************************)
EXTENDS MutationSaga, FiniteSetTheorems, SequenceTheorems, WellFoundedInduction, TLAPS

Reads == {"fetch", "list", "ack"}
Working == Reads \cup {"finalize"}
Pulling == {"list", "ack", "finalize"}
Active == Working \cup {"prepared", "exec"}

ProcType ==
  [pc : {"new", "ok", "error", "idle"} \cup Active,
   mode : {"none", "capture", "reconcile", "recover"},
   m : Mutations \cup {Nobody}, todo : SUBSET Shards, out : [Shards -> Answers],
   count : Nat, target : Nat, from : Nat, sum : Nat, ans : Answers,
   why : {"none", "mismatch", "missing", "conflict", "lag", "gap"}]
ReqType == [p : Procs, op : Reads \cup {"exec"}, m : Mutations, arg : Nat, live : BOOLEAN]
MarkType == [done : BOOLEAN, count : Nat, projected : BOOLEAN]
RecType == [state : {"none", "open", "done"}, shards : [Shards -> MarkType], total : Nat]

RouterType ==
  /\ rec \in [Mutations -> RecType]
  /\ cursor \in [Shards -> Nat]
  /\ stats \in [Shards -> [Mutations -> Nat]]
  /\ proc \in [Procs -> ProcType]
  /\ net \in [Shards -> Seq(ReqType)]
ShardType ==
  /\ journal \in [Shards -> [Mutations -> Answers]]
  /\ log \in [Shards -> Seq(Mutations)]
  /\ pruned \in [Shards -> Nat]
  /\ runs \in [Shards -> SUBSET ReqType]
  /\ \A s \in Shards : \A q \in runs[s] : q.op = "exec"
  /\ applied \in [Shards -> [Mutations -> [1..Plans -> Nat]]]
  /\ faults \in 0..MaxFaults

(* A record is open until the last of its shards is projected, and a shard  *)
(* is projected only after it was captured.                                 *)
Shaped(r, m) ==
  /\ r.state = "none" => r = NoRecord
  /\ r.state = "open" =>
       /\ \A s \in Shards : r.shards[s].projected => r.shards[s].done
       /\ \E s \in ShardsOf(m) : ~r.shards[s].projected

(* What the log, its journal entries and the Router's cursor have in common.*)
CursorsInLog ==
  \A s \in Shards :
    /\ pruned[s] <= cursor[s] /\ cursor[s] <= Len(log[s])
    /\ \A m \in Mutations : journal[s][m].last <= Len(log[s])

(* A process at work is at a shard of an open or completed record, wants    *)
(* what is in the shard's log, and asks from the cursor on.                 *)
Pulls(w) ==
  /\ w.pc \in Active => w.m \in Mutations /\ rec[w.m].state # "none"
  /\ w.pc \in Working =>
       /\ w.todo # {} /\ w.todo \subseteq ShardsOf(w.m)
       /\ w.mode \in {"capture", "reconcile", "recover"}
  /\ w.pc \in Pulling =>
       /\ w.target <= Len(log[At(w)])
       /\ rec[w.m].state = "open" => rec[w.m].shards[At(w)].done
  /\ (w.pc = "fetch" /\ w.ans.kind = "entry") => w.ans.last <= Len(log[At(w)])
  /\ w.pc = "list" =>
       /\ 1 <= w.from /\ w.from <= cursor[At(w)] + 1 /\ w.from <= Len(log[At(w)])
       /\ w.ans.kind = "page" =>
            w.ans.first = w.from /\ w.from <= w.ans.last /\ w.ans.last <= Len(log[At(w)])

(* The sender of a request that is live awaits its answer.                  *)
Awaits(w, s, q) ==
  w.pc = q.op /\ w.ans = Waiting /\ At(w) = s /\ w.m = q.m /\ w.from = q.arg
IsRead(q) == q.op \in Reads /\ q.live

(* Reads are awaited one at a time, acknowledgements stay below the cursor, *)
(* and none that is ahead of a page's request reaches into the page.        *)
ReadsOrdered(s, n) ==
  \A i \in 1..Len(n) :
    /\ IsRead(n[i]) => Awaits(proc[n[i].p], s, n[i])
    /\ n[i].op = "ack" => n[i].arg <= cursor[s]
    /\ n[i].op = "list" =>
         /\ n[i].live /\ pruned[s] < n[i].arg
         /\ \A j \in 1..(i - 1) : n[j].op = "ack" => n[j].arg < n[i].arg
    /\ \A j \in 1..(i - 1) : IsRead(n[i]) /\ IsRead(n[j]) => n[i].p # n[j].p

PullInv ==
  /\ RouterType /\ ShardType
  /\ \A m \in Mutations : Shaped(rec[m], m)
  /\ CursorsInLog
  /\ \A p \in Procs : Pulls(proc[p])
  /\ \A s \in Shards : ReadsOrdered(s, net[s])
  /\ StatsExact

------------------------------------------------------------------------------
(* Outcomes.                                                                *)

Entry(s, m) == journal[s][m].kind = "entry"
RowsAt(m) == [s \in ShardsOf(m) |-> journal[s][m].first]
Total(g, S) == MapThenSumSet(LAMBDA t : g[t], S)
Visible(s, m) == Entry(s, m) /\ journal[s][m].last <= cursor[s]

(* A shard applies a mutation with its journal entry, all at once.          *)
AppliedWhole ==
  \A s \in Shards, m \in Mutations :
    /\ journal[s][m].kind \in {"waiting", "entry"}
    /\ \A i \in 1..Plans : applied[s][m][i] = IF Entry(s, m) THEN 1 ELSE 0

(* A record's marks are what the shards journaled; once it is completed all *)
(* is visible and its total is the sum of their rows.                       *)
RecTrue(r, m) ==
  /\ r.state = "open" =>
       \A s \in Shards :
         /\ r.shards[s].done => Entry(s, m) /\ r.shards[s].count = journal[s][m].first
         /\ r.shards[s].projected => Visible(s, m)
  /\ r.state = "done" =>
       /\ \A s \in ShardsOf(m) : Visible(s, m)
       /\ r.total = RowsOf(m)

(* Calls work on their own mutation and recovery on any; none complains.    *)
Role(p, w) ==
  /\ w.pc \in {"prepared", "exec"} => p \in Calls /\ w.sum = 0
  /\ (w.pc \in Active /\ p \in Calls) => w.m = KeyOf[p]
  /\ w.pc \in Working => IF p = Recovery THEN w.mode = "recover"
                         ELSE w.mode \in {"capture", "reconcile"}
  /\ w.mode = "recover" => p = Recovery
  /\ w.why = "none"

(* What the shards answered is in their journals, and a shard without an    *)
(* entry has not been captured and did not execute.                         *)
Outs(w) ==
  \A s \in ShardsOf(w.m) :
    /\ w.out[s].kind \in {"waiting", "failed", "ok", "captured"}
    /\ w.out[s].kind \in {"ok", "captured"} => Entry(s, w.m)
    /\ w.out[s].kind = "ok" => w.out[s].first = journal[s][w.m].first
Heard(w) ==
  /\ w.pc \in Active => Outs(w)
  /\ w.pc = "fetch" =>
       /\ w.ans.kind = "entry" => w.ans = journal[At(w)][w.m]
       /\ w.ans.kind = "none" => w.mode # "reconcile" /\
            (w.mode = "capture" => w.out[At(w)].kind = "failed")

(* A process that projects has the shard's entry in hand.                   *)
HasEntry(w) ==
  /\ w.pc \in Pulling =>
       /\ Entry(At(w), w.m)
       /\ w.count = journal[At(w)][w.m].first /\ w.target = journal[At(w)][w.m].last
  /\ w.pc = "finalize" => Visible(At(w), w.m)

(* A reconciliation is of shards that executed; a capture has merged the    *)
(* rows of the shards behind it, which are visible.                         *)
Merges(w) ==
  /\ (w.pc \in Working /\ w.mode = "reconcile") => \A t \in w.todo : Entry(t, w.m)
  /\ (w.pc \in Working /\ w.mode = "capture") =>
       /\ \A t \in w.todo : w.out[t].kind # "waiting"
       /\ \A t \in ShardsOf(w.m) \ w.todo : Visible(t, w.m)
       /\ w.sum = Total(RowsAt(w.m), ShardsOf(w.m) \ w.todo)

(* A client that was answered got the rows of all shards, all visible.      *)
Told(p, w) ==
  (w.pc = "ok" /\ p \in Calls) =>
    /\ \A t \in ShardsOf(KeyOf[p]) : Visible(t, KeyOf[p])
    /\ w.count = RowsOf(KeyOf[p])

Knows(p, w) == Role(p, w) /\ Heard(w) /\ HasEntry(w) /\ Merges(w) /\ Told(p, w)

(* A live execution is awaited, once per call and shard.                    *)
ExecsAwaited(s, n) ==
  \A i \in 1..Len(n) :
    n[i].live /\ n[i].op = "exec" =>
      /\ n[i].p \in Calls /\ s \in ShardsOf(n[i].m)
      /\ LET w == proc[n[i].p] IN w.pc = "exec" /\ w.m = n[i].m /\ w.out[s] = Waiting
      /\ \A j \in 1..(i - 1) : n[j].live /\ n[j].op = "exec" => n[i].p # n[j].p

SagaInv ==
  /\ \A s \in Shards : runs[s] = {}
  /\ AppliedWhole
  /\ \A m \in Mutations : RecTrue(rec[m], m)
  /\ \A p \in Procs : Knows(p, proc[p])
  /\ \A s \in Shards : ExecsAwaited(s, net[s])

------------------------------------------------------------------------------
(* Sums over finite sets, which the community modules define by a fold.     *)

IsTotal(F, g, S) ==
  F = [s \in SUBSET S |-> IF s = {} THEN 0
         ELSE g[CHOOSE x \in s : TRUE] + F[s \ {CHOOSE x \in s : TRUE}]]

(* Total unfolds to the function the library chooses for it.                *)
LEMMA TotalDef ==
  ASSUME NEW g, NEW S
  PROVE  Total(g, S) = (CHOOSE F : IsTotal(F, g, S))[S]
BY DEF Total, MapThenSumSet, MapThenFoldSet, IsTotal

(* A sum depends on the summands only.                                      *)
LEMMA TotalCong ==
  ASSUME NEW g, NEW h, NEW S, \A x \in S : g[x] = h[x]
  PROVE  Total(g, S) = Total(h, S)
<1>1. \A F : IsTotal(F, g, S) <=> IsTotal(F, h, S)
  <2> TAKE F
  <2>1. \A s \in SUBSET S : s # {} => g[CHOOSE x \in s : TRUE] = h[CHOOSE x \in s : TRUE]
    OBVIOUS
  <2> QED
    BY <2>1 DEF IsTotal
<1>2. (CHOOSE F : IsTotal(F, g, S)) = (CHOOSE F : IsTotal(F, h, S))
  BY <1>1
<1> QED
  BY <1>2, TotalDef

(* Of the subsets of a finite set that are in Bad, one has no proper subset *)
(* in Bad.                                                                  *)
LEMMA SmallestSet ==
  ASSUME NEW S, IsFiniteSet(S), NEW Bad \in SUBSET SUBSET S, Bad # {}
  PROVE  \E s \in Bad : \A t \in SUBSET s : t # s => t \notin Bad
<1>1. SUBSET S = FiniteSubsetsOf(S)
  BY FS_FiniteSubsetsOfFinite
<1>2. IsWellFoundedOn(StrictSubsetOrdering(S), FiniteSubsetsOf(S))
  BY FS_StrictSubsetOrderingWellFounded
<1>3. PICK s \in Bad : \A t \in Bad : ~ (<<t, s>> \in StrictSubsetOrdering(S))
  BY <1>1, <1>2, WFMin
<1>4. ASSUME NEW t \in SUBSET s, t # s, t \in Bad PROVE FALSE
  BY <1>3, <1>4 DEF StrictSubsetOrdering
<1> QED
  BY <1>4

(* The function of the fold at a set that is not empty.                     *)
LEMMA TotalUnfold ==
  ASSUME NEW g, NEW S, NEW F, IsTotal(F, g, S), NEW s \in SUBSET S
  PROVE  F[s] = IF s = {} THEN 0
                ELSE g[CHOOSE x \in s : TRUE] + F[s \ {CHOOSE x \in s : TRUE}]
BY DEF IsTotal

(* Two folds agree wherever both are defined.                               *)
LEMMA TotalUnique ==
  ASSUME NEW g, NEW S, IsFiniteSet(S), NEW T \in SUBSET S,
         NEW F, IsTotal(F, g, S), NEW G, IsTotal(G, g, T)
  PROVE  \A s \in SUBSET T : F[s] = G[s]
<1> DEFINE Bad == {s \in SUBSET T : F[s] # G[s]}
<1> SUFFICES ASSUME Bad # {} PROVE FALSE
  OBVIOUS
<1>1. IsFiniteSet(T)
  BY FS_Subset
<1>2. PICK s \in Bad : \A t \in SUBSET s : t # s => t \notin Bad
  <2>1. Bad \in SUBSET SUBSET T /\ Bad # {}
    OBVIOUS
  <2> HIDE DEF Bad
  <2> QED
    BY <1>1, <2>1, SmallestSet
<1> DEFINE x == CHOOSE x \in s : TRUE
<1>3. s \in SUBSET T /\ s \in SUBSET S /\ F[s] # G[s]
  BY <1>2
<1>4. s # {}
  BY <1>3, TotalUnfold
<1>5. x \in s
  BY <1>4
<1>6. F[s] = g[x] + F[s \ {x}] /\ G[s] = g[x] + G[s \ {x}]
  BY <1>3, <1>4, TotalUnfold
<1> HIDE DEF x
<1>7. s \ {x} \in SUBSET s /\ s \ {x} # s
  BY <1>5
<1>8. F[s \ {x}] = G[s \ {x}]
  BY <1>2, <1>3, <1>7
<1> QED
  BY <1>3, <1>6, <1>8

(* The fold over a finite set is well defined.                              *)
LEMMA TotalExists ==
  ASSUME NEW g, NEW S, IsFiniteSet(S)
  PROVE  IsTotal(CHOOSE F : IsTotal(F, g, S), g, S)
<1> DEFINE Bad == {s \in SUBSET S : ~ \E F : IsTotal(F, g, s)}
<1> SUFFICES ASSUME Bad # {} PROVE FALSE
  OBVIOUS
<1>1. PICK T \in Bad : \A t \in SUBSET T : t # T => t \notin Bad
  <2>1. Bad \in SUBSET SUBSET S /\ Bad # {}
    OBVIOUS
  <2> HIDE DEF Bad
  <2> QED
    BY <2>1, SmallestSet
<1>2. T \in SUBSET S /\ ~ \E F : IsTotal(F, g, T)
  BY <1>1
<1>3. ASSUME NEW t \in SUBSET T, t # T
      PROVE  IsFiniteSet(t) /\ IsTotal(CHOOSE F : IsTotal(F, g, t), g, t)
  <2>1. t \in SUBSET S /\ t \notin Bad
    BY <1>1, <1>2, <1>3
  <2>2. \E F : IsTotal(F, g, t)
    BY <2>1
  <2> QED
    BY <2>1, <2>2, FS_Subset
<1> DEFINE c(s) == CHOOSE x \in s : TRUE
           H == [s \in SUBSET T |-> IF s = {} THEN 0 ELSE g[c(s)] + Total(g, s \ {c(s)})]
<1>4. \A s \in SUBSET T : s # {} => c(s) \in s
  OBVIOUS
<1>5. ASSUME NEW u \in SUBSET T, u # T
      PROVE  Total(g, u) = H[u]
  <2> DEFINE F == CHOOSE F : IsTotal(F, g, u)
  <2>1. IsFiniteSet(u) /\ IsTotal(F, g, u) /\ Total(g, u) = F[u]
    BY <1>3, <1>5, TotalDef
  <2> HIDE DEF F
  <2>2. F[u] = IF u = {} THEN 0 ELSE g[c(u)] + F[u \ {c(u)}]
    BY <2>1 DEF IsTotal
  <2>3. u # {} => F[u \ {c(u)}] = Total(g, u \ {c(u)})
    <3> SUFFICES ASSUME u # {} PROVE F[u \ {c(u)}] = Total(g, u \ {c(u)})
      OBVIOUS
    <3> DEFINE v == u \ {c(u)}
    <3> DEFINE G == CHOOSE F1 : IsTotal(F1, g, v)
    <3>1. v \in SUBSET u /\ v \in SUBSET T /\ v # T
      BY <1>4
    <3> HIDE DEF v
    <3>2. IsTotal(G, g, v) /\ Total(g, v) = G[v]
      BY <1>3, <3>1, TotalDef
    <3> HIDE DEF G
    <3>3. F[v] = G[v]
      BY <2>1, <3>1, <3>2, TotalUnique
    <3> QED
      BY <3>2, <3>3 DEF v
  <2> QED
    BY <2>1, <2>2, <2>3
<1>6. ASSUME NEW s \in SUBSET T, s # {}
      PROVE  H[s] = g[c(s)] + H[s \ {c(s)}]
  <2>1. s \ {c(s)} \in SUBSET T /\ s \ {c(s)} # T
    BY <1>4, <1>6
  <2>2. Total(g, s \ {c(s)}) = H[s \ {c(s)}]
    BY <1>5, <2>1
  <2>3. H[s] = g[c(s)] + Total(g, s \ {c(s)})
    BY <1>6
  <2> QED
    BY <2>2, <2>3
<1>7. H = [s \in SUBSET T |-> IF s = {} THEN 0 ELSE g[c(s)] + H[s \ {c(s)}]]
  <2>1. H[{}] = 0
    OBVIOUS
  <2>2. H = [s \in SUBSET T |-> H[s]]
    OBVIOUS
  <2> HIDE DEF H
  <2> QED
    BY <1>6, <2>1, <2>2
<1>8. IsTotal(H, g, T)
  BY <1>7 DEF IsTotal
<1> QED
  BY <1>2, <1>8

(* A fold of natural numbers is one, and takes its summands in any order.   *)
LEMMA TotalAnyOrder ==
  ASSUME NEW g, NEW S, IsFiniteSet(S), \A x \in S : g[x] \in Nat,
         NEW F, IsTotal(F, g, S)
  PROVE  \A s \in SUBSET S : F[s] \in Nat /\ \A x \in s : F[s] = g[x] + F[s \ {x}]
<1> DEFINE Good(s) == F[s] \in Nat /\ \A x \in s : F[s] = g[x] + F[s \ {x}]
           Bad == {s \in SUBSET S : ~Good(s)}
<1> SUFFICES ASSUME Bad # {} PROVE FALSE
  OBVIOUS
<1>1. PICK s \in Bad : \A t \in SUBSET s : t # s => t \notin Bad
  <2>1. Bad \in SUBSET SUBSET S /\ Bad # {}
    OBVIOUS
  <2> HIDE DEF Bad
  <2> QED
    BY <2>1, SmallestSet
<1>2. s \in SUBSET S /\ ~Good(s)
  BY <1>1
<1>3. ASSUME NEW t \in SUBSET s, t # s PROVE Good(t)
  BY <1>1, <1>2, <1>3
<1> DEFINE y == CHOOSE x \in s : TRUE
<1>4. F[s] = IF s = {} THEN 0 ELSE g[y] + F[s \ {y}]
  BY <1>2, TotalUnfold
<1>5. s # {}
  BY <1>2, <1>4
<1>6. y \in s /\ F[s] = g[y] + F[s \ {y}]
  BY <1>4, <1>5
<1> HIDE DEF y
<1>7. Good(s \ {y})
  BY <1>3, <1>6
<1>8. F[s] \in Nat
  BY <1>2, <1>6, <1>7
<1>9. ASSUME NEW x \in s PROVE F[s] = g[x] + F[s \ {x}]
  <2>1. CASE x = y
    BY <1>6, <2>1
  <2>2. CASE x # y
    <3> DEFINE u == (s \ {x}) \ {y}
    <3>1. u = (s \ {y}) \ {x}
      OBVIOUS
    <3>2. Good(s \ {x}) /\ Good(u)
      BY <1>3
    <3>3. F[s \ {y}] = g[x] + F[u]
      BY <1>7, <2>2, <3>1
    <3>4. F[s \ {x}] = g[y] + F[u]
      BY <1>6, <2>2, <3>2
    <3>5. g[x] \in Nat /\ g[y] \in Nat /\ F[u] \in Nat
      BY <1>2, <1>6, <3>2
    <3> HIDE DEF u
    <3> QED
      BY <1>6, <3>3, <3>4, <3>5
  <2> QED
    BY <2>1, <2>2
<1> QED
  BY <1>2, <1>8, <1>9

(* Sums grow by what is added.                                              *)
LEMMA TotalAdd ==
  ASSUME NEW g, NEW T, IsFiniteSet(T), NEW x, x \notin T,
         \A y \in T \cup {x} : g[y] \in Nat
  PROVE  Total(g, T \cup {x}) = Total(g, T) + g[x]
<1> DEFINE S == T \cup {x}
           F == CHOOSE F : IsTotal(F, g, S)
           G == CHOOSE G : IsTotal(G, g, T)
<1>1. IsFiniteSet(S) /\ T \in SUBSET S /\ S \ {x} = T /\ x \in S /\ S \in SUBSET S
  BY FS_AddElement
<1>2. IsTotal(F, g, S) /\ IsTotal(G, g, T) /\ Total(g, S) = F[S] /\ Total(g, T) = G[T]
  BY <1>1, TotalExists, TotalDef
<1>3. g[x] \in Nat /\ \A y \in S : g[y] \in Nat
  OBVIOUS
<1> HIDE DEF F, G, S
<1>4. F[S] = g[x] + F[S \ {x}] /\ F[T] \in Nat
  BY <1>1, <1>2, <1>3, TotalAnyOrder
<1>5. \A s \in SUBSET T : F[s] = G[s]
  BY <1>1, <1>2, TotalUnique
<1>6. F[T] = G[T]
  BY <1>5
<1>7. F[S] = g[x] + F[T]
  BY <1>1, <1>4, Zenon
<1>8. F[S] = F[T] + g[x]
  BY <1>3, <1>4, <1>7
<1>9. Total(g, S) = Total(g, T) + g[x]
  BY <1>2, <1>6, <1>8
<1> QED
  BY <1>9 DEF S

(* A sum of naturals over a finite set is a natural, and the empty sum is   *)
(* 0.                                                                       *)
LEMMA TotalBase ==
  ASSUME NEW g, NEW T, IsFiniteSet(T), \A y \in T : g[y] \in Nat
  PROVE  Total(g, T) \in Nat /\ Total(g, {}) = 0
<1> DEFINE F == CHOOSE F : IsTotal(F, g, T)
           G == CHOOSE G : IsTotal(G, g, {})
<1>1. IsTotal(F, g, T) /\ IsTotal(G, g, {}) /\ Total(g, T) = F[T] /\ Total(g, {}) = G[{}]
  BY FS_EmptySet, TotalExists, TotalDef
<1> HIDE DEF F, G
<1>2. F[T] \in Nat
  BY <1>1, TotalAnyOrder
<1>3. G[{}] = 0
  BY <1>1, TotalUnfold
<1> QED
  BY <1>1, <1>2, <1>3

------------------------------------------------------------------------------
(* Basics.                                                                  *)

(* The maximum of two naturals.                                             *)
LEMMA MaxOfTwo ==
  ASSUME NEW a \in Nat, NEW b \in Nat
  PROVE  Max({a, b}) = IF a >= b THEN a ELSE b
<1>1. \A x : x = Max({a, b}) => x \in {a, b} /\ \A y \in {a, b} : x >= y
  <2>1. \E x \in {a, b} : \A y \in {a, b} : x >= y
    <3>1. CASE a >= b
      BY <3>1
    <3>2. CASE ~ (a >= b)
      BY <3>2
    <3> QED
      BY <3>1, <3>2
  <2> QED
    BY <2>1 DEF Max
<1> QED
  BY <1>1

(* The minimum of two naturals.                                             *)
LEMMA MinOfTwo ==
  ASSUME NEW a \in Nat, NEW b \in Nat
  PROVE  Min({a, b}) = IF a <= b THEN a ELSE b
<1>1. \A x : x = Min({a, b}) => x \in {a, b} /\ \A y \in {a, b} : x <= y
  <2>1. \E x \in {a, b} : \A y \in {a, b} : x <= y
    <3>1. CASE a <= b
      BY <3>1
    <3>2. CASE ~ (a <= b)
      BY <3>2
    <3> QED
      BY <3>1, <3>2
  <2> QED
    BY <2>1 DEF Min
<1> QED
  BY <1>1

(* The least element of a set of positions.                                 *)
LEMMA MinIsIn ==
  ASSUME NEW S \in SUBSET Nat, S # {}
  PROVE  Min(S) \in S
<1> DEFINE R == OpToRel(<, Nat)
<1>1. IsWellFoundedOn(R, Nat)
  BY NatLessThanWellFounded
<1>2. \A x, y \in Nat : x < y => <<x, y>> \in R
  BY DEF OpToRel
<1> HIDE DEF R
<1>3. \E m \in S : \A j \in S : ~ (<<j, m>> \in R)
  BY <1>1, WFMin
<1>4. PICK m \in S : \A j \in S : ~ (<<j, m>> \in R)
  BY <1>3
<1>5. \A j \in S : m <= j
  <2> TAKE j \in S
  <2>1. j \in Nat /\ m \in Nat
    OBVIOUS
  <2>2. ~ (j < m)
    BY <1>2, <1>4, <2>1
  <2> QED
    BY <2>1, <2>2
<1> QED
  BY <1>5 DEF Min

(* An envelope names finitely many shards, and at least one.                *)
LEMMA ShardsOfEnvelope ==
  ASSUME NEW m \in Mutations
  PROVE  ShardsOf(m) \subseteq Shards /\ ShardsOf(m) # {} /\ IsFiniteSet(ShardsOf(m))
<1> DEFINE t == Targets[m]
<1>1. t \in Seq(Shards) /\ t # <<>>
  BY SagaConstants
<1>2. ShardsOf(m) = {t[i] : i \in 1..Len(t)}
  BY <1>1 DEF ShardsOf, ToSet
<1>3. Len(t) \in Nat /\ 1 \in 1..Len(t) /\ \A i \in 1..Len(t) : t[i] \in Shards
  BY <1>1
<1>4. IsFiniteSet(1..Len(t))
  BY <1>3, FS_Interval
<1>5. IsFiniteSet({t[i] : i \in 1..Len(t)})
  <2> DEFINE f == [i \in 1..Len(t) |-> t[i]]
  <2>1. f \in Surjection(1..Len(t), {t[i] : i \in 1..Len(t)})
    BY DEF Surjection
  <2> QED
    BY <1>4, <2>1, FS_Surjection
<1> QED
  BY <1>2, <1>3, <1>5

(* A process at work is at one of the shards it has left.                   *)
LEMMA AtInTodo ==
  ASSUME NEW w, w.m \in Mutations, w.todo # {}, w.todo \subseteq ShardsOf(w.m)
  PROVE  At(w) \in w.todo /\ At(w) \in ShardsOf(w.m) /\ At(w) \in Shards
<1> DEFINE t == Targets[w.m]
           I == {i \in DOMAIN t : t[i] \in w.todo}
<1>1. t \in Seq(Shards)
  BY SagaConstants
<1>2. I \in SUBSET Nat
  BY <1>1
<1>3. I # {}
  BY DEF ShardsOf, ToSet
<1>4. Min(I) \in I
  BY <1>2, <1>3, MinIsIn
<1>5. At(w) = t[Min(I)]
  BY DEF At, FirstOf
<1>6. At(w) \in w.todo
  BY <1>4, <1>5
<1> QED
  BY <1>6, ShardsOfEnvelope
------------------------------------------------------------------------------
(* What the steps of a process make of it.                                  *)

(* The two answers that are not a shard's.                                  *)
LEMMA WaitingType == Waiting \in Answers /\ Failure \in Answers
BY DEF Waiting, Failure, Answers

(* A process that starts or ends has its fields reset.                      *)
LEMMA BlankFields ==
  ASSUME NEW pc \in {"new", "ok", "error", "idle", "prepared"}
  PROVE  /\ Blank(pc) \in ProcType
         /\ Blank(pc).pc = pc /\ Blank(pc).mode = "none" /\ Blank(pc).why = "none"
         /\ Blank(pc).out = [s \in Shards |-> Waiting] /\ Blank(pc).ans = Waiting
         /\ Blank(pc).sum = 0
<1>1. pc \in {"new", "ok", "error", "idle"} \cup Active
  BY DEF Active
<1>2. [s \in Shards |-> Waiting] \in [Shards -> Answers]
  BY WaitingType
<1> QED
  BY <1>1, <1>2, WaitingType DEF Blank, ProcType

(* A process that fails keeps nothing.                                      *)
LEMMA FailedFields ==
  ASSUME NEW w, NEW why \in {"none", "mismatch", "missing", "conflict", "lag", "gap"}
  PROVE  /\ Failed(w, why) \in ProcType
         /\ Failed(w, why).pc \in {"idle", "error"}
         /\ Failed(w, why).mode = "none" /\ Failed(w, why).why = why
<1> DEFINE pc == IF w.mode = "recover" THEN "idle" ELSE "error"
<1>1. pc \in {"idle", "error"}
  OBVIOUS
<1> HIDE DEF pc
<1>2. Blank(pc) \in ProcType /\ Blank(pc).pc = pc /\ Blank(pc).mode = "none"
  BY <1>1, BlankFields
<1>3. Failed(w, why) = [Blank(pc) EXCEPT !.why = why]
  BY DEF Failed, pc
<1> HIDE DEF Failed
<1> QED
  BY <1>1, <1>2, <1>3 DEF ProcType

(* A call that answered keeps only its count.                               *)
LEMMA RepliedFields ==
  ASSUME NEW n \in Nat
  PROVE  /\ Replied(n) \in ProcType
         /\ Replied(n).pc = "ok" /\ Replied(n).mode = "none" /\ Replied(n).why = "none"
         /\ Replied(n).count = n
<1>1. /\ Blank("ok") \in ProcType /\ Blank("ok").pc = "ok"
      /\ Blank("ok").mode = "none" /\ Blank("ok").why = "none"
  BY BlankFields
<1>2. Replied(n) = [Blank("ok") EXCEPT !.count = n]
  BY DEF Replied
<1> HIDE DEF Replied
<1> QED
  BY <1>1, <1>2 DEF ProcType

About(pc, m) == [Blank(pc) EXCEPT !.m = m]

(* A prepared call waits for every shard's answer.                          *)
LEMMA PreparedFields ==
  ASSUME NEW m \in Mutations, NEW pc \in {"prepared", "idle"}, NEW v, v = About(pc, m)
  PROVE  /\ v \in ProcType
         /\ v.pc = pc /\ v.mode = "none" /\ v.why = "none"
         /\ v.m = m /\ v.out = [s \in Shards |-> Waiting] /\ v.sum = 0
<1>1. /\ Blank(pc) \in ProcType /\ Blank(pc).pc = pc
      /\ Blank(pc).mode = "none" /\ Blank(pc).why = "none"
      /\ Blank(pc).out = [s \in Shards |-> Waiting] /\ Blank(pc).sum = 0
  BY BlankFields
<1> QED
  BY <1>1 DEF About, ProcType

(* A capture begins by reading the entry of its first shard.                *)
LEMMA FetchingFields ==
  ASSUME NEW w \in ProcType, NEW mode \in {"capture", "reconcile", "recover"},
         NEW todo \in SUBSET Shards, NEW v, v = Fetching(w, mode, todo)
  PROVE  /\ v \in ProcType
         /\ v.pc = "fetch" /\ v.mode = mode /\ v.todo = todo /\ v.ans = Waiting
         /\ v.from = 0 /\ v.m = w.m /\ v.out = w.out /\ v.sum = w.sum /\ v.why = w.why
BY WaitingType DEF Fetching, ProcType, Active, Working, Reads

(* A process at work: at a shard of its mutation.                           *)
AtWork(w) == w.m \in Mutations /\ w.todo # {} /\ w.todo \subseteq ShardsOf(w.m)

(* A process goes on with the remaining shards, or ends after the last one. *)
LEMMA NextShardFields ==
  ASSUME NEW w \in ProcType, AtWork(w), w.mode \in {"capture", "reconcile", "recover"},
         NEW r \in RecType, NEW v, v = NextShard(w, r)
  PROVE  /\ v \in ProcType
         /\ \/ /\ w.todo # {At(w)}
               /\ v.pc = "fetch" /\ v.mode = w.mode /\ v.todo = w.todo \ {At(w)}
               /\ v.m = w.m /\ v.ans = Waiting /\ v.from = 0 /\ v.out = w.out
               /\ v.sum = Merged(w) /\ v.why = w.why
            \/ /\ w.todo = {At(w)} /\ v.mode = "none" /\ v.why = "none"
               /\ \/ w.mode = "recover" /\ v.pc = "idle"
                  \/ w.mode = "capture" /\ r.state # "done" /\ v.pc = "ok" /\ v.count = Merged(w)
                  \/ w.mode # "recover" /\ r.state = "done" /\ v.pc = "ok" /\ v.count = r.total
                  \/ /\ w.mode = "reconcile" /\ v.pc = "prepared" /\ v.m = w.m
                     /\ v.out = [s \in Shards |-> Waiting] /\ v.sum = 0
<1>1. Merged(w) \in Nat
  BY DEF Merged, ProcType
<1>2. CASE w.todo # {At(w)}
  <2> DEFINE u == Fetching(w, w.mode, w.todo \ {At(w)})
  <2>1. /\ u \in ProcType
        /\ u.pc = "fetch" /\ u.mode = w.mode /\ u.todo = w.todo \ {At(w)} /\ u.ans = Waiting
        /\ u.from = 0 /\ u.m = w.m /\ u.out = w.out /\ u.sum = w.sum /\ u.why = w.why
    <3>1. w.todo \ {At(w)} \in SUBSET Shards
      BY DEF ProcType
    <3> QED
      BY <3>1, FetchingFields
  <2>2. v = [u EXCEPT !.sum = Merged(w)]
    BY <1>2 DEF NextShard
  <2> HIDE DEF u
  <2>3. /\ v \in ProcType /\ v.pc = u.pc /\ v.mode = u.mode /\ v.todo = u.todo
        /\ v.m = u.m /\ v.ans = u.ans /\ v.from = u.from /\ v.out = u.out
        /\ v.sum = Merged(w) /\ v.why = u.why
    BY <1>1, <2>1, <2>2 DEF ProcType
  <2> QED
    BY <1>2, <2>1, <2>3
<1>3. CASE w.todo = {At(w)}
  <2>1. v = Ended(w, r)
    BY <1>3 DEF NextShard
  <2>2. CASE w.mode = "recover"
    <3>1. v = Blank("idle")
      BY <2>1, <2>2 DEF Ended
    <3> QED
      BY <1>3, <2>2, <3>1, BlankFields
  <2>3. CASE w.mode = "capture" /\ r.state # "done"
    <3>1. v = Replied(Merged(w))
      BY <2>1, <2>3 DEF Ended
    <3> QED
      BY <1>1, <1>3, <2>3, <3>1, RepliedFields
  <2>4. CASE w.mode # "recover" /\ r.state = "done"
    <3>1. v = Replied(r.total) /\ r.total \in Nat
      BY <2>1, <2>4 DEF Ended, RecType
    <3> QED
      BY <1>3, <2>4, <3>1, RepliedFields
  <2>5. CASE w.mode = "reconcile" /\ r.state # "done"
    <3>1. v = About("prepared", w.m)
      BY <2>1, <2>5 DEF Ended, About
    <3>2. /\ v \in ProcType /\ v.pc = "prepared" /\ v.mode = "none" /\ v.why = "none"
          /\ v.m = w.m /\ v.out = [s \in Shards |-> Waiting] /\ v.sum = 0
      BY <3>1, PreparedFields DEF AtWork
    <3> QED
      BY <1>3, <2>5, <3>2
  <2> QED
    BY <2>2, <2>3, <2>4, <2>5
<1> QED
  BY <1>2, <1>3
------------------------------------------------------------------------------
(* What the steps of a process make of its record.                          *)

(* The sum of the counts of a record, and that of the journal's rows.       *)
LEMMA CountsTotal ==
  ASSUME NEW r, NEW S
  PROVE  MapThenSumSet(LAMBDA t : r.shards[t].count, S) = Total([t \in S |-> r.shards[t].count], S)
<1> DEFINE g == [t \in S |-> r.shards[t].count]
           P(F) == F = [s \in SUBSET S |-> IF s = {} THEN 0
                        ELSE r.shards[CHOOSE x \in s : TRUE].count + F[s \ {CHOOSE x \in s : TRUE}]]
<1>1. \A s \in SUBSET S : s # {} => g[CHOOSE x \in s : TRUE] = r.shards[CHOOSE x \in s : TRUE].count
  OBVIOUS
<1> HIDE DEF g
<1>2. \A F : P(F) <=> IsTotal(F, g, S)
  BY <1>1 DEF IsTotal
<1>3. (CHOOSE F : P(F)) = (CHOOSE F : IsTotal(F, g, S))
  BY <1>2
<1>4. MapThenSumSet(LAMBDA t : r.shards[t].count, S) = (CHOOSE F : P(F))[S]
  BY DEF MapThenSumSet, MapThenFoldSet
<1> QED
  BY <1>3, <1>4, TotalDef DEF g

(* RowsOf is the sum the capture adds up shard by shard.                    *)
LEMMA RowsTotal ==
  ASSUME NEW m \in Mutations
  PROVE  RowsOf(m) = Total(RowsAt(m), ShardsOf(m))
<1> DEFINE S == ShardsOf(m)
           g == RowsAt(m)
           P(F) == F = [s \in SUBSET S |-> IF s = {} THEN 0
                        ELSE journal[CHOOSE x \in s : TRUE][m].first + F[s \ {CHOOSE x \in s : TRUE}]]
<1>1. \A s \in SUBSET S : s # {} => g[CHOOSE x \in s : TRUE] = journal[CHOOSE x \in s : TRUE][m].first
  BY DEF RowsAt
<1>4. RowsOf(m) = (CHOOSE F : P(F))[S]
  BY DEF RowsOf, MapThenSumSet, MapThenFoldSet
<1> HIDE DEF g, S
<1>2. \A F : P(F) <=> IsTotal(F, g, S)
  BY <1>1 DEF IsTotal
<1>3. (CHOOSE F : P(F)) = (CHOOSE F : IsTotal(F, g, S))
  BY <1>2
<1> QED
  BY <1>3, <1>4, TotalDef DEF g, S

(* Records only go forward: a mark that was set stays set until the record  *)
(* is complete.                                                             *)
Forth(r, r2) ==
  r.state # "none" =>
    /\ r2.state # "none"
    /\ r2.state = "open" =>
         r.state = "open" /\ \A s \in Shards : r.shards[s].done => r2.shards[s].done

(* Capturing a shard marks it alone, and never takes a mark back.           *)
LEMMA CapturedRecord ==
  ASSUME NEW m \in Mutations, NEW r \in RecType, Shaped(r, m), r.state # "none",
         NEW s \in Shards, NEW n \in Nat, NEW r2, r2 = Captured(r, s, n)
  PROVE  /\ r2 \in RecType /\ Shaped(r2, m) /\ Forth(r, r2) /\ r2.state = r.state
         /\ r2.state = "open" =>
              /\ r2.shards[s].done /\ r2.shards[s].count = n
              /\ r2.shards[s].projected = r.shards[s].projected
         /\ \A t \in Shards \ {s} : r2.shards[t] = r.shards[t]
         /\ r.state # "open" => r2 = r
<1>1. CASE r.state # "open"
  BY <1>1 DEF Captured, Forth
<1>2. CASE r.state = "open"
  <2>1. r2 = [r EXCEPT !.shards[s].done = TRUE, !.shards[s].count = n]
    BY <1>2 DEF Captured
  <2>2. /\ r.shards \in [Shards -> MarkType]
        /\ r2 = [r EXCEPT !.shards = [r.shards EXCEPT ![s] =
                   [r.shards[s] EXCEPT !.done = TRUE, !.count = n]]]
    BY <2>1 DEF RecType, MarkType
  <2>3. [r.shards[s] EXCEPT !.done = TRUE, !.count = n] \in MarkType
    BY <2>2 DEF MarkType
  <2>4. /\ r2.state = "open"
        /\ r2.shards = [r.shards EXCEPT ![s] = [r.shards[s] EXCEPT !.done = TRUE, !.count = n]]
        /\ r2 \in RecType
    BY <1>2, <2>2, <2>3 DEF RecType
  <2>5. /\ r2.shards[s].done /\ r2.shards[s].count = n
        /\ r2.shards[s].projected = r.shards[s].projected
        /\ \A t \in Shards \ {s} : r2.shards[t] = r.shards[t]
    BY <2>2, <2>4 DEF MarkType
  <2>6. \A t \in Shards : r2.shards[t].projected = r.shards[t].projected
    BY <2>5
  <2>7. Shaped(r2, m)
    BY <1>2, <2>4, <2>5, <2>6, ShardsOfEnvelope DEF Shaped
  <2> QED
    BY <1>2, <2>4, <2>5, <2>7 DEF Forth
<1> QED
  BY <1>1, <1>2

(* Advancing a captured shard marks its projection, and completes the       *)
(* record only with its last shard.                                         *)
LEMMA AdvancedRecord ==
  ASSUME NEW m \in Mutations, NEW r \in RecType, Shaped(r, m), r.state # "none",
         NEW s \in ShardsOf(m), r.state = "open" => r.shards[s].done,
         NEW r2, r2 = Advanced(r, m, s)
  PROVE  /\ r2 \in RecType /\ Shaped(r2, m) /\ Forth(r, r2)
         /\ \/ r.state = "done" /\ r2 = r
            \/ /\ r.state = "open" /\ r2.state = "open"
               /\ \A t \in Shards :
                    /\ r2.shards[t].done = r.shards[t].done
                    /\ r2.shards[t].count = r.shards[t].count
                    /\ r2.shards[t].projected => t = s \/ r.shards[t].projected
            \/ /\ r.state = "open" /\ r2.state = "done"
               /\ \A t \in ShardsOf(m) : r.shards[t].done /\ (t = s \/ r.shards[t].projected)
               /\ r2.total = Total([t \in ShardsOf(m) |-> r.shards[t].count], ShardsOf(m))
<1>1. CASE r.state # "open"
  <2>1. r2 = r /\ r.state = "done"
    BY <1>1 DEF Advanced, RecType
  <2> QED
    BY <2>1 DEF Forth
<1>2. CASE r.state = "open"
  <2> DEFINE next == [r EXCEPT !.shards[s].projected = TRUE]
  <2>0. s \in Shards /\ ShardsOf(m) \subseteq Shards
    BY ShardsOfEnvelope
  <2>1. /\ r.shards \in [Shards -> MarkType]
        /\ next = [r EXCEPT !.shards = [r.shards EXCEPT ![s] = [r.shards[s] EXCEPT !.projected = TRUE]]]
    BY DEF RecType
  <2>2. [r.shards[s] EXCEPT !.projected = TRUE] \in MarkType
    BY <2>0, <2>1 DEF MarkType
  <2>3. /\ next.state = "open" /\ next \in RecType
        /\ next.shards = [r.shards EXCEPT ![s] = [r.shards[s] EXCEPT !.projected = TRUE]]
    BY <1>2, <2>0, <2>1, <2>2 DEF RecType
  <2>4. r2 = IF Finishes(next, m)
             THEN [NoRecord EXCEPT !.state = "done",
                     !.total = MapThenSumSet(LAMBDA t : next.shards[t].count, ShardsOf(m))]
             ELSE next
    BY <1>2 DEF Advanced
  <2> HIDE DEF next
  <2>5. /\ next.shards[s].projected
        /\ \A t \in Shards :
             /\ next.shards[t].done = r.shards[t].done
             /\ next.shards[t].count = r.shards[t].count
             /\ next.shards[t].projected => t = s \/ r.shards[t].projected
    BY <2>0, <2>1, <2>3 DEF MarkType
  <2>6. CASE ~Finishes(next, m)
    <3>1. r2 = next
      BY <2>4, <2>6
    <3>2. \E t \in ShardsOf(m) : ~next.shards[t].projected
      <4>1. PICK t \in ShardsOf(m) : ~(next.shards[t].done /\ next.shards[t].projected)
        BY <2>6 DEF Finishes
      <4> QED
        BY <1>2, <2>0, <2>5, <4>1 DEF Shaped
    <3>3. \A t \in Shards : next.shards[t].projected => next.shards[t].done
      BY <1>2, <2>5 DEF Shaped
    <3>4. Shaped(next, m)
      BY <2>3, <3>2, <3>3 DEF Shaped
    <3> QED
      BY <1>2, <2>3, <2>5, <3>1, <3>4 DEF Forth
  <2>7. CASE Finishes(next, m)
    <3> DEFINE n == MapThenSumSet(LAMBDA t : next.shards[t].count, ShardsOf(m))
               g == [t \in ShardsOf(m) |-> next.shards[t].count]
    <3>1. n = Total(g, ShardsOf(m))
      BY CountsTotal
    <3>2. r2 = [NoRecord EXCEPT !.state = "done", !.total = n]
      BY <2>4, <2>7
    <3>3. g = [t \in ShardsOf(m) |-> r.shards[t].count]
      BY <2>0, <2>5
    <3>4. \A t \in ShardsOf(m) : g[t] \in Nat
      BY <2>0, <2>3 DEF RecType, MarkType
    <3> HIDE DEF n, g
    <3>5. n \in Nat
      BY <3>1, <3>4, TotalBase, ShardsOfEnvelope
    <3>6. NoRecord \in RecType
      BY DEF NoRecord, Pristine, RecType, MarkType
    <3>7. r2 \in RecType /\ r2.state = "done" /\ r2.total = n
      BY <3>2, <3>5, <3>6 DEF RecType
    <3>8. \A t \in ShardsOf(m) : r.shards[t].done /\ (t = s \/ r.shards[t].projected)
      BY <2>0, <2>5, <2>7 DEF Finishes
    <3> QED
      BY <1>2, <3>1, <3>3, <3>7, <3>8 DEF Shaped, Forth
  <2> QED
    BY <2>6, <2>7
<1> QED
  BY <1>1, <1>2

(* A durable envelope has no shard marked.                                  *)
LEMMA EnvelopeRecord ==
  ASSUME NEW m \in Mutations
  PROVE  /\ Envelope \in RecType /\ Envelope.state = "open" /\ Shaped(Envelope, m)
         /\ \A s \in Shards : ~Envelope.shards[s].done /\ ~Envelope.shards[s].projected
<1>1. NoRecord \in RecType /\ NoRecord.shards = [s \in Shards |-> Pristine]
  BY DEF NoRecord, Pristine, RecType, MarkType
<1>2. /\ Envelope \in RecType /\ Envelope.state = "open"
      /\ Envelope.shards = [s \in Shards |-> Pristine]
  BY <1>1 DEF Envelope, RecType
<1>3. \A s \in Shards : ~Envelope.shards[s].done /\ ~Envelope.shards[s].projected
  BY <1>2 DEF Pristine
<1> QED
  BY <1>2, <1>3, ShardsOfEnvelope DEF Shaped
------------------------------------------------------------------------------
(* What every step leaves of PullInv.                                       *)

(* The cursors and the logs only grow, and records only go forward.         *)
Grows ==
  /\ \A m \in Mutations : Forth(rec[m], rec'[m])
  /\ \A s \in Shards : cursor[s] <= cursor'[s] /\ Len(log[s]) <= Len(log'[s])
  /\ cursor' \in [Shards -> Nat] /\ log' \in [Shards -> Seq(Mutations)]

(* A process in the middle of a shard has that shard in hand.               *)
LEMMA WorkingIsAtWork ==
  ASSUME NEW w, Pulls(w), w.pc \in Working
  PROVE  /\ AtWork(w) /\ At(w) \in w.todo /\ At(w) \in ShardsOf(w.m) /\ At(w) \in Shards
         /\ rec[w.m].state # "none" /\ w.mode \in {"capture", "reconcile", "recover"}
<1>1. /\ AtWork(w) /\ rec[w.m].state # "none"
      /\ w.mode \in {"capture", "reconcile", "recover"}
  BY DEF AtWork, Pulls, Active
<1> QED
  BY <1>1, AtInTodo DEF AtWork

(* What a process knows about a log stays true while logs grow and records  *)
(* move forth.                                                              *)
LEMMA PullsKept ==
  ASSUME NEW w \in ProcType, Pulls(w), RouterType, ShardType, Grows
  PROVE  Pulls(w)'
<1>1. w.pc \in Working => /\ At(w) \in Shards /\ w.m \in Mutations
                          /\ cursor[At(w)] <= cursor'[At(w)]
                          /\ Len(log[At(w)]) <= Len(log'[At(w)])
                          /\ Forth(rec[w.m], rec'[w.m])
  BY WorkingIsAtWork DEF Grows, AtWork
<1>2. w.pc \in Active => w.m \in Mutations /\ rec'[w.m].state # "none"
  BY DEF Pulls, Grows, Forth
<1>3. w.pc \in Working => Len(log[At(w)]) \in Nat /\ Len(log'[At(w)]) \in Nat
                          /\ cursor[At(w)] \in Nat /\ cursor'[At(w)] \in Nat
  BY <1>1 DEF RouterType, ShardType, Grows
<1>4. w.target \in Nat /\ w.from \in Nat /\ w.ans.first \in Nat /\ w.ans.last \in Nat
  BY DEF ProcType, Answers
<1>5. w.pc \in Pulling =>
       /\ w.target <= Len(log'[At(w)])
       /\ rec'[w.m].state = "open" => rec'[w.m].shards[At(w)].done
  <2> SUFFICES ASSUME w.pc \in Pulling
               PROVE  /\ w.target <= Len(log'[At(w)])
                      /\ rec'[w.m].state = "open" => rec'[w.m].shards[At(w)].done
    OBVIOUS
  <2>1. w.pc \in Working /\ w.pc \in Active
    BY DEF Pulling, Working, Reads, Active
  <2>2. /\ rec[w.m].state # "none" /\ w.target <= Len(log[At(w)])
        /\ rec[w.m].state = "open" => rec[w.m].shards[At(w)].done
    BY <2>1 DEF Pulls
  <2> QED
    BY <1>1, <1>3, <1>4, <2>1, <2>2 DEF Forth
<1>6. (w.pc = "fetch" /\ w.ans.kind = "entry") => w.ans.last <= Len(log'[At(w)])
  BY <1>1, <1>3, <1>4 DEF Pulls, Working, Reads
<1>7. w.pc = "list" =>
       /\ 1 <= w.from /\ w.from <= cursor'[At(w)] + 1 /\ w.from <= Len(log'[At(w)])
       /\ w.ans.kind = "page" =>
            w.ans.first = w.from /\ w.from <= w.ans.last /\ w.ans.last <= Len(log'[At(w)])
  BY <1>1, <1>3, <1>4 DEF Pulls, Working, Reads
<1> QED
  BY <1>2, <1>5, <1>6, <1>7 DEF Pulls

(* Instances of the invariants' parts in the next state.                    *)
LEMMA PullsThen ==
  ASSUME NEW p \in Procs, NEW v, proc'[p] = v, Pulls(v)'
  PROVE  Pulls(proc[p])'
BY DEF Pulls, At

(* ReadsOrdered of a new queue, by the value of the queue.                  *)
LEMMA ReadsThen ==
  ASSUME NEW s \in Shards, NEW n, net'[s] = n, ReadsOrdered(s, n)'
  PROVE  ReadsOrdered(s, net[s])'
BY DEF ReadsOrdered

(* One process changes and the others do not.                               *)
LEMMA AllPull ==
  ASSUME PullInv, Grows, NEW p \in Procs, NEW v, proc' = [proc EXCEPT ![p] = v], Pulls(v)'
  PROVE  \A q \in Procs : Pulls(proc[q])'
<1> TAKE q \in Procs
<1>0. RouterType /\ ShardType /\ proc \in [Procs -> ProcType]
  BY DEF PullInv, RouterType
<1>1. CASE q = p
  <2>1. proc'[q] = v
    BY <1>0, <1>1
  <2> QED
    BY <2>1, PullsThen
<1>2. CASE q # p
  <2>1. PICK w : w = proc[q]
    OBVIOUS
  <2>2. proc'[q] = w /\ w \in ProcType
    BY <1>0, <1>2, <2>1
  <2>3. Pulls(w)
    BY <2>1 DEF PullInv
  <2>4. Pulls(w)'
    BY <1>0, <2>2, <2>3, PullsKept
  <2> QED
    BY <2>2, <2>4, PullsThen
<1> QED
  BY <1>1, <1>2

(* A queue that does not change stays ordered while the cursor advances and *)
(* reads stay awaited.                                                      *)
LEMMA ReadsKept ==
  ASSUME NEW s \in Shards, NEW n \in Seq(ReqType), ReadsOrdered(s, n),
         cursor \in [Shards -> Nat], cursor' \in [Shards -> Nat], cursor[s] <= cursor'[s],
         \A i \in 1..Len(n) : n[i].op = "list" => pruned'[s] < n[i].arg,
         \A i \in 1..Len(n) : IsRead(n[i]) => Awaits(proc'[n[i].p], s, n[i])
  PROVE  ReadsOrdered(s, n)'
<1> SUFFICES ASSUME NEW i \in 1..Len(n)
             PROVE /\ IsRead(n[i]) => Awaits(proc'[n[i].p], s, n[i])
                   /\ n[i].op = "ack" => n[i].arg <= cursor'[s]
                   /\ n[i].op = "list" =>
                        /\ n[i].live /\ pruned'[s] < n[i].arg
                        /\ \A j \in 1..(i - 1) : n[j].op = "ack" => n[j].arg < n[i].arg
                   /\ \A j \in 1..(i - 1) : IsRead(n[i]) /\ IsRead(n[j]) => n[i].p # n[j].p
  BY DEF ReadsOrdered, Awaits, At, IsRead
<1>0. n[i] \in ReqType
  OBVIOUS
<1>1. n[i].arg \in Nat /\ cursor[s] \in Nat /\ cursor'[s] \in Nat
  BY <1>0 DEF ReqType
<1>2. n[i].op = "ack" => n[i].arg <= cursor'[s]
  BY <1>1 DEF ReadsOrdered
<1> QED
  BY <1>2 DEF ReadsOrdered
------------------------------------------------------------------------------
(* Steps of the Router.                                                     *)

(* A process that does not await a read: none of its reads is live.         *)
Free(p) == proc[p].pc \notin Reads \/ proc[p].ans # Waiting

(* A process that awaits no read has none in a queue.                       *)
LEMMA FreeHasNoRead ==
  ASSUME NEW p \in Procs, Free(p), NEW s \in Shards, NEW n, ReadsOrdered(s, n),
         NEW i \in 1..Len(n), IsRead(n[i])
  PROVE  n[i].p # p
BY DEF Free, ReadsOrdered, IsRead, Awaits

(* What a process is when a step of the Router leaves it: it pulls, and     *)
(* asks for what follows the cursor or acknowledges what is below it.       *)
Sensible(v) ==
  /\ v.pc \in Reads => v.ans = Waiting
  /\ v.pc = "list" => v.from = cursor[At(v)] + 1
  /\ v.pc = "ack" => v.from <= cursor[At(v)]

(* A process that goes on adds at most one read, behind its                 *)
(* acknowledgements.                                                        *)
LEMMA ContinueReads ==
  ASSUME PullInv, Grows, NEW p \in Procs, Free(p), NEW v \in ProcType, Continue(p, v),
         Pulls(v)', Sensible(v)', UNCHANGED pruned
  PROVE  /\ net' \in [Shards -> Seq(ReqType)]
         /\ \A s \in Shards : ReadsOrdered(s, net[s])'
<1>0. /\ proc \in [Procs -> ProcType] /\ net \in [Shards -> Seq(ReqType)]
      /\ cursor \in [Shards -> Nat] /\ pruned \in [Shards -> Nat]
      /\ cursor' \in [Shards -> Nat] /\ proc' = [proc EXCEPT ![p] = v]
  BY DEF PullInv, RouterType, ShardType, Grows, Continue
<1>1. \A s \in Shards : ReadsOrdered(s, net[s]) /\ cursor[s] <= cursor'[s] /\ pruned[s] <= cursor[s]
  BY DEF PullInv, Grows, CursorsInLog
<1>2. ASSUME NEW s \in Shards
      PROVE  ReadsOrdered(s, net[s]) /\ \A i \in 1..Len(net[s]) :
               /\ net[s][i].op = "list" => pruned'[s] < net[s][i].arg
               /\ IsRead(net[s][i]) => net[s][i].p # p /\ Awaits(proc'[net[s][i].p], s, net[s][i])
  <2>1. PICK n : n = net[s]
    OBVIOUS
  <2>2. n \in Seq(ReqType) /\ ReadsOrdered(s, n)
    BY <1>0, <1>1, <2>1
  <2>3. ASSUME NEW i \in 1..Len(n), IsRead(n[i])
        PROVE  n[i].p # p /\ Awaits(proc'[n[i].p], s, n[i])
    <3>1. n[i].p # p
      BY <2>2, <2>3, FreeHasNoRead
    <3>2. n[i] \in ReqType
      BY <2>2
    <3>3. n[i].p \in Procs
      BY <3>2 DEF ReqType
    <3>4. proc'[n[i].p] = proc[n[i].p]
      BY <1>0, <3>1, <3>3
    <3> QED
      BY <2>2, <2>3, <3>1, <3>4 DEF ReadsOrdered
  <2>4. ASSUME NEW i \in 1..Len(n), n[i].op = "list" PROVE pruned'[s] < n[i].arg
    BY <2>2, <2>4 DEF ReadsOrdered
  <2> QED
    BY <2>1, <2>2, <2>3, <2>4
<1>3. ASSUME NEW s \in Shards, net'[s] = net[s]
      PROVE  ReadsOrdered(s, net[s])'
  <2>1. PICK n : n = net[s]
    OBVIOUS
  <2>2. n \in Seq(ReqType) /\ net'[s] = n
    BY <1>0, <1>3, <2>1
  <2>3. ReadsOrdered(s, n)'
    BY <1>0, <1>1, <1>2, <2>1, <2>2, ReadsKept
  <2> QED
    BY <2>2, <2>3, ReadsThen
<1>4. CASE ~Sends(v)
  <2>1. net' = net
    BY <1>4 DEF Continue
  <2> QED
    BY <1>0, <1>3, <2>1
<1>5. CASE Sends(v)
  <2> DEFINE q == Request(p, v.pc, v.m, v.from)
             a == At(v)
             n == net[a]
             n2 == Append(n, q)
  <2>1. v.pc \in Reads /\ v.pc \in Working /\ v.pc \in Active
    BY <1>5 DEF Sends, Reads, Working, Active
  <2>2. v.m \in Mutations /\ v.todo # {} /\ v.todo \subseteq ShardsOf(v.m)
    BY <2>1 DEF Pulls
  <2>3. a \in Shards
    BY <2>2, AtInTodo
  <2>4. /\ q \in ReqType /\ q.p = p /\ q.op = v.pc /\ q.m = v.m /\ q.arg = v.from /\ q.live
        /\ v.from \in Nat
    BY <2>1, <2>2 DEF Request, ReqType, ProcType
  <2>5. net' = [net EXCEPT ![a] = n2]
    BY <1>5 DEF Continue
  <2> HIDE DEF q, a
  <2>6. n \in Seq(ReqType) /\ n2 \in Seq(ReqType) /\ Len(n2) = Len(n) + 1
        /\ n2[Len(n) + 1] = q /\ \A i \in 1..Len(n) : n2[i] = n[i]
    BY <1>0, <2>3, <2>4
  <2>7. net' \in [Shards -> Seq(ReqType)] /\ net'[a] = n2
        /\ \A s \in Shards \ {a} : net'[s] = net[s]
    BY <1>0, <2>3, <2>5, <2>6
  <2>8. ReadsOrdered(a, net[a])'
    <3>1. PICK k : k = n
      OBVIOUS
    <3>2. PICK k2 : k2 = n2
      OBVIOUS
    <3> HIDE DEF n, n2
    <3>3. /\ k \in Seq(ReqType) /\ k2 \in Seq(ReqType) /\ Len(k2) = Len(k) + 1
          /\ k2[Len(k) + 1] = q /\ \A i \in 1..Len(k) : k2[i] = k[i]
          /\ Len(k) \in Nat
      BY <2>6, <3>1, <3>2
    <3>4. ReadsOrdered(a, k)'
      BY <1>0, <1>1, <1>2, <2>3, <3>1, <3>3, ReadsKept DEF n
    <3>5. \A i \in 1..Len(k) : IsRead(k[i]) => k[i].p # p
      BY <1>2, <2>3, <3>1 DEF n
    <3>6. \A i \in 1..Len(k) : k[i].op = "ack" => k[i].arg <= cursor[a] /\ k[i].arg \in Nat
      <4> TAKE i \in 1..Len(k)
      <4>1. k[i] \in ReqType
        BY <3>3
      <4>2. k[i].arg \in Nat
        BY <4>1 DEF ReqType
      <4> QED
        BY <1>2, <2>3, <3>1, <4>2 DEF n, ReadsOrdered
    <3>7. Awaits(proc'[q.p], a, q)
      <4>1. proc'[q.p] = v
        BY <1>0, <2>4
      <4>2. v.ans = Waiting
        BY <2>1 DEF Sensible
      <4> QED
        BY <2>4, <4>1, <4>2 DEF Awaits, a
    <3>8. q.op = "ack" => q.arg <= cursor'[a]
      BY <2>4 DEF Sensible, a
    <3>9. q.op = "list" =>
            /\ q.live /\ pruned'[a] < q.arg
            /\ \A j \in 1..Len(k) : k[j].op = "ack" => k[j].arg < q.arg
      <4> SUFFICES ASSUME q.op = "list"
                   PROVE  /\ q.live /\ pruned'[a] < q.arg
                          /\ \A j \in 1..Len(k) : k[j].op = "ack" => k[j].arg < q.arg
        OBVIOUS
      <4>1. q.arg = cursor'[a] + 1
        BY <2>4 DEF Sensible, a
      <4>2. /\ cursor[a] \in Nat /\ cursor'[a] \in Nat /\ pruned[a] \in Nat /\ pruned' = pruned
            /\ cursor[a] <= cursor'[a] /\ pruned[a] <= cursor[a]
        BY <1>0, <1>1, <2>3
      <4> QED
        BY <2>4, <3>6, <4>1, <4>2
    <3>10. ReadsOrdered(a, k2)'
      <4> SUFFICES ASSUME NEW i \in 1..Len(k2)
                   PROVE
                     /\ IsRead(k2[i]) => Awaits(proc'[k2[i].p], a, k2[i])
                     /\ k2[i].op = "ack" => k2[i].arg <= cursor'[a]
                     /\ k2[i].op = "list" =>
                          /\ k2[i].live /\ pruned'[a] < k2[i].arg
                          /\ \A j \in 1..(i - 1) : k2[j].op = "ack" => k2[j].arg < k2[i].arg
                     /\ \A j \in 1..(i - 1) : IsRead(k2[i]) /\ IsRead(k2[j]) => k2[i].p # k2[j].p
        BY DEF ReadsOrdered, Awaits, At, IsRead
      <4>1. CASE i \in 1..Len(k)
        <5>1. /\ IsRead(k[i]) => Awaits(proc'[k[i].p], a, k[i])
              /\ k[i].op = "ack" => k[i].arg <= cursor'[a]
              /\ k[i].op = "list" =>
                   /\ k[i].live /\ pruned'[a] < k[i].arg
                   /\ \A j \in 1..(i - 1) : k[j].op = "ack" => k[j].arg < k[i].arg
              /\ \A j \in 1..(i - 1) : IsRead(k[i]) /\ IsRead(k[j]) => k[i].p # k[j].p
          BY <3>4, <4>1 DEF ReadsOrdered, Awaits, At, IsRead
        <5>2. k2[i] = k[i] /\ \A j \in 1..(i - 1) : k2[j] = k[j]
          BY <3>3, <4>1
        <5> QED
          BY <5>1, <5>2
      <4>2. CASE i = Len(k) + 1
        <5>1. k2[i] = q /\ \A j \in 1..(i - 1) : j \in 1..Len(k) /\ k2[j] = k[j]
          BY <3>3, <4>2
        <5> QED
          BY <2>4, <3>5, <3>7, <3>8, <3>9, <5>1
      <4> QED
        BY <3>3, <4>1, <4>2
    <3> QED
      BY <2>3, <2>7, <3>2, <3>10, ReadsThen
  <2> QED
    BY <1>3, <2>7, <2>8
<1> QED
  BY <1>4, <1>5
(* A step of the Router keeps PullInv if its records move forth and its     *)
(* process is sensible afterwards.                                          *)
LEMMA RouterKeeps ==
  ASSUME PullInv, NEW p \in Procs, Free(p), NEW v \in ProcType, Continue(p, v),
         Pulls(v)', Sensible(v)',
         rec' \in [Mutations -> RecType],
         \A m \in Mutations : Forth(rec[m], rec'[m]) /\ Shaped(rec'[m], m),
         cursor' \in [Shards -> Nat],
         \A s \in Shards : cursor[s] <= cursor'[s] /\ cursor'[s] <= Len(log[s]),
         stats' \in [Shards -> [Mutations -> Nat]], StatsExact',
         UNCHANGED shardVars, faults' \in 0..MaxFaults
  PROVE  PullInv'
<1>0. /\ journal' = journal /\ log' = log /\ pruned' = pruned
      /\ runs' = runs /\ applied' = applied
      /\ log \in [Shards -> Seq(Mutations)]
  BY DEF shardVars, PullInv, ShardType
<1>1. Grows
  <2>1. \A s \in Shards : Len(log[s]) \in Nat
    BY <1>0
  <2> QED
    BY <1>0, <2>1 DEF Grows
<1>2. /\ net' \in [Shards -> Seq(ReqType)]
      /\ \A s \in Shards : ReadsOrdered(s, net[s])'
  BY <1>0, <1>1, ContinueReads
<1>3. proc' = [proc EXCEPT ![p] = v]
  BY DEF Continue
<1>4. \A q \in Procs : Pulls(proc[q])'
  BY <1>1, <1>3, AllPull
<1>5. proc' \in [Procs -> ProcType]
  BY <1>3 DEF PullInv, RouterType
<1>6. RouterType'
  BY <1>2, <1>5 DEF RouterType
<1>7. ShardType'
  BY <1>0 DEF PullInv, ShardType
<1>8. CursorsInLog'
  <2>1. \A s \in Shards : /\ pruned[s] \in Nat /\ cursor[s] \in Nat /\ Len(log[s]) \in Nat
                          /\ cursor'[s] \in Nat
    <3>1. pruned \in [Shards -> Nat] /\ cursor \in [Shards -> Nat]
      BY DEF PullInv, RouterType, ShardType
    <3> QED
      BY <1>0, <3>1
  <2>2. CursorsInLog
    BY DEF PullInv
  <2>3. ASSUME NEW s \in Shards
        PROVE  pruned'[s] <= cursor'[s] /\ cursor'[s] <= Len(log'[s])
    <3>1. pruned[s] <= cursor[s] /\ cursor[s] <= cursor'[s]
      BY <2>2 DEF CursorsInLog
    <3>2. pruned'[s] = pruned[s] /\ log'[s] = log[s]
      BY <1>0
    <3>3. pruned[s] <= cursor'[s]
      BY <2>1, <3>1
    <3> QED
      BY <3>2, <3>3
  <2>4. \A s \in Shards : \A m \in Mutations : journal'[s][m].last <= Len(log'[s])
    BY <1>0, <2>2 DEF CursorsInLog
  <2> QED
    BY <2>3, <2>4 DEF CursorsInLog
<1>9. (\A m \in Mutations : Shaped(rec[m], m))'
  BY DEF Shaped
<1> QED
  BY <1>2, <1>4, <1>6, <1>7, <1>8, <1>9 DEF PullInv

(* The same for a step that leaves the statistics alone.                    *)
LEMMA RouterKeepsStats ==
  ASSUME PullInv, NEW p \in Procs, Free(p), NEW v \in ProcType, Continue(p, v),
         Pulls(v)', Sensible(v)',
         rec' \in [Mutations -> RecType],
         \A m \in Mutations : Forth(rec[m], rec'[m]) /\ Shaped(rec'[m], m),
         UNCHANGED <<cursor, stats, shardVars>>, faults' \in 0..MaxFaults
  PROVE  PullInv'
<1>1. cursor' = cursor /\ stats' = stats /\ log' = log
  BY DEF shardVars
<1>2. /\ cursor' \in [Shards -> Nat] /\ stats' \in [Shards -> [Mutations -> Nat]]
      /\ \A s \in Shards : cursor'[s] <= Len(log[s]) /\ cursor[s] \in Nat
  BY <1>1 DEF PullInv, RouterType, CursorsInLog
<1>3. \A s \in Shards : cursor[s] <= cursor'[s]
  BY <1>1, <1>2
<1>4. StatsExact'
  BY <1>1 DEF PullInv, StatsExact
<1> QED
  BY <1>1, <1>2, <1>3, <1>4, RouterKeeps

(* One record goes forward.                                                 *)
LEMMA OneRecord ==
  ASSUME PullInv, NEW m \in Mutations, NEW r \in RecType, Shaped(r, m), Forth(rec[m], r),
         rec' = [rec EXCEPT ![m] = r]
  PROVE  /\ rec' \in [Mutations -> RecType] /\ rec'[m] = r
         /\ \A k \in Mutations : Forth(rec[k], rec'[k]) /\ Shaped(rec'[k], k)
<1>1. rec \in [Mutations -> RecType] /\ \A k \in Mutations : Shaped(rec[k], k)
  BY DEF PullInv, RouterType
<1>2. \A k \in Mutations : Forth(rec[k], rec[k])
  BY <1>1 DEF Forth, RecType
<1>3. \A k \in Mutations : rec'[k] = IF k = m THEN r ELSE rec[k]
  BY <1>1
<1> QED
  BY <1>1, <1>2, <1>3

(* Unchanged records move forth trivially.                                  *)
LEMMA SameRecords ==
  ASSUME PullInv, UNCHANGED rec
  PROVE  /\ rec' \in [Mutations -> RecType]
         /\ \A k \in Mutations : Forth(rec[k], rec'[k]) /\ Shaped(rec'[k], k)
<1>1. rec \in [Mutations -> RecType] /\ \A k \in Mutations : Shaped(rec[k], k)
  BY DEF PullInv, RouterType
<1>2. \A k \in Mutations : Forth(rec[k], rec[k])
  BY <1>1 DEF Forth, RecType
<1> QED
  BY <1>1, <1>2

(* A process that is not at work has nothing to pull.                       *)
LEMMA QuietPulls ==
  ASSUME NEW v, v.pc \in {"new", "ok", "error", "idle"}
  PROVE  Pulls(v)' /\ Sensible(v)'
BY DEF Pulls, Sensible, Active, Working, Pulling, Reads

(* A process gives up, and nothing else changes.                            *)
LEMMA GivesUp ==
  ASSUME PullInv, NEW p \in Procs, Free(p), NEW w,
         NEW why \in {"none", "mismatch", "missing", "conflict", "lag", "gap"},
         Continue(p, Failed(w, why)), UNCHANGED <<routerVars, shardVars>>,
         faults' \in 0..MaxFaults
  PROVE  PullInv'
<1>1. PICK v : v = Failed(w, why)
  OBVIOUS
<1>2. v \in ProcType /\ v.pc \in {"new", "ok", "error", "idle"}
  BY <1>1, FailedFields
<1>3. Pulls(v)' /\ Sensible(v)'
  BY <1>2, QuietPulls
<1>4. UNCHANGED <<rec, cursor, stats>>
  BY DEF routerVars
<1>5. Continue(p, v)
  BY <1>1
<1> QED
  BY <1>2, <1>3, <1>4, <1>5, SameRecords, RouterKeepsStats

(* A process takes up the shards of todo.                                   *)
LEMMA FetchPulls ==
  ASSUME NEW v \in ProcType, v.pc = "fetch", v.ans = Waiting, AtWork(v),
         v.mode \in {"capture", "reconcile", "recover"}, rec'[v.m].state # "none"
  PROVE  Pulls(v)' /\ Sensible(v)'
BY DEF Pulls, Sensible, AtWork, Active, Working, Pulling, Reads, Waiting

(* Before its first capture a process knows nothing of a log.               *)
LEMMA PreparedPulls ==
  ASSUME NEW v \in ProcType, v.pc \in {"prepared", "exec"}, v.m \in Mutations,
         rec'[v.m].state # "none"
  PROVE  Pulls(v)' /\ Sensible(v)'
BY DEF Pulls, Sensible, Active, Working, Pulling, Reads

(* A process goes on to its next shard, or ends.                            *)
LEMMA NextShardPulls ==
  ASSUME NEW w \in ProcType, AtWork(w), w.mode \in {"capture", "reconcile", "recover"},
         NEW r \in RecType, NEW v, v = NextShard(w, r), rec'[w.m].state # "none"
  PROVE  v \in ProcType /\ Pulls(v)' /\ Sensible(v)'
<1>1. v \in ProcType
  BY NextShardFields
<1>2. \/ /\ v.pc = "fetch" /\ v.mode = w.mode /\ v.todo = w.todo \ {At(w)} /\ w.todo # {At(w)}
         /\ v.m = w.m /\ v.ans = Waiting
      \/ v.pc \in {"idle", "ok"}
      \/ v.pc = "prepared" /\ v.m = w.m
  BY NextShardFields
<1>3. At(w) \in w.todo
  BY AtInTodo DEF AtWork
<1>4. CASE v.pc = "fetch" /\ v.mode = w.mode /\ v.todo = w.todo \ {At(w)} /\ w.todo # {At(w)}
           /\ v.m = w.m /\ v.ans = Waiting
  <2>1. AtWork(v)
    BY <1>3, <1>4 DEF AtWork
  <2> QED
    BY <1>1, <1>4, <2>1, FetchPulls
<1>5. CASE v.pc \in {"idle", "ok"}
  BY <1>1, <1>5, QuietPulls
<1>6. CASE v.pc = "prepared" /\ v.m = w.m
  BY <1>1, <1>6, PreparedPulls DEF AtWork
<1> QED
  BY <1>2, <1>4, <1>5, <1>6
(* Settle and Project keep PullInv, from any process that is at a captured  *)
(* shard and wants what the shard's log holds.                              *)
AtCaptured(w, r) ==
  /\ AtWork(w) /\ w.mode \in {"capture", "reconcile", "recover"}
  /\ w.target <= Len(log[At(w)])
  /\ Shaped(r, w.m) /\ Forth(rec[w.m], r) /\ r.state # "none"
  /\ r.state = "open" => r.shards[At(w)].done

(* Moving forth is transitive.                                              *)
LEMMA ForthTrans ==
  ASSUME NEW r1, NEW r2, NEW r3, Forth(r1, r2), Forth(r2, r3)
  PROVE  Forth(r1, r3)
BY DEF Forth

(* PullInv through Settle.                                                  *)
LEMMA SettleKeeps ==
  ASSUME PullInv, NEW p \in Procs, Free(p), NEW w \in ProcType, NEW r \in RecType,
         AtCaptured(w, r), Settle(p, w, r), UNCHANGED <<cursor, stats, shardVars, faults>>
  PROVE  PullInv'
<1>0. /\ w.m \in Mutations /\ AtWork(w) /\ w.mode \in {"capture", "reconcile", "recover"}
      /\ Shaped(r, w.m) /\ Forth(rec[w.m], r) /\ r.state # "none"
      /\ faults' \in 0..MaxFaults /\ log' = log
  BY DEF AtCaptured, AtWork, PullInv, ShardType, shardVars
<1>1. ASSUME NEW v \in ProcType, Continue(p, v), rec' = [rec EXCEPT ![w.m] = r],
             rec'[w.m] = r => Pulls(v)' /\ Sensible(v)'
      PROVE  PullInv'
  BY <1>0, <1>1, OneRecord, RouterKeepsStats
<1>2. CASE Disagrees(w)
  <2>1. PICK v : v = Failed(w, "mismatch")
    OBVIOUS
  <2>2. Continue(p, v) /\ rec' = [rec EXCEPT ![w.m] = r]
    BY <1>2, <2>1 DEF Settle
  <2>3. v \in ProcType /\ v.pc \in {"new", "ok", "error", "idle"}
    BY <2>1, FailedFields
  <2> QED
    BY <1>1, <2>2, <2>3, QuietPulls
<1>3. CASE ~Disagrees(w) /\ Finalizes(w)
  <2>1. PICK v : v = [w EXCEPT !.pc = "finalize", !.ans = Waiting]
    OBVIOUS
  <2>2. Continue(p, v) /\ rec' = [rec EXCEPT ![w.m] = r]
    BY <1>3, <2>1 DEF Settle
  <2>3. /\ v \in ProcType /\ v.pc = "finalize" /\ v.m = w.m /\ v.todo = w.todo
        /\ v.target = w.target /\ v.mode = w.mode
    BY <2>1, WaitingType DEF ProcType, Active, Working
  <2>4. At(v) = At(w)
    BY <2>3 DEF At
  <2>5. ASSUME rec'[w.m] = r PROVE Pulls(v)' /\ Sensible(v)'
    BY <1>0, <2>3, <2>4, <2>5
       DEF AtCaptured, AtWork, Pulls, Sensible, Active, Working, Pulling, Reads
  <2> QED
    BY <1>1, <2>2, <2>3, <2>5
<1>4. CASE ~Disagrees(w) /\ ~Finalizes(w)
  <2>1. PICK r2 : r2 = Advanced(r, w.m, At(w))
    OBVIOUS
  <2>2. PICK v : v = NextShard(w, r2)
    OBVIOUS
  <2>3. Continue(p, v) /\ rec' = [rec EXCEPT ![w.m] = r2]
    BY <1>4, <2>1, <2>2 DEF Settle
  <2>4. At(w) \in ShardsOf(w.m)
    BY <1>0, AtInTodo DEF AtWork
  <2>5. r2 \in RecType /\ Shaped(r2, w.m) /\ Forth(r, r2)
    <3>1. r.state = "open" => r.shards[At(w)].done
      BY DEF AtCaptured
    <3>2. PICK a : a = At(w)
      OBVIOUS
    <3>3. PICK m : m = w.m
      OBVIOUS
    <3>4. /\ m \in Mutations /\ Shaped(r, m) /\ a \in ShardsOf(m) /\ r2 = Advanced(r, m, a)
          /\ r.state = "open" => r.shards[a].done
      BY <1>0, <2>1, <2>4, <3>1, <3>2, <3>3
    <3>5. r2 \in RecType /\ Shaped(r2, m) /\ Forth(r, r2)
      BY <1>0, <3>4, AdvancedRecord
    <3> QED
      BY <3>3, <3>5
  <2>6. r2.state # "none" /\ Forth(rec[w.m], r2)
    BY <1>0, <2>5, ForthTrans DEF Forth
  <2>7. /\ rec' \in [Mutations -> RecType] /\ rec'[w.m] = r2
        /\ \A k \in Mutations : Forth(rec[k], rec'[k]) /\ Shaped(rec'[k], k)
    BY <1>0, <2>3, <2>5, <2>6, OneRecord
  <2>8. v \in ProcType /\ Pulls(v)' /\ Sensible(v)'
    BY <1>0, <2>2, <2>5, <2>6, <2>7, NextShardPulls
  <2> QED
    BY <1>0, <2>3, <2>7, <2>8, RouterKeepsStats
<1> QED
  BY <1>2, <1>3, <1>4

(* PullInv through Project.                                                 *)
LEMMA ProjectKeeps ==
  ASSUME PullInv, NEW p \in Procs, Free(p), NEW w \in ProcType, NEW r \in RecType,
         AtCaptured(w, r), Project(p, w, r), UNCHANGED <<cursor, stats, shardVars, faults>>
  PROVE  PullInv'
<1>1. CASE cursor[At(w)] >= w.target
  BY <1>1, SettleKeeps DEF Project
<1>2. CASE ~ (cursor[At(w)] >= w.target)
  <2>0. /\ w.m \in Mutations /\ AtWork(w) /\ w.mode \in {"capture", "reconcile", "recover"}
        /\ Shaped(r, w.m) /\ Forth(rec[w.m], r) /\ r.state # "none"
        /\ faults' \in 0..MaxFaults /\ log' = log /\ cursor' = cursor
    BY DEF AtCaptured, AtWork, PullInv, ShardType, shardVars
  <2>1. At(w) \in Shards
    BY <2>0, AtInTodo DEF AtWork
  <2>2. cursor[At(w)] \in Nat /\ Len(log[At(w)]) \in Nat /\ w.target \in Nat
    <3>1. cursor \in [Shards -> Nat] /\ log \in [Shards -> Seq(Mutations)]
      BY DEF PullInv, RouterType, ShardType
    <3> QED
      BY <2>1, <3>1 DEF ProcType
  <2>10. PICK k : k = cursor[At(w)] + 1
    OBVIOUS
  <2>3. PICK v : v = [w EXCEPT !.pc = "list", !.ans = Waiting, !.from = k]
    OBVIOUS
  <2>4. Continue(p, v) /\ rec' = [rec EXCEPT ![w.m] = r]
    BY <1>2, <2>3, <2>10 DEF Project
  <2>5. /\ v \in ProcType /\ v.pc = "list" /\ v.m = w.m /\ v.todo = w.todo /\ v.ans = Waiting
        /\ v.target = w.target /\ v.mode = w.mode /\ v.from = cursor[At(w)] + 1
    <3>1. k \in Nat
      BY <2>2, <2>10
    <3>2. "list" \in {"new", "ok", "error", "idle"} \cup Active
      BY DEF Active, Working, Reads
    <3> QED
      BY <2>3, <2>10, <3>1, <3>2, WaitingType DEF ProcType
  <2>6. At(v) = At(w)
    BY <2>5 DEF At
  <2>7. /\ rec' \in [Mutations -> RecType] /\ rec'[w.m] = r
        /\ \A x \in Mutations : Forth(rec[x], rec'[x]) /\ Shaped(rec'[x], x)
    BY <2>0, <2>4, OneRecord
  <2>8. Pulls(v)'
    <3>1. w.target <= Len(log[At(w)]) /\ (r.state = "open" => r.shards[At(w)].done)
      BY DEF AtCaptured
    <3>2. v.todo # {} /\ v.todo \subseteq ShardsOf(v.m)
      BY <2>0, <2>5 DEF AtWork
    <3> QED
      BY <1>2, <2>0, <2>2, <2>5, <2>6, <2>7, <3>1, <3>2
         DEF Pulls, Active, Working, Pulling, Reads, Waiting
  <2>9. Sensible(v)'
    BY <2>0, <2>5, <2>6 DEF Sensible
  <2> QED
    BY <2>0, <2>4, <2>5, <2>7, <2>8, <2>9, RouterKeepsStats
<1> QED
  BY <1>1, <1>2
(* A process reads an answer.                                               *)
LEMMA AnsweredFacts ==
  ASSUME PullInv, NEW p \in Procs, NEW pc \in Working, proc[p].pc = pc,
         NEW w, w = proc[p]
  PROVE  /\ w \in ProcType /\ Pulls(w) /\ AtWork(w) /\ w.m \in Mutations
         /\ At(w) \in w.todo /\ At(w) \in ShardsOf(w.m) /\ At(w) \in Shards
         /\ rec[w.m].state # "none" /\ w.mode \in {"capture", "reconcile", "recover"}
         /\ rec[w.m] \in RecType /\ Shaped(rec[w.m], w.m) /\ faults \in 0..MaxFaults
         /\ w.ans \in Answers /\ w.ans.first \in Nat /\ w.ans.last \in Nat
<1>1. w \in ProcType /\ Pulls(w) /\ w.pc \in Working
  BY DEF PullInv, RouterType
<1>2. /\ AtWork(w) /\ At(w) \in w.todo /\ At(w) \in ShardsOf(w.m) /\ At(w) \in Shards
      /\ rec[w.m].state # "none" /\ w.mode \in {"capture", "reconcile", "recover"}
  BY <1>1, WorkingIsAtWork
<1>3. w.m \in Mutations
  BY <1>2 DEF AtWork
<1>4. rec[w.m] \in RecType /\ Shaped(rec[w.m], w.m) /\ faults \in 0..MaxFaults
  BY <1>3 DEF PullInv, RouterType, ShardType
<1>5. w.ans \in Answers
  BY <1>1 DEF ProcType
<1>6. w.ans.first \in Nat /\ w.ans.last \in Nat
  BY <1>5 DEF Answers
<1> QED
  BY <1>1, <1>2, <1>3, <1>4, <1>5, <1>6

(* PullInv through Lost.                                                    *)
LEMMA LostKeeps ==
  ASSUME PullInv, NEW p \in Procs, Free(p), Lost(p)
  PROVE  PullInv'
<1>1. faults' \in 0..MaxFaults
  BY DEF Lost, PullInv, ShardType
<1> QED
  BY <1>1, GivesUp DEF Lost

(* PullInv through ReadEntry.                                               *)
LEMMA ReadEntryKeeps ==
  ASSUME PullInv, NEW p \in Procs, ReadEntry(p)
  PROVE  PullInv'
<1>0. PICK w : w = proc[p]
  OBVIOUS
<1>1. w.pc = "fetch" /\ w.ans.kind # "waiting"
  BY <1>0 DEF ReadEntry, Answered
<1>2. /\ w \in ProcType /\ Pulls(w) /\ AtWork(w) /\ w.m \in Mutations
      /\ At(w) \in w.todo /\ At(w) \in ShardsOf(w.m) /\ At(w) \in Shards
      /\ rec[w.m].state # "none" /\ w.mode \in {"capture", "reconcile", "recover"}
      /\ rec[w.m] \in RecType /\ Shaped(rec[w.m], w.m) /\ faults \in 0..MaxFaults
      /\ w.ans.first \in Nat /\ w.ans.last \in Nat
  BY <1>0, <1>1, AnsweredFacts DEF Working, Reads
<1>3. Free(p)
  BY <1>0, <1>1 DEF Free, Waiting
<1>4. CASE Lost(p)
  BY <1>3, <1>4, LostKeeps
<1>5. CASE /\ w.ans.kind = "none" /\ Continue(p, NoEntry(w))
           /\ UNCHANGED <<routerVars, shardVars, faults>>
  <2>1. CASE w.mode = "recover"
    <3>1. PICK v : v = NextShard(w, rec[w.m])
      OBVIOUS
    <3>2. Continue(p, v)
      BY <1>5, <2>1, <3>1 DEF NoEntry
    <3>3. rec' = rec /\ cursor' = cursor /\ stats' = stats
      BY <1>5 DEF routerVars
    <3>4. v \in ProcType /\ Pulls(v)' /\ Sensible(v)'
      BY <1>2, <3>1, <3>3, NextShardPulls
    <3> QED
      BY <1>2, <1>3, <1>5, <3>2, <3>3, <3>4, SameRecords, RouterKeepsStats
  <2>2. CASE w.mode # "recover"
    <3>1. PICK why \in {"none", "missing"} : NoEntry(w) = Failed(w, why)
      BY <2>2 DEF NoEntry
    <3> QED
      BY <1>2, <1>3, <1>5, <3>1, GivesUp
  <2> QED
    BY <2>1, <2>2
<1>6. CASE /\ Continue(p, Failed(w, "conflict"))
           /\ UNCHANGED <<routerVars, shardVars, faults>>
  BY <1>2, <1>3, <1>6, GivesUp
<1>7. CASE /\ w.ans.kind = "entry"
           /\ Project(p, [w EXCEPT !.count = w.ans.first, !.target = w.ans.last],
                      Captured(rec[w.m], At(w), w.ans.first))
           /\ UNCHANGED <<cursor, stats, shardVars, faults>>
  <2>1. PICK u : u = [w EXCEPT !.count = w.ans.first, !.target = w.ans.last]
    OBVIOUS
  <2>2. PICK r : r = Captured(rec[w.m], At(w), w.ans.first)
    OBVIOUS
  <2>3. /\ u \in ProcType /\ u.m = w.m /\ u.todo = w.todo /\ u.mode = w.mode
        /\ u.target = w.ans.last
    BY <1>2, <2>1 DEF ProcType
  <2>4. At(u) = At(w)
    BY <2>3 DEF At
  <2>5. /\ r \in RecType /\ Shaped(r, w.m) /\ Forth(rec[w.m], r) /\ r.state = rec[w.m].state
        /\ r.state = "open" => r.shards[At(w)].done
    BY <1>2, <2>2, CapturedRecord
  <2>6. w.ans.last <= Len(log[At(w)])
    BY <1>1, <1>2, <1>7 DEF Pulls
  <2>7. AtCaptured(u, r)
    BY <1>2, <2>3, <2>4, <2>5, <2>6 DEF AtCaptured, AtWork
  <2> QED
    BY <1>3, <1>7, <2>1, <2>2, <2>3, <2>5, <2>7, ProjectKeeps
<1> QED
  BY <1>0, <1>4, <1>5, <1>6, <1>7 DEF ReadEntry

(* PullInv through ReadAck.                                                 *)
LEMMA ReadAckKeeps ==
  ASSUME PullInv, NEW p \in Procs, ReadAck(p)
  PROVE  PullInv'
<1>0. PICK w : w = proc[p]
  OBVIOUS
<1>1. w.pc = "ack" /\ w.ans.kind # "waiting"
  BY <1>0 DEF ReadAck, Answered
<1>2. /\ w \in ProcType /\ Pulls(w) /\ AtWork(w) /\ w.m \in Mutations
      /\ rec[w.m].state # "none" /\ w.mode \in {"capture", "reconcile", "recover"}
      /\ rec[w.m] \in RecType /\ Shaped(rec[w.m], w.m)
  BY <1>0, <1>1, AnsweredFacts DEF Working, Reads
<1>3. Free(p)
  BY <1>0, <1>1 DEF Free, Waiting
<1>4. CASE Lost(p)
  BY <1>3, <1>4, LostKeeps
<1>5. CASE Project(p, w, rec[w.m]) /\ UNCHANGED <<cursor, stats, shardVars, faults>>
  <2>1. Forth(rec[w.m], rec[w.m])
    BY <1>2 DEF Forth
  <2>2. AtCaptured(w, rec[w.m])
    BY <1>1, <1>2, <2>1 DEF AtCaptured, Pulls, Pulling
  <2> QED
    BY <1>2, <1>3, <1>5, <2>2, ProjectKeeps
<1> QED
  BY <1>0, <1>4, <1>5 DEF ReadAck

(* PullInv through Finalized.                                               *)
LEMMA FinalizedKeeps ==
  ASSUME PullInv, NEW p \in Procs, Finalized(p)
  PROVE  PullInv'
<1>0. PICK w : w = proc[p]
  OBVIOUS
<1>1. w.pc = "finalize"
  BY <1>0 DEF Finalized
<1>2. /\ w \in ProcType /\ Pulls(w) /\ AtWork(w) /\ w.m \in Mutations
      /\ At(w) \in ShardsOf(w.m) /\ faults \in 0..MaxFaults
      /\ rec[w.m].state # "none" /\ w.mode \in {"capture", "reconcile", "recover"}
      /\ rec[w.m] \in RecType /\ Shaped(rec[w.m], w.m)
  BY <1>0, <1>1, AnsweredFacts DEF Working
<1>3. Free(p)
  BY <1>0, <1>1 DEF Free, Reads
<1>4. PICK m : m = w.m
  OBVIOUS
<1>5. PICK a : a = At(w)
  OBVIOUS
<1>6. PICK r : r = rec[m]
  OBVIOUS
<1>7. PICK r2 : r2 = Advanced(r, m, a)
  OBVIOUS
<1>8. PICK v : v = NextShard(w, r2)
  OBVIOUS
<1>9. /\ Continue(p, v) /\ rec' = [rec EXCEPT ![m] = r2]
      /\ UNCHANGED <<cursor, stats, shardVars, faults>>
  BY <1>0, <1>4, <1>5, <1>6, <1>7, <1>8 DEF Finalized
<1>10. r.state = "open" => r.shards[a].done
  BY <1>1, <1>2, <1>4, <1>5, <1>6 DEF Pulls, Pulling
<1>11. r2 \in RecType /\ Shaped(r2, m) /\ Forth(r, r2)
  <2>1. m \in Mutations /\ a \in ShardsOf(m) /\ r \in RecType /\ Shaped(r, m) /\ r.state # "none"
    BY <1>2, <1>4, <1>5, <1>6
  <2> QED
    BY <1>7, <1>10, <2>1, AdvancedRecord
<1>12. r2.state # "none"
  BY <1>2, <1>4, <1>6, <1>11 DEF Forth
<1>13. /\ rec' \in [Mutations -> RecType] /\ rec'[m] = r2
       /\ \A k \in Mutations : Forth(rec[k], rec'[k]) /\ Shaped(rec'[k], k)
  BY <1>2, <1>4, <1>6, <1>9, <1>11, OneRecord
<1>14. v \in ProcType /\ Pulls(v)' /\ Sensible(v)'
  BY <1>2, <1>4, <1>8, <1>11, <1>12, <1>13, NextShardPulls
<1> QED
  BY <1>2, <1>3, <1>9, <1>13, <1>14, RouterKeepsStats

(* PullInv through FinalizeFailed.                                          *)
LEMMA FinalizeFailedKeeps ==
  ASSUME PullInv, NEW p \in Procs, FinalizeFailed(p)
  PROVE  PullInv'
<1>1. proc[p].pc = "finalize" /\ faults' \in 0..MaxFaults
  BY SagaConstants DEF FinalizeFailed, PullInv, ShardType
<1>2. Free(p)
  BY <1>1 DEF Free, Reads
<1> QED
  BY <1>1, <1>2, GivesUp DEF FinalizeFailed
(* A page that begins at or below the cursor's successor adds what is new.  *)
CountIn(n, S, m) == Cardinality({i \in S : n[i] = m})

(* The part of a page beyond the cursor is what the statistics still miss,  *)
(* whether or not the page reaches back behind the cursor.                  *)
LEMMA PageCounts ==
  ASSUME NEW n, NEW m, NEW c \in Nat, NEW first \in Nat, NEW last \in Nat,
         1 <= first, first <= c + 1, first <= last,
         NEW d \in Nat, c >= last => d = c, c < last => d = last,
         NEW F, \A i : i \in F <=> i \in first..last /\ i > c
  PROVE  CountIn(n, 1..d, m) = CountIn(n, 1..c, m) + CountIn(n, F, m)
<1> DEFINE A == {i \in 1..c : n[i] = m}
           B == {i \in F : n[i] = m}
           C == {i \in 1..d : n[i] = m}
<1>1. C = A \cup B
  OBVIOUS
<1>2. A \cap B = {}
  OBVIOUS
<1>3. IsFiniteSet(A) /\ IsFiniteSet(B)
  <2>1. IsFiniteSet(1..c) /\ IsFiniteSet(first..last)
    BY FS_Interval
  <2>2. A \subseteq 1..c /\ B \subseteq first..last
    OBVIOUS
  <2> QED
    BY <2>1, <2>2, FS_Subset
<1> HIDE DEF A, B, C
<1>4. Cardinality(A \cup B) = Cardinality(A) + Cardinality(B) - Cardinality(A \cap B)
  BY <1>3, FS_Union
<1>5. Cardinality(A) \in Nat /\ Cardinality(B) \in Nat
  BY <1>3, FS_CardinalityType
<1>6. Cardinality(A \cap B) = 0
  BY <1>2, FS_EmptySet
<1>7. Cardinality(C) = Cardinality(A) + Cardinality(B)
  BY <1>1, <1>4, <1>5, <1>6
<1> QED
  BY <1>7 DEF A, B, C, CountIn

(* PullInv through ReadPage.                                                *)
LEMMA ReadPageKeeps ==
  ASSUME PullInv, NEW p \in Procs, ReadPage(p)
  PROVE  PullInv'
<1>0. PICK w : w = proc[p]
  OBVIOUS
<1>1. w.pc = "list" /\ w.ans.kind # "waiting"
  BY <1>0 DEF ReadPage, Answered
<1>2. /\ w \in ProcType /\ Pulls(w) /\ AtWork(w) /\ w.m \in Mutations
      /\ At(w) \in Shards /\ faults \in 0..MaxFaults /\ rec[w.m].state # "none"
      /\ w.ans.first \in Nat /\ w.ans.last \in Nat
      /\ w.mode \in {"capture", "reconcile", "recover"}
  BY <1>0, <1>1, AnsweredFacts DEF Working, Reads
<1>3. Free(p)
  BY <1>0, <1>1 DEF Free, Waiting
<1>4. CASE Lost(p)
  BY <1>3, <1>4, LostKeeps
<1>5. ASSUME NEW why \in {"lag", "gap"}, Continue(p, Failed(w, why)),
             UNCHANGED <<routerVars, shardVars, faults>>
      PROVE  PullInv'
  BY <1>2, <1>3, <1>5, GivesUp
<1>6. CASE /\ w.ans.kind = "page" /\ w.ans.first <= w.ans.last /\ w.ans.first = w.from
           /\ stats' = [stats EXCEPT ![At(w)] = [m \in Mutations |-> @[m] +
                Cardinality({i \in Fresh(At(w), w.ans.first, w.ans.last) : log[At(w)][i] = m})]]
           /\ cursor' = [cursor EXCEPT ![At(w)] = Max({@, w.ans.last})]
           /\ Continue(p, [w EXCEPT !.pc = "ack", !.ans = Waiting, !.from = w.ans.last])
           /\ UNCHANGED <<rec, shardVars, faults>>
  <2>1. PICK s : s = At(w)
    OBVIOUS
  <2>2. PICK first : first = w.ans.first
    OBVIOUS
  <2>3. PICK last : last = w.ans.last
    OBVIOUS
  <2>4. PICK v : v = [w EXCEPT !.pc = "ack", !.ans = Waiting, !.from = last]
    OBVIOUS
  <2>5. /\ s \in Shards /\ first \in Nat /\ last \in Nat /\ first <= last
        /\ 1 <= first /\ first <= cursor[s] + 1 /\ last <= Len(log[s])
        /\ w.target <= Len(log[s]) /\ w.target \in Nat
    BY <1>1, <1>2, <1>6, <2>1, <2>2, <2>3 DEF Pulls, Pulling, ProcType
  <2>6. /\ cursor \in [Shards -> Nat] /\ log \in [Shards -> Seq(Mutations)]
        /\ stats \in [Shards -> [Mutations -> Nat]] /\ cursor[s] <= Len(log[s])
        /\ log' = log /\ rec' = rec /\ \A t \in Shards : cursor[t] <= Len(log[t])
    BY <1>6, <2>5 DEF PullInv, RouterType, ShardType, CursorsInLog, shardVars
  <2>7. PICK d : d = IF cursor[s] >= last THEN cursor[s] ELSE last
    OBVIOUS
  <2>8. /\ d \in Nat /\ cursor[s] <= d /\ d <= Len(log[s]) /\ last <= d
        /\ cursor' = [cursor EXCEPT ![s] = d]
    <3>1. cursor[s] \in Nat
      BY <2>5, <2>6
    <3>2. Max({cursor[s], last}) = d
      BY <2>5, <2>7, <3>1, MaxOfTwo
    <3>3. cursor' = [cursor EXCEPT ![s] = Max({cursor[s], last})]
      BY <1>6, <2>1, <2>3
    <3>4. d \in Nat /\ cursor[s] <= d /\ d <= Len(log[s]) /\ last <= d
      BY <2>5, <2>6, <2>7, <3>1
    <3> QED
      BY <3>2, <3>3, <3>4
  <2>9. /\ cursor' \in [Shards -> Nat] /\ cursor'[s] = d
        /\ \A t \in Shards \ {s} : cursor'[t] = cursor[t]
    BY <2>5, <2>6, <2>8
  <2>10. \A t \in Shards : cursor[t] <= cursor'[t] /\ cursor'[t] <= Len(log[t])
    <3> TAKE t \in Shards
    <3>1. cursor[t] \in Nat
      BY <2>6
    <3> QED
      BY <2>6, <2>8, <2>9, <3>1
  <2>11. PICK F : F = {i \in first..last : i > cursor[s]}
    OBVIOUS
  <2>12. stats' = [stats EXCEPT ![s] = [m \in Mutations |-> stats[s][m] +
                     Cardinality({i \in F : log[s][i] = m})]]
    BY <1>6, <2>1, <2>2, <2>3, <2>5, <2>6, <2>11 DEF Fresh
  <2>13. ASSUME NEW m \in Mutations
         PROVE  /\ Cardinality({i \in F : log[s][i] = m}) \in Nat
                /\ Cardinality({i \in 1..d : log[s][i] = m}) =
                     stats[s][m] + Cardinality({i \in F : log[s][i] = m})
    <3>1. IsFiniteSet(first..last)
      BY <2>5, FS_Interval
    <3>2. IsFiniteSet({i \in F : log[s][i] = m})
      BY <2>11, <3>1, FS_Subset
    <3>3. stats[s][m] = Cardinality({i \in 1..cursor[s] : log[s][i] = m})
      BY <2>5 DEF PullInv, StatsExact
    <3>4. PICK n : n = log[s]
      OBVIOUS
    <3>5. PICK c : c = cursor[s]
      OBVIOUS
    <3>6. c \in Nat
      BY <2>5, <2>6, <3>5
    <3>7. CountIn(n, 1..d, m) = CountIn(n, 1..c, m) + CountIn(n, F, m)
      <4>1. /\ first \in Nat /\ last \in Nat /\ 1 <= first /\ first <= c + 1 /\ first <= last
            /\ d \in Nat /\ (c >= last => d = c) /\ (c < last => d = last)
        BY <2>5, <2>7, <2>8, <3>5, <3>6
      <4>2. \A i : i \in F <=> i \in first..last /\ i > c
        BY <2>11, <3>5
      <4> QED
        BY <3>6, <4>1, <4>2, PageCounts
    <3>8. Cardinality({i \in F : log[s][i] = m}) \in Nat
      BY <3>2, FS_CardinalityType
    <3>9. Cardinality({i \in 1..d : log[s][i] = m}) =
            stats[s][m] + Cardinality({i \in F : log[s][i] = m})
      <4>1. /\ {i \in 1..d : log[s][i] = m} = {i \in 1..d : n[i] = m}
            /\ {i \in F : log[s][i] = m} = {i \in F : n[i] = m}
            /\ {i \in 1..cursor[s] : log[s][i] = m} = {i \in 1..c : n[i] = m}
        BY <3>4, <3>5
      <4> QED
        BY <3>3, <3>7, <4>1 DEF CountIn
    <3> QED
      BY <3>8, <3>9
  <2>14. stats' \in [Shards -> [Mutations -> Nat]]
    <3>0. ASSUME NEW m \in Mutations, NEW k \in Nat PROVE stats[s][m] + k \in Nat
      BY <2>5, <2>6
    <3>1. \A m \in Mutations : stats[s][m] + Cardinality({i \in F : log[s][i] = m}) \in Nat
      BY <2>13, <3>0
    <3> QED
      BY <2>5, <2>6, <2>12, <3>1
  <2>15. StatsExact'
    <3>1. ASSUME NEW t \in Shards, NEW m \in Mutations
          PROVE  stats'[t][m] = Cardinality({i \in 1..cursor'[t] : log'[t][i] = m})
      <4>1. CASE t = s
        BY <2>5, <2>6, <2>9, <2>12, <2>13, <4>1
      <4>2. CASE t # s
        <5>1. stats'[t] = stats[t] /\ cursor'[t] = cursor[t]
          BY <2>6, <2>9, <2>12, <4>2
        <5>2. stats[t][m] = Cardinality({i \in 1..cursor[t] : log[t][i] = m})
          BY DEF PullInv, StatsExact
        <5> QED
          BY <2>6, <5>1, <5>2
      <4> QED
        BY <4>1, <4>2
    <3> QED
      BY <3>1 DEF StatsExact
  <2>16. /\ v \in ProcType /\ v.pc = "ack" /\ v.m = w.m /\ v.todo = w.todo
         /\ v.ans = Waiting /\ v.from = last /\ v.target = w.target /\ v.mode = w.mode
    <3>1. "ack" \in {"new", "ok", "error", "idle"} \cup Active
      BY DEF Active, Working, Reads
    <3> QED
      BY <1>2, <2>4, <2>5, <3>1, WaitingType DEF ProcType
  <2>17. At(v) = s
    BY <2>1, <2>16 DEF At
  <2>18. Pulls(v)'
    <3>1. v.todo # {} /\ v.todo \subseteq ShardsOf(v.m)
      BY <1>2, <2>16 DEF AtWork
    <3>2. rec'[v.m].state = "open" => rec'[v.m].shards[s].done
      BY <1>1, <1>2, <2>1, <2>6, <2>16 DEF Pulls, Pulling
    <3>3. v.m \in Mutations /\ rec'[v.m].state # "none" /\ v.target <= Len(log'[s])
      BY <1>2, <2>5, <2>6, <2>16
    <3> QED
      BY <1>2, <2>16, <2>17, <3>1, <3>2, <3>3 DEF Pulls, Active, Working, Pulling, Reads
  <2>19. Sensible(v)'
    BY <2>8, <2>9, <2>16, <2>17 DEF Sensible
  <2> QED
    BY <1>2, <1>3, <1>6, <2>3, <2>4, <2>9, <2>10, <2>14, <2>15, <2>16, <2>18, <2>19,
       SameRecords, RouterKeeps
<1>7. \/ Lost(p)
      \/ \E why \in {"lag", "gap"} : /\ Continue(p, Failed(w, why))
                                     /\ UNCHANGED <<routerVars, shardVars, faults>>
      \/ /\ w.ans.kind = "page" /\ w.ans.first <= w.ans.last /\ w.ans.first = w.from
         /\ stats' = [stats EXCEPT ![At(w)] = [m \in Mutations |-> @[m] +
              Cardinality({i \in Fresh(At(w), w.ans.first, w.ans.last) : log[At(w)][i] = m})]]
         /\ cursor' = [cursor EXCEPT ![At(w)] = Max({@, w.ans.last})]
         /\ Continue(p, [w EXCEPT !.pc = "ack", !.ans = Waiting, !.from = w.ans.last])
         /\ UNCHANGED <<rec, shardVars, faults>>
  BY <1>0 DEF ReadPage
<1> QED
  BY <1>4, <1>5, <1>6, <1>7
(* A call's process is of its type and is not the recovery pass.            *)
LEMMA CallFacts ==
  ASSUME PullInv, NEW c \in Calls
  PROVE  /\ c \in Procs /\ KeyOf[c] \in Mutations /\ c # Recovery /\ faults \in 0..MaxFaults
         /\ proc[c] \in ProcType /\ Pulls(proc[c])
<1>1. c \in Procs /\ KeyOf[c] \in Mutations /\ c # Recovery
  BY SagaConstants DEF Procs
<1>2. faults \in 0..MaxFaults /\ proc \in [Procs -> ProcType] /\ \A p \in Procs : Pulls(proc[p])
  BY DEF PullInv, RouterType, ShardType
<1> QED
  BY <1>1, <1>2

(* A record is of its type and shaped for its mutation.                     *)
LEMMA RecordFacts ==
  ASSUME PullInv, NEW m \in Mutations
  PROVE  /\ rec[m] \in RecType /\ Shaped(rec[m], m) /\ Forth(rec[m], rec[m])
         /\ rec[m].state \in {"none", "open", "done"} /\ rec[m].total \in Nat
<1>1. rec[m] \in RecType /\ Shaped(rec[m], m)
  BY DEF PullInv, RouterType
<1> QED
  BY <1>1 DEF RecType, Forth

(* PullInv through Prepare.                                                 *)
LEMMA PrepareKeeps ==
  ASSUME PullInv, NEW c \in Calls, Prepare(c)
  PROVE  PullInv'
<1>0. PICK m : m = KeyOf[c]
  OBVIOUS
<1>1. /\ c \in Procs /\ m \in Mutations /\ faults \in 0..MaxFaults
      /\ rec[m] \in RecType /\ Shaped(rec[m], m) /\ Forth(rec[m], rec[m])
      /\ rec[m].state \in {"none", "open", "done"} /\ rec[m].total \in Nat
  BY <1>0, CallFacts, RecordFacts
<1>2. /\ proc[c].pc = "new" /\ UNCHANGED <<cursor, stats, shardVars, faults>>
      /\ rec' = IF rec[m].state = "none" THEN [rec EXCEPT ![m] = Envelope] ELSE rec
      /\ Continue(c, CASE rec[m].state = "done" -> Replied(rec[m].total)
                       [] rec[m].state # "done" /\ Unprojected(m) # {} ->
                            Fetching(About("prepared", m), "reconcile", Unprojected(m))
                       [] OTHER -> About("prepared", m))
  BY <1>0 DEF Prepare, About
<1>3. Free(c)
  BY <1>2 DEF Free, Reads
<1>4. /\ rec' \in [Mutations -> RecType] /\ rec'[m].state # "none"
      /\ \A k \in Mutations : Forth(rec[k], rec'[k]) /\ Shaped(rec'[k], k)
  <2>1. CASE rec[m].state = "none"
    <3>1. Envelope \in RecType /\ Envelope.state = "open" /\ Shaped(Envelope, m)
      BY <1>1, EnvelopeRecord
    <3>2. Forth(rec[m], Envelope) /\ rec' = [rec EXCEPT ![m] = Envelope]
      BY <1>2, <2>1 DEF Forth
    <3>3. /\ rec' \in [Mutations -> RecType] /\ rec'[m] = Envelope
          /\ \A k \in Mutations : Forth(rec[k], rec'[k]) /\ Shaped(rec'[k], k)
      BY <1>1, <3>1, <3>2, OneRecord
    <3> QED
      BY <3>1, <3>3
  <2>2. CASE rec[m].state # "none"
    BY <1>2, <2>2, SameRecords
  <2> QED
    BY <2>1, <2>2
<1>5. ASSUME NEW v \in ProcType, Continue(c, v), Pulls(v)', Sensible(v)'
      PROVE  PullInv'
  BY <1>1, <1>2, <1>3, <1>4, <1>5, RouterKeepsStats
<1>6. CASE rec[m].state = "done"
  <2>1. Continue(c, Replied(rec[m].total))
    BY <1>2, <1>6
  <2>2. PICK v : v = Replied(rec[m].total)
    OBVIOUS
  <2>3. v \in ProcType /\ v.pc = "ok"
    BY <1>1, <2>2, RepliedFields
  <2> QED
    BY <1>5, <2>1, <2>2, <2>3, QuietPulls
<1>7. CASE rec[m].state # "done" /\ Unprojected(m) # {}
  <2>1. PICK w : w = About("prepared", m)
    OBVIOUS
  <2>2. PICK v : v = Fetching(w, "reconcile", Unprojected(m))
    OBVIOUS
  <2>3. Continue(c, v)
    BY <1>2, <1>7, <2>1, <2>2
  <2>4. w \in ProcType /\ w.m = m
    BY <1>1, <2>1, PreparedFields
  <2>5. Unprojected(m) \subseteq ShardsOf(m) /\ ShardsOf(m) \subseteq Shards
    BY <1>1, ShardsOfEnvelope DEF Unprojected
  <2>6. /\ v \in ProcType /\ v.pc = "fetch" /\ v.mode = "reconcile" /\ v.m = m
        /\ v.todo = Unprojected(m) /\ v.ans = Waiting
    BY <2>2, <2>4, <2>5, FetchingFields
  <2>7. AtWork(v)
    BY <1>1, <1>7, <2>5, <2>6 DEF AtWork
  <2> QED
    BY <1>4, <1>5, <2>3, <2>6, <2>7, FetchPulls
<1>8. CASE rec[m].state # "done" /\ Unprojected(m) = {}
  <2>1. PICK v : v = About("prepared", m)
    OBVIOUS
  <2>2. Continue(c, v)
    BY <1>2, <1>8, <2>1
  <2>3. v \in ProcType /\ v.m = m /\ v.pc = "prepared"
    BY <1>1, <2>1, PreparedFields
  <2> QED
    BY <1>1, <1>4, <1>5, <2>2, <2>3, PreparedPulls
<1> QED
  BY <1>6, <1>7, <1>8

(* PullInv through Dispatched.                                              *)
LEMMA DispatchedKeeps ==
  ASSUME PullInv, NEW c \in Calls, Dispatched(c)
  PROVE  PullInv'
<1>0. PICK w : w = proc[c]
  OBVIOUS
<1>1. w.pc = "exec" /\ UNCHANGED <<routerVars, shardVars, faults>>
  BY <1>0 DEF Dispatched
<1>2. c \in Procs /\ w \in ProcType /\ Pulls(w) /\ faults \in 0..MaxFaults
  BY <1>0, CallFacts
<1>3. w.m \in Mutations /\ rec[w.m].state # "none"
  BY <1>1, <1>2 DEF Pulls, Active
<1>4. Free(c)
  BY <1>0, <1>1 DEF Free, Reads
<1>5. PICK v : v = Fetching(w, "capture", ShardsOf(w.m))
  OBVIOUS
<1>6. Continue(c, v) /\ rec' = rec /\ UNCHANGED <<cursor, stats, shardVars>>
  BY <1>0, <1>1, <1>5 DEF Dispatched, routerVars
<1>7. /\ v \in ProcType /\ v.pc = "fetch" /\ v.mode = "capture" /\ v.m = w.m
      /\ v.todo = ShardsOf(w.m) /\ v.ans = Waiting
  BY <1>2, <1>3, <1>5, FetchingFields, ShardsOfEnvelope
<1>8. AtWork(v) /\ rec'[v.m].state # "none"
  BY <1>3, <1>6, <1>7, ShardsOfEnvelope DEF AtWork
<1>9. Pulls(v)' /\ Sensible(v)'
  BY <1>7, <1>8, FetchPulls
<1> QED
  BY <1>1, <1>2, <1>4, <1>6, <1>7, <1>9, SameRecords, RouterKeepsStats

(* PullInv through RecoverStart.                                            *)
LEMMA RecoverStartKeeps ==
  ASSUME PullInv, NEW m \in Mutations, RecoverStart(m)
  PROVE  PullInv'
<1>1. /\ proc[Recovery].pc = "idle" /\ rec[m].state = "open"
      /\ UNCHANGED <<routerVars, shardVars, faults>>
      /\ Continue(Recovery, Fetching(About("idle", m), "recover", Unfinished(m)))
  BY DEF RecoverStart, About
<1>2. Recovery \in Procs /\ faults \in 0..MaxFaults /\ Shaped(rec[m], m)
  BY RecordFacts DEF Procs, PullInv, ShardType
<1>3. Free(Recovery)
  BY <1>1 DEF Free, Reads
<1>4. PICK w : w = About("idle", m)
  OBVIOUS
<1>5. PICK v : v = Fetching(w, "recover", Unfinished(m))
  OBVIOUS
<1>6. w \in ProcType /\ w.m = m
  BY <1>4, PreparedFields
<1>7. /\ Unfinished(m) \subseteq ShardsOf(m) /\ ShardsOf(m) \subseteq Shards
      /\ Unfinished(m) # {}
  BY <1>1, <1>2, ShardsOfEnvelope DEF Unfinished, Shaped
<1>8. /\ v \in ProcType /\ v.pc = "fetch" /\ v.mode = "recover" /\ v.m = m
      /\ v.todo = Unfinished(m) /\ v.ans = Waiting
  BY <1>5, <1>6, <1>7, FetchingFields
<1>9. Continue(Recovery, v) /\ rec' = rec /\ UNCHANGED <<cursor, stats, shardVars>>
  BY <1>1, <1>4, <1>5 DEF routerVars
<1>10. AtWork(v) /\ rec'[v.m].state # "none"
  BY <1>1, <1>7, <1>8, <1>9 DEF AtWork
<1>11. Pulls(v)' /\ Sensible(v)'
  BY <1>8, <1>10, FetchPulls
<1> QED
  BY <1>1, <1>2, <1>3, <1>8, <1>9, <1>11, SameRecords, RouterKeepsStats
------------------------------------------------------------------------------
(* Steps of the shards, and failures.                                       *)

(* What an answer changes of a process.                                     *)
LEMMA DeliverFields ==
  ASSUME proc \in [Procs -> ProcType], NEW q \in ReqType, NEW s \in Shards, NEW a \in Answers,
         Deliver(q, s, a)
  PROVE  /\ proc' \in [Procs -> ProcType]
         /\ \A p \in Procs :
              /\ (p # q.p \/ ~q.live) => proc'[p] = proc[p]
              /\ proc'[p].pc = proc[p].pc /\ proc'[p].mode = proc[p].mode
              /\ proc'[p].m = proc[p].m /\ proc'[p].todo = proc[p].todo
              /\ proc'[p].count = proc[p].count /\ proc'[p].target = proc[p].target
              /\ proc'[p].from = proc[p].from /\ proc'[p].sum = proc[p].sum
              /\ proc'[p].why = proc[p].why
              /\ q.op = "exec" => proc'[p].ans = proc[p].ans
              /\ q.op # "exec" => proc'[p].out = proc[p].out
         /\ q.live /\ q.op # "exec" => proc'[q.p].ans = a
         /\ q.live /\ q.op = "exec" => proc'[q.p].out = [proc[q.p].out EXCEPT ![s] = a]
<1>0. q.p \in Procs
  BY DEF ReqType
<1>1. CASE ~q.live
  BY <1>1 DEF Deliver
<1>2. CASE q.live /\ q.op = "exec"
  <2>1. PICK w : w = [proc[q.p] EXCEPT !.out = [proc[q.p].out EXCEPT ![s] = a]]
    OBVIOUS
  <2>2. proc[q.p] \in ProcType /\ proc[q.p].out \in [Shards -> Answers]
    BY <1>0 DEF ProcType
  <2>3. proc' = [proc EXCEPT ![q.p] = w]
    BY <1>2, <2>1 DEF Deliver
  <2>4. /\ w \in ProcType /\ w.pc = proc[q.p].pc /\ w.mode = proc[q.p].mode
        /\ w.m = proc[q.p].m /\ w.todo = proc[q.p].todo /\ w.count = proc[q.p].count
        /\ w.target = proc[q.p].target /\ w.from = proc[q.p].from /\ w.sum = proc[q.p].sum
        /\ w.why = proc[q.p].why /\ w.ans = proc[q.p].ans
        /\ w.out = [proc[q.p].out EXCEPT ![s] = a]
    BY <2>1, <2>2 DEF ProcType
  <2>5. proc'[q.p] = w /\ \A p \in Procs \ {q.p} : proc'[p] = proc[p]
    BY <1>0, <2>3
  <2> QED
    BY <1>0, <1>2, <2>3, <2>4, <2>5
<1>3. CASE q.live /\ q.op # "exec"
  <2>1. PICK w : w = [proc[q.p] EXCEPT !.ans = a]
    OBVIOUS
  <2>2. proc[q.p] \in ProcType
    BY <1>0
  <2>3. proc' = [proc EXCEPT ![q.p] = w]
    BY <1>3, <2>1 DEF Deliver
  <2>4. /\ w \in ProcType /\ w.pc = proc[q.p].pc /\ w.mode = proc[q.p].mode
        /\ w.m = proc[q.p].m /\ w.todo = proc[q.p].todo /\ w.count = proc[q.p].count
        /\ w.target = proc[q.p].target /\ w.from = proc[q.p].from /\ w.sum = proc[q.p].sum
        /\ w.why = proc[q.p].why /\ w.ans = a /\ w.out = proc[q.p].out
    BY <2>1, <2>2 DEF ProcType
  <2>5. proc'[q.p] = w /\ \A p \in Procs \ {q.p} : proc'[p] = proc[p]
    BY <1>0, <2>3
  <2> QED
    BY <1>0, <1>3, <2>3, <2>4, <2>5
<1> QED
  BY <1>1, <1>2, <1>3

(* The only process that an answer to q changes is the one that awaits it.  *)
Touches(q) ==
  \A p \in Procs :
    /\ (p # q.p \/ ~q.live) => proc'[p] = proc[p]
    /\ proc'[p].pc = proc[p].pc /\ proc'[p].mode = proc[p].mode /\ proc'[p].m = proc[p].m
    /\ proc'[p].todo = proc[p].todo /\ proc'[p].from = proc[p].from
    /\ proc'[p].target = proc[p].target
    /\ q.op = "exec" => proc'[p].ans = proc[p].ans

(* An answer changes the process that waits for it and no other.            *)
LEMMA DeliverTouches ==
  ASSUME proc \in [Procs -> ProcType], NEW q \in ReqType, NEW s \in Shards, NEW a \in Answers,
         Deliver(q, s, a)
  PROVE  proc' \in [Procs -> ProcType] /\ Touches(q)
BY DeliverFields DEF Touches

(* A queue that lost requests, or had some turned from live to not.         *)
Thins(n, n2, f, k) ==
  /\ f \in [1..Len(n2) -> 1..Len(n)]
  /\ \A i, j \in 1..Len(n2) : i < j => f[i] < f[j]
  /\ \A i \in 1..Len(n2) :
       /\ n2[i].p = n[f[i]].p /\ n2[i].op = n[f[i]].op
       /\ n2[i].m = n[f[i]].m /\ n2[i].arg = n[f[i]].arg
       /\ f[i] # k => n2[i] = n[f[i]]
       /\ f[i] = k => ~n2[i].live /\ n2[i].op # "list"

(* Removing a request from a queue keeps the order of the reads left.       *)
LEMMA ThinnedReads ==
  ASSUME NEW s \in Shards, NEW n \in Seq(ReqType), ReadsOrdered(s, n),
         NEW n2 \in Seq(ReqType), NEW f, NEW k, Thins(n, n2, f, k),
         UNCHANGED cursor,
         \A i \in 1..Len(n2) : n2[i].op = "list" => pruned'[s] < n2[i].arg,
         \A i \in 1..Len(n2) : IsRead(n2[i]) => Awaits(proc'[n2[i].p], s, n2[i])
  PROVE  ReadsOrdered(s, n2)'
<1> SUFFICES ASSUME NEW i \in 1..Len(n2)
             PROVE  /\ n2[i].op = "ack" => n2[i].arg <= cursor[s]
                    /\ n2[i].op = "list" =>
                         /\ n2[i].live
                         /\ \A j \in 1..(i - 1) : n2[j].op = "ack" => n2[j].arg < n2[i].arg
                    /\ \A j \in 1..(i - 1) : IsRead(n2[i]) /\ IsRead(n2[j]) => n2[i].p # n2[j].p
  BY DEF ReadsOrdered, Awaits, At, IsRead
<1>0. Len(n) \in Nat /\ Len(n2) \in Nat
  OBVIOUS
<1>1. f[i] \in 1..Len(n) /\ \A j \in 1..(i - 1) : j \in 1..Len(n2) /\ f[j] \in 1..(f[i] - 1)
  <2>1. f \in [1..Len(n2) -> 1..Len(n)] /\ \A x, y \in 1..Len(n2) : x < y => f[x] < f[y]
    BY DEF Thins
  <2>2. f[i] \in 1..Len(n)
    BY <2>1
  <2>3. ASSUME NEW j \in 1..(i - 1) PROVE j \in 1..Len(n2) /\ f[j] \in 1..(f[i] - 1)
    <3>1. j \in 1..Len(n2) /\ j < i
      BY <1>0
    <3>2. f[j] \in 1..Len(n) /\ f[j] < f[i]
      BY <2>1, <3>1
    <3> QED
      BY <1>0, <2>2, <3>1, <3>2
  <2> QED
    BY <2>2, <2>3
<1>2. n2[i].op = n[f[i]].op /\ n2[i].arg = n[f[i]].arg /\ n2[i].p = n[f[i]].p
  BY DEF Thins
<1>3. \A j \in 1..(i - 1) :
        n2[j].op = n[f[j]].op /\ n2[j].arg = n[f[j]].arg /\ n2[j].p = n[f[j]].p
  BY <1>1 DEF Thins
<1>4. n2[i].op = "ack" => n2[i].arg <= cursor[s]
  BY <1>1, <1>2 DEF ReadsOrdered
<1>5. n2[i].op = "list" => n2[i].live
  BY <1>1, <1>2 DEF ReadsOrdered, Thins
<1>6. n2[i].op = "list" => \A j \in 1..(i - 1) : n2[j].op = "ack" => n2[j].arg < n2[i].arg
  BY <1>1, <1>2, <1>3 DEF ReadsOrdered
<1>7. \A j \in 1..(i - 1) : IsRead(n2[i]) /\ IsRead(n2[j]) => n2[i].p # n2[j].p
  <2> SUFFICES ASSUME NEW j \in 1..(i - 1), IsRead(n2[i]), IsRead(n2[j])
               PROVE  n2[i].p # n2[j].p
    OBVIOUS
  <2>1. IsRead(n[f[i]]) /\ IsRead(n[f[j]])
    BY <1>1 DEF Thins, IsRead
  <2>2. PICK x : x = f[i]
    OBVIOUS
  <2>3. PICK y : y = f[j]
    OBVIOUS
  <2>4. x \in 1..Len(n) /\ y \in 1..(x - 1) /\ IsRead(n[x]) /\ IsRead(n[y])
    BY <1>1, <2>1, <2>2, <2>3
  <2>5. n[x].p # n[y].p
    BY <2>4 DEF ReadsOrdered
  <2> QED
    BY <1>2, <1>3, <2>2, <2>3, <2>5
<1> QED
  BY <1>4, <1>5, <1>6, <1>7

(* A request leaves its queue, or is awaited no more, and is answered.      *)
LEMMA AnswerReads ==
  ASSUME PullInv, NEW s \in Shards, NEW k \in 1..Len(net[s]), NEW q, q = net[s][k],
         Touches(q),
         NEW n2 \in Seq(ReqType), net' = [net EXCEPT ![s] = n2], NEW f, Thins(net[s], n2, f, k),
         UNCHANGED cursor, \A t \in Shards \ {s} : pruned'[t] = pruned[t],
         \A i \in 1..Len(n2) : n2[i].op = "list" => pruned'[s] < n2[i].arg
  PROVE  \A t \in Shards : ReadsOrdered(t, net[t])'
<1>0. /\ proc \in [Procs -> ProcType] /\ net \in [Shards -> Seq(ReqType)]
      /\ cursor \in [Shards -> Nat] /\ \A t \in Shards : ReadsOrdered(t, net[t])
  BY DEF PullInv, RouterType
<1>1. q \in ReqType /\ q.p \in Procs
  <2>1. q \in ReqType
    BY <1>0
  <2> QED
    BY <2>1 DEF ReqType
<1>2. \A p \in Procs :
        /\ (p # q.p \/ ~q.live) => proc'[p] = proc[p]
        /\ proc'[p].pc = proc[p].pc /\ proc'[p].m = proc[p].m /\ proc'[p].todo = proc[p].todo
        /\ proc'[p].from = proc[p].from
        /\ q.op = "exec" => proc'[p].ans = proc[p].ans
  BY DEF Touches
<1>3. \A p \in Procs : At(proc'[p]) = At(proc[p])
  BY <1>2 DEF At
<1>4. ASSUME NEW t \in Shards, NEW x \in ReqType, Awaits(proc[x.p], t, x),
             ~IsRead(q) \/ x.p # q.p
      PROVE  Awaits(proc'[x.p], t, x)
  <2>1. x.p \in Procs
    BY DEF ReqType
  <2>2. CASE x.p # q.p \/ ~q.live
    BY <1>2, <1>4, <2>1, <2>2
  <2>3. CASE q.live /\ q.op = "exec"
    BY <1>2, <1>3, <1>4, <2>1, <2>3 DEF Awaits
  <2>4. IsRead(q) <=> q.live /\ q.op # "exec"
    BY <1>1 DEF IsRead, ReqType, Reads
  <2> QED
    BY <1>4, <2>2, <2>3, <2>4
<1>5. ASSUME NEW t \in Shards, t # s
      PROVE  ReadsOrdered(t, net[t])'
  <2>1. PICK n : n = net[t]
    OBVIOUS
  <2>2. n \in Seq(ReqType) /\ ReadsOrdered(t, n) /\ net'[t] = n
    BY <1>0, <1>5, <2>1
  <2>3. \A i \in 1..Len(n) : n[i].op = "list" => pruned'[t] < n[i].arg
    BY <1>5, <2>2 DEF ReadsOrdered
  <2>4. ASSUME NEW i \in 1..Len(n), IsRead(n[i]) PROVE Awaits(proc'[n[i].p], t, n[i])
    <3>1. n[i] \in ReqType /\ Awaits(proc[n[i].p], t, n[i])
      BY <2>2, <2>4 DEF ReadsOrdered
    <3>2. IsRead(q) => Awaits(proc[q.p], s, q)
      BY <1>0 DEF ReadsOrdered
    <3>3. IsRead(q) => q.p # n[i].p
      BY <1>5, <3>1, <3>2 DEF Awaits
    <3> QED
      BY <1>4, <3>1, <3>3
  <2>5. cursor' \in [Shards -> Nat] /\ cursor[t] <= cursor'[t]
    BY <1>0
  <2>6. ReadsOrdered(t, n)'
    BY <1>0, <2>2, <2>3, <2>4, <2>5, ReadsKept
  <2> QED
    BY <2>2, <2>6, ReadsThen
<1>6. ReadsOrdered(s, net[s])'
  <2>1. PICK n : n = net[s]
    OBVIOUS
  <2>2. n \in Seq(ReqType) /\ ReadsOrdered(s, n) /\ net'[s] = n2 /\ q = n[k] /\ k \in 1..Len(n)
        /\ Thins(n, n2, f, k)
    BY <1>0, <2>1
  <2>3. ASSUME NEW i \in 1..Len(n2), IsRead(n2[i]) PROVE Awaits(proc'[n2[i].p], s, n2[i])
    <3>1. f[i] \in 1..Len(n) /\ f[i] # k /\ n2[i] = n[f[i]]
      BY <2>2, <2>3 DEF Thins, IsRead
    <3>2. n2[i] \in ReqType /\ Awaits(proc[n2[i].p], s, n2[i])
      BY <2>2, <2>3, <3>1 DEF ReadsOrdered
    <3>3. IsRead(q) => q.p # n2[i].p
      <4>1. f[i] \in 1..(k - 1) \/ k \in 1..(f[i] - 1)
        BY <2>2, <3>1
      <4> QED
        BY <2>2, <2>3, <3>1, <4>1 DEF ReadsOrdered
    <3> QED
      BY <1>4, <3>2, <3>3
  <2>4. ReadsOrdered(s, n2)'
    BY <2>2, <2>3, ThinnedReads
  <2> QED
    BY <2>2, <2>4, ReadsThen
<1> QED
  BY <1>5, <1>6
(* A truthful answer keeps every process's knowledge of its shard's log.    *)
LEMMA AnswerPulls ==
  ASSUME PullInv, Grows, NEW s \in Shards, NEW q \in ReqType, NEW a \in Answers, Deliver(q, s, a),
         (q.live /\ q.op # "exec") => Awaits(proc[q.p], s, q),
         (q.live /\ q.op = "fetch" /\ a.kind = "entry") => a.last <= Len(log'[s]),
         (q.live /\ q.op = "list" /\ a.kind = "page") =>
           a.first = q.arg /\ q.arg <= a.last /\ a.last <= Len(log'[s])
  PROVE  proc' \in [Procs -> ProcType] /\ \A p \in Procs : Pulls(proc[p])'
<1>0. RouterType /\ ShardType /\ proc \in [Procs -> ProcType]
  BY DEF PullInv, RouterType
<1>1. proc' \in [Procs -> ProcType]
  BY <1>0, DeliverFields
<1>2. ASSUME NEW p \in Procs PROVE Pulls(proc[p])'
  <2>1. PICK w : w = proc[p]
    OBVIOUS
  <2>2. PICK w2 : w2 = proc'[p]
    OBVIOUS
  <2>3. w \in ProcType /\ Pulls(w)
    BY <1>0, <2>1 DEF PullInv
  <2>4. Pulls(w)'
    BY <1>0, <2>3, PullsKept
  <2>5. /\ w2.pc = w.pc /\ w2.m = w.m /\ w2.todo = w.todo /\ w2.from = w.from
        /\ w2.target = w.target /\ w2.mode = w.mode
        /\ (p # q.p \/ ~q.live \/ q.op = "exec") => w2.ans = w.ans
        /\ (p = q.p /\ q.live /\ q.op # "exec") => w2.ans = a
    <3>1. /\ (p # q.p \/ ~q.live) => w2 = w
          /\ w2.pc = w.pc /\ w2.m = w.m /\ w2.todo = w.todo /\ w2.from = w.from
          /\ w2.target = w.target /\ w2.mode = w.mode
          /\ q.op = "exec" => w2.ans = w.ans
      BY <1>0, <2>1, <2>2, DeliverFields
    <3>2. q.live /\ q.op # "exec" => proc'[q.p].ans = a
      BY <1>0, DeliverFields
    <3> QED
      BY <2>2, <3>1, <3>2
  <2>6. At(w2) = At(w)
    BY <2>5 DEF At
  <2>7. CASE p # q.p \/ ~q.live \/ q.op = "exec"
    <3>1. w2.ans = w.ans
      BY <2>5, <2>7
    <3>2. Pulls(w2)'
      BY <2>4, <2>5, <2>6, <3>1 DEF Pulls
    <3> QED
      BY <2>2, <3>2, PullsThen
  <2>8. CASE p = q.p /\ q.live /\ q.op # "exec"
    <3>1. w2.ans = a /\ Awaits(w, s, q)
      BY <2>1, <2>5, <2>8
    <3>2. w.pc = q.op /\ At(w) = s /\ w.from = q.arg
      BY <3>1 DEF Awaits
    <3>3. Pulls(w2)'
      BY <2>4, <2>5, <2>6, <2>8, <3>1, <3>2 DEF Pulls
    <3> QED
      BY <2>2, <3>3, PullsThen
  <2> QED
    BY <2>7, <2>8
<1> QED
  BY <1>1, <1>2

(* The end of an execution is no answer to a read.                          *)
LEMMA ExecPulls ==
  ASSUME PullInv, Grows, NEW q, q.op = "exec", Touches(q)
  PROVE  \A p \in Procs : Pulls(proc[p])'
<1> TAKE p \in Procs
<1>0. RouterType /\ ShardType /\ proc \in [Procs -> ProcType]
  BY DEF PullInv, RouterType
<1>1. PICK w : w = proc[p]
  OBVIOUS
<1>2. PICK w2 : w2 = proc'[p]
  OBVIOUS
<1>3. w \in ProcType /\ Pulls(w)
  BY <1>0, <1>1 DEF PullInv
<1>4. Pulls(w)'
  BY <1>0, <1>3, PullsKept
<1>5. /\ w2.pc = w.pc /\ w2.m = w.m /\ w2.todo = w.todo /\ w2.from = w.from
      /\ w2.target = w.target /\ w2.mode = w.mode /\ w2.ans = w.ans
  BY <1>1, <1>2 DEF Touches
<1>6. At(w2) = At(w)
  BY <1>5 DEF At
<1>7. Pulls(w2)'
  BY <1>4, <1>5, <1>6 DEF Pulls
<1> QED
  BY <1>2, <1>7, PullsThen

(* A log is only extended.                                                  *)
LogExtends ==
  /\ log' \in [Shards -> Seq(Mutations)]
  /\ \A t \in Shards : /\ Len(log[t]) <= Len(log'[t])
                       /\ \A i \in 1..Len(log[t]) : log'[t][i] = log[t][i]

(* A shard that only appends lets every process keep what it knows.         *)
LEMMA ExtendsGrows ==
  ASSUME PullInv, LogExtends, UNCHANGED <<rec, cursor>>
  PROVE  Grows
<1>1. \A m \in Mutations : Forth(rec[m], rec'[m])
  BY SameRecords
<1>2. cursor' = cursor /\ cursor \in [Shards -> Nat]
  BY DEF PullInv, RouterType
<1>3. \A s \in Shards : cursor[s] <= cursor'[s]
  BY <1>2
<1> QED
  BY <1>1, <1>2, <1>3 DEF Grows, LogExtends

(* An unchanged log is an extended log.                                     *)
LEMMA SameLog ==
  ASSUME PullInv, UNCHANGED log
  PROVE  LogExtends
<1>1. log \in [Shards -> Seq(Mutations)] /\ log' = log
  BY DEF PullInv, ShardType
<1>2. \A t \in Shards : Len(log[t]) \in Nat
  BY <1>1
<1> QED
  BY <1>1, <1>2 DEF LogExtends

(* A step outside the Router's tables.                                      *)
LEMMA ShardKeeps ==
  ASSUME PullInv, UNCHANGED <<rec, cursor, stats>>, LogExtends, ShardType', CursorsInLog',
         proc' \in [Procs -> ProcType], \A p \in Procs : Pulls(proc[p])',
         net' \in [Shards -> Seq(ReqType)], \A t \in Shards : ReadsOrdered(t, net[t])'
  PROVE  PullInv'
<1>1. rec' = rec /\ cursor' = cursor /\ stats' = stats
  OBVIOUS
<1>2. RouterType'
  BY <1>1 DEF PullInv, RouterType
<1>3. (\A m \in Mutations : Shaped(rec[m], m))'
  BY <1>1 DEF PullInv, Shaped
<1>4. StatsExact'
  <2> SUFFICES ASSUME NEW s \in Shards, NEW m \in Mutations
               PROVE  stats'[s][m] = Cardinality({i \in 1..cursor'[s] : log'[s][i] = m})
    BY DEF StatsExact
  <2>1. stats[s][m] = Cardinality({i \in 1..cursor[s] : log[s][i] = m})
    BY DEF PullInv, StatsExact
  <2>2. cursor[s] \in Nat /\ cursor[s] <= Len(log[s]) /\ Len(log[s]) \in Nat
    <3>1. cursor \in [Shards -> Nat] /\ log \in [Shards -> Seq(Mutations)]
      BY DEF PullInv, RouterType, ShardType
    <3> QED
      BY <3>1 DEF PullInv, CursorsInLog
  <2>3. \A i \in 1..cursor[s] : log'[s][i] = log[s][i]
    BY <2>2 DEF LogExtends
  <2>4. {i \in 1..cursor[s] : log'[s][i] = m} = {i \in 1..cursor[s] : log[s][i] = m}
    BY <2>3
  <2> QED
    BY <1>1, <2>1, <2>4
<1> QED
  BY <1>2, <1>3, <1>4 DEF PullInv

(* The queue without its head.                                              *)
LEMMA TailThins ==
  ASSUME NEW n \in Seq(ReqType), n # <<>>
  PROVE  /\ Tail(n) \in Seq(ReqType)
         /\ Thins(n, Tail(n), [i \in 1..Len(Tail(n)) |-> i + 1], 1)
         /\ 1 \in 1..Len(n) /\ Head(n) = n[1] /\ n[1] \in ReqType
         /\ Len(n) \in Nat /\ Len(Tail(n)) = Len(n) - 1
         /\ \A i \in 1..Len(Tail(n)) : i + 1 \in 1..Len(n) /\ Tail(n)[i] = n[i + 1]
<1>1. /\ Tail(n) \in Seq(ReqType) /\ Len(Tail(n)) = Len(n) - 1 /\ Len(n) \in Nat /\ Len(n) > 0
      /\ \A i \in 1..Len(Tail(n)) : Tail(n)[i] = n[i + 1]
  OBVIOUS
<1>2. Head(n) = n[1] /\ n[1] \in ReqType /\ 1 \in 1..Len(n)
  BY <1>1
<1>3. PICK n2 : n2 = Tail(n)
  OBVIOUS
<1>4. PICK f : f = [i \in 1..Len(n2) |-> i + 1]
  OBVIOUS
<1>5. \A i \in 1..Len(n2) : f[i] = i + 1 /\ f[i] \in 1..Len(n) /\ n2[i] = n[f[i]] /\ f[i] # 1
  BY <1>1, <1>3, <1>4
<1>6. f \in [1..Len(n2) -> 1..Len(n)]
  BY <1>4, <1>5
<1>7. \A i, j \in 1..Len(n2) : i < j => f[i] < f[j]
  BY <1>5
<1>8. Thins(n, n2, f, 1)
  BY <1>5, <1>6, <1>7 DEF Thins
<1> QED
  BY <1>1, <1>2, <1>3, <1>4, <1>5, <1>8
(* What is known of the request at place k of a queue.                      *)
LEMMA QueuedFacts ==
  ASSUME PullInv, NEW s \in Shards, NEW k \in 1..Len(net[s]), NEW q, q = net[s][k]
  PROVE  /\ q \in ReqType /\ q.p \in Procs /\ q.m \in Mutations /\ q.arg \in Nat
         /\ (q.live /\ q.op # "exec") => Awaits(proc[q.p], s, q)
         /\ q.op = "ack" => q.arg <= cursor[s]
         /\ q.op = "list" => q.live /\ pruned[s] < q.arg
         /\ net[s] \in Seq(ReqType) /\ faults \in 0..MaxFaults
         /\ cursor[s] \in Nat /\ pruned[s] \in Nat /\ pruned[s] <= cursor[s]
         /\ cursor[s] <= Len(log[s]) /\ log[s] \in Seq(Mutations)
<1>1. net \in [Shards -> Seq(ReqType)] /\ ReadsOrdered(s, net[s]) /\ faults \in 0..MaxFaults
      /\ cursor \in [Shards -> Nat] /\ pruned \in [Shards -> Nat]
      /\ log \in [Shards -> Seq(Mutations)] /\ CursorsInLog
  BY DEF PullInv, RouterType, ShardType
<1>2. q \in ReqType
  BY <1>1
<1>3. q.p \in Procs /\ q.m \in Mutations /\ q.arg \in Nat /\ q.op \in Reads \cup {"exec"}
  BY <1>2 DEF ReqType
<1>4. /\ (q.live /\ q.op # "exec") => Awaits(proc[q.p], s, q)
      /\ q.op = "ack" => q.arg <= cursor[s]
      /\ q.op = "list" => q.live /\ pruned[s] < q.arg
  BY <1>1, <1>3 DEF ReadsOrdered, IsRead
<1> QED
  BY <1>1, <1>2, <1>3, <1>4 DEF CursorsInLog

(* A page is never empty and begins where it was asked for.                 *)
LEMMA PageAnswers ==
  ASSUME PullInv, NEW s \in Shards, NEW from \in Nat, pruned[s] < from, from <= Len(log[s]),
         NEW a, a = PageOf(s, from)
  PROVE  /\ a \in Answers /\ a.kind = "page"
         /\ a.first = from /\ from <= a.last /\ a.last <= Len(log[s])
<1>1. pruned[s] \in Nat /\ Len(log[s]) \in Nat /\ PageLimit \in Nat \ {0}
  <2>1. pruned \in [Shards -> Nat] /\ log \in [Shards -> Seq(Mutations)]
    BY DEF PullInv, ShardType
  <2> QED
    BY <2>1, SagaConstants
<1>2. Max({from, pruned[s] + 1}) = from
  BY <1>1, MaxOfTwo
<1>3. PICK last : last = Min({Len(log[s]), from + PageLimit - 1})
  OBVIOUS
<1>4. last \in Nat /\ from <= last /\ last <= Len(log[s])
  <2>1. from + PageLimit - 1 \in Nat
    BY <1>1
  <2>2. last = IF Len(log[s]) <= from + PageLimit - 1 THEN Len(log[s]) ELSE from + PageLimit - 1
    BY <1>1, <1>3, <2>1, MinOfTwo
  <2> QED
    BY <1>1, <2>2
<1>5. a = Answer("page", from, last)
  <2>1. PICK first : first = Max({from, pruned[s] + 1})
    OBVIOUS
  <2>2. PICK end : end = Min({Len(log[s]), first + PageLimit - 1})
    OBVIOUS
  <2>3. a = IF first > end THEN Answer("page", 1, 0) ELSE Answer("page", first, end)
    BY <2>1, <2>2 DEF PageOf
  <2>4. first = from
    BY <1>2, <2>1
  <2>5. end = last
    BY <1>3, <2>2, <2>4
  <2> QED
    BY <1>4, <2>3, <2>4, <2>5
<1> QED
  BY <1>4, <1>5 DEF Answer, Answers

(* PullInv through Serve.                                                   *)
LEMMA ServeKeeps ==
  ASSUME PullInv, NEW s \in Shards, Serve(s)
  PROVE  PullInv'
<1>0. net \in [Shards -> Seq(ReqType)] /\ net[s] # <<>>
  BY DEF Serve, PullInv, RouterType
<1>1. PICK n : n = net[s]
  OBVIOUS
<1>2. PICK n2 : n2 = Tail(n)
  OBVIOUS
<1>3. PICK f : f = [i \in 1..Len(n2) |-> i + 1]
  OBVIOUS
<1>4. /\ n \in Seq(ReqType) /\ n2 \in Seq(ReqType) /\ Thins(n, n2, f, 1) /\ 1 \in 1..Len(n)
      /\ Head(n) = n[1] /\ \A i \in 1..Len(n2) : i + 1 \in 1..Len(n) /\ n2[i] = n[i + 1]
  BY <1>0, <1>1, <1>2, <1>3, TailThins
<1>5. PICK q : q = n[1]
  OBVIOUS
<1>6. /\ q \in ReqType /\ q.p \in Procs /\ q.m \in Mutations /\ q.arg \in Nat
      /\ (q.live /\ q.op # "exec") => Awaits(proc[q.p], s, q)
      /\ q.op = "ack" => q.arg <= cursor[s]
      /\ q.op = "list" => q.live /\ pruned[s] < q.arg
      /\ cursor[s] \in Nat /\ pruned[s] \in Nat /\ pruned[s] <= cursor[s]
      /\ cursor[s] <= Len(log[s]) /\ log[s] \in Seq(Mutations)
  BY <1>1, <1>4, <1>5, QueuedFacts
<1>7. PICK a : a = CASE q.op = "list" -> PageOf(s, q.arg)
                     [] q.op = "ack" -> Answer("acked", 0, 0)
                     [] q.op = "fetch" /\ journal[s][q.m].kind = "entry" -> journal[s][q.m]
                     [] OTHER -> Answer("none", 0, 0)
  OBVIOUS
<1>8. /\ q.op # "exec" /\ net' = [net EXCEPT ![s] = n2]
      /\ pruned' = IF q.op = "ack" THEN [pruned EXCEPT ![s] = Acked(s, q.arg)] ELSE pruned
      /\ Deliver(q, s, a)
      /\ UNCHANGED <<rec, cursor, stats, journal, log, runs, applied, faults>>
  BY <1>1, <1>2, <1>4, <1>5, <1>7 DEF Serve, routerVars
<1>9. /\ a \in Answers
      /\ (q.op = "fetch" /\ a.kind = "entry") => a.last <= Len(log'[s])
      /\ (q.op = "list" /\ a.kind = "page") =>
           a.first = q.arg /\ q.arg <= a.last /\ a.last <= Len(log'[s])
  <2>1. CASE q.op = "list"
    <3>1. q.arg <= Len(log[s])
      <4>1. PICK w : w = proc[q.p]
        OBVIOUS
      <4>2. Awaits(w, s, q) /\ Pulls(w)
        BY <1>6, <2>1, <4>1 DEF PullInv
      <4> QED
        BY <2>1, <4>2 DEF Awaits, Pulls
    <3>2. a = PageOf(s, q.arg)
      BY <1>7, <2>1
    <3> QED
      BY <1>6, <1>8, <2>1, <3>1, <3>2, PageAnswers
  <2>2. CASE q.op = "ack"
    <3>1. a = Answer("acked", 0, 0)
      BY <1>7, <2>2
    <3> QED
      BY <2>2, <3>1 DEF Answer, Answers
  <2>3. CASE q.op = "fetch" /\ journal[s][q.m].kind = "entry"
    <3>1. a = journal[s][q.m]
      BY <1>7, <2>3
    <3>2. journal[s][q.m] \in Answers /\ journal[s][q.m].last <= Len(log[s])
      BY <1>6 DEF PullInv, ShardType, CursorsInLog
    <3> QED
      BY <1>8, <2>3, <3>1, <3>2
  <2>4. CASE q.op = "fetch" /\ journal[s][q.m].kind # "entry"
    <3>1. a = Answer("none", 0, 0)
      BY <1>7, <2>4
    <3> QED
      BY <2>4, <3>1 DEF Answer, Answers
  <2>5. q.op \in {"list", "ack", "fetch"}
    BY <1>6, <1>8 DEF ReqType, Reads
  <2> QED
    BY <2>1, <2>2, <2>3, <2>4, <2>5
<1>10. /\ pruned' \in [Shards -> Nat] /\ \A t \in Shards \ {s} : pruned'[t] = pruned[t]
       /\ pruned'[s] <= cursor[s]
       /\ pruned'[s] = pruned[s] \/ (q.op = "ack" /\ pruned'[s] = q.arg)
  <2>0. pruned \in [Shards -> Nat]
    BY DEF PullInv, ShardType
  <2>1. CASE q.op = "ack"
    <3>1. Acked(s, q.arg) = IF pruned[s] >= q.arg THEN pruned[s] ELSE q.arg
      BY <1>6, MaxOfTwo DEF Acked
    <3>2. PICK d : d = Acked(s, q.arg)
      OBVIOUS
    <3>3. d \in Nat /\ d <= cursor[s] /\ (d = pruned[s] \/ d = q.arg)
      BY <1>6, <2>1, <3>1, <3>2
    <3>4. pruned' = [pruned EXCEPT ![s] = d]
      BY <1>8, <2>1, <3>2
    <3>5. pruned'[s] = d /\ \A t \in Shards \ {s} : pruned'[t] = pruned[t]
      BY <2>0, <3>4
    <3>6. pruned' \in [Shards -> Nat]
      BY <2>0, <3>3, <3>4
    <3> QED
      BY <2>1, <3>3, <3>5, <3>6
  <2>2. CASE q.op # "ack"
    <3>1. pruned' = pruned
      BY <1>8, <2>2
    <3> QED
      BY <1>6, <2>0, <3>1
  <2> QED
    BY <2>1, <2>2
<1>11. \A i \in 1..Len(n2) : n2[i].op = "list" => pruned'[s] < n2[i].arg
  <2> TAKE i \in 1..Len(n2)
  <2>1. ReadsOrdered(s, n)
    BY <1>1 DEF PullInv
  <2>2. PICK j : j = i + 1
    OBVIOUS
  <2>3. j \in 1..Len(n) /\ n2[i] = n[j] /\ 1 \in 1..(j - 1)
    BY <1>4, <2>2
  <2>4. n[j].op = "list" => pruned[s] < n[j].arg /\ (q.op = "ack" => q.arg < n[j].arg)
    BY <1>5, <2>1, <2>3 DEF ReadsOrdered
  <2> QED
    BY <1>10, <2>3, <2>4
<1>12. LogExtends /\ Grows
  BY <1>8, SameLog, ExtendsGrows
<1>13. proc' \in [Procs -> ProcType] /\ \A p \in Procs : Pulls(proc[p])'
  BY <1>6, <1>8, <1>9, <1>12, AnswerPulls
<1>14. \A t \in Shards : ReadsOrdered(t, net[t])'
  <2>1. Touches(q)
    BY <1>6, <1>8, <1>9, DeliverTouches DEF PullInv, RouterType
  <2> QED
    BY <1>1, <1>4, <1>5, <1>8, <1>10, <1>11, <2>1, AnswerReads
<1>15. net' \in [Shards -> Seq(ReqType)]
  BY <1>0, <1>4, <1>8
<1>16. ShardType'
  BY <1>8, <1>10 DEF PullInv, ShardType
<1>17. CursorsInLog'
  <2>1. CursorsInLog /\ cursor' = cursor /\ log' = log /\ journal' = journal
    BY <1>8 DEF PullInv
  <2>2. \A t \in Shards : pruned'[t] <= cursor'[t]
    BY <1>10, <2>1 DEF CursorsInLog
  <2> QED
    BY <2>1, <2>2 DEF CursorsInLog
<1> QED
  BY <1>8, <1>12, <1>13, <1>14, <1>15, <1>16, <1>17, ShardKeeps
(* Queues whose places change and whose log and cursors do not.             *)
LEMMA SameCursors ==
  ASSUME PullInv, UNCHANGED <<cursor, journal, log, pruned>>
  PROVE  CursorsInLog'
<1>1. CursorsInLog /\ cursor' = cursor /\ log' = log /\ journal' = journal /\ pruned' = pruned
  BY DEF PullInv
<1> QED
  BY <1>1 DEF CursorsInLog

(* A fault spends the budget and leaves the Router alone.                   *)
LEMMA FaultCounts ==
  ASSUME PullInv, Fault
  PROVE  faults' \in 0..MaxFaults /\ UNCHANGED <<rec, cursor, stats>>
BY SagaConstants DEF PullInv, ShardType, Fault, routerVars

(* A request fails in its queue: it is dropped, or left to be executed.     *)
LEMMA QueueFaultKeeps ==
  ASSUME PullInv, NEW s \in Shards, NEW k \in 1..Len(net[s]), Fault, Deliver(net[s][k], s, Failure),
         UNCHANGED shardVars, NEW n2 \in Seq(ReqType), net' = [net EXCEPT ![s] = n2],
         NEW f, Thins(net[s], n2, f, k)
  PROVE  PullInv'
<1>0. /\ faults' \in 0..MaxFaults /\ rec' = rec /\ cursor' = cursor /\ stats' = stats
      /\ journal' = journal /\ log' = log /\ pruned' = pruned /\ runs' = runs /\ applied' = applied
  BY FaultCounts DEF shardVars
<1>1. net \in [Shards -> Seq(ReqType)] /\ proc \in [Procs -> ProcType]
  BY DEF PullInv, RouterType
<1>2. PICK q : q = net[s][k]
  OBVIOUS
<1>3. q \in ReqType /\ ((q.live /\ q.op # "exec") => Awaits(proc[q.p], s, q))
  BY <1>2, QueuedFacts
<1>4. Failure \in Answers /\ Failure.kind = "failed"
  BY WaitingType DEF Failure
<1>5. Grows /\ LogExtends
  BY <1>0, SameLog, ExtendsGrows
<1>6. proc' \in [Procs -> ProcType] /\ \A p \in Procs : Pulls(proc[p])'
  BY <1>2, <1>3, <1>4, <1>5, AnswerPulls
<1>7. Touches(q)
  BY <1>1, <1>2, <1>3, <1>4, DeliverTouches
<1>8. \A i \in 1..Len(n2) : n2[i].op = "list" => pruned'[s] < n2[i].arg
  <2> TAKE i \in 1..Len(n2)
  <2>1. PICK n : n = net[s]
    OBVIOUS
  <2>2. ReadsOrdered(s, n) /\ Thins(n, n2, f, k)
    BY <2>1 DEF PullInv
  <2>3. f[i] \in 1..Len(n) /\ n2[i].op = n[f[i]].op /\ n2[i].arg = n[f[i]].arg
    BY <2>2 DEF Thins
  <2> QED
    BY <1>0, <2>2, <2>3 DEF ReadsOrdered
<1>9. \A t \in Shards : ReadsOrdered(t, net[t])'
  BY <1>0, <1>2, <1>7, <1>8, AnswerReads
<1>10. ShardType'
  BY <1>0 DEF PullInv, ShardType
<1>11. CursorsInLog'
  BY <1>0, SameCursors
<1>12. net' \in [Shards -> Seq(ReqType)]
  BY <1>1
<1> QED
  BY <1>0, <1>5, <1>6, <1>9, <1>10, <1>11, <1>12, ShardKeeps

(* The queue without the request that is refused.                           *)
LEMMA RejectThins ==
  ASSUME PullInv, NEW s \in Shards, NEW k \in 1..Len(net[s]), Reject(s, k)
  PROVE  /\ Fault /\ Deliver(net[s][k], s, Failure) /\ UNCHANGED shardVars
         /\ \E n2 \in Seq(ReqType) : \E f :
              net' = [net EXCEPT ![s] = n2] /\ Thins(net[s], n2, f, k)
<1>1. PICK n : n = net[s]
  OBVIOUS
<1>2. n \in Seq(ReqType) /\ k \in 1..Len(n) /\ Len(n) \in Nat
  BY <1>1 DEF PullInv, RouterType
<1>3. PICK n2 : n2 = RemoveAt(n, k)
  OBVIOUS
<1>4. PICK f : f = [i \in 1..Len(n2) |-> IF i < k THEN i ELSE i + 1]
  OBVIOUS
<1>5. /\ n2 \in Seq(ReqType) /\ Len(n2) = Len(n) - 1
      /\ \A i \in 1..Len(n2) : n2[i] = IF i < k THEN n[i] ELSE n[i + 1]
  <2>1. PICK x : x = SubSeq(n, 1, k - 1)
    OBVIOUS
  <2>2. PICK y : y = SubSeq(n, k + 1, Len(n))
    OBVIOUS
  <2>3. /\ x \in Seq(ReqType) /\ Len(x) = k - 1
        /\ \A i \in 1..Len(x) : x[i] = n[i]
    BY <1>2, <2>1, SubSeqProperties
  <2>4. /\ y \in Seq(ReqType) /\ Len(y) = Len(n) - k
        /\ \A i \in 1..Len(y) : y[i] = n[k + i]
    <3>1. \A i \in (k + 1)..Len(n) : n[i] \in ReqType
      BY <1>2
    <3>2. /\ y \in Seq(ReqType)
          /\ Len(y) = IF k + 1 <= Len(n) THEN Len(n) - (k + 1) + 1 ELSE 0
          /\ \A i \in 1..(Len(n) - (k + 1) + 1) : y[i] = n[k + 1 + i - 1]
      BY <1>2, <2>2, <3>1, SubSeqProperties
    <3>3. Len(y) = Len(n) - k
      BY <1>2, <3>2
    <3>4. ASSUME NEW i \in 1..Len(y) PROVE y[i] = n[k + i]
      <4>1. i \in 1..(Len(n) - (k + 1) + 1) /\ k + 1 + i - 1 = k + i
        BY <1>2, <3>3
      <4> QED
        BY <3>2, <4>1
    <3> QED
      BY <3>2, <3>3, <3>4
  <2>5. n2 = x \o y
    BY <1>3, <2>1, <2>2 DEF RemoveAt
  <2>6. /\ n2 \in Seq(ReqType) /\ Len(n2) = Len(x) + Len(y)
        /\ \A i \in 1..(Len(x) + Len(y)) : n2[i] = IF i <= Len(x) THEN x[i] ELSE y[i - Len(x)]
    BY <2>3, <2>4, <2>5, ConcatProperties
  <2>7. Len(n2) = Len(n) - 1
    BY <1>2, <2>3, <2>4, <2>6
  <2>8. ASSUME NEW i \in 1..Len(n2) PROVE n2[i] = IF i < k THEN n[i] ELSE n[i + 1]
    <3>1. CASE i < k
      BY <1>2, <2>3, <2>6, <2>8, <3>1
    <3>2. CASE ~ (i < k)
      <4>1. n2[i] = y[i - Len(x)] /\ i - Len(x) \in 1..Len(y)
        BY <1>2, <2>3, <2>4, <2>6, <2>8, <3>2
      <4> QED
        BY <1>2, <2>3, <2>4, <3>2, <4>1
    <3> QED
      BY <3>1, <3>2
  <2> QED
    BY <2>6, <2>7, <2>8
<1>6. Thins(n, n2, f, k)
  <2>1. \A i \in 1..Len(n2) : f[i] \in 1..Len(n) /\ f[i] # k /\ n2[i] = n[f[i]]
    BY <1>2, <1>4, <1>5
  <2>2. f \in [1..Len(n2) -> 1..Len(n)]
    BY <1>4, <2>1
  <2>3. \A i, j \in 1..Len(n2) : i < j => f[i] < f[j]
    BY <1>2, <1>4
  <2> QED
    BY <2>1, <2>2, <2>3 DEF Thins
<1>7. /\ Fault /\ net' = [net EXCEPT ![s] = n2] /\ Deliver(net[s][k], s, Failure)
      /\ UNCHANGED shardVars
  BY <1>1, <1>3 DEF Reject
<1> QED
  BY <1>1, <1>5, <1>6, <1>7

(* The queue with the request that is awaited no more.                      *)
LEMMA TimeoutThins ==
  ASSUME PullInv, NEW s \in Shards, NEW k \in 1..Len(net[s]), Timeout(s, k)
  PROVE  /\ Fault /\ Deliver(net[s][k], s, Failure) /\ UNCHANGED shardVars
         /\ \E n2 \in Seq(ReqType) : \E f :
              net' = [net EXCEPT ![s] = n2] /\ Thins(net[s], n2, f, k)
<1>1. PICK n : n = net[s]
  OBVIOUS
<1>2. n \in Seq(ReqType) /\ k \in 1..Len(n) /\ Len(n) \in Nat
  BY <1>1 DEF PullInv, RouterType
<1>3. PICK q : q = [n[k] EXCEPT !.live = FALSE]
  OBVIOUS
<1>4. PICK n2 : n2 = [n EXCEPT ![k] = q]
  OBVIOUS
<1>5. PICK f : f = [i \in 1..Len(n2) |-> i]
  OBVIOUS
<1>6. /\ n[k].op \in {"exec", "ack"} /\ Fault /\ net' = [net EXCEPT ![s] = n2]
      /\ Deliver(net[s][k], s, Failure) /\ UNCHANGED shardVars
  BY <1>1, <1>3, <1>4 DEF Timeout
<1>7. n[k] \in ReqType
  BY <1>2
<1>8. /\ q \in ReqType /\ ~q.live /\ q.p = n[k].p /\ q.op = n[k].op /\ q.m = n[k].m
      /\ q.arg = n[k].arg
  BY <1>3, <1>7 DEF ReqType
<1>9. /\ n2 \in Seq(ReqType) /\ Len(n2) = Len(n) /\ n2[k] = q
      /\ \A i \in 1..Len(n) : i # k => n2[i] = n[i]
  BY <1>2, <1>4, <1>8
<1>10. Thins(n, n2, f, k)
  <2>1. \A i \in 1..Len(n2) : f[i] = i
    BY <1>5
  <2>2. f \in [1..Len(n2) -> 1..Len(n)]
    BY <1>5, <1>9
  <2> QED
    BY <1>6, <1>8, <1>9, <2>1, <2>2 DEF Thins
<1> QED
  BY <1>1, <1>6, <1>9, <1>10

(* PullInv through RequestFails.                                            *)
LEMMA RequestFailsKeeps ==
  ASSUME PullInv, NEW s \in Shards, NEW k \in 1..Len(net[s]), Reject(s, k) \/ Timeout(s, k)
  PROVE  PullInv'
<1>1. /\ Fault /\ Deliver(net[s][k], s, Failure) /\ UNCHANGED shardVars
      /\ \E n2 \in Seq(ReqType) : \E f :
           net' = [net EXCEPT ![s] = n2] /\ Thins(net[s], n2, f, k)
  BY RejectThins, TimeoutThins
<1> QED
  BY <1>1, QueueFaultKeeps

(* The processes that await a read, when only an execution ends.            *)
LEMMA ExecReads ==
  ASSUME PullInv, NEW q, q.op = "exec", Touches(q), UNCHANGED <<net, cursor, pruned>>
  PROVE  net' \in [Shards -> Seq(ReqType)] /\ \A t \in Shards : ReadsOrdered(t, net[t])'
<1>0. /\ net \in [Shards -> Seq(ReqType)] /\ net' = net
      /\ cursor \in [Shards -> Nat] /\ cursor' = cursor /\ pruned' = pruned
  BY DEF PullInv, RouterType
<1>1. ASSUME NEW t \in Shards PROVE ReadsOrdered(t, net[t])'
  <2>1. PICK n : n = net[t]
    OBVIOUS
  <2>2. n \in Seq(ReqType) /\ net'[t] = n /\ ReadsOrdered(t, n)
    BY <1>0, <2>1 DEF PullInv
  <2>3. ASSUME NEW i \in 1..Len(n), IsRead(n[i]) PROVE Awaits(proc'[n[i].p], t, n[i])
    <3>1. n[i] \in ReqType /\ Awaits(proc[n[i].p], t, n[i])
      BY <2>2, <2>3 DEF ReadsOrdered
    <3>2. PICK p : p = n[i].p
      OBVIOUS
    <3>3. p \in Procs
      BY <3>1, <3>2 DEF ReqType
    <3>4. /\ proc'[p].pc = proc[p].pc /\ proc'[p].m = proc[p].m /\ proc'[p].todo = proc[p].todo
          /\ proc'[p].from = proc[p].from /\ proc'[p].ans = proc[p].ans
      BY <3>3 DEF Touches
    <3> QED
      BY <3>1, <3>2, <3>4 DEF Awaits, At
  <2>4. \A i \in 1..Len(n) : n[i].op = "list" => pruned'[t] < n[i].arg
    BY <1>0, <2>2 DEF ReadsOrdered
  <2>5. cursor'[t] \in Nat /\ cursor' \in [Shards -> Nat] /\ cursor[t] <= cursor'[t]
    BY <1>0
  <2>6. ReadsOrdered(t, n)'
    BY <1>0, <2>2, <2>3, <2>4, <2>5, ReadsKept
  <2> QED
    BY <2>2, <2>6, ReadsThen
<1> QED
  BY <1>0, <1>1

(* A suspended execution is an execution request.                           *)
LEMMA RunFacts ==
  ASSUME PullInv, NEW s \in Shards, NEW q \in runs[s]
  PROVE  /\ q \in ReqType /\ q.op = "exec" /\ q.m \in Mutations /\ q.p \in Procs
         /\ q.arg \in Nat /\ runs \in [Shards -> SUBSET ReqType]
         /\ proc \in [Procs -> ProcType]
         /\ \A t \in Shards : \A x \in runs[t] : x.op = "exec"
<1>1. /\ runs \in [Shards -> SUBSET ReqType] /\ \A t \in Shards : \A x \in runs[t] : x.op = "exec"
      /\ proc \in [Procs -> ProcType]
  BY DEF PullInv, ShardType, RouterType
<1>2. q \in ReqType /\ q.op = "exec"
  BY <1>1
<1> QED
  BY <1>1, <1>2 DEF ReqType

(* PullInv through RunFault.                                                *)
LEMMA RunFaultKeeps ==
  ASSUME PullInv, NEW s \in Shards, NEW q \in runs[s], Fault, Deliver(q, s, Failure),
         NEW R \in SUBSET ReqType, \A x \in R : x.op = "exec",
         runs' = [runs EXCEPT ![s] = R], UNCHANGED <<net, journal, log, pruned, applied>>
  PROVE  PullInv'
<1>0. /\ faults' \in 0..MaxFaults /\ rec' = rec /\ cursor' = cursor /\ stats' = stats
      /\ journal' = journal /\ log' = log /\ pruned' = pruned /\ applied' = applied /\ net' = net
  BY FaultCounts
<1>1. /\ q \in ReqType /\ q.op = "exec" /\ runs \in [Shards -> SUBSET ReqType]
      /\ proc \in [Procs -> ProcType] /\ \A t \in Shards : \A x \in runs[t] : x.op = "exec"
  BY RunFacts
<1>2. proc' \in [Procs -> ProcType] /\ Touches(q)
  BY <1>1, WaitingType, DeliverTouches
<1>3. Grows /\ LogExtends
  BY <1>0, SameLog, ExtendsGrows
<1>4. /\ runs' \in [Shards -> SUBSET ReqType]
      /\ \A t \in Shards : \A x \in runs'[t] : x.op = "exec"
  BY <1>1
<1>5. ShardType'
  BY <1>0, <1>4 DEF PullInv, ShardType
<1>6. \A p \in Procs : Pulls(proc[p])'
  BY <1>1, <1>2, <1>3, ExecPulls
<1>7. net' \in [Shards -> Seq(ReqType)] /\ \A t \in Shards : ReadsOrdered(t, net[t])'
  BY <1>0, <1>1, <1>2, ExecReads
<1>8. CursorsInLog'
  BY <1>0, SameCursors
<1> QED
  BY <1>0, <1>2, <1>3, <1>5, <1>6, <1>7, <1>8, ShardKeeps

(* PullInv through RunTimeout.                                              *)
LEMMA RunTimeoutKeeps ==
  ASSUME PullInv, NEW s \in Shards, NEW q \in runs[s], RunTimeout(s, q)
  PROVE  PullInv'
<1>1. PICK x : x = [q EXCEPT !.live = FALSE]
  OBVIOUS
<1>2. PICK R : R = (runs[s] \ {q}) \cup {x}
  OBVIOUS
<1>3. /\ q \in ReqType /\ q.op = "exec" /\ runs \in [Shards -> SUBSET ReqType]
      /\ \A t \in Shards : \A y \in runs[t] : y.op = "exec"
  BY RunFacts
<1>4. x \in ReqType /\ x.op = "exec"
  BY <1>1, <1>3 DEF ReqType
<1>5. R \in SUBSET ReqType /\ \A y \in R : y.op = "exec"
  BY <1>2, <1>3, <1>4
<1>6. /\ Fault /\ Deliver(q, s, Failure) /\ runs' = [runs EXCEPT ![s] = R]
      /\ UNCHANGED <<net, journal, log, pruned, applied>>
  BY <1>1, <1>2 DEF RunTimeout
<1> QED
  BY <1>5, <1>6, RunFaultKeeps

(* PullInv through RunFails.                                                *)
LEMMA RunFailsKeeps ==
  ASSUME PullInv, NEW s \in Shards, NEW q \in runs[s], RunFails(s, q)
  PROVE  PullInv'
<1>1. PICK R : R = runs[s] \ {q}
  OBVIOUS
<1>2. /\ runs \in [Shards -> SUBSET ReqType]
      /\ \A t \in Shards : \A y \in runs[t] : y.op = "exec"
  BY RunFacts
<1>3. R \in SUBSET ReqType /\ \A y \in R : y.op = "exec"
  BY <1>1, <1>2
<1>4. /\ Fault /\ Deliver(q, s, Failure) /\ runs' = [runs EXCEPT ![s] = R]
      /\ UNCHANGED <<net, journal, log, pruned, applied>>
  BY <1>1 DEF RunFails
<1> QED
  BY <1>3, <1>4, RunFaultKeeps

(* Plans are applied: the log is extended and nothing of it is lost.        *)
LEMMA AppliesFacts ==
  ASSUME PullInv, NEW s \in Shards, NEW m \in Mutations, NEW i \in Nat, NEW j \in Nat, i <= j + 1,
         Applies(s, m, i, j)
  PROVE  /\ LogExtends
         /\ applied' \in [Shards -> [Mutations -> [1..Plans -> Nat]]]
         /\ Len(log'[s]) \in Nat /\ \A t \in Shards \ {s} : log'[t] = log[t]
<1>0. /\ log \in [Shards -> Seq(Mutations)]
      /\ applied \in [Shards -> [Mutations -> [1..Plans -> Nat]]]
  BY DEF PullInv, ShardType
<1>1. PICK add : add = [k \in 1..(j - i + 1) |-> m]
  OBVIOUS
<1>2. add \in Seq(Mutations)
  <2>1. j - i + 1 \in Nat
    OBVIOUS
  <2>2. add \in [1..(j - i + 1) -> Mutations]
    BY <1>1
  <2> QED
    BY <2>1, <2>2
<1>3. PICK l : l = log[s] \o add
  OBVIOUS
<1>4. log' = [log EXCEPT ![s] = l]
  BY <1>1, <1>3 DEF Applies
<1>5. /\ l \in Seq(Mutations) /\ Len(l) = Len(log[s]) + Len(add)
      /\ Len(log[s]) \in Nat /\ Len(add) \in Nat
      /\ \A k \in 1..Len(log[s]) : l[k] = log[s][k]
  <2>1. log[s] \in Seq(Mutations) /\ Len(log[s]) \in Nat /\ Len(add) \in Nat
    BY <1>0, <1>2
  <2>2. /\ l \in Seq(Mutations) /\ Len(l) = Len(log[s]) + Len(add)
        /\ \A k \in 1..(Len(log[s]) + Len(add)) :
             l[k] = IF k <= Len(log[s]) THEN log[s][k] ELSE add[k - Len(log[s])]
    BY <1>2, <1>3, <2>1, ConcatProperties
  <2> QED
    BY <2>1, <2>2
<1>6. log'[s] = l /\ \A t \in Shards \ {s} : log'[t] = log[t]
  BY <1>0, <1>4
<1>7. LogExtends
  <2>1. log' \in [Shards -> Seq(Mutations)]
    BY <1>0, <1>4, <1>5
  <2>2. ASSUME NEW t \in Shards
        PROVE  Len(log[t]) <= Len(log'[t]) /\ \A k \in 1..Len(log[t]) : log'[t][k] = log[t][k]
    <3>1. CASE t = s
      BY <1>5, <1>6, <3>1
    <3>2. CASE t # s
      <4>1. Len(log[t]) \in Nat
        BY <1>0
      <4> QED
        BY <1>6, <3>2, <4>1
    <3> QED
      BY <3>1, <3>2
  <2> QED
    BY <2>1, <2>2 DEF LogExtends
<1>8. applied' \in [Shards -> [Mutations -> [1..Plans -> Nat]]]
  <2>1. PICK g : g = [k \in 1..Plans |-> IF k \in i..j THEN applied[s][m][k] + 1 ELSE applied[s][m][k]]
    OBVIOUS
  <2>2. g \in [1..Plans -> Nat]
    <3>1. \A k \in 1..Plans : applied[s][m][k] \in Nat
      BY <1>0
    <3>2. \A k \in 1..Plans :
            (IF k \in i..j THEN applied[s][m][k] + 1 ELSE applied[s][m][k]) \in Nat
      BY <3>1
    <3> QED
      BY <2>1, <3>2
  <2>3. applied' = [applied EXCEPT ![s] = [applied[s] EXCEPT ![m] = g]]
    BY <1>0, <2>1 DEF Applies
  <2> QED
    BY <1>0, <2>2, <2>3
<1> QED
  BY <1>5, <1>6, <1>7, <1>8
(* The entry of a completed execution, whose last sequence is the log's.    *)
LEMMA CompleteFacts ==
  ASSUME PullInv, NEW s \in Shards, NEW q \in ReqType, LogExtends, Complete(s, q),
         UNCHANGED <<cursor, pruned>>
  PROVE  /\ journal' \in [Shards -> [Mutations -> Answers]]
         /\ CursorsInLog'
         /\ \E a \in Answers : Deliver(q, s, a)
         /\ \E n \in Counts :
              /\ journal' = [journal EXCEPT ![s] =
                               [journal[s] EXCEPT ![q.m] = Answer("entry", n, Len(log'[s]))]]
              /\ Deliver(q, s, Answer("ok", n, 0))
<1>0. /\ journal \in [Shards -> [Mutations -> Answers]] /\ q.m \in Mutations
      /\ log \in [Shards -> Seq(Mutations)] /\ log' \in [Shards -> Seq(Mutations)]
  BY DEF PullInv, ShardType, ReqType, LogExtends
<1>1. PICK n \in Counts :
        /\ journal' = [journal EXCEPT ![s][q.m] = Answer("entry", n, Len(log'[s]))]
        /\ Deliver(q, s, Answer("ok", n, 0))
  BY DEF Complete
<1>2. PICK e : e = Answer("entry", n, Len(log'[s]))
  OBVIOUS
<1>3. n \in Nat /\ Len(log'[s]) \in Nat
  BY <1>0, SagaConstants
<1>4. e \in Answers /\ e.last = Len(log'[s]) /\ Answer("ok", n, 0) \in Answers
  BY <1>2, <1>3 DEF Answer, Answers
<1>5. journal' = [journal EXCEPT ![s] = [journal[s] EXCEPT ![q.m] = e]]
  BY <1>0, <1>1, <1>2
<1>6. journal' \in [Shards -> [Mutations -> Answers]]
  BY <1>0, <1>4, <1>5
<1>7. CursorsInLog'
  <2>1. CursorsInLog /\ cursor' = cursor /\ pruned' = pruned /\ cursor \in [Shards -> Nat]
    BY DEF PullInv, RouterType
  <2>2. \A t \in Shards : pruned'[t] <= cursor'[t]
    BY <2>1 DEF CursorsInLog
  <2>3. ASSUME NEW t \in Shards PROVE cursor'[t] <= Len(log'[t])
    <3>1. cursor[t] \in Nat /\ Len(log[t]) \in Nat /\ Len(log'[t]) \in Nat
      BY <1>0, <2>1
    <3>2. cursor[t] <= Len(log[t]) /\ Len(log[t]) <= Len(log'[t])
      BY <2>1 DEF CursorsInLog, LogExtends
    <3> QED
      BY <2>1, <3>1, <3>2
  <2>4. ASSUME NEW t \in Shards, NEW m \in Mutations PROVE journal'[t][m].last <= Len(log'[t])
    <3>1. CASE t = s /\ m = q.m
      <4>1. journal'[t][m] = e
        BY <1>0, <1>5, <3>1
      <4> QED
        BY <1>3, <1>4, <3>1, <4>1
    <3>2. CASE ~ (t = s /\ m = q.m)
      <4>1. journal'[t][m] = journal[t][m]
        BY <1>0, <1>5, <3>2
      <4>2. journal[t][m] \in Answers /\ Len(log[t]) \in Nat /\ Len(log'[t]) \in Nat
        BY <1>0
      <4>3. journal[t][m].last \in Nat
        BY <4>2 DEF Answers
      <4>4. journal[t][m].last <= Len(log[t]) /\ Len(log[t]) <= Len(log'[t])
        BY <2>1 DEF CursorsInLog, LogExtends
      <4> QED
        BY <4>1, <4>2, <4>3, <4>4
    <3> QED
      BY <3>1, <3>2
  <2> QED
    BY <2>2, <2>3, <2>4 DEF CursorsInLog
<1> QED
  BY <1>1, <1>2, <1>4, <1>5, <1>6, <1>7

(* PullInv through Execute.                                                 *)
LEMMA ExecuteKeeps ==
  ASSUME PullInv, NEW s \in Shards, Execute(s)
  PROVE  PullInv'
<1>0. net \in [Shards -> Seq(ReqType)] /\ net[s] # <<>> /\ proc \in [Procs -> ProcType]
  BY DEF Execute, PullInv, RouterType
<1>1. PICK n : n = net[s]
  OBVIOUS
<1>2. PICK n2 : n2 = Tail(n)
  OBVIOUS
<1>3. PICK f : f = [i \in 1..Len(n2) |-> i + 1]
  OBVIOUS
<1>4. /\ n \in Seq(ReqType) /\ n2 \in Seq(ReqType) /\ Thins(n, n2, f, 1) /\ 1 \in 1..Len(n)
      /\ Head(n) = n[1] /\ \A i \in 1..Len(n2) : i + 1 \in 1..Len(n) /\ n2[i] = n[i + 1]
  BY <1>0, <1>1, <1>2, <1>3, TailThins
<1>5. PICK q : q = n[1]
  OBVIOUS
<1>6. q \in ReqType /\ q.p \in Procs /\ q.m \in Mutations /\ faults \in 0..MaxFaults
  BY <1>1, <1>4, <1>5, QueuedFacts
<1>7. /\ q.op = "exec" /\ net' = [net EXCEPT ![s] = n2]
      /\ rec' = rec /\ cursor' = cursor /\ stats' = stats /\ pruned' = pruned /\ faults' = faults
  BY <1>1, <1>2, <1>4, <1>5 DEF Execute, routerVars
<1>8. net' \in [Shards -> Seq(ReqType)]
  BY <1>0, <1>4, <1>7
<1>9. ASSUME proc' \in [Procs -> ProcType], Touches(q), LogExtends, ShardType', CursorsInLog'
      PROVE  PullInv'
  <2>1. Grows
    BY <1>7, <1>9, ExtendsGrows
  <2>2. \A p \in Procs : Pulls(proc[p])'
    BY <1>7, <1>9, <2>1, ExecPulls
  <2>3. \A i \in 1..Len(n2) : n2[i].op = "list" => pruned'[s] < n2[i].arg
    <3> TAKE i \in 1..Len(n2)
    <3>1. ReadsOrdered(s, n) /\ i + 1 \in 1..Len(n) /\ n2[i] = n[i + 1]
      BY <1>1, <1>4 DEF PullInv
    <3> QED
      BY <1>7, <3>1 DEF ReadsOrdered
  <2>4. \A t \in Shards : ReadsOrdered(t, net[t])'
    BY <1>1, <1>4, <1>5, <1>7, <1>9, <2>3, AnswerReads
  <2> QED
    BY <1>7, <1>8, <1>9, <2>2, <2>4, ShardKeeps
<1>10. CASE /\ Replays(s, q.m) /\ Deliver(q, s, Answer("ok", journal[s][q.m].first, 0))
            /\ UNCHANGED <<journal, log, runs, applied>>
  <2>1. PICK a : a = Answer("ok", journal[s][q.m].first, 0)
    OBVIOUS
  <2>2. journal[s][q.m] \in Answers
    BY <1>6 DEF PullInv, ShardType
  <2>3. a \in Answers
    BY <2>1, <2>2 DEF Answer, Answers
  <2>4. proc' \in [Procs -> ProcType] /\ Touches(q)
    BY <1>0, <1>6, <1>10, <2>1, <2>3, DeliverTouches
  <2>5. LogExtends /\ CursorsInLog'
    BY <1>7, <1>10, SameLog, SameCursors
  <2>6. ShardType'
    BY <1>7, <1>10 DEF PullInv, ShardType
  <2> QED
    BY <1>9, <2>4, <2>5, <2>6
<1>11. CASE Applies(s, q.m, 1, Plans) /\ Complete(s, q) /\ UNCHANGED runs
  <2>1. LogExtends /\ applied' \in [Shards -> [Mutations -> [1..Plans -> Nat]]]
    <3>1. Plans \in Nat /\ 1 \in Nat /\ 1 <= Plans + 1
      BY SagaConstants
    <3> QED
      BY <1>6, <1>11, <3>1, AppliesFacts
  <2>2. /\ journal' \in [Shards -> [Mutations -> Answers]] /\ CursorsInLog'
        /\ \E a \in Answers : Deliver(q, s, a)
    BY <1>6, <1>7, <1>11, <2>1, CompleteFacts
  <2>3. proc' \in [Procs -> ProcType] /\ Touches(q)
    BY <1>0, <1>6, <2>2, DeliverTouches
  <2>4. ShardType'
    BY <1>7, <1>11, <2>1, <2>2 DEF PullInv, ShardType, LogExtends
  <2> QED
    BY <1>9, <2>1, <2>2, <2>3, <2>4
<1>12. CASE /\ runs' = [runs EXCEPT ![s] = @ \cup {[q EXCEPT !.arg = 1]}]
            /\ UNCHANGED <<proc, journal, log, applied>>
  <2>1. PICK x : x = [q EXCEPT !.arg = 1]
    OBVIOUS
  <2>2. x \in ReqType /\ x.op = "exec"
    BY <1>6, <1>7, <2>1 DEF ReqType
  <2>3. Touches(q)
    BY <1>12 DEF Touches
  <2>4. LogExtends /\ CursorsInLog'
    BY <1>7, <1>12, SameLog, SameCursors
  <2>5. runs' = [runs EXCEPT ![s] = runs[s] \cup {x}]
    BY <1>12, <2>1
  <2>6. /\ runs \in [Shards -> SUBSET ReqType]
        /\ \A t \in Shards : \A y \in runs[t] : y.op = "exec"
    BY DEF PullInv, ShardType
  <2>7. /\ runs' \in [Shards -> SUBSET ReqType]
        /\ \A t \in Shards : \A y \in runs'[t] : y.op = "exec"
    BY <2>2, <2>5, <2>6
  <2>8. ShardType'
    BY <1>7, <1>12, <2>7 DEF PullInv, ShardType
  <2> QED
    BY <1>0, <1>9, <1>12, <2>3, <2>4, <2>8
<1> QED
  BY <1>1, <1>4, <1>5, <1>10, <1>11, <1>12 DEF Execute

(* PullInv through Resume.                                                  *)
LEMMA ResumeKeeps ==
  ASSUME PullInv, NEW s \in Shards, NEW q \in runs[s], Resume(s, q)
  PROVE  PullInv'
<1>0. /\ q \in ReqType /\ q.op = "exec" /\ q.m \in Mutations /\ q.p \in Procs
      /\ q.arg \in Nat /\ runs \in [Shards -> SUBSET ReqType]
      /\ proc \in [Procs -> ProcType]
      /\ \A t \in Shards : \A x \in runs[t] : x.op = "exec"
  BY RunFacts
<1>1. /\ Applies(s, q.m, q.arg, q.arg) /\ rec' = rec /\ cursor' = cursor /\ stats' = stats
      /\ net' = net /\ pruned' = pruned /\ faults' = faults
  BY DEF Resume, routerVars
<1>2. LogExtends /\ applied' \in [Shards -> [Mutations -> [1..Plans -> Nat]]]
  BY <1>0, <1>1, AppliesFacts
<1>3. Grows
  BY <1>1, <1>2, ExtendsGrows
<1>4. ASSUME NEW R \in SUBSET ReqType, \A x \in R : x.op = "exec", runs' = [runs EXCEPT ![s] = R],
             proc' \in [Procs -> ProcType], Touches(q), CursorsInLog',
             journal' \in [Shards -> [Mutations -> Answers]]
      PROVE  PullInv'
  <2>1. /\ runs' \in [Shards -> SUBSET ReqType]
        /\ \A t \in Shards : \A x \in runs'[t] : x.op = "exec"
    BY <1>0, <1>4
  <2>2. ShardType'
    BY <1>1, <1>2, <1>4, <2>1 DEF PullInv, ShardType, LogExtends
  <2>3. \A p \in Procs : Pulls(proc[p])'
    BY <1>0, <1>3, <1>4, ExecPulls
  <2>4. net' \in [Shards -> Seq(ReqType)] /\ \A t \in Shards : ReadsOrdered(t, net[t])'
    BY <1>0, <1>1, <1>4, ExecReads
  <2> QED
    BY <1>1, <1>2, <1>4, <2>2, <2>3, <2>4, ShardKeeps
<1>5. CASE q.arg < Plans
  <2>1. PICK x : x = [q EXCEPT !.arg = q.arg + 1]
    OBVIOUS
  <2>2. PICK R : R = (runs[s] \ {q}) \cup {x}
    OBVIOUS
  <2>3. runs' = [runs EXCEPT ![s] = R] /\ proc' = proc /\ journal' = journal
    BY <1>5, <2>1, <2>2 DEF Resume
  <2>4. x \in ReqType /\ x.op = "exec"
    BY <1>0, <2>1 DEF ReqType
  <2>5. R \in SUBSET ReqType /\ \A y \in R : y.op = "exec"
    BY <1>0, <2>2, <2>4
  <2>6. Touches(q)
    BY <2>3 DEF Touches
  <2>7. CursorsInLog' /\ journal' \in [Shards -> [Mutations -> Answers]]
    <3>1. /\ CursorsInLog /\ cursor \in [Shards -> Nat]
          /\ journal \in [Shards -> [Mutations -> Answers]]
          /\ log \in [Shards -> Seq(Mutations)] /\ log' \in [Shards -> Seq(Mutations)]
      BY <1>2 DEF PullInv, RouterType, ShardType, LogExtends
    <3>2. ASSUME NEW t \in Shards
          PROVE  /\ pruned'[t] <= cursor'[t] /\ cursor'[t] <= Len(log'[t])
                 /\ \A m \in Mutations : journal'[t][m].last <= Len(log'[t])
      <4>1. /\ cursor[t] \in Nat /\ Len(log[t]) \in Nat /\ Len(log'[t]) \in Nat
            /\ \A m \in Mutations : journal[t][m].last \in Nat
        BY <3>1 DEF Answers
      <4>2. /\ pruned[t] <= cursor[t] /\ cursor[t] <= Len(log[t]) /\ Len(log[t]) <= Len(log'[t])
            /\ \A m \in Mutations : journal[t][m].last <= Len(log[t])
        BY <1>2, <3>1 DEF CursorsInLog, LogExtends
      <4> QED
        BY <1>1, <2>3, <4>1, <4>2
    <3> QED
      BY <2>3, <3>1, <3>2 DEF CursorsInLog
  <2> QED
    BY <1>0, <1>4, <2>3, <2>5, <2>6, <2>7
<1>6. CASE ~ (q.arg < Plans)
  <2>1. PICK R : R = runs[s] \ {q}
    OBVIOUS
  <2>2. runs' = [runs EXCEPT ![s] = R] /\ Complete(s, q)
    BY <1>6, <2>1 DEF Resume
  <2>3. R \in SUBSET ReqType /\ \A y \in R : y.op = "exec"
    BY <1>0, <2>1
  <2>4. /\ journal' \in [Shards -> [Mutations -> Answers]] /\ CursorsInLog'
        /\ \E a \in Answers : Deliver(q, s, a)
    BY <1>0, <1>1, <1>2, <2>2, CompleteFacts
  <2>5. proc' \in [Procs -> ProcType] /\ Touches(q)
    BY <1>0, <2>4, DeliverTouches
  <2> QED
    BY <1>4, <2>2, <2>3, <2>4, <2>5
<1> QED
  BY <1>5, <1>6
(* A call sends the plans to the shards that have not been captured.        *)
LEMMA DispatchKeeps ==
  ASSUME PullInv, NEW c \in Calls, Dispatch(c)
  PROVE  PullInv'
<1>0. PICK w : w = proc[c]
  OBVIOUS
<1>1. /\ w.pc = "prepared" /\ rec' = rec /\ cursor' = cursor /\ stats' = stats
      /\ faults' = faults /\ UNCHANGED shardVars
  BY <1>0 DEF Dispatch, routerVars
<1>2. c \in Procs /\ w \in ProcType /\ Pulls(w) /\ faults \in 0..MaxFaults
  BY <1>0, CallFacts
<1>3. w.m \in Mutations /\ rec[w.m].state # "none"
  BY <1>1, <1>2 DEF Pulls, Active
<1>4. Free(c)
  BY <1>0, <1>1 DEF Free, Reads
<1>5. CASE rec[w.m].state = "done"
  <2>1. PICK v : v = Replied(rec[w.m].total)
    OBVIOUS
  <2>2. Continue(c, v)
    BY <1>0, <1>5, <2>1 DEF Dispatch
  <2>3. v \in ProcType /\ v.pc = "ok"
    BY <1>3, <2>1, RecordFacts, RepliedFields
  <2> QED
    BY <1>1, <1>2, <1>4, <2>2, <2>3, QuietPulls, SameRecords, RouterKeepsStats
<1>6. CASE rec[w.m].state # "done"
  <2>1. PICK to : to = {s \in ShardsOf(w.m) : Gate(rec[w.m], s)}
    OBVIOUS
  <2>2. PICK out : out = [s \in Shards |-> IF s \in to THEN Waiting ELSE Answer("captured", 0, 0)]
    OBVIOUS
  <2>3. PICK v : v = [w EXCEPT !.pc = "exec", !.out = out]
    OBVIOUS
  <2>4. PICK q : q = Request(c, "exec", w.m, 0)
    OBVIOUS
  <2>5. /\ proc' = [proc EXCEPT ![c] = v]
        /\ net' = [s \in Shards |-> IF s \in to THEN Append(net[s], q) ELSE net[s]]
    BY <1>0, <1>6, <2>1, <2>2, <2>3, <2>4 DEF Dispatch
  <2>6. Answer("captured", 0, 0) \in Answers
    BY DEF Answer, Answers
  <2>7. out \in [Shards -> Answers]
    BY <2>2, <2>6, WaitingType
  <2>8. v \in ProcType /\ v.pc = "exec" /\ v.m = w.m
    <3>1. "exec" \in {"new", "ok", "error", "idle"} \cup Active
      BY DEF Active
    <3> QED
      BY <1>2, <2>3, <2>7, <3>1 DEF ProcType
  <2>9. q \in ReqType /\ q.op = "exec"
    BY <1>2, <1>3, <2>4 DEF Request, ReqType
  <2>10. /\ proc \in [Procs -> ProcType] /\ net \in [Shards -> Seq(ReqType)]
         /\ cursor \in [Shards -> Nat] /\ journal' = journal /\ log' = log /\ pruned' = pruned
         /\ runs' = runs /\ applied' = applied
    BY <1>1 DEF PullInv, RouterType, shardVars
  <2>11. proc' \in [Procs -> ProcType] /\ net' \in [Shards -> Seq(ReqType)]
    BY <1>2, <2>5, <2>8, <2>9, <2>10
  <2>12. LogExtends /\ Grows
    BY <1>1, <2>10, SameLog, ExtendsGrows
  <2>13. Pulls(v)'
    BY <1>1, <1>3, <2>8, PreparedPulls
  <2>14. \A p \in Procs : Pulls(proc[p])'
    BY <1>2, <2>5, <2>12, <2>13, AllPull
  <2>15. ASSUME NEW s \in Shards PROVE ReadsOrdered(s, net[s])'
    <3>1. PICK n : n = net[s]
      OBVIOUS
    <3>2. n \in Seq(ReqType) /\ ReadsOrdered(s, n) /\ Len(n) \in Nat
      BY <2>10, <3>1 DEF PullInv
    <3>3. ASSUME NEW i \in 1..Len(n), IsRead(n[i]) PROVE Awaits(proc'[n[i].p], s, n[i])
      <4>1. n[i].p # c
        BY <1>2, <1>4, <3>2, <3>3, FreeHasNoRead
      <4>2. n[i] \in ReqType
        BY <3>2
      <4>3. proc'[n[i].p] = proc[n[i].p]
        BY <2>5, <2>10, <4>1, <4>2 DEF ReqType
      <4> QED
        BY <3>2, <3>3, <4>3 DEF ReadsOrdered
    <3>4. \A i \in 1..Len(n) : n[i].op = "list" => pruned'[s] < n[i].arg
      BY <2>10, <3>2 DEF ReadsOrdered
    <3>5. cursor' \in [Shards -> Nat] /\ cursor[s] <= cursor'[s]
      BY <1>1, <2>10
    <3>6. ReadsOrdered(s, n)'
      BY <2>10, <3>2, <3>3, <3>4, <3>5, ReadsKept
    <3>7. CASE s \notin to
      <4>1. net'[s] = n
        BY <2>5, <3>1, <3>7
      <4> QED
        BY <3>6, <4>1, ReadsThen
    <3>8. CASE s \in to
      <4>1. PICK n2 : n2 = Append(n, q)
        OBVIOUS
      <4>2. net'[s] = n2
        BY <2>5, <3>1, <3>8, <4>1
      <4>3. /\ n2 \in Seq(ReqType) /\ Len(n2) = Len(n) + 1 /\ n2[Len(n) + 1] = q
            /\ \A i \in 1..Len(n) : n2[i] = n[i]
        BY <2>9, <3>2, <4>1
      <4>4. ~IsRead(q) /\ q.op # "ack" /\ q.op # "list"
        BY <2>9 DEF IsRead, Reads
      <4>5. ReadsOrdered(s, n2)'
        <5> SUFFICES ASSUME NEW i \in 1..Len(n2)
                     PROVE
                       /\ IsRead(n2[i]) => Awaits(proc'[n2[i].p], s, n2[i])
                       /\ n2[i].op = "ack" => n2[i].arg <= cursor'[s]
                       /\ n2[i].op = "list" =>
                            /\ n2[i].live /\ pruned'[s] < n2[i].arg
                            /\ \A j \in 1..(i - 1) : n2[j].op = "ack" => n2[j].arg < n2[i].arg
                       /\ \A j \in 1..(i - 1) : IsRead(n2[i]) /\ IsRead(n2[j]) => n2[i].p # n2[j].p
          BY DEF ReadsOrdered, Awaits, At, IsRead
        <5>1. CASE i \in 1..Len(n)
          <6>1. /\ IsRead(n[i]) => Awaits(proc'[n[i].p], s, n[i])
                /\ n[i].op = "ack" => n[i].arg <= cursor'[s]
                /\ n[i].op = "list" =>
                     /\ n[i].live /\ pruned'[s] < n[i].arg
                     /\ \A j \in 1..(i - 1) : n[j].op = "ack" => n[j].arg < n[i].arg
                /\ \A j \in 1..(i - 1) : IsRead(n[i]) /\ IsRead(n[j]) => n[i].p # n[j].p
            BY <3>6, <5>1 DEF ReadsOrdered, Awaits, At, IsRead
          <6>2. n2[i] = n[i] /\ \A j \in 1..(i - 1) : n2[j] = n[j]
            BY <3>2, <4>3, <5>1
          <6> QED
            BY <6>1, <6>2
        <5>2. CASE i = Len(n) + 1
          BY <4>3, <4>4, <5>2
        <5> QED
          BY <3>2, <4>3, <5>1, <5>2
      <4> QED
        BY <4>2, <4>5, ReadsThen
    <3> QED
      BY <3>7, <3>8
  <2>16. ShardType'
    BY <1>1, <2>10 DEF PullInv, ShardType
  <2>17. CursorsInLog'
    BY <1>1, <2>10, SameCursors
  <2> QED
    BY <1>1, <2>11, <2>12, <2>14, <2>15, <2>16, <2>17, ShardKeeps
<1> QED
  BY <1>5, <1>6

------------------------------------------------------------------------------
(* PullInv holds initially, and every step keeps it.                        *)

(* PullInv holds at the start.                                              *)
LEMMA PullInit ==
  Init => PullInv
<1> SUFFICES ASSUME Init PROVE PullInv
  OBVIOUS
<1>1. NoRecord \in RecType /\ NoRecord.state = "none"
  BY DEF NoRecord, Pristine, RecType, MarkType
<1>2. RouterType
  <2>1. rec \in [Mutations -> RecType] /\ cursor \in [Shards -> Nat]
        /\ stats \in [Shards -> [Mutations -> Nat]]
    BY <1>1 DEF Init
  <2>2. net \in [Shards -> Seq(ReqType)]
    BY DEF Init
  <2>3. proc \in [Procs -> ProcType]
    BY BlankFields DEF Init
  <2> QED
    BY <2>1, <2>2, <2>3 DEF RouterType
<1>3. ShardType
  <2>1. journal \in [Shards -> [Mutations -> Answers]]
    BY WaitingType DEF Init
  <2>2. log \in [Shards -> Seq(Mutations)] /\ pruned \in [Shards -> Nat]
    BY DEF Init
  <2>3. runs \in [Shards -> SUBSET ReqType] /\ \A s \in Shards : \A q \in runs[s] : q.op = "exec"
    BY DEF Init
  <2>4. applied \in [Shards -> [Mutations -> [1..Plans -> Nat]]] /\ faults \in 0..MaxFaults
    BY SagaConstants DEF Init
  <2> QED
    BY <2>1, <2>2, <2>3, <2>4 DEF ShardType
<1>4. \A m \in Mutations : Shaped(rec[m], m)
  BY <1>1 DEF Init, Shaped
<1>5. CursorsInLog
  BY DEF Init, CursorsInLog, Waiting
<1>6. \A p \in Procs : Pulls(proc[p])
  <2> TAKE p \in Procs
  <2>1. proc[p].pc \in {"new", "idle"}
    BY BlankFields DEF Init
  <2> QED
    BY <2>1 DEF Pulls, Active, Working, Pulling, Reads
<1>7. \A s \in Shards : ReadsOrdered(s, net[s])
  BY DEF Init, ReadsOrdered
<1>8. StatsExact
  <2> SUFFICES ASSUME NEW s \in Shards, NEW m \in Mutations
               PROVE  stats[s][m] = Cardinality({i \in 1..cursor[s] : log[s][i] = m})
    BY DEF StatsExact
  <2>1. stats[s][m] = 0 /\ {i \in 1..cursor[s] : log[s][i] = m} = {}
    BY DEF Init
  <2> QED
    BY <2>1, FS_EmptySet
<1> QED
  BY <1>2, <1>3, <1>4, <1>5, <1>6, <1>7, <1>8 DEF PullInv

(* PullInv is inductive.                                                    *)
LEMMA PullNext ==
  PullInv /\ [Next]_vars => PullInv'
<1> SUFFICES ASSUME PullInv, [Next]_vars PROVE PullInv'
  OBVIOUS
<1>1. ASSUME NEW c \in Calls, Prepare(c) \/ Dispatch(c) \/ Dispatched(c) PROVE PullInv'
  BY <1>1, PrepareKeeps, DispatchKeeps, DispatchedKeeps
<1>2. ASSUME NEW m \in Mutations, RecoverStart(m) PROVE PullInv'
  BY <1>2, RecoverStartKeeps
<1>3. ASSUME NEW s \in Shards, Serve(s) \/ Execute(s) PROVE PullInv'
  BY <1>3, ServeKeeps, ExecuteKeeps
<1>4. ASSUME NEW p \in Procs, RouterStep(p) \/ FinalizeFailed(p) PROVE PullInv'
  BY <1>4, ReadEntryKeeps, ReadPageKeeps, ReadAckKeeps, FinalizedKeeps, FinalizeFailedKeeps
     DEF RouterStep
<1>5. ASSUME NEW s \in Shards, NEW q \in runs[s],
             Resume(s, q) \/ RunTimeout(s, q) \/ RunFails(s, q)
      PROVE  PullInv'
  BY <1>5, ResumeKeeps, RunTimeoutKeeps, RunFailsKeeps
<1>6. ASSUME NEW s \in Shards, NEW i \in 1..Len(net[s]), Reject(s, i) \/ Timeout(s, i)
      PROVE  PullInv'
  BY <1>6, RequestFailsKeeps
<1>7. CASE UNCHANGED vars
  <2>1. /\ rec' = rec /\ cursor' = cursor /\ stats' = stats /\ proc' = proc /\ net' = net
        /\ journal' = journal /\ log' = log /\ pruned' = pruned /\ runs' = runs
        /\ applied' = applied /\ faults' = faults
    BY <1>7 DEF vars
  <2>2. RouterType' /\ ShardType' /\ CursorsInLog' /\ StatsExact'
    BY <2>1 DEF PullInv, RouterType, ShardType, CursorsInLog, StatsExact
  <2>3. (\A m \in Mutations : Shaped(rec[m], m))'
    BY <2>1 DEF PullInv, Shaped
  <2>4. (\A p \in Procs : Pulls(proc[p]))'
    BY <2>1 DEF PullInv, Pulls, At
  <2>5. (\A s \in Shards : ReadsOrdered(s, net[s]))'
    BY <2>1 DEF PullInv, ReadsOrdered, Awaits, At
  <2> QED
    BY <2>2, <2>3, <2>4, <2>5 DEF PullInv
<1> QED
  BY <1>1, <1>2, <1>3, <1>4, <1>5, <1>6, <1>7 DEF Next

(* The projection's inductive invariant holds in every reachable state: a   *)
(* page is read from just behind the cursor, acknowledgements never reach   *)
(* into a page under way, and the statistics are the deltas up to the       *)
(* cursor.                                                                  *)
THEOREM PullSafety == Spec => []PullInv
BY PullInit, PullNext, PTL DEF Spec

(* The type invariant of the saga: every record, journal entry and process  *)
(* is of its type, a shard never drops a delta that the Router's cursor has *)
(* not passed, and the cursor never runs ahead of the shard's log.          *)
THEOREM SagaTypes == Spec => []TypeOK
<1>1. PullInv => TypeOK
  <2> SUFFICES ASSUME PullInv PROVE TypeOK
    OBVIOUS
  <2>1. ASSUME NEW m \in Mutations PROVE rec[m].state \in {"none", "open", "done"}
    BY RecordFacts
  <2>2. \A s \in Shards :
          /\ pruned[s] <= cursor[s] /\ cursor[s] <= Len(log[s])
          /\ \A m \in Mutations : journal[s][m] \in Answers
    BY DEF PullInv, CursorsInLog, ShardType
  <2>3. ASSUME NEW p \in Procs
        PROVE  /\ proc[p].pc \in {"new", "prepared", "exec", "fetch", "list", "ack",
                                  "finalize", "ok", "error", "idle"}
               /\ proc[p].ans \in Answers
    <3>1. proc[p] \in ProcType
      BY DEF PullInv, RouterType
    <3> QED
      BY <3>1 DEF ProcType, Active, Working, Reads
  <2>4. faults \in 0..MaxFaults
    BY DEF PullInv, ShardType
  <2> QED
    BY <2>1, <2>2, <2>3, <2>4 DEF TypeOK
<1> QED
  BY <1>1, PullSafety, PTL

(* The Router's label statistics are exactly the deltas up to its cursor,   *)
(* each counted once, however many processes pull the same page at once and *)
(* however late their acknowledgements are executed.                        *)
THEOREM StatsCountedOnce == Spec => []StatsExact
<1>1. PullInv => StatsExact
  BY DEF PullInv
<1> QED
  BY <1>1, PullSafety, PTL
------------------------------------------------------------------------------
(* Outcomes: what every step leaves of SagaInv.                             *)

(* A journal entry is never replaced, and the cursors only grow.            *)
Steady ==
  /\ \A s \in Shards, m \in Mutations : Entry(s, m) => journal'[s][m] = journal[s][m]
  /\ \A s \in Shards : cursor[s] <= cursor'[s]
  /\ cursor \in [Shards -> Nat] /\ cursor' \in [Shards -> Nat]
  /\ journal \in [Shards -> [Mutations -> Answers]]
  /\ journal' \in [Shards -> [Mutations -> Answers]]

(* Journal entries and what is visible of them stay.                        *)
LEMMA VisibleKept ==
  ASSUME Steady, NEW s \in Shards, NEW m \in Mutations
  PROVE  /\ Entry(s, m) => Entry(s, m)' /\ journal'[s][m] = journal[s][m]
         /\ Visible(s, m) => Visible(s, m)'
<1>1. Entry(s, m) => Entry(s, m)' /\ journal'[s][m] = journal[s][m]
  BY DEF Steady, Entry
<1>2. ASSUME Visible(s, m) PROVE Visible(s, m)'
  <2>1. Entry(s, m) /\ journal[s][m].last <= cursor[s]
    BY <1>2 DEF Visible
  <2>2. journal[s][m] \in Answers /\ cursor[s] \in Nat /\ cursor'[s] \in Nat /\ cursor[s] <= cursor'[s]
    BY DEF Steady
  <2>3. journal[s][m].last \in Nat
    BY <2>2 DEF Answers
  <2>4. journal'[s][m].last <= cursor'[s]
    BY <1>1, <2>1, <2>2, <2>3
  <2> QED
    BY <1>1, <2>1, <2>4 DEF Visible
<1> QED
  BY <1>1, <1>2

(* The rows of the shards that have their entries do not change.            *)
LEMMA RowsKept ==
  ASSUME Steady, NEW m \in Mutations, NEW T \in SUBSET ShardsOf(m), \A t \in T : Entry(t, m)
  PROVE  Total(RowsAt(m), T)' = Total(RowsAt(m), T)
<1> DEFINE g == [s \in ShardsOf(m) |-> journal[s][m].first]
           h == [s \in ShardsOf(m) |-> journal'[s][m].first]
<1>1. \A t \in T : h[t] = g[t]
  <2> TAKE t \in T
  <2>1. t \in Shards /\ t \in ShardsOf(m)
    BY ShardsOfEnvelope
  <2>2. journal'[t][m] = journal[t][m]
    BY <2>1, VisibleKept
  <2> QED
    BY <2>1, <2>2
<1> HIDE DEF g, h
<1>2. Total(h, T) = Total(g, T)
  BY <1>1, TotalCong
<1>3. Total(RowsAt(m), T) = Total(g, T)
  BY DEF RowsAt, g
<1>4. Total(RowsAt(m), T)' = Total(h, T)
  BY DEF RowsAt, h, Total, MapThenSumSet, MapThenFoldSet
<1> QED
  BY <1>2, <1>3, <1>4

(* The row total of a journaled mutation is fixed.                          *)
LEMMA AllRowsKept ==
  ASSUME Steady, NEW m \in Mutations, \A t \in ShardsOf(m) : Entry(t, m)
  PROVE  RowsOf(m)' = RowsOf(m)
<1>1. Total(RowsAt(m), ShardsOf(m))' = Total(RowsAt(m), ShardsOf(m))
  BY RowsKept
<1>2. RowsOf(m) = Total(RowsAt(m), ShardsOf(m))
  BY RowsTotal
<1>3. (RowsOf(m) = Total(RowsAt(m), ShardsOf(m)))'
  BY RowsTotal, PTL
<1> QED
  BY <1>1, <1>2, <1>3
(* Knows of a new process, by its value.                                    *)
LEMMA KnowsThen ==
  ASSUME NEW p \in Procs, NEW v, proc'[p] = v, Knows(p, v)'
  PROVE  Knows(p, proc[p])'
<1>1. Role(p, v) /\ Heard(v)' /\ HasEntry(v)' /\ Merges(v)' /\ Told(p, v)'
  BY DEF Knows, Role
<1>2. Role(p, proc[p])'
  BY <1>1 DEF Role
<1>3. Heard(proc[p])'
  BY <1>1 DEF Heard, Outs, At, Entry
<1>4. HasEntry(proc[p])'
  BY <1>1 DEF HasEntry, At, Entry, Visible
<1>5. Merges(proc[p])'
  BY <1>1 DEF Merges, Entry, Visible
<1>6. Told(p, proc[p])'
  BY <1>1 DEF Told
<1> QED
  BY <1>2, <1>3, <1>4, <1>5, <1>6 DEF Knows

Placed(w) == (w.pc \in Active => w.m \in Mutations) /\ (w.pc \in Working => AtWork(w))

(* What a process knows stays true.                                         *)
LEMMA KnowsKept ==
  ASSUME Steady, NEW p \in Procs, NEW w \in ProcType, Placed(w), Knows(p, w)
  PROVE  Knows(p, w)'
<1>0. Role(p, w) /\ Heard(w) /\ HasEntry(w) /\ Merges(w) /\ Told(p, w)
  BY DEF Knows
<1>1. w.pc \in Active => w.m \in Mutations /\ ShardsOf(w.m) \subseteq Shards
  BY ShardsOfEnvelope DEF Placed
<1>2. w.pc \in Working =>
        /\ w.m \in Mutations /\ w.todo \subseteq ShardsOf(w.m) /\ ShardsOf(w.m) \subseteq Shards
        /\ At(w) \in Shards
  BY AtInTodo, ShardsOfEnvelope DEF Placed, AtWork
<1>3. Heard(w)'
  <2>1. ASSUME w.pc \in Active, NEW s \in ShardsOf(w.m)
        PROVE  /\ w.out[s].kind \in {"waiting", "failed", "ok", "captured"}
               /\ w.out[s].kind \in {"ok", "captured"} => Entry(s, w.m)'
               /\ w.out[s].kind = "ok" => w.out[s].first = journal'[s][w.m].first
    <3>1. /\ w.out[s].kind \in {"waiting", "failed", "ok", "captured"}
          /\ w.out[s].kind \in {"ok", "captured"} => Entry(s, w.m)
          /\ w.out[s].kind = "ok" => w.out[s].first = journal[s][w.m].first
      BY <1>0, <2>1 DEF Heard, Outs
    <3>2. Entry(s, w.m) => Entry(s, w.m)' /\ journal'[s][w.m] = journal[s][w.m]
      BY <1>1, <2>1, VisibleKept
    <3> QED
      BY <3>1, <3>2
  <2>2. ASSUME w.pc = "fetch", w.ans.kind = "entry"
        PROVE  w.ans = journal'[At(w)][w.m]
    <3>1. w.pc \in Working /\ w.ans = journal[At(w)][w.m]
      BY <1>0, <2>2 DEF Heard, Working, Reads
    <3>2. Entry(At(w), w.m)
      BY <2>2, <3>1 DEF Entry
    <3>3. journal'[At(w)][w.m] = journal[At(w)][w.m]
      BY <1>2, <3>1, <3>2, VisibleKept
    <3> QED
      BY <3>1, <3>3
  <2>3. (w.pc = "fetch" /\ w.ans.kind = "none") =>
          w.mode # "reconcile" /\ (w.mode = "capture" => w.out[At(w)].kind = "failed")
    BY <1>0 DEF Heard
  <2> QED
    BY <2>1, <2>2, <2>3 DEF Heard, Outs
<1>4. HasEntry(w)'
  <2>1. ASSUME w.pc \in Pulling
        PROVE  /\ Entry(At(w), w.m)'
               /\ w.count = journal'[At(w)][w.m].first /\ w.target = journal'[At(w)][w.m].last
    <3>1. w.pc \in Working
      BY <2>1 DEF Pulling, Working, Reads
    <3>2. /\ Entry(At(w), w.m)
          /\ w.count = journal[At(w)][w.m].first /\ w.target = journal[At(w)][w.m].last
      BY <1>0, <2>1 DEF HasEntry
    <3>3. Entry(At(w), w.m)' /\ journal'[At(w)][w.m] = journal[At(w)][w.m]
      BY <1>2, <3>1, <3>2, VisibleKept
    <3> QED
      BY <3>2, <3>3
  <2>2. ASSUME w.pc = "finalize" PROVE Visible(At(w), w.m)'
    <3>1. w.pc \in Working /\ Visible(At(w), w.m)
      BY <1>0, <2>2 DEF HasEntry, Working
    <3> QED
      BY <1>2, <3>1, VisibleKept
  <2> QED
    BY <2>1, <2>2 DEF HasEntry
<1>5. Merges(w)'
  <2>1. ASSUME w.pc \in Working, w.mode = "reconcile", NEW t \in w.todo PROVE Entry(t, w.m)'
    <3>1. Entry(t, w.m)
      BY <1>0, <2>1 DEF Merges
    <3> QED
      BY <1>2, <2>1, <3>1, VisibleKept
  <2>2. ASSUME w.pc \in Working, w.mode = "capture"
        PROVE  /\ \A t \in w.todo : w.out[t].kind # "waiting"
               /\ \A t \in ShardsOf(w.m) \ w.todo : Visible(t, w.m)'
               /\ w.sum = Total(RowsAt(w.m), ShardsOf(w.m) \ w.todo)'
    <3>1. /\ \A t \in w.todo : w.out[t].kind # "waiting"
          /\ \A t \in ShardsOf(w.m) \ w.todo : Visible(t, w.m)
          /\ w.sum = Total(RowsAt(w.m), ShardsOf(w.m) \ w.todo)
      BY <1>0, <2>2 DEF Merges
    <3>2. \A t \in ShardsOf(w.m) \ w.todo : Visible(t, w.m)' /\ Entry(t, w.m)
      BY <1>2, <2>2, <3>1, VisibleKept DEF Visible
    <3>3. PICK T : T = ShardsOf(w.m) \ w.todo
      OBVIOUS
    <3>4. T \in SUBSET ShardsOf(w.m) /\ \A t \in T : Entry(t, w.m)
      BY <3>2, <3>3
    <3>5. Total(RowsAt(w.m), T)' = Total(RowsAt(w.m), T)
      BY <1>2, <2>2, <3>4, RowsKept
    <3> QED
      BY <3>1, <3>2, <3>3, <3>5
  <2> QED
    BY <2>1, <2>2 DEF Merges
<1>6. Told(p, w)'
  <2> SUFFICES ASSUME w.pc = "ok", p \in Calls
               PROVE  /\ \A t \in ShardsOf(KeyOf[p]) : Visible(t, KeyOf[p])'
                      /\ w.count = RowsOf(KeyOf[p])'
    BY DEF Told
  <2>1. KeyOf[p] \in Mutations
    BY SagaConstants
  <2>2. /\ \A t \in ShardsOf(KeyOf[p]) : Visible(t, KeyOf[p]) /\ t \in Shards
        /\ w.count = RowsOf(KeyOf[p])
    BY <1>0, <2>1, ShardsOfEnvelope DEF Told
  <2>3. \A t \in ShardsOf(KeyOf[p]) : Visible(t, KeyOf[p])' /\ Entry(t, KeyOf[p])
    BY <2>1, <2>2, VisibleKept DEF Visible
  <2>4. RowsOf(KeyOf[p])' = RowsOf(KeyOf[p])
    BY <2>1, <2>3, AllRowsKept
  <2> QED
    BY <2>2, <2>3, <2>4
<1> QED
  BY <1>0, <1>3, <1>4, <1>5, <1>6 DEF Knows, Role

------------------------------------------------------------------------------
(* Records and what the shards journaled.                                   *)

(* What a record says stays true while entries stay.                        *)
LEMMA RecTrueKept ==
  ASSUME Steady, NEW m \in Mutations, NEW r, RecTrue(r, m)
  PROVE  RecTrue(r, m)'
<1>0. ShardsOf(m) \subseteq Shards
  BY ShardsOfEnvelope
<1>1. ASSUME r.state = "open", NEW s \in Shards
      PROVE  /\ r.shards[s].done => Entry(s, m)' /\ r.shards[s].count = journal'[s][m].first
             /\ r.shards[s].projected => Visible(s, m)'
  <2>1. /\ r.shards[s].done => Entry(s, m) /\ r.shards[s].count = journal[s][m].first
        /\ r.shards[s].projected => Visible(s, m)
    BY <1>1 DEF RecTrue
  <2> QED
    BY <2>1, VisibleKept
<1>2. ASSUME r.state = "done"
      PROVE  (\A s \in ShardsOf(m) : Visible(s, m)') /\ r.total = RowsOf(m)'
  <2>1. (\A s \in ShardsOf(m) : Visible(s, m)) /\ r.total = RowsOf(m)
    BY <1>2 DEF RecTrue
  <2>2. \A s \in ShardsOf(m) : Visible(s, m)' /\ Entry(s, m)
    BY <1>0, <2>1, VisibleKept DEF Visible
  <2>3. RowsOf(m)' = RowsOf(m)
    BY <2>2, AllRowsKept
  <2> QED
    BY <2>1, <2>2, <2>3
<1> QED
  BY <1>1, <1>2 DEF RecTrue

(* RecTrue of a new record, by its value.                                   *)
LEMMA RecTrueThen ==
  ASSUME NEW m \in Mutations, NEW r, rec'[m] = r, RecTrue(r, m)'
  PROVE  RecTrue(rec[m], m)'
BY DEF RecTrue

(* A shard is captured with the rows of its entry.                          *)
LEMMA CapturedTrue ==
  ASSUME NEW m \in Mutations, NEW r \in RecType, Shaped(r, m), r.state # "none", RecTrue(r, m),
         NEW s \in Shards, Entry(s, m), NEW n \in Nat, n = journal[s][m].first,
         NEW r2, r2 = Captured(r, s, n)
  PROVE  RecTrue(r2, m)
<1>1. /\ r2.state = r.state
      /\ r2.state = "open" =>
              /\ r2.shards[s].done /\ r2.shards[s].count = n
              /\ r2.shards[s].projected = r.shards[s].projected
      /\ \A t \in Shards \ {s} : r2.shards[t] = r.shards[t]
      /\ r.state # "open" => r2 = r
  BY CapturedRecord
<1>2. CASE r.state # "open"
  BY <1>1, <1>2
<1>3. CASE r.state = "open"
  <2>1. \A t \in Shards :
          /\ r.shards[t].done => Entry(t, m) /\ r.shards[t].count = journal[t][m].first
          /\ r.shards[t].projected => Visible(t, m)
    BY <1>3 DEF RecTrue
  <2>2. ASSUME NEW t \in Shards
        PROVE  /\ r2.shards[t].done => Entry(t, m) /\ r2.shards[t].count = journal[t][m].first
               /\ r2.shards[t].projected => Visible(t, m)
    <3>1. CASE t = s
      BY <1>1, <1>3, <2>1, <3>1
    <3>2. CASE t # s
      BY <1>1, <2>1, <3>2
    <3> QED
      BY <3>1, <3>2
  <2> QED
    BY <1>1, <1>3, <2>2 DEF RecTrue
<1> QED
  BY <1>2, <1>3

(* A visible shard is marked projected, and a record whose shards all are   *)
(* is completed with the sum of their rows.                                 *)
LEMMA AdvancedTrue ==
  ASSUME NEW m \in Mutations, NEW r \in RecType, Shaped(r, m), r.state # "none", RecTrue(r, m),
         NEW s \in ShardsOf(m), r.state = "open" => r.shards[s].done, Visible(s, m),
         NEW r2, r2 = Advanced(r, m, s)
  PROVE  RecTrue(r2, m)
<1>0. ShardsOf(m) \subseteq Shards
  BY ShardsOfEnvelope
<1>1. \/ r.state = "done" /\ r2 = r
      \/ /\ r.state = "open" /\ r2.state = "open"
         /\ \A t \in Shards :
              /\ r2.shards[t].done = r.shards[t].done
              /\ r2.shards[t].count = r.shards[t].count
              /\ r2.shards[t].projected => t = s \/ r.shards[t].projected
      \/ /\ r.state = "open" /\ r2.state = "done"
         /\ \A t \in ShardsOf(m) : r.shards[t].done /\ (t = s \/ r.shards[t].projected)
         /\ r2.total = Total([t \in ShardsOf(m) |-> r.shards[t].count], ShardsOf(m))
  BY AdvancedRecord
<1>2. r.state = "open" => \A t \in Shards :
          /\ r.shards[t].done => Entry(t, m) /\ r.shards[t].count = journal[t][m].first
          /\ r.shards[t].projected => Visible(t, m)
  BY DEF RecTrue
<1>3. CASE r2 = r
  BY <1>3
<1>4. CASE /\ r.state = "open" /\ r2.state = "open"
           /\ \A t \in Shards :
                /\ r2.shards[t].done = r.shards[t].done
                /\ r2.shards[t].count = r.shards[t].count
                /\ r2.shards[t].projected => t = s \/ r.shards[t].projected
  BY <1>2, <1>4 DEF RecTrue
<1>5. CASE /\ r.state = "open" /\ r2.state = "done"
           /\ \A t \in ShardsOf(m) : r.shards[t].done /\ (t = s \/ r.shards[t].projected)
           /\ r2.total = Total([t \in ShardsOf(m) |-> r.shards[t].count], ShardsOf(m))
  <2>1. \A t \in ShardsOf(m) : Visible(t, m) /\ r.shards[t].count = journal[t][m].first
    BY <1>0, <1>2, <1>5
  <2>2. PICK g : g = [t \in ShardsOf(m) |-> r.shards[t].count]
    OBVIOUS
  <2>3. PICK h : h = RowsAt(m)
    OBVIOUS
  <2>4. \A t \in ShardsOf(m) : g[t] = h[t]
    BY <2>1, <2>2, <2>3 DEF RowsAt
  <2>5. Total(g, ShardsOf(m)) = Total(h, ShardsOf(m))
    BY <2>4, TotalCong
  <2>6. r2.total = RowsOf(m)
    BY <1>5, <2>2, <2>3, <2>5, RowsTotal
  <2> QED
    BY <1>5, <2>1, <2>6 DEF RecTrue
<1> QED
  BY <1>1, <1>3, <1>4, <1>5

(* One record changes.                                                      *)
LEMMA OneRecordTrue ==
  ASSUME PullInv, SagaInv, NEW m \in Mutations, NEW r, RecTrue(r, m), rec' = [rec EXCEPT ![m] = r]
  PROVE  \A k \in Mutations : RecTrue(rec'[k], k)
<1>1. rec \in [Mutations -> RecType] /\ \A k \in Mutations : RecTrue(rec[k], k)
  BY DEF PullInv, RouterType, SagaInv
<1>2. \A k \in Mutations : rec'[k] = IF k = m THEN r ELSE rec[k]
  BY <1>1
<1> QED
  BY <1>1, <1>2
------------------------------------------------------------------------------
(* Steps of the Router.                                                     *)

(* A process none of whose executions is under way.                         *)
NoExec(p) ==
  proc[p].pc = "exec" => \A s \in ShardsOf(proc[p].m) : proc[p].out[s].kind # "waiting"

(* ExecsAwaited of a new queue, by its value.                               *)
LEMMA ExecsThen ==
  ASSUME NEW s \in Shards, NEW n, net'[s] = n, ExecsAwaited(s, n)'
  PROVE  ExecsAwaited(s, net[s])'
BY DEF ExecsAwaited

(* A process that waits for no execution has none in a queue.               *)
LEMMA NoExecIsQueued ==
  ASSUME NEW p \in Procs, NoExec(p), NEW s \in Shards, NEW n, ExecsAwaited(s, n),
         NEW i \in 1..Len(n), n[i].live, n[i].op = "exec"
  PROVE  n[i].p # p
BY DEF NoExec, ExecsAwaited, Waiting

(* A read that is appended is no execution, and the others stay awaited.    *)
LEMMA ContinueExecs ==
  ASSUME PullInv, SagaInv, NEW p \in Procs, NoExec(p), NEW v \in ProcType, Placed(v),
         Continue(p, v)
  PROVE  \A s \in Shards : ExecsAwaited(s, net[s])'
<1>0. /\ proc \in [Procs -> ProcType] /\ net \in [Shards -> Seq(ReqType)]
      /\ proc' = [proc EXCEPT ![p] = v]
  BY DEF PullInv, RouterType, Continue
<1> TAKE s \in Shards
<1>1. PICK n : n = net[s]
  OBVIOUS
<1>2. n \in Seq(ReqType) /\ Len(n) \in Nat /\ ExecsAwaited(s, n)
  BY <1>0, <1>1 DEF SagaInv
<1>3. ASSUME NEW i \in 1..Len(n), n[i].live, n[i].op = "exec"
      PROVE  proc'[n[i].p] = proc[n[i].p]
  <2>1. n[i] \in ReqType /\ n[i].p # p
    BY <1>2, <1>3, NoExecIsQueued
  <2> QED
    BY <1>0, <2>1 DEF ReqType
<1>4. \E n2 : /\ net'[s] = n2 /\ \A i \in 1..Len(n) : n2[i] = n[i]
              /\ \/ Len(n2) = Len(n)
                 \/ Len(n2) = Len(n) + 1 /\ n2[Len(n) + 1].op # "exec"
  <2>1. CASE Sends(v) /\ At(v) = s
    <3>1. PICK q : q = Request(p, v.pc, v.m, v.from)
      OBVIOUS
    <3>2. q.op # "exec"
      BY <2>1, <3>1 DEF Request, Sends
    <3>3. net' = [net EXCEPT ![s] = Append(n, q)]
      BY <1>1, <2>1, <3>1 DEF Continue
    <3>4. net'[s] = Append(n, q)
      BY <1>0, <3>3
    <3>5. /\ Len(Append(n, q)) = Len(n) + 1 /\ Append(n, q)[Len(n) + 1] = q
          /\ \A i \in 1..Len(n) : Append(n, q)[i] = n[i]
      BY <1>2
    <3> QED
      BY <3>2, <3>4, <3>5
  <2>2. CASE ~ (Sends(v) /\ At(v) = s)
    <3>1. net'[s] = n
      BY <1>0, <1>1, <2>2 DEF Continue
    <3> QED
      BY <3>1
  <2> QED
    BY <2>1, <2>2
<1>5. PICK n2 : /\ net'[s] = n2 /\ \A i \in 1..Len(n) : n2[i] = n[i]
                /\ \/ Len(n2) = Len(n)
                   \/ Len(n2) = Len(n) + 1 /\ n2[Len(n) + 1].op # "exec"
  BY <1>4
<1>6. ExecsAwaited(s, n2)'
  <2> SUFFICES ASSUME NEW i \in 1..Len(n2), n2[i].live, n2[i].op = "exec"
               PROVE  /\ n2[i].p \in Calls /\ s \in ShardsOf(n2[i].m)
                      /\ LET w == proc'[n2[i].p] IN w.pc = "exec" /\ w.m = n2[i].m /\ w.out[s] = Waiting
                      /\ \A j \in 1..(i - 1) : n2[j].live /\ n2[j].op = "exec" => n2[i].p # n2[j].p
    BY DEF ExecsAwaited
  <2>1. i \in 1..Len(n)
    BY <1>2, <1>5
  <2>2. n2[i] = n[i] /\ \A j \in 1..(i - 1) : n2[j] = n[j]
    BY <1>2, <1>5, <2>1
  <2>3. /\ n[i].p \in Calls /\ s \in ShardsOf(n[i].m)
        /\ LET w == proc[n[i].p] IN w.pc = "exec" /\ w.m = n[i].m /\ w.out[s] = Waiting
        /\ \A j \in 1..(i - 1) : n[j].live /\ n[j].op = "exec" => n[i].p # n[j].p
    BY <1>2, <2>1, <2>2 DEF ExecsAwaited
  <2>4. proc'[n[i].p] = proc[n[i].p]
    BY <1>3, <2>1, <2>2
  <2> QED
    BY <2>2, <2>3, <2>4
<1> QED
  BY <1>5, <1>6, ExecsThen

(* Process p goes on as v, and what v knows is true.                        *)
LEMMA RouterTrue ==
  ASSUME PullInv, PullInv', SagaInv, NEW p \in Procs, NoExec(p), NEW v, Continue(p, v),
         Knows(p, v), UNCHANGED shardVars, \A s \in Shards : cursor[s] <= cursor'[s],
         \A k \in Mutations : RecTrue(rec'[k], k)
  PROVE  SagaInv'
<1>0. /\ journal' = journal /\ runs' = runs /\ applied' = applied
      /\ proc \in [Procs -> ProcType] /\ proc' = [proc EXCEPT ![p] = v]
  BY DEF shardVars, PullInv, RouterType, Continue
<1>1. proc'[p] = v
  BY <1>0
<1>2. v \in ProcType /\ Placed(v)
  <2>1. proc'[p] \in ProcType /\ Pulls(proc[p])'
    BY DEF PullInv, RouterType
  <2>2. /\ proc'[p].pc \in Active => proc'[p].m \in Mutations
        /\ proc'[p].pc \in Working => proc'[p].todo # {} /\ proc'[p].todo \subseteq ShardsOf(proc'[p].m)
    BY <2>1 DEF Pulls
  <2> QED
    BY <1>1, <2>1, <2>2 DEF Placed, AtWork, Active
<1>3. Steady
  <2>1. /\ cursor \in [Shards -> Nat] /\ journal \in [Shards -> [Mutations -> Answers]]
        /\ cursor' \in [Shards -> Nat]
    BY DEF PullInv, RouterType, ShardType
  <2> QED
    BY <1>0, <2>1 DEF Steady
<1>4. (\A s \in Shards : runs[s] = {})' /\ AppliedWhole'
  BY <1>0 DEF SagaInv, AppliedWhole, Entry
<1>5. ASSUME NEW k \in Mutations PROVE RecTrue(rec[k], k)'
  <2>1. PICK r : r = rec'[k]
    OBVIOUS
  <2>2. RecTrue(r, k)
    BY <2>1
  <2>3. RecTrue(r, k)'
    BY <1>3, <2>2, RecTrueKept
  <2> QED
    BY <2>1, <2>3, RecTrueThen
<1>6. ASSUME NEW q \in Procs PROVE Knows(q, proc[q])'
  <2>1. CASE q = p
    BY <1>1, <1>2, <1>3, <2>1, KnowsKept, KnowsThen
  <2>2. CASE q # p
    <3>1. PICK w : w = proc[q]
      OBVIOUS
    <3>2. proc'[q] = w /\ w \in ProcType /\ Pulls(w) /\ Knows(q, w)
      BY <1>0, <2>2, <3>1 DEF PullInv, SagaInv
    <3>3. Placed(w)
      BY <3>2, WorkingIsAtWork DEF Placed, Pulls
    <3> QED
      BY <1>3, <3>2, <3>3, KnowsKept, KnowsThen
  <2> QED
    BY <2>1, <2>2
<1>7. \A s \in Shards : ExecsAwaited(s, net[s])'
  BY <1>2, ContinueExecs
<1> QED
  BY <1>4, <1>5, <1>6, <1>7 DEF SagaInv

(* The same for a step that leaves the cursors alone.                       *)
LEMMA RouterTrueSame ==
  ASSUME PullInv, PullInv', SagaInv, NEW p \in Procs, NoExec(p), NEW v, Continue(p, v),
         Knows(p, v), UNCHANGED <<cursor, shardVars>>,
         \A k \in Mutations : RecTrue(rec'[k], k)
  PROVE  SagaInv'
<1>1. UNCHANGED shardVars /\ \A s \in Shards : cursor[s] <= cursor'[s]
  BY DEF PullInv, RouterType
<1> QED
  BY <1>1, RouterTrue

(* Unchanged records stay true.                                             *)
LEMMA SameRecordsTrue ==
  ASSUME SagaInv, UNCHANGED rec
  PROVE  \A k \in Mutations : RecTrue(rec'[k], k)
BY DEF SagaInv

(* A process that is not at work.                                           *)
LEMMA QuietKnows ==
  ASSUME NEW p, NEW v, v.pc \in {"new", "error", "idle"}, v.mode = "none", v.why = "none"
  PROVE  Knows(p, v)
BY DEF Knows, Role, Heard, HasEntry, Merges, Told, Active, Working, Pulling, Reads

(* A process that was answered, or answers its client.                      *)
LEMMA RepliedKnows ==
  ASSUME NEW p, NEW v, v.pc = "ok", v.mode = "none", v.why = "none",
         p \in Calls => /\ \A t \in ShardsOf(KeyOf[p]) : Visible(t, KeyOf[p])
                        /\ v.count = RowsOf(KeyOf[p])
  PROVE  Knows(p, v)
BY DEF Knows, Role, Heard, HasEntry, Merges, Told, Active, Working, Pulling, Reads

(* SagaInv through GivesUp.                                                 *)
LEMMA GivesUpTrue ==
  ASSUME PullInv, PullInv', SagaInv, NEW p \in Procs, NoExec(p), NEW w,
         Continue(p, Failed(w, "none")), UNCHANGED <<routerVars, shardVars>>
  PROVE  SagaInv'
<1>1. PICK v : v = Failed(w, "none")
  OBVIOUS
<1>2. v.pc \in {"new", "error", "idle"} /\ v.mode = "none" /\ v.why = "none"
  BY <1>1, FailedFields
<1>3. Knows(p, v) /\ Continue(p, v)
  BY <1>1, <1>2, QuietKnows
<1>4. UNCHANGED <<rec, cursor, shardVars>>
  BY DEF routerVars
<1>5. \A k \in Mutations : RecTrue(rec'[k], k)
  BY <1>4, SameRecordsTrue
<1> QED
  BY <1>3, <1>4, <1>5, RouterTrueSame
(* One more shard is merged.                                                *)
LEMMA TotalStep ==
  ASSUME PullInv, NEW m \in Mutations, NEW T \in SUBSET ShardsOf(m), NEW x \in T
  PROVE  Total(RowsAt(m), ShardsOf(m) \ (T \ {x})) =
           Total(RowsAt(m), ShardsOf(m) \ T) + journal[x][m].first
<1>0. ShardsOf(m) \subseteq Shards /\ IsFiniteSet(ShardsOf(m))
  BY ShardsOfEnvelope
<1>1. PICK S : S = ShardsOf(m) \ T
  OBVIOUS
<1>2. ShardsOf(m) \ (T \ {x}) = S \cup {x} /\ x \notin S /\ S \subseteq ShardsOf(m)
  BY <1>1
<1>3. IsFiniteSet(S)
  BY <1>0, <1>2, FS_Subset
<1>4. PICK g : g = RowsAt(m)
  OBVIOUS
<1>5. \A y \in ShardsOf(m) : g[y] = journal[y][m].first /\ g[y] \in Nat
  <2> TAKE y \in ShardsOf(m)
  <2>1. journal[y][m] \in Answers
    BY <1>0 DEF PullInv, ShardType
  <2>2. g[y] = journal[y][m].first
    BY <1>4 DEF RowsAt
  <2> QED
    BY <2>1, <2>2 DEF Answers
<1>6. \A y \in S \cup {x} : g[y] \in Nat
  BY <1>2, <1>5
<1>7. Total(g, S \cup {x}) = Total(g, S) + g[x]
  BY <1>2, <1>3, <1>6, TotalAdd
<1>8. g[x] = journal[x][m].first
  BY <1>5
<1> QED
  BY <1>1, <1>2, <1>4, <1>7, <1>8

(* What a process knows at its shard, and what it then knows at the next.   *)
LEMMA NextShardKnows ==
  ASSUME PullInv, NEW p \in Procs, NEW w \in ProcType, w.pc \in Working, AtWork(w),
         w.mode \in {"capture", "reconcile", "recover"}, Role(p, w), Outs(w), Merges(w),
         w.mode # "recover" => Visible(At(w), w.m) /\ w.count = journal[At(w)][w.m].first,
         NEW r \in RecType, RecTrue(r, w.m), NEW v, v = NextShard(w, r)
  PROVE  Knows(p, v)
<1>0. /\ w.m \in Mutations /\ At(w) \in w.todo /\ At(w) \in ShardsOf(w.m) /\ w.todo \subseteq ShardsOf(w.m)
      /\ ShardsOf(w.m) \subseteq Shards /\ w.pc \in Active
  BY AtInTodo, ShardsOfEnvelope DEF AtWork, Active
<1>1. /\ p \in Calls => w.m = KeyOf[p]
      /\ IF p = Recovery THEN w.mode = "recover" ELSE w.mode \in {"capture", "reconcile"}
      /\ w.mode = "recover" => p = Recovery
      /\ w.why = "none"
      /\ p \in Calls <=> p # Recovery
  BY <1>0, SagaConstants DEF Role, Procs
<1>2. w.mode = "capture" =>
        /\ \A t \in w.todo : w.out[t].kind # "waiting"
        /\ \A t \in ShardsOf(w.m) \ (w.todo \ {At(w)}) : Visible(t, w.m)
        /\ Merged(w) = Total(RowsAt(w.m), ShardsOf(w.m) \ (w.todo \ {At(w)}))
  <2> SUFFICES ASSUME w.mode = "capture"
               PROVE  /\ \A t \in w.todo : w.out[t].kind # "waiting"
                      /\ \A t \in ShardsOf(w.m) \ (w.todo \ {At(w)}) : Visible(t, w.m)
                      /\ Merged(w) = Total(RowsAt(w.m), ShardsOf(w.m) \ (w.todo \ {At(w)}))
    OBVIOUS
  <2>1. /\ \A t \in w.todo : w.out[t].kind # "waiting"
        /\ \A t \in ShardsOf(w.m) \ w.todo : Visible(t, w.m)
        /\ w.sum = Total(RowsAt(w.m), ShardsOf(w.m) \ w.todo)
    BY DEF Merges
  <2>2. \A t \in ShardsOf(w.m) \ (w.todo \ {At(w)}) : Visible(t, w.m)
    BY <2>1
  <2>3. PICK x : x = At(w)
    OBVIOUS
  <2>4. PICK T : T = w.todo
    OBVIOUS
  <2>5. PICK m : m = w.m
    OBVIOUS
  <2>6. Total(RowsAt(m), ShardsOf(m) \ (T \ {x})) =
          Total(RowsAt(m), ShardsOf(m) \ T) + journal[x][m].first
    <3>1. m \in Mutations /\ T \in SUBSET ShardsOf(m) /\ x \in T
      BY <1>0, <2>3, <2>4, <2>5
    <3> QED
      BY <3>1, TotalStep
  <2>7. Merged(w) = w.sum + w.count
    BY DEF Merged
  <2> QED
    BY <2>1, <2>2, <2>3, <2>4, <2>5, <2>6, <2>7
<1>3. \/ /\ w.todo # {At(w)}
         /\ v.pc = "fetch" /\ v.mode = w.mode /\ v.todo = w.todo \ {At(w)}
         /\ v.m = w.m /\ v.ans = Waiting /\ v.out = w.out /\ v.sum = Merged(w) /\ v.why = w.why
      \/ /\ w.todo = {At(w)} /\ v.mode = "none" /\ v.why = "none"
         /\ \/ v.pc = "idle"
            \/ w.mode = "capture" /\ v.pc = "ok" /\ v.count = Merged(w)
            \/ w.mode # "recover" /\ r.state = "done" /\ v.pc = "ok" /\ v.count = r.total
            \/ /\ w.mode = "reconcile" /\ v.pc = "prepared" /\ v.m = w.m
               /\ v.out = [s \in Shards |-> Waiting] /\ v.sum = 0
  BY NextShardFields
<1>4. CASE /\ v.pc = "fetch" /\ v.mode = w.mode /\ v.todo = w.todo \ {At(w)}
           /\ v.m = w.m /\ v.ans = Waiting /\ v.out = w.out /\ v.sum = Merged(w) /\ v.why = w.why
  <2>1. Role(p, v)
    BY <1>1, <1>4 DEF Role
  <2>2. Heard(v)
    BY <1>4 DEF Heard, Outs, Waiting
  <2>3. HasEntry(v) /\ Told(p, v)
    BY <1>4 DEF HasEntry, Pulling, Told
  <2>4. w.mode = "reconcile" => \A t \in w.todo : Entry(t, w.m)
    BY DEF Merges
  <2>5. Merges(v)
    BY <1>2, <1>4, <2>4 DEF Merges
  <2> QED
    BY <2>1, <2>2, <2>3, <2>5 DEF Knows
<1>5. CASE v.mode = "none" /\ v.why = "none" /\ v.pc = "idle"
  BY <1>5, QuietKnows
<1>6. CASE /\ w.todo = {At(w)} /\ v.mode = "none" /\ v.why = "none"
           /\ w.mode = "capture" /\ v.pc = "ok" /\ v.count = Merged(w)
  <2>1. ShardsOf(w.m) \ (w.todo \ {At(w)}) = ShardsOf(w.m)
    BY <1>6
  <2>2. (\A t \in ShardsOf(w.m) : Visible(t, w.m)) /\ v.count = Total(RowsAt(w.m), ShardsOf(w.m))
    BY <1>2, <1>6, <2>1
  <2>3. v.count = RowsOf(w.m)
    BY <1>0, <2>2, RowsTotal
  <2> QED
    BY <1>1, <1>6, <2>2, <2>3, RepliedKnows
<1>7. CASE /\ v.mode = "none" /\ v.why = "none"
           /\ w.mode # "recover" /\ r.state = "done" /\ v.pc = "ok" /\ v.count = r.total
  <2>1. (\A t \in ShardsOf(w.m) : Visible(t, w.m)) /\ v.count = RowsOf(w.m)
    BY <1>7 DEF RecTrue
  <2> QED
    BY <1>1, <1>7, <2>1, RepliedKnows
<1>8. CASE /\ v.mode = "none" /\ v.why = "none" /\ w.mode = "reconcile" /\ v.pc = "prepared" /\ v.m = w.m
           /\ v.out = [s \in Shards |-> Waiting] /\ v.sum = 0
  <2>1. Role(p, v)
    BY <1>1, <1>8 DEF Role, Working, Reads
  <2>2. Outs(v)
    BY <1>0, <1>8 DEF Outs, Waiting
  <2> QED
    BY <1>8, <2>1, <2>2 DEF Knows, Heard, HasEntry, Merges, Told, Working, Pulling, Reads
<1> QED
  BY <1>3, <1>4, <1>5, <1>6, <1>7, <1>8

(* A process that has the entry of its shard in hand.                       *)
InHand(p, w) ==
  /\ w.pc \in Working /\ Role(p, w) /\ Outs(w) /\ Merges(w)
  /\ Entry(At(w), w.m)
  /\ w.count = journal[At(w)][w.m].first /\ w.target = journal[At(w)][w.m].last

(* A process that goes on to the next page, or to finalize, knows as much.  *)
LEMMA StaysInHand ==
  ASSUME PullInv, NEW p \in Procs, NEW w, InHand(p, w), NEW v, v.pc \in Pulling,
         v.pc = "finalize" => Visible(At(w), w.m),
         v.m = w.m, v.todo = w.todo, v.mode = w.mode, v.why = w.why, v.out = w.out,
         v.count = w.count, v.target = w.target, v.sum = w.sum
  PROVE  Knows(p, v)
<1>1. At(v) = At(w)
  BY DEF At
<1>2. w.pc \in Active /\ v.pc \in Active /\ v.pc \in Working /\ v.pc # "fetch" /\ v.pc # "ok"
      /\ v.pc \notin {"prepared", "exec"}
  BY DEF InHand, Active, Working, Pulling, Reads
<1>3. Role(p, v)
  BY <1>2 DEF Role, InHand
<1>4. Heard(v)
  BY <1>2 DEF Heard, Outs, InHand
<1>5. HasEntry(v)
  BY <1>1 DEF HasEntry, InHand
<1>6. Merges(v)
  BY <1>2 DEF Merges, InHand
<1>7. Told(p, v)
  BY <1>2 DEF Told
<1> QED
  BY <1>3, <1>4, <1>5, <1>6, <1>7 DEF Knows

(* Settle, from a process whose shard is visible.                           *)
LEMMA SettleTrue ==
  ASSUME PullInv, PullInv', SagaInv, NEW p \in Procs, NoExec(p), NEW w \in ProcType, NEW r \in RecType,
         AtCaptured(w, r), InHand(p, w), RecTrue(r, w.m), Visible(At(w), w.m),
         Settle(p, w, r), UNCHANGED <<cursor, shardVars>>
  PROVE  SagaInv'
<1>0. /\ AtWork(w) /\ w.mode \in {"capture", "reconcile", "recover"} /\ w.m \in Mutations
      /\ Shaped(r, w.m) /\ r.state # "none" /\ (r.state = "open" => r.shards[At(w)].done)
  BY DEF AtCaptured, AtWork
<1>1. At(w) \in ShardsOf(w.m) /\ w.pc \in Active
  BY <1>0, AtInTodo DEF AtWork, InHand, Active
<1>2. ~Disagrees(w)
  <2>1. w.out[At(w)].kind = "ok" => w.out[At(w)].first = journal[At(w)][w.m].first
    BY <1>1 DEF InHand, Outs
  <2> QED
    BY <2>1 DEF Disagrees, InHand
<1>3. CASE Finalizes(w)
  <2>1. PICK v : v = [w EXCEPT !.pc = "finalize", !.ans = Waiting]
    OBVIOUS
  <2>2. Continue(p, v) /\ rec' = [rec EXCEPT ![w.m] = r]
    BY <1>2, <1>3, <2>1 DEF Settle
  <2>3. /\ v.pc = "finalize" /\ v.m = w.m /\ v.todo = w.todo /\ v.mode = w.mode
        /\ v.why = w.why /\ v.out = w.out /\ v.count = w.count /\ v.target = w.target /\ v.sum = w.sum
    BY <2>1 DEF ProcType
  <2>4. Knows(p, v)
    BY <2>3, StaysInHand DEF Pulling
  <2>5. \A k \in Mutations : RecTrue(rec'[k], k)
    BY <1>0, <2>2, OneRecordTrue
  <2> QED
    BY <2>2, <2>4, <2>5, RouterTrueSame
<1>4. CASE ~Finalizes(w)
  <2>1. PICK m : m = w.m
    OBVIOUS
  <2>2. PICK a : a = At(w)
    OBVIOUS
  <2>3. PICK r2 : r2 = Advanced(r, m, a)
    OBVIOUS
  <2>4. PICK v : v = NextShard(w, r2)
    OBVIOUS
  <2>5. Continue(p, v) /\ rec' = [rec EXCEPT ![m] = r2]
    BY <1>2, <1>4, <2>1, <2>2, <2>3, <2>4 DEF Settle
  <2>6. /\ m \in Mutations /\ a \in ShardsOf(m) /\ Shaped(r, m) /\ r.state # "none"
        /\ (r.state = "open" => r.shards[a].done) /\ RecTrue(r, m) /\ Visible(a, m)
    BY <1>0, <1>1, <2>1, <2>2
  <2>7. RecTrue(r2, m) /\ r2 \in RecType
    BY <2>3, <2>6, AdvancedTrue, AdvancedRecord
  <2>8. Knows(p, v)
    <3>1. w.pc \in Working /\ Role(p, w) /\ Outs(w) /\ Merges(w) /\ w.count = journal[At(w)][w.m].first
      BY DEF InHand
    <3>2. RecTrue(r2, w.m)
      BY <2>1, <2>7
    <3> QED
      BY <1>0, <2>4, <2>7, <3>1, <3>2, NextShardKnows
  <2>9. \A k \in Mutations : RecTrue(rec'[k], k)
    BY <2>5, <2>6, <2>7, OneRecordTrue
  <2> QED
    BY <2>5, <2>8, <2>9, RouterTrueSame
<1> QED
  BY <1>3, <1>4

(* SagaInv through Project.                                                 *)
LEMMA ProjectTrue ==
  ASSUME PullInv, PullInv', SagaInv, NEW p \in Procs, NoExec(p), NEW w \in ProcType, NEW r \in RecType,
         AtCaptured(w, r), InHand(p, w), RecTrue(r, w.m),
         Project(p, w, r), UNCHANGED <<cursor, shardVars>>
  PROVE  SagaInv'
<1>0. AtWork(w) /\ w.m \in Mutations /\ At(w) \in Shards
  BY AtInTodo DEF AtCaptured, AtWork
<1>1. CASE cursor[At(w)] >= w.target
  <2>1. cursor[At(w)] \in Nat /\ w.target \in Nat
    BY <1>0 DEF PullInv, RouterType, ProcType
  <2>2. Visible(At(w), w.m)
    BY <1>1, <2>1 DEF Visible, InHand
  <2>3. Settle(p, w, r)
    BY <1>1 DEF Project
  <2> QED
    BY <2>2, <2>3, SettleTrue
<1>2. CASE ~ (cursor[At(w)] >= w.target)
  <2>1. PICK k : k = cursor[At(w)] + 1
    OBVIOUS
  <2>2. PICK v : v = [w EXCEPT !.pc = "list", !.ans = Waiting, !.from = k]
    OBVIOUS
  <2>3. Continue(p, v) /\ rec' = [rec EXCEPT ![w.m] = r]
    BY <1>2, <2>1, <2>2 DEF Project
  <2>4. /\ v.pc = "list" /\ v.m = w.m /\ v.todo = w.todo /\ v.mode = w.mode
        /\ v.why = w.why /\ v.out = w.out /\ v.count = w.count /\ v.target = w.target /\ v.sum = w.sum
    BY <2>2 DEF ProcType
  <2>5. Knows(p, v)
    BY <2>4, StaysInHand DEF Pulling
  <2>6. \A x \in Mutations : RecTrue(rec'[x], x)
    BY <1>0, <2>3, OneRecordTrue
  <2> QED
    BY <2>3, <2>5, <2>6, RouterTrueSame
<1> QED
  BY <1>1, <1>2
(* A process at work.                                                       *)
LEMMA WorkerFacts ==
  ASSUME PullInv, SagaInv, NEW p \in Procs, NEW w, w = proc[p], w.pc \in Working
  PROVE  /\ NoExec(p) /\ Knows(p, w) /\ w.pc \in Active
         /\ Role(p, w) /\ Heard(w) /\ Outs(w) /\ HasEntry(w) /\ Merges(w)
         /\ w.why = "none" /\ RecTrue(rec[w.m], w.m)
<1>1. Knows(p, w)
  BY DEF SagaInv
<1>2. w.pc \in Active /\ w.pc # "exec"
  BY DEF Active, Working, Reads
<1>3. w.m \in Mutations
  BY AnsweredFacts
<1> QED
  BY <1>1, <1>2, <1>3 DEF Knows, Role, Heard, NoExec, SagaInv

(* SagaInv through Lost.                                                    *)
LEMMA LostTrue ==
  ASSUME PullInv, PullInv', SagaInv, NEW p \in Procs, NoExec(p), Lost(p)
  PROVE  SagaInv'
BY GivesUpTrue DEF Lost

(* SagaInv through ReadEntry.                                               *)
LEMMA ReadEntryTrue ==
  ASSUME PullInv, PullInv', SagaInv, NEW p \in Procs, ReadEntry(p)
  PROVE  SagaInv'
<1>0. PICK w : w = proc[p]
  OBVIOUS
<1>1. w.pc = "fetch" /\ w.ans.kind # "waiting" /\ w.pc \in Working
  BY <1>0 DEF ReadEntry, Answered, Working, Reads
<1>2. /\ w \in ProcType /\ Pulls(w) /\ AtWork(w) /\ w.m \in Mutations
      /\ At(w) \in w.todo /\ At(w) \in ShardsOf(w.m) /\ At(w) \in Shards
      /\ rec[w.m].state # "none" /\ w.mode \in {"capture", "reconcile", "recover"}
      /\ rec[w.m] \in RecType /\ Shaped(rec[w.m], w.m)
      /\ w.ans.first \in Nat /\ w.ans.last \in Nat
  BY <1>0, <1>1, AnsweredFacts
<1>3. /\ NoExec(p) /\ Knows(p, w) /\ Role(p, w) /\ Heard(w) /\ Outs(w) /\ Merges(w)
      /\ w.why = "none" /\ RecTrue(rec[w.m], w.m)
  BY <1>0, <1>1, WorkerFacts
<1>4. /\ w.ans.kind = "entry" => w.ans = journal[At(w)][w.m]
      /\ w.ans.kind = "none" => w.mode # "reconcile" /\
            (w.mode = "capture" => w.out[At(w)].kind = "failed")
  BY <1>1, <1>3 DEF Heard
<1>5. CASE Lost(p)
  BY <1>3, <1>5, LostTrue
<1>6. CASE /\ w.ans.kind = "none" /\ Continue(p, NoEntry(w))
           /\ UNCHANGED <<routerVars, shardVars, faults>>
  <2>0. UNCHANGED <<rec, cursor, shardVars>>
    BY <1>6 DEF routerVars
  <2>1. CASE w.mode = "recover"
    <3>1. PICK r : r = rec[w.m]
      OBVIOUS
    <3>2. PICK v : v = NextShard(w, r)
      OBVIOUS
    <3>3. Continue(p, v)
      BY <1>6, <2>1, <3>1, <3>2 DEF NoEntry
    <3>4. Knows(p, v)
      BY <1>1, <1>2, <1>3, <2>1, <3>1, <3>2, NextShardKnows
    <3>5. \A k \in Mutations : RecTrue(rec'[k], k)
      BY <2>0, SameRecordsTrue
    <3> QED
      BY <1>3, <2>0, <3>3, <3>4, <3>5, RouterTrueSame
  <2>2. CASE w.mode # "recover"
    <3>1. w.mode = "capture" /\ w.out[At(w)].kind = "failed"
      BY <1>2, <1>4, <1>6, <2>2
    <3>2. NoEntry(w) = Failed(w, "none")
      BY <3>1 DEF NoEntry
    <3> QED
      BY <1>3, <1>6, <3>2, GivesUpTrue
  <2> QED
    BY <2>1, <2>2
<1>7. ~ (w.ans.kind = "entry" /\ Conflicts(rec[w.m], At(w), w.ans.first))
  <2>1. (rec[w.m].state = "open" /\ rec[w.m].shards[At(w)].done) =>
          rec[w.m].shards[At(w)].count = journal[At(w)][w.m].first
    BY <1>2, <1>3 DEF RecTrue
  <2> QED
    BY <1>4, <2>1 DEF Conflicts
<1>8. CASE /\ w.ans.kind = "entry"
           /\ Project(p, [w EXCEPT !.count = w.ans.first, !.target = w.ans.last],
                      Captured(rec[w.m], At(w), w.ans.first))
           /\ UNCHANGED <<cursor, stats, shardVars, faults>>
  <2>1. PICK u : u = [w EXCEPT !.count = w.ans.first, !.target = w.ans.last]
    OBVIOUS
  <2>2. PICK r : r = Captured(rec[w.m], At(w), w.ans.first)
    OBVIOUS
  <2>3. /\ u \in ProcType /\ u.m = w.m /\ u.todo = w.todo /\ u.mode = w.mode
        /\ u.target = w.ans.last /\ u.count = w.ans.first /\ u.pc = w.pc /\ u.out = w.out
        /\ u.sum = w.sum /\ u.why = w.why
    BY <1>2, <2>1 DEF ProcType
  <2>4. At(u) = At(w)
    BY <2>3 DEF At
  <2>5. /\ r \in RecType /\ Shaped(r, w.m) /\ Forth(rec[w.m], r) /\ r.state = rec[w.m].state
        /\ r.state = "open" => r.shards[At(w)].done
    BY <1>2, <2>2, CapturedRecord
  <2>6. w.ans.last <= Len(log[At(w)])
    BY <1>1, <1>2, <1>8 DEF Pulls
  <2>7. AtCaptured(u, r)
    BY <1>2, <2>3, <2>4, <2>5, <2>6 DEF AtCaptured, AtWork
  <2>8. w.ans = journal[At(w)][w.m] /\ Entry(At(w), w.m)
    BY <1>4, <1>8 DEF Entry
  <2>9. InHand(p, u)
    <3>1. Role(p, u)
      BY <1>3, <2>3 DEF Role
    <3>2. Outs(u) /\ Merges(u)
      BY <1>3, <2>3 DEF Outs, Merges
    <3> QED
      BY <1>1, <2>3, <2>4, <2>8, <3>1, <3>2 DEF InHand
  <2>10. RecTrue(r, u.m)
    <3>1. PICK n : n = w.ans.first
      OBVIOUS
    <3>2. PICK m : m = w.m
      OBVIOUS
    <3>3. PICK a : a = At(w)
      OBVIOUS
    <3>4. PICK r0 : r0 = rec[w.m]
      OBVIOUS
    <3>5. /\ m \in Mutations /\ r0 \in RecType /\ Shaped(r0, m) /\ r0.state # "none" /\ RecTrue(r0, m)
          /\ a \in Shards /\ Entry(a, m) /\ n \in Nat /\ n = journal[a][m].first
          /\ r = Captured(r0, a, n)
      BY <1>2, <1>3, <2>2, <2>8, <3>1, <3>2, <3>3, <3>4
    <3>6. RecTrue(r, m)
      BY <3>5, CapturedTrue
    <3> QED
      BY <2>3, <3>2, <3>6
  <2> QED
    BY <1>3, <1>8, <2>1, <2>2, <2>3, <2>5, <2>7, <2>9, <2>10, ProjectTrue
<1> QED
  BY <1>0, <1>5, <1>6, <1>7, <1>8 DEF ReadEntry

(* SagaInv through ReadAck.                                                 *)
LEMMA ReadAckTrue ==
  ASSUME PullInv, PullInv', SagaInv, NEW p \in Procs, ReadAck(p)
  PROVE  SagaInv'
<1>0. PICK w : w = proc[p]
  OBVIOUS
<1>1. w.pc = "ack" /\ w.pc \in Working /\ w.pc \in Pulling
  BY <1>0 DEF ReadAck, Answered, Working, Reads, Pulling
<1>2. /\ w \in ProcType /\ Pulls(w) /\ AtWork(w) /\ w.m \in Mutations
      /\ rec[w.m].state # "none" /\ w.mode \in {"capture", "reconcile", "recover"}
      /\ rec[w.m] \in RecType /\ Shaped(rec[w.m], w.m)
  BY <1>0, <1>1, AnsweredFacts
<1>3. /\ NoExec(p) /\ Role(p, w) /\ Outs(w) /\ HasEntry(w) /\ Merges(w) /\ RecTrue(rec[w.m], w.m)
  BY <1>0, <1>1, WorkerFacts
<1>4. CASE Lost(p)
  BY <1>3, <1>4, LostTrue
<1>5. CASE Project(p, w, rec[w.m]) /\ UNCHANGED <<cursor, stats, shardVars, faults>>
  <2>1. Forth(rec[w.m], rec[w.m])
    BY <1>2 DEF Forth
  <2>2. AtCaptured(w, rec[w.m])
    BY <1>1, <1>2, <2>1 DEF AtCaptured, Pulls
  <2>3. InHand(p, w)
    BY <1>1, <1>3 DEF InHand, HasEntry
  <2> QED
    BY <1>2, <1>3, <1>5, <2>2, <2>3, ProjectTrue
<1> QED
  BY <1>0, <1>4, <1>5 DEF ReadAck

(* Hot vertices were finalized: the shard was visible before.               *)
LEMMA FinalizedTrue ==
  ASSUME PullInv, PullInv', SagaInv, NEW p \in Procs, Finalized(p)
  PROVE  SagaInv'
<1>0. PICK w : w = proc[p]
  OBVIOUS
<1>1. w.pc = "finalize" /\ w.pc \in Working /\ w.pc \in Pulling
  BY <1>0 DEF Finalized, Working, Pulling
<1>2. /\ w \in ProcType /\ Pulls(w) /\ AtWork(w) /\ w.m \in Mutations /\ At(w) \in ShardsOf(w.m)
      /\ rec[w.m].state # "none" /\ w.mode \in {"capture", "reconcile", "recover"}
      /\ rec[w.m] \in RecType /\ Shaped(rec[w.m], w.m)
  BY <1>0, <1>1, AnsweredFacts
<1>3. /\ NoExec(p) /\ Role(p, w) /\ Outs(w) /\ HasEntry(w) /\ Merges(w) /\ RecTrue(rec[w.m], w.m)
  BY <1>0, <1>1, WorkerFacts
<1>4. PICK m : m = w.m
  OBVIOUS
<1>5. PICK a : a = At(w)
  OBVIOUS
<1>6. PICK r : r = rec[m]
  OBVIOUS
<1>7. PICK r2 : r2 = Advanced(r, m, a)
  OBVIOUS
<1>8. PICK v : v = NextShard(w, r2)
  OBVIOUS
<1>9. /\ Continue(p, v) /\ rec' = [rec EXCEPT ![m] = r2] /\ UNCHANGED <<cursor, shardVars>>
  BY <1>0, <1>4, <1>5, <1>6, <1>7, <1>8 DEF Finalized
<1>10. /\ Visible(At(w), w.m) /\ w.count = journal[At(w)][w.m].first
       /\ r.state = "open" => r.shards[a].done
  BY <1>1, <1>2, <1>3, <1>4, <1>5, <1>6 DEF Pulls, HasEntry
<1>11. /\ m \in Mutations /\ a \in ShardsOf(m) /\ r \in RecType /\ Shaped(r, m) /\ r.state # "none"
       /\ RecTrue(r, m) /\ Visible(a, m)
  BY <1>2, <1>3, <1>4, <1>5, <1>6, <1>10
<1>12. RecTrue(r2, m) /\ r2 \in RecType
  BY <1>7, <1>10, <1>11, AdvancedTrue, AdvancedRecord
<1>13. Knows(p, v)
  <2>1. RecTrue(r2, w.m)
    BY <1>4, <1>12
  <2> QED
    BY <1>1, <1>2, <1>3, <1>8, <1>10, <1>12, <2>1, NextShardKnows
<1>14. \A k \in Mutations : RecTrue(rec'[k], k)
  BY <1>9, <1>11, <1>12, OneRecordTrue
<1> QED
  BY <1>3, <1>9, <1>13, <1>14, RouterTrueSame

(* SagaInv through FinalizeFailed.                                          *)
LEMMA FinalizeFailedTrue ==
  ASSUME PullInv, PullInv', SagaInv, NEW p \in Procs, FinalizeFailed(p)
  PROVE  SagaInv'
<1>1. NoExec(p)
  BY DEF FinalizeFailed, NoExec
<1> QED
  BY <1>1, GivesUpTrue DEF FinalizeFailed

(* A page is neither empty nor does it leave a gap.                         *)
LEMMA ReadPageTrue ==
  ASSUME PullInv, PullInv', SagaInv, NEW p \in Procs, ReadPage(p)
  PROVE  SagaInv'
<1>0. PICK w : w = proc[p]
  OBVIOUS
<1>1. w.pc = "list" /\ w.ans.kind # "waiting" /\ w.pc \in Working /\ w.pc \in Pulling
  BY <1>0 DEF ReadPage, Answered, Working, Reads, Pulling
<1>2. /\ w \in ProcType /\ Pulls(w) /\ AtWork(w) /\ w.m \in Mutations /\ At(w) \in Shards
      /\ w.ans.first \in Nat /\ w.ans.last \in Nat
  BY <1>0, <1>1, AnsweredFacts
<1>3. /\ NoExec(p) /\ Role(p, w) /\ Outs(w) /\ HasEntry(w) /\ Merges(w)
  BY <1>0, <1>1, WorkerFacts
<1>4. w.ans.kind = "page" => w.ans.first = w.from /\ w.ans.first <= w.ans.last
  BY <1>1, <1>2 DEF Pulls
<1>5. CASE Lost(p)
  BY <1>3, <1>5, LostTrue
<1>6. CASE /\ w.ans.kind = "page" /\ w.ans.first <= w.ans.last
           /\ cursor' = [cursor EXCEPT ![At(w)] = Max({@, w.ans.last})]
           /\ Continue(p, [w EXCEPT !.pc = "ack", !.ans = Waiting, !.from = w.ans.last])
           /\ UNCHANGED <<rec, shardVars, faults>>
  <2>1. PICK v : v = [w EXCEPT !.pc = "ack", !.ans = Waiting, !.from = w.ans.last]
    OBVIOUS
  <2>2. /\ v.pc = "ack" /\ v.m = w.m /\ v.todo = w.todo /\ v.mode = w.mode
        /\ v.why = w.why /\ v.out = w.out /\ v.count = w.count /\ v.target = w.target /\ v.sum = w.sum
    BY <1>2, <2>1 DEF ProcType
  <2>3. InHand(p, w)
    BY <1>1, <1>3 DEF InHand, HasEntry
  <2>4. Knows(p, v)
    BY <2>2, <2>3, StaysInHand DEF Pulling
  <2>5. \A s \in Shards : cursor[s] <= cursor'[s]
    <3>0. cursor \in [Shards -> Nat]
      BY DEF PullInv, RouterType
    <3>1. PICK a : a = At(w)
      OBVIOUS
    <3>2. PICK k : k = Max({cursor[a], w.ans.last})
      OBVIOUS
    <3>3. cursor[a] \in Nat /\ k \in Nat /\ cursor[a] <= k
      BY <1>2, <3>0, <3>1, <3>2, MaxOfTwo
    <3>4. cursor' = [cursor EXCEPT ![a] = k]
      BY <1>6, <3>1, <3>2
    <3> QED
      BY <3>0, <3>3, <3>4
  <2>6. \A k \in Mutations : RecTrue(rec'[k], k)
    BY <1>6, SameRecordsTrue
  <2> QED
    BY <1>3, <1>6, <2>1, <2>4, <2>5, <2>6, RouterTrue
<1>7. \/ Lost(p)
      \/ w.ans.kind = "page" /\ w.ans.first > w.ans.last
      \/ w.ans.kind = "page" /\ w.ans.first <= w.ans.last /\ w.ans.first # w.from
      \/ /\ w.ans.kind = "page" /\ w.ans.first <= w.ans.last
         /\ cursor' = [cursor EXCEPT ![At(w)] = Max({@, w.ans.last})]
         /\ Continue(p, [w EXCEPT !.pc = "ack", !.ans = Waiting, !.from = w.ans.last])
         /\ UNCHANGED <<rec, shardVars, faults>>
  BY <1>0 DEF ReadPage
<1> QED
  BY <1>2, <1>4, <1>5, <1>6, <1>7
(* A process that takes up the shards of todo.                              *)
LEMMA FetchKnows ==
  ASSUME NEW p \in Procs, NEW v, v.pc = "fetch", v.ans = Waiting, v.why = "none",
         p \in Calls => v.m = KeyOf[p],
         IF p = Recovery THEN v.mode = "recover" ELSE v.mode \in {"capture", "reconcile"},
         Outs(v), Merges(v)
  PROVE  Knows(p, v)
<1>1. Role(p, v)
  BY DEF Role
<1>2. Heard(v)
  BY DEF Heard, Waiting
<1>3. HasEntry(v) /\ Told(p, v)
  BY DEF HasEntry, Told, Pulling
<1> QED
  BY <1>1, <1>2, <1>3 DEF Knows

(* No answers are true answers.                                             *)
LEMMA AllWaiting ==
  ASSUME NEW v, v.m \in Mutations, v.out = [s \in Shards |-> Waiting]
  PROVE  Outs(v)
<1>1. ShardsOf(v.m) \subseteq Shards
  BY ShardsOfEnvelope
<1> QED
  BY <1>1 DEF Outs, Waiting

(* SagaInv through Prepare.                                                 *)
LEMMA PrepareTrue ==
  ASSUME PullInv, PullInv', SagaInv, NEW c \in Calls, Prepare(c)
  PROVE  SagaInv'
<1>0. PICK m : m = KeyOf[c]
  OBVIOUS
<1>1. /\ c \in Procs /\ m \in Mutations /\ c # Recovery /\ rec[m].total \in Nat
      /\ rec \in [Mutations -> RecType] /\ \A k \in Mutations : RecTrue(rec[k], k)
      /\ ShardsOf(m) \subseteq Shards
  BY <1>0, CallFacts, RecordFacts, ShardsOfEnvelope DEF PullInv, RouterType, SagaInv
<1>2. /\ proc[c].pc = "new" /\ UNCHANGED <<cursor, shardVars>>
      /\ rec' = IF rec[m].state = "none" THEN [rec EXCEPT ![m] = Envelope] ELSE rec
      /\ Continue(c, CASE rec[m].state = "done" -> Replied(rec[m].total)
                       [] rec[m].state # "done" /\ Unprojected(m) # {} ->
                            Fetching(About("prepared", m), "reconcile", Unprojected(m))
                       [] OTHER -> About("prepared", m))
  BY <1>0 DEF Prepare, About
<1>3. NoExec(c)
  BY <1>2 DEF NoExec
<1>4. \A k \in Mutations : RecTrue(rec'[k], k)
  <2>1. CASE rec[m].state = "none"
    <3>1. RecTrue(Envelope, m)
      BY <1>1, EnvelopeRecord DEF RecTrue
    <3>2. PICK r : r = Envelope
      OBVIOUS
    <3>3. rec' = [rec EXCEPT ![m] = r] /\ RecTrue(r, m)
      BY <1>2, <2>1, <3>1, <3>2
    <3> QED
      BY <1>1, <3>3, OneRecordTrue
  <2>2. CASE rec[m].state # "none"
    BY <1>2, <2>2, SameRecordsTrue
  <2> QED
    BY <2>1, <2>2
<1>5. ASSUME NEW v, Continue(c, v), Knows(c, v) PROVE SagaInv'
  BY <1>1, <1>2, <1>3, <1>4, <1>5, RouterTrueSame
<1>6. CASE rec[m].state = "done"
  <2>1. Continue(c, Replied(rec[m].total))
    BY <1>2, <1>6
  <2>2. PICK v : v = Replied(rec[m].total)
    OBVIOUS
  <2>3. v.pc = "ok" /\ v.mode = "none" /\ v.why = "none" /\ v.count = rec[m].total
    BY <1>1, <2>2, RepliedFields
  <2>4. (\A t \in ShardsOf(m) : Visible(t, m)) /\ rec[m].total = RowsOf(m)
    BY <1>1, <1>6 DEF RecTrue
  <2>5. Knows(c, v)
    BY <1>0, <2>3, <2>4, RepliedKnows
  <2> QED
    BY <1>5, <2>1, <2>2, <2>5
<1>7. CASE rec[m].state # "done" /\ Unprojected(m) # {}
  <2>1. PICK w : w = About("prepared", m)
    OBVIOUS
  <2>2. PICK v : v = Fetching(w, "reconcile", Unprojected(m))
    OBVIOUS
  <2>3. Continue(c, v)
    BY <1>2, <1>7, <2>1, <2>2
  <2>4. w \in ProcType /\ w.m = m /\ w.out = [s \in Shards |-> Waiting] /\ w.why = "none"
    BY <1>1, <2>1, PreparedFields
  <2>5. Unprojected(m) \subseteq Shards
    BY <1>1 DEF Unprojected
  <2>6. /\ v.pc = "fetch" /\ v.mode = "reconcile" /\ v.m = m /\ v.todo = Unprojected(m)
        /\ v.ans = Waiting /\ v.out = [s \in Shards |-> Waiting] /\ v.why = "none"
    BY <2>2, <2>4, <2>5, FetchingFields
  <2>7. \A t \in Unprojected(m) : Entry(t, m)
    <3>1. \A t \in Unprojected(m) : t \in Shards /\ rec[m].shards[t].done
      BY <1>1 DEF Unprojected
    <3>2. rec[m].state = "open"
      <4>1. rec[m].state \in {"none", "open", "done"} /\ Shaped(rec[m], m)
        BY <1>1, RecordFacts
      <4>2. ASSUME rec[m].state = "none" PROVE FALSE
        <5>1. rec[m] = NoRecord
          BY <4>1, <4>2 DEF Shaped
        <5>2. \A t \in Shards : ~rec[m].shards[t].done
          BY <5>1 DEF NoRecord, Pristine
        <5> QED
          BY <1>7, <3>1, <5>2
      <4> QED
        BY <1>7, <4>1, <4>2
    <3> QED
      BY <1>1, <3>1, <3>2 DEF RecTrue
  <2>8. Merges(v)
    BY <2>6, <2>7 DEF Merges
  <2>9. Outs(v)
    BY <1>1, <2>6, AllWaiting
  <2>10. Knows(c, v)
    BY <1>0, <1>1, <2>6, <2>8, <2>9, FetchKnows
  <2> QED
    BY <1>5, <2>3, <2>10
<1>8. CASE rec[m].state # "done" /\ Unprojected(m) = {}
  <2>1. PICK v : v = About("prepared", m)
    OBVIOUS
  <2>2. Continue(c, v)
    BY <1>2, <1>8, <2>1
  <2>3. /\ v.m = m /\ v.pc = "prepared" /\ v.mode = "none" /\ v.why = "none"
        /\ v.out = [s \in Shards |-> Waiting] /\ v.sum = 0
    BY <1>1, <2>1, PreparedFields
  <2>4. Outs(v)
    BY <1>1, <2>3, AllWaiting
  <2>5. Role(c, v)
    BY <1>0, <2>3 DEF Role, Working, Reads
  <2>6. Knows(c, v)
    BY <2>3, <2>4, <2>5 DEF Knows, Heard, HasEntry, Merges, Told, Working, Pulling, Reads
  <2> QED
    BY <1>5, <2>2, <2>6
<1> QED
  BY <1>6, <1>7, <1>8

(* Every shard has answered or failed: nothing is merged yet.               *)
LEMMA DispatchedTrue ==
  ASSUME PullInv, PullInv', SagaInv, NEW c \in Calls, Dispatched(c)
  PROVE  SagaInv'
<1>0. PICK w : w = proc[c]
  OBVIOUS
<1>1. /\ w.pc = "exec" /\ w.pc \in Active /\ \A s \in ShardsOf(w.m) : w.out[s].kind # "waiting"
      /\ UNCHANGED <<rec, cursor, shardVars>>
  BY <1>0 DEF Dispatched, routerVars, Active
<1>2. c \in Procs /\ w \in ProcType /\ Pulls(w) /\ c # Recovery /\ Knows(c, w)
  BY <1>0, CallFacts DEF SagaInv
<1>3. w.m \in Mutations /\ w.m = KeyOf[c] /\ w.sum = 0 /\ w.why = "none" /\ Outs(w)
  BY <1>1, <1>2 DEF Pulls, Knows, Role, Heard
<1>4. NoExec(c)
  BY <1>0, <1>1 DEF NoExec
<1>5. PICK v : v = Fetching(w, "capture", ShardsOf(w.m))
  OBVIOUS
<1>6. Continue(c, v)
  BY <1>0, <1>5 DEF Dispatched
<1>7. /\ v.pc = "fetch" /\ v.mode = "capture" /\ v.m = w.m /\ v.todo = ShardsOf(w.m)
      /\ v.ans = Waiting /\ v.out = w.out /\ v.sum = 0 /\ v.why = "none"
  BY <1>2, <1>3, <1>5, FetchingFields, ShardsOfEnvelope
<1>8. Outs(v)
  BY <1>3, <1>7 DEF Outs
<1>9. Merges(v)
  <2>1. ShardsOf(v.m) \ v.todo = {}
    BY <1>7
  <2>2. PICK g : g = RowsAt(v.m)
    OBVIOUS
  <2>3. Total(g, {}) = 0
    BY FS_EmptySet, TotalBase
  <2> QED
    BY <1>1, <1>7, <2>1, <2>2, <2>3 DEF Merges
<1>10. Knows(c, v)
  BY <1>2, <1>3, <1>7, <1>8, <1>9, FetchKnows
<1>11. \A k \in Mutations : RecTrue(rec'[k], k)
  BY <1>1, SameRecordsTrue
<1> QED
  BY <1>1, <1>2, <1>4, <1>6, <1>10, <1>11, RouterTrueSame

(* SagaInv through RecoverStart.                                            *)
LEMMA RecoverStartTrue ==
  ASSUME PullInv, PullInv', SagaInv, NEW m \in Mutations, RecoverStart(m)
  PROVE  SagaInv'
<1>1. /\ proc[Recovery].pc = "idle" /\ UNCHANGED <<rec, cursor, shardVars>>
      /\ Continue(Recovery, Fetching(About("idle", m), "recover", Unfinished(m)))
  BY DEF RecoverStart, About, routerVars
<1>2. Recovery \in Procs /\ Recovery \notin Calls /\ NoExec(Recovery)
  BY <1>1, SagaConstants DEF Procs, NoExec
<1>3. PICK w : w = About("idle", m)
  OBVIOUS
<1>4. PICK v : v = Fetching(w, "recover", Unfinished(m))
  OBVIOUS
<1>5. w \in ProcType /\ w.m = m /\ w.out = [s \in Shards |-> Waiting] /\ w.why = "none"
  BY <1>3, PreparedFields
<1>6. Unfinished(m) \subseteq Shards
  BY ShardsOfEnvelope DEF Unfinished
<1>7. /\ v.pc = "fetch" /\ v.mode = "recover" /\ v.m = m /\ v.ans = Waiting
      /\ v.out = [s \in Shards |-> Waiting] /\ v.why = "none"
  BY <1>4, <1>5, <1>6, FetchingFields
<1>8. Outs(v) /\ Merges(v)
  BY <1>7, AllWaiting DEF Merges
<1>9. Knows(Recovery, v) /\ Continue(Recovery, v)
  BY <1>1, <1>2, <1>3, <1>4, <1>7, <1>8, FetchKnows
<1>10. \A k \in Mutations : RecTrue(rec'[k], k)
  BY <1>1, SameRecordsTrue
<1> QED
  BY <1>1, <1>2, <1>9, <1>10, RouterTrueSame
(* A call sends the plans to the shards that its record does not mark done. *)
LEMMA DispatchTrue ==
  ASSUME PullInv, PullInv', SagaInv, NEW c \in Calls, Dispatch(c)
  PROVE  SagaInv'
<1>0. PICK w : w = proc[c]
  OBVIOUS
<1>1. w.pc = "prepared" /\ w.pc \in Active /\ UNCHANGED <<rec, cursor, shardVars>>
  BY <1>0 DEF Dispatch, routerVars, Active
<1>2. c \in Procs /\ w \in ProcType /\ Pulls(w) /\ c # Recovery /\ Knows(c, w)
  BY <1>0, CallFacts DEF SagaInv
<1>3. /\ w.m \in Mutations /\ rec[w.m].state # "none" /\ w.m = KeyOf[c] /\ w.sum = 0
      /\ w.why = "none" /\ w.mode # "recover" /\ ShardsOf(w.m) \subseteq Shards
  BY <1>1, <1>2, ShardsOfEnvelope DEF Pulls, Knows, Role
<1>4. NoExec(c) /\ \A k \in Mutations : RecTrue(rec'[k], k)
  BY <1>0, <1>1, SameRecordsTrue DEF NoExec
<1>5. rec[w.m] \in RecType /\ RecTrue(rec[w.m], w.m) /\ rec[w.m].total \in Nat
  BY <1>3, RecordFacts DEF SagaInv
<1>6. CASE rec[w.m].state = "done"
  <2>1. PICK v : v = Replied(rec[w.m].total)
    OBVIOUS
  <2>2. Continue(c, v)
    BY <1>0, <1>6, <2>1 DEF Dispatch
  <2>3. v.pc = "ok" /\ v.mode = "none" /\ v.why = "none" /\ v.count = rec[w.m].total
    BY <1>5, <2>1, RepliedFields
  <2>4. (\A t \in ShardsOf(w.m) : Visible(t, w.m)) /\ rec[w.m].total = RowsOf(w.m)
    BY <1>5, <1>6 DEF RecTrue
  <2>5. Knows(c, v)
    BY <1>3, <2>3, <2>4, RepliedKnows
  <2> QED
    BY <1>1, <1>2, <1>4, <2>2, <2>5, RouterTrueSame
<1>7. CASE rec[w.m].state # "done"
  <2>1. PICK to : to = {s \in ShardsOf(w.m) : Gate(rec[w.m], s)}
    OBVIOUS
  <2>2. PICK out : out = [s \in Shards |-> IF s \in to THEN Waiting ELSE Answer("captured", 0, 0)]
    OBVIOUS
  <2>3. PICK v : v = [w EXCEPT !.pc = "exec", !.out = out]
    OBVIOUS
  <2>4. PICK q : q = Request(c, "exec", w.m, 0)
    OBVIOUS
  <2>5. /\ proc' = [proc EXCEPT ![c] = v]
        /\ net' = [s \in Shards |-> IF s \in to THEN Append(net[s], q) ELSE net[s]]
    BY <1>0, <1>7, <2>1, <2>2, <2>3, <2>4 DEF Dispatch
  <2>6. /\ v.pc = "exec" /\ v.m = w.m /\ v.mode = w.mode /\ v.out = out /\ v.sum = 0
        /\ v.why = "none"
    BY <1>2, <1>3, <2>3 DEF ProcType
  <2>7. q.p = c /\ q.op = "exec" /\ q.m = w.m
    BY <2>4 DEF Request
  <2>8. /\ proc \in [Procs -> ProcType] /\ net \in [Shards -> Seq(ReqType)]
        /\ proc' \in [Procs -> ProcType] /\ proc'[c] = v
    BY <1>2, <2>5 DEF PullInv, RouterType
  <2>9. Outs(v)
    <3>1. \A s \in ShardsOf(w.m) : s \notin to => Entry(s, w.m)
      <4>1. rec[w.m].state = "open"
        BY <1>3, <1>5, <1>7 DEF RecType
      <4>2. \A s \in ShardsOf(w.m) : s \notin to => rec[w.m].shards[s].done
        BY <2>1 DEF Gate
      <4> QED
        BY <1>3, <1>5, <4>1, <4>2 DEF RecTrue
    <3>2. \A s \in ShardsOf(w.m) : out[s] = IF s \in to THEN Waiting ELSE Answer("captured", 0, 0)
      BY <1>3, <2>2
    <3> QED
      BY <2>6, <3>1, <3>2 DEF Outs, Waiting, Answer
  <2>10. Knows(c, v)
    <3>1. Role(c, v)
      BY <1>3, <2>6 DEF Role, Working, Reads
    <3> QED
      BY <2>6, <2>9, <3>1 DEF Knows, Heard, HasEntry, Merges, Told, Working, Pulling, Reads
  <2>11. Steady
    BY <1>1 DEF PullInv, RouterType, ShardType, shardVars, Steady
  <2>12. ASSUME NEW p \in Procs PROVE Knows(p, proc[p])'
    <3>1. CASE p = c
      <4>1. v \in ProcType /\ Placed(v)
        BY <1>2, <1>3, <2>6, <2>8 DEF Placed, Working, Reads
      <4>2. Knows(c, v)'
        BY <1>2, <2>10, <2>11, <4>1, KnowsKept
      <4> QED
        BY <1>2, <2>8, <3>1, <4>2, KnowsThen
    <3>2. CASE p # c
      <4>1. PICK u : u = proc[p]
        OBVIOUS
      <4>2. proc'[p] = u /\ u \in ProcType /\ Pulls(u) /\ Knows(p, u)
        BY <2>5, <2>8, <3>2, <4>1 DEF PullInv, SagaInv
      <4>3. Placed(u)
        BY <4>2, WorkingIsAtWork DEF Placed, Pulls
      <4> QED
        BY <2>11, <4>2, <4>3, KnowsKept, KnowsThen
    <3> QED
      BY <3>1, <3>2
  <2>13. ASSUME NEW s \in Shards PROVE ExecsAwaited(s, net[s])'
    <3>1. PICK n : n = net[s]
      OBVIOUS
    <3>2. n \in Seq(ReqType) /\ Len(n) \in Nat /\ ExecsAwaited(s, n)
      BY <2>8, <3>1 DEF SagaInv
    <3>3. PICK n2 : n2 = IF s \in to THEN Append(n, q) ELSE n
      OBVIOUS
    <3>4. net'[s] = n2
      BY <2>5, <3>1, <3>3
    <3>5. /\ \A i \in 1..Len(n) : n2[i] = n[i]
          /\ \/ Len(n2) = Len(n)
             \/ s \in to /\ Len(n2) = Len(n) + 1 /\ n2[Len(n) + 1] = q
      BY <3>2, <3>3
    <3>6. ASSUME NEW i \in 1..Len(n), n[i].live, n[i].op = "exec"
          PROVE  n[i].p # c /\ proc'[n[i].p] = proc[n[i].p]
      <4>1. n[i] \in ReqType /\ n[i].p # c
        BY <1>2, <1>4, <3>2, <3>6, NoExecIsQueued
      <4> QED
        BY <2>5, <2>8, <4>1 DEF ReqType
    <3>7. ExecsAwaited(s, n2)'
      <4> SUFFICES ASSUME NEW i \in 1..Len(n2), n2[i].live, n2[i].op = "exec"
                   PROVE  /\ n2[i].p \in Calls /\ s \in ShardsOf(n2[i].m)
                          /\ LET u == proc'[n2[i].p] IN u.pc = "exec" /\ u.m = n2[i].m /\ u.out[s] = Waiting
                          /\ \A j \in 1..(i - 1) : n2[j].live /\ n2[j].op = "exec" => n2[i].p # n2[j].p
        BY DEF ExecsAwaited
      <4>1. CASE i \in 1..Len(n)
        <5>1. n2[i] = n[i] /\ \A j \in 1..(i - 1) : n2[j] = n[j]
          BY <3>2, <3>5, <4>1
        <5>2. /\ n[i].p \in Calls /\ s \in ShardsOf(n[i].m)
              /\ LET u == proc[n[i].p] IN u.pc = "exec" /\ u.m = n[i].m /\ u.out[s] = Waiting
              /\ \A j \in 1..(i - 1) : n[j].live /\ n[j].op = "exec" => n[i].p # n[j].p
          BY <3>2, <4>1, <5>1 DEF ExecsAwaited
        <5>3. proc'[n[i].p] = proc[n[i].p]
          BY <3>6, <4>1, <5>1
        <5> QED
          BY <5>1, <5>2, <5>3
      <4>2. CASE s \in to /\ Len(n2) = Len(n) + 1 /\ n2[Len(n) + 1] = q /\ i = Len(n) + 1
        <5>1. n2[i] = q /\ \A j \in 1..(i - 1) : j \in 1..Len(n) /\ n2[j] = n[j]
          BY <3>2, <3>5, <4>2
        <5>2. out[s] = Waiting /\ s \in ShardsOf(w.m)
          BY <2>1, <2>2, <4>2
        <5>3. \A j \in 1..(i - 1) : n2[j].live /\ n2[j].op = "exec" => c # n2[j].p
          BY <3>6, <5>1
        <5> QED
          BY <2>6, <2>7, <2>8, <5>1, <5>2, <5>3
      <4> QED
        BY <3>2, <3>5, <4>1, <4>2
    <3> QED
      BY <3>4, <3>7, ExecsThen
  <2>14. (\A s \in Shards : runs[s] = {})' /\ AppliedWhole'
    BY <1>1 DEF SagaInv, AppliedWhole, Entry, shardVars
  <2>15. ASSUME NEW k \in Mutations PROVE RecTrue(rec[k], k)'
    <3>1. PICK r : r = rec'[k]
      OBVIOUS
    <3>2. RecTrue(r, k)'
      BY <1>4, <2>11, <3>1, RecTrueKept
    <3> QED
      BY <3>1, <3>2, RecTrueThen
  <2> QED
    BY <2>12, <2>13, <2>14, <2>15 DEF SagaInv
<1> QED
  BY <1>6, <1>7
------------------------------------------------------------------------------
(* Steps of the shards, and failures.                                       *)

(* The executions that are awaited when one request is answered.            *)
LEMMA AnswerExecs ==
  ASSUME PullInv, SagaInv, NEW s \in Shards, NEW k \in 1..Len(net[s]), NEW q, q = net[s][k],
         NEW a \in Answers, Deliver(q, s, a), NEW n2 \in Seq(ReqType), NEW f,
         net' = [net EXCEPT ![s] = n2], Thins(net[s], n2, f, k)
  PROVE  \A t \in Shards : ExecsAwaited(t, net[t])'
<1>0. proc \in [Procs -> ProcType] /\ net \in [Shards -> Seq(ReqType)] /\ q \in ReqType
  BY QueuedFacts DEF PullInv, RouterType
<1>1. /\ \A p \in Procs :
           /\ (p # q.p \/ ~q.live) => proc'[p] = proc[p]
           /\ proc'[p].pc = proc[p].pc /\ proc'[p].m = proc[p].m
           /\ q.op # "exec" => proc'[p].out = proc[p].out
      /\ q.live /\ q.op = "exec" => proc'[q.p].out = [proc[q.p].out EXCEPT ![s] = a]
  BY <1>0, DeliverFields
<1>2. \A t \in Shards \ {s} : net'[t] = net[t] /\ net'[s] = n2
  BY <1>0
<1>3. ASSUME NEW t \in Shards \ {s} PROVE ExecsAwaited(t, net[t])'
  <2>1. PICK n : n = net[t]
    OBVIOUS
  <2>2. n \in Seq(ReqType) /\ ExecsAwaited(t, n) /\ net'[t] = n
    BY <1>0, <1>2, <2>1 DEF SagaInv
  <2>3. ASSUME NEW i \in 1..Len(n), n[i].live, n[i].op = "exec"
        PROVE  LET u == proc'[n[i].p] IN u.pc = "exec" /\ u.m = n[i].m /\ u.out[t] = Waiting
    <3>1. PICK p : p = n[i].p
      OBVIOUS
    <3>2. n[i] \in ReqType /\ p \in Procs
      <4>1. n[i] \in ReqType
        BY <2>2
      <4> QED
        BY <3>1, <4>1 DEF ReqType
    <3>3. proc[p].pc = "exec" /\ proc[p].m = n[i].m /\ proc[p].out[t] = Waiting
      BY <2>2, <2>3, <3>1 DEF ExecsAwaited
    <3>4. proc[p].out \in [Shards -> Answers]
      BY <1>0, <3>2 DEF ProcType
    <3>5. proc'[p].out[t] = proc[p].out[t]
      <4>1. CASE q.live /\ q.op = "exec" /\ p = q.p
        BY <1>1, <3>4, <4>1
      <4>2. CASE ~ (q.live /\ q.op = "exec" /\ p = q.p)
        BY <1>1, <3>2, <4>2
      <4> QED
        BY <4>1, <4>2
    <3> QED
      BY <1>1, <3>1, <3>2, <3>3, <3>5
  <2>4. ExecsAwaited(t, n)'
    <3> SUFFICES ASSUME NEW i \in 1..Len(n), n[i].live, n[i].op = "exec"
                 PROVE  /\ n[i].p \in Calls /\ t \in ShardsOf(n[i].m)
                        /\ LET u == proc'[n[i].p] IN u.pc = "exec" /\ u.m = n[i].m /\ u.out[t] = Waiting
                        /\ \A j \in 1..(i - 1) : n[j].live /\ n[j].op = "exec" => n[i].p # n[j].p
      BY DEF ExecsAwaited
    <3> QED
      BY <2>2, <2>3 DEF ExecsAwaited
  <2> QED
    BY <2>2, <2>4, ExecsThen
<1>4. ExecsAwaited(s, net[s])'
  <2>1. PICK n : n = net[s]
    OBVIOUS
  <2>2. n \in Seq(ReqType) /\ Len(n) \in Nat /\ ExecsAwaited(s, n) /\ k \in 1..Len(n) /\ q = n[k]
        /\ Thins(n, n2, f, k) /\ net'[s] = n2
    BY <1>0, <2>1 DEF SagaInv
  <2>3. ExecsAwaited(s, n2)'
    <3> SUFFICES ASSUME NEW i \in 1..Len(n2), n2[i].live, n2[i].op = "exec"
                 PROVE  /\ n2[i].p \in Calls /\ s \in ShardsOf(n2[i].m)
                        /\ LET u == proc'[n2[i].p] IN u.pc = "exec" /\ u.m = n2[i].m /\ u.out[s] = Waiting
                        /\ \A j \in 1..(i - 1) : n2[j].live /\ n2[j].op = "exec" => n2[i].p # n2[j].p
      BY DEF ExecsAwaited
    <3>1. PICK x : x = f[i]
      OBVIOUS
    <3>2. x \in 1..Len(n) /\ x # k /\ n2[i] = n[x]
      BY <2>2, <3>1 DEF Thins
    <3>3. /\ n[x].p \in Calls /\ s \in ShardsOf(n[x].m)
          /\ LET u == proc[n[x].p] IN u.pc = "exec" /\ u.m = n[x].m /\ u.out[s] = Waiting
          /\ \A j \in 1..(x - 1) : n[j].live /\ n[j].op = "exec" => n[x].p # n[j].p
      BY <2>2, <3>2 DEF ExecsAwaited
    <3>4. ~ (q.live /\ q.op = "exec" /\ q.p = n[x].p)
      <4> SUFFICES ASSUME q.live, q.op = "exec", q.p = n[x].p PROVE FALSE
        OBVIOUS
      <4>1. CASE k < x
        <5>1. k \in 1..(x - 1)
          BY <2>2, <3>2, <4>1
        <5> QED
          BY <2>2, <3>3, <5>1
      <4>2. CASE x < k
        <5>1. x \in 1..(k - 1)
          BY <2>2, <3>2, <4>2
        <5>2. \A j \in 1..(k - 1) : n[j].live /\ n[j].op = "exec" => n[k].p # n[j].p
          BY <2>2 DEF ExecsAwaited
        <5> QED
          BY <2>2, <3>2, <5>1, <5>2
      <4> QED
        BY <2>2, <3>2, <4>1, <4>2
    <3>5. LET u == proc'[n[x].p] IN u.pc = "exec" /\ u.m = n[x].m /\ u.out[s] = Waiting
      <4>1. PICK p : p = n[x].p
        OBVIOUS
      <4>2. p \in Procs
        BY <3>3, <4>1 DEF Procs
      <4>3. proc'[p].pc = proc[p].pc /\ proc'[p].m = proc[p].m /\ proc'[p].out = proc[p].out
        BY <1>1, <3>4, <4>1, <4>2
      <4> QED
        BY <3>3, <4>1, <4>3
    <3>6. ASSUME NEW j \in 1..(i - 1), n2[j].live, n2[j].op = "exec" PROVE n2[i].p # n2[j].p
      <4>1. PICK y : y = f[j]
        OBVIOUS
      <4>2. j \in 1..Len(n2) /\ j < i
        OBVIOUS
      <4>3. y \in 1..Len(n) /\ y < x /\ n2[j] = n[y]
        BY <2>2, <3>1, <3>6, <4>1, <4>2 DEF Thins
      <4>4. y \in 1..(x - 1)
        BY <2>2, <3>2, <4>3
      <4> QED
        BY <3>2, <3>3, <3>6, <4>3, <4>4
    <3> QED
      BY <3>2, <3>3, <3>5, <3>6
  <2> QED
    BY <2>2, <2>3, ExecsThen
<1> QED
  BY <1>3, <1>4

(* What the process that is answered knows then.                            *)
LEMMA AnswerKnows ==
  ASSUME PullInv, PullInv', SagaInv, Steady, NEW s \in Shards, NEW k \in 1..Len(net[s]),
         NEW q, q = net[s][k], NEW a \in Answers, Deliver(q, s, a),
         q.op = "exec" => /\ a.kind \in {"failed", "ok"}
                          /\ a.kind = "ok" => Entry(s, q.m)' /\ a.first = journal'[s][q.m].first,
         (q.op = "fetch" /\ a.kind = "entry") => a = journal'[s][q.m],
         (q.op = "fetch" /\ a.kind = "none") => ~Entry(s, q.m)
  PROVE  \A p \in Procs : Knows(p, proc[p])'
<1>0. /\ proc \in [Procs -> ProcType] /\ net \in [Shards -> Seq(ReqType)] /\ q \in ReqType
      /\ (q.live /\ q.op # "exec") => Awaits(proc[q.p], s, q)
  BY QueuedFacts DEF PullInv, RouterType
<1>1. /\ \A p \in Procs :
           /\ (p # q.p \/ ~q.live) => proc'[p] = proc[p]
           /\ proc'[p].pc = proc[p].pc /\ proc'[p].mode = proc[p].mode
           /\ proc'[p].m = proc[p].m /\ proc'[p].todo = proc[p].todo
           /\ proc'[p].count = proc[p].count /\ proc'[p].target = proc[p].target
           /\ proc'[p].sum = proc[p].sum /\ proc'[p].why = proc[p].why
           /\ q.op = "exec" => proc'[p].ans = proc[p].ans
           /\ q.op # "exec" => proc'[p].out = proc[p].out
      /\ q.live /\ q.op # "exec" => proc'[q.p].ans = a
      /\ q.live /\ q.op = "exec" => proc'[q.p].out = [proc[q.p].out EXCEPT ![s] = a]
  BY <1>0, DeliverFields
<1> TAKE p \in Procs
<1>2. PICK w : w = proc[p]
  OBVIOUS
<1>3. PICK v : v = proc'[p]
  OBVIOUS
<1>4. w \in ProcType /\ Pulls(w) /\ Knows(p, w)
  BY <1>0, <1>2 DEF PullInv, SagaInv
<1>5. Placed(w)
  BY <1>4, WorkingIsAtWork DEF Placed, Pulls
<1>6. Knows(p, w)'
  BY <1>4, <1>5, KnowsKept
<1>7. CASE p # q.p \/ ~q.live
  BY <1>1, <1>2, <1>6, <1>7, KnowsThen
<1>8. CASE p = q.p /\ q.live
  <2>0. /\ v.pc = w.pc /\ v.mode = w.mode /\ v.m = w.m /\ v.todo = w.todo /\ v.count = w.count
        /\ v.target = w.target /\ v.sum = w.sum /\ v.why = w.why
    BY <1>1, <1>2, <1>3
  <2>1. CASE q.op = "exec"
    <3>1. v.out = [w.out EXCEPT ![s] = a] /\ w.out \in [Shards -> Answers]
      BY <1>1, <1>2, <1>3, <1>4, <1>8, <2>1 DEF ProcType
    <3>2. w.pc = "exec" /\ w.m = q.m
      <4>1. ExecsAwaited(s, net[s])
        BY DEF SagaInv
      <4> QED
        BY <1>2, <1>8, <2>1, <4>1 DEF ExecsAwaited
    <3>3. w.m \in Mutations /\ ShardsOf(w.m) \subseteq Shards
      BY <1>5, <3>2, ShardsOfEnvelope DEF Placed, Active
    <3>4. Outs(w)'
      BY <1>6, <3>2 DEF Knows, Heard, Active
    <3>5. Outs(v)'
      <4> SUFFICES ASSUME NEW t \in ShardsOf(v.m)
                   PROVE  /\ v.out[t].kind \in {"waiting", "failed", "ok", "captured"}
                          /\ v.out[t].kind \in {"ok", "captured"} => Entry(t, v.m)'
                          /\ v.out[t].kind = "ok" => v.out[t].first = journal'[t][v.m].first
        BY DEF Outs
      <4>1. t \in Shards /\ t \in ShardsOf(w.m)
        BY <2>0, <3>3
      <4>2. CASE t = s
        <5>1. v.out[t] = a
          BY <3>1, <4>1, <4>2
        <5> QED
          BY <2>0, <2>1, <3>2, <4>2, <5>1
      <4>3. CASE t # s
        <5>1. v.out[t] = w.out[t]
          BY <3>1, <4>1, <4>3
        <5>2. /\ w.out[t].kind \in {"waiting", "failed", "ok", "captured"}
              /\ w.out[t].kind \in {"ok", "captured"} => Entry(t, w.m)'
              /\ w.out[t].kind = "ok" => w.out[t].first = journal'[t][w.m].first
          BY <3>4, <4>1 DEF Outs
        <5> QED
          BY <2>0, <5>1, <5>2
      <4> QED
        BY <4>2, <4>3
    <3>6. Role(p, v)
      BY <1>4, <2>0 DEF Knows, Role
    <3>7. Knows(p, v)'
      BY <2>0, <3>2, <3>5, <3>6 DEF Knows, Role, Heard, HasEntry, Merges, Told, Working, Pulling, Reads
    <3> QED
      BY <1>3, <3>7, KnowsThen
  <2>2. CASE q.op # "exec"
    <3>1. v.out = w.out /\ v.ans = a
      BY <1>1, <1>2, <1>3, <1>8, <2>2
    <3>2. w.pc = q.op /\ At(w) = s /\ w.m = q.m
      BY <1>0, <1>2, <1>8, <2>2 DEF Awaits
    <3>3. At(v) = At(w)
      BY <2>0 DEF At
    <3>4. /\ w.pc \in Working /\ w.pc \in Active /\ w.todo \subseteq ShardsOf(w.m)
          /\ At(w) \in w.todo /\ w.mode \in {"capture", "reconcile", "recover"}
      <4>1. q.op \in Reads
        BY <1>0, <2>2 DEF ReqType
      <4>2. w.pc \in Working
        BY <3>2, <4>1 DEF Working
      <4> QED
        BY <1>4, <4>2, WorkingIsAtWork DEF AtWork, Active
    <3>5. (v.pc = "fetch" /\ v.ans.kind = "none") =>
            v.mode # "reconcile" /\ (v.mode = "capture" => v.out[At(v)].kind = "failed")
      <4> SUFFICES ASSUME v.pc = "fetch", v.ans.kind = "none"
                   PROVE  v.mode # "reconcile" /\ (v.mode = "capture" => v.out[At(v)].kind = "failed")
        OBVIOUS
      <4>1. ~Entry(At(w), w.m)
        BY <2>0, <3>1, <3>2
      <4>2. Merges(w) /\ Outs(w)
        BY <1>4, <3>4 DEF Knows, Heard
      <4>3. w.mode # "reconcile"
        BY <3>4, <4>1, <4>2 DEF Merges
      <4>4. w.mode = "capture" => w.out[At(w)].kind # "waiting"
        BY <3>4, <4>2 DEF Merges
      <4>5. w.out[At(w)].kind \in {"waiting", "failed"}
        BY <3>4, <4>1, <4>2 DEF Outs
      <4> QED
        BY <2>0, <3>1, <3>3, <4>3, <4>4, <4>5
    <3>6. (v.pc = "fetch" /\ v.ans.kind = "entry") => v.ans = journal'[At(v)][v.m]
      BY <2>0, <3>1, <3>2, <3>3
    <3>7. Role(p, v)
      BY <1>4, <2>0 DEF Knows, Role
    <3>8. Outs(v)'
      BY <1>6, <2>0, <3>1, <3>4 DEF Knows, Heard, Outs
    <3>9. Heard(v)'
      BY <3>5, <3>6, <3>8 DEF Heard, At
    <3>10. HasEntry(v)'
      BY <1>6, <2>0, <3>3 DEF Knows, HasEntry, Entry, Visible, At
    <3>11. Merges(v)'
      BY <1>6, <2>0, <3>1 DEF Knows, Merges, Entry, Visible
    <3>12. Told(p, v)'
      BY <1>6, <2>0 DEF Knows, Told
    <3> QED
      BY <1>3, <3>7, <3>9, <3>10, <3>11, <3>12, KnowsThen DEF Knows, Role
  <2> QED
    BY <2>1, <2>2
<1> QED
  BY <1>7, <1>8
(* A step of a shard, or a failure: the Router's records do not change.     *)
LEMMA ShardTrue ==
  ASSUME SagaInv, Steady, UNCHANGED <<rec, runs>>, AppliedWhole',
         \A p \in Procs : Knows(p, proc[p])', \A s \in Shards : ExecsAwaited(s, net[s])'
  PROVE  SagaInv'
<1>1. ASSUME NEW m \in Mutations PROVE RecTrue(rec[m], m)'
  <2>1. PICK r : r = rec[m]
    OBVIOUS
  <2>2. RecTrue(r, m) /\ rec'[m] = r
    BY <2>1 DEF SagaInv
  <2> QED
    BY <2>2, RecTrueKept, RecTrueThen
<1>2. (\A s \in Shards : runs[s] = {})'
  BY DEF SagaInv
<1> QED
  BY <1>1, <1>2 DEF SagaInv

(* A step that leaves journals and cursors alone is steady.                 *)
LEMMA SameJournals ==
  ASSUME PullInv, SagaInv, UNCHANGED <<cursor, journal>>
  PROVE  Steady
BY DEF PullInv, RouterType, ShardType, Steady

(* SagaInv through Serve.                                                   *)
LEMMA ServeTrue ==
  ASSUME PullInv, PullInv', SagaInv, NEW s \in Shards, Serve(s)
  PROVE  SagaInv'
<1>0. net \in [Shards -> Seq(ReqType)] /\ net[s] # <<>>
  BY DEF Serve, PullInv, RouterType
<1>1. PICK n : n = net[s]
  OBVIOUS
<1>2. PICK n2 : n2 = Tail(n)
  OBVIOUS
<1>3. PICK f : f = [i \in 1..Len(n2) |-> i + 1]
  OBVIOUS
<1>4. /\ n2 \in Seq(ReqType) /\ Thins(n, n2, f, 1) /\ 1 \in 1..Len(n) /\ Head(n) = n[1]
  BY <1>0, <1>1, <1>2, <1>3, TailThins
<1>5. PICK q : q = n[1]
  OBVIOUS
<1>6. q \in ReqType /\ q.m \in Mutations /\ q.p \in Procs /\ q.arg \in Nat
  BY <1>1, <1>4, <1>5, QueuedFacts
<1>7. PICK a : a = CASE q.op = "list" -> PageOf(s, q.arg)
                     [] q.op = "ack" -> Answer("acked", 0, 0)
                     [] q.op = "fetch" /\ journal[s][q.m].kind = "entry" -> journal[s][q.m]
                     [] OTHER -> Answer("none", 0, 0)
  OBVIOUS
<1>8. /\ q.op # "exec" /\ net' = [net EXCEPT ![s] = n2] /\ Deliver(q, s, a)
      /\ UNCHANGED <<rec, cursor, journal, runs, applied>>
  BY <1>1, <1>2, <1>4, <1>5, <1>7 DEF Serve, routerVars
<1>9. /\ a \in Answers
      /\ (q.op = "fetch" /\ a.kind = "entry") => a = journal'[s][q.m]
      /\ (q.op = "fetch" /\ a.kind = "none") => ~Entry(s, q.m)
  <2>1. CASE q.op = "list"
    <3>1. q.arg <= Len(log[s]) /\ pruned[s] < q.arg
      <4>1. PICK w : w = proc[q.p]
        OBVIOUS
      <4>2. Awaits(w, s, q) /\ Pulls(w) /\ pruned[s] < q.arg
        BY <1>1, <1>4, <1>5, <1>6, <2>1, <4>1, QueuedFacts DEF PullInv
      <4> QED
        BY <2>1, <4>2 DEF Awaits, Pulls
    <3>2. a = PageOf(s, q.arg)
      BY <1>7, <2>1
    <3> QED
      BY <1>6, <2>1, <3>1, <3>2, PageAnswers
  <2>2. CASE q.op = "ack"
    <3>1. a = Answer("acked", 0, 0)
      BY <1>7, <2>2
    <3> QED
      BY <2>2, <3>1 DEF Answer, Answers
  <2>3. CASE q.op = "fetch" /\ journal[s][q.m].kind = "entry"
    <3>1. a = journal[s][q.m]
      BY <1>7, <2>3
    <3>2. journal[s][q.m] \in Answers
      BY <1>6 DEF PullInv, ShardType
    <3> QED
      BY <1>8, <2>3, <3>1, <3>2
  <2>4. CASE q.op = "fetch" /\ journal[s][q.m].kind # "entry"
    <3>1. a = Answer("none", 0, 0)
      BY <1>7, <2>4
    <3> QED
      BY <2>4, <3>1 DEF Answer, Answers, Entry
  <2>5. q.op \in {"list", "ack", "fetch"}
    BY <1>6, <1>8 DEF ReqType, Reads
  <2> QED
    BY <2>1, <2>2, <2>3, <2>4, <2>5
<1>10. Steady
  BY <1>8, SameJournals
<1>11. \A p \in Procs : Knows(p, proc[p])'
  BY <1>1, <1>4, <1>5, <1>8, <1>9, <1>10, AnswerKnows
<1>12. \A t \in Shards : ExecsAwaited(t, net[t])'
  BY <1>1, <1>4, <1>5, <1>8, <1>9, AnswerExecs
<1>13. AppliedWhole'
  BY <1>8 DEF SagaInv, AppliedWhole, Entry
<1> QED
  BY <1>8, <1>10, <1>11, <1>12, <1>13, ShardTrue

(* SagaInv through RequestFails.                                            *)
LEMMA RequestFailsTrue ==
  ASSUME PullInv, PullInv', SagaInv, NEW s \in Shards, NEW k \in 1..Len(net[s]),
         Reject(s, k) \/ Timeout(s, k)
  PROVE  SagaInv'
<1>1. /\ Fault /\ Deliver(net[s][k], s, Failure) /\ UNCHANGED shardVars
      /\ \E n2 \in Seq(ReqType) : \E f :
           net' = [net EXCEPT ![s] = n2] /\ Thins(net[s], n2, f, k)
  BY RejectThins, TimeoutThins
<1>2. UNCHANGED <<rec, cursor, journal, runs, applied>>
  BY <1>1, FaultCounts DEF shardVars
<1>3. PICK n2 \in Seq(ReqType) : \E f : net' = [net EXCEPT ![s] = n2] /\ Thins(net[s], n2, f, k)
  BY <1>1
<1>4. PICK f : net' = [net EXCEPT ![s] = n2] /\ Thins(net[s], n2, f, k)
  BY <1>3
<1>5. PICK q : q = net[s][k]
  OBVIOUS
<1>6. PICK a : a = Failure
  OBVIOUS
<1>7. a \in Answers /\ a.kind = "failed" /\ Deliver(q, s, a)
  BY <1>1, <1>5, <1>6, WaitingType DEF Failure
<1>8. Steady
  BY <1>2, SameJournals
<1>9. \A p \in Procs : Knows(p, proc[p])'
  BY <1>5, <1>7, <1>8, AnswerKnows
<1>10. \A t \in Shards : ExecsAwaited(t, net[t])'
  BY <1>4, <1>5, <1>7, AnswerExecs
<1>11. AppliedWhole'
  BY <1>2 DEF SagaInv, AppliedWhole, Entry
<1> QED
  BY <1>2, <1>8, <1>9, <1>10, <1>11, ShardTrue

(* Plans are applied once, with the entry that every later request finds.   *)
LEMMA ExecuteTrue ==
  ASSUME Suspends = {}, PullInv, PullInv', SagaInv, NEW s \in Shards, Execute(s)
  PROVE  SagaInv'
<1>0. net \in [Shards -> Seq(ReqType)] /\ net[s] # <<>>
  BY DEF Execute, PullInv, RouterType
<1>1. PICK n : n = net[s]
  OBVIOUS
<1>2. PICK n2 : n2 = Tail(n)
  OBVIOUS
<1>3. PICK f : f = [i \in 1..Len(n2) |-> i + 1]
  OBVIOUS
<1>4. /\ n2 \in Seq(ReqType) /\ Thins(n, n2, f, 1) /\ 1 \in 1..Len(n) /\ Head(n) = n[1]
  BY <1>0, <1>1, <1>2, <1>3, TailThins
<1>5. PICK q : q = n[1]
  OBVIOUS
<1>6. q \in ReqType /\ q.m \in Mutations /\ q.p \in Procs
  BY <1>1, <1>4, <1>5, QueuedFacts
<1>7. q.op = "exec" /\ net' = [net EXCEPT ![s] = n2] /\ UNCHANGED <<rec, cursor, pruned>>
  BY <1>1, <1>2, <1>4, <1>5 DEF Execute, routerVars
<1>8. ASSUME NEW a \in Answers, Deliver(q, s, a), Steady, AppliedWhole', UNCHANGED runs,
             a.kind = "ok", Entry(s, q.m)', a.first = journal'[s][q.m].first
      PROVE  SagaInv'
  <2>1. \A p \in Procs : Knows(p, proc[p])'
    BY <1>1, <1>4, <1>5, <1>7, <1>8, AnswerKnows
  <2>2. \A t \in Shards : ExecsAwaited(t, net[t])'
    BY <1>1, <1>4, <1>5, <1>7, <1>8, AnswerExecs
  <2> QED
    BY <1>7, <1>8, <2>1, <2>2, ShardTrue
<1>9. CASE /\ Replays(s, q.m) /\ Deliver(q, s, Answer("ok", journal[s][q.m].first, 0))
           /\ UNCHANGED <<journal, log, runs, applied>>
  <2>1. PICK a : a = Answer("ok", journal[s][q.m].first, 0)
    OBVIOUS
  <2>2. journal[s][q.m] \in Answers
    BY <1>6 DEF PullInv, ShardType
  <2>3. a \in Answers /\ a.kind = "ok" /\ a.first = journal'[s][q.m].first
    BY <1>9, <2>1, <2>2 DEF Answer, Answers
  <2>4. Entry(s, q.m)'
    BY <1>9 DEF Replays, Entry
  <2>5. Steady
    BY <1>7, <1>9, SameJournals
  <2>6. AppliedWhole'
    BY <1>9 DEF SagaInv, AppliedWhole, Entry
  <2> QED
    BY <1>8, <1>9, <2>1, <2>3, <2>4, <2>5, <2>6
<1>10. CASE ~Replays(s, q.m) /\ Applies(s, q.m, 1, Plans) /\ Complete(s, q) /\ UNCHANGED runs
  <2>0. LogExtends
    <3>1. Plans \in Nat /\ 1 \in Nat /\ 1 <= Plans + 1
      BY SagaConstants
    <3> QED
      BY <1>6, <1>10, <3>1, AppliesFacts
  <2>1. PICK m : m = q.m
    OBVIOUS
  <2>2. PICK c \in Counts :
          /\ journal' = [journal EXCEPT ![s] =
                           [journal[s] EXCEPT ![q.m] = Answer("entry", c, Len(log'[s]))]]
          /\ Deliver(q, s, Answer("ok", c, 0))
    BY <1>6, <1>7, <1>10, <2>0, CompleteFacts
  <2>3. PICK e : e = Answer("entry", c, Len(log'[s]))
    OBVIOUS
  <2>4. PICK a : a = Answer("ok", c, 0)
    OBVIOUS
  <2>5. e.kind = "entry" /\ e.first = c /\ a.kind = "ok" /\ a.first = c /\ a \in Answers
    BY <2>3, <2>4, SagaConstants DEF Answer, Answers
  <2>6. /\ journal \in [Shards -> [Mutations -> Answers]]
        /\ journal' \in [Shards -> [Mutations -> Answers]]
        /\ cursor \in [Shards -> Nat] /\ cursor' \in [Shards -> Nat]
        /\ applied \in [Shards -> [Mutations -> [1..Plans -> Nat]]]
    BY DEF PullInv, ShardType, RouterType
  <2>7. journal' = [journal EXCEPT ![s] = [journal[s] EXCEPT ![m] = e]]
    BY <2>1, <2>2, <2>3
  <2>8. \A t \in Shards, x \in Mutations : journal'[t][x] = IF t = s /\ x = m THEN e ELSE journal[t][x]
    BY <1>6, <2>1, <2>6, <2>7
  <2>9. Entry(s, q.m)' /\ a.first = journal'[s][q.m].first
    BY <1>6, <2>1, <2>5, <2>8 DEF Entry
  <2>10. Steady
    <3>1. ~Entry(s, m)
      BY <1>10, <2>1 DEF Replays, Entry
    <3>2. \A t \in Shards : cursor[t] <= cursor'[t]
      BY <1>7, <2>6
    <3> QED
      BY <2>6, <2>8, <3>1, <3>2 DEF Steady
  <2>11. AppliedWhole'
    <3>1. PICK g : g = [k \in 1..Plans |-> IF k \in 1..Plans THEN applied[s][m][k] + 1 ELSE applied[s][m][k]]
      OBVIOUS
    <3>2. applied' = [applied EXCEPT ![s] = [applied[s] EXCEPT ![m] = g]]
      BY <1>10, <2>1, <2>6, <3>1 DEF Applies
    <3>3. \A t \in Shards, x \in Mutations :
            applied'[t][x] = IF t = s /\ x = m THEN g ELSE applied[t][x]
      BY <1>6, <2>1, <2>6, <3>2
    <3>4. AppliedWhole /\ ~Entry(s, m)
      BY <1>10, <2>1 DEF SagaInv, Replays, Entry
    <3>5. \A i \in 1..Plans : g[i] = 1
      BY <1>6, <2>1, <3>1, <3>4 DEF AppliedWhole
    <3> SUFFICES ASSUME NEW t \in Shards, NEW x \in Mutations
                 PROVE  /\ journal'[t][x].kind \in {"waiting", "entry"}
                        /\ \A i \in 1..Plans :
                             applied'[t][x][i] = IF journal'[t][x].kind = "entry" THEN 1 ELSE 0
      BY DEF AppliedWhole, Entry
    <3>6. CASE t = s /\ x = m
      BY <1>6, <2>1, <2>5, <2>8, <3>3, <3>5, <3>6
    <3>7. CASE ~ (t = s /\ x = m)
      BY <2>8, <3>3, <3>4, <3>7 DEF AppliedWhole, Entry
    <3> QED
      BY <3>6, <3>7
  <2> QED
    BY <1>8, <1>10, <2>2, <2>4, <2>5, <2>9, <2>10, <2>11
<1> QED
  BY <1>1, <1>4, <1>5, <1>9, <1>10 DEF Execute
------------------------------------------------------------------------------
(* SagaInv holds initially, and every step keeps it.                        *)

(* SagaInv holds at the start.                                              *)
LEMMA SagaInit ==
  ASSUME Init
  PROVE  SagaInv
<1>0. NoRecord.state = "none" /\ Waiting.kind = "waiting"
  BY DEF NoRecord, Waiting
<1>1. \A s \in Shards : runs[s] = {}
  BY DEF Init
<1>2. AppliedWhole
  BY <1>0 DEF Init, AppliedWhole, Entry
<1>3. \A m \in Mutations : RecTrue(rec[m], m)
  BY <1>0 DEF Init, RecTrue
<1>4. \A p \in Procs : Knows(p, proc[p])
  <2> TAKE p \in Procs
  <2>1. PICK v : v = proc[p]
    OBVIOUS
  <2>2. v = Blank("new") \/ v = Blank("idle")
    BY <2>1 DEF Init
  <2>3. v.pc \in {"new", "error", "idle"} /\ v.mode = "none" /\ v.why = "none"
    BY <2>2, BlankFields
  <2> QED
    BY <2>1, <2>3, QuietKnows
<1>5. \A s \in Shards : ExecsAwaited(s, net[s])
  BY DEF Init, ExecsAwaited
<1> QED
  BY <1>1, <1>2, <1>3, <1>4, <1>5 DEF SagaInv

(* SagaInv is inductive when no execution awaits an index lookup.           *)
LEMMA SagaNext ==
  ASSUME Suspends = {}, PullInv, PullInv', SagaInv, [Next]_vars
  PROVE  SagaInv'
<1>1. ASSUME NEW c \in Calls, Prepare(c) \/ Dispatch(c) \/ Dispatched(c) PROVE SagaInv'
  BY <1>1, PrepareTrue, DispatchTrue, DispatchedTrue
<1>2. ASSUME NEW m \in Mutations, RecoverStart(m) PROVE SagaInv'
  BY <1>2, RecoverStartTrue
<1>3. ASSUME NEW s \in Shards, Serve(s) \/ Execute(s) PROVE SagaInv'
  BY <1>3, ServeTrue, ExecuteTrue
<1>4. ASSUME NEW p \in Procs, RouterStep(p) \/ FinalizeFailed(p) PROVE SagaInv'
  BY <1>4, ReadEntryTrue, ReadPageTrue, ReadAckTrue, FinalizedTrue, FinalizeFailedTrue
     DEF RouterStep
<1>5. ASSUME NEW s \in Shards, NEW q \in runs[s] PROVE FALSE
  BY <1>5 DEF SagaInv
<1>6. ASSUME NEW s \in Shards, NEW i \in 1..Len(net[s]), Reject(s, i) \/ Timeout(s, i)
      PROVE  SagaInv'
  BY <1>6, RequestFailsTrue
<1>7. CASE UNCHANGED vars
  <2>1. /\ rec' = rec /\ cursor' = cursor /\ proc' = proc /\ net' = net
        /\ journal' = journal /\ runs' = runs /\ applied' = applied
    BY <1>7 DEF vars
  <2>2. Steady
    BY <2>1, SameJournals
  <2>3. ASSUME NEW p \in Procs PROVE Knows(p, proc[p])'
    <3>1. PICK w : w = proc[p]
      OBVIOUS
    <3>2. proc'[p] = w /\ w \in ProcType /\ Pulls(w) /\ Knows(p, w)
      BY <2>1, <3>1 DEF PullInv, RouterType, SagaInv
    <3>3. Placed(w)
      BY <3>2, WorkingIsAtWork DEF Placed, Pulls
    <3> QED
      BY <2>2, <3>2, <3>3, KnowsKept, KnowsThen
  <2>4. \A s \in Shards : ExecsAwaited(s, net[s])'
    BY <2>1 DEF SagaInv, ExecsAwaited
  <2>5. AppliedWhole'
    BY <2>1 DEF SagaInv, AppliedWhole, Entry
  <2> QED
    BY <2>1, <2>2, <2>3, <2>4, <2>5, ShardTrue
<1> QED
  BY <1>1, <1>2, <1>3, <1>4, <1>5, <1>6, <1>7 DEF Next

(* SagaInv is an invariant when no execution awaits an index lookup.        *)
THEOREM SagaSafety ==
  ASSUME Suspends = {}
  PROVE  Spec => []SagaInv
<1>1. Init => SagaInv
  BY SagaInit
<1>2. PullInv /\ PullInv' /\ SagaInv /\ [Next]_vars => SagaInv'
  BY SagaNext
<1>3. Spec => []PullInv
  BY PullSafety
<1> QED
  BY <1>1, <1>2, <1>3, PTL DEF Spec

(* ADR 0029's "applies the same `mutation_id` idempotently": whatever is    *)
(* retried, recovered, refused or executed late, no shard applies a plan    *)
(* twice, and one that journaled a mutation applied it whole.  It takes     *)
(* that no execution awaits between the journal check and its entry.        *)
THEOREM AppliedOnce ==
  ASSUME Suspends = {}
  PROVE  Spec => []ExactlyOnce
<1>1. PullInv /\ SagaInv => ExactlyOnce
  <2> SUFFICES ASSUME PullInv, SagaInv, NEW s \in Shards, NEW m \in Mutations, NEW i \in 1..Plans
               PROVE  /\ applied[s][m][i] <= 1
                      /\ journal[s][m].kind = "entry" => applied[s][m][i] = 1
    BY DEF ExactlyOnce
  <2>1. applied[s][m][i] = IF journal[s][m].kind = "entry" THEN 1 ELSE 0
    BY DEF SagaInv, AppliedWhole, Entry
  <2> QED
    BY <2>1
<1> QED
  BY <1>1, PullSafety, SagaSafety, PTL

(* No attempt fails with a complaint of its own: the reply of an execution  *)
(* agrees with the journal, no captured shard misses its entry, counts      *)
(* never conflict, and the projection meets neither a lag nor a gap.        *)
THEOREM NoComplaints ==
  ASSUME Suspends = {}
  PROVE  Spec => []OnlyCallsFail
<1>1. SagaInv => OnlyCallsFail
  BY DEF SagaInv, Knows, Role, OnlyCallsFail
<1> QED
  BY <1>1, SagaSafety, PTL

(* A record that is completed, by whichever process marked its last shard,  *)
(* has all its shards committed, all their statistics visible and the sum   *)
(* of their rows as its total.                                              *)
THEOREM CompletionIsFinal ==
  ASSUME Suspends = {}
  PROVE  Spec => []CompletedMeansAll
<1>1. SagaInv => CompletedMeansAll
  <2> SUFFICES ASSUME SagaInv, NEW m \in Mutations, rec[m].state = "done"
               PROVE  Journaled(m) /\ Projected(m) /\ rec[m].total = RowsOf(m)
    BY DEF CompletedMeansAll
  <2>1. (\A s \in ShardsOf(m) : Visible(s, m)) /\ rec[m].total = RowsOf(m)
    BY DEF SagaInv, RecTrue
  <2> QED
    BY <2>1 DEF Journaled, Projected, Visible, Entry
<1> QED
  BY <1>1, SagaSafety, PTL

(* Every attempt that answers its client answers the same count, the sum of *)
(* the shards' rows, and after everything the mutation wrote is visible.    *)
THEOREM SameAnswer ==
  ASSUME Suspends = {}
  PROVE  Spec => []AnsweredMeansDone
<1>1. SagaInv => AnsweredMeansDone
  <2> SUFFICES ASSUME SagaInv, NEW c \in Calls, proc[c].pc = "ok"
               PROVE  /\ Journaled(KeyOf[c]) /\ Projected(KeyOf[c])
                      /\ proc[c].count = RowsOf(KeyOf[c])
    BY DEF AnsweredMeansDone
  <2>1. Told(c, proc[c])
    BY DEF SagaInv, Knows, Procs
  <2>2. (\A t \in ShardsOf(KeyOf[c]) : Visible(t, KeyOf[c])) /\ proc[c].count = RowsOf(KeyOf[c])
    BY <2>1 DEF Told
  <2> QED
    BY <2>2 DEF Journaled, Projected, Visible, Entry
<1> QED
  BY <1>1, SagaSafety, PTL

------------------------------------------------------------------------------
(* The saga implements SagaOutcome: what a client may see of a mutation.    *)

(* The abstract sum of a mutation that every shard journaled.               *)
LEMMA OutcomeSum ==
  ASSUME NEW m \in Mutations, \A s \in ShardsOf(m) : Entry(s, m)
  PROVE  Outcome!Sum(m) = RowsOf(m)
<1> DEFINE S == ShardsOf(m)
           g == RowsAt(m)
           P(F) == F = [s \in SUBSET S |-> IF s = {} THEN 0
                        ELSE OutcomeRows[CHOOSE x \in s : TRUE][m] + F[s \ {CHOOSE x \in s : TRUE}]]
<1>1. \A s \in SUBSET S : s # {} => g[CHOOSE x \in s : TRUE] = OutcomeRows[CHOOSE x \in s : TRUE][m]
  <2>1. \A t \in S : g[t] = OutcomeRows[t][m]
    BY ShardsOfEnvelope DEF RowsAt, OutcomeRows, Entry
  <2> HIDE DEF g, S
  <2> QED
    BY <2>1
<1>2. Outcome!Sum(m) = (CHOOSE F : P(F))[S]
  BY DEF Outcome!Sum, Outcome!MapThenSumSet, Outcome!MapThenFoldSet, MapThenSumSet, MapThenFoldSet
<1> HIDE DEF g, S
<1>3. \A F : P(F) <=> IsTotal(F, g, S)
  BY <1>1 DEF IsTotal
<1>4. (CHOOSE F : P(F)) = (CHOOSE F : IsTotal(F, g, S))
  BY <1>3
<1> QED
  BY <1>2, <1>4, TotalDef, RowsTotal DEF g, S

(* What is visible of a mutation is what the outcome shows.                 *)
LEMMA OutcomeVisible ==
  ASSUME NEW m \in Mutations, \A s \in ShardsOf(m) : Visible(s, m)
  PROVE  Outcome!AllShown(m) /\ Outcome!Sum(m) = RowsOf(m)
<1>1. ShardsOf(m) \subseteq Shards
  BY ShardsOfEnvelope
<1>2. \A s \in ShardsOf(m) : <<s, m>> \in OutcomeShown
  <2> TAKE s \in ShardsOf(m)
  <2>1. s \in Shards /\ journal[s][m].kind = "entry" /\ journal[s][m].last <= cursor[s]
    BY <1>1 DEF Visible, Entry
  <2>2. PICK x : x = <<s, m>>
    OBVIOUS
  <2>3. x \in Shards \X Mutations /\ x[1] = s /\ x[2] = m
    BY <2>1, <2>2
  <2> QED
    BY <2>1, <2>2, <2>3 DEF OutcomeShown
<1>3. Outcome!AllShown(m)
  BY <1>2 DEF Outcome!AllShown
<1>4. \A s \in ShardsOf(m) : Entry(s, m)
  BY DEF Visible
<1> QED
  BY <1>3, <1>4, OutcomeSum

(* A step as a client sees it.                                             *)
OutcomeStep == Outcome!Next \/ UNCHANGED Outcome!ovars

(* One shard's rows are journaled.                                          *)
LEMMA WriteStep ==
  ASSUME NEW s \in Shards, NEW m \in Mutations, s \in ShardsOf(m), NEW n \in Counts,
         OutcomeRows[s][m] = Unset, OutcomeRows' = [OutcomeRows EXCEPT ![s][m] = n],
         OutcomeShown' = OutcomeShown, OutcomeTotal' = OutcomeTotal, OutcomeAnswer' = OutcomeAnswer
  PROVE  OutcomeStep
<1>1. Outcome!Write(s, m)
  BY DEF Outcome!Write, Outcome!Unset, Unset
<1> QED
  BY <1>1 DEF OutcomeStep, Outcome!Next

(* Statistics of journaled rows become visible.                             *)
LEMMA ShowStep ==
  ASSUME NEW s \in Shards, NEW M \in SUBSET Mutations, \A m \in M : OutcomeRows[s][m] # Unset,
         OutcomeShown' = OutcomeShown \cup {<<s, m>> : m \in M},
         OutcomeRows' = OutcomeRows, OutcomeTotal' = OutcomeTotal, OutcomeAnswer' = OutcomeAnswer
  PROVE  OutcomeStep
<1>1. Outcome!Show(s, M)
  BY DEF Outcome!Show, Outcome!Unset, Unset
<1> QED
  BY <1>1 DEF OutcomeStep, Outcome!Next

(* A record is completed once everything of it is visible.                  *)
LEMMA CompleteStep ==
  ASSUME NEW m \in Mutations, OutcomeTotal[m] = Unset, \A s \in ShardsOf(m) : Visible(s, m),
         OutcomeTotal' = [OutcomeTotal EXCEPT ![m] = RowsOf(m)],
         OutcomeRows' = OutcomeRows, OutcomeShown' = OutcomeShown, OutcomeAnswer' = OutcomeAnswer
  PROVE  OutcomeStep
<1>1. Outcome!AllShown(m) /\ Outcome!Sum(m) = RowsOf(m)
  BY OutcomeVisible
<1>2. Outcome!Complete(m)
  BY <1>1 DEF Outcome!Complete, Outcome!Unset, Unset
<1> QED
  BY <1>2 DEF OutcomeStep, Outcome!Next

(* A call is answered, and the record is complete.                          *)
LEMMA ReplyStep ==
  ASSUME NEW c \in Calls, NEW m \in Mutations, m = KeyOf[c],
         OutcomeAnswer[c] = Unset, \A s \in ShardsOf(m) : Visible(s, m),
         OutcomeTotal' = [OutcomeTotal EXCEPT ![m] = RowsOf(m)],
         OutcomeAnswer' = [OutcomeAnswer EXCEPT ![c] = RowsOf(m)],
         OutcomeRows' = OutcomeRows, OutcomeShown' = OutcomeShown
  PROVE  OutcomeStep
<1>1. Outcome!AllShown(m) /\ Outcome!Sum(m) = RowsOf(m)
  BY OutcomeVisible
<1>2. Outcome!Reply(c)
  BY <1>1 DEF Outcome!Reply, Outcome!Unset, Unset
<1> QED
  BY <1>2 DEF OutcomeStep, Outcome!Next

(* Nothing a client sees changes.                                           *)
LEMMA NoStep ==
  ASSUME OutcomeRows' = OutcomeRows, OutcomeShown' = OutcomeShown,
         OutcomeTotal' = OutcomeTotal, OutcomeAnswer' = OutcomeAnswer
  PROVE  OutcomeStep
BY DEF OutcomeStep, Outcome!ovars

(* No shard has journaled and no call is answered initially.                *)
LEMMA OutcomeInit ==
  ASSUME Init
  PROVE  Outcome!Init
<1>1. NoRecord.state = "none" /\ Waiting.kind = "waiting"
  BY DEF NoRecord, Waiting
<1>2. \A p \in Calls : proc[p].pc = "new"
  <2>1. Blank("new").pc = "new"
    BY BlankFields
  <2> QED
    BY <2>1 DEF Init, Procs
<1>3. OutcomeRows = [s \in Shards |-> [m \in Mutations |-> Unset]]
  BY <1>1 DEF Init, OutcomeRows
<1>4. OutcomeShown = {}
  BY <1>1 DEF Init, OutcomeShown
<1>5. OutcomeTotal = [m \in Mutations |-> Unset]
  BY <1>1 DEF Init, OutcomeTotal
<1>6. OutcomeAnswer = [c \in Calls |-> Unset]
  BY <1>2 DEF OutcomeAnswer
<1> QED
  BY <1>3, <1>4, <1>5, <1>6 DEF Outcome!Init, Outcome!Unset, Unset
------------------------------------------------------------------------------
(* What the record of a call says by the time the call is answered.         *)

(* A capture has marked the shards behind it, unless the record is complete.*)
Marks(w, r) ==
  (w.pc \in Working /\ w.mode = "capture" /\ r.state = "open") =>
    \A t \in ShardsOf(w.m) \ w.todo : r.shards[t].projected

(* Plans are sent to the shards of their mutation.                          *)
Addressed(s, n) == \A i \in 1..Len(n) : n[i].op = "exec" => s \in ShardsOf(n[i].m)

(* What it takes that a retry finds the answer: a call is answered when its *)
(* record is complete, not only when it has captured every shard itself.    *)
MarkInv ==
  /\ \A p \in Procs : Marks(proc[p], rec[proc[p].m])
  /\ \A c \in Calls : proc[c].pc = "ok" => rec[KeyOf[c]].state = "done"
  /\ \A s \in Shards : Addressed(s, net[s])

(* A record keeps its projected marks until it is complete.                 *)
Onward(r, r2) ==
  /\ r.state = "done" => r2.state = "done"
  /\ (r.state = "open" /\ r2.state = "open") =>
       \A t \in Shards : r.shards[t].projected => r2.shards[t].projected

(* Moving onward is transitive on records that exist.                       *)
LEMMA OnwardTrans ==
  ASSUME NEW r1, NEW r2, NEW r3, Onward(r1, r2), Onward(r2, r3),
         r1.state = "open" => r2.state \in {"open", "done"}
  PROVE  Onward(r1, r3)
BY DEF Onward

(* Capturing keeps the marks.                                               *)
LEMMA CapturedOnward ==
  ASSUME NEW m \in Mutations, NEW r \in RecType, Shaped(r, m), r.state # "none",
         NEW s \in Shards, NEW n \in Nat, NEW r2, r2 = Captured(r, s, n)
  PROVE  Onward(r, r2)
<1>1. /\ r2.state = r.state
      /\ r2.state = "open" => r2.shards[s].projected = r.shards[s].projected
      /\ \A t \in Shards \ {s} : r2.shards[t] = r.shards[t]
  BY CapturedRecord
<1>2. ASSUME r.state = "open", r2.state = "open", NEW t \in Shards, r.shards[t].projected
      PROVE  r2.shards[t].projected
  <2>1. CASE t = s
    BY <1>1, <1>2, <2>1
  <2>2. CASE t # s
    BY <1>1, <1>2, <2>2
  <2> QED
    BY <2>1, <2>2
<1> QED
  BY <1>1, <1>2 DEF Onward

(* Advancing marks the shard, keeps the other marks, and leaves the record  *)
(* open only while a mark is missing.                                       *)
LEMMA AdvancedOnward ==
  ASSUME NEW m \in Mutations, NEW r \in RecType, r.state # "none",
         NEW s \in ShardsOf(m), NEW r2, r2 = Advanced(r, m, s)
  PROVE  /\ Onward(r, r2) /\ r2.state # "none"
         /\ r2.state = "open" => r.state = "open" /\ r2.shards[s].projected
<1>0. s \in Shards /\ r.shards \in [Shards -> MarkType]
  BY ShardsOfEnvelope DEF RecType
<1>1. CASE r.state # "open"
  <2>1. r2 = r
    BY <1>1 DEF Advanced
  <2> QED
    BY <1>1, <2>1 DEF Onward
<1>2. CASE r.state = "open"
  <2>1. PICK next : next = [r EXCEPT !.shards = [r.shards EXCEPT ![s] = [r.shards[s] EXCEPT !.projected = TRUE]]]
    OBVIOUS
  <2>2. /\ next.state = "open"
        /\ next.shards = [r.shards EXCEPT ![s] = [r.shards[s] EXCEPT !.projected = TRUE]]
    BY <1>2, <2>1 DEF RecType
  <2>3. next.shards[s].projected /\ \A t \in Shards : r.shards[t].projected => next.shards[t].projected
    BY <1>0, <2>2 DEF MarkType
  <2>4. CASE ~Finishes(next, m)
    <3>1. r2 = next
      BY <1>2, <2>1, <2>4 DEF Advanced
    <3> QED
      BY <1>2, <2>2, <2>3, <3>1 DEF Onward
  <2>5. CASE Finishes(next, m)
    <3>1. PICK n : n = MapThenSumSet(LAMBDA t : next.shards[t].count, ShardsOf(m))
      OBVIOUS
    <3>2. r2 = [NoRecord EXCEPT !.state = "done", !.total = n]
      BY <1>2, <2>1, <2>5, <3>1 DEF Advanced
    <3>3. r2.state = "done"
      BY <3>2 DEF NoRecord
    <3> QED
      BY <3>3 DEF Onward
  <2> QED
    BY <2>4, <2>5
<1> QED
  BY <1>1, <1>2

(* A process p goes on as v, and the record of m becomes r.                 *)
Moves(p, m, v, r) ==
  /\ m \in Mutations /\ Continue(p, v) /\ rec' = [rec EXCEPT ![m] = r]
  /\ Onward(rec[m], r)
  /\ v.pc \in Working => v.m = m /\ Marks(v, r)
  /\ (v.pc = "ok" /\ p \in Calls) => m = KeyOf[p] /\ r.state = "done"

(* A read that is appended is no execution.                                 *)
LEMMA ContinueAddressed ==
  ASSUME PullInv, MarkInv, NEW p \in Procs, NEW v, Continue(p, v), NEW s \in Shards
  PROVE  Addressed(s, net[s])'
<1>0. net \in [Shards -> Seq(ReqType)] /\ Addressed(s, net[s])
  BY DEF PullInv, RouterType, MarkInv
<1>1. CASE Sends(v) /\ At(v) = s
  <2>1. PICK n : n = net[s]
    OBVIOUS
  <2>2. PICK q : q = Request(p, v.pc, v.m, v.from)
    OBVIOUS
  <2>3. q.op # "exec"
    BY <1>1, <2>2 DEF Request, Sends
  <2>4. net' = [net EXCEPT ![s] = Append(n, q)]
    BY <1>1, <2>1, <2>2 DEF Continue
  <2>5. net'[s] = Append(n, q) /\ n \in Seq(ReqType) /\ Len(n) \in Nat
    BY <1>0, <2>1, <2>4
  <2>6. /\ Len(Append(n, q)) = Len(n) + 1 /\ Append(n, q)[Len(n) + 1] = q
        /\ \A i \in 1..Len(n) : Append(n, q)[i] = n[i]
    BY <2>5
  <2> SUFFICES ASSUME NEW i \in 1..Len(net'[s]), net'[s][i].op = "exec"
               PROVE  s \in ShardsOf(net'[s][i].m)
    BY DEF Addressed
  <2>7. i \in 1..Len(n) /\ net'[s][i] = n[i]
    BY <2>3, <2>5, <2>6
  <2> QED
    BY <1>0, <2>1, <2>7 DEF Addressed
<1>2. CASE ~ (Sends(v) /\ At(v) = s)
  <2>1. net'[s] = net[s]
    BY <1>0, <1>2 DEF Continue
  <2> QED
    BY <1>0, <2>1 DEF Addressed
<1> QED
  BY <1>1, <1>2

(* MarkInv through a step of the Router.                                    *)
LEMMA MovesMark ==
  ASSUME PullInv, MarkInv, NEW p \in Procs, NEW m, NEW v, NEW r, Moves(p, m, v, r)
  PROVE  MarkInv'
<1>0. /\ proc \in [Procs -> ProcType] /\ rec \in [Mutations -> RecType] /\ m \in Mutations
      /\ proc' = [proc EXCEPT ![p] = v] /\ rec' = [rec EXCEPT ![m] = r]
  BY DEF PullInv, RouterType, Moves, Continue
<1>1. rec'[m] = r /\ \A k \in Mutations \ {m} : rec'[k] = rec[k]
  BY <1>0
<1>2. Onward(rec[m], r)
  BY DEF Moves
<1>3. ASSUME NEW q \in Procs PROVE Marks(proc'[q], rec'[proc'[q].m])
  <2>1. CASE q = p
    <3>1. proc'[q] = v
      BY <1>0, <2>1
    <3>2. v.pc \in Working => v.m = m /\ Marks(v, r)
      BY DEF Moves
    <3> QED
      BY <1>1, <3>1, <3>2 DEF Marks
  <2>2. CASE q # p
    <3>1. PICK w : w = proc[q]
      OBVIOUS
    <3>2. proc'[q] = w /\ Marks(w, rec[w.m]) /\ Pulls(w)
      BY <1>0, <2>2, <3>1 DEF MarkInv, PullInv
    <3>3. CASE w.pc \in Working
      <4>1. w.m \in Mutations /\ rec[w.m].state # "none" /\ ShardsOf(w.m) \subseteq Shards
        BY <3>2, <3>3, WorkingIsAtWork, ShardsOfEnvelope DEF AtWork
      <4>2. Onward(rec[w.m], rec'[w.m])
        <5>1. CASE w.m = m
          BY <1>1, <1>2, <5>1
        <5>2. CASE w.m # m
          BY <1>1, <4>1, <5>2 DEF Onward
        <5> QED
          BY <5>1, <5>2
      <4>3. rec[w.m].state \in {"none", "open", "done"}
        BY <1>0, <4>1 DEF RecType
      <4>4. rec'[w.m].state = "open" => rec[w.m].state = "open"
        BY <4>1, <4>2, <4>3 DEF Onward
      <4>5. Marks(w, rec'[w.m])
        BY <3>2, <4>1, <4>2, <4>4 DEF Marks, Onward
      <4> QED
        BY <3>2, <4>5
    <3>4. CASE w.pc \notin Working
      BY <3>2, <3>4 DEF Marks
    <3> QED
      BY <3>3, <3>4
  <2> QED
    BY <2>1, <2>2
<1>4. ASSUME NEW c \in Calls, proc'[c].pc = "ok" PROVE rec'[KeyOf[c]].state = "done"
  <2>0. c \in Procs /\ KeyOf[c] \in Mutations
    BY SagaConstants DEF Procs
  <2>1. CASE c = p
    <3>1. v.pc = "ok"
      BY <1>0, <1>4, <2>0, <2>1
    <3>2. m = KeyOf[c] /\ r.state = "done"
      BY <2>1, <3>1 DEF Moves
    <3> QED
      BY <1>1, <3>2
  <2>2. CASE c # p
    <3>1. proc'[c] = proc[c]
      BY <1>0, <2>0, <2>2
    <3>2. rec[KeyOf[c]].state = "done"
      BY <1>4, <3>1 DEF MarkInv
    <3>3. CASE KeyOf[c] = m
      BY <1>1, <1>2, <3>2, <3>3 DEF Onward
    <3>4. CASE KeyOf[c] # m
      BY <1>1, <2>0, <3>2, <3>4
    <3> QED
      BY <3>3, <3>4
  <2> QED
    BY <2>1, <2>2
<1>5. \A s \in Shards : Addressed(s, net[s])'
  BY ContinueAddressed DEF Moves
<1> QED
  BY <1>3, <1>4, <1>5 DEF MarkInv, Marks

(* A step of the Router that pulls nothing is a reply, a completion, or     *)
(* nothing that a client can see.                                           *)
LEMMA MovesOutcome ==
  ASSUME PullInv, PullInv', SagaInv, SagaInv', NEW p \in Procs, NEW m, NEW v, NEW r,
         Moves(p, m, v, r), proc[p].pc # "ok", UNCHANGED <<cursor, journal>>
  PROVE  OutcomeStep
<1>0. /\ proc \in [Procs -> ProcType] /\ rec \in [Mutations -> RecType] /\ m \in Mutations
      /\ proc' = [proc EXCEPT ![p] = v] /\ rec' = [rec EXCEPT ![m] = r]
  BY DEF PullInv, RouterType, Moves, Continue
<1>1. OutcomeRows' = OutcomeRows /\ OutcomeShown' = OutcomeShown
  BY DEF OutcomeRows, OutcomeShown
<1>2. rec'[m] = r /\ (\A k \in Mutations : k # m => rec'[k] = rec[k]) /\ Onward(rec[m], r)
  BY <1>0 DEF Moves
<1>3. Steady
  BY SameJournals
<1>4. ASSUME r.state = "done"
      PROVE  /\ \A s \in ShardsOf(m) : Visible(s, m)
             /\ r.total = RowsOf(m) /\ RowsOf(m)' = RowsOf(m)
             /\ OutcomeTotal' = [OutcomeTotal EXCEPT ![m] = RowsOf(m)]
  <2>1. RecTrue(rec[m], m)'
    BY <1>0 DEF SagaInv
  <2>2. (\A s \in ShardsOf(m) : Visible(s, m)') /\ r.total = RowsOf(m)'
    BY <1>2, <1>4, <2>1 DEF RecTrue
  <2>3. \A s \in ShardsOf(m) : Visible(s, m) /\ Entry(s, m)
    BY <2>2 DEF Visible, Entry
  <2>4. RowsOf(m)' = RowsOf(m)
    BY <1>0, <1>3, <2>3, AllRowsKept
  <2>5. PICK n : n = RowsOf(m)
    OBVIOUS
  <2>6. r.total = n
    BY <2>2, <2>4, <2>5
  <2>7. OutcomeTotal' = [OutcomeTotal EXCEPT ![m] = n]
    BY <1>0, <1>2, <1>4, <2>6 DEF OutcomeTotal
  <2> QED
    BY <2>2, <2>3, <2>4, <2>5, <2>7
<1>5. CASE p \in Calls /\ v.pc = "ok"
  <2>1. m = KeyOf[p] /\ r.state = "done" /\ proc'[p] = v
    BY <1>0, <1>5 DEF Moves
  <2>2. Told(p, proc[p])'
    BY DEF SagaInv, Knows
  <2>3. v.count = RowsOf(m)'
    BY <1>5, <2>1, <2>2 DEF Told
  <2>4. PICK n : n = RowsOf(m)
    OBVIOUS
  <2>5. v.count = n
    BY <1>4, <2>1, <2>3, <2>4
  <2>6. OutcomeAnswer' = [OutcomeAnswer EXCEPT ![p] = n]
    <3>1. \A c \in Calls : proc'[c] = IF c = p THEN v ELSE proc[c]
      BY <1>0 DEF Procs
    <3> QED
      BY <1>5, <2>5, <3>1 DEF OutcomeAnswer
  <2>7. OutcomeAnswer[p] = Unset
    BY <1>5 DEF OutcomeAnswer
  <2> QED
    BY <1>0, <1>1, <1>4, <1>5, <2>1, <2>4, <2>6, <2>7, ReplyStep
<1>6. CASE ~ (p \in Calls /\ v.pc = "ok")
  <2>1. OutcomeAnswer' = OutcomeAnswer
    <3>1. \A c \in Calls : proc'[c] = IF c = p THEN v ELSE proc[c]
      BY <1>0 DEF Procs
    <3>2. \A c \in Calls : (IF proc'[c].pc = "ok" THEN proc'[c].count ELSE Unset)
                           = (IF proc[c].pc = "ok" THEN proc[c].count ELSE Unset)
      BY <1>6, <3>1
    <3> QED
      BY <3>2 DEF OutcomeAnswer
  <2>2. CASE r.state # "done"
    <3>1. rec[m].state # "done"
      BY <1>2, <2>2 DEF Onward
    <3>2. OutcomeTotal' = OutcomeTotal
      BY <1>0, <1>2, <2>2, <3>1 DEF OutcomeTotal
    <3> QED
      BY <1>1, <2>1, <3>2, NoStep
  <2>3. CASE r.state = "done" /\ rec[m].state = "done"
    <3>1. rec[m].total = RowsOf(m)
      BY <1>0, <2>3 DEF SagaInv, RecTrue
    <3>2. \A k \in Mutations : rec'[k].state = rec[k].state /\ (rec[k].state = "done" => rec'[k].total = rec[k].total)
      BY <1>2, <1>4, <2>3, <3>1
    <3>3. OutcomeTotal' = OutcomeTotal
      BY <3>2 DEF OutcomeTotal
    <3> QED
      BY <1>1, <2>1, <3>3, NoStep
  <2>4. CASE r.state = "done" /\ rec[m].state # "done"
    <3>1. OutcomeTotal[m] = Unset
      BY <1>0, <2>4 DEF OutcomeTotal
    <3> QED
      BY <1>0, <1>1, <1>4, <2>1, <2>4, <3>1, CompleteStep
  <2> QED
    BY <2>2, <2>3, <2>4
<1> QED
  BY <1>5, <1>6
------------------------------------------------------------------------------
(* Every step of the Router moves a process and one record.                 *)

(* A process that is neither at work nor answered, and whose record stays.  *)
LEMMA QuietMoves ==
  ASSUME PullInv, NEW p \in Procs, NEW m \in Mutations, NEW v, Continue(p, v), UNCHANGED rec,
         v.pc \notin Working, v.pc # "ok"
  PROVE  \E r : Moves(p, m, v, r)
<1>1. PICK r : r = rec[m]
  OBVIOUS
<1>2. rec \in [Mutations -> RecType]
  BY DEF PullInv, RouterType
<1>3. rec' = [rec EXCEPT ![m] = r] /\ Onward(rec[m], r)
  BY <1>1, <1>2 DEF Onward
<1>4. Moves(p, m, v, r)
  BY <1>3 DEF Moves
<1> QED
  BY <1>4

(* Process p moves one mutation onward.                                     *)
Goes(p) == \E m, v, r : Moves(p, m, v, r)

(* An attempt that fails.                                                   *)
LEMMA GivesUpMoves ==
  ASSUME PullInv, NEW p \in Procs, NEW m \in Mutations, NEW w,
         NEW why \in {"none", "mismatch", "missing", "conflict", "lag", "gap"},
         Continue(p, Failed(w, why)), UNCHANGED rec
  PROVE  Goes(p)
<1>1. PICK v : v = Failed(w, why)
  OBVIOUS
<1>2. v.pc \in {"idle", "error"}
  BY <1>1, FailedFields
<1>3. v.pc \notin Working /\ v.pc # "ok" /\ Continue(p, v)
  BY <1>1, <1>2 DEF Working, Reads
<1>4. \E r : Moves(p, m, v, r)
  BY <1>3, QuietMoves
<1> QED
  BY <1>4 DEF Goes

(* The shard is marked, and the process goes on or ends: a call that ends   *)
(* its capture marked the last shard, or finds the record complete.         *)
LEMMA AdvancedMoves ==
  ASSUME PullInv, NEW p \in Procs, NEW w \in ProcType, NEW r \in RecType, w.pc \in Working,
         AtCaptured(w, r), Role(p, w), Onward(rec[w.m], r), Marks(w, r),
         Continue(p, NextShard(w, Advanced(r, w.m, At(w)))),
         rec' = [rec EXCEPT ![w.m] = Advanced(r, w.m, At(w))]
  PROVE  Goes(p)
<1>0. /\ AtWork(w) /\ w.mode \in {"capture", "reconcile", "recover"} /\ w.m \in Mutations
      /\ Shaped(r, w.m) /\ r.state # "none" /\ (r.state = "open" => r.shards[At(w)].done)
      /\ At(w) \in ShardsOf(w.m) /\ At(w) \in w.todo /\ w.todo \subseteq ShardsOf(w.m)
      /\ ShardsOf(w.m) \subseteq Shards
  BY AtInTodo, ShardsOfEnvelope DEF AtCaptured, AtWork
<1>1. PICK m : m = w.m
  OBVIOUS
<1>2. PICK a : a = At(w)
  OBVIOUS
<1>3. PICK r2 : r2 = Advanced(r, m, a)
  OBVIOUS
<1>4. PICK v : v = NextShard(w, r2)
  OBVIOUS
<1>5. Continue(p, v) /\ rec' = [rec EXCEPT ![m] = r2]
  BY <1>1, <1>2, <1>3, <1>4
<1>6. /\ m \in Mutations /\ a \in ShardsOf(m) /\ Shaped(r, m)
      /\ (r.state = "open" => r.shards[a].done)
  BY <1>0, <1>1, <1>2
<1>7. r2 \in RecType /\ Shaped(r2, m)
  BY <1>0, <1>3, <1>6, AdvancedRecord
<1>8. /\ Onward(r, r2) /\ r2.state # "none"
      /\ r2.state = "open" => r.state = "open" /\ r2.shards[a].projected
  BY <1>0, <1>3, <1>6, AdvancedOnward
<1>9. Onward(rec[m], r2)
  <2>1. r.state \in {"open", "done"}
    BY <1>0 DEF RecType
  <2>2. Onward(rec[m], r)
    BY <1>1
  <2>3. PICK r0 : r0 = rec[m]
    OBVIOUS
  <2> QED
    BY <1>8, <2>1, <2>2, <2>3, OnwardTrans
<1>10. (w.mode = "capture" /\ r2.state = "open") =>
         \A t \in ShardsOf(m) \ (w.todo \ {a}) : r2.shards[t].projected
  <2> SUFFICES ASSUME w.mode = "capture", r2.state = "open", NEW t \in ShardsOf(m) \ (w.todo \ {a})
               PROVE  r2.shards[t].projected
    OBVIOUS
  <2>1. CASE t = a
    BY <1>8, <2>1
  <2>2. CASE t # a
    <3>1. t \in ShardsOf(w.m) \ w.todo /\ r.state = "open" /\ t \in Shards
      BY <1>0, <1>1, <1>8, <2>2
    <3>2. r.shards[t].projected
      BY <3>1 DEF Marks
    <3> QED
      BY <1>8, <3>1, <3>2 DEF Onward
  <2> QED
    BY <2>1, <2>2
<1>11. \/ /\ v.pc = "fetch" /\ v.mode = w.mode /\ v.todo = w.todo \ {a} /\ v.m = m
       \/ /\ w.todo = {a}
          /\ \/ v.pc = "idle" \/ v.pc = "prepared"
             \/ w.mode = "capture" /\ v.pc = "ok"
             \/ r2.state = "done" /\ v.pc = "ok"
  BY <1>0, <1>1, <1>2, <1>4, <1>7, NextShardFields
<1>12. v.pc \in Working => v.m = m /\ Marks(v, r2)
  BY <1>10, <1>11 DEF Marks, Working, Reads
<1>13. (v.pc = "ok" /\ p \in Calls) => m = KeyOf[p] /\ r2.state = "done"
  <2> SUFFICES ASSUME v.pc = "ok", p \in Calls
               PROVE  m = KeyOf[p] /\ r2.state = "done"
    OBVIOUS
  <2>1. m = KeyOf[p]
    BY <1>1 DEF Role, Active
  <2>2. ASSUME r2.state = "open", w.mode = "capture", w.todo = {a} PROVE FALSE
    <3>1. \A t \in ShardsOf(m) : r2.shards[t].projected
      BY <1>10, <2>2
    <3> QED
      BY <1>7, <2>2, <3>1 DEF Shaped
  <2>3. r2.state \in {"open", "done"}
    BY <1>7, <1>8 DEF RecType
  <2> QED
    BY <1>11, <2>1, <2>2, <2>3
<1>14. Moves(p, m, v, r2)
  BY <1>5, <1>6, <1>9, <1>12, <1>13 DEF Moves
<1> QED
  BY <1>14 DEF Goes

(* A shard is settled: the marks follow the capture.                        *)
LEMMA SettleMoves ==
  ASSUME PullInv, NEW p \in Procs, NEW w \in ProcType, NEW r \in RecType, w.pc \in Working,
         AtCaptured(w, r), Role(p, w), Onward(rec[w.m], r), Marks(w, r), Settle(p, w, r)
  PROVE  Goes(p)
<1>0. /\ AtWork(w) /\ w.mode \in {"capture", "reconcile", "recover"} /\ w.m \in Mutations
      /\ Shaped(r, w.m) /\ r.state # "none" /\ (r.state = "open" => r.shards[At(w)].done)
      /\ At(w) \in ShardsOf(w.m) /\ At(w) \in w.todo /\ w.todo \subseteq ShardsOf(w.m)
      /\ ShardsOf(w.m) \subseteq Shards
  BY AtInTodo, ShardsOfEnvelope DEF AtCaptured, AtWork
<1>1. CASE Disagrees(w)
  <2>1. PICK v : v = Failed(w, "mismatch")
    OBVIOUS
  <2>2. Continue(p, v) /\ rec' = [rec EXCEPT ![w.m] = r]
    BY <1>1, <2>1 DEF Settle
  <2>3. v.pc \in {"idle", "error"}
    BY <2>1, FailedFields
  <2>4. Moves(p, w.m, v, r)
    BY <1>0, <2>2, <2>3 DEF Moves, Working, Reads
  <2> QED
    BY <2>4 DEF Goes
<1>2. CASE ~Disagrees(w) /\ Finalizes(w)
  <2>1. PICK v : v = [w EXCEPT !.pc = "finalize", !.ans = Waiting]
    OBVIOUS
  <2>2. Continue(p, v) /\ rec' = [rec EXCEPT ![w.m] = r]
    BY <1>2, <2>1 DEF Settle
  <2>3. v.pc = "finalize" /\ v.m = w.m /\ v.todo = w.todo /\ v.mode = w.mode
    BY <2>1 DEF ProcType
  <2>4. Marks(v, r)
    BY <2>3 DEF Marks
  <2>5. Moves(p, w.m, v, r)
    BY <1>0, <2>2, <2>3, <2>4 DEF Moves
  <2> QED
    BY <2>5 DEF Goes
<1>3. CASE ~Disagrees(w) /\ ~Finalizes(w)
  BY <1>3, AdvancedMoves DEF Settle
<1> QED
  BY <1>1, <1>2, <1>3

(* The next page, or the end of the projection.                             *)
LEMMA ProjectMoves ==
  ASSUME PullInv, NEW p \in Procs, NEW w \in ProcType, NEW r \in RecType, w.pc \in Working,
         AtCaptured(w, r), Role(p, w), Onward(rec[w.m], r), Marks(w, r), Project(p, w, r)
  PROVE  Goes(p)
<1>1. CASE cursor[At(w)] >= w.target
  BY <1>1, SettleMoves DEF Project
<1>2. CASE ~ (cursor[At(w)] >= w.target)
  <2>1. PICK k : k = cursor[At(w)] + 1
    OBVIOUS
  <2>2. PICK v : v = [w EXCEPT !.pc = "list", !.ans = Waiting, !.from = k]
    OBVIOUS
  <2>3. Continue(p, v) /\ rec' = [rec EXCEPT ![w.m] = r]
    BY <1>2, <2>1, <2>2 DEF Project
  <2>4. v.pc = "list" /\ v.m = w.m /\ v.todo = w.todo /\ v.mode = w.mode
    BY <2>2 DEF ProcType
  <2>5. Marks(v, r)
    BY <2>4 DEF Marks
  <2>6. w.m \in Mutations
    BY DEF AtCaptured, AtWork
  <2>7. Moves(p, w.m, v, r)
    BY <2>3, <2>4, <2>5, <2>6 DEF Moves
  <2> QED
    BY <2>7 DEF Goes
<1> QED
  BY <1>1, <1>2

(* Moves of a process that reads a journal entry.                           *)
LEMMA ReadEntryMoves ==
  ASSUME PullInv, SagaInv, MarkInv, NEW p \in Procs, ReadEntry(p)
  PROVE  Goes(p)
<1>0. PICK w : w = proc[p]
  OBVIOUS
<1>1. w.pc = "fetch" /\ w.pc \in Working
  BY <1>0 DEF ReadEntry, Answered, Working, Reads
<1>2. /\ w \in ProcType /\ Pulls(w) /\ AtWork(w) /\ w.m \in Mutations
      /\ At(w) \in ShardsOf(w.m) /\ At(w) \in Shards
      /\ rec[w.m].state # "none" /\ w.mode \in {"capture", "reconcile", "recover"}
      /\ rec[w.m] \in RecType /\ Shaped(rec[w.m], w.m)
      /\ w.ans.first \in Nat /\ w.ans.last \in Nat
  BY <1>0, <1>1, AnsweredFacts
<1>3. Role(p, w) /\ Marks(w, rec[w.m])
  BY <1>0, <1>1, WorkerFacts DEF MarkInv
<1>4. CASE Lost(p)
  <2>1. Continue(p, Failed(w, "none")) /\ UNCHANGED rec
    BY <1>0, <1>4 DEF Lost, routerVars
  <2> QED
    BY <1>2, <2>1, GivesUpMoves
<1>5. CASE Continue(p, NoEntry(w)) /\ UNCHANGED <<routerVars, shardVars, faults>>
  <2>0. UNCHANGED rec
    BY <1>5 DEF routerVars
  <2>1. CASE w.mode = "recover"
    <3>1. PICK r : r = rec[w.m]
      OBVIOUS
    <3>2. PICK v : v = NextShard(w, r)
      OBVIOUS
    <3>3. Continue(p, v)
      BY <1>5, <2>1, <3>1, <3>2 DEF NoEntry
    <3>4. (v.pc = "fetch" /\ v.mode = "recover" /\ v.m = w.m) \/ v.pc = "idle"
      BY <1>2, <2>1, <3>1, <3>2, NextShardFields
    <3>5. rec \in [Mutations -> RecType]
      BY DEF PullInv, RouterType
    <3>6. rec' = [rec EXCEPT ![w.m] = r] /\ Onward(rec[w.m], r)
      BY <2>0, <3>1, <3>5 DEF Onward
    <3>7. Marks(v, r)
      BY <3>4 DEF Marks, Working, Reads
    <3>8. Moves(p, w.m, v, r)
      BY <1>2, <3>3, <3>4, <3>6, <3>7 DEF Moves, Working, Reads
    <3> QED
      BY <3>8 DEF Goes
  <2>2. CASE w.mode # "recover"
    <3>1. NoEntry(w) = Failed(w, "none") \/ NoEntry(w) = Failed(w, "missing")
      BY <2>2 DEF NoEntry
    <3> QED
      BY <1>2, <1>5, <2>0, <3>1, GivesUpMoves
  <2> QED
    BY <2>1, <2>2
<1>6. CASE Continue(p, Failed(w, "conflict")) /\ UNCHANGED <<routerVars, shardVars, faults>>
  <2>1. UNCHANGED rec
    BY <1>6 DEF routerVars
  <2> QED
    BY <1>2, <1>6, <2>1, GivesUpMoves
<1>7. CASE /\ w.ans.kind = "entry"
           /\ Project(p, [w EXCEPT !.count = w.ans.first, !.target = w.ans.last],
                      Captured(rec[w.m], At(w), w.ans.first))
  <2>1. PICK u : u = [w EXCEPT !.count = w.ans.first, !.target = w.ans.last]
    OBVIOUS
  <2>2. PICK r : r = Captured(rec[w.m], At(w), w.ans.first)
    OBVIOUS
  <2>3. /\ u \in ProcType /\ u.m = w.m /\ u.todo = w.todo /\ u.mode = w.mode
        /\ u.target = w.ans.last /\ u.pc = w.pc /\ u.why = w.why /\ u.sum = w.sum
    BY <1>2, <2>1 DEF ProcType
  <2>4. At(u) = At(w)
    BY <2>3 DEF At
  <2>5. /\ r \in RecType /\ Shaped(r, w.m) /\ Forth(rec[w.m], r) /\ r.state = rec[w.m].state
        /\ r.state = "open" => r.shards[At(w)].done
    BY <1>2, <2>2, CapturedRecord
  <2>6. Onward(rec[w.m], r)
    BY <1>2, <2>2, CapturedOnward
  <2>7. w.ans.last <= Len(log[At(w)])
    BY <1>1, <1>2, <1>7 DEF Pulls
  <2>8. AtCaptured(u, r)
    BY <1>2, <2>3, <2>4, <2>5, <2>7 DEF AtCaptured, AtWork
  <2>9. Role(p, u)
    BY <1>3, <2>3 DEF Role
  <2>10. Marks(u, r)
    <3>1. ShardsOf(w.m) \subseteq Shards
      BY <1>2, ShardsOfEnvelope
    <3> QED
      BY <1>3, <2>3, <2>5, <2>6, <3>1 DEF Marks, Onward
  <2>11. Onward(rec[u.m], r) /\ u.pc \in Working /\ Project(p, u, r)
    BY <1>1, <1>7, <2>1, <2>2, <2>3, <2>6
  <2> QED
    BY <2>3, <2>5, <2>8, <2>9, <2>10, <2>11, ProjectMoves
<1> QED
  BY <1>0, <1>4, <1>5, <1>6, <1>7 DEF ReadEntry

(* Moves of a process whose acknowledgement was answered.                   *)
LEMMA ReadAckMoves ==
  ASSUME PullInv, SagaInv, MarkInv, NEW p \in Procs, ReadAck(p)
  PROVE  Goes(p)
<1>0. PICK w : w = proc[p]
  OBVIOUS
<1>1. w.pc = "ack" /\ w.pc \in Working /\ w.pc \in Pulling
  BY <1>0 DEF ReadAck, Answered, Working, Reads, Pulling
<1>2. /\ w \in ProcType /\ Pulls(w) /\ AtWork(w) /\ w.m \in Mutations
      /\ rec[w.m].state # "none" /\ w.mode \in {"capture", "reconcile", "recover"}
      /\ rec[w.m] \in RecType /\ Shaped(rec[w.m], w.m)
  BY <1>0, <1>1, AnsweredFacts
<1>3. Role(p, w) /\ Marks(w, rec[w.m])
  BY <1>0, <1>1, WorkerFacts DEF MarkInv
<1>4. CASE Lost(p)
  <2>1. Continue(p, Failed(w, "none")) /\ UNCHANGED rec
    BY <1>0, <1>4 DEF Lost, routerVars
  <2> QED
    BY <1>2, <2>1, GivesUpMoves
<1>5. CASE Project(p, w, rec[w.m])
  <2>1. Forth(rec[w.m], rec[w.m]) /\ Onward(rec[w.m], rec[w.m])
    BY <1>2 DEF Forth, Onward
  <2>2. AtCaptured(w, rec[w.m])
    BY <1>1, <1>2, <2>1 DEF AtCaptured, Pulls
  <2> QED
    BY <1>1, <1>2, <1>3, <1>5, <2>1, <2>2, ProjectMoves
<1> QED
  BY <1>0, <1>4, <1>5 DEF ReadAck

(* Moves of a process whose hot vertices were finalized.                    *)
LEMMA FinalizedMoves ==
  ASSUME PullInv, SagaInv, MarkInv, NEW p \in Procs, Finalized(p)
  PROVE  Goes(p)
<1>0. PICK w : w = proc[p]
  OBVIOUS
<1>1. w.pc = "finalize" /\ w.pc \in Working /\ w.pc \in Pulling
  BY <1>0 DEF Finalized, Working, Pulling
<1>2. /\ w \in ProcType /\ Pulls(w) /\ AtWork(w) /\ w.m \in Mutations
      /\ rec[w.m].state # "none" /\ w.mode \in {"capture", "reconcile", "recover"}
      /\ rec[w.m] \in RecType /\ Shaped(rec[w.m], w.m)
  BY <1>0, <1>1, AnsweredFacts
<1>3. Role(p, w) /\ Marks(w, rec[w.m])
  BY <1>0, <1>1, WorkerFacts DEF MarkInv
<1>4. Forth(rec[w.m], rec[w.m]) /\ Onward(rec[w.m], rec[w.m])
  BY <1>2 DEF Forth, Onward
<1>5. AtCaptured(w, rec[w.m])
  BY <1>1, <1>2, <1>4 DEF AtCaptured, Pulls
<1>6. PICK r : r = rec[w.m]
  OBVIOUS
<1>7. /\ Continue(p, NextShard(w, Advanced(r, w.m, At(w))))
      /\ rec' = [rec EXCEPT ![w.m] = Advanced(r, w.m, At(w))]
  BY <1>0, <1>6 DEF Finalized
<1>8. /\ r \in RecType /\ AtCaptured(w, r) /\ Onward(rec[w.m], r) /\ Marks(w, r)
  BY <1>2, <1>3, <1>4, <1>5, <1>6
<1> QED
  BY <1>1, <1>2, <1>3, <1>7, <1>8, AdvancedMoves

(* Moves of a process whose finalization failed.                            *)
LEMMA FinalizeFailedMoves ==
  ASSUME PullInv, NEW p \in Procs, FinalizeFailed(p)
  PROVE  Goes(p)
<1>1. proc[p].pc \in Working
  BY DEF FinalizeFailed, Working
<1>2. PICK w : w = proc[p]
  OBVIOUS
<1>3. w.m \in Mutations
  BY <1>1, <1>2, AnsweredFacts
<1>4. Continue(p, Failed(w, "none")) /\ UNCHANGED rec
  BY <1>2 DEF FinalizeFailed, routerVars
<1> QED
  BY <1>3, <1>4, GivesUpMoves

(* Moves of a call that is prepared.                                        *)
LEMMA PrepareMoves ==
  ASSUME PullInv, NEW c \in Calls, Prepare(c)
  PROVE  Goes(c)
<1>0. PICK m : m = KeyOf[c]
  OBVIOUS
<1>1. /\ c \in Procs /\ m \in Mutations /\ rec[m].total \in Nat
      /\ rec \in [Mutations -> RecType] /\ ShardsOf(m) \subseteq Shards
  BY <1>0, CallFacts, RecordFacts, ShardsOfEnvelope DEF PullInv, RouterType
<1>2. /\ rec' = IF rec[m].state = "none" THEN [rec EXCEPT ![m] = Envelope] ELSE rec
      /\ Continue(c, CASE rec[m].state = "done" -> Replied(rec[m].total)
                       [] rec[m].state # "done" /\ Unprojected(m) # {} ->
                            Fetching(About("prepared", m), "reconcile", Unprojected(m))
                       [] OTHER -> About("prepared", m))
  BY <1>0 DEF Prepare, About
<1>3. PICK r : r = IF rec[m].state = "none" THEN Envelope ELSE rec[m]
  OBVIOUS
<1>4. rec' = [rec EXCEPT ![m] = r] /\ Onward(rec[m], r)
  BY <1>1, <1>2, <1>3 DEF Onward
<1>5. CASE rec[m].state = "done"
  <2>1. PICK v : v = Replied(rec[m].total)
    OBVIOUS
  <2>2. Continue(c, v) /\ v.pc = "ok" /\ r.state = "done"
    BY <1>1, <1>2, <1>3, <1>5, <2>1, RepliedFields
  <2>3. Moves(c, m, v, r)
    BY <1>0, <1>1, <1>4, <2>2 DEF Moves, Working, Reads
  <2> QED
    BY <2>3 DEF Goes
<1>6. CASE rec[m].state # "done" /\ Unprojected(m) # {}
  <2>1. PICK w : w = About("prepared", m)
    OBVIOUS
  <2>2. PICK v : v = Fetching(w, "reconcile", Unprojected(m))
    OBVIOUS
  <2>3. Continue(c, v)
    BY <1>2, <1>6, <2>1, <2>2
  <2>4. w \in ProcType /\ w.m = m
    BY <1>1, <2>1, PreparedFields
  <2>5. Unprojected(m) \subseteq Shards
    BY <1>1 DEF Unprojected
  <2>6. v.pc = "fetch" /\ v.mode = "reconcile" /\ v.m = m
    BY <2>2, <2>4, <2>5, FetchingFields
  <2>7. Moves(c, m, v, r)
    BY <1>1, <1>4, <2>3, <2>6 DEF Moves, Marks
  <2> QED
    BY <2>7 DEF Goes
<1>7. CASE rec[m].state # "done" /\ Unprojected(m) = {}
  <2>1. PICK v : v = About("prepared", m)
    OBVIOUS
  <2>2. Continue(c, v) /\ v.pc = "prepared"
    BY <1>1, <1>2, <1>7, <2>1, PreparedFields
  <2>3. Moves(c, m, v, r)
    BY <1>1, <1>4, <2>2 DEF Moves, Working, Reads
  <2> QED
    BY <2>3 DEF Goes
<1> QED
  BY <1>5, <1>6, <1>7

(* Moves of a call whose shards have all answered or failed.                *)
LEMMA DispatchedMoves ==
  ASSUME PullInv, NEW c \in Calls, Dispatched(c)
  PROVE  Goes(c)
<1>0. PICK w : w = proc[c]
  OBVIOUS
<1>1. w.pc = "exec" /\ w.pc \in Active /\ rec' = rec
  BY <1>0 DEF Dispatched, routerVars, Active
<1>2. c \in Procs /\ w \in ProcType /\ Pulls(w)
  BY <1>0, CallFacts
<1>3. w.m \in Mutations
  BY <1>1, <1>2 DEF Pulls
<1>4. PICK v : v = Fetching(w, "capture", ShardsOf(w.m))
  OBVIOUS
<1>5. Continue(c, v)
  BY <1>0, <1>4 DEF Dispatched
<1>6. v.pc = "fetch" /\ v.m = w.m /\ v.todo = ShardsOf(w.m)
  BY <1>2, <1>3, <1>4, FetchingFields, ShardsOfEnvelope
<1>7. PICK r : r = rec[w.m]
  OBVIOUS
<1>8. Marks(v, r)
  BY <1>6 DEF Marks
<1>9. rec \in [Mutations -> RecType]
  BY DEF PullInv, RouterType
<1>10. rec' = [rec EXCEPT ![w.m] = r] /\ Onward(rec[w.m], r)
  BY <1>1, <1>7, <1>9 DEF Onward
<1>11. Moves(c, w.m, v, r)
  BY <1>3, <1>5, <1>6, <1>8, <1>10 DEF Moves
<1> QED
  BY <1>11 DEF Goes

(* Moves of the recovery pass that takes up a record.                       *)
LEMMA RecoverStartMoves ==
  ASSUME PullInv, NEW m \in Mutations, RecoverStart(m)
  PROVE  Goes(Recovery)
<1>1. rec' = rec /\ Continue(Recovery, Fetching(About("idle", m), "recover", Unfinished(m)))
  BY DEF RecoverStart, About, routerVars
<1>2. PICK w : w = About("idle", m)
  OBVIOUS
<1>3. PICK v : v = Fetching(w, "recover", Unfinished(m))
  OBVIOUS
<1>4. w \in ProcType /\ w.m = m
  BY <1>2, PreparedFields
<1>5. Unfinished(m) \subseteq Shards
  BY ShardsOfEnvelope DEF Unfinished
<1>6. v.pc = "fetch" /\ v.mode = "recover" /\ v.m = m
  BY <1>3, <1>4, <1>5, FetchingFields
<1>7. PICK r : r = rec[m]
  OBVIOUS
<1>8. rec \in [Mutations -> RecType]
  BY DEF PullInv, RouterType
<1>9. rec' = [rec EXCEPT ![m] = r] /\ Onward(rec[m], r)
  BY <1>1, <1>7, <1>8 DEF Onward
<1>10. Moves(Recovery, m, v, r)
  BY <1>1, <1>2, <1>3, <1>6, <1>9 DEF Moves, Marks
<1> QED
  BY <1>10 DEF Goes
------------------------------------------------------------------------------
(* The other steps.                                                         *)

(* A step that changes no record and answers no call.                       *)
Silent ==
  /\ rec' = rec
  /\ \A p \in Procs :
       \/ /\ proc'[p].pc = proc[p].pc /\ proc'[p].mode = proc[p].mode /\ proc'[p].m = proc[p].m
          /\ proc'[p].todo = proc[p].todo /\ proc'[p].count = proc[p].count
       \/ proc[p].pc # "ok" /\ proc'[p].pc \notin Working \cup {"ok"}

(* Nothing is completed or answered by it.                                  *)
LEMMA SilentMark ==
  ASSUME MarkInv, Silent, \A s \in Shards : Addressed(s, net[s])'
  PROVE  MarkInv' /\ OutcomeTotal' = OutcomeTotal /\ OutcomeAnswer' = OutcomeAnswer
<1>1. ASSUME NEW p \in Procs PROVE Marks(proc'[p], rec'[proc'[p].m])
  <2>1. Marks(proc[p], rec[proc[p].m])
    BY DEF MarkInv
  <2> QED
    BY <2>1 DEF Silent, Marks
<1>2. \A c \in Calls : c \in Procs
  BY DEF Procs
<1>3. ASSUME NEW c \in Calls, proc'[c].pc = "ok" PROVE rec'[KeyOf[c]].state = "done"
  BY <1>2, <1>3 DEF Silent, MarkInv
<1>4. MarkInv'
  BY <1>1, <1>3 DEF MarkInv, Marks
<1>5. OutcomeTotal' = OutcomeTotal
  BY DEF Silent, OutcomeTotal
<1>6. \A c \in Calls : (IF proc'[c].pc = "ok" THEN proc'[c].count ELSE Unset)
                       = (IF proc[c].pc = "ok" THEN proc[c].count ELSE Unset)
  BY <1>2 DEF Silent
<1>7. OutcomeAnswer' = OutcomeAnswer
  BY <1>6 DEF OutcomeAnswer
<1> QED
  BY <1>4, <1>5, <1>7

(* A queue that only lost requests.                                         *)
LEMMA ThinAddressed ==
  ASSUME PullInv, MarkInv, NEW s \in Shards, NEW n2, NEW f, NEW k,
         net' = [net EXCEPT ![s] = n2], Thins(net[s], n2, f, k)
  PROVE  \A t \in Shards : Addressed(t, net[t])'
<1>0. net \in [Shards -> Seq(ReqType)] /\ \A t \in Shards : Addressed(t, net[t])
  BY DEF PullInv, RouterType, MarkInv
<1>1. Addressed(s, n2)
  <2> SUFFICES ASSUME NEW i \in 1..Len(n2), n2[i].op = "exec"
               PROVE  s \in ShardsOf(n2[i].m)
    BY DEF Addressed
  <2>1. f[i] \in 1..Len(net[s]) /\ n2[i].op = net[s][f[i]].op /\ n2[i].m = net[s][f[i]].m
    BY DEF Thins
  <2> QED
    BY <1>0, <2>1 DEF Addressed
<1> TAKE t \in Shards
<1>2. CASE t = s
  <2>1. net'[t] = n2
    BY <1>0, <1>2
  <2> QED
    BY <1>1, <1>2, <2>1 DEF Addressed
<1>3. CASE t # s
  <2>1. net'[t] = net[t]
    BY <1>0, <1>3
  <2> QED
    BY <1>0, <2>1 DEF Addressed
<1> QED
  BY <1>2, <1>3

(* A request that is answered or given up.                                  *)
LEMMA AnswerMark ==
  ASSUME PullInv, MarkInv, NEW s \in Shards, NEW k \in 1..Len(net[s]), NEW q, q = net[s][k],
         NEW a \in Answers, Deliver(q, s, a), NEW n2, NEW f,
         net' = [net EXCEPT ![s] = n2], Thins(net[s], n2, f, k), UNCHANGED rec
  PROVE  MarkInv' /\ OutcomeTotal' = OutcomeTotal /\ OutcomeAnswer' = OutcomeAnswer
<1>1. q \in ReqType /\ proc \in [Procs -> ProcType]
  BY QueuedFacts DEF PullInv, RouterType
<1>2. \A p \in Procs :
        /\ proc'[p].pc = proc[p].pc /\ proc'[p].mode = proc[p].mode /\ proc'[p].m = proc[p].m
        /\ proc'[p].todo = proc[p].todo /\ proc'[p].count = proc[p].count
  BY <1>1, DeliverFields
<1>3. Silent
  BY <1>2 DEF Silent
<1>4. \A t \in Shards : Addressed(t, net[t])'
  BY ThinAddressed
<1> QED
  BY <1>3, <1>4, SilentMark

(* Reads, pages and acknowledgements are not seen by a client.              *)
LEMMA ServeOutcome ==
  ASSUME PullInv, MarkInv, NEW s \in Shards, Serve(s)
  PROVE  MarkInv' /\ OutcomeStep
<1>0. net \in [Shards -> Seq(ReqType)] /\ net[s] # <<>>
  BY DEF Serve, PullInv, RouterType
<1>1. PICK n : n = net[s]
  OBVIOUS
<1>2. PICK n2 : n2 = Tail(n)
  OBVIOUS
<1>3. PICK f : f = [i \in 1..Len(n2) |-> i + 1]
  OBVIOUS
<1>4. n2 \in Seq(ReqType) /\ Thins(n, n2, f, 1) /\ 1 \in 1..Len(n) /\ Head(n) = n[1]
  BY <1>0, <1>1, <1>2, <1>3, TailThins
<1>5. PICK q : q = n[1]
  OBVIOUS
<1>6. q \in ReqType /\ q.m \in Mutations /\ q.arg \in Nat
  BY <1>1, <1>4, <1>5, QueuedFacts
<1>7. PICK a : a = CASE q.op = "list" -> PageOf(s, q.arg)
                     [] q.op = "ack" -> Answer("acked", 0, 0)
                     [] q.op = "fetch" /\ journal[s][q.m].kind = "entry" -> journal[s][q.m]
                     [] OTHER -> Answer("none", 0, 0)
  OBVIOUS
<1>8. /\ q.op # "exec" /\ net' = [net EXCEPT ![s] = n2] /\ Deliver(q, s, a)
      /\ UNCHANGED <<rec, cursor, journal>>
  BY <1>1, <1>2, <1>4, <1>5, <1>7 DEF Serve, routerVars
<1>9. a \in Answers
  <2>1. CASE q.op = "list"
    <3>1. q.arg <= Len(log[s]) /\ pruned[s] < q.arg
      <4>1. PICK w : w = proc[q.p]
        OBVIOUS
      <4>2. Awaits(w, s, q) /\ Pulls(w) /\ pruned[s] < q.arg
        BY <1>1, <1>4, <1>5, <1>6, <2>1, <4>1, QueuedFacts DEF PullInv
      <4> QED
        BY <2>1, <4>2 DEF Awaits, Pulls
    <3>2. a = PageOf(s, q.arg)
      BY <1>7, <2>1
    <3> QED
      BY <1>6, <3>1, <3>2, PageAnswers
  <2>2. CASE q.op = "ack"
    <3>1. a = Answer("acked", 0, 0)
      BY <1>7, <2>2
    <3> QED
      BY <3>1 DEF Answer, Answers
  <2>3. CASE q.op = "fetch" /\ journal[s][q.m].kind = "entry"
    <3>1. a = journal[s][q.m]
      BY <1>7, <2>3
    <3> QED
      BY <1>6, <3>1 DEF PullInv, ShardType
  <2>4. CASE q.op = "fetch" /\ journal[s][q.m].kind # "entry"
    <3>1. a = Answer("none", 0, 0)
      BY <1>7, <2>4
    <3> QED
      BY <3>1 DEF Answer, Answers
  <2>5. q.op \in {"list", "ack", "fetch"}
    BY <1>6, <1>8 DEF ReqType, Reads
  <2> QED
    BY <2>1, <2>2, <2>3, <2>4, <2>5
<1>10. MarkInv' /\ OutcomeTotal' = OutcomeTotal /\ OutcomeAnswer' = OutcomeAnswer
  BY <1>1, <1>4, <1>5, <1>8, <1>9, AnswerMark
<1>11. OutcomeRows' = OutcomeRows /\ OutcomeShown' = OutcomeShown
  BY <1>8 DEF OutcomeRows, OutcomeShown
<1> QED
  BY <1>10, <1>11, NoStep

(* Nor are requests that are refused or time out.                           *)
LEMMA RequestFailsOutcome ==
  ASSUME PullInv, MarkInv, NEW s \in Shards, NEW k \in 1..Len(net[s]), Reject(s, k) \/ Timeout(s, k)
  PROVE  MarkInv' /\ OutcomeStep
<1>1. /\ Fault /\ Deliver(net[s][k], s, Failure) /\ UNCHANGED shardVars
      /\ \E n2 \in Seq(ReqType) : \E f :
           net' = [net EXCEPT ![s] = n2] /\ Thins(net[s], n2, f, k)
  BY RejectThins, TimeoutThins
<1>2. UNCHANGED <<rec, cursor, journal>>
  BY <1>1, FaultCounts DEF shardVars
<1>3. PICK n2 \in Seq(ReqType) : \E f : net' = [net EXCEPT ![s] = n2] /\ Thins(net[s], n2, f, k)
  BY <1>1
<1>4. PICK f : net' = [net EXCEPT ![s] = n2] /\ Thins(net[s], n2, f, k)
  BY <1>3
<1>5. PICK q : q = net[s][k]
  OBVIOUS
<1>6. PICK a : a = Failure
  OBVIOUS
<1>7. a \in Answers /\ Deliver(q, s, a)
  BY <1>1, <1>5, <1>6, WaitingType
<1>8. MarkInv' /\ OutcomeTotal' = OutcomeTotal /\ OutcomeAnswer' = OutcomeAnswer
  BY <1>2, <1>4, <1>5, <1>7, AnswerMark
<1>9. OutcomeRows' = OutcomeRows /\ OutcomeShown' = OutcomeShown
  BY <1>2 DEF OutcomeRows, OutcomeShown
<1> QED
  BY <1>8, <1>9, NoStep

(* The plans are sent to shards of the mutation; or its total is answered.  *)
LEMMA DispatchOutcome ==
  ASSUME PullInv, PullInv', SagaInv, SagaInv', MarkInv, NEW c \in Calls, Dispatch(c)
  PROVE  MarkInv' /\ OutcomeStep
<1>0. PICK w : w = proc[c]
  OBVIOUS
<1>1. w.pc = "prepared" /\ w.pc \in Active /\ UNCHANGED <<rec, cursor, journal>>
  BY <1>0 DEF Dispatch, routerVars, shardVars, Active
<1>2. c \in Procs /\ w \in ProcType /\ Pulls(w) /\ Knows(c, w)
  BY <1>0, CallFacts DEF SagaInv
<1>3. w.m \in Mutations /\ w.m = KeyOf[c]
  BY <1>1, <1>2 DEF Pulls, Knows, Role
<1>4. rec \in [Mutations -> RecType] /\ rec[w.m].total \in Nat
  BY <1>3, RecordFacts DEF PullInv, RouterType
<1>5. CASE rec[w.m].state = "done"
  <2>1. PICK v : v = Replied(rec[w.m].total)
    OBVIOUS
  <2>2. Continue(c, v) /\ v.pc = "ok"
    BY <1>0, <1>4, <1>5, <2>1, RepliedFields DEF Dispatch
  <2>3. PICK r : r = rec[w.m]
    OBVIOUS
  <2>4. rec' = [rec EXCEPT ![w.m] = r] /\ Onward(rec[w.m], r)
    BY <1>1, <1>4, <2>3 DEF Onward
  <2>5. Moves(c, w.m, v, r)
    BY <1>3, <1>5, <2>2, <2>3, <2>4 DEF Moves, Working, Reads
  <2>6. proc[c].pc # "ok" /\ UNCHANGED <<cursor, journal>>
    BY <1>0, <1>1
  <2> QED
    BY <1>2, <2>5, <2>6, MovesMark, MovesOutcome
<1>6. CASE rec[w.m].state # "done"
  <2>1. PICK to : to = {s \in ShardsOf(w.m) : Gate(rec[w.m], s)}
    OBVIOUS
  <2>2. PICK out : out = [s \in Shards |-> IF s \in to THEN Waiting ELSE Answer("captured", 0, 0)]
    OBVIOUS
  <2>3. PICK v : v = [w EXCEPT !.pc = "exec", !.out = out]
    OBVIOUS
  <2>4. PICK q : q = Request(c, "exec", w.m, 0)
    OBVIOUS
  <2>5. /\ proc' = [proc EXCEPT ![c] = v]
        /\ net' = [s \in Shards |-> IF s \in to THEN Append(net[s], q) ELSE net[s]]
    BY <1>0, <1>6, <2>1, <2>2, <2>3, <2>4 DEF Dispatch
  <2>6. v.pc = "exec" /\ q.m = w.m
    BY <1>2, <2>3, <2>4 DEF ProcType, Request
  <2>7. proc \in [Procs -> ProcType] /\ net \in [Shards -> Seq(ReqType)]
    BY DEF PullInv, RouterType
  <2>8. Silent
    <3>1. \A p \in Procs : proc'[p] = IF p = c THEN v ELSE proc[p]
      BY <2>5, <2>7
    <3>2. proc[c].pc # "ok" /\ v.pc \notin Working \cup {"ok"}
      BY <1>0, <1>1, <2>6 DEF Working, Reads
    <3> QED
      BY <1>1, <3>1, <3>2 DEF Silent
  <2>9. ASSUME NEW s \in Shards PROVE Addressed(s, net[s])'
    <3>1. PICK n : n = net[s]
      OBVIOUS
    <3>2. n \in Seq(ReqType) /\ Len(n) \in Nat /\ Addressed(s, n)
      BY <2>7, <3>1 DEF MarkInv
    <3>3. PICK n2 : n2 = IF s \in to THEN Append(n, q) ELSE n
      OBVIOUS
    <3>4. net'[s] = n2
      BY <2>5, <3>1, <3>3
    <3>5. /\ \A i \in 1..Len(n) : n2[i] = n[i]
          /\ \/ Len(n2) = Len(n)
             \/ s \in to /\ Len(n2) = Len(n) + 1 /\ n2[Len(n) + 1] = q
      BY <3>2, <3>3
    <3>6. s \in to => s \in ShardsOf(w.m)
      BY <2>1
    <3> SUFFICES ASSUME NEW i \in 1..Len(n2), n2[i].op = "exec"
                 PROVE  s \in ShardsOf(n2[i].m)
      BY <3>4 DEF Addressed
    <3>7. CASE i \in 1..Len(n)
      BY <3>2, <3>5, <3>7 DEF Addressed
    <3>8. CASE i \notin 1..Len(n)
      <4>1. s \in to /\ n2[i] = q
        BY <3>2, <3>5, <3>8
      <4> QED
        BY <2>6, <3>6, <4>1
    <3> QED
      BY <3>7, <3>8
  <2>10. MarkInv' /\ OutcomeTotal' = OutcomeTotal /\ OutcomeAnswer' = OutcomeAnswer
    BY <2>8, <2>9, SilentMark
  <2>11. OutcomeRows' = OutcomeRows /\ OutcomeShown' = OutcomeShown
    BY <1>1 DEF OutcomeRows, OutcomeShown
  <2> QED
    BY <2>10, <2>11, NoStep
<1> QED
  BY <1>5, <1>6

(* The outcome's shown pairs, as visibility of the statistics.              *)
ShownIsVisible ==
  /\ OutcomeShown \subseteq Shards \X Mutations
  /\ \A s \in Shards, m \in Mutations : <<s, m>> \in OutcomeShown <=> Visible(s, m)

(* What is shown is what is visible.                                        *)
LEMMA ShownIs == ShownIsVisible
<1>1. ASSUME NEW s \in Shards, NEW m \in Mutations
      PROVE  <<s, m>> \in OutcomeShown <=> Visible(s, m)
  <2>1. PICK x : x = <<s, m>>
    OBVIOUS
  <2>2. x \in Shards \X Mutations /\ x[1] = s /\ x[2] = m
    BY <2>1
  <2>3. x \in OutcomeShown <=> Visible(s, m)
    BY <2>2 DEF OutcomeShown, Visible, Entry
  <2> QED
    BY <2>1, <2>3
<1>2. OutcomeShown \subseteq Shards \X Mutations
  BY DEF OutcomeShown
<1> QED
  BY <1>1, <1>2 DEF ShownIsVisible

(* A page shows what the cursor passes of the entries of its shard.         *)
LEMMA ReadPageOutcome ==
  ASSUME PullInv, PullInv', SagaInv, SagaInv', MarkInv, NEW p \in Procs, ReadPage(p)
  PROVE  MarkInv' /\ OutcomeStep
<1>0. PICK w : w = proc[p]
  OBVIOUS
<1>1. w.pc = "list" /\ w.pc \in Working
  BY <1>0 DEF ReadPage, Answered, Working, Reads
<1>2. /\ w \in ProcType /\ AtWork(w) /\ w.m \in Mutations /\ At(w) \in Shards
      /\ w.ans.first \in Nat /\ w.ans.last \in Nat
  BY <1>0, <1>1, AnsweredFacts
<1>3. /\ rec \in [Mutations -> RecType] /\ proc \in [Procs -> ProcType]
      /\ cursor \in [Shards -> Nat] /\ journal \in [Shards -> [Mutations -> Answers]]
  BY DEF PullInv, RouterType, ShardType
<1>4. ASSUME NEW why \in {"none", "lag", "gap"}, Continue(p, Failed(w, why)),
             UNCHANGED <<routerVars, shardVars, faults>>
      PROVE  MarkInv' /\ OutcomeStep
  <2>1. UNCHANGED rec /\ UNCHANGED <<cursor, journal>>
    BY <1>4 DEF routerVars, shardVars
  <2>2. Goes(p)
    BY <1>2, <1>4, <2>1, GivesUpMoves
  <2>3. PICK m, v, r : Moves(p, m, v, r)
    BY <2>2 DEF Goes
  <2>4. proc[p].pc # "ok"
    BY <1>0, <1>1
  <2> QED
    BY <2>1, <2>3, <2>4, MovesMark, MovesOutcome
<1>5. CASE Lost(p)
  BY <1>0, <1>4, <1>5 DEF Lost
<1>6. CASE /\ cursor' = [cursor EXCEPT ![At(w)] = Max({@, w.ans.last})]
           /\ Continue(p, [w EXCEPT !.pc = "ack", !.ans = Waiting, !.from = w.ans.last])
           /\ UNCHANGED <<rec, shardVars, faults>>
  <2>0. rec' = rec /\ journal' = journal
    BY <1>6 DEF shardVars
  <2>1. PICK v : v = [w EXCEPT !.pc = "ack", !.ans = Waiting, !.from = w.ans.last]
    OBVIOUS
  <2>2. v.pc = "ack" /\ v.m = w.m /\ v.todo = w.todo /\ v.mode = w.mode /\ v.count = w.count
    BY <1>2, <2>1 DEF ProcType
  <2>3. Continue(p, v) /\ proc' = [proc EXCEPT ![p] = v]
    BY <1>6, <2>1 DEF Continue
  <2>4. PICK r : r = rec[w.m]
    OBVIOUS
  <2>5. Marks(v, r)
    <3>1. Marks(w, r)
      BY <1>0, <2>4 DEF MarkInv
    <3> QED
      BY <1>1, <2>2, <3>1 DEF Marks
  <2>6. rec' = [rec EXCEPT ![w.m] = r] /\ Onward(rec[w.m], r)
    BY <1>3, <2>0, <2>4 DEF Onward
  <2>7. Moves(p, w.m, v, r)
    BY <1>2, <2>2, <2>3, <2>5, <2>6 DEF Moves
  <2>8. MarkInv'
    BY <2>7, MovesMark
  <2>9. OutcomeRows' = OutcomeRows /\ OutcomeTotal' = OutcomeTotal
    BY <2>0 DEF OutcomeRows, OutcomeTotal
  <2>10. OutcomeAnswer' = OutcomeAnswer
    <3>1. \A c \in Calls : proc'[c] = IF c = p THEN v ELSE proc[c]
      BY <1>3, <2>3 DEF Procs
    <3>2. \A c \in Calls : (IF proc'[c].pc = "ok" THEN proc'[c].count ELSE Unset)
                           = (IF proc[c].pc = "ok" THEN proc[c].count ELSE Unset)
      BY <1>0, <1>1, <2>2, <3>1
    <3> QED
      BY <3>2 DEF OutcomeAnswer
  <2>11. PICK s : s = At(w)
    OBVIOUS
  <2>12. PICK k : k = Max({cursor[s], w.ans.last})
    OBVIOUS
  <2>13. s \in Shards /\ cursor[s] \in Nat /\ k \in Nat /\ cursor[s] <= k /\ cursor' = [cursor EXCEPT ![s] = k]
    <3>1. s \in Shards /\ cursor[s] \in Nat
      BY <1>2, <1>3, <2>11
    <3>2. k \in Nat /\ cursor[s] <= k
      BY <1>2, <2>12, <3>1, MaxOfTwo
    <3>3. cursor' = [cursor EXCEPT ![s] = k]
      BY <1>6, <2>11, <2>12
    <3> QED
      BY <3>1, <3>2, <3>3
  <2>14. \A t \in Shards, m \in Mutations : journal[t][m].last \in Nat
    BY <1>3 DEF Answers
  <2>15. PICK M : M = {m \in Mutations : Entry(s, m) /\ journal[s][m].last <= k}
    OBVIOUS
  <2>16. ASSUME NEW t \in Shards, NEW m \in Mutations
         PROVE  Visible(t, m)' <=> Visible(t, m) \/ (t = s /\ m \in M)
    <3>1. CASE t = s
      <4>1. cursor'[t] = k
        BY <1>3, <2>13, <3>1
      <4>2. journal[t][m].last \in Nat
        BY <2>14
      <4>3. Visible(t, m)' <=> Entry(t, m) /\ journal[t][m].last <= k
        BY <2>0, <4>1 DEF Visible, Entry
      <4>4. Visible(t, m) => Entry(t, m) /\ journal[t][m].last <= k
        BY <2>13, <3>1, <4>2 DEF Visible
      <4> QED
        BY <2>15, <3>1, <4>3, <4>4
    <3>2. CASE t # s
      <4>1. cursor'[t] = cursor[t]
        BY <1>3, <2>13, <3>2
      <4> QED
        BY <2>0, <3>2, <4>1 DEF Visible, Entry
    <3> QED
      BY <3>1, <3>2
  <2>17. OutcomeShown' = OutcomeShown \cup {<<s, m>> : m \in M}
    <3>1. /\ OutcomeShown \subseteq Shards \X Mutations
          /\ \A t \in Shards, m \in Mutations : <<t, m>> \in OutcomeShown <=> Visible(t, m)
      BY ShownIs DEF ShownIsVisible
    <3>2. ShownIsVisible'
      BY ShownIs, PTL
    <3>3. PICK X : X = OutcomeShown'
      OBVIOUS
    <3>4. /\ X \subseteq Shards \X Mutations
          /\ \A t \in Shards, m \in Mutations :
               <<t, m>> \in X <=> <<t, m>> \in OutcomeShown \/ (t = s /\ m \in M)
      BY <2>16, <3>1, <3>2, <3>3 DEF ShownIsVisible
    <3>5. M \subseteq Mutations
      BY <2>15
    <3>6. ASSUME NEW x PROVE x \in X <=> x \in OutcomeShown \cup {<<s, m>> : m \in M}
      <4>1. CASE x \in Shards \X Mutations
        <5>1. PICK t \in Shards, m \in Mutations : x = <<t, m>>
          BY <4>1
        <5>2. x \in {<<s, y>> : y \in M} <=> t = s /\ m \in M
          BY <5>1
        <5> QED
          BY <3>4, <5>1, <5>2
      <4>2. CASE x \notin Shards \X Mutations
        <5>1. x \notin X /\ x \notin OutcomeShown
          BY <3>1, <3>4, <4>2
        <5>2. x \notin {<<s, y>> : y \in M}
          BY <2>13, <3>5, <4>2
        <5> QED
          BY <5>1, <5>2
      <4> QED
        BY <4>1, <4>2
    <3> QED
      BY <3>3, <3>6
  <2>18. \A m \in M : OutcomeRows[s][m] # Unset
    <3> TAKE m \in M
    <3>1. m \in Mutations /\ Entry(s, m) /\ journal[s][m] \in Answers
      BY <1>3, <2>13, <2>15
    <3>2. journal[s][m].first \in Nat
      BY <3>1 DEF Answers
    <3>3. OutcomeRows[s][m] = journal[s][m].first
      BY <2>13, <3>1 DEF OutcomeRows, Entry
    <3> QED
      BY <3>2, <3>3 DEF Unset
  <2>19. M \in SUBSET Mutations
    BY <2>15
  <2>20. OutcomeStep
    BY <2>9, <2>10, <2>13, <2>17, <2>18, <2>19, ShowStep
  <2> QED
    BY <2>8, <2>20
<1> QED
  BY <1>0, <1>4, <1>5, <1>6 DEF ReadPage

(* A shard writes once, and what it writes is not visible yet.              *)
LEMMA ExecuteOutcome ==
  ASSUME Suspends = {}, PullInv, PullInv', SagaInv, MarkInv, NEW s \in Shards, Execute(s)
  PROVE  MarkInv' /\ OutcomeStep
<1>0. net \in [Shards -> Seq(ReqType)] /\ net[s] # <<>>
  BY DEF Execute, PullInv, RouterType
<1>1. PICK n : n = net[s]
  OBVIOUS
<1>2. PICK n2 : n2 = Tail(n)
  OBVIOUS
<1>3. PICK f : f = [i \in 1..Len(n2) |-> i + 1]
  OBVIOUS
<1>4. /\ n2 \in Seq(ReqType) /\ Thins(n, n2, f, 1) /\ 1 \in 1..Len(n) /\ Head(n) = n[1]
  BY <1>0, <1>1, <1>2, <1>3, TailThins
<1>5. PICK q : q = n[1]
  OBVIOUS
<1>6. q \in ReqType /\ q.m \in Mutations /\ q.p \in Procs
  BY <1>1, <1>4, <1>5, QueuedFacts
<1>7. q.op = "exec" /\ net' = [net EXCEPT ![s] = n2] /\ UNCHANGED <<rec, cursor, pruned>>
  BY <1>1, <1>2, <1>4, <1>5 DEF Execute, routerVars
<1>8. s \in ShardsOf(q.m)
  BY <1>1, <1>4, <1>5, <1>7 DEF MarkInv, Addressed
<1>9. ASSUME NEW a \in Answers, Deliver(q, s, a)
      PROVE  MarkInv' /\ OutcomeTotal' = OutcomeTotal /\ OutcomeAnswer' = OutcomeAnswer
  BY <1>1, <1>4, <1>5, <1>7, <1>9, AnswerMark
<1>10. CASE /\ Deliver(q, s, Answer("ok", journal[s][q.m].first, 0))
            /\ UNCHANGED <<journal, log, runs, applied>>
  <2>1. PICK a : a = Answer("ok", journal[s][q.m].first, 0)
    OBVIOUS
  <2>2. journal[s][q.m] \in Answers
    BY <1>6 DEF PullInv, ShardType
  <2>3. a \in Answers
    BY <2>1, <2>2 DEF Answer, Answers
  <2>4. MarkInv' /\ OutcomeTotal' = OutcomeTotal /\ OutcomeAnswer' = OutcomeAnswer
    BY <1>9, <1>10, <2>1, <2>3
  <2>5. OutcomeRows' = OutcomeRows /\ OutcomeShown' = OutcomeShown
    BY <1>7, <1>10 DEF OutcomeRows, OutcomeShown
  <2> QED
    BY <2>4, <2>5, NoStep
<1>11. CASE ~Replays(s, q.m) /\ Applies(s, q.m, 1, Plans) /\ Complete(s, q)
  <2>0. LogExtends
    <3>1. Plans \in Nat /\ 1 \in Nat /\ 1 <= Plans + 1
      BY SagaConstants
    <3> QED
      BY <1>6, <1>11, <3>1, AppliesFacts
  <2>1. PICK m : m = q.m
    OBVIOUS
  <2>2. PICK c \in Counts :
          /\ journal' = [journal EXCEPT ![s] =
                           [journal[s] EXCEPT ![q.m] = Answer("entry", c, Len(log'[s]))]]
          /\ Deliver(q, s, Answer("ok", c, 0))
    BY <1>6, <1>7, <1>11, <2>0, CompleteFacts
  <2>3. PICK e : e = Answer("entry", c, Len(log'[s]))
    OBVIOUS
  <2>4. PICK a : a = Answer("ok", c, 0)
    OBVIOUS
  <2>5. e.kind = "entry" /\ e.first = c /\ e.last = Len(log'[s]) /\ a \in Answers
    BY <2>3, <2>4, SagaConstants DEF Answer, Answers
  <2>6. /\ journal \in [Shards -> [Mutations -> Answers]] /\ cursor \in [Shards -> Nat]
        /\ log \in [Shards -> Seq(Mutations)] /\ cursor[s] <= Len(log[s])
    BY DEF PullInv, ShardType, RouterType, CursorsInLog
  <2>7. journal' = [journal EXCEPT ![s] = [journal[s] EXCEPT ![m] = e]] /\ m \in Mutations
    BY <1>6, <2>1, <2>2, <2>3
  <2>8. \A t \in Shards, x \in Mutations : journal'[t][x] = IF t = s /\ x = m THEN e ELSE journal[t][x]
    BY <2>6, <2>7
  <2>9. ~Entry(s, m)
    BY <1>11, <2>1 DEF Replays, Entry
  <2>10. cursor[s] < Len(log'[s])
    <3>1. PICK add : add = [k \in 1..(Plans - 1 + 1) |-> m]
      OBVIOUS
    <3>2. Plans \in Nat /\ Plans - 1 + 1 = Plans /\ Plans >= 1
      BY SagaConstants
    <3>3. add \in Seq(Mutations) /\ Len(add) = Plans
      <4>1. add \in [1..Plans -> Mutations]
        BY <2>7, <3>1, <3>2
      <4> QED
        BY <3>2, <4>1
    <3>4. log' = [log EXCEPT ![s] = log[s] \o add]
      BY <1>11, <2>1, <3>1 DEF Applies
    <3>5. log'[s] = log[s] \o add
      BY <2>6, <3>4
    <3>6. Len(log'[s]) = Len(log[s]) + Plans /\ Len(log[s]) \in Nat
      <4>1. log[s] \in Seq(Mutations) /\ Len(log[s]) \in Nat
        BY <2>6
      <4>2. PICK l : l = log[s] \o add
        OBVIOUS
      <4>3. Len(l) = Len(log[s]) + Len(add)
        BY <3>3, <4>1, <4>2, ConcatProperties
      <4> QED
        BY <3>3, <3>5, <4>1, <4>2, <4>3
    <3> QED
      BY <2>6, <3>2, <3>6
  <2>11. MarkInv' /\ OutcomeTotal' = OutcomeTotal /\ OutcomeAnswer' = OutcomeAnswer
    BY <1>9, <2>2, <2>4, <2>5
  <2>12. OutcomeRows' = [OutcomeRows EXCEPT ![s][m] = c] /\ OutcomeRows[s][m] = Unset
    <3>1. PICK R : R = OutcomeRows
      OBVIOUS
    <3>2. \A t \in Shards : DOMAIN R[t] = Mutations
      BY <3>1 DEF OutcomeRows
    <3>3. \A t \in Shards : OutcomeRows'[t] = [x \in Mutations |-> IF t = s /\ x = m THEN c ELSE R[t][x]]
      <4> TAKE t \in Shards
      <4>1. \A x \in Mutations :
              (IF journal'[t][x].kind = "entry" THEN journal'[t][x].first ELSE Unset)
              = IF t = s /\ x = m THEN c ELSE R[t][x]
        BY <2>5, <2>8, <3>1 DEF OutcomeRows
      <4> QED
        BY <4>1 DEF OutcomeRows
    <3>4. DOMAIN R = Shards /\ DOMAIN OutcomeRows' = Shards
      BY <3>1 DEF OutcomeRows
    <3>5. OutcomeRows' = [t \in Shards |-> [x \in Mutations |-> IF t = s /\ x = m THEN c ELSE R[t][x]]]
      BY <3>3, <3>4 DEF OutcomeRows
    <3>6. R = [t \in Shards |-> [x \in Mutations |-> R[t][x]]]
      BY <3>1 DEF OutcomeRows
    <3>7. [R EXCEPT ![s][m] = c] = [t \in Shards |-> [x \in Mutations |-> IF t = s /\ x = m THEN c ELSE R[t][x]]]
      BY <2>7, <3>6
    <3>8. R[s][m] = Unset
      BY <2>7, <2>9, <3>1 DEF OutcomeRows, Entry
    <3> QED
      BY <3>1, <3>5, <3>7, <3>8
  <2>13. OutcomeShown' = OutcomeShown
    <3>1. ASSUME NEW x \in Shards \X Mutations
          PROVE  (/\ journal'[x[1]][x[2]].kind = "entry" /\ journal'[x[1]][x[2]].last <= cursor'[x[1]])
                 <=> (/\ journal[x[1]][x[2]].kind = "entry" /\ journal[x[1]][x[2]].last <= cursor[x[1]])
      <4>1. x[1] \in Shards /\ x[2] \in Mutations /\ cursor' = cursor
        BY <1>7
      <4>2. CASE x[1] = s /\ x[2] = m
        <5>1. journal'[x[1]][x[2]] = e
          BY <2>8, <4>1, <4>2
        <5>2. ~ (e.last <= cursor[s])
          <6>1. Len(log'[s]) \in Nat /\ cursor[s] \in Nat
            BY <2>0, <2>6 DEF LogExtends
          <6> QED
            BY <2>5, <2>10, <6>1
        <5> QED
          BY <2>9, <4>1, <4>2, <5>1, <5>2 DEF Entry
      <4>3. CASE ~ (x[1] = s /\ x[2] = m)
        BY <2>8, <4>1, <4>3
      <4> QED
        BY <4>2, <4>3
    <3> QED
      BY <3>1 DEF OutcomeShown
  <2> QED
    BY <1>8, <2>1, <2>7, <2>11, <2>12, <2>13, WriteStep
<1> QED
  BY <1>1, <1>4, <1>5, <1>10, <1>11 DEF Execute

(* A step of the Router that pulls nothing.                                 *)
LEMMA GoesOutcome ==
  ASSUME PullInv, PullInv', SagaInv, SagaInv', MarkInv, NEW p \in Procs, Goes(p),
         proc[p].pc # "ok", UNCHANGED <<cursor, journal>>
  PROVE  MarkInv' /\ OutcomeStep
<1>1. PICK m, v, r : Moves(p, m, v, r)
  BY DEF Goes
<1> QED
  BY <1>1, MovesMark, MovesOutcome

(* MarkInv holds at the start.                                              *)
LEMMA MarkInit ==
  ASSUME Init
  PROVE  MarkInv
<1>1. ASSUME NEW p \in Procs PROVE proc[p].pc \in {"new", "idle"}
  <2>1. proc[p] = Blank("new") \/ proc[p] = Blank("idle")
    BY DEF Init
  <2> QED
    BY <2>1, BlankFields
<1>2. \A p \in Procs : Marks(proc[p], rec[proc[p].m])
  BY <1>1 DEF Marks, Working, Reads
<1>3. \A c \in Calls : proc[c].pc # "ok"
  BY <1>1 DEF Procs
<1>4. \A s \in Shards : Addressed(s, net[s])
  BY DEF Init, Addressed
<1> QED
  BY <1>2, <1>3, <1>4 DEF MarkInv

(* Every step keeps MarkInv and is a step of the outcome, or none.          *)
LEMMA OutcomeNext ==
  ASSUME Suspends = {}, PullInv, PullInv', SagaInv, SagaInv', MarkInv, [Next]_vars
  PROVE  MarkInv' /\ OutcomeStep
<1>1. ASSUME NEW c \in Calls, Prepare(c) PROVE MarkInv' /\ OutcomeStep
  <2>1. c \in Procs /\ proc[c].pc # "ok" /\ UNCHANGED <<cursor, journal>>
    BY <1>1, CallFacts DEF Prepare, shardVars
  <2> QED
    BY <1>1, <2>1, PrepareMoves, GoesOutcome
<1>2. ASSUME NEW c \in Calls, Dispatch(c) PROVE MarkInv' /\ OutcomeStep
  BY <1>2, DispatchOutcome
<1>3. ASSUME NEW c \in Calls, Dispatched(c) PROVE MarkInv' /\ OutcomeStep
  <2>1. c \in Procs /\ proc[c].pc # "ok" /\ UNCHANGED <<cursor, journal>>
    BY <1>3, CallFacts DEF Dispatched, routerVars, shardVars
  <2> QED
    BY <1>3, <2>1, DispatchedMoves, GoesOutcome
<1>4. ASSUME NEW m \in Mutations, RecoverStart(m) PROVE MarkInv' /\ OutcomeStep
  <2>1. Recovery \in Procs /\ proc[Recovery].pc # "ok" /\ UNCHANGED <<cursor, journal>>
    BY <1>4 DEF RecoverStart, routerVars, shardVars, Procs
  <2> QED
    BY <1>4, <2>1, RecoverStartMoves, GoesOutcome
<1>5. ASSUME NEW s \in Shards, Serve(s) \/ Execute(s) PROVE MarkInv' /\ OutcomeStep
  BY <1>5, ServeOutcome, ExecuteOutcome
<1>6. ASSUME NEW p \in Procs, ReadEntry(p) PROVE MarkInv' /\ OutcomeStep
  <2>1. proc[p].pc # "ok" /\ UNCHANGED <<cursor, journal>>
    BY <1>6 DEF ReadEntry, Answered, Lost, routerVars, shardVars
  <2> QED
    BY <1>6, <2>1, ReadEntryMoves, GoesOutcome
<1>7. ASSUME NEW p \in Procs, ReadPage(p) PROVE MarkInv' /\ OutcomeStep
  BY <1>7, ReadPageOutcome
<1>8. ASSUME NEW p \in Procs, ReadAck(p) PROVE MarkInv' /\ OutcomeStep
  <2>1. proc[p].pc # "ok" /\ UNCHANGED <<cursor, journal>>
    BY <1>8 DEF ReadAck, Answered, Lost, routerVars, shardVars
  <2> QED
    BY <1>8, <2>1, ReadAckMoves, GoesOutcome
<1>9. ASSUME NEW p \in Procs, Finalized(p) PROVE MarkInv' /\ OutcomeStep
  <2>1. proc[p].pc # "ok" /\ UNCHANGED <<cursor, journal>>
    BY <1>9 DEF Finalized, shardVars
  <2> QED
    BY <1>9, <2>1, FinalizedMoves, GoesOutcome
<1>10. ASSUME NEW p \in Procs, FinalizeFailed(p) PROVE MarkInv' /\ OutcomeStep
  <2>1. proc[p].pc # "ok" /\ UNCHANGED <<cursor, journal>>
    BY <1>10 DEF FinalizeFailed, routerVars, shardVars
  <2> QED
    BY <1>10, <2>1, FinalizeFailedMoves, GoesOutcome
<1>11. ASSUME NEW s \in Shards, NEW q \in runs[s] PROVE FALSE
  BY <1>11 DEF SagaInv
<1>12. ASSUME NEW s \in Shards, NEW i \in 1..Len(net[s]), Reject(s, i) \/ Timeout(s, i)
       PROVE  MarkInv' /\ OutcomeStep
  BY <1>12, RequestFailsOutcome
<1>13. CASE UNCHANGED vars
  <2>1. rec' = rec /\ cursor' = cursor /\ proc' = proc /\ net' = net /\ journal' = journal
    BY <1>13 DEF vars
  <2>2. Silent /\ \A s \in Shards : Addressed(s, net[s])'
    BY <2>1 DEF Silent, MarkInv, Addressed
  <2>3. MarkInv' /\ OutcomeTotal' = OutcomeTotal /\ OutcomeAnswer' = OutcomeAnswer
    BY <2>2, SilentMark
  <2>4. OutcomeRows' = OutcomeRows /\ OutcomeShown' = OutcomeShown
    BY <2>1 DEF OutcomeRows, OutcomeShown
  <2> QED
    BY <2>3, <2>4, NoStep
<1> QED
  BY <1>1, <1>2, <1>3, <1>4, <1>5, <1>6, <1>7, <1>8, <1>9, <1>10, <1>11, <1>12, <1>13
     DEF Next, RouterStep

(* The saga implements SagaOutcome: every step of a call, of recovery, of a *)
(* shard or of a failure writes one shard's rows for good, shows written    *)
(* rows, completes a record with the sum of rows that are all shown,        *)
(* answers one call with that sum while its record is complete, or is not   *)
(* seen by a client at all.                                                 *)
THEOREM SagaImplementsOutcome ==
  ASSUME Suspends = {}
  PROVE  Spec => OutcomeSpec
<1>1. Init => Outcome!Init /\ MarkInv
  BY OutcomeInit, MarkInit
<1>2. PullInv /\ PullInv' /\ SagaInv /\ SagaInv' /\ MarkInv /\ [Next]_vars
        => MarkInv' /\ [Outcome!Next]_(Outcome!ovars)
  BY OutcomeNext DEF OutcomeStep
<1>3. Spec => []PullInv /\ []SagaInv
  BY PullSafety, SagaSafety
<1> QED
  BY <1>1, <1>2, <1>3, PTL DEF Spec, OutcomeSpec, Outcome!Spec
===============================================================================
