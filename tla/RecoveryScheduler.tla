-------------------------- MODULE RecoveryScheduler --------------------------
(***************************************************************************)
(* The Router's recovery timer (ADR 0029 Phase 4): a self-rescheduling     *)
(* one-shot timer whose passes run a sequence of lanes, each scanning a    *)
(* bounded page of its own table after a round-robin cursor.               *)
(*                                                                         *)
(* A row of a lane's table is outstanding (in work) while the lane's scan  *)
(* would select it.  A client call makes a row outstanding, awaits, and    *)
(* calls arm_if_needed when it ends.  The two reschedule delays and the    *)
(* quarantine deadline differ only in time, so they are one outcome.       *)
(***************************************************************************)
EXTENDS Integers, FiniteSets

CONSTANTS
  Lanes,        \* number of lanes of a pass, run in the order 1..Lanes
  Keys,         \* largest key of a table; cursor 0 stands for None
  Budget,       \* rows examined per lane and pass
  Eager,        \* lanes that keep the timer for any row selected; the
                \* others only for rows an attempt leaves outstanding
  MaxCalls,     \* bound on client calls under way at a time
  MaxFaults     \* bound on traps of a pass and canister upgrades

ASSUME SchedulerAssumption ==
  /\ Lanes \in Nat \ {0} /\ Keys \in Nat /\ Budget \in Nat \ {0}
  /\ Eager \subseteq 1..Lanes /\ MaxCalls \in Nat /\ MaxFaults \in Nat

VARIABLES
  rows,      \* stable: keys present in each lane's table
  work,      \* stable: the outstanding ones
  unarmed,   \* client calls under way: rows whose call has yet to arm
  overtaken, \* history: outstanding rows that arrived behind a lap
  sched,     \* heap: RecoverySchedulerState
  timers,    \* IC timers scheduled
  cursor,    \* heap: resume key of each lane, 0 at the start of a lap
  found,     \* heap: the lap under way has found work
  pass,      \* heap: the lane a pass is in, its rows in hand and next cursor
  traps, upgrades

vars == <<rows, work, unarmed, overtaken, sched, timers, cursor, found, pass,
          traps, upgrades>>
tables == <<rows, work, unarmed>>
bounds == <<traps, upgrades>>

Lane == 1..Lanes
Key == 1..Keys

States == [timer_armed : BOOLEAN, running : BOOLEAN, arm_requested : BOOLEAN]
Stopped == [timer_armed |-> FALSE, running |-> FALSE, arm_requested |-> FALSE]
NoPass == [lane |-> 0, todo |-> {}, next |-> 0]

TypeOK ==
  /\ rows \in [Lane -> SUBSET Key]
  /\ work \in [Lane -> SUBSET Key]
  /\ unarmed \subseteq Lane \X Key
  /\ overtaken \subseteq Lane \X Key
  /\ sched \in States
  /\ timers \in Nat
  /\ cursor \in [Lane -> 0..Keys]
  /\ found \in [Lane -> BOOLEAN]
  /\ pass \in [lane : 0..Lanes, todo : SUBSET Key, next : 0..Keys]
  /\ traps \in Nat /\ upgrades \in Nat /\ traps + upgrades <= MaxFaults

(* init arms the timer.                                                     *)
Init ==
  /\ rows = [l \in Lane |-> {}]
  /\ work = [l \in Lane |-> {}]
  /\ unarmed = {}
  /\ overtaken = {}
  /\ sched = [Stopped EXCEPT !.timer_armed = TRUE]
  /\ timers = 1
  /\ cursor = [l \in Lane |-> 0]
  /\ found = [l \in Lane |-> FALSE]
  /\ pass = NoPass
  /\ traps = 0 /\ upgrades = 0

------------------------------------------------------------------------------
(* Client calls.                                                            *)

(* request_arm: latched while a pass runs, otherwise a timer is armed once. *)
RequestArm(s) ==
  IF s.running THEN [s EXCEPT !.arm_requested = TRUE]
  ELSE [s EXCEPT !.timer_armed = TRUE]
(* Mutant: every request schedules a timer.                                 *)
Schedules_Always(s) == ~s.running
Schedules(s) == ~s.running /\ ~s.timer_armed

(* How far the lap of lane l has come: the page in hand counts.             *)
Position(l) == IF pass.lane = l THEN pass.next ELSE cursor[l]

(* A call leaves a row that recovery will have to look after.  Its key, a   *)
(* name of the client's or a value, may lie anywhere in the table.          *)
Arrive(l, k) ==
  /\ k \notin work[l]
  /\ <<l, k>> \notin unarmed
  /\ Cardinality(unarmed) < MaxCalls
  /\ rows' = [rows EXCEPT ![l] = @ \cup {k}]
  /\ work' = [work EXCEPT ![l] = @ \cup {k}]
  /\ overtaken' = IF k <= Position(l) THEN overtaken \cup {<<l, k>>} ELSE overtaken
  /\ unarmed' = unarmed \cup {<<l, k>>}
  /\ UNCHANGED <<sched, timers, cursor, found, pass, bounds>>

(* The call ends: arm_if_needed.                                            *)
Arm(l, k) ==
  /\ <<l, k>> \in unarmed
  /\ unarmed' = unarmed \ {<<l, k>>}
  /\ sched' = RequestArm(sched)
  /\ timers' = IF Schedules(sched) THEN timers + 1 ELSE timers
  /\ UNCHANGED <<rows, work, overtaken, cursor, found, pass, bounds>>

(* A retry of the client brings the row to its end.                         *)
Settle(l, k) ==
  /\ k \in work[l]
  /\ work' = [work EXCEPT ![l] = @ \ {k}]
  /\ overtaken' = overtaken \ {<<l, k>>}
  /\ UNCHANGED <<rows, unarmed, sched, timers, cursor, found, pass, bounds>>

(* A row that is not outstanding is removed or garbage collected.           *)
RowGone(l, k) ==
  /\ k \in rows[l] \ work[l]
  /\ rows' = [rows EXCEPT ![l] = @ \ {k}]
  /\ UNCHANGED <<work, unarmed, overtaken, sched, timers, cursor, found, pass, bounds>>

------------------------------------------------------------------------------
(* A pass.  Other messages interleave wherever a lane may await, and a lane  *)
(* may await calls of its own with no row in hand.                          *)

(* begin_pass consumes the armed timer.                                     *)
BeginPass(s) == [s EXCEPT !.timer_armed = FALSE, !.running = TRUE]

(* The page after the cursor: the Budget smallest keys above it.            *)
Page(l) ==
  LET after == {k \in rows[l] : k > cursor[l]} IN
  {k \in after : Cardinality({j \in after : j <= k}) <= Budget}

Last(S) == CHOOSE k \in S : \A j \in S : j <= k

(* Mutant: the lap's findings are forgotten on every page.                  *)
LapFound_PerPage(l) == FALSE
(* A fresh lap forgets what the previous one found.                         *)
LapFound(l) == IF cursor[l] = 0 THEN FALSE ELSE found[l]

(* Mutant: the cursor is set past the last row.                             *)
NextCursor_Past(page) == IF Cardinality(page) < Budget THEN 0 ELSE Last(page) + 1
(* A page shorter than the budget ends the lap.                             *)
NextCursor(page) == IF Cardinality(page) < Budget THEN 0 ELSE Last(page)

(* Scan of lane l: the start of the lane's part of a pass.                  *)
StartLane(l) ==
  LET todo == Page(l) \cap work[l] IN
  /\ pass' = [lane |-> l, todo |-> todo, next |-> NextCursor(Page(l))]
  /\ found' = [found EXCEPT ![l] = LapFound(l) \/ (l \in Eager /\ todo # {})]
  /\ overtaken' = IF cursor[l] = 0 THEN {r \in overtaken : r[1] # l} ELSE overtaken

(* on_tick: the timer fires.  begin_pass asserts that no pass is running.   *)
Tick ==
  /\ timers > 0
  /\ timers' = timers - 1
  /\ ~sched.running
  /\ sched' = BeginPass(sched)
  /\ StartLane(1)
  /\ UNCHANGED <<tables, cursor, bounds>>

(* The attempt at a selected row ends: it is settled or stays outstanding.  *)
Attempt(k) ==
  LET l == pass.lane IN
  /\ k \in pass.todo
  /\ pass' = [pass EXCEPT !.todo = @ \ {k}]
  /\ \/ /\ work' = [work EXCEPT ![l] = @ \ {k}]
        /\ overtaken' = overtaken \ {<<l, k>>}
        /\ UNCHANGED found
     \/ /\ k \in work[l]
        /\ found' = [found EXCEPT ![l] = TRUE]
        /\ UNCHANGED <<work, overtaken>>
  /\ UNCHANGED <<rows, unarmed, sched, timers, cursor, bounds>>

LaneDone == pass.lane \in Lane /\ pass.todo = {}

NextLane ==
  /\ LaneDone /\ pass.lane < Lanes
  /\ cursor' = [cursor EXCEPT ![pass.lane] = pass.next]
  /\ StartLane(pass.lane + 1)
  /\ UNCHANGED <<tables, sched, timers, bounds>>

(* Mutant: only the laps' findings count, not that a lap is under way.      *)
KeepGoing_FoundOnly(cur) == \E l \in Lane : found[l]
(* Another pass is due while a lap is under way or the last one found work. *)
KeepGoing(cur) == \E l \in Lane : cur[l] # 0 \/ found[l]

(* finish_pass: a latched request takes priority over an idle pass.  Bulk   *)
(* receipts left to collect (bulk) keep the timer alive too.                *)
FinishPass(bulk) ==
  LET cur == [cursor EXCEPT ![pass.lane] = pass.next]
      next == bulk \/ KeepGoing(cur) \/ sched.arm_requested
  IN
  /\ LaneDone /\ pass.lane = Lanes
  /\ cursor' = cur
  /\ sched' = [Stopped EXCEPT !.timer_armed = next]
  /\ timers' = IF next THEN timers + 1 ELSE timers
  /\ pass' = NoPass
  /\ UNCHANGED <<tables, overtaken, found, bounds>>

(* A callback of the pass traps: what the pass did so far is durable, and   *)
(* nothing clears running.                                                  *)
Trap ==
  /\ pass # NoPass
  /\ traps + upgrades < MaxFaults
  /\ traps' = traps + 1
  /\ pass' = NoPass
  /\ UNCHANGED <<tables, overtaken, sched, timers, cursor, found, upgrades>>

(* post_upgrade: the heap and the timers are gone, the timer is armed anew. *)
Upgrade ==
  /\ traps + upgrades < MaxFaults
  /\ upgrades' = upgrades + 1
  /\ unarmed' = {} /\ overtaken' = {}
  /\ sched' = RequestArm(Stopped)
  /\ timers' = 1
  /\ cursor' = [l \in Lane |-> 0]
  /\ found' = [l \in Lane |-> FALSE]
  /\ pass' = NoPass
  /\ UNCHANGED <<rows, work, traps>>

PassStep ==
  \/ \E k \in pass.todo : Attempt(k)
  \/ NextLane
  \/ \E bulk \in BOOLEAN : FinishPass(bulk)

Next ==
  \/ \E l \in Lane, k \in Key : Arrive(l, k) \/ Arm(l, k) \/ Settle(l, k) \/ RowGone(l, k)
  \/ Tick \/ PassStep \/ Trap \/ Upgrade

Spec == Init /\ [][Next]_vars

------------------------------------------------------------------------------
(* A timer is scheduled exactly when the state says so, and never while a   *)
(* pass runs: no two passes interleave and the assertions of begin_pass and *)
(* finish_pass never fire, whatever arms, traps or upgrades come between.   *)
PassesAlone ==
  /\ timers = IF sched.timer_armed THEN 1 ELSE 0
  /\ sched.running => ~sched.timer_armed
  /\ pass # NoPass => sched.running

(* An outstanding row whose call has armed the timer has a timer or a       *)
(* running pass ahead of it, with one exception: a row that arrived behind  *)
(* the position of its lane's lap, which that lap will not see              *)
(* (recovery_schedule_delay, run_recovery_pass).                            *)
NoLostWake ==
  \A l \in Lane : \A k \in work[l] :
    <<l, k>> \in unarmed \cup overtaken \/ sched.timer_armed \/ sched.running

(* "work arriving after the scan cannot lose its wake-up", as the comment   *)
(* of recovery_schedule_delay has it: for every row.                        *)
WakePromised ==
  \A l \in Lane : \A k \in work[l] :
    <<l, k>> \in unarmed \/ sched.timer_armed \/ sched.running

------------------------------------------------------------------------------
(* Timers fire, and the calls of a pass are answered (bounded-wait).        *)
FairSpec == Spec /\ WF_vars(Tick) /\ WF_vars(PassStep)

(* "converges non-terminal federated mutations without a client in the      *)
(* loop": while no pass traps, an outstanding row whose call has armed the  *)
(* timer is eventually taken up by a pass or settled, unless it arrived     *)
(* behind its lane's lap and the timer stops before another lap begins.     *)
TakenUp(l, k) == pass.lane = l /\ k \in pass.todo
LeftBehind(l, k) == <<l, k>> \in overtaken /\ ~sched.timer_armed /\ ~sched.running
EveryRowVisited ==
  \A l \in Lane, k \in Key :
    (k \in work[l] /\ <<l, k>> \notin unarmed /\ traps = 0)
      ~> \/ k \notin work[l] \/ <<l, k>> \in unarmed \/ TakenUp(l, k)
         \/ LeftBehind(l, k) \/ traps > 0
==============================================================================
