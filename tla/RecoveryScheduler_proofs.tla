----------------------- MODULE RecoveryScheduler_proofs ----------------------
(***************************************************************************)
(* Theorems about the recovery timer, for every number of lanes, keys,     *)
(* traps and upgrades: its types, that passes never overlap, and that no   *)
(* wake-up is lost but that of a row which arrived behind its lane's lap.  *)
(***************************************************************************)
EXTENDS RecoveryScheduler, FiniteSetTheorems, WellFoundedInduction, TLAPS

(* What passes need of the types.                                           *)
SchedType == sched \in States /\ timers \in Nat

(* A call's row is in its table.                                            *)
WorkInTable == \A l \in Lane : work[l] \subseteq rows[l]

(* A pass that runs is in a lane, unless a trap ended it.                   *)
NotTrapped == sched.running => pass.lane \in Lane

(* What a lap has passed is settled, or the lap remembers that it is not,   *)
(* or it came after the lap had passed.                                     *)
Visited ==
  NotTrapped =>
    \A l \in Lane \ {pass.lane} : \A k \in work[l] :
      k <= cursor[l] => found[l] \/ <<l, k>> \in overtaken

(* A row the wake-up of which does not depend on the laps.                  *)
Excused(l, k) == <<l, k>> \in unarmed \cup overtaken \/ sched.arm_requested

(* The lane a pass is in: what it passes is in hand or remembered or came   *)
(* too late, and a lap it ends overlooks only rows that came after its scan.*)
InHand ==
  pass.lane \in Lane =>
    \A k \in work[pass.lane] :
      \/ k \in pass.todo
      \/ found[pass.lane]
      \/ <<pass.lane, k>> \in overtaken
      \/ pass.next # 0 /\ k > pass.next
      \/ pass.next = 0 /\ Excused(pass.lane, k)

(* The lanes a pass is done with: a lap that has ended remembers its work.  *)
LanesDone ==
  pass.lane \in Lane =>
    \A l \in Lane : (l < pass.lane /\ cursor[l] = 0) =>
      \A k \in work[l] : found[l] \/ Excused(l, k)

WakeInv == WorkInTable /\ Visited /\ InHand /\ LanesDone

------------------------------------------------------------------------------
(* A lane under way is not "no pass".                                       *)
LEMMA LaneIsPass ==
  ASSUME pass.lane \in Lane
  PROVE  pass # NoPass
BY SchedulerAssumption DEF NoPass, Lane

(* A scan leaves a pass in its lane (StartLane).                            *)
LEMMA StartIsPass ==
  ASSUME NEW l \in Lane, StartLane(l)
  PROVE  pass'.lane = l /\ pass' # NoPass
BY SchedulerAssumption DEF StartLane, NoPass, Lane

(* The timer and the state agree after every step.                          *)
LEMMA AloneNext ==
  ASSUME SchedType, PassesAlone, [Next]_vars
  PROVE  SchedType' /\ PassesAlone'
<1> USE DEF SchedType, PassesAlone, States
<1>1. ASSUME NEW l \in Lane, NEW k \in Key, Arm(l, k)
      PROVE  SchedType' /\ PassesAlone'
  <2>1. /\ sched' = RequestArm(sched) /\ pass' = pass
        /\ timers' = IF Schedules(sched) THEN timers + 1 ELSE timers
    BY <1>1 DEF Arm
  <2>2. CASE sched.running
    <3>1. sched' = [sched EXCEPT !.arm_requested = TRUE] /\ timers' = timers
      BY <2>1, <2>2 DEF RequestArm, Schedules
    <3> QED
      BY <2>1, <2>2, <3>1
  <2>3. CASE ~sched.running
    <3>1. sched' = [sched EXCEPT !.timer_armed = TRUE]
      BY <2>1, <2>3 DEF RequestArm
    <3>2. timers' = 1
      BY <2>1, <2>3 DEF Schedules
    <3>3. sched' \in States /\ sched'.timer_armed /\ ~sched'.running
      BY <2>3, <3>1
    <3> QED
      BY <2>1, <2>3, <3>2, <3>3
  <2> QED
    BY <2>2, <2>3
<1>2. CASE Tick
  <2>2. sched' = BeginPass(sched) /\ timers > 0 /\ timers' = timers - 1
    BY <1>2 DEF Tick
  <2>3. sched' \in States /\ ~sched'.timer_armed /\ sched'.running
    BY <2>2 DEF BeginPass
  <2>4. timers' = 0
    BY <2>2
  <2> QED
    BY <2>3, <2>4
<1>3. ASSUME NEW k \in pass.todo, Attempt(k)
      PROVE  SchedType' /\ PassesAlone'
  <2>1. sched' = sched /\ timers' = timers
    BY <1>3 DEF Attempt
  <2>2. pass # NoPass
    BY DEF NoPass
  <2> QED
    BY <2>1, <2>2
<1>4. CASE NextLane
  <2>1. pass # NoPass
    BY <1>4, LaneIsPass DEF NextLane, LaneDone
  <2>2. sched' = sched /\ timers' = timers
    BY <1>4 DEF NextLane
  <2> QED
    BY <2>1, <2>2
<1>5. ASSUME NEW bulk \in BOOLEAN, FinishPass(bulk)
      PROVE  SchedType' /\ PassesAlone'
  <2>1. sched.running /\ timers = 0
    BY <1>5, LaneIsPass DEF FinishPass, LaneDone
  <2>2. PICK next \in BOOLEAN :
          /\ sched' = [Stopped EXCEPT !.timer_armed = next]
          /\ timers' = IF next THEN timers + 1 ELSE timers
          /\ pass' = NoPass
    BY <1>5 DEF FinishPass, KeepGoing
  <2>3. sched' \in States /\ sched'.timer_armed = next /\ ~sched'.running
    BY <2>2 DEF Stopped
  <2> QED
    BY <2>1, <2>2, <2>3
<1>6. CASE Trap
  BY <1>6 DEF Trap
<1>7. CASE Upgrade
  <2>1. sched' = [Stopped EXCEPT !.timer_armed = TRUE] /\ timers' = 1 /\ pass' = NoPass
    BY <1>7 DEF Upgrade, RequestArm, Stopped
  <2>2. sched' \in States /\ sched'.timer_armed /\ ~sched'.running
    BY <2>1 DEF Stopped
  <2> QED
    BY <2>1, <2>2
<1>8. CASE \E l \in Lane, k \in Key : Arrive(l, k) \/ Settle(l, k) \/ RowGone(l, k)
  BY <1>8 DEF Arrive, Settle, RowGone
<1>9. CASE UNCHANGED vars
  BY <1>9 DEF vars
<1> QED
  BY <1>1, <1>2, <1>3, <1>4, <1>5, <1>6, <1>7, <1>8, <1>9 DEF Next, PassStep

(* The types and PassesAlone hold at the start.                             *)
LEMMA InitTypes ==
  ASSUME Init
  PROVE  TypeOK /\ PassesAlone
<1>1. sched \in States /\ sched.timer_armed /\ ~sched.running
  BY DEF Init, States, Stopped
<1>2. pass \in [lane : 0..Lanes, todo : SUBSET Key, next : 0..Keys]
  BY SchedulerAssumption DEF Init, NoPass
<1>3. TypeOK
  BY <1>1, <1>2, SchedulerAssumption DEF Init, TypeOK
<1> QED
  BY <1>1, <1>3 DEF Init, PassesAlone

(* No two passes of the recovery timer interleave (RecoverySchedulerState): *)
(* a timer is scheduled exactly when timer_armed says so and never while a  *)
(* pass runs, for any number of lanes, rows, traps and upgrades.            *)
THEOREM PassesNeverOverlap == Spec => []PassesAlone
<1>1. Init => SchedType /\ PassesAlone
  BY InitTypes DEF TypeOK, SchedType
<1> QED
  BY <1>1, AloneNext, PTL DEF Spec

------------------------------------------------------------------------------
(* Pages.                                                                   *)

(* A set of keys that is not empty has a least element.                     *)
LEMMA LeastKey ==
  ASSUME NEW S \in SUBSET Nat, S # {}
  PROVE  \E m \in S : \A j \in S : m <= j
<1> DEFINE R == OpToRel(<, Nat)
<1>1. IsWellFoundedOn(R, Nat)
  BY NatLessThanWellFounded
<1>2. \A x, y \in Nat : x < y => <<x, y>> \in R
  BY DEF OpToRel
<1> HIDE DEF R
<1>3. \E m \in S : \A j \in S : ~ (<<j, m>> \in R)
  BY <1>1, WFMin
<1>4. PICK m \in S : \A j \in S : ~ (<<j, m>> \in R)
  BY <1>3
<1>5. \A j \in S : m <= j
  <2> TAKE j \in S
  <2>1. j \in Nat /\ m \in Nat
    OBVIOUS
  <2>2. ~ (j < m)
    BY <1>2, <1>4, <2>1
  <2> QED
    BY <2>1, <2>2
<1> QED
  BY <1>5

(* A bounded one also has a greatest one, which Last chooses.               *)
LEMMA LastIsGreatest ==
  ASSUME NEW S \in SUBSET Key, S # {}
  PROVE  Last(S) \in S /\ \A j \in S : j <= Last(S)
<1> DEFINE T == {Keys - k : k \in S}
<1>1. T \in SUBSET Nat /\ T # {}
  <2>1. \A k \in S : Keys - k \in Nat
    BY SchedulerAssumption DEF Key
  <2> QED
    BY <2>1
<1>2. PICK t \in T : \A j \in T : t <= j
  BY <1>1, LeastKey
<1>3. PICK m \in S : t = Keys - m
  BY <1>2
<1>4. \A j \in S : Keys - j \in T
  OBVIOUS
<1>5. \A j \in S : Keys - m <= Keys - j
  BY <1>2, <1>3, <1>4
<1>6. \A j \in S : j <= m
  <2> TAKE j \in S
  <2>1. j \in 1..Keys /\ m \in 1..Keys
    BY DEF Key
  <2> QED
    BY <1>5, <2>1, SchedulerAssumption
<1> QED
  BY <1>6 DEF Last

(* Sets of keys are finite, and no larger than the table can be.            *)
LEMMA KeysFinite ==
  ASSUME NEW S \in SUBSET Key
  PROVE  IsFiniteSet(S) /\ Cardinality(S) \in Nat /\ Cardinality(S) <= Keys
<1>1. IsFiniteSet(1..Keys) /\ Cardinality(1..Keys) = IF 1 > Keys THEN 0 ELSE Keys - 1 + 1
  BY FS_Interval, SchedulerAssumption
<1>2. IsFiniteSet(Key) /\ Cardinality(Key) = Keys
  BY <1>1, SchedulerAssumption DEF Key
<1>3. IsFiniteSet(S) /\ Cardinality(S) <= Cardinality(Key)
  BY <1>2, FS_Subset
<1> QED
  BY <1>2, <1>3, FS_CardinalityType

(* The page of a scan and the cursor it leaves: a page that ends the lap    *)
(* holds every row after the cursor, another one every row up to its last.  *)
LEMMA PageCovers ==
  ASSUME NEW l \in Lane, rows[l] \in SUBSET Key, cursor[l] \in 0..Keys
  PROVE  /\ Page(l) \subseteq rows[l]
         /\ NextCursor(Page(l)) \in 0..Keys
         /\ NextCursor(Page(l)) # 0 => NextCursor(Page(l)) \in Page(l)
         /\ \A k \in rows[l] :
              \/ k <= cursor[l]
              \/ k \in Page(l)
              \/ NextCursor(Page(l)) # 0 /\ k > NextCursor(Page(l))
<1> DEFINE after == {k \in rows[l] : k > cursor[l]}
           upto(k) == {j \in after : j <= k}
           page == Page(l)
<1>1. page = {k \in after : Cardinality(upto(k)) <= Budget}
  BY DEF Page
<1>2. after \in SUBSET Key /\ page \in SUBSET Key /\ \A k \in Key : upto(k) \in SUBSET Key
  BY <1>1
<1>3. /\ IsFiniteSet(after) /\ IsFiniteSet(page)
      /\ Cardinality(page) \in Nat /\ Cardinality(page) <= Keys
      /\ \A k \in Key : IsFiniteSet(upto(k)) /\ Cardinality(upto(k)) \in Nat
  BY <1>2, KeysFinite
<1>4. page \subseteq rows[l]
  BY <1>1
<1> HIDE DEF page
<1>5. CASE Cardinality(page) < Budget
  <2>1. NextCursor(page) = 0
    BY <1>5 DEF NextCursor
  <2>2. after \ page = {}
    <3> SUFFICES ASSUME after \ page # {} PROVE FALSE
      OBVIOUS
    <3>1. after \ page \in SUBSET Nat
      BY <1>2 DEF Key
    <3>2. PICK m \in after \ page : \A j \in after \ page : m <= j
      BY <3>1, LeastKey
    <3>3. m \in Key /\ \A j \in after : j \in Key
      BY <1>2
    <3>4. upto(m) \subseteq page \cup {m}
      BY <3>2, <3>3 DEF Key
    <3>5. IsFiniteSet(page \cup {m}) /\ Cardinality(page \cup {m}) = Cardinality(page) + 1
      BY <1>3, <3>2, FS_AddElement
    <3>6. Cardinality(upto(m)) <= Cardinality(page \cup {m})
      BY <3>4, <3>5, FS_Subset
    <3>7. Cardinality(upto(m)) <= Budget
      <4>1. Cardinality(upto(m)) \in Nat /\ Cardinality(page) \in Nat
        BY <1>3, <3>3
      <4>2. Cardinality(upto(m)) <= Cardinality(page) + 1
        BY <3>5, <3>6
      <4> QED
        BY <1>5, <4>1, <4>2, SchedulerAssumption
    <3> QED
      BY <1>1, <3>2, <3>7 DEF page
  <2>3. \A k \in rows[l] : k <= cursor[l] \/ k \in page
    BY <2>2 DEF Key
  <2> QED
    BY <1>4, <2>1, <2>3, SchedulerAssumption DEF page
<1>6. CASE ~ (Cardinality(page) < Budget)
  <2>1. NextCursor(page) = Last(page)
    BY <1>3, <1>6, SchedulerAssumption DEF NextCursor
  <2>2. page # {}
    BY <1>6, FS_EmptySet, SchedulerAssumption
  <2>3. Last(page) \in page /\ \A j \in page : j <= Last(page)
    BY <1>2, <2>2, LastIsGreatest
  <2>4. Last(page) \in 1..Keys
    BY <1>2, <2>3 DEF Key
  <2>5. ASSUME NEW k \in rows[l], k > cursor[l], k <= Last(page)
        PROVE  k \in page
    <3>1. k \in after /\ k \in Key
      BY <2>5
    <3>2. upto(k) \subseteq upto(Last(page))
      BY <1>2, <2>4, <2>5, <3>1 DEF Key
    <3>3. Cardinality(upto(Last(page))) <= Budget
      BY <1>1, <2>3 DEF page
    <3>4. IsFiniteSet(upto(Last(page))) /\ Cardinality(upto(Last(page))) \in Nat
      BY <1>3, <2>4 DEF Key
    <3>5. Cardinality(upto(k)) <= Cardinality(upto(Last(page)))
      BY <3>2, <3>4, FS_Subset
    <3>6. Cardinality(upto(k)) <= Budget
      BY <1>3, <3>1, <3>3, <3>4, <3>5, SchedulerAssumption
    <3> QED
      BY <1>1, <3>1, <3>6 DEF page
  <2>6. \A k \in rows[l] : k <= cursor[l] \/ k \in page \/ k > Last(page)
    BY <2>4, <2>5 DEF Key
  <2> QED
    BY <1>4, <2>1, <2>3, <2>4, <2>6 DEF page
<1> QED
  BY <1>5, <1>6------------------------------------------------------------------------------
(* Types.                                                                   *)

(* What a scan leaves (StartLane).                                          *)
LEMMA StartType ==
  ASSUME TypeOK, NEW l \in Lane, StartLane(l)
  PROVE  /\ pass' \in [lane : 0..Lanes, todo : SUBSET Key, next : 0..Keys]
         /\ found' \in [Lane -> BOOLEAN]
         /\ overtaken' \subseteq Lane \X Key
<1>1. rows[l] \in SUBSET Key /\ cursor[l] \in 0..Keys /\ found[l] \in BOOLEAN
  BY DEF TypeOK
<1>2. Page(l) \subseteq rows[l] /\ NextCursor(Page(l)) \in 0..Keys
  BY <1>1, PageCovers
<1>3. l \in 0..Lanes /\ Page(l) \cap work[l] \in SUBSET Key
  BY <1>1, <1>2 DEF Lane
<1>4. pass' = [lane |-> l, todo |-> Page(l) \cap work[l], next |-> NextCursor(Page(l))]
  BY DEF StartLane
<1>5. LapFound(l) \/ (l \in Eager /\ Page(l) \cap work[l] # {}) \in BOOLEAN
  OBVIOUS
<1>6. found' \in [Lane -> BOOLEAN]
  BY <1>1 DEF StartLane, TypeOK
<1>7. overtaken' \subseteq overtaken
  BY DEF StartLane
<1> QED
  BY <1>2, <1>3, <1>4, <1>6, <1>7 DEF TypeOK

(* The types are inductive.                                                 *)
LEMMA TypeNext ==
  ASSUME TypeOK, PassesAlone, [Next]_vars
  PROVE  TypeOK'
<1>0. sched' \in States /\ timers' \in Nat
  BY AloneNext DEF TypeOK, SchedType
<1> USE DEF TypeOK
<1>1. ASSUME NEW l \in Lane, NEW k \in Key, Arrive(l, k)
      PROVE  TypeOK'
  <2>2. overtaken' \subseteq Lane \X Key /\ unarmed' \subseteq Lane \X Key
    BY <1>1 DEF Arrive
  <2>3. rows' \in [Lane -> SUBSET Key] /\ work' \in [Lane -> SUBSET Key]
    BY <1>1 DEF Arrive
  <2> QED
    BY <1>1, <2>2, <2>3 DEF Arrive, bounds
<1>2. ASSUME NEW l \in Lane, NEW k \in Key, Arm(l, k)
      PROVE  TypeOK'
  BY <1>0, <1>2 DEF Arm, bounds
<1>3. ASSUME NEW l \in Lane, NEW k \in Key, Settle(l, k) \/ RowGone(l, k)
      PROVE  TypeOK'
  <2>1. /\ rows' \in [Lane -> SUBSET Key] /\ work' \in [Lane -> SUBSET Key]
        /\ overtaken' \subseteq overtaken
    BY <1>3 DEF Settle, RowGone
  <2> QED
    BY <1>3, <2>1 DEF Settle, RowGone, bounds
<1>4. CASE Tick
  <2>1. 1 \in Lane
    BY SchedulerAssumption DEF Lane
  <2>2. /\ pass' \in [lane : 0..Lanes, todo : SUBSET Key, next : 0..Keys]
        /\ found' \in [Lane -> BOOLEAN]
        /\ overtaken' \subseteq Lane \X Key
    BY <1>4, <2>1, StartType DEF Tick
  <2> QED
    BY <1>0, <1>4, <2>2 DEF Tick, tables, bounds
<1>5. ASSUME NEW k \in pass.todo, Attempt(k)
      PROVE  TypeOK'
  <2>1. /\ work' \in [Lane -> SUBSET Key] /\ found' \in [Lane -> BOOLEAN]
        /\ overtaken' \subseteq overtaken
    BY <1>5 DEF Attempt
  <2>2. pass' \in [lane : 0..Lanes, todo : SUBSET Key, next : 0..Keys]
    BY <1>5 DEF Attempt
  <2> QED
    BY <1>5, <2>1, <2>2 DEF Attempt, bounds
<1>6. CASE NextLane
  <2>1. pass.lane + 1 \in Lane
    BY <1>6, SchedulerAssumption DEF NextLane, LaneDone, Lane
  <2>2. /\ pass' \in [lane : 0..Lanes, todo : SUBSET Key, next : 0..Keys]
        /\ found' \in [Lane -> BOOLEAN]
        /\ overtaken' \subseteq Lane \X Key
    BY <1>6, <2>1, StartType DEF NextLane
  <2>3. cursor' \in [Lane -> 0..Keys]
    BY <1>6 DEF NextLane
  <2> QED
    BY <1>6, <2>2, <2>3 DEF NextLane, tables, bounds
<1>7. ASSUME NEW bulk \in BOOLEAN, FinishPass(bulk)
      PROVE  TypeOK'
  <2>1. cursor' \in [Lane -> 0..Keys] /\ pass' = NoPass
    BY <1>7 DEF FinishPass
  <2>2. pass' \in [lane : 0..Lanes, todo : SUBSET Key, next : 0..Keys]
    BY <2>1, SchedulerAssumption DEF NoPass
  <2> QED
    BY <1>0, <1>7, <2>1, <2>2 DEF FinishPass, tables, bounds
<1>8. CASE Trap \/ Upgrade
  <2>1. pass' \in [lane : 0..Lanes, todo : SUBSET Key, next : 0..Keys]
    BY <1>8, SchedulerAssumption DEF Trap, Upgrade, NoPass
  <2>2. traps' \in Nat /\ upgrades' \in Nat /\ traps' + upgrades' <= MaxFaults
    BY <1>8, SchedulerAssumption DEF Trap, Upgrade
  <2>3. cursor' \in [Lane -> 0..Keys] /\ found' \in [Lane -> BOOLEAN]
    <3>1. CASE Trap
      BY <3>1 DEF Trap
    <3>2. CASE Upgrade
      BY <3>2, SchedulerAssumption DEF Upgrade
    <3> QED
      BY <1>8, <3>1, <3>2
  <2> QED
    BY <1>0, <1>8, <2>1, <2>2, <2>3 DEF Trap, Upgrade, tables
<1>9. CASE UNCHANGED vars
  BY <1>9 DEF vars
<1> QED
  BY <1>1, <1>2, <1>3, <1>4, <1>5, <1>6, <1>7, <1>8, <1>9 DEF Next, PassStep

(* The recovery timer's state keeps its types: pages and cursors are keys   *)
(* of the tables, whatever is inserted and removed while a lap is under way.*)
THEOREM TypeCorrect == Spec => []TypeOK
<1>1. Init => TypeOK
  BY InitTypes
<1> QED
  BY <1>1, TypeNext, PassesNeverOverlap, PTL DEF Spec

------------------------------------------------------------------------------
(* Wake-ups.                                                                *)

WakeIInv == TypeOK /\ PassesAlone /\ WakeInv /\ NoLostWake

(* A scan takes in hand every outstanding row it passes, and remembers that *)
(* the lap has left work behind; a new lap misses nothing (StartLane).      *)
LEMMA StartTakes ==
  ASSUME TypeOK, WorkInTable, NEW l \in Lane, StartLane(l),
         \A k \in work[l] : k <= cursor[l] => found[l] \/ <<l, k>> \in overtaken
  PROVE  /\ pass'.lane = l
         /\ \A i \in Lane \ {l} : found'[i] = found[i]
         /\ \A i \in Lane \ {l} : \A k \in Key : <<i, k>> \in overtaken => <<i, k>> \in overtaken'
         /\ \A k \in work[l] : \/ k \in pass'.todo
                               \/ found'[l]
                               \/ <<l, k>> \in overtaken'
                               \/ pass'.next # 0 /\ k > pass'.next
<1> DEFINE next == NextCursor(Page(l))
<1>1. /\ rows[l] \in SUBSET Key /\ cursor[l] \in 0..Keys
      /\ work[l] \subseteq rows[l] /\ found \in [Lane -> BOOLEAN]
  BY DEF TypeOK, WorkInTable
<1>2. \A k \in rows[l] : k <= cursor[l] \/ k \in Page(l) \/ (next # 0 /\ k > next)
  BY <1>1, PageCovers
<1> HIDE DEF next
<1>3. /\ pass'.lane = l /\ pass'.todo = Page(l) \cap work[l] /\ pass'.next = next
      /\ found' = [found EXCEPT ![l] = LapFound(l) \/ (l \in Eager /\ Page(l) \cap work[l] # {})]
      /\ overtaken' = IF cursor[l] = 0 THEN {r \in overtaken : r[1] # l} ELSE overtaken
  BY DEF StartLane, next
<1>4. \A i \in Lane \ {l} : found'[i] = found[i]
  BY <1>1, <1>3
<1>5. \A i \in Lane \ {l} : \A k \in Key : <<i, k>> \in overtaken => <<i, k>> \in overtaken'
  BY <1>3
<1>6. cursor[l] # 0 => (found[l] => found'[l]) /\ overtaken' = overtaken
  BY <1>1, <1>3 DEF LapFound
<1>7. ASSUME NEW k \in work[l]
      PROVE  k \in pass'.todo \/ found'[l] \/ <<l, k>> \in overtaken' \/ (next # 0 /\ k > next)
  <2>1. CASE k <= cursor[l]
    <3>1. cursor[l] # 0
      BY <1>1, <2>1 DEF Key
    <3> QED
      BY <1>6, <2>1, <3>1
  <2>2. CASE ~ (k <= cursor[l])
    BY <1>1, <1>2, <1>3, <2>2
  <2> QED
    BY <2>1, <2>2
<1> QED
  BY <1>3, <1>4, <1>5, <1>7

(* A new row is excused until its call arms, and ahead of its lane's lap or *)
(* marked as overtaken.                                                     *)
LEMMA ArriveWake ==
  ASSUME WakeIInv, NEW l \in Lane, NEW k \in Key, Arrive(l, k)
  PROVE  WakeInv' /\ NoLostWake'
<1> USE DEF WakeIInv, WakeInv, TypeOK
<1>1. /\ pass' = pass /\ cursor' = cursor /\ found' = found /\ sched' = sched
      /\ work' = [work EXCEPT ![l] = @ \cup {k}]
      /\ rows' = [rows EXCEPT ![l] = @ \cup {k}]
      /\ unarmed' = unarmed \cup {<<l, k>>}
      /\ overtaken' = IF k <= Position(l) THEN overtaken \cup {<<l, k>>} ELSE overtaken
  BY DEF Arrive
<1>2. \A i \in Lane : /\ work'[i] \subseteq work[i] \cup (IF i = l THEN {k} ELSE {})
                      /\ rows'[i] \subseteq rows[i] \cup (IF i = l THEN {k} ELSE {})
  BY <1>1
<1>3. WorkInTable'
  BY <1>1 DEF WorkInTable
<1>4. overtaken \subseteq overtaken' /\ (k <= Position(l) => <<l, k>> \in overtaken')
  BY <1>1
<1>5. Visited'
  <2> SUFFICES ASSUME NotTrapped, NEW i \in Lane \ {pass.lane}, NEW j \in work'[i],
                      j <= cursor[i]
               PROVE  found[i] \/ <<i, j>> \in overtaken'
    BY <1>1 DEF Visited, NotTrapped
  <2>1. CASE j \in work[i]
    BY <1>4, <2>1 DEF Visited
  <2>2. CASE j = k /\ i = l
    BY <1>4, <2>2 DEF Position
  <2> QED
    BY <1>2, <2>1, <2>2
<1>6. \A i \in Lane : \A j \in work[i] : Excused(i, j) => Excused(i, j)'
  BY <1>1, <1>4 DEF Excused
<1>7. Excused(l, k)'
  BY <1>1 DEF Excused
<1>8. InHand'
  <2> SUFFICES ASSUME pass.lane \in Lane, NEW j \in work'[pass.lane]
               PROVE  \/ j \in pass.todo
                      \/ found[pass.lane]
                      \/ <<pass.lane, j>> \in overtaken'
                      \/ pass.next # 0 /\ j > pass.next
                      \/ pass.next = 0 /\ Excused(pass.lane, j)'
    BY <1>1 DEF InHand, Excused
  <2>1. CASE j \in work[pass.lane]
    BY <1>1, <1>4, <2>1 DEF InHand, Excused
  <2>2. CASE j = k /\ pass.lane = l
    <3>1. k \in Nat /\ pass.next \in Nat
      BY DEF Key
    <3> QED
      BY <1>1, <2>2, <3>1 DEF Position, Excused
  <2> QED
    BY <1>2, <2>1, <2>2
<1>9. LanesDone'
  <2> SUFFICES ASSUME pass.lane \in Lane, NEW i \in Lane, i < pass.lane, cursor[i] = 0,
                      NEW j \in work'[i]
               PROVE  found[i] \/ Excused(i, j)'
    BY <1>1 DEF LanesDone, Excused
  <2>1. CASE j \in work[i]
    BY <1>6, <2>1 DEF LanesDone
  <2>2. CASE j = k /\ i = l
    BY <1>7, <2>2
  <2> QED
    BY <1>2, <2>1, <2>2
<1>10. NoLostWake'
  BY <1>1, <1>2, <1>4 DEF NoLostWake
<1> QED
  BY <1>3, <1>5, <1>8, <1>9, <1>10

(* A call that ends arms the timer or latches a request.                    *)
LEMMA ArmWake ==
  ASSUME WakeIInv, NEW l \in Lane, NEW k \in Key, Arm(l, k)
  PROVE  WakeInv' /\ NoLostWake'
<1> USE DEF WakeIInv, WakeInv
<1>1. /\ work' = work /\ rows' = rows /\ overtaken' = overtaken
      /\ pass' = pass /\ cursor' = cursor /\ found' = found
      /\ sched' = RequestArm(sched)
  BY DEF Arm
<1>2. /\ sched'.timer_armed \/ sched'.running
      /\ sched'.running = sched.running
  BY <1>1 DEF RequestArm, TypeOK, States
<1>3. pass.lane \in Lane => sched'.arm_requested
  <2>1. pass.lane \in Lane => sched.running
    BY LaneIsPass DEF PassesAlone
  <2> QED
    BY <1>1, <2>1 DEF RequestArm, TypeOK, States
<1>4. WorkInTable' /\ Visited'
  BY <1>1, <1>2 DEF WorkInTable, Visited, NotTrapped
<1>5. InHand'
  <2> SUFFICES ASSUME pass.lane \in Lane, NEW j \in work[pass.lane]
               PROVE  \/ j \in pass.todo
                      \/ found[pass.lane]
                      \/ <<pass.lane, j>> \in overtaken
                      \/ pass.next # 0 /\ j > pass.next
                      \/ pass.next = 0 /\ Excused(pass.lane, j)'
    BY <1>1 DEF InHand, Excused
  <2>1. Excused(pass.lane, j)'
    BY <1>3 DEF Excused
  <2> QED
    BY <2>1 DEF InHand
<1>6. LanesDone'
  BY <1>1, <1>3 DEF LanesDone, Excused
<1>7. NoLostWake'
  BY <1>2 DEF NoLostWake
<1> QED
  BY <1>4, <1>5, <1>6, <1>7

(* Rows that are settled or removed need no wake-up.                        *)
LEMMA GoneWake ==
  ASSUME WakeIInv, NEW l \in Lane, NEW k \in Key, Settle(l, k) \/ RowGone(l, k)
  PROVE  WakeInv' /\ NoLostWake'
<1> USE DEF WakeIInv, WakeInv
<1>1. /\ pass' = pass /\ cursor' = cursor /\ found' = found
      /\ sched' = sched /\ unarmed' = unarmed
  BY DEF Settle, RowGone
<1>2. \A i \in Lane : /\ work'[i] \subseteq work[i] /\ rows'[i] \subseteq rows[i]
                      /\ \A j \in work'[i] : <<i, j>> \in overtaken => <<i, j>> \in overtaken'
  BY DEF Settle, RowGone, TypeOK
<1>3. WorkInTable'
  <2>1. CASE Settle(l, k)
    <3>1. rows' = rows
      BY <2>1 DEF Settle
    <3> QED
      BY <1>2, <3>1 DEF WorkInTable
  <2>2. CASE RowGone(l, k)
    <3>1. work' = work /\ rows' = [rows EXCEPT ![l] = @ \ {k}] /\ k \notin work[l]
      BY <2>2 DEF RowGone
    <3> QED
      BY <3>1 DEF WorkInTable, TypeOK
  <2> QED
    BY <2>1, <2>2
<1>4. Visited'
  BY <1>1, <1>2 DEF Visited, NotTrapped
<1>5. InHand' /\ LanesDone'
  BY <1>1, <1>2 DEF InHand, LanesDone, Excused
<1>6. NoLostWake'
  BY <1>1, <1>2 DEF NoLostWake
<1> QED
  BY <1>3, <1>4, <1>5, <1>6

(* on_tick: the first lane is scanned, and no lane is done.                 *)
LEMMA TickWake ==
  ASSUME WakeIInv, Tick
  PROVE  WakeInv' /\ NoLostWake'
<1> USE DEF WakeIInv, WakeInv
<1>1. 1 \in Lane /\ \A l \in Lane : ~ (l < 1)
  BY SchedulerAssumption DEF Lane
<1>2. /\ work' = work /\ rows' = rows /\ cursor' = cursor /\ ~sched.running
      /\ sched' = BeginPass(sched) /\ StartLane(1)
  BY DEF Tick, tables
<1>3. pass.lane \notin Lane
  BY <1>2, LaneIsPass DEF PassesAlone
<1>4. \A l \in Lane : \A k \in work[l] : k <= cursor[l] => found[l] \/ <<l, k>> \in overtaken
  BY <1>2, <1>3 DEF Visited, NotTrapped
<1>5. /\ pass'.lane = 1
      /\ \A i \in Lane \ {1} : found'[i] = found[i]
      /\ \A i \in Lane \ {1} : \A k \in Key : <<i, k>> \in overtaken => <<i, k>> \in overtaken'
      /\ \A k \in work[1] : \/ k \in pass'.todo
                            \/ found'[1]
                            \/ <<1, k>> \in overtaken'
                            \/ pass'.next # 0 /\ k > pass'.next
  BY <1>1, <1>2, <1>4, StartTakes
<1>6. WorkInTable'
  BY <1>2 DEF WorkInTable
<1>7. Visited'
  <2> SUFFICES ASSUME NEW l \in Lane \ {1}, NEW k \in work[l], k <= cursor[l]
               PROVE  found'[l] \/ <<l, k>> \in overtaken'
    BY <1>2, <1>5 DEF Visited
  <2>1. k \in Key
    BY DEF TypeOK
  <2> QED
    BY <1>4, <1>5, <2>1
<1>8. InHand' /\ LanesDone'
  BY <1>1, <1>2, <1>5 DEF InHand, LanesDone
<1>9. sched'.running
  BY <1>2 DEF BeginPass, TypeOK, States
<1> QED
  BY <1>6, <1>7, <1>8, <1>9 DEF NoLostWake

(* An attempt either settles its row or records that the lap found work.    *)
LEMMA AttemptWake ==
  ASSUME WakeIInv, NEW k \in pass.todo, Attempt(k)
  PROVE  WakeInv' /\ NoLostWake'
<1> USE DEF WakeIInv, WakeInv
<1>1. rows' = rows /\ unarmed' = unarmed /\ sched' = sched /\ cursor' = cursor
  BY DEF Attempt
<1>2. /\ pass'.lane = pass.lane /\ pass'.todo = pass.todo \ {k} /\ pass'.next = pass.next
  BY DEF Attempt, TypeOK
<1>3. \A l \in Lane :
        /\ work'[l] \subseteq work[l]
        /\ found[l] => found'[l]
        /\ l = pass.lane => k \notin work'[l] \/ found'[l]
        /\ \A j \in work'[l] : <<l, j>> \in overtaken => <<l, j>> \in overtaken'
  <2>1. CASE work' = [work EXCEPT ![pass.lane] = @ \ {k}] /\ found' = found
             /\ overtaken' = overtaken \ {<<pass.lane, k>>}
    BY <2>1 DEF TypeOK
  <2>2. CASE work' = work /\ overtaken' = overtaken /\ found' = [found EXCEPT ![pass.lane] = TRUE]
    BY <2>2 DEF TypeOK
  <2> QED
    BY <2>1, <2>2 DEF Attempt
<1>4. WorkInTable' /\ Visited'
  BY <1>1, <1>2, <1>3 DEF WorkInTable, Visited, NotTrapped
<1>5. InHand' /\ LanesDone'
  BY <1>1, <1>2, <1>3 DEF InHand, LanesDone, Excused
<1>6. NoLostWake'
  BY <1>1, <1>3 DEF NoLostWake
<1> QED
  BY <1>4, <1>5, <1>6

(* The cursor of a lane the pass is done with: its lap goes on and has      *)
(* settled or remembers what it passed, or it has ended.                    *)
LEMMA LaneEnds ==
  ASSUME WakeIInv, LaneDone, NEW cur, cur = [cursor EXCEPT ![pass.lane] = pass.next]
  PROVE  /\ \A l \in Lane : \A k \in work[l] : k <= cur[l] => found[l] \/ <<l, k>> \in overtaken
         /\ \A l \in Lane : (l <= pass.lane /\ cur[l] = 0) =>
              \A k \in work[l] : found[l] \/ Excused(l, k)
<1> USE DEF WakeIInv, WakeInv
<1>1. pass.lane \in Lane /\ pass.todo = {}
  BY DEF LaneDone
<1>2. cur[pass.lane] = pass.next /\ \A l \in Lane \ {pass.lane} : cur[l] = cursor[l]
  BY <1>1 DEF TypeOK
<1>3. ASSUME NEW l \in Lane, NEW k \in work[l], k <= cur[l]
      PROVE  found[l] \/ <<l, k>> \in overtaken
  <2>1. CASE l = pass.lane
    <3>1. k \in Nat \ {0} /\ pass.next \in Nat
      BY DEF TypeOK, Key
    <3> QED
      BY <1>1, <1>2, <1>3, <2>1, <3>1 DEF InHand
  <2>2. CASE l # pass.lane
    BY <1>1, <1>2, <1>3, <2>2 DEF Visited, NotTrapped
  <2> QED
    BY <2>1, <2>2
<1>4. ASSUME NEW l \in Lane, l <= pass.lane, cur[l] = 0, NEW k \in work[l]
      PROVE  found[l] \/ Excused(l, k)
  <2>1. CASE l = pass.lane
    BY <1>1, <1>2, <1>4, <2>1 DEF InHand, Excused
  <2>2. CASE l # pass.lane
    <3>1. l < pass.lane
      BY <1>1, <1>4, <2>2 DEF Lane
    <3> QED
      BY <1>1, <1>2, <1>4, <2>2, <3>1 DEF LanesDone
  <2> QED
    BY <2>1, <2>2
<1> QED
  BY <1>3, <1>4

(* The pass goes on with the next lane.                                     *)
LEMMA NextLaneWake ==
  ASSUME WakeIInv, NextLane
  PROVE  WakeInv' /\ NoLostWake'
<1> USE DEF WakeIInv, WakeInv
<1> DEFINE n == pass.lane + 1
<1>1. /\ work' = work /\ rows' = rows /\ unarmed' = unarmed /\ sched' = sched
      /\ cursor' = [cursor EXCEPT ![pass.lane] = pass.next]
      /\ LaneDone /\ pass.lane \in Lane /\ StartLane(n)
  BY DEF NextLane, LaneDone, tables
<1>2. /\ n \in Lane /\ n # pass.lane
      /\ \A l \in Lane : l < n => l <= pass.lane
  BY SchedulerAssumption DEF NextLane, LaneDone, Lane
<1>3. cursor'[n] = cursor[n]
  BY <1>1, <1>2 DEF TypeOK
<1> HIDE DEF n
<1>4. /\ \A l \in Lane : \A k \in work[l] : k <= cursor'[l] => found[l] \/ <<l, k>> \in overtaken
      /\ \A l \in Lane : (l <= pass.lane /\ cursor'[l] = 0) =>
           \A k \in work[l] : found[l] \/ Excused(l, k)
  BY <1>1, LaneEnds
<1>5. /\ pass'.lane = n
      /\ \A i \in Lane \ {n} : found'[i] = found[i]
      /\ \A i \in Lane \ {n} : \A k \in Key : <<i, k>> \in overtaken => <<i, k>> \in overtaken'
      /\ \A k \in work[n] : \/ k \in pass'.todo
                            \/ found'[n]
                            \/ <<n, k>> \in overtaken'
                            \/ pass'.next # 0 /\ k > pass'.next
  BY <1>1, <1>2, <1>3, <1>4, StartTakes
<1>6. \A l \in Lane : \A k \in work[l] : k \in Key
  BY DEF TypeOK
<1>7. WorkInTable'
  BY <1>1 DEF WorkInTable
<1>8. Visited'
  <2> SUFFICES ASSUME NEW l \in Lane \ {n}, NEW k \in work[l], k <= cursor'[l]
               PROVE  found'[l] \/ <<l, k>> \in overtaken'
    BY <1>1, <1>5 DEF Visited
  <2> QED
    BY <1>4, <1>5, <1>6
<1>9. InHand'
  BY <1>1, <1>5 DEF InHand
<1>10. LanesDone'
  <2> SUFFICES ASSUME NEW l \in Lane, l < n, cursor'[l] = 0, NEW k \in work[l]
               PROVE  found'[l] \/ Excused(l, k)'
    BY <1>1, <1>5 DEF LanesDone
  <2>1. l <= pass.lane /\ l # n
    BY <1>2 DEF Lane
  <2> QED
    BY <1>1, <1>4, <1>5, <1>6, <2>1 DEF Excused
<1>11. sched.running
  BY <1>1, LaneIsPass DEF PassesAlone
<1>12. NoLostWake'
  BY <1>1, <1>11 DEF NoLostWake
<1> QED
  BY <1>7, <1>8, <1>9, <1>10, <1>12

(* finish_pass: whatever is outstanding now is ahead of a cursor, was       *)
(* latched or was found, came too late, or its call has yet to arm.         *)
LEMMA FinishWake ==
  ASSUME WakeIInv, NEW bulk \in BOOLEAN, FinishPass(bulk)
  PROVE  WakeInv' /\ NoLostWake'
<1> USE DEF WakeIInv, WakeInv
<1> DEFINE cur == [cursor EXCEPT ![pass.lane] = pass.next]
           next == bulk \/ KeepGoing(cur) \/ sched.arm_requested
<1>1. /\ work' = work /\ rows' = rows /\ unarmed' = unarmed /\ found' = found
      /\ overtaken' = overtaken
      /\ cursor' = cur /\ pass' = NoPass
      /\ sched' = [Stopped EXCEPT !.timer_armed = next]
      /\ LaneDone /\ pass.lane = Lanes
  BY DEF FinishPass, tables
<1>2. /\ \A l \in Lane : \A k \in work[l] : k <= cur[l] => found[l] \/ <<l, k>> \in overtaken
      /\ \A l \in Lane : (l <= pass.lane /\ cur[l] = 0) =>
           \A k \in work[l] : found[l] \/ Excused(l, k)
  BY <1>1, LaneEnds
<1>3. pass'.lane \notin Lane
  BY <1>1 DEF NoPass, Lane
<1> HIDE DEF cur
<1>4. WorkInTable' /\ Visited'
  BY <1>1, <1>2, <1>3 DEF WorkInTable, Visited
<1>5. InHand' /\ LanesDone'
  BY <1>3 DEF InHand, LanesDone
<1>6. ASSUME NEW l \in Lane, NEW k \in work[l], <<l, k>> \notin unarmed \cup overtaken
      PROVE  next
  <2>1. l <= pass.lane
    BY <1>1 DEF Lane
  <2>2. cur[l] # 0 \/ found[l] \/ sched.arm_requested
    BY <1>2, <1>6, <2>1 DEF Excused
  <2> QED
    BY <2>2 DEF KeepGoing
<1>7. sched'.timer_armed = next
  BY <1>1 DEF Stopped
<1>8. NoLostWake'
  BY <1>1, <1>6, <1>7 DEF NoLostWake
<1> QED
  BY <1>4, <1>5, <1>8

(* A trapped pass stays running; an upgrade arms the timer again.           *)
LEMMA FaultWake ==
  ASSUME WakeIInv, Trap \/ Upgrade
  PROVE  WakeInv' /\ NoLostWake'
<1> USE DEF WakeIInv, WakeInv
<1>1. pass' = NoPass /\ work' = work /\ rows' = rows
  BY DEF Trap, Upgrade, tables
<1>2. pass'.lane \notin Lane
  BY <1>1 DEF NoPass, Lane
<1>3. WorkInTable' /\ InHand' /\ LanesDone'
  BY <1>1, <1>2 DEF WorkInTable, InHand, LanesDone
<1>4. CASE Trap
  <2>1. sched' = sched /\ unarmed' = unarmed /\ overtaken' = overtaken /\ sched.running
    BY <1>4 DEF Trap, tables, PassesAlone
  <2> QED
    BY <1>1, <1>2, <1>3, <2>1 DEF Visited, NotTrapped, NoLostWake
<1>5. CASE Upgrade
  <2>1. cursor' = [l \in Lane |-> 0] /\ sched' = [Stopped EXCEPT !.timer_armed = TRUE]
    BY <1>5 DEF Upgrade, RequestArm, Stopped
  <2>2. \A l \in Lane : \A k \in work[l] : ~ (k <= 0)
    BY DEF TypeOK, Key
  <2>3. Visited'
    BY <1>1, <2>1, <2>2 DEF Visited
  <2>4. sched'.timer_armed
    BY <2>1 DEF Stopped
  <2> QED
    BY <1>3, <2>3, <2>4 DEF NoLostWake
<1> QED
  BY <1>4, <1>5

(* An outstanding row whose call has armed has a timer or a running pass    *)
(* ahead of it, or it arrived behind its lane's lap: for any number of      *)
(* lanes, any page size, keys in any order, traps and upgrades              *)
(* (recovery_schedule_delay, run_recovery_pass).                            *)
THEOREM WakeKept == Spec => []NoLostWake
<1>1. Init => WakeIInv
  <2> SUFFICES ASSUME Init PROVE WakeIInv
    OBVIOUS
  <2>1. \A l \in Lane : work[l] = {} /\ rows[l] = {} /\ cursor[l] = 0
    BY DEF Init
  <2>2. pass.lane \notin Lane
    BY DEF Init, NoPass, Lane
  <2>3. WakeInv /\ NoLostWake
    BY <2>1, <2>2 DEF WakeInv, WorkInTable, Visited, InHand, LanesDone, NoLostWake
  <2>4. TypeOK /\ PassesAlone
    BY InitTypes
  <2> QED
    BY <2>3, <2>4 DEF WakeIInv
<1>2. WakeIInv /\ [Next]_vars => WakeIInv'
  <2> SUFFICES ASSUME WakeIInv, [Next]_vars PROVE WakeIInv'
    OBVIOUS
  <2>1. TypeOK' /\ PassesAlone'
    BY AloneNext, TypeNext DEF WakeIInv, TypeOK, SchedType
  <2>2. CASE UNCHANGED vars
    <3>1. WakeInv' /\ NoLostWake'
      BY <2>2 DEF vars, WakeIInv, WakeInv, WorkInTable, Visited, NotTrapped, InHand,
                  LanesDone, Excused, NoLostWake
    <3> QED
      BY <2>1, <3>1 DEF WakeIInv
  <2>3. CASE Next
    <3>1. WakeInv' /\ NoLostWake'
      BY <2>3, ArriveWake, ArmWake, GoneWake, TickWake, AttemptWake, NextLaneWake,
         FinishWake, FaultWake DEF Next, PassStep
    <3> QED
      BY <2>1, <3>1 DEF WakeIInv
  <2> QED
    BY <2>2, <2>3
<1>3. WakeIInv => NoLostWake
  BY DEF WakeIInv
<1> QED
  BY <1>1, <1>2, <1>3, PTL DEF Spec
===============================================================================
