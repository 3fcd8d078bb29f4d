------------------------ MODULE CmdVelArbiterProofs ------------------------
(* Proofs about the velocity arbiter, for every value of the constants.    *)
EXTENDS CmdVelArbiter, TLAPS

-----------------------------------------------------------------------------
(* Types of the helpers.  Each maps an arbiter to an arbiter.              *)

LEMMA NeverType == Never \in Int
BY DEF Never

LEMMA ClearType ==
    ASSUME NEW a \in Arbiter PROVE ClearExecutionLease(a) \in Arbiter
BY NeverType, Zenon DEF Arbiter, ClearExecutionLease

LEMMA InvalidateAutoType ==
    ASSUME NEW a \in Arbiter PROVE InvalidateAuto(a) \in Arbiter
<1>1. a.auto \in Sample
  BY DEF Arbiter
<1>2. [a.auto EXCEPT !.valid = FALSE] \in Sample
  BY <1>1 DEF Sample
<1> QED BY <1>2, Zenon DEF Arbiter, InvalidateAuto

LEMMA InvalidateSourcesType ==
    ASSUME NEW a \in Arbiter PROVE InvalidateSources(a) \in Arbiter
<1> DEFINE b == InvalidateAuto(a)
<1>1. b \in Arbiter
  BY InvalidateAutoType
<1>2. b.manual \in Sample
  BY <1>1 DEF Arbiter
<1>3. [b.manual EXCEPT !.valid = FALSE] \in Sample
  BY <1>2 DEF Sample
<1> HIDE DEF b
<1>4. [b EXCEPT !.manual.valid = FALSE] \in Arbiter
  BY <1>1, <1>3, Zenon DEF Arbiter
<1> QED BY <1>4 DEF InvalidateSources, b

LEMMA RejectType ==
    ASSUME NEW a \in Arbiter PROVE RejectExecutionCommand(a) \in Arbiter
BY ClearType, InvalidateAutoType DEF RejectExecutionCommand

LEMMA RetireType ==
    ASSUME NEW a \in Arbiter PROVE RetirePlannerGeneration(a) \in Arbiter
<1>1. [a EXCEPT !.planner_generation_usable = FALSE,
                !.planner_generation_retired = TRUE] \in Arbiter
  BY Zenon DEF Arbiter
<1> QED BY <1>1, RejectType DEF RetirePlannerGeneration

LEMMA LapseType ==
    ASSUME NEW a \in Arbiter PROVE LapseMapReady(a) \in Arbiter
<1>1. [a EXCEPT !.map_ready = FALSE] \in Arbiter
  BY Zenon DEF Arbiter
<1>2. [[a EXCEPT !.map_ready = FALSE] EXCEPT !.planner_generation_usable = FALSE]
          \in Arbiter
  BY Zenon DEF Arbiter
<1> QED BY <1>1, <1>2, RejectType, RetireType DEF LapseMapReady

LEMMA ExpireTypes ==
    ASSUME NEW a \in Arbiter
    PROVE  /\ ExpireMapReady(a) \in Arbiter
           /\ ExpireSupersedeGrace(a) \in Arbiter
           /\ ExpireExecutionLease(a) \in Arbiter
BY LapseType, RejectType, ClearType
   DEF ExpireMapReady, ExpireSupersedeGrace, ExpireExecutionLease

LEMMA SettledType ==
    ASSUME NEW a \in Arbiter PROVE Settled(a) \in Arbiter
BY ExpireTypes, RejectType DEF Settled

LEMMA LatchType ==
    ASSUME NEW a \in Arbiter PROVE MaybeAuthorizeLatchedExecute(a) \in Arbiter
<1> DEFINE b == ExpireMapReady(a)
           unlatched == [b EXCEPT !.dual_map_execute_latched = FALSE]
<1>1. b \in Arbiter
  BY ExpireTypes
<1>2. b.latched_execute_stamp \in Int
  BY <1>1 DEF Arbiter
<1> HIDE DEF b
<1>3. unlatched \in Arbiter
  BY <1>1, Zenon DEF Arbiter
<1> HIDE DEF unlatched
<1>4. [unlatched EXCEPT !.auto_authorized = TRUE,
                        !.execution_lease_stamp = b.latched_execute_stamp] \in Arbiter
  BY <1>2, <1>3, Zenon DEF Arbiter
<1> QED BY <1>3, <1>4 DEF MaybeAuthorizeLatchedExecute, b, unlatched

LEMMA LinkDownType ==
    ASSUME NEW a \in Arbiter PROVE SerialLinkDown(a) \in Arbiter
<1> DEFINE b == InvalidateSources(ClearExecutionLease(a))
<1>1. b \in Arbiter
  BY ClearType, InvalidateSourcesType
<1> HIDE DEF b
<1>2. [b EXCEPT !.link_up = FALSE, !.dual_map_execute_latched = FALSE] \in Arbiter
  BY <1>1, Zenon DEF Arbiter
<1> QED BY <1>2 DEF SerialLinkDown, b

LEMMA LinkUpType ==
    ASSUME clock \in Nat, NEW a \in Arbiter PROVE SerialLinkUp(a) \in Arbiter
<1> DEFINE b == IF a.link_up THEN a ELSE SerialLinkDown(a)
<1>1. b \in Arbiter
  BY LinkDownType
<1>2. clock \in Int
  OBVIOUS
<1> HIDE DEF b
<1>3. [b EXCEPT !.has_link_heartbeat = TRUE, !.last_link_stamp = clock,
                !.link_up = TRUE] \in Arbiter
  BY <1>1, <1>2, Zenon DEF Arbiter
<1> QED BY <1>3, LatchType DEF SerialLinkUp, b

LEMMA DropStaleType ==
    ASSUME NEW a \in Arbiter PROVE DropStaleSamples(a) \in Arbiter
<1>1. a.manual \in Sample /\ a.auto \in Sample
  BY DEF Arbiter
<1>2. /\ IsFresh(a.manual, ManualTimeout) \in BOOLEAN
      /\ IsFresh(a.auto, AutoTimeout) \in BOOLEAN
  BY DEF IsFresh
<1>3. /\ [a.manual EXCEPT !.valid = IsFresh(a.manual, ManualTimeout)] \in Sample
      /\ [a.auto EXCEPT !.valid = IsFresh(a.auto, AutoTimeout)] \in Sample
  BY <1>1, <1>2, Zenon DEF Sample
<1> QED BY <1>3, Zenon DEF Arbiter, DropStaleSamples

(* Publishing a selection keeps the arbiter one.                           *)
LEMMA PublishType ==
    ASSUME NEW a \in Arbiter, PublishSelection(a)
    PROVE  arb' \in Arbiter /\ published' \in Reasons
<1>1. CASE arb' = [a EXCEPT !.link_up = FALSE] /\ published' = "LINK_DOWN"
  <2>1. arb' \in Arbiter
    BY <1>1, Zenon DEF Arbiter
  <2> QED BY <1>1, <2>1 DEF Reasons
<1>2. CASE /\ arb' = [SerialLinkDown(a) EXCEPT !.has_link_heartbeat = FALSE]
           /\ published' = "LINK_DOWN"
  <2> DEFINE b == SerialLinkDown(a)
  <2>1. b \in Arbiter
    BY LinkDownType
  <2> HIDE DEF b
  <2>2. [b EXCEPT !.has_link_heartbeat = FALSE] \in Arbiter
    BY <2>1, Zenon DEF Arbiter
  <2> QED BY <1>2, <2>2 DEF Reasons, b
<1>3. CASE arb' = a /\ published' \in {"LINK_DOWN", "EMERGENCY_STOP"}
  BY <1>3 DEF Reasons
<1>4. CASE /\ arb' = DropStaleSamples(Settled(a))
           /\ published' = Selection(Settled(a))
  <2>1. arb' \in Arbiter
    BY <1>4, SettledType, DropStaleType
  <2>2. Selection(Settled(a)) \in Reasons
    BY Zenon DEF Selection, Reasons
  <2> QED BY <1>4, <2>1, <2>2
<1> QED BY <1>1, <1>2, <1>3, <1>4 DEF PublishSelection

LEMMA MessageTypes ==
    /\ \A s \in Statuses :
        s.epoch \in Nat /\ s.generation \in Nat /\ s.stamp \in Int
    /\ \A c \in Commands :
        /\ c.incarnation \in Nat /\ c.sequence \in Nat
        /\ c.epoch \in Nat /\ c.generation \in Nat /\ c.age \in Int
<1>1. ASSUME NEW s \in Statuses
      PROVE  s.epoch \in Nat /\ s.generation \in Nat /\ s.stamp \in Int
  <2>1. s.epoch \in Epochs /\ s.generation \in Generations /\ s.stamp \in StatusStamps
    BY DEF Statuses
  <2>2. s.epoch \in Nat /\ s.generation \in Nat /\ s.stamp \in Nat
    BY <2>1, InputAssumption
  <2> QED BY <2>2
<1>2. ASSUME NEW c \in Commands
      PROVE  /\ c.incarnation \in Nat /\ c.sequence \in Nat
             /\ c.epoch \in Nat /\ c.generation \in Nat /\ c.age \in Int
  <2>1. /\ c.incarnation \in Incarnations /\ c.sequence \in Sequences
        /\ c.epoch \in Epochs /\ c.generation \in Generations /\ c.age \in Ages
    BY DEF Commands
  <2> QED BY <2>1, InputAssumption
<1> QED BY <1>1, <1>2

LEMMA AdoptType ==
    ASSUME clock \in Nat, NEW a \in Arbiter, NEW s \in Statuses
    PROVE  AdoptIdentity(a, s) \in Arbiter
<1>1. s.epoch \in Nat /\ s.generation \in Nat /\ s.stamp \in Int
  BY MessageTypes
<1>2. Graced(a) \in Arbiter
  <2>1. clock + SupersedeGrace \in Int /\ a.planner_generation \in Nat
    BY ConfigAssumption DEF Arbiter
  <2> QED BY <2>1, Zenon DEF Arbiter, Graced
<1>3. AdoptIdentity(a, s) \in Arbiter
  <2> DEFINE b == IF Supersedes(a, s) THEN Graced(a) ELSE RejectExecutionCommand(a)
  <2>1. b \in Arbiter
    BY <1>2, RejectType
  <2> HIDE DEF b
  <2>2. [b EXCEPT !.planner_epoch = s.epoch, !.planner_generation = s.generation,
                  !.planner_generation_usable = FALSE,
                  !.planner_generation_retired = FALSE] \in Arbiter
    BY <1>1, <2>1, Zenon DEF Arbiter
  <2> QED BY <2>2 DEF AdoptIdentity, b
<1> QED BY <1>3

LEMMA StatusType ==
    ASSUME clock \in Nat, NEW a \in Arbiter, NEW s \in Statuses
    PROVE  PlannerStatusApplied(a, s) \in Arbiter
<1>1. s.stamp \in Int
  BY MessageTypes
<1>3. AdoptIdentity(a, s) \in Arbiter
  BY AdoptType
<1> DEFINE d == [AdoptIdentity(a, s) EXCEPT !.planner_status_stamp = s.stamp]
<1>4. d \in Arbiter
  BY <1>1, <1>3, Zenon DEF Arbiter
<1> HIDE DEF d
<1>5. ApplyVerdict(d, s) \in Arbiter
  <2>1. d.planner_generation \in Nat
    BY <1>4 DEF Arbiter
  <2>2. [d EXCEPT !.planner_generation_usable = TRUE,
                  !.ready_lease_generation = d.planner_generation] \in Arbiter
    BY <1>4, <2>1, Zenon DEF Arbiter
  <2>3. (d.planner_generation_retired \/ s.verdict = "MAP_UNREADY") \in BOOLEAN
    OBVIOUS
  <2>4. [d EXCEPT !.planner_generation_usable = FALSE,
                  !.planner_generation_retired =
                      d.planner_generation_retired \/ s.verdict = "MAP_UNREADY"]
            \in Arbiter
    BY <1>4, <2>3, Zenon DEF Arbiter
  <2> QED BY <1>4, <2>2, <2>4, RejectType DEF ApplyVerdict
<1> QED BY <1>5 DEF PlannerStatusApplied, d

LEMMA MapReadyType ==
    ASSUME clock \in Nat, NEW a \in Arbiter, NEW ready \in BOOLEAN
    PROVE  MapReadyApplied(a, ready) \in Arbiter
<1> DEFINE b == IF a.map_ready /\ ~MapReady(a) THEN LapseMapReady(a)
                ELSE IF ready THEN a ELSE RetirePlannerGeneration(a)
           g == IF ready THEN b.planner_generation ELSE b.ready_lease_generation
<1>1. b \in Arbiter
  BY LapseType, RetireType
<1> HIDE DEF b
<1>2. g \in Nat /\ clock \in Int
  BY <1>1 DEF Arbiter
<1> HIDE DEF g
<1>3. [b EXCEPT !.map_ready = ready, !.map_ready_stamp = clock,
                !.ready_lease_generation = g] \in Arbiter
  BY <1>1, <1>2, Zenon DEF Arbiter
<1> QED BY <1>3 DEF MapReadyApplied, b, g

LEMMA ConsumedType ==
    ASSUME NEW a \in Arbiter, NEW c \in Commands
    PROVE  Consumed(a, c) \in Arbiter
<1> DEFINE b == IF TakesOver(a, c) THEN InvalidateAuto(ClearExecutionLease(a)) ELSE a
<1>1. b \in Arbiter
  BY ClearType, InvalidateAutoType
<1>2. c.incarnation \in Nat /\ c.sequence \in Nat
  BY MessageTypes
<1> HIDE DEF b
<1>3. [b EXCEPT !.active_manager_incarnation = c.incarnation,
                !.last_command_sequence = c.sequence] \in Arbiter
  BY <1>1, <1>2, Zenon DEF Arbiter
<1> QED BY <1>3, ExpireTypes DEF Consumed, b

-----------------------------------------------------------------------------
(* Every step keeps the arbiter, the clock and the output in their types.  *)

StateType ==
    /\ arb \in Arbiter
    /\ clock \in Nat
    /\ published \in Reasons \cup {"NOTHING"}

LEMMA StateTypeInit == Init => StateType
<1> SUFFICES ASSUME Init PROVE StateType
  OBVIOUS
<1>1. InitialArbiter \in Arbiter
  <2>1. -1 \in Int /\ 0 \in Nat /\ 0 \in Int
    OBVIOUS
  <2> QED
    BY <2>1, NeverType, Zenon, ConfigAssumption DEF InitialArbiter, Arbiter, Sample
<1> QED BY <1>1 DEF Init, StateType

LEMMA CommandStateType ==
    ASSUME StateType, NEW c \in Commands, OnExecutionCommand(c)
    PROVE  StateType'
<1> DEFINE b == Consumed(arb, c)
<1>1. arb \in Arbiter /\ clock \in Nat /\ b \in Arbiter
  BY ConsumedType DEF StateType
<1>2. c.epoch \in Nat /\ c.generation \in Nat /\ clock - c.age \in Int
  BY <1>1, MessageTypes
<1>3. CASE RefuseCommand(c)
  BY <1>1, <1>3, RejectType, PublishType DEF RefuseCommand, StateType
<1>4. CASE HonourStop(c)
  <2> DEFINE d == InvalidateAuto(ClearExecutionLease(b))
  <2>1. d \in Arbiter
    BY <1>1, ClearType, InvalidateAutoType
  <2> HIDE DEF d
  <2>2. [d EXCEPT !.dual_map_execute_latched = FALSE] \in Arbiter
    BY <2>1, Zenon DEF Arbiter
  <2> QED BY <1>1, <1>4, <2>2 DEF HonourStop, Quietly, StateType, d
<1>5. CASE TolerateSuperseded(c)
  BY <1>1, <1>5 DEF TolerateSuperseded, Quietly, StateType, history
<1>6. CASE RejectUnmapped(c)
  BY <1>1, <1>6, RejectType, PublishType DEF RejectUnmapped, StateType
<1>7. CASE AuthorizeExecute(c)
  <2> HIDE DEF b
  <2>1. [b EXCEPT !.auto_authorized = TRUE,
                  !.execution_lease_stamp = clock - c.age,
                  !.dual_map_execute_latched = FALSE,
                  !.supersede_deadline = Never] \in Arbiter
    BY <1>1, <1>2, NeverType, Zenon DEF Arbiter
  <2> QED BY <1>1, <1>7, <2>1 DEF AuthorizeExecute, Quietly, StateType, b
<1>8. CASE LatchExecute(c)
  <2> HIDE DEF b
  <2>1. [b EXCEPT !.auto_authorized = FALSE,
                  !.dual_map_execute_latched = TRUE,
                  !.latched_execute_epoch = c.epoch,
                  !.latched_execute_generation = c.generation,
                  !.latched_execute_stamp = clock - c.age] \in Arbiter
    BY <1>1, <1>2, Zenon DEF Arbiter
  <2> QED BY <1>1, <1>8, <2>1 DEF LatchExecute, Quietly, StateType, b
<1> QED BY <1>3, <1>4, <1>5, <1>6, <1>7, <1>8 DEF OnExecutionCommand

LEMMA StateTypeNext == StateType /\ [Next]_vars => StateType'
<1> SUFFICES ASSUME StateType, [Next]_vars PROVE StateType'
  OBVIOUS
<1>1. arb \in Arbiter /\ clock \in Nat /\ clock \in Int
  BY DEF StateType
<1>2. CASE AdvanceClock
  BY <1>1, <1>2 DEF AdvanceClock, StateType
<1>3. CASE OnTimer
  BY <1>1, <1>3, PublishType DEF OnTimer, StateType
<1>4. CASE OnManual \/ OnAuto
  <2>1. [valid |-> TRUE, stamp |-> clock] \in Sample
    BY <1>1 DEF Sample
  <2>2. /\ [arb EXCEPT !.manual = [valid |-> TRUE, stamp |-> clock]] \in Arbiter
        /\ [arb EXCEPT !.auto = [valid |-> TRUE, stamp |-> clock]] \in Arbiter
    BY <1>1, <2>1, Zenon DEF Arbiter
  <2> QED BY <1>1, <1>4, <2>2 DEF OnManual, OnAuto, Quietly, StateType
<1>5. ASSUME NEW s \in Statuses, OnPlannerStatus(s) PROVE StateType'
  BY <1>1, <1>5, StatusType, PublishType DEF OnPlannerStatus, StateType
<1>6. ASSUME NEW ready \in BOOLEAN, OnMapReady(ready) PROVE StateType'
  BY <1>1, <1>6, MapReadyType, PublishType DEF OnMapReady, StateType
<1>7. ASSUME NEW active \in BOOLEAN, OnEmergencyStop(active) PROVE StateType'
  <2> DEFINE b == [arb EXCEPT !.emergency_stop = active]
  <2>1. b \in Arbiter
    BY <1>1, Zenon DEF Arbiter
  <2> HIDE DEF b
  <2>2. [b EXCEPT !.dual_map_execute_latched = FALSE] \in Arbiter
    BY <2>1, Zenon DEF Arbiter
  <2>3. InvalidateSources(ClearExecutionLease(
            [b EXCEPT !.dual_map_execute_latched = FALSE])) \in Arbiter
    BY <2>2, ClearType, InvalidateSourcesType
  <2> QED
    BY <1>1, <1>7, <2>1, <2>3, LatchType DEF OnEmergencyStop, Quietly, StateType, b
<1>8. ASSUME NEW up \in BOOLEAN, OnLinkHealth(up) PROVE StateType'
  <2>1. [arb EXCEPT !.has_link_heartbeat = TRUE, !.last_link_stamp = clock] \in Arbiter
    BY <1>1, Zenon DEF Arbiter
  <2> QED
    BY <1>1, <1>8, <2>1, LinkUpType, LinkDownType DEF OnLinkHealth, Quietly, StateType
<1>9. ASSUME NEW c \in Commands, OnExecutionCommand(c) PROVE StateType'
  BY <1>9, CommandStateType
<1>10. CASE UNCHANGED vars
  BY <1>10 DEF vars, StateType
<1> QED
  BY <1>2, <1>3, <1>4, <1>5, <1>6, <1>7, <1>8, <1>9, <1>10 DEF Next

-----------------------------------------------------------------------------
(* What the helpers leave alone, and what they do to the flags that        *)
(* AuthoritySound speaks of.                                               *)

Frame(a, b) ==
    /\ b.execution_lease_stamp = a.execution_lease_stamp
    /\ b.latched_execute_epoch = a.latched_execute_epoch
    /\ b.latched_execute_generation = a.latched_execute_generation
    /\ b.latched_execute_stamp = a.latched_execute_stamp
    /\ b.planner_epoch = a.planner_epoch
    /\ b.planner_generation = a.planner_generation
    /\ b.ready_lease_generation = a.ready_lease_generation
    /\ b.map_ready_stamp = a.map_ready_stamp
    /\ b.active_manager_incarnation = a.active_manager_incarnation
    /\ b.last_command_sequence = a.last_command_sequence

PlannerFlags(a, b) ==
    /\ b.planner_generation_usable = a.planner_generation_usable
    /\ b.planner_generation_retired = a.planner_generation_retired
    /\ b.map_ready = a.map_ready

LEMMA RejectEffect ==
    ASSUME NEW a \in Arbiter
    PROVE  /\ Frame(a, ClearExecutionLease(a))
           /\ PlannerFlags(a, ClearExecutionLease(a))
           /\ ~ClearExecutionLease(a).auto_authorized
           /\ ClearExecutionLease(a).dual_map_execute_latched
                = a.dual_map_execute_latched
           /\ Frame(a, RejectExecutionCommand(a))
           /\ PlannerFlags(a, RejectExecutionCommand(a))
           /\ ~RejectExecutionCommand(a).auto_authorized
           /\ RejectExecutionCommand(a).dual_map_execute_latched
                = a.dual_map_execute_latched
BY DEF Arbiter, Frame, PlannerFlags, RejectExecutionCommand,
       ClearExecutionLease, InvalidateAuto

LEMMA RetireEffect ==
    ASSUME NEW a \in Arbiter
    PROVE  LET b == RetirePlannerGeneration(a)
           IN  /\ Frame(a, b)
               /\ ~b.auto_authorized /\ ~b.planner_generation_usable
               /\ b.planner_generation_retired
               /\ b.map_ready = a.map_ready
               /\ b.dual_map_execute_latched = a.dual_map_execute_latched
BY DEF Arbiter, Frame, RetirePlannerGeneration, RejectExecutionCommand,
       ClearExecutionLease, InvalidateAuto

LEMMA LapseEffect ==
    ASSUME NEW a \in Arbiter
    PROVE  LET b == LapseMapReady(a)
           IN  /\ Frame(a, b)
               /\ ~b.auto_authorized /\ ~b.planner_generation_usable /\ ~b.map_ready
               /\ b.dual_map_execute_latched = a.dual_map_execute_latched
               /\ \/ a.planner_generation_retired
                  \/ a.planner_generation = a.ready_lease_generation
                  => b.planner_generation_retired
BY DEF Arbiter, Frame, LapseMapReady, RetirePlannerGeneration,
       RejectExecutionCommand, ClearExecutionLease, InvalidateAuto

(* Giving up an authority or a latch is sound.                             *)
LEMMA WeakerSound ==
    ASSUME NEW a \in Arbiter, NEW b \in Arbiter, NEW g, NEW st,
           AuthoritySound(a, g, st), Frame(a, b), PlannerFlags(a, b),
           b.auto_authorized => a.auto_authorized,
           b.dual_map_execute_latched => a.dual_map_execute_latched
    PROVE  AuthoritySound(b, g, st)
BY DEF AuthoritySound, Backed, Frame, PlannerFlags, PlannerIdentity

(* So is losing the map, whatever becomes of the grant.                    *)
LEMMA LapseSound ==
    ASSUME NEW a \in Arbiter, NEW b \in Arbiter, NEW g, NEW h, NEW st,
           AuthoritySound(a, g, st), Frame(a, b), Identity(h) = Identity(g),
           ~b.auto_authorized, ~b.planner_generation_usable,
           b.dual_map_execute_latched => a.dual_map_execute_latched,
           \/ a.planner_generation_retired
           \/ a.planner_generation = a.ready_lease_generation
           => b.planner_generation_retired
    PROVE  AuthoritySound(b, h, st)
BY DEF AuthoritySound, Backed, Frame, PlannerIdentity

LEMMA ExpireSound ==
    ASSUME NEW a \in Arbiter, NEW g, NEW st, AuthoritySound(a, g, st)
    PROVE  /\ AuthoritySound(ExpireMapReady(a), g, st)
           /\ AuthoritySound(ExpireSupersedeGrace(a), g, st)
           /\ AuthoritySound(ExpireExecutionLease(a), g, st)
           /\ AuthoritySound(RejectExecutionCommand(a), g, st)
<1>1. AuthoritySound(LapseMapReady(a), g, st)
  <2> DEFINE b == LapseMapReady(a)
  <2>1. /\ b \in Arbiter /\ Frame(a, b)
        /\ ~b.auto_authorized /\ ~b.planner_generation_usable
        /\ b.dual_map_execute_latched = a.dual_map_execute_latched
        /\ \/ a.planner_generation_retired
           \/ a.planner_generation = a.ready_lease_generation
           => b.planner_generation_retired
    BY LapseEffect, LapseType
  <2> HIDE DEF b
  <2>2. AuthoritySound(b, g, st)
    BY <2>1, LapseSound
  <2> QED BY <2>2 DEF b
<1>2. /\ AuthoritySound(RejectExecutionCommand(a), g, st)
      /\ AuthoritySound(ClearExecutionLease(a), g, st)
  BY RejectEffect, RejectType, ClearType, WeakerSound
<1> QED
  BY <1>1, <1>2 DEF ExpireMapReady, ExpireSupersedeGrace, ExpireExecutionLease

(* b was reached from a by expiring and revoking only.                     *)
Tamed(a, b) ==
    /\ b.auto_authorized => a.auto_authorized
    /\ b.execution_lease_stamp = a.execution_lease_stamp
    /\ b.latched_execute_stamp = a.latched_execute_stamp
    /\ b.map_ready => a.map_ready
    /\ b.map_ready_stamp = a.map_ready_stamp
    /\ b.active_manager_incarnation = a.active_manager_incarnation
    /\ b.last_command_sequence = a.last_command_sequence

LEMMA ExpireTamed ==
    ASSUME NEW a \in Arbiter
    PROVE  /\ Tamed(a, ExpireMapReady(a))
           /\ Tamed(a, ExpireSupersedeGrace(a))
           /\ Tamed(a, ExpireExecutionLease(a))
           /\ Tamed(a, RejectExecutionCommand(a))
<1>1. /\ Tamed(a, LapseMapReady(a)) /\ Tamed(a, RejectExecutionCommand(a))
      /\ Tamed(a, ClearExecutionLease(a)) /\ Tamed(a, a)
  BY LapseEffect, RejectEffect DEF Tamed, Frame, PlannerFlags
<1> QED BY <1>1 DEF ExpireMapReady, ExpireSupersedeGrace, ExpireExecutionLease

WithinLease(a) == clock - a.execution_lease_stamp \in 0..ExecutionCommandTimeout

LEMMA SettledSound ==
    ASSUME NEW a \in Arbiter, NEW g, NEW st, AuthoritySound(a, g, st)
    PROVE  /\ AuthoritySound(Settled(a), g, st)
           /\ Tamed(a, Settled(a))
           /\ Settled(a).auto_authorized => WithinLease(Settled(a))
<1> DEFINE p == ExpireExecutionLease(a)
           q == ExpireMapReady(p)
           r == ExpireSupersedeGrace(q)
<1>1. p \in Arbiter /\ AuthoritySound(p, g, st) /\ Tamed(a, p)
  BY ExpireTypes, ExpireSound, ExpireTamed
<1>2. p.auto_authorized => WithinLease(p)
  BY RejectEffect DEF ExpireExecutionLease, WithinLease
<1> HIDE DEF p
<1>3. q \in Arbiter /\ AuthoritySound(q, g, st) /\ Tamed(p, q)
  BY <1>1, ExpireTypes, ExpireSound, ExpireTamed
<1> HIDE DEF q
<1>4. r \in Arbiter /\ AuthoritySound(r, g, st) /\ Tamed(q, r)
  BY <1>3, ExpireTypes, ExpireSound, ExpireTamed
<1> HIDE DEF r
<1>5. /\ AuthoritySound(RejectExecutionCommand(r), g, st)
      /\ Tamed(r, RejectExecutionCommand(r))
  BY <1>4, ExpireSound, ExpireTamed
<1>6. Settled(a) \in {r, RejectExecutionCommand(r)}
  BY DEF Settled, p, q, r
<1> QED BY <1>1, <1>2, <1>3, <1>4, <1>5, <1>6 DEF Tamed, WithinLease

LEMMA LatchSound ==
    ASSUME NEW a \in Arbiter, NEW g, NEW st, AuthoritySound(a, g, st)
    PROVE  LET b == MaybeAuthorizeLatchedExecute(a)
           IN  /\ AuthoritySound(b, g, st)
               /\ b.latched_execute_stamp = a.latched_execute_stamp
               /\ b.execution_lease_stamp
                    \in {a.execution_lease_stamp, a.latched_execute_stamp}
               /\ b.map_ready => a.map_ready
               /\ b.map_ready_stamp = a.map_ready_stamp
               /\ b.active_manager_incarnation = a.active_manager_incarnation
               /\ b.last_command_sequence = a.last_command_sequence
<1> DEFINE b == ExpireMapReady(a)
           unlatched == [b EXCEPT !.dual_map_execute_latched = FALSE]
           granted == [unlatched EXCEPT
                          !.auto_authorized = TRUE,
                          !.execution_lease_stamp = b.latched_execute_stamp]
<1>1. b \in Arbiter /\ AuthoritySound(b, g, st) /\ Tamed(a, b)
  BY ExpireTypes, ExpireSound, ExpireTamed
<1>0. b.dual_map_execute_latched = a.dual_map_execute_latched
  BY LapseEffect DEF ExpireMapReady
<1> HIDE DEF b
<1>2. /\ unlatched \in Arbiter /\ Frame(b, unlatched) /\ PlannerFlags(b, unlatched)
      /\ unlatched.auto_authorized = b.auto_authorized
      /\ ~unlatched.dual_map_execute_latched
  <2>1. unlatched \in Arbiter
    BY <1>1, Zenon DEF Arbiter
  <2> QED BY <1>1, <2>1 DEF Arbiter, Frame, PlannerFlags
<1>3. AuthoritySound(unlatched, g, st)
  <2> HIDE DEF unlatched
  <2> QED BY <1>1, <1>2, WeakerSound
<1>4. /\ granted.auto_authorized
      /\ granted.execution_lease_stamp = b.latched_execute_stamp
      /\ granted.latched_execute_stamp = b.latched_execute_stamp
      /\ ~granted.dual_map_execute_latched
      /\ PlannerFlags(b, granted)
      /\ granted.planner_epoch = b.planner_epoch
      /\ granted.planner_generation = b.planner_generation
      /\ granted.ready_lease_generation = b.ready_lease_generation
      /\ granted.map_ready_stamp = b.map_ready_stamp
      /\ granted.active_manager_incarnation = b.active_manager_incarnation
      /\ granted.last_command_sequence = b.last_command_sequence
  BY <1>1 DEF Arbiter, PlannerFlags
<1>5. ASSUME a.dual_map_execute_latched,
             NamesUsableGeneration(b, b.latched_execute_epoch,
                                   b.latched_execute_generation)
      PROVE  AuthoritySound(granted, g, st)
  <2> HIDE DEF granted
  <2> QED
    BY <1>0, <1>1, <1>4, <1>5
       DEF AuthoritySound, Backed, PlannerFlags, PlannerIdentity, Identity,
           NamesUsableGeneration
<1>6. \/ MaybeAuthorizeLatchedExecute(a) = a
      \/ MaybeAuthorizeLatchedExecute(a) = unlatched
      \/ /\ MaybeAuthorizeLatchedExecute(a) = granted
         /\ a.dual_map_execute_latched
         /\ NamesUsableGeneration(b, b.latched_execute_epoch,
                                  b.latched_execute_generation)
  BY DEF MaybeAuthorizeLatchedExecute, b
<1> HIDE DEF unlatched, granted
<1> QED BY <1>1, <1>2, <1>3, <1>4, <1>5, <1>6 DEF Tamed, Frame, PlannerFlags

LEMMA LinkDownSound ==
    ASSUME NEW a \in Arbiter, NEW g, NEW st, AuthoritySound(a, g, st)
    PROVE  /\ \A h : Identity(h) = Identity(g) =>
                        AuthoritySound(SerialLinkDown(a), h, st)
           /\ Tamed(a, SerialLinkDown(a))
<1> DEFINE b == SerialLinkDown(a)
<1>1. /\ b \in Arbiter /\ Frame(a, b) /\ PlannerFlags(a, b)
      /\ ~b.auto_authorized /\ ~b.dual_map_execute_latched
  <2> DEFINE c == ClearExecutionLease(a)
             d == InvalidateAuto(c)
             e == InvalidateSources(c)
  <2>1. c \in Arbiter /\ Frame(a, c) /\ PlannerFlags(a, c) /\ ~c.auto_authorized
    BY ClearType, RejectEffect
  <2> HIDE DEF c
  <2>2. d \in Arbiter /\ Frame(c, d) /\ PlannerFlags(c, d) /\ ~d.auto_authorized
    BY <2>1, InvalidateAutoType DEF Arbiter, Frame, PlannerFlags, InvalidateAuto
  <2>3. e = [d EXCEPT !.manual.valid = FALSE]
    BY DEF InvalidateSources
  <2> HIDE DEF d
  <2>4. e \in Arbiter /\ Frame(d, e) /\ PlannerFlags(d, e) /\ ~e.auto_authorized
    <3>1. e \in Arbiter
      BY <2>1, InvalidateSourcesType
    <3> QED BY <2>2, <2>3, <3>1 DEF Arbiter, Frame, PlannerFlags
  <2> HIDE DEF e
  <2>5. b = [e EXCEPT !.link_up = FALSE, !.dual_map_execute_latched = FALSE]
    BY DEF SerialLinkDown, e, c
  <2>6. b \in Arbiter
    BY LinkDownType
  <2> HIDE DEF b
  <2>7. Frame(e, b) /\ PlannerFlags(e, b) /\ ~b.auto_authorized
        /\ ~b.dual_map_execute_latched
    BY <2>4, <2>5, <2>6 DEF Arbiter, Frame, PlannerFlags
  <2> QED BY <2>1, <2>2, <2>4, <2>6, <2>7 DEF Frame, PlannerFlags
<1> HIDE DEF b
<1>2. ASSUME NEW h PROVE AuthoritySound(b, h, st)
  BY <1>1 DEF AuthoritySound, Frame, PlannerFlags
<1>3. Tamed(a, b)
  BY <1>1 DEF Tamed, Frame, PlannerFlags
<1> QED BY <1>2, <1>3 DEF b

LEMMA PublishSound ==
    ASSUME NEW a \in Arbiter, NEW g, NEW st,
           AuthoritySound(a, g, st), PublishSelection(a)
    PROVE  /\ AuthoritySound(arb', g, st)
           /\ Tamed(a, arb')
           /\ published' = "AUTO_AUTHORIZED" =>
                arb'.auto_authorized /\ WithinLease(arb')
<1>1. CASE arb' = [a EXCEPT !.link_up = FALSE] /\ published' = "LINK_DOWN"
  <2>1. /\ arb' \in Arbiter /\ Frame(a, arb') /\ PlannerFlags(a, arb')
        /\ arb'.auto_authorized = a.auto_authorized
        /\ arb'.dual_map_execute_latched = a.dual_map_execute_latched
    BY <1>1, PublishType DEF Arbiter, Frame, PlannerFlags
  <2> QED BY <1>1, <2>1, WeakerSound DEF Tamed, Frame, PlannerFlags
<1>2. CASE /\ arb' = [SerialLinkDown(a) EXCEPT !.has_link_heartbeat = FALSE]
           /\ published' = "LINK_DOWN"
  <2> DEFINE b == SerialLinkDown(a)
  <2>1. b \in Arbiter /\ AuthoritySound(b, g, st) /\ Tamed(a, b)
    BY LinkDownType, LinkDownSound
  <2> HIDE DEF b
  <2>2. /\ arb' \in Arbiter /\ Frame(b, arb') /\ PlannerFlags(b, arb')
        /\ arb'.auto_authorized = b.auto_authorized
        /\ arb'.dual_map_execute_latched = b.dual_map_execute_latched
    <3>1. arb' = [b EXCEPT !.has_link_heartbeat = FALSE]
      BY <1>2 DEF b
    <3> QED BY <2>1, <3>1, PublishType DEF Arbiter, Frame, PlannerFlags
  <2> QED BY <1>2, <2>1, <2>2, WeakerSound DEF Tamed, Frame, PlannerFlags
<1>3. CASE arb' = a /\ published' \in {"LINK_DOWN", "EMERGENCY_STOP"}
  BY <1>3 DEF Tamed
<1>4. CASE /\ arb' = DropStaleSamples(Settled(a))
           /\ published' = Selection(Settled(a))
  <2> DEFINE b == Settled(a)
  <2>1. /\ b \in Arbiter /\ AuthoritySound(b, g, st) /\ Tamed(a, b)
        /\ b.auto_authorized => WithinLease(b)
    BY SettledType, SettledSound
  <2>2. published' = "AUTO_AUTHORIZED" => b.auto_authorized
    BY <1>4 DEF Selection
  <2> HIDE DEF b
  <2>3. /\ arb' \in Arbiter /\ Frame(b, arb') /\ PlannerFlags(b, arb')
        /\ arb'.auto_authorized = b.auto_authorized
        /\ arb'.dual_map_execute_latched = b.dual_map_execute_latched
    <3>1. arb' = DropStaleSamples(b)
      BY <1>4 DEF b
    <3> QED
      BY <2>1, <3>1, DropStaleType DEF Arbiter, Frame, PlannerFlags, DropStaleSamples
  <2>4. AuthoritySound(arb', g, st) /\ Tamed(b, arb')
    BY <2>1, <2>3, WeakerSound DEF Tamed, Frame, PlannerFlags
  <2>5. arb'.execution_lease_stamp = b.execution_lease_stamp
    BY <2>3 DEF Frame
  <2> QED BY <2>1, <2>2, <2>3, <2>4, <2>5 DEF Tamed, WithinLease
<1> QED BY <1>1, <1>2, <1>3, <1>4 DEF PublishSelection

-----------------------------------------------------------------------------
(* The planner's statuses.                                                 *)

(* What adopting an identity and applying a verdict never touch.           *)
StatusFrame(a, b) ==
    /\ b.execution_lease_stamp = a.execution_lease_stamp
    /\ b.latched_execute_epoch = a.latched_execute_epoch
    /\ b.latched_execute_generation = a.latched_execute_generation
    /\ b.latched_execute_stamp = a.latched_execute_stamp
    /\ b.dual_map_execute_latched = a.dual_map_execute_latched
    /\ b.map_ready = a.map_ready
    /\ b.map_ready_stamp = a.map_ready_stamp
    /\ b.active_manager_incarnation = a.active_manager_incarnation
    /\ b.last_command_sequence = a.last_command_sequence

LEMMA AdoptEffect ==
    ASSUME clock \in Nat, NEW a \in Arbiter, NEW s \in Statuses
    PROVE  LET b == AdoptIdentity(a, s)
           IN  /\ StatusFrame(a, b)
               /\ b.ready_lease_generation = a.ready_lease_generation
               /\ b.planner_epoch = s.epoch /\ b.planner_generation = s.generation
               /\ b.auto_authorized =>
                    a.auto_authorized /\ (~SameIdentity(a, s) => Supersedes(a, s))
               /\ SameIdentity(a, s) => b = a
               /\ ~SameIdentity(a, s) =>
                    ~b.planner_generation_usable /\ ~b.planner_generation_retired
<1> DEFINE c == IF Supersedes(a, s) THEN Graced(a) ELSE RejectExecutionCommand(a)
<1>1. CASE SameIdentity(a, s)
  BY <1>1 DEF AdoptIdentity, SameIdentity, StatusFrame
<1>2. CASE ~SameIdentity(a, s)
  <2>1. /\ c \in Arbiter /\ StatusFrame(a, c)
        /\ c.ready_lease_generation = a.ready_lease_generation
        /\ c.auto_authorized => a.auto_authorized /\ Supersedes(a, s)
    <3>1. CASE Supersedes(a, s)
      <4>1. clock + SupersedeGrace \in Int /\ a.planner_generation \in Nat
        BY ConfigAssumption DEF Arbiter
      <4>2. Graced(a) \in Arbiter
        BY <4>1, Zenon DEF Arbiter, Graced
      <4> QED BY <3>1, <4>2 DEF Graced, StatusFrame, Supersedes, Arbiter
    <3>2. CASE ~Supersedes(a, s)
      BY <3>2, RejectType, RejectEffect DEF StatusFrame, Frame, PlannerFlags
    <3> QED BY <3>1, <3>2
  <2> HIDE DEF c
  <2>2. AdoptIdentity(a, s) =
            [c EXCEPT !.planner_epoch = s.epoch, !.planner_generation = s.generation,
                      !.planner_generation_usable = FALSE,
                      !.planner_generation_retired = FALSE]
    BY <1>2 DEF AdoptIdentity, c
  <2> QED BY <1>2, <2>1, <2>2 DEF Arbiter, StatusFrame
<1> QED BY <1>1, <1>2

LEMMA WithdrawnEffect ==
    ASSUME NEW g \in Grant
    PROVE  /\ Withdrawn(g) \in Grant
           /\ Identity(Withdrawn(g)) = Identity(g)
           /\ Order(Withdrawn(g)) = Order(g)
<1>1. Withdrawn(g) \in Grant
  <2>1. 0 \in Int
    OBVIOUS
  <2> QED BY <2>1, Zenon DEF Grant, Withdrawn
<1> QED BY <1>1 DEF Grant, Withdrawn, Identity, Order

LEMMA StatusSound ==
    ASSUME clock \in Nat, arb \in Arbiter, NEW s \in Statuses,
           AuthoritySound(arb, grant, stop), grant \in Grant
    PROVE  /\ AuthoritySound(PlannerStatusApplied(arb, s), GrantAfterStatus(s), stop)
           /\ Tamed(arb, PlannerStatusApplied(arb, s))
<1> DEFINE b == AdoptIdentity(arb, s)
           c == [b EXCEPT !.planner_status_stamp = s.stamp]
           d == ApplyVerdict(c, s)
<1>1. CASE StatusIgnored(arb, s)
  BY <1>1 DEF PlannerStatusApplied, GrantAfterStatus, Tamed
<1>2. CASE ~StatusIgnored(arb, s)
  <2>1. /\ s.epoch \in Nat /\ s.generation \in Nat /\ s.stamp \in Int
        /\ arb.planner_epoch \in Nat /\ arb.planner_generation \in Nat
        /\ \/ s.epoch > arb.planner_epoch
           \/ s.epoch = arb.planner_epoch /\ s.generation >= arb.planner_generation
    <3>1. /\ s.epoch \in Nat /\ s.generation \in Nat /\ s.stamp \in Int
          /\ arb.planner_epoch \in Nat /\ arb.planner_generation \in Nat
      BY MessageTypes DEF Arbiter
    <3> QED BY <1>2, <3>1 DEF StatusIgnored
  <2>2. /\ b \in Arbiter
        /\ StatusFrame(arb, b)
        /\ b.ready_lease_generation = arb.ready_lease_generation
        /\ b.planner_epoch = s.epoch /\ b.planner_generation = s.generation
        /\ b.auto_authorized =>
             arb.auto_authorized /\ (~SameIdentity(arb, s) => Supersedes(arb, s))
        /\ SameIdentity(arb, s) =>
             /\ b.planner_generation_usable = arb.planner_generation_usable
             /\ b.planner_generation_retired = arb.planner_generation_retired
        /\ ~SameIdentity(arb, s) =>
             ~b.planner_generation_usable /\ ~b.planner_generation_retired
    BY AdoptEffect, AdoptType
  <2> HIDE DEF b
  <2>3. /\ c \in Arbiter /\ Frame(b, c) /\ PlannerFlags(b, c)
        /\ c.auto_authorized = b.auto_authorized
        /\ c.dual_map_execute_latched = b.dual_map_execute_latched
    <3>1. c \in Arbiter
      BY <2>1, <2>2, Zenon DEF Arbiter
    <3> QED BY <2>2, <3>1 DEF Arbiter, Frame, PlannerFlags
  <2>4. PlannerStatusApplied(arb, s) = d
    BY <1>2 DEF PlannerStatusApplied, b
  <2> HIDE DEF c
  <2>5. /\ arb.latched_execute_epoch \in Nat /\ arb.latched_execute_generation \in Nat
        /\ grant.epoch \in Nat /\ grant.generation \in Nat
    BY DEF Arbiter, Grant
  <2>6. CASE s.verdict = "READY"
    <3>1. /\ StatusFrame(c, d)
          /\ d.planner_epoch = c.planner_epoch
          /\ d.planner_generation = c.planner_generation
          /\ d.planner_generation_retired = c.planner_generation_retired
          /\ d.auto_authorized = c.auto_authorized
          /\ c.planner_generation_retired =>
               /\ d.planner_generation_usable = c.planner_generation_usable
               /\ d.ready_lease_generation = c.ready_lease_generation
          /\ ~c.planner_generation_retired =>
               d.ready_lease_generation = c.planner_generation
      BY <2>3, <2>6 DEF ApplyVerdict, StatusFrame, Arbiter
    <3> DEFINE g == Superseded(grant, s)
    <3>2. /\ GrantAfterStatus(s) = g
          /\ Identity(g) = Identity(grant) /\ Order(g) = Order(grant)
          /\ g.epoch = grant.epoch /\ g.issued = grant.issued
          /\ grant.live /\ (s.epoch = grant.epoch
                            \/ <<s.epoch, s.generation>> = Identity(grant)) => g.live
      BY <1>2, <2>6 DEF GrantAfterStatus, Superseded, Grant, Identity, Order
    <3> HIDE DEF d, g
    <3>3. d.auto_authorized =>
            /\ Backed(d, g, stop, d.execution_lease_stamp)
            /\ g.epoch = d.planner_epoch
            /\ ~d.dual_map_execute_latched
      <4> SUFFICES ASSUME d.auto_authorized
                   PROVE  /\ Backed(d, g, stop, d.execution_lease_stamp)
                          /\ g.epoch = d.planner_epoch
                          /\ ~d.dual_map_execute_latched
        OBVIOUS
      <4>1. arb.auto_authorized /\ s.epoch = arb.planner_epoch
        BY <2>2, <2>3, <3>1 DEF SameIdentity, Supersedes
      <4>2. /\ Backed(arb, grant, stop, arb.execution_lease_stamp)
            /\ grant.epoch = arb.planner_epoch /\ ~arb.dual_map_execute_latched
        BY <4>1 DEF AuthoritySound
      <4> QED
        BY <2>2, <2>3, <3>1, <3>2, <4>1, <4>2
           DEF Backed, StatusFrame, Frame, PlannerFlags
    <3>4. d.dual_map_execute_latched =>
            /\ Identity(g) = <<d.latched_execute_epoch, d.latched_execute_generation>>
            /\ ~Outranks(Identity(g), PlannerIdentity(d))
            /\ Identity(g) = PlannerIdentity(d) /\ ~d.planner_generation_retired =>
                /\ Backed(d, g, stop, d.latched_execute_stamp)
                /\ d.ready_lease_generation = d.planner_generation
      <4> SUFFICES ASSUME d.dual_map_execute_latched
                   PROVE
            /\ Identity(g) = <<d.latched_execute_epoch, d.latched_execute_generation>>
            /\ ~Outranks(Identity(g), PlannerIdentity(d))
            /\ Identity(g) = PlannerIdentity(d) /\ ~d.planner_generation_retired =>
                /\ Backed(d, g, stop, d.latched_execute_stamp)
                /\ d.ready_lease_generation = d.planner_generation
        OBVIOUS
      <4>1. /\ arb.dual_map_execute_latched
            /\ d.latched_execute_epoch = arb.latched_execute_epoch
            /\ d.latched_execute_generation = arb.latched_execute_generation
            /\ d.latched_execute_stamp = arb.latched_execute_stamp
            /\ d.map_ready = arb.map_ready
            /\ d.planner_epoch = s.epoch /\ d.planner_generation = s.generation
        BY <2>2, <2>3, <3>1 DEF StatusFrame, Frame, PlannerFlags
      <4>2. /\ Identity(grant) = <<arb.latched_execute_epoch,
                                   arb.latched_execute_generation>>
            /\ ~Outranks(Identity(grant), PlannerIdentity(arb))
        BY <4>1 DEF AuthoritySound
      <4>3. /\ grant.epoch = arb.latched_execute_epoch
            /\ grant.generation = arb.latched_execute_generation
        BY <4>2 DEF Identity
      <4>4. ~Outranks(Identity(g), PlannerIdentity(d))
        BY <2>1, <2>5, <3>2, <4>1, <4>2 DEF Outranks, Identity, PlannerIdentity
      <4>5. ASSUME Identity(g) = PlannerIdentity(d), ~d.planner_generation_retired
            PROVE  /\ Backed(d, g, stop, d.latched_execute_stamp)
                   /\ d.ready_lease_generation = d.planner_generation
        <5>1. grant.epoch = s.epoch /\ grant.generation = s.generation
          BY <3>2, <4>1, <4>5 DEF Identity, PlannerIdentity
        <5>2. SameIdentity(arb, s)
          BY <2>1, <2>5, <4>2, <5>1 DEF SameIdentity, Outranks, Identity, PlannerIdentity
        <5>3. ~arb.planner_generation_retired
          BY <2>2, <2>3, <3>1, <4>5, <5>2 DEF PlannerFlags
        <5>4. Backed(arb, grant, stop, arb.latched_execute_stamp)
          BY <4>1, <5>1, <5>2, <5>3
             DEF AuthoritySound, SameIdentity, Identity, PlannerIdentity
        <5>5. d.ready_lease_generation = d.planner_generation
          BY <2>3, <3>1, <4>5
        <5> QED BY <3>2, <4>1, <5>1, <5>4, <5>5 DEF Backed
      <4> QED BY <3>2, <4>1, <4>2, <4>4, <4>5
    <3>5. d.planner_generation_usable =>
            /\ ~d.planner_generation_retired
            /\ d.ready_lease_generation = d.planner_generation
      BY <2>2, <2>3, <3>1 DEF PlannerFlags, Frame, AuthoritySound, SameIdentity
    <3>6. AuthoritySound(d, g, stop)
      BY <3>3, <3>4, <3>5 DEF AuthoritySound
    <3>7. Tamed(arb, d)
      BY <2>2, <2>3, <3>1 DEF Tamed, StatusFrame, Frame, PlannerFlags
    <3> QED BY <2>4, <3>2, <3>6, <3>7
  <2>7. CASE s.verdict # "READY"
    <3> DEFINE e == [c EXCEPT !.planner_generation_usable = FALSE,
                              !.planner_generation_retired =
                                  @ \/ s.verdict = "MAP_UNREADY"]
    <3>1. e \in Arbiter
      <4>1. (c.planner_generation_retired \/ s.verdict = "MAP_UNREADY") \in BOOLEAN
        OBVIOUS
      <4> QED BY <2>3, <4>1, Zenon DEF Arbiter
    <3>2. /\ Frame(c, e) /\ ~e.planner_generation_usable /\ e.map_ready = c.map_ready
          /\ e.dual_map_execute_latched = c.dual_map_execute_latched
          /\ e.planner_generation_retired
               = (c.planner_generation_retired \/ s.verdict = "MAP_UNREADY")
      BY <2>3, <3>1 DEF Arbiter, Frame
    <3>3. d = RejectExecutionCommand(e)
      BY <2>7 DEF ApplyVerdict
    <3> HIDE DEF e
    <3>4. /\ Frame(e, d) /\ PlannerFlags(e, d) /\ ~d.auto_authorized
          /\ d.dual_map_execute_latched = e.dual_map_execute_latched
      BY <3>1, <3>3, RejectEffect
    <3> DEFINE g == GrantAfterStatus(s)
    <3>5. /\ Identity(g) = Identity(grant)
          /\ arb.dual_map_execute_latched /\ s.verdict # "MAP_UNREADY" => g = grant
      <4>1. Identity(Withdrawn(grant)) = Identity(grant)
        BY WithdrawnEffect
      <4>2. s.verdict \in {"FAILED", "MAP_UNREADY"}
        <5>1. s.verdict \in Verdicts
          BY DEF Statuses
        <5> QED BY <1>2, <2>7, <5>1, InputAssumption DEF StatusIgnored
      <4>3. CASE s.verdict = "MAP_UNREADY"
        BY <1>2, <4>1, <4>3 DEF GrantAfterStatus
      <4>4. CASE s.verdict = "FAILED"
        BY <1>2, <4>1, <4>4 DEF GrantAfterStatus, WithdrawnUnlessLatched
      <4> QED BY <4>2, <4>3, <4>4
    <3> HIDE DEF d, g
    <3>6. AuthoritySound(d, g, stop)
      <4>1. /\ d.latched_execute_epoch = arb.latched_execute_epoch
            /\ d.latched_execute_generation = arb.latched_execute_generation
            /\ d.latched_execute_stamp = arb.latched_execute_stamp
            /\ d.dual_map_execute_latched = arb.dual_map_execute_latched
            /\ d.map_ready = arb.map_ready
            /\ d.planner_epoch = s.epoch /\ d.planner_generation = s.generation
            /\ d.ready_lease_generation = arb.ready_lease_generation
            /\ ~d.auto_authorized /\ ~d.planner_generation_usable
        BY <2>2, <2>3, <3>2, <3>4 DEF StatusFrame, Frame, PlannerFlags
      <4>2. ASSUME d.dual_map_execute_latched
            PROVE  /\ Identity(g) = <<d.latched_execute_epoch,
                                      d.latched_execute_generation>>
                   /\ ~Outranks(Identity(g), PlannerIdentity(d))
        <5>1. /\ Identity(grant) = <<arb.latched_execute_epoch,
                                     arb.latched_execute_generation>>
              /\ ~Outranks(Identity(grant), PlannerIdentity(arb))
          BY <4>1, <4>2 DEF AuthoritySound
        <5> QED
          BY <2>1, <2>5, <3>5, <4>1, <5>1 DEF Outranks, Identity, PlannerIdentity
      <4>3. ASSUME d.dual_map_execute_latched, Identity(g) = PlannerIdentity(d),
                   ~d.planner_generation_retired
            PROVE  /\ Backed(d, g, stop, d.latched_execute_stamp)
                   /\ d.ready_lease_generation = d.planner_generation
        <5>1. grant.epoch = s.epoch /\ grant.generation = s.generation
          BY <3>5, <4>1, <4>3 DEF Identity, PlannerIdentity
        <5>2. ~Outranks(Identity(grant), PlannerIdentity(arb))
          BY <4>1, <4>3 DEF AuthoritySound
        <5>3. SameIdentity(arb, s)
          BY <2>1, <2>5, <5>1, <5>2 DEF SameIdentity, Outranks, Identity, PlannerIdentity
        <5>4. ~arb.planner_generation_retired /\ g = grant
          BY <2>2, <2>3, <3>2, <3>4, <3>5, <4>1, <4>3, <5>3 DEF PlannerFlags
        <5>5. /\ Backed(arb, grant, stop, arb.latched_execute_stamp)
              /\ arb.ready_lease_generation = arb.planner_generation
          BY <4>1, <4>3, <5>1, <5>3, <5>4
             DEF AuthoritySound, SameIdentity, Identity, PlannerIdentity
        <5> QED BY <4>1, <5>3, <5>4, <5>5 DEF Backed, SameIdentity
      <4> QED BY <4>1, <4>2, <4>3 DEF AuthoritySound
    <3>7. Tamed(arb, d)
      BY <2>2, <2>3, <3>2, <3>4 DEF Tamed, StatusFrame, Frame, PlannerFlags
    <3> QED BY <2>4, <3>6, <3>7 DEF g
  <2> QED BY <2>6, <2>7
<1> QED BY <1>1, <1>2

-----------------------------------------------------------------------------
(* The map heartbeat and the commands.                                     *)

LEMMA MapReadySound ==
    ASSUME clock \in Nat, arb \in Arbiter, NEW ready \in BOOLEAN,
           AuthoritySound(arb, grant, stop), grant \in Grant,
           arb.map_ready => heard.map = arb.map_ready_stamp
    PROVE  LET b == MapReadyApplied(arb, ready)
               g == IF MapInterrupted(ready) THEN Withdrawn(grant) ELSE grant
           IN  /\ AuthoritySound(b, g, stop)
               /\ b.map_ready = ready /\ b.map_ready_stamp = clock
               /\ b.execution_lease_stamp = arb.execution_lease_stamp
               /\ b.latched_execute_stamp = arb.latched_execute_stamp
               /\ b.active_manager_incarnation = arb.active_manager_incarnation
               /\ b.last_command_sequence = arb.last_command_sequence
<1> DEFINE p == IF arb.map_ready /\ ~MapReady(arb) THEN LapseMapReady(arb)
                ELSE IF ready THEN arb ELSE RetirePlannerGeneration(arb)
           lease == IF ready THEN p.planner_generation ELSE p.ready_lease_generation
           b == [p EXCEPT !.map_ready = ready, !.map_ready_stamp = clock,
                          !.ready_lease_generation = lease]
           g == IF MapInterrupted(ready) THEN Withdrawn(grant) ELSE grant
<1>1. p \in Arbiter
  BY LapseType, RetireType
<1>2. Identity(g) = Identity(grant)
  BY WithdrawnEffect
<1>3. Frame(arb, p) /\ AuthoritySound(p, g, stop)
      /\ (p.auto_authorized => p.map_ready)
      /\ (p.dual_map_execute_latched /\ Identity(g) = PlannerIdentity(p)
            /\ ~p.planner_generation_retired => ready)
  <2>1. CASE arb.map_ready /\ ~MapReady(arb)
    <3>1. /\ p \in Arbiter /\ Frame(arb, p)
          /\ ~p.auto_authorized /\ ~p.planner_generation_usable
          /\ p.dual_map_execute_latched = arb.dual_map_execute_latched
          /\ \/ arb.planner_generation_retired
             \/ arb.planner_generation = arb.ready_lease_generation
             => p.planner_generation_retired
      BY <1>1, <2>1, LapseEffect
    <3> HIDE DEF p, g
    <3>2. AuthoritySound(p, g, stop)
      BY <1>2, <3>1, LapseSound
    <3>3. p.dual_map_execute_latched /\ Identity(g) = PlannerIdentity(p)
            => p.planner_generation_retired
      BY <1>2, <3>1 DEF AuthoritySound, Frame, PlannerIdentity
    <3> QED BY <3>1, <3>2, <3>3
  <2>2. CASE ~(arb.map_ready /\ ~MapReady(arb)) /\ ~ready
    <3>1. /\ p \in Arbiter /\ Frame(arb, p)
          /\ ~p.auto_authorized /\ ~p.planner_generation_usable
          /\ p.planner_generation_retired
          /\ p.dual_map_execute_latched = arb.dual_map_execute_latched
      BY <1>1, <2>2, RetireEffect
    <3> HIDE DEF p, g
    <3>2. AuthoritySound(p, g, stop)
      BY <1>2, <3>1, LapseSound
    <3> QED BY <3>1, <3>2
  <2>3. CASE ~(arb.map_ready /\ ~MapReady(arb)) /\ ready
    <3>1. p = arb
      BY <2>3
    <3>2. CASE ~MapInterrupted(ready)
      BY <2>3, <3>1, <3>2 DEF Frame, AuthoritySound, Backed
    <3>3. CASE MapInterrupted(ready)
      <4>1. ~arb.map_ready
        <5>1. SUFFICES ASSUME arb.map_ready PROVE FALSE
          OBVIOUS
        <5>2. clock - arb.map_ready_stamp \in 0..MapReadyTimeout
          BY <2>3, <5>1 DEF MapReady
        <5>3. clock - heard.map > MapReadyTimeout
          BY <2>3, <3>3 DEF MapInterrupted
        <5>4. arb.map_ready_stamp \in Int /\ MapReadyTimeout \in Nat
          BY ConfigAssumption DEF Arbiter
        <5> QED BY <5>1, <5>2, <5>3, <5>4
      <4>2. /\ ~arb.auto_authorized
            /\ arb.dual_map_execute_latched
                 => Identity(grant) # PlannerIdentity(arb)
                      \/ arb.planner_generation_retired
        BY <4>1 DEF AuthoritySound, Backed
      <4> HIDE DEF g, p
      <4>3. AuthoritySound(arb, g, stop)
        BY <1>2, <4>2 DEF AuthoritySound
      <4> QED BY <2>3, <3>1, <4>2, <4>3 DEF Frame
    <3> QED BY <3>2, <3>3
  <2> QED BY <2>1, <2>2, <2>3
<1>4. p.auto_authorized => ready
  BY RetireEffect, LapseEffect
<1> HIDE DEF p
<1>5. lease \in Nat /\ clock \in Int
  BY <1>1 DEF Arbiter
<1>6. ready => lease = p.planner_generation
  OBVIOUS
<1>10. ~ready => lease = p.ready_lease_generation
  OBVIOUS
<1> HIDE DEF lease
<1>7. /\ b.map_ready = ready /\ b.map_ready_stamp = clock
      /\ b.ready_lease_generation = lease
      /\ b.auto_authorized = p.auto_authorized
      /\ b.dual_map_execute_latched = p.dual_map_execute_latched
      /\ b.planner_generation_usable = p.planner_generation_usable
      /\ b.planner_generation_retired = p.planner_generation_retired
      /\ b.execution_lease_stamp = p.execution_lease_stamp
      /\ b.latched_execute_epoch = p.latched_execute_epoch
      /\ b.latched_execute_generation = p.latched_execute_generation
      /\ b.latched_execute_stamp = p.latched_execute_stamp
      /\ b.planner_epoch = p.planner_epoch
      /\ b.planner_generation = p.planner_generation
      /\ b.active_manager_incarnation = p.active_manager_incarnation
      /\ b.last_command_sequence = p.last_command_sequence
  BY <1>1 DEF Arbiter
<1>8. MapReadyApplied(arb, ready) = b
  BY DEF MapReadyApplied, p, lease
<1> HIDE DEF b, g
<1>9. AuthoritySound(b, g, stop)
  BY <1>3, <1>4, <1>6, <1>7, <1>10 DEF AuthoritySound, Backed, PlannerIdentity
<1> QED BY <1>3, <1>7, <1>8, <1>9 DEF g, Frame

LEMMA ConsumedSound ==
    ASSUME arb \in Arbiter, NEW c \in Commands, NEW g,
           AuthoritySound(arb, g, stop)
    PROVE  LET b == Consumed(arb, c)
           IN  /\ AuthoritySound(b, g, stop)
               /\ b.map_ready => arb.map_ready
               /\ b.map_ready_stamp = arb.map_ready_stamp
               /\ b.execution_lease_stamp = arb.execution_lease_stamp
               /\ b.latched_execute_stamp = arb.latched_execute_stamp
               /\ b.active_manager_incarnation = c.incarnation
               /\ b.last_command_sequence = c.sequence
<1> DEFINE p == IF TakesOver(arb, c) THEN InvalidateAuto(ClearExecutionLease(arb))
                ELSE arb
           q == [p EXCEPT !.active_manager_incarnation = c.incarnation,
                          !.last_command_sequence = c.sequence]
           r == ExpireMapReady(q)
           b == ExpireSupersedeGrace(r)
<1>1. /\ p \in Arbiter /\ Frame(arb, p) /\ PlannerFlags(arb, p)
      /\ p.auto_authorized => arb.auto_authorized
      /\ p.dual_map_execute_latched = arb.dual_map_execute_latched
  BY RejectType, RejectEffect DEF RejectExecutionCommand, Frame, PlannerFlags
<1> HIDE DEF p
<1>2. AuthoritySound(p, g, stop)
  BY <1>1, WeakerSound
<1>3. /\ q \in Arbiter
      /\ q.auto_authorized = p.auto_authorized
      /\ q.execution_lease_stamp = p.execution_lease_stamp
      /\ q.dual_map_execute_latched = p.dual_map_execute_latched
      /\ q.latched_execute_epoch = p.latched_execute_epoch
      /\ q.latched_execute_generation = p.latched_execute_generation
      /\ q.latched_execute_stamp = p.latched_execute_stamp
      /\ q.planner_epoch = p.planner_epoch
      /\ q.planner_generation = p.planner_generation
      /\ q.planner_generation_usable = p.planner_generation_usable
      /\ q.planner_generation_retired = p.planner_generation_retired
      /\ q.ready_lease_generation = p.ready_lease_generation
      /\ q.map_ready = p.map_ready /\ q.map_ready_stamp = p.map_ready_stamp
      /\ q.active_manager_incarnation = c.incarnation
      /\ q.last_command_sequence = c.sequence
  <2>1. c.incarnation \in Nat /\ c.sequence \in Nat
    BY MessageTypes
  <2>2. q \in Arbiter
    BY <1>1, <2>1, Zenon DEF Arbiter
  <2> QED BY <1>1, <2>2 DEF Arbiter
<1> HIDE DEF q
<1>4. AuthoritySound(q, g, stop)
  BY <1>2, <1>3 DEF AuthoritySound, Backed, PlannerIdentity
<1>5. r \in Arbiter /\ AuthoritySound(r, g, stop) /\ Tamed(q, r)
  BY <1>3, <1>4, ExpireTypes, ExpireSound, ExpireTamed
<1> HIDE DEF r
<1>6. AuthoritySound(b, g, stop) /\ Tamed(r, b)
  BY <1>5, ExpireSound, ExpireTamed
<1>7. Consumed(arb, c) = b
  BY DEF Consumed, p, q, r
<1> HIDE DEF b
<1> QED BY <1>1, <1>3, <1>5, <1>6, <1>7 DEF Tamed, Frame, PlannerFlags

LEMMA ConsumedLatch ==
    ASSUME arb \in Arbiter, NEW c \in Commands
    PROVE  Consumed(arb, c).dual_map_execute_latched = arb.dual_map_execute_latched
<1> DEFINE p == IF TakesOver(arb, c) THEN InvalidateAuto(ClearExecutionLease(arb))
                ELSE arb
           q == [p EXCEPT !.active_manager_incarnation = c.incarnation,
                          !.last_command_sequence = c.sequence]
           r == ExpireMapReady(q)
           b == ExpireSupersedeGrace(r)
<1>1. p \in Arbiter /\ p.dual_map_execute_latched = arb.dual_map_execute_latched
  BY RejectType, RejectEffect DEF RejectExecutionCommand
<1> HIDE DEF p
<1>2. q \in Arbiter /\ q.dual_map_execute_latched = p.dual_map_execute_latched
  <2>1. c.incarnation \in Nat /\ c.sequence \in Nat
    BY MessageTypes
  <2>2. q \in Arbiter
    BY <1>1, <2>1, Zenon DEF Arbiter
  <2> QED BY <1>1, <2>2 DEF Arbiter
<1> HIDE DEF q
<1>3. r \in Arbiter /\ r.dual_map_execute_latched = q.dual_map_execute_latched
  BY <1>2, ExpireTypes, LapseEffect DEF ExpireMapReady
<1> HIDE DEF r
<1>4. b.dual_map_execute_latched = r.dual_map_execute_latched
  BY <1>3, RejectEffect DEF ExpireSupersedeGrace
<1>5. Consumed(arb, c) = b
  BY DEF Consumed, p, q, r
<1> QED BY <1>1, <1>2, <1>3, <1>4, <1>5

(* A command that is not refused comes after everything honoured before.   *)
LEMMA AdmittedOutranks ==
    ASSUME arb \in Arbiter, NEW c \in Commands, ~Refused(arb, c),
           stop \in Nat \X Nat,
           ~Outranks(stop, <<arb.active_manager_incarnation,
                             arb.last_command_sequence>>)
    PROVE  /\ Outranks(<<c.incarnation, c.sequence>>, stop)
           /\ ~Outranks(<<c.incarnation, c.sequence>>,
                        <<c.incarnation, c.sequence>>)
           /\ ~Outranks(stop, <<c.incarnation, c.sequence>>)
           /\ c.age \in 0..ExecutionCommandTimeout
<1>1. /\ c.incarnation \in Nat /\ c.sequence \in Nat /\ c.age \in Int
      /\ arb.active_manager_incarnation \in Nat
      /\ arb.last_command_sequence \in Nat
  BY MessageTypes DEF Arbiter
<1>2. /\ stop = <<stop[1], stop[2]>> /\ stop[1] \in Nat /\ stop[2] \in Nat
  OBVIOUS
<1>3. /\ c.incarnation # 0 /\ c.sequence # 0
      /\ c.age \in 0..ExecutionCommandTimeout
      /\ \/ arb.active_manager_incarnation = 0
         \/ c.incarnation > arb.active_manager_incarnation
         \/ /\ c.incarnation = arb.active_manager_incarnation
            /\ c.sequence > arb.last_command_sequence
  BY <1>1 DEF Refused, Malformed, FromWrongManager, Replayed
<1> QED BY <1>1, <1>2, <1>3 DEF Outranks

-----------------------------------------------------------------------------
(* The inductive invariant.                                                *)

HistoryType ==
    /\ grant \in Grant
    /\ stop \in Nat \X Nat
    /\ heard \in [manual : Int, auto : Int, link : Int, map : Int]
    /\ lost \in Nat \X Nat

StampsPast ==
    arb.execution_lease_stamp <= clock /\ arb.latched_execute_stamp <= clock

AutoWithinLease ==
    published = "AUTO_AUTHORIZED" => arb.auto_authorized /\ WithinLease(arb)

Inductive ==
    StateType /\ HistoryType /\ StampsPast /\ AuthorityInv /\ AutoWithinLease

LEMMA HistoryTypeNext == StateType /\ HistoryType /\ [Next]_vars => HistoryType'
<1> SUFFICES ASSUME StateType, HistoryType, [Next]_vars PROVE HistoryType'
  OBVIOUS
<1>1. /\ arb \in Arbiter /\ clock \in Nat /\ clock \in Int /\ Never \in Int
      /\ grant \in Grant /\ stop \in Nat \X Nat
      /\ heard \in [manual : Int, auto : Int, link : Int, map : Int]
      /\ lost \in Nat \X Nat
  BY NeverType DEF StateType, HistoryType
<1>3. ASSUME NEW h \in [manual : Int, auto : Int, link : Int, map : Int], NEW t \in Int
      PROVE  /\ [h EXCEPT !.manual = t] \in [manual : Int, auto : Int, link : Int, map : Int]
             /\ [h EXCEPT !.auto = t] \in [manual : Int, auto : Int, link : Int, map : Int]
             /\ [h EXCEPT !.link = t] \in [manual : Int, auto : Int, link : Int, map : Int]
             /\ [h EXCEPT !.map = t] \in [manual : Int, auto : Int, link : Int, map : Int]
             /\ Forget(h) \in [manual : Int, auto : Int, link : Int, map : Int]
  BY NeverType, Zenon DEF Forget
<1>4. Withdrawn(grant) \in Grant /\ WithdrawnUnlessLatched(grant) \in Grant
  BY <1>1, WithdrawnEffect DEF WithdrawnUnlessLatched
<1>5. ASSUME NEW s \in Statuses PROVE Superseded(grant, s) \in Grant
  <2>1. (grant.live /\ s.epoch = grant.epoch) \in BOOLEAN
    OBVIOUS
  <2>2. [grant EXCEPT !.superseded = clock,
                      !.live = grant.live /\ s.epoch = grant.epoch] \in Grant
    BY <1>1, <2>1, Zenon DEF Grant
  <2> QED BY <1>1, <2>2 DEF Superseded
<1>6. ASSUME NEW c \in Commands PROVE GrantOf(c) \in Grant
  <2>1. /\ c.incarnation \in Nat /\ c.sequence \in Nat /\ c.epoch \in Nat
        /\ c.generation \in Nat /\ clock - c.age \in Int
    BY <1>1, MessageTypes
  <2> QED BY <1>1, <2>1, Zenon DEF Grant, GrantOf
<1>7. Identity(grant) \in Nat \X Nat
  BY <1>1 DEF Identity, Grant
<1>8. CASE AdvanceClock \/ OnTimer \/ UNCHANGED vars
  BY <1>1, <1>8 DEF AdvanceClock, OnTimer, vars, history, HistoryType
<1>9. CASE OnManual \/ OnAuto
  BY <1>1, <1>3, <1>9 DEF OnManual, OnAuto, HistoryType
<1>10. ASSUME NEW s \in Statuses, OnPlannerStatus(s) PROVE HistoryType'
  <2>1. grant' \in Grant
    BY <1>1, <1>4, <1>5, <1>10 DEF OnPlannerStatus, GrantAfterStatus
  <2> QED BY <1>1, <1>10, <2>1 DEF OnPlannerStatus, HistoryType
<1>11. ASSUME NEW ready \in BOOLEAN, OnMapReady(ready) PROVE HistoryType'
  <2>1. grant' \in Grant /\ stop' = stop
    BY <1>1, <1>4, <1>11 DEF OnMapReady
  <2>2. heard' \in [manual : Int, auto : Int, link : Int, map : Int]
    <3>1. (IF ready THEN clock ELSE Never) \in Int
      BY <1>1
    <3> QED BY <1>1, <1>3, <1>11, <3>1 DEF OnMapReady
  <2>3. lost' \in Nat \X Nat
    BY <1>1, <1>7, <1>11 DEF OnMapReady
  <2> QED BY <1>1, <2>1, <2>2, <2>3 DEF HistoryType
<1>12. ASSUME NEW active \in BOOLEAN, OnEmergencyStop(active) PROVE HistoryType'
  BY <1>1, <1>3, <1>4, <1>12 DEF OnEmergencyStop, HistoryType
<1>13. ASSUME NEW up \in BOOLEAN, OnLinkHealth(up) PROVE HistoryType'
  <2>1. grant' \in Grant /\ stop' = stop /\ lost' = lost
    BY <1>1, <1>4, <1>13 DEF OnLinkHealth
  <2>2. heard' \in [manual : Int, auto : Int, link : Int, map : Int]
    <3>1. (IF up THEN clock ELSE Never) \in Int
      BY <1>1
    <3> DEFINE h == IF ~up \/ ~arb.link_up THEN Forget(heard) ELSE heard
    <3>2. h \in [manual : Int, auto : Int, link : Int, map : Int]
      BY <1>1, <1>3
    <3>3. heard' = [h EXCEPT !.link = IF up THEN clock ELSE Never]
      BY <1>13 DEF OnLinkHealth
    <3> HIDE DEF h
    <3> QED BY <1>3, <3>1, <3>2, <3>3
  <2> QED BY <1>1, <2>1, <2>2 DEF HistoryType
<1>14. ASSUME NEW c \in Commands, OnExecutionCommand(c) PROVE HistoryType'
  <2>1. grant' \in Grant /\ heard' = heard /\ lost' = lost
    BY <1>1, <1>4, <1>6, <1>14
       DEF OnExecutionCommand, RefuseCommand, HonourStop, TolerateSuperseded,
           RejectUnmapped, AuthorizeExecute, LatchExecute, history
  <2>2. stop' \in {stop, <<c.incarnation, c.sequence>>}
    BY <1>14
       DEF OnExecutionCommand, RefuseCommand, HonourStop, TolerateSuperseded,
           RejectUnmapped, AuthorizeExecute, LatchExecute, history
  <2>3. stop' \in Nat \X Nat
    BY <1>1, <2>2, MessageTypes
  <2> QED BY <1>1, <2>1, <2>3 DEF HistoryType
<1> QED
  BY <1>8, <1>9, <1>10, <1>11, <1>12, <1>13, <1>14 DEF Next

(* An arbiter a that is fit to be stored or published from, with grant g,  *)
(* last STOP st and last map heartbeat m.                                  *)
Fit(a, g, st, m) ==
    /\ AuthoritySound(a, g, st)
    /\ a.map_ready => m = a.map_ready_stamp
    /\ ~Outranks(st, <<a.active_manager_incarnation, a.last_command_sequence>>)
    /\ a.execution_lease_stamp <= clock /\ a.latched_execute_stamp <= clock

Kept == StampsPast /\ AuthorityInv /\ AutoWithinLease

LEMMA PublishKeeps ==
    ASSUME NEW a \in Arbiter, NEW g, NEW st, NEW m, Fit(a, g, st, m),
           PublishSelection(a), grant' = g, stop' = st, heard'.map = m,
           clock' = clock
    PROVE  Kept'
<1>1. /\ AuthoritySound(arb', g, st) /\ Tamed(a, arb')
      /\ published' = "AUTO_AUTHORIZED" => arb'.auto_authorized /\ WithinLease(arb')
  BY PublishSound DEF Fit
<1>2. AuthoritySound(arb, grant, stop)'
  BY <1>1 DEF AuthoritySound, Backed, PlannerIdentity
<1>3. (WithinLease(arb))' <=> WithinLease(arb')
  BY DEF WithinLease
<1>4. /\ arb'.map_ready => heard'.map = arb'.map_ready_stamp
      /\ ~Outranks(stop', <<arb'.active_manager_incarnation,
                            arb'.last_command_sequence>>)
      /\ arb'.execution_lease_stamp <= clock' /\ arb'.latched_execute_stamp <= clock'
  BY <1>1 DEF Fit, Tamed
<1> QED
  BY <1>1, <1>2, <1>3, <1>4 DEF Kept, StampsPast, AuthorityInv, AutoWithinLease

LEMMA QuietKeeps ==
    ASSUME NEW a \in Arbiter, NEW g, NEW st, NEW m, Fit(a, g, st, m),
           Quietly(a), grant' = g, stop' = st, heard'.map = m, clock' = clock
    PROVE  Kept'
<1>1. arb' = a /\ published' # "AUTO_AUTHORIZED"
  BY DEF Quietly
<1>2. AuthoritySound(arb, grant, stop)'
  BY <1>1 DEF Fit, AuthoritySound, Backed, PlannerIdentity
<1> QED
  BY <1>1, <1>2 DEF Fit, Kept, StampsPast, AuthorityInv, AutoWithinLease

LEMMA FitNow == Inductive => Fit(arb, grant, stop, heard.map)
BY DEF Inductive, Fit, AuthorityInv, StampsPast

LEMMA CommandKeeps ==
    ASSUME Inductive, NEW c \in Commands, OnExecutionCommand(c)
    PROVE  Kept'
<1> DEFINE b == Consumed(arb, c)
<1>1. /\ arb \in Arbiter /\ clock \in Nat /\ grant \in Grant /\ stop \in Nat \X Nat
      /\ AuthoritySound(arb, grant, stop)
      /\ arb.map_ready => heard.map = arb.map_ready_stamp
      /\ ~Outranks(stop, <<arb.active_manager_incarnation, arb.last_command_sequence>>)
      /\ arb.execution_lease_stamp <= clock /\ arb.latched_execute_stamp <= clock
  BY DEF Inductive, StateType, HistoryType, AuthorityInv, StampsPast
<1>2. AuthoritySound(RejectExecutionCommand(arb), WithdrawnUnlessLatched(grant), stop)
      /\ RejectExecutionCommand(arb) \in Arbiter
  <2> DEFINE d == RejectExecutionCommand(arb)
             g == WithdrawnUnlessLatched(grant)
  <2>1. /\ d \in Arbiter /\ Frame(arb, d) /\ PlannerFlags(arb, d) /\ ~d.auto_authorized
        /\ d.dual_map_execute_latched = arb.dual_map_execute_latched
    BY <1>1, RejectType, RejectEffect
  <2>2. arb.dual_map_execute_latched => g = grant
    BY DEF WithdrawnUnlessLatched
  <2> HIDE DEF d, g
  <2>3. AuthoritySound(d, g, stop)
    BY <1>1, <2>1, <2>2
       DEF AuthoritySound, Backed, Frame, PlannerFlags, PlannerIdentity
  <2> QED BY <2>1, <2>3 DEF d, g
<1>3. CASE RefuseCommand(c)
  <2> DEFINE d == RejectExecutionCommand(arb)
  <2>1. Tamed(arb, d)
    BY <1>1, ExpireTamed
  <2>2. Fit(d, WithdrawnUnlessLatched(grant), stop, heard.map)
    <3> HIDE DEF d
    <3>1. AuthoritySound(d, WithdrawnUnlessLatched(grant), stop)
      BY <1>2 DEF d
    <3> QED BY <1>1, <2>1, <3>1 DEF Fit, Tamed
  <2> QED BY <1>2, <1>3, <2>2, PublishKeeps DEF RefuseCommand
<1> SUFFICES ASSUME ~Refused(arb, c) PROVE Kept'
  BY <1>3 DEF OnExecutionCommand, HonourStop, TolerateSuperseded, RejectUnmapped,
              AuthorizeExecute, LatchExecute
<1>4. /\ Outranks(<<c.incarnation, c.sequence>>, stop)
      /\ ~Outranks(<<c.incarnation, c.sequence>>, <<c.incarnation, c.sequence>>)
      /\ ~Outranks(stop, <<c.incarnation, c.sequence>>)
      /\ c.age \in 0..ExecutionCommandTimeout
  BY <1>1, AdmittedOutranks
<1>5. /\ b \in Arbiter
      /\ AuthoritySound(b, grant, stop)
      /\ b.map_ready => arb.map_ready
      /\ b.map_ready_stamp = arb.map_ready_stamp
      /\ b.execution_lease_stamp = arb.execution_lease_stamp
      /\ b.latched_execute_stamp = arb.latched_execute_stamp
      /\ b.active_manager_incarnation = c.incarnation
      /\ b.last_command_sequence = c.sequence
  BY <1>1, ConsumedType, ConsumedSound
<1>6. /\ clock - c.age \in Int /\ clock - c.age <= clock
      /\ c.epoch \in Nat /\ c.generation \in Nat
  BY <1>1, <1>4, ConfigAssumption, MessageTypes
<1>7. CASE HonourStop(c)
  <2> DEFINE d == InvalidateAuto(ClearExecutionLease(b))
             e == [d EXCEPT !.dual_map_execute_latched = FALSE]
  <2>1. /\ d \in Arbiter /\ Frame(b, d) /\ PlannerFlags(b, d) /\ ~d.auto_authorized
    <3> HIDE DEF b
    <3> QED BY <1>5, RejectType, RejectEffect DEF RejectExecutionCommand
  <2>0. Quietly(e)
    BY <1>7 DEF HonourStop
  <2> HIDE DEF d, b
  <2>2. /\ e \in Arbiter /\ Frame(d, e) /\ PlannerFlags(d, e) /\ ~e.auto_authorized
        /\ ~e.dual_map_execute_latched
    <3>1. e \in Arbiter
      BY <2>1, Zenon DEF Arbiter
    <3> QED BY <2>1, <3>1 DEF Arbiter, Frame, PlannerFlags
  <2> HIDE DEF e
  <2>3. AuthoritySound(e, Withdrawn(grant), <<c.incarnation, c.sequence>>)
    BY <1>5, <2>1, <2>2 DEF AuthoritySound, Frame, PlannerFlags
  <2>4. Fit(e, Withdrawn(grant), <<c.incarnation, c.sequence>>, heard.map)
    BY <1>1, <1>4, <1>5, <2>1, <2>2, <2>3 DEF Fit, Frame, PlannerFlags
  <2> QED BY <1>7, <2>0, <2>2, <2>4, QuietKeeps DEF HonourStop
<1>8. CASE TolerateSuperseded(c)
  <2>1. Fit(b, grant, stop, heard.map)
    <3> HIDE DEF b
    <3> QED BY <1>1, <1>4, <1>5 DEF Fit
  <2> QED BY <1>5, <1>8, <2>1, QuietKeeps DEF TolerateSuperseded, history
<1>9. CASE RejectUnmapped(c)
  <2> DEFINE d == RejectExecutionCommand(b)
             g == WithdrawnUnlessLatched(grant)
  <2>0. b.dual_map_execute_latched => arb.dual_map_execute_latched
    BY <1>1, ConsumedLatch
  <2>1. /\ d \in Arbiter /\ Frame(b, d) /\ PlannerFlags(b, d) /\ ~d.auto_authorized
        /\ d.dual_map_execute_latched = b.dual_map_execute_latched
    BY <1>5, RejectType, RejectEffect
  <2>2. arb.dual_map_execute_latched => g = grant
    BY DEF WithdrawnUnlessLatched
  <2>3. PublishSelection(d) /\ grant' = g
    BY <1>9 DEF RejectUnmapped
  <2> HIDE DEF d, g, b
  <2>4. AuthoritySound(d, g, stop)
    BY <1>5, <2>0, <2>1, <2>2
       DEF AuthoritySound, Backed, Frame, PlannerFlags, PlannerIdentity
  <2>5. Fit(d, g, stop, heard.map)
    BY <1>1, <1>4, <1>5, <2>1, <2>4 DEF Fit, Frame, PlannerFlags
  <2> QED BY <1>9, <2>1, <2>3, <2>5, PublishKeeps DEF RejectUnmapped
<1>10. GrantOf(c).live /\ GrantOf(c).issued = clock - c.age
       /\ Order(GrantOf(c)) = <<c.incarnation, c.sequence>>
       /\ Identity(GrantOf(c)) = <<c.epoch, c.generation>>
       /\ GrantOf(c).epoch = c.epoch
  BY DEF GrantOf, Order, Identity
<1>11. CASE AuthorizeExecute(c)
  <2> DEFINE d == [b EXCEPT !.auto_authorized = TRUE,
                            !.execution_lease_stamp = clock - c.age,
                            !.dual_map_execute_latched = FALSE,
                            !.supersede_deadline = Never]
             g == GrantOf(c)
  <2>1. Quietly(d) /\ grant' = g /\ NamesUsableGeneration(b, c.epoch, c.generation)
    BY <1>11 DEF AuthorizeExecute
  <2> HIDE DEF b, g
  <2>2. d \in Arbiter
    BY <1>5, <1>6, NeverType, Zenon DEF Arbiter
  <2>3. /\ d.auto_authorized /\ ~d.dual_map_execute_latched
        /\ d.execution_lease_stamp = clock - c.age
        /\ d.latched_execute_stamp = b.latched_execute_stamp
        /\ PlannerFlags(b, d) /\ d.planner_epoch = b.planner_epoch
        /\ d.planner_generation = b.planner_generation
        /\ d.ready_lease_generation = b.ready_lease_generation
        /\ d.map_ready_stamp = b.map_ready_stamp
        /\ d.active_manager_incarnation = b.active_manager_incarnation
        /\ d.last_command_sequence = b.last_command_sequence
    BY <1>5, <2>2 DEF Arbiter, PlannerFlags
  <2> HIDE DEF d
  <2>4. AuthoritySound(d, g, stop)
    BY <1>4, <1>5, <1>10, <2>1, <2>3
       DEF AuthoritySound, Backed, PlannerFlags, NamesUsableGeneration, MapReady, g
  <2>5. Fit(d, g, stop, heard.map)
    BY <1>1, <1>4, <1>5, <1>6, <2>3, <2>4 DEF Fit, PlannerFlags
  <2> QED BY <1>11, <2>1, <2>2, <2>5, QuietKeeps DEF AuthorizeExecute
<1>12. CASE LatchExecute(c)
  <2> DEFINE d == [b EXCEPT !.auto_authorized = FALSE,
                            !.dual_map_execute_latched = TRUE,
                            !.latched_execute_epoch = c.epoch,
                            !.latched_execute_generation = c.generation,
                            !.latched_execute_stamp = clock - c.age]
             g == GrantOf(c)
  <2>1. Quietly(d) /\ grant' = g /\ NamesUsableGeneration(b, c.epoch, c.generation)
    BY <1>12 DEF LatchExecute
  <2> HIDE DEF b, g
  <2>2. d \in Arbiter
    BY <1>5, <1>6, Zenon DEF Arbiter
  <2>3. /\ ~d.auto_authorized /\ d.dual_map_execute_latched
        /\ d.latched_execute_epoch = c.epoch
        /\ d.latched_execute_generation = c.generation
        /\ d.latched_execute_stamp = clock - c.age
        /\ d.execution_lease_stamp = b.execution_lease_stamp
        /\ PlannerFlags(b, d) /\ d.planner_epoch = b.planner_epoch
        /\ d.planner_generation = b.planner_generation
        /\ d.ready_lease_generation = b.ready_lease_generation
        /\ d.map_ready_stamp = b.map_ready_stamp
        /\ d.active_manager_incarnation = b.active_manager_incarnation
        /\ d.last_command_sequence = b.last_command_sequence
    BY <1>5, <2>2 DEF Arbiter, PlannerFlags
  <2> HIDE DEF d
  <2>4. ~Outranks(Identity(g), PlannerIdentity(d))
    BY <1>6, <1>10, <2>1, <2>3
       DEF Outranks, PlannerIdentity, NamesUsableGeneration, g
  <2>5. AuthoritySound(d, g, stop)
    BY <1>4, <1>5, <1>10, <2>1, <2>3, <2>4
       DEF AuthoritySound, Backed, PlannerFlags, NamesUsableGeneration, MapReady, g
  <2>6. Fit(d, g, stop, heard.map)
    BY <1>1, <1>4, <1>5, <1>6, <2>3, <2>5 DEF Fit, PlannerFlags
  <2> QED BY <1>12, <2>1, <2>2, <2>6, QuietKeeps DEF LatchExecute
<1> QED
  BY <1>3, <1>7, <1>8, <1>9, <1>11, <1>12 DEF OnExecutionCommand

LEMMA InvalidateSourcesEffect ==
    ASSUME NEW a \in Arbiter
    PROVE  LET b == InvalidateSources(a)
           IN  /\ Frame(a, b) /\ PlannerFlags(a, b)
               /\ b.auto_authorized = a.auto_authorized
               /\ b.dual_map_execute_latched = a.dual_map_execute_latched
<1> DEFINE d == InvalidateAuto(a)
           e == [d EXCEPT !.manual.valid = FALSE]
<1>1. /\ d \in Arbiter /\ Frame(a, d) /\ PlannerFlags(a, d)
      /\ d.auto_authorized = a.auto_authorized
      /\ d.dual_map_execute_latched = a.dual_map_execute_latched
  BY InvalidateAutoType DEF Arbiter, Frame, PlannerFlags, InvalidateAuto
<1>2. InvalidateSources(a) = e
  BY DEF InvalidateSources
<1>3. e \in Arbiter
  BY <1>2, InvalidateSourcesType
<1> HIDE DEF d
<1>4. /\ Frame(d, e) /\ PlannerFlags(d, e)
      /\ e.auto_authorized = d.auto_authorized
      /\ e.dual_map_execute_latched = d.dual_map_execute_latched
  BY <1>1, <1>3 DEF Arbiter, Frame, PlannerFlags
<1> QED BY <1>1, <1>2, <1>4 DEF Frame, PlannerFlags

LEMMA LinkHealthKeeps ==
    ASSUME Inductive, NEW up \in BOOLEAN, OnLinkHealth(up)
    PROVE  Kept'
<1>1. /\ arb \in Arbiter /\ clock \in Nat /\ clock \in Int /\ grant \in Grant
      /\ heard \in [manual : Int, auto : Int, link : Int, map : Int]
      /\ AuthoritySound(arb, grant, stop)
      /\ arb.map_ready => heard.map = arb.map_ready_stamp
      /\ ~Outranks(stop, <<arb.active_manager_incarnation, arb.last_command_sequence>>)
      /\ arb.execution_lease_stamp <= clock /\ arb.latched_execute_stamp <= clock
  BY DEF Inductive, StateType, HistoryType, AuthorityInv, StampsPast
<1>2. stop' = stop /\ clock' = clock /\ heard'.map = heard.map
  BY <1>1 DEF OnLinkHealth, Forget
<1>3. CASE up /\ arb.link_up
  <2> DEFINE b == [arb EXCEPT !.has_link_heartbeat = TRUE,
                              !.last_link_stamp = clock, !.link_up = TRUE]
             f == MaybeAuthorizeLatchedExecute(b)
  <2>1. Quietly(f) /\ grant' = grant
    BY <1>3 DEF OnLinkHealth, SerialLinkUp
  <2>2. /\ b \in Arbiter /\ Frame(arb, b) /\ PlannerFlags(arb, b)
        /\ b.auto_authorized = arb.auto_authorized
        /\ b.dual_map_execute_latched = arb.dual_map_execute_latched
    <3>1. b \in Arbiter
      BY <1>1, Zenon DEF Arbiter
    <3> QED BY <1>1, <3>1 DEF Arbiter, Frame, PlannerFlags
  <2> HIDE DEF b
  <2>3. AuthoritySound(b, grant, stop)
    BY <1>1, <2>2, WeakerSound
  <2>4. /\ f \in Arbiter
        /\ AuthoritySound(f, grant, stop)
        /\ f.latched_execute_stamp = b.latched_execute_stamp
        /\ f.execution_lease_stamp
             \in {b.execution_lease_stamp, b.latched_execute_stamp}
        /\ f.map_ready => b.map_ready
        /\ f.map_ready_stamp = b.map_ready_stamp
        /\ f.active_manager_incarnation = b.active_manager_incarnation
        /\ f.last_command_sequence = b.last_command_sequence
    BY <2>2, <2>3, LatchType, LatchSound
  <2> HIDE DEF f
  <2>5. Fit(f, grant, stop, heard.map)
    BY <1>1, <2>2, <2>4 DEF Fit, Frame, PlannerFlags
  <2> QED BY <1>2, <2>1, <2>4, <2>5, QuietKeeps
<1>4. CASE up /\ ~arb.link_up
  <2> DEFINE p == SerialLinkDown(arb)
             b == [p EXCEPT !.has_link_heartbeat = TRUE,
                            !.last_link_stamp = clock, !.link_up = TRUE]
             f == MaybeAuthorizeLatchedExecute(b)
             g == Withdrawn(grant)
  <2>1. Quietly(f) /\ grant' = g
    BY <1>4 DEF OnLinkHealth, SerialLinkUp
  <2>2. /\ p \in Arbiter /\ AuthoritySound(p, g, stop) /\ Tamed(arb, p)
    BY <1>1, LinkDownType, LinkDownSound, WithdrawnEffect
  <2> HIDE DEF p, g
  <2>3. /\ b \in Arbiter /\ Frame(p, b) /\ PlannerFlags(p, b)
        /\ b.auto_authorized = p.auto_authorized
        /\ b.dual_map_execute_latched = p.dual_map_execute_latched
    <3>1. b \in Arbiter
      BY <1>1, <2>2, Zenon DEF Arbiter
    <3> QED BY <2>2, <3>1 DEF Arbiter, Frame, PlannerFlags
  <2> HIDE DEF b
  <2>4. AuthoritySound(b, g, stop)
    BY <2>2, <2>3, WeakerSound
  <2>5. /\ f \in Arbiter
        /\ AuthoritySound(f, g, stop)
        /\ f.latched_execute_stamp = b.latched_execute_stamp
        /\ f.execution_lease_stamp
             \in {b.execution_lease_stamp, b.latched_execute_stamp}
        /\ f.map_ready => b.map_ready
        /\ f.map_ready_stamp = b.map_ready_stamp
        /\ f.active_manager_incarnation = b.active_manager_incarnation
        /\ f.last_command_sequence = b.last_command_sequence
    BY <2>3, <2>4, LatchType, LatchSound
  <2> HIDE DEF f
  <2>6. Fit(f, g, stop, heard.map)
    BY <1>1, <2>2, <2>3, <2>5 DEF Fit, Tamed, Frame, PlannerFlags
  <2> QED BY <1>2, <2>1, <2>5, <2>6, QuietKeeps
<1>5. CASE ~up
  <2> DEFINE b == [arb EXCEPT !.has_link_heartbeat = TRUE, !.last_link_stamp = clock]
             p == SerialLinkDown(b)
             g == Withdrawn(grant)
  <2>1. Quietly(p) /\ grant' = g
    BY <1>5 DEF OnLinkHealth
  <2>2. /\ b \in Arbiter /\ Frame(arb, b) /\ PlannerFlags(arb, b)
        /\ b.auto_authorized = arb.auto_authorized
        /\ b.dual_map_execute_latched = arb.dual_map_execute_latched
    <3>1. b \in Arbiter
      BY <1>1, Zenon DEF Arbiter
    <3> QED BY <1>1, <3>1 DEF Arbiter, Frame, PlannerFlags
  <2> HIDE DEF b
  <2>3. AuthoritySound(b, grant, stop)
    BY <1>1, <2>2, WeakerSound
  <2>4. /\ p \in Arbiter /\ AuthoritySound(p, g, stop) /\ Tamed(b, p)
    BY <1>1, <2>2, <2>3, LinkDownType, LinkDownSound, WithdrawnEffect
  <2> HIDE DEF p, g
  <2>5. Fit(p, g, stop, heard.map)
    BY <1>1, <2>2, <2>4 DEF Fit, Tamed, Frame, PlannerFlags
  <2> QED BY <1>2, <2>1, <2>4, <2>5, QuietKeeps
<1> QED BY <1>3, <1>4, <1>5

LEMMA KeptNext == Inductive /\ [Next]_vars => Kept'
<1> SUFFICES ASSUME Inductive, [Next]_vars PROVE Kept'
  OBVIOUS
<1>1. /\ arb \in Arbiter /\ clock \in Nat /\ clock \in Int
      /\ grant \in Grant /\ stop \in Nat \X Nat
      /\ heard \in [manual : Int, auto : Int, link : Int, map : Int]
      /\ AuthoritySound(arb, grant, stop)
      /\ arb.map_ready => heard.map = arb.map_ready_stamp
      /\ ~Outranks(stop, <<arb.active_manager_incarnation, arb.last_command_sequence>>)
      /\ arb.execution_lease_stamp <= clock /\ arb.latched_execute_stamp <= clock
      /\ Fit(arb, grant, stop, heard.map)
  BY FitNow DEF Inductive, StateType, HistoryType, AuthorityInv, StampsPast
<1>2. CASE AdvanceClock
  <2>1. /\ arb' = arb /\ clock' = clock + 1 /\ published' = "NOTHING"
        /\ grant' = grant /\ stop' = stop /\ heard' = heard
    BY <1>2 DEF AdvanceClock, history
  <2>2. arb'.execution_lease_stamp <= clock' /\ arb'.latched_execute_stamp <= clock'
    <3>1. arb.execution_lease_stamp \in Int /\ arb.latched_execute_stamp \in Int
      BY <1>1 DEF Arbiter
    <3> QED BY <1>1, <2>1, <3>1
  <2>3. AuthoritySound(arb, grant, stop)'
    BY <1>1, <2>1 DEF AuthoritySound, Backed, PlannerIdentity
  <2> QED
    BY <1>1, <2>1, <2>2, <2>3 DEF Kept, StampsPast, AuthorityInv, AutoWithinLease
<1>3. CASE OnTimer
  BY <1>1, <1>3, PublishKeeps DEF OnTimer, history
<1>4. CASE OnManual \/ OnAuto
  <2> DEFINE m == [arb EXCEPT !.manual = [valid |-> TRUE, stamp |-> clock]]
             u == [arb EXCEPT !.auto = [valid |-> TRUE, stamp |-> clock]]
  <2>1. [valid |-> TRUE, stamp |-> clock] \in Sample
    BY <1>1 DEF Sample
  <2>2. m \in Arbiter /\ u \in Arbiter
    BY <1>1, <2>1, Zenon DEF Arbiter
  <2>3. ASSUME NEW x \in {m, u} PROVE Fit(x, grant, stop, heard.map) /\ x \in Arbiter
    <3>1. /\ Frame(arb, m) /\ PlannerFlags(arb, m)
          /\ m.auto_authorized = arb.auto_authorized
          /\ m.dual_map_execute_latched = arb.dual_map_execute_latched
      BY <1>1, <2>2 DEF Arbiter, Frame, PlannerFlags
    <3>2. /\ Frame(arb, u) /\ PlannerFlags(arb, u)
          /\ u.auto_authorized = arb.auto_authorized
          /\ u.dual_map_execute_latched = arb.dual_map_execute_latched
      BY <1>1, <2>2 DEF Arbiter, Frame, PlannerFlags
    <3>3. /\ x \in Arbiter /\ Frame(arb, x) /\ PlannerFlags(arb, x)
          /\ x.auto_authorized = arb.auto_authorized
          /\ x.dual_map_execute_latched = arb.dual_map_execute_latched
      BY <2>2, <2>3, <3>1, <3>2
    <3>4. AuthoritySound(x, grant, stop)
      BY <1>1, <3>3, WeakerSound
    <3> QED BY <1>1, <3>3, <3>4 DEF Fit, Frame, PlannerFlags
  <2>4. \E x \in {m, u} : Quietly(x)
    BY <1>4 DEF OnManual, OnAuto
  <2>5. /\ grant' = grant /\ stop' = stop /\ clock' = clock /\ heard'.map = heard.map
    BY <1>1, <1>4 DEF OnManual, OnAuto
  <2> HIDE DEF m, u
  <2> QED BY <2>3, <2>4, <2>5, QuietKeeps
<1>5. ASSUME NEW s \in Statuses, OnPlannerStatus(s) PROVE Kept'
  <2> DEFINE a == PlannerStatusApplied(arb, s)
             g == GrantAfterStatus(s)
  <2>1. /\ a \in Arbiter /\ AuthoritySound(a, g, stop) /\ Tamed(arb, a)
    BY <1>1, StatusType, StatusSound
  <2>2. /\ PublishSelection(a) /\ grant' = g /\ stop' = stop /\ clock' = clock
        /\ heard' = heard
    BY <1>5 DEF OnPlannerStatus
  <2> HIDE DEF a, g
  <2>3. Fit(a, g, stop, heard.map)
    BY <1>1, <2>1 DEF Fit, Tamed
  <2> QED BY <2>1, <2>2, <2>3, PublishKeeps
<1>6. ASSUME NEW ready \in BOOLEAN, OnMapReady(ready) PROVE Kept'
  <2> DEFINE a == MapReadyApplied(arb, ready)
             g == IF MapInterrupted(ready) THEN Withdrawn(grant) ELSE grant
             m == IF ready THEN clock ELSE Never
  <2>1. /\ a \in Arbiter /\ AuthoritySound(a, g, stop)
        /\ a.map_ready = ready /\ a.map_ready_stamp = clock
        /\ a.execution_lease_stamp = arb.execution_lease_stamp
        /\ a.latched_execute_stamp = arb.latched_execute_stamp
        /\ a.active_manager_incarnation = arb.active_manager_incarnation
        /\ a.last_command_sequence = arb.last_command_sequence
    BY <1>1, MapReadyType, MapReadySound
  <2>2. /\ PublishSelection(a) /\ grant' = g /\ stop' = stop /\ clock' = clock
        /\ heard'.map = m
    BY <1>1, <1>6 DEF OnMapReady
  <2>3. Fit(a, g, stop, m)
    <3> HIDE DEF a, g
    <3> QED BY <1>1, <2>1 DEF Fit
  <2> HIDE DEF a, g, m
  <2> QED BY <2>1, <2>2, <2>3, PublishKeeps
<1>7. ASSUME NEW active \in BOOLEAN, OnEmergencyStop(active) PROVE Kept'
  <2> DEFINE b == [arb EXCEPT !.emergency_stop = active]
             c == [b EXCEPT !.dual_map_execute_latched = FALSE]
             d == ClearExecutionLease(c)
             e == InvalidateSources(d)
             f == MaybeAuthorizeLatchedExecute(b)
  <2>1. /\ b \in Arbiter /\ Frame(arb, b) /\ PlannerFlags(arb, b)
        /\ b.auto_authorized = arb.auto_authorized
        /\ b.dual_map_execute_latched = arb.dual_map_execute_latched
    <3>1. b \in Arbiter
      BY <1>1, Zenon DEF Arbiter
    <3> QED BY <1>1, <3>1 DEF Arbiter, Frame, PlannerFlags
  <2>2. /\ active => Quietly(e) /\ grant' = Withdrawn(grant)
        /\ ~active => Quietly(f) /\ grant' = grant
        /\ stop' = stop /\ clock' = clock /\ heard'.map = heard.map
    BY <1>1, <1>7 DEF OnEmergencyStop, Forget
  <2> HIDE DEF b
  <2>3. AuthoritySound(b, grant, stop)
    BY <1>1, <2>1, WeakerSound
  <2>4. CASE active
    <3>1. /\ c \in Arbiter /\ Frame(b, c) /\ PlannerFlags(b, c)
          /\ ~c.dual_map_execute_latched
      <4>1. c \in Arbiter
        BY <2>1, Zenon DEF Arbiter
      <4> QED BY <2>1, <4>1 DEF Arbiter, Frame, PlannerFlags
    <3> HIDE DEF c
    <3>2. /\ d \in Arbiter /\ Frame(c, d) /\ PlannerFlags(c, d)
          /\ ~d.auto_authorized /\ ~d.dual_map_execute_latched
      BY <3>1, ClearType, RejectEffect
    <3> HIDE DEF d
    <3>3. /\ e \in Arbiter /\ Frame(d, e) /\ PlannerFlags(d, e)
          /\ ~e.auto_authorized /\ ~e.dual_map_execute_latched
      BY <3>2, InvalidateSourcesEffect, InvalidateSourcesType
    <3> HIDE DEF e
    <3>4. AuthoritySound(e, Withdrawn(grant), stop)
      BY <1>1, <2>1, <3>1, <3>2, <3>3 DEF AuthoritySound, Frame, PlannerFlags
    <3>5. Fit(e, Withdrawn(grant), stop, heard.map)
      BY <1>1, <2>1, <3>1, <3>2, <3>3, <3>4 DEF Fit, Frame, PlannerFlags
    <3> QED BY <2>2, <2>4, <3>3, <3>5, QuietKeeps
  <2>5. CASE ~active
    <3>1. /\ f \in Arbiter
          /\ AuthoritySound(f, grant, stop)
          /\ f.latched_execute_stamp = b.latched_execute_stamp
          /\ f.execution_lease_stamp
               \in {b.execution_lease_stamp, b.latched_execute_stamp}
          /\ f.map_ready => b.map_ready
          /\ f.map_ready_stamp = b.map_ready_stamp
          /\ f.active_manager_incarnation = b.active_manager_incarnation
          /\ f.last_command_sequence = b.last_command_sequence
      BY <2>1, <2>3, LatchType, LatchSound
    <3> HIDE DEF f
    <3>2. Fit(f, grant, stop, heard.map)
      BY <1>1, <2>1, <3>1 DEF Fit, Frame, PlannerFlags
    <3> QED BY <2>2, <2>5, <3>1, <3>2, QuietKeeps
  <2> QED BY <2>4, <2>5
<1>8. ASSUME NEW up \in BOOLEAN, OnLinkHealth(up) PROVE Kept'
  BY <1>8, LinkHealthKeeps
<1>9. ASSUME NEW c \in Commands, OnExecutionCommand(c) PROVE Kept'
  BY <1>9, CommandKeeps
<1>10. CASE UNCHANGED vars
  <2>1. /\ arb' = arb /\ clock' = clock /\ published' = published
        /\ grant' = grant /\ stop' = stop /\ heard' = heard
    BY <1>10 DEF vars, history
  <2>2. AuthoritySound(arb, grant, stop)' /\ AuthorityInv' /\ AutoWithinLease'
    BY <2>1 DEF Inductive, AuthoritySound, Backed, PlannerIdentity, AuthorityInv,
                AutoWithinLease, WithinLease
  <2> QED BY <1>1, <2>1, <2>2 DEF Kept, StampsPast
<1> QED
  BY <1>2, <1>3, <1>4, <1>5, <1>6, <1>7, <1>8, <1>9, <1>10 DEF Next

LEMMA InductiveInit == Init => Inductive
<1> SUFFICES ASSUME Init PROVE Inductive
  OBVIOUS
<1>1. StateType
  BY StateTypeInit
<1>2. HistoryType
  <2>1. NoGrant \in Grant
    <3>1. 0 \in Nat /\ 0 \in Int
      OBVIOUS
    <3> QED BY <3>1, NeverType, Zenon DEF NoGrant, Grant
  <2> QED BY <2>1, NeverType DEF Init, HistoryType
<1>3. Kept
  BY DEF Init, InitialArbiter, Kept, StampsPast, AuthorityInv, AuthoritySound,
         AutoWithinLease, Outranks
<1> QED BY <1>1, <1>2, <1>3 DEF Inductive, Kept

LEMMA InductiveNext == Inductive /\ [Next]_vars => Inductive'
BY StateTypeNext, HistoryTypeNext, KeptNext DEF Inductive, Kept

(* Type correctness: the arbiter's fields keep their types, and no lease   *)
(* ever starts in the future, whatever ages the commands claim.            *)
THEOREM TypeCorrect == Spec => []TypeOK
<1>1. Inductive => TypeOK
  BY DEF Inductive, StateType, HistoryType, StampsPast, TypeOK
<1> QED BY <1>1, InductiveInit, InductiveNext, PTL DEF Spec

(* The inductive invariant the runs check holds for all constants.         *)
THEOREM AuthorityInvariant == Spec => []AuthorityInv
<1>1. Inductive => AuthorityInv
  BY DEF Inductive
<1> QED BY <1>1, InductiveInit, InductiveNext, PTL DEF Spec

(* The safety contract of the autonomous source: a Twist of the MPC leaves *)
(* the arbiter only under an EXECUTE that was issued within the command    *)
(* timeout, not withdrawn since it was received (a planner failure or a    *)
(* rejected command does not withdraw what is only latched), and that no   *)
(* honoured STOP outranks, whatever the timeouts, the number of managers,  *)
(* generations and epochs, and the order of the messages.                  *)
THEOREM StandingGrant == Spec => []AutoNeedsStandingGrant
<1>1. Inductive => AutoNeedsStandingGrant
  BY DEF Inductive, AutoNeedsStandingGrant, AutoWithinLease, WithinLease,
         AuthorityInv, AuthoritySound, Backed
<1> QED BY <1>1, InductiveInit, InductiveNext, PTL DEF Spec

-----------------------------------------------------------------------------
(* What the sources, the map version and the order of the commands have to *)
(* do with the Twist that is published.                                    *)

(* b was reached from a by expiring leases and revoking authority only.    *)
Expired(a, b) ==
    /\ b.manual = a.manual
    /\ b.auto.valid => a.auto.valid
    /\ b.auto.stamp = a.auto.stamp
    /\ b.emergency_stop = a.emergency_stop
    /\ b.link_up = a.link_up
    /\ b.has_link_heartbeat = a.has_link_heartbeat
    /\ b.last_link_stamp = a.last_link_stamp
    /\ b.dual_map_execute_latched = a.dual_map_execute_latched
    /\ b.planner_epoch = a.planner_epoch
    /\ b.planner_generation = a.planner_generation
    /\ b.ready_lease_generation = a.ready_lease_generation
    /\ b.map_ready_stamp = a.map_ready_stamp
    /\ b.map_ready => a.map_ready
    /\ a.planner_generation_retired => b.planner_generation_retired
    /\ a.map_ready /\ ~b.map_ready
           /\ a.ready_lease_generation = a.planner_generation
           => b.planner_generation_retired
    /\ \/ /\ b.auto_authorized = a.auto_authorized
          /\ b.supersede_deadline = a.supersede_deadline
       \/ ~b.auto_authorized /\ b.supersede_deadline = Never

LEMMA ExpiredTrans ==
    ASSUME NEW a, NEW b, NEW c, Expired(a, b), Expired(b, c)
    PROVE  Expired(a, c)
BY DEF Expired

LEMMA ClearExpired ==
    ASSUME NEW a \in Arbiter PROVE Expired(a, ClearExecutionLease(a))
BY NeverType DEF Arbiter, Expired, ClearExecutionLease

LEMMA InvalidateAutoExpired ==
    ASSUME NEW a \in Arbiter PROVE Expired(a, InvalidateAuto(a))
<1>1. a.auto \in Sample
  BY DEF Arbiter
<1>2. /\ [a.auto EXCEPT !.valid = FALSE].valid = FALSE
      /\ [a.auto EXCEPT !.valid = FALSE].stamp = a.auto.stamp
  BY <1>1 DEF Sample
<1>3. InvalidateAuto(a).auto = [a.auto EXCEPT !.valid = FALSE]
  BY DEF Arbiter, InvalidateAuto
<1> QED BY <1>2, <1>3 DEF Arbiter, Expired, InvalidateAuto

LEMMA RejectExpired ==
    ASSUME NEW a \in Arbiter
    PROVE  /\ Expired(a, RejectExecutionCommand(a))
           /\ RejectExecutionCommand(a).supersede_deadline = Never
<1>1. RejectExecutionCommand(a) = InvalidateAuto(ClearExecutionLease(a))
  BY DEF RejectExecutionCommand
<1>2. /\ ClearExecutionLease(a) \in Arbiter
      /\ Expired(a, ClearExecutionLease(a))
      /\ ~ClearExecutionLease(a).auto_authorized
      /\ ClearExecutionLease(a).supersede_deadline = Never
  BY ClearType, ClearExpired, NeverType DEF Arbiter, ClearExecutionLease
<1>3. Expired(ClearExecutionLease(a), InvalidateAuto(ClearExecutionLease(a)))
  BY <1>2, InvalidateAutoExpired
<1>4. Expired(a, RejectExecutionCommand(a))
  BY <1>1, <1>2, <1>3, ExpiredTrans
<1> QED BY <1>1, <1>2, <1>3, <1>4 DEF Expired

LEMMA RetireExpired ==
    ASSUME NEW a \in Arbiter
    PROVE  /\ Expired(a, RetirePlannerGeneration(a))
           /\ RetirePlannerGeneration(a).supersede_deadline = Never
<1> DEFINE b == [a EXCEPT !.planner_generation_usable = FALSE,
                          !.planner_generation_retired = TRUE]
<1>1. b \in Arbiter /\ Expired(a, b)
  <2>1. b \in Arbiter
    BY Zenon DEF Arbiter
  <2> QED BY <2>1 DEF Arbiter, Expired
<1>2. RetirePlannerGeneration(a) = RejectExecutionCommand(b)
  BY DEF RetirePlannerGeneration
<1> HIDE DEF b
<1> QED BY <1>1, <1>2, RejectExpired, ExpiredTrans

LEMMA LapseExpired ==
    ASSUME NEW a \in Arbiter
    PROVE  /\ Expired(a, LapseMapReady(a))
           /\ LapseMapReady(a).supersede_deadline = Never
<1> DEFINE b == LapseMapReady(a)
           p == [a EXCEPT !.map_ready = FALSE]
           q == [p EXCEPT !.planner_generation_usable = FALSE]
<1>1. p \in Arbiter /\ q \in Arbiter
  <2>1. p \in Arbiter
    BY Zenon DEF Arbiter
  <2> HIDE DEF p
  <2>2. q \in Arbiter
    BY <2>1, Zenon DEF Arbiter
  <2> QED BY <2>1, <2>2
<1>2. /\ p.auto = a.auto /\ p.manual = a.manual
      /\ p.supersede_deadline = a.supersede_deadline
      /\ p.auto_authorized = a.auto_authorized
      /\ p.emergency_stop = a.emergency_stop /\ p.link_up = a.link_up
      /\ p.has_link_heartbeat = a.has_link_heartbeat
      /\ p.last_link_stamp = a.last_link_stamp
  BY <1>1 DEF Arbiter
<1>3. /\ q.auto = a.auto /\ q.manual = a.manual
      /\ q.supersede_deadline = a.supersede_deadline
      /\ q.auto_authorized = a.auto_authorized
      /\ q.emergency_stop = a.emergency_stop /\ q.link_up = a.link_up
      /\ q.has_link_heartbeat = a.has_link_heartbeat
      /\ q.last_link_stamp = a.last_link_stamp
  BY <1>1, <1>2 DEF Arbiter
<1>4. b \in {RetirePlannerGeneration(p), RejectExecutionCommand(q)}
  BY DEF LapseMapReady
<1>5. /\ Expired(p, RetirePlannerGeneration(p))
      /\ RetirePlannerGeneration(p).supersede_deadline = Never
      /\ Expired(q, RejectExecutionCommand(q))
      /\ RejectExecutionCommand(q).supersede_deadline = Never
  BY <1>1, RetireExpired, RejectExpired
<1>6. /\ Frame(a, b) /\ ~b.auto_authorized /\ ~b.map_ready
      /\ b.dual_map_execute_latched = a.dual_map_execute_latched
      /\ \/ a.planner_generation_retired
         \/ a.planner_generation = a.ready_lease_generation
         => b.planner_generation_retired
  BY LapseEffect
<1> HIDE DEF b, p, q
<1>7. /\ b.manual = a.manual /\ (b.auto.valid => a.auto.valid)
      /\ b.auto.stamp = a.auto.stamp
      /\ b.emergency_stop = a.emergency_stop /\ b.link_up = a.link_up
      /\ b.has_link_heartbeat = a.has_link_heartbeat
      /\ b.last_link_stamp = a.last_link_stamp
      /\ b.supersede_deadline = Never
  BY <1>2, <1>3, <1>4, <1>5 DEF Expired
<1>8. Expired(a, b)
  BY <1>6, <1>7 DEF Expired, Frame
<1> QED BY <1>7, <1>8 DEF b

LEMMA ExpiryExpired ==
    ASSUME NEW a \in Arbiter
    PROVE  /\ Expired(a, ExpireMapReady(a))
           /\ Expired(a, ExpireSupersedeGrace(a))
           /\ Expired(a, ExpireExecutionLease(a))
<1>1. Expired(a, a)
  BY DEF Expired
<1> QED
  BY <1>1, LapseExpired, RejectExpired, ClearExpired
     DEF ExpireMapReady, ExpireSupersedeGrace, ExpireExecutionLease

(* After tick's expiries an authority rests on a live map lease and on a   *)
(* grace that has not run out.                                             *)
LEMMA SettledExpired ==
    ASSUME clock \in Nat, NEW a \in Arbiter
    PROVE  /\ Expired(a, Settled(a))
           /\ Settled(a).auto_authorized =>
                /\ MapReady(Settled(a))
                /\ \/ Settled(a).supersede_deadline = Never
                   \/ clock <= Settled(a).supersede_deadline
<1> DEFINE p == ExpireExecutionLease(a)
           q == ExpireMapReady(p)
           r == ExpireSupersedeGrace(q)
<1>1. p \in Arbiter /\ Expired(a, p)
  BY ExpireTypes, ExpiryExpired
<1> HIDE DEF p
<1>2. q \in Arbiter /\ Expired(p, q)
  BY <1>1, ExpireTypes, ExpiryExpired
<1> HIDE DEF q
<1>3. r \in Arbiter /\ Expired(q, r)
  BY <1>2, ExpireTypes, ExpiryExpired
<1>4. r.supersede_deadline = Never \/ clock <= r.supersede_deadline
  <2>1. q.supersede_deadline \in Int
    BY <1>2 DEF Arbiter
  <2> QED BY <1>2, <2>1, RejectExpired DEF ExpireSupersedeGrace
<1> HIDE DEF r
<1>5. Settled(a) = IF MapReady(r) THEN r ELSE RejectExecutionCommand(r)
  BY DEF Settled, p, q, r
<1>6. Expired(a, r)
  BY <1>1, <1>2, <1>3, ExpiredTrans
<1>7. CASE MapReady(r)
  BY <1>4, <1>5, <1>6, <1>7
<1>8. CASE ~MapReady(r)
  <2>1. Expired(r, RejectExecutionCommand(r))
        /\ ~RejectExecutionCommand(r).auto_authorized
    BY <1>3, RejectExpired, RejectEffect
  <2> QED BY <1>5, <1>6, <1>8, <2>1, ExpiredTrans
<1> QED BY <1>7, <1>8

-----------------------------------------------------------------------------
(* The order of the commands.                                              *)

Seen == <<arb.active_manager_incarnation, arb.last_command_sequence>>

KeepsOrder(a, b) ==
    /\ b.active_manager_incarnation = a.active_manager_incarnation
    /\ b.last_command_sequence = a.last_command_sequence

LEMMA PublishOrder ==
    ASSUME NEW a \in Arbiter, PublishSelection(a)
    PROVE  /\ KeepsOrder(a, arb')
           /\ published' = "AUTO_AUTHORIZED" => a.auto_authorized
<1>1. CASE arb' = [a EXCEPT !.link_up = FALSE] /\ published' = "LINK_DOWN"
  BY <1>1 DEF Arbiter, KeepsOrder
<1>2. CASE /\ arb' = [SerialLinkDown(a) EXCEPT !.has_link_heartbeat = FALSE]
           /\ published' = "LINK_DOWN"
  <2> DEFINE c == ClearExecutionLease(a)
             d == InvalidateAuto(c)
             e == [d EXCEPT !.manual.valid = FALSE]
             f == [e EXCEPT !.link_up = FALSE, !.dual_map_execute_latched = FALSE]
  <2>1. c \in Arbiter /\ KeepsOrder(a, c)
    BY ClearType, RejectEffect DEF Frame, KeepsOrder
  <2> HIDE DEF c
  <2>2. d \in Arbiter /\ KeepsOrder(c, d)
    BY <2>1, InvalidateAutoType DEF Arbiter, KeepsOrder, InvalidateAuto
  <2>3. InvalidateSources(c) = e
    BY DEF InvalidateSources
  <2> HIDE DEF d
  <2>4. e \in Arbiter /\ KeepsOrder(d, e)
    <3>1. e \in Arbiter
      BY <2>1, <2>3, InvalidateSourcesType
    <3> QED BY <2>2, <3>1 DEF Arbiter, KeepsOrder
  <2> HIDE DEF e
  <2>5. arb' = [f EXCEPT !.has_link_heartbeat = FALSE]
    BY <1>2, <2>3 DEF SerialLinkDown, c
  <2>6. KeepsOrder(e, arb')
    BY <2>4, <2>5 DEF Arbiter, KeepsOrder
  <2> QED BY <1>2, <2>1, <2>2, <2>4, <2>6 DEF KeepsOrder
<1>3. CASE arb' = a /\ published' \in {"LINK_DOWN", "EMERGENCY_STOP"}
  BY <1>3 DEF KeepsOrder
<1>4. CASE /\ arb' = DropStaleSamples(Settled(a))
           /\ published' = Selection(Settled(a))
  <2> DEFINE p == ExpireExecutionLease(a)
             q == ExpireMapReady(p)
             r == ExpireSupersedeGrace(q)
             b == Settled(a)
  <2>1. p \in Arbiter /\ Tamed(a, p)
    BY ExpireTypes, ExpireTamed
  <2> HIDE DEF p
  <2>2. q \in Arbiter /\ Tamed(p, q)
    BY <2>1, ExpireTypes, ExpireTamed
  <2> HIDE DEF q
  <2>3. r \in Arbiter /\ Tamed(q, r) /\ Tamed(r, RejectExecutionCommand(r))
    BY <2>2, ExpireTypes, ExpireTamed
  <2>4. b \in {r, RejectExecutionCommand(r)}
    BY DEF Settled, p, q
  <2> HIDE DEF r
  <2>5. b \in Arbiter /\ KeepsOrder(a, b) /\ (b.auto_authorized => a.auto_authorized)
    BY <2>1, <2>2, <2>3, <2>4, SettledType DEF Tamed, KeepsOrder
  <2>6. published' = "AUTO_AUTHORIZED" => b.auto_authorized
    BY <1>4 DEF Selection
  <2>7. arb' = DropStaleSamples(b)
    BY <1>4
  <2> HIDE DEF b
  <2>8. KeepsOrder(b, arb')
    BY <2>5, <2>7 DEF Arbiter, KeepsOrder, DropStaleSamples
  <2> QED BY <2>5, <2>6, <2>8 DEF KeepsOrder
<1> QED BY <1>1, <1>2, <1>3, <1>4 DEF PublishSelection

(* What a step that honours no command does to the orders: nothing but     *)
(* withdraw the grant.                                                     *)
KeepsGrant(g) == Order(g) = Order(grant) /\ (g.live => grant.live)

LEMMA WithdrawnKeeps ==
    ASSUME grant \in Grant
    PROVE  /\ KeepsGrant(grant) /\ KeepsGrant(Withdrawn(grant))
           /\ KeepsGrant(WithdrawnUnlessLatched(grant))
           /\ \A s \in Statuses : KeepsGrant(GrantAfterStatus(s))
<1>1. KeepsGrant(grant) /\ KeepsGrant(Withdrawn(grant))
  <2>1. Withdrawn(grant).live = FALSE
    BY DEF Grant, Withdrawn
  <2> QED BY <2>1, WithdrawnEffect DEF KeepsGrant
<1>2. KeepsGrant(WithdrawnUnlessLatched(grant))
  BY <1>1 DEF WithdrawnUnlessLatched
<1>3. ASSUME NEW s \in Statuses PROVE KeepsGrant(GrantAfterStatus(s))
  <2>1. KeepsGrant(Superseded(grant, s))
    BY DEF KeepsGrant, Superseded, Grant, Order
  <2> QED BY <1>1, <1>2, <2>1 DEF GrantAfterStatus
<1> QED BY <1>1, <1>2, <1>3

LEMMA OtherOrder ==
    ASSUME Inductive, [Next]_vars,
           ~(\E c \in Commands : OnExecutionCommand(c))
    PROVE  Seen' = Seen /\ KeepsGrant(grant') /\ stop' = stop
<1>1. /\ arb \in Arbiter /\ clock \in Nat /\ clock \in Int /\ grant \in Grant
      /\ AuthoritySound(arb, grant, stop)
      /\ arb.map_ready => heard.map = arb.map_ready_stamp
  BY DEF Inductive, StateType, HistoryType, AuthorityInv
<1>2. /\ KeepsGrant(grant) /\ KeepsGrant(Withdrawn(grant))
      /\ \A s \in Statuses : KeepsGrant(GrantAfterStatus(s))
  BY <1>1, WithdrawnKeeps
<1>3. CASE AdvanceClock \/ UNCHANGED vars
  BY <1>2, <1>3 DEF AdvanceClock, vars, history, Seen
<1>4. CASE OnTimer
  BY <1>1, <1>2, <1>4, PublishOrder DEF OnTimer, history, Seen, KeepsOrder
<1>5. CASE OnManual \/ OnAuto
  <2>1. KeepsOrder(arb, arb')
    BY <1>1, <1>5 DEF OnManual, OnAuto, Quietly, Arbiter, KeepsOrder
  <2> QED BY <1>2, <1>5, <2>1 DEF OnManual, OnAuto, Seen, KeepsOrder
<1>6. ASSUME NEW s \in Statuses, OnPlannerStatus(s)
      PROVE  Seen' = Seen /\ KeepsGrant(grant') /\ stop' = stop
  <2>1. /\ PlannerStatusApplied(arb, s) \in Arbiter
        /\ Tamed(arb, PlannerStatusApplied(arb, s))
    BY <1>1, StatusType, StatusSound
  <2>2. KeepsOrder(PlannerStatusApplied(arb, s), arb')
    BY <1>6, <2>1, PublishOrder DEF OnPlannerStatus
  <2> QED BY <1>2, <1>6, <2>1, <2>2 DEF OnPlannerStatus, Tamed, KeepsOrder, Seen
<1>7. ASSUME NEW ready \in BOOLEAN, OnMapReady(ready)
      PROVE  Seen' = Seen /\ KeepsGrant(grant') /\ stop' = stop
  <2>1. /\ MapReadyApplied(arb, ready) \in Arbiter
        /\ KeepsOrder(arb, MapReadyApplied(arb, ready))
    BY <1>1, MapReadyType, MapReadySound DEF KeepsOrder
  <2>2. KeepsOrder(MapReadyApplied(arb, ready), arb')
    BY <1>7, <2>1, PublishOrder DEF OnMapReady
  <2> QED BY <1>2, <1>7, <2>1, <2>2 DEF OnMapReady, KeepsOrder, Seen
<1>8. ASSUME NEW active \in BOOLEAN, OnEmergencyStop(active)
      PROVE  Seen' = Seen /\ KeepsGrant(grant') /\ stop' = stop
  <2> DEFINE b == [arb EXCEPT !.emergency_stop = active]
             c == [b EXCEPT !.dual_map_execute_latched = FALSE]
             d == ClearExecutionLease(c)
             e == InvalidateSources(d)
             f == MaybeAuthorizeLatchedExecute(b)
  <2>1. arb' \in {e, f} /\ KeepsGrant(grant') /\ stop' = stop
    BY <1>2, <1>8 DEF OnEmergencyStop, Quietly
  <2>2. /\ b \in Arbiter /\ Frame(arb, b) /\ PlannerFlags(arb, b)
        /\ b.auto_authorized = arb.auto_authorized
        /\ b.dual_map_execute_latched = arb.dual_map_execute_latched
    <3>1. b \in Arbiter
      BY <1>1, Zenon DEF Arbiter
    <3> QED BY <1>1, <3>1 DEF Arbiter, Frame, PlannerFlags
  <2> HIDE DEF b
  <2>3. AuthoritySound(b, grant, stop)
    BY <1>1, <2>2, WeakerSound
  <2>4. KeepsOrder(b, f)
    BY <2>2, <2>3, LatchSound DEF KeepsOrder
  <2>5. c \in Arbiter /\ KeepsOrder(b, c)
    <3>1. c \in Arbiter
      BY <2>2, Zenon DEF Arbiter
    <3> QED BY <2>2, <3>1 DEF Arbiter, KeepsOrder
  <2> HIDE DEF c, f
  <2>6. d \in Arbiter /\ KeepsOrder(c, d)
    BY <2>5, ClearType, RejectEffect DEF Frame, KeepsOrder
  <2> HIDE DEF d
  <2>7. KeepsOrder(d, e)
    BY <2>6, InvalidateSourcesEffect DEF Frame, KeepsOrder
  <2> HIDE DEF e
  <2> QED BY <2>1, <2>2, <2>4, <2>5, <2>6, <2>7 DEF Frame, KeepsOrder, Seen
<1>9. ASSUME NEW up \in BOOLEAN, OnLinkHealth(up)
      PROVE  Seen' = Seen /\ KeepsGrant(grant') /\ stop' = stop
  <2>1. KeepsGrant(grant') /\ stop' = stop
    BY <1>2, <1>9 DEF OnLinkHealth
  <2>2. CASE up
    <3> DEFINE b == IF arb.link_up THEN arb ELSE SerialLinkDown(arb)
               c == [b EXCEPT !.has_link_heartbeat = TRUE,
                              !.last_link_stamp = clock, !.link_up = TRUE]
               h == IF arb.link_up THEN grant ELSE Withdrawn(grant)
    <3>1. /\ b \in Arbiter /\ KeepsOrder(arb, b) /\ AuthoritySound(b, h, stop)
      BY <1>1, LinkDownType, LinkDownSound, WithdrawnEffect DEF Tamed, KeepsOrder
    <3>2. arb' = MaybeAuthorizeLatchedExecute(c)
      BY <1>9, <2>2 DEF OnLinkHealth, Quietly, SerialLinkUp
    <3> HIDE DEF b, h
    <3>3. /\ c \in Arbiter /\ Frame(b, c) /\ PlannerFlags(b, c)
          /\ c.auto_authorized = b.auto_authorized
          /\ c.dual_map_execute_latched = b.dual_map_execute_latched
      <4>1. c \in Arbiter
        BY <1>1, <3>1, Zenon DEF Arbiter
      <4> QED BY <3>1, <4>1 DEF Arbiter, Frame, PlannerFlags
    <3> HIDE DEF c
    <3>4. AuthoritySound(c, h, stop)
      BY <3>1, <3>3, WeakerSound
    <3>5. KeepsOrder(c, arb')
      BY <3>2, <3>3, <3>4, LatchSound DEF KeepsOrder
    <3> QED BY <2>1, <3>1, <3>3, <3>5 DEF Frame, KeepsOrder, Seen
  <2>3. CASE ~up
    <3> DEFINE b == [arb EXCEPT !.has_link_heartbeat = TRUE, !.last_link_stamp = clock]
    <3>1. arb' = SerialLinkDown(b)
      BY <1>9, <2>3 DEF OnLinkHealth, Quietly
    <3>2. /\ b \in Arbiter /\ Frame(arb, b) /\ PlannerFlags(arb, b)
          /\ b.auto_authorized = arb.auto_authorized
          /\ b.dual_map_execute_latched = arb.dual_map_execute_latched
      <4>1. b \in Arbiter
        BY <1>1, Zenon DEF Arbiter
      <4> QED BY <1>1, <4>1 DEF Arbiter, Frame, PlannerFlags
    <3> HIDE DEF b
    <3>3. AuthoritySound(b, grant, stop)
      BY <1>1, <3>2, WeakerSound
    <3>4. Tamed(b, arb')
      BY <3>1, <3>2, <3>3, LinkDownSound
    <3> QED BY <2>1, <3>2, <3>4 DEF Tamed, Frame, Seen
  <2> QED BY <2>2, <2>3
<1> QED
  BY <1>3, <1>4, <1>5, <1>6, <1>7, <1>8, <1>9 DEF Next

(* No grant comes after the last command honoured, and a live one names a  *)
(* manager.                                                                *)
OrderInv ==
    /\ ~Outranks(Order(grant), Seen)
    /\ grant.live => grant.incarnation # 0

(* The ends of a command: refused, a STOP, an EXECUTE that becomes a grant *)
(* and an EXECUTE that is consumed without effect.                         *)
IsRefusal == Seen' = Seen /\ KeepsGrant(grant') /\ stop' = stop

IsStop == stop' = Seen' /\ ~grant'.live /\ Order(grant') = Order(grant)

SameManager == Seen[1] # 0 => Seen'[1] = Seen[1]

IsGrant ==
    /\ SameManager /\ stop' = stop
    /\ Order(grant') = Seen' /\ grant'.live /\ grant'.incarnation # 0

IsNote == SameManager /\ stop' = stop /\ KeepsGrant(grant')

LEMMA CommandOrder ==
    ASSUME Inductive, NEW c \in Commands, OnExecutionCommand(c)
    PROVE  /\ published' # "AUTO_AUTHORIZED"
           /\ \/ IsRefusal
              \/ /\ Outranks(Seen', Seen) /\ Outranks(Seen', stop)
                 /\ Seen' \in Nat \X Nat
                 /\ IsStop \/ IsGrant \/ IsNote
<1> DEFINE b == Consumed(arb, c)
           order == <<c.incarnation, c.sequence>>
<1>1. /\ arb \in Arbiter /\ clock \in Nat /\ grant \in Grant /\ stop \in Nat \X Nat
      /\ AuthoritySound(arb, grant, stop)
      /\ ~Outranks(stop, <<arb.active_manager_incarnation, arb.last_command_sequence>>)
  BY DEF Inductive, StateType, HistoryType, AuthorityInv
<1>2. /\ KeepsGrant(grant) /\ KeepsGrant(Withdrawn(grant))
      /\ KeepsGrant(WithdrawnUnlessLatched(grant))
  BY <1>1, WithdrawnKeeps
<1>3. CASE RefuseCommand(c)
  <2>1. /\ RejectExecutionCommand(arb) \in Arbiter
        /\ KeepsOrder(arb, RejectExecutionCommand(arb))
        /\ ~RejectExecutionCommand(arb).auto_authorized
    BY <1>1, RejectType, RejectEffect DEF Frame, KeepsOrder
  <2>2. /\ KeepsOrder(RejectExecutionCommand(arb), arb')
        /\ published' # "AUTO_AUTHORIZED"
    BY <1>3, <2>1, PublishOrder DEF RefuseCommand
  <2>3. Seen' = Seen
    BY <2>1, <2>2 DEF KeepsOrder, Seen
  <2> QED BY <1>2, <1>3, <2>2, <2>3 DEF RefuseCommand, IsRefusal
<1>4. CASE ~RefuseCommand(c)
  <2>1. ~Refused(arb, c) /\ c.mode \in {"STOP", "EXECUTE"}
    BY <1>4 DEF OnExecutionCommand, HonourStop, TolerateSuperseded, RejectUnmapped,
                AuthorizeExecute, LatchExecute
  <2>2. /\ c.incarnation \in Nat /\ c.sequence \in Nat
        /\ arb.active_manager_incarnation \in Nat
        /\ arb.last_command_sequence \in Nat
    BY <1>1, MessageTypes DEF Arbiter
  <2>3. /\ Outranks(order, stop) /\ c.incarnation # 0
        /\ Outranks(order, Seen)
        /\ c.mode = "EXECUTE" /\ Seen[1] # 0 => c.incarnation = Seen[1]
    <3>1. Outranks(order, stop)
      BY <1>1, <2>1, AdmittedOutranks
    <3>2. /\ c.incarnation # 0
          /\ \/ arb.active_manager_incarnation = 0
             \/ c.incarnation > arb.active_manager_incarnation
             \/ /\ c.incarnation = arb.active_manager_incarnation
                /\ c.sequence > arb.last_command_sequence
          /\ c.mode = "EXECUTE" /\ arb.active_manager_incarnation # 0
               => c.incarnation = arb.active_manager_incarnation
      BY <2>1, <2>2 DEF Refused, Malformed, FromWrongManager, Replayed
    <3> QED BY <2>2, <3>1, <3>2 DEF Outranks, Seen
  <2>4. /\ b \in Arbiter
        /\ b.active_manager_incarnation = c.incarnation
        /\ b.last_command_sequence = c.sequence
    BY <1>1, ConsumedType, ConsumedSound
  <2> HIDE DEF b
  <2>5. ASSUME Seen' = order PROVE Outranks(Seen', Seen) /\ Outranks(Seen', stop)
                                   /\ Seen' \in Nat \X Nat
                                   /\ (c.mode = "EXECUTE" => SameManager)
    BY <2>2, <2>3, <2>5 DEF SameManager
  <2>6. CASE HonourStop(c)
    <3> DEFINE d == InvalidateAuto(ClearExecutionLease(b))
               e == [d EXCEPT !.dual_map_execute_latched = FALSE]
    <3>1. d \in Arbiter /\ KeepsOrder(b, d)
      BY <2>4, RejectType, RejectEffect DEF RejectExecutionCommand, Frame, KeepsOrder
    <3>2. arb' = e /\ published' = "NOTHING" /\ grant' = Withdrawn(grant)
          /\ stop' = order
      BY <2>6 DEF HonourStop, Quietly, b
    <3> HIDE DEF d
    <3>3. KeepsOrder(d, e)
      BY <3>1 DEF Arbiter, KeepsOrder
    <3>4. Seen' = order
      BY <2>4, <3>1, <3>2, <3>3 DEF KeepsOrder, Seen
    <3>5. Order(grant') = Order(grant) /\ ~grant'.live
      BY <1>1, <3>2, WithdrawnEffect DEF Grant, Withdrawn
    <3> QED BY <2>5, <3>2, <3>4, <3>5 DEF IsStop
  <2>7. CASE TolerateSuperseded(c)
    <3>1. arb' = b /\ published' = "NOTHING" /\ grant' = grant /\ stop' = stop
          /\ c.mode = "EXECUTE"
      BY <2>7 DEF TolerateSuperseded, Quietly, history, b
    <3> QED BY <1>2, <2>4, <2>5, <3>1 DEF IsNote, Seen
  <2>8. CASE RejectUnmapped(c)
    <3>1. /\ RejectExecutionCommand(b) \in Arbiter
          /\ KeepsOrder(b, RejectExecutionCommand(b))
          /\ ~RejectExecutionCommand(b).auto_authorized
      BY <2>4, RejectType, RejectEffect DEF Frame, KeepsOrder
    <3>2. /\ PublishSelection(RejectExecutionCommand(b))
          /\ grant' = WithdrawnUnlessLatched(grant) /\ stop' = stop
          /\ c.mode = "EXECUTE"
      BY <2>8 DEF RejectUnmapped, b
    <3>3. /\ KeepsOrder(RejectExecutionCommand(b), arb')
          /\ published' # "AUTO_AUTHORIZED"
      BY <3>1, <3>2, PublishOrder
    <3> QED BY <1>2, <2>4, <2>5, <3>1, <3>2, <3>3 DEF IsNote, KeepsOrder, Seen
  <2>9. CASE AuthorizeExecute(c) \/ LatchExecute(c)
    <3>1. KeepsOrder(b, arb') /\ published' = "NOTHING"
      BY <2>4, <2>9
         DEF AuthorizeExecute, LatchExecute, Quietly, b, Arbiter, KeepsOrder
    <3>2. grant' = GrantOf(c) /\ stop' = stop /\ c.mode = "EXECUTE"
      BY <2>9 DEF AuthorizeExecute, LatchExecute
    <3>3. Order(grant') = order /\ grant'.live /\ grant'.incarnation # 0
      BY <2>3, <3>2 DEF GrantOf, Order
    <3>4. Seen' = order
      BY <2>4, <3>1 DEF KeepsOrder, Seen
    <3> QED BY <2>5, <3>1, <3>2, <3>3, <3>4 DEF IsGrant
  <2> QED BY <1>4, <2>6, <2>7, <2>8, <2>9 DEF OnExecutionCommand
<1> QED BY <1>3, <1>4

LEMMA OrderNext ==
    ASSUME Inductive, OrderInv, [Next]_vars
    PROVE  /\ OrderInv'
           /\ grant'.live /\ (~grant.live \/ Order(grant') # Order(grant)) =>
                /\ Outranks(Order(grant'), Order(grant))
                /\ Outranks(Order(grant'), stop)
<1>1. /\ grant \in Grant /\ Seen \in Nat \X Nat
      /\ grant.incarnation \in Nat /\ grant.sequence \in Nat
  BY DEF Inductive, StateType, HistoryType, Grant, Arbiter, Seen
<1>2. ASSUME Seen' = Seen, KeepsGrant(grant')
      PROVE  /\ OrderInv'
             /\ ~(grant'.live /\ (~grant.live \/ Order(grant') # Order(grant)))
  BY <1>2 DEF OrderInv, KeepsGrant, Order
<1>3. ASSUME NEW c \in Commands, OnExecutionCommand(c), ~IsRefusal
      PROVE  /\ OrderInv'
             /\ grant'.live /\ (~grant.live \/ Order(grant') # Order(grant)) =>
                /\ Outranks(Order(grant'), Order(grant))
                /\ Outranks(Order(grant'), stop)
  <2>1. /\ Outranks(Seen', Seen) /\ Outranks(Seen', stop) /\ Seen' \in Nat \X Nat
        /\ IsStop \/ IsGrant \/ IsNote
    BY <1>3, CommandOrder
  <2>2. Outranks(Seen', Order(grant)) /\ ~Outranks(Order(grant), Seen')
    BY <1>1, <2>1 DEF OrderInv, Outranks, Order
  <2>3. ~Outranks(Seen', Seen')
    BY <2>1 DEF Outranks
  <2>4. CASE IsStop
    BY <2>2, <2>4 DEF IsStop, OrderInv
  <2>5. CASE IsGrant
    BY <2>1, <2>2, <2>3, <2>5 DEF IsGrant, OrderInv
  <2>6. CASE IsNote
    BY <2>2, <2>6 DEF IsNote, KeepsGrant, OrderInv, Order
  <2> QED BY <2>1, <2>4, <2>5, <2>6
<1>4. CASE \E c \in Commands : OnExecutionCommand(c)
  BY <1>2, <1>3, <1>4 DEF IsRefusal
<1>5. CASE ~(\E c \in Commands : OnExecutionCommand(c))
  BY <1>2, <1>5, OtherOrder
<1> QED BY <1>4, <1>5

LEMMA OrderInit == Init => OrderInv
BY DEF Init, InitialArbiter, NoGrant, OrderInv, Outranks, Order, Seen

(* No order is honoured twice and none after a later one, whatever the     *)
(* network replays and however many managers come and go.                  *)
THEOREM NoReplay == Spec => NoReplayedGrant
<1>1. Inductive /\ OrderInv /\ [Next]_vars =>
          [(grant'.live /\ (~grant.live \/ Order(grant') # Order(grant))) =>
            /\ Outranks(Order(grant'), Order(grant))
            /\ Outranks(Order(grant'), stop)]_vars
  BY OrderNext
<1>2. Inductive /\ OrderInv /\ [Next]_vars => OrderInv'
  BY OrderNext
<1> QED
  BY <1>1, <1>2, OrderInit, InductiveInit, InductiveNext, PTL
     DEF Spec, NoReplayedGrant

LEMMA LicenceFacts ==
    /\ Inductive /\ OrderInv => (published = "AUTO_AUTHORIZED" => grant.live)
    /\ Inductive /\ OrderInv => (grant.live => Licence = Order(grant)
                                               /\ Licence # <<0, 0>>)
    /\ ~grant.live => Licence = <<0, 0>>
<1>1. Inductive => (published = "AUTO_AUTHORIZED" => grant.live)
  BY DEF Inductive, AutoWithinLease, AuthorityInv, AuthoritySound, Backed
<1>2. OrderInv => (grant.live => Licence = Order(grant) /\ Licence # <<0, 0>>)
  BY DEF OrderInv, Licence, Order
<1>3. ~grant.live => Licence = <<0, 0>>
  BY DEF Licence
<1> QED BY <1>1, <1>2, <1>3

LEMMA StepPromised ==
    ASSUME Inductive, OrderInv, Inductive', OrderInv', [Next]_vars
    PROVE  [Abstract!Next]_(Abstract!vars)
<1> DEFINE moves == published = "AUTO_AUTHORIZED"
<1>1. /\ Licence = IF grant.live THEN Order(grant) ELSE <<0, 0>>
      /\ Licence' = IF grant'.live THEN Order(grant') ELSE <<0, 0>>
      /\ moves' => grant'.live
      /\ grant'.live => Licence' # <<0, 0>>
  BY LicenceFacts DEF Licence, Inductive, AutoWithinLease, AuthorityInv,
                      AuthoritySound, Backed, OrderInv, Order
<1>2. Seen \in Nat \X Nat
  BY DEF Inductive, StateType, Arbiter, Seen
<1>3. \A x, y : Abstract!After(x, y) <=> Outranks(x, y)
  BY DEF Abstract!After, Outranks
<1>4. ASSUME Seen' = Seen, KeepsGrant(grant') PROVE Abstract!Next
  <2>1. CASE Licence' = Licence /\ moves'
    BY <1>1, <1>4, <2>1 DEF Abstract!Next, Abstract!Move, Abstract!NoLicence, Seen
  <2>2. CASE Licence' = Licence /\ ~moves'
    BY <1>4, <2>2 DEF Abstract!Next, Abstract!Halt, Seen
  <2>3. CASE Licence' # Licence
    <3>1. ~grant'.live /\ Licence' = <<0, 0>> /\ ~moves'
      BY <1>1, <1>4, <2>3 DEF KeepsGrant
    <3> QED
      BY <1>2, <1>4, <3>1
         DEF Abstract!Next, Abstract!Revoke, Abstract!NoLicence, Abstract!Orders, Seen
  <2> QED BY <2>1, <2>2, <2>3
<1>5. ASSUME ~moves', Outranks(Seen', Seen), Seen' \in Nat \X Nat,
             IsStop \/ IsGrant \/ IsNote
      PROVE  Abstract!Next
  <2>1. Abstract!After(Seen', Seen) /\ Seen' \in Abstract!Orders
    BY <1>3, <1>5 DEF Abstract!Orders
  <2>2. ASSUME Licence' = <<0, 0>> PROVE Abstract!Next
    BY <1>5, <2>1, <2>2
       DEF Abstract!Next, Abstract!Revoke, Abstract!NoLicence, Seen
  <2>3. CASE IsStop
    BY <1>1, <2>2, <2>3 DEF IsStop
  <2>4. CASE IsGrant
    <3>1. Licence' = Seen' /\ Seen[1] \in {0, Seen'[1]}
      BY <1>1, <2>4 DEF IsGrant, SameManager
    <3> QED
      BY <1>5, <2>1, <3>1 DEF Abstract!Next, Abstract!Grant, Seen
  <2>5. CASE IsNote /\ grant'.live
    <3>1. Licence' = Licence
      BY <1>1, <2>5 DEF IsNote, KeepsGrant
    <3>2. Seen[1] # 0
      <4>1. grant.incarnation \in Nat /\ grant.incarnation # 0
        BY <2>5 DEF IsNote, KeepsGrant, OrderInv, Inductive, HistoryType, Grant
      <4> QED BY <1>2, <4>1 DEF OrderInv, Outranks, Order
    <3>3. Seen'[1] = Seen[1]
      BY <2>5, <3>2 DEF IsNote, SameManager
    <3> QED
      BY <1>5, <2>1, <3>1, <3>3 DEF Abstract!Next, Abstract!Note, Seen
  <2>6. CASE IsNote /\ ~grant'.live
    BY <1>1, <2>2, <2>6
  <2> QED BY <1>5, <2>3, <2>4, <2>5, <2>6
<1>6. CASE \E c \in Commands : OnExecutionCommand(c)
  BY <1>4, <1>5, <1>6, CommandOrder DEF IsRefusal
<1>7. CASE ~(\E c \in Commands : OnExecutionCommand(c))
  BY <1>4, <1>7, OtherOrder
<1> QED BY <1>6, <1>7

(* The arbiter keeps the promise that the MPC gate keeps as well: the      *)
(* chassis moves autonomously only under a licence, licences follow the    *)
(* managers' order, and a new manager introduces itself with a STOP.       *)
THEOREM ArbiterImplementsLicence == Spec => ImplementsLicence
<1>1. Init => Abstract!Init
  BY DEF Init, InitialArbiter, NoGrant, Licence, Abstract!Init, Abstract!NoLicence
<1>2. Inductive /\ OrderInv /\ [Next]_vars => OrderInv'
  BY OrderNext
<1>3. Inductive /\ OrderInv /\ Inductive' /\ OrderInv' /\ [Next]_vars
          => [Abstract!Next]_(Abstract!vars)
  BY StepPromised
<1> QED
  BY <1>1, <1>2, <1>3, OrderInit, InductiveInit, InductiveNext, PTL
     DEF Spec, ImplementsLicence, Abstract!Spec

-----------------------------------------------------------------------------
(* What the larger helpers do to the sources, the link and the map.        *)

LEMMA ConsumedExpired ==
    ASSUME NEW a \in Arbiter, NEW c \in Commands
    PROVE  Expired(a, Consumed(a, c))
<1> DEFINE p == IF TakesOver(a, c) THEN InvalidateAuto(ClearExecutionLease(a)) ELSE a
           q == [p EXCEPT !.active_manager_incarnation = c.incarnation,
                          !.last_command_sequence = c.sequence]
           r == ExpireMapReady(q)
           b == ExpireSupersedeGrace(r)
<1>1. p \in Arbiter /\ Expired(a, p)
  <2>1. RejectExecutionCommand(a) \in Arbiter /\ Expired(a, RejectExecutionCommand(a))
    BY RejectType, RejectExpired
  <2>2. Expired(a, a)
    BY DEF Expired
  <2> QED BY <2>1, <2>2 DEF RejectExecutionCommand
<1> HIDE DEF p
<1>2. q \in Arbiter /\ Expired(p, q)
  <2>1. c.incarnation \in Nat /\ c.sequence \in Nat
    BY MessageTypes
  <2>2. q \in Arbiter
    BY <1>1, <2>1, Zenon DEF Arbiter
  <2> QED BY <1>1, <2>2 DEF Arbiter, Expired
<1> HIDE DEF q
<1>3. r \in Arbiter /\ Expired(q, r)
  BY <1>2, ExpireTypes, ExpiryExpired
<1> HIDE DEF r
<1>4. Expired(r, b)
  BY <1>3, ExpiryExpired
<1>5. Consumed(a, c) = b
  BY DEF Consumed, p, q, r
<1> HIDE DEF b
<1> QED BY <1>1, <1>2, <1>3, <1>4, <1>5, ExpiredTrans

(* b is a without its samples.                                             *)
Silenced(a, b) ==
    /\ ~b.manual.valid /\ ~b.auto.valid
    /\ b.emergency_stop = a.emergency_stop
    /\ b.has_link_heartbeat = a.has_link_heartbeat
    /\ b.last_link_stamp = a.last_link_stamp
    /\ b.planner_epoch = a.planner_epoch
    /\ b.planner_generation = a.planner_generation
    /\ b.planner_generation_retired = a.planner_generation_retired
    /\ b.ready_lease_generation = a.ready_lease_generation
    /\ b.map_ready = a.map_ready
    /\ b.map_ready_stamp = a.map_ready_stamp

LEMMA SilenceEffect ==
    ASSUME NEW a \in Arbiter
    PROVE  /\ Silenced(a, InvalidateSources(a))
           /\ InvalidateSources(a).link_up = a.link_up
           /\ InvalidateSources(a).auto_authorized = a.auto_authorized
           /\ InvalidateSources(a).supersede_deadline = a.supersede_deadline
           /\ InvalidateSources(a).dual_map_execute_latched
                = a.dual_map_execute_latched
<1> DEFINE d == InvalidateAuto(a)
           e == [d EXCEPT !.manual.valid = FALSE]
<1>1. a.auto \in Sample
  BY DEF Arbiter
<1>2. d \in Arbiter /\ d.auto = [a.auto EXCEPT !.valid = FALSE]
  BY InvalidateAutoType DEF Arbiter, InvalidateAuto
<1>3. ~d.auto.valid
  BY <1>1, <1>2 DEF Sample
<1>4. /\ d.emergency_stop = a.emergency_stop /\ d.link_up = a.link_up
      /\ d.has_link_heartbeat = a.has_link_heartbeat
      /\ d.last_link_stamp = a.last_link_stamp
      /\ d.auto_authorized = a.auto_authorized
      /\ d.supersede_deadline = a.supersede_deadline
      /\ d.dual_map_execute_latched = a.dual_map_execute_latched
      /\ Frame(a, d) /\ PlannerFlags(a, d)
  BY <1>2 DEF Arbiter, InvalidateAuto, Frame, PlannerFlags
<1>5. InvalidateSources(a) = e
  BY DEF InvalidateSources
<1>6. e \in Arbiter
  BY <1>5, InvalidateSourcesType
<1> HIDE DEF d
<1>7. d.manual \in Sample
  BY <1>2 DEF Arbiter
<1>8. e.manual = [d.manual EXCEPT !.valid = FALSE] /\ e.auto = d.auto
  BY <1>2 DEF Arbiter
<1>9. ~e.manual.valid
  BY <1>7, <1>8 DEF Sample
<1>10. /\ e.emergency_stop = d.emergency_stop /\ e.link_up = d.link_up
       /\ e.has_link_heartbeat = d.has_link_heartbeat
       /\ e.last_link_stamp = d.last_link_stamp
       /\ e.auto_authorized = d.auto_authorized
       /\ e.supersede_deadline = d.supersede_deadline
       /\ e.dual_map_execute_latched = d.dual_map_execute_latched
       /\ Frame(d, e) /\ PlannerFlags(d, e)
  BY <1>2 DEF Arbiter, Frame, PlannerFlags
<1> HIDE DEF e
<1> QED
  BY <1>3, <1>4, <1>5, <1>8, <1>9, <1>10 DEF Silenced, Frame, PlannerFlags

LEMMA LinkDownEffect ==
    ASSUME NEW a \in Arbiter
    PROVE  /\ Silenced(a, SerialLinkDown(a))
           /\ ~SerialLinkDown(a).link_up
           /\ ~SerialLinkDown(a).auto_authorized
           /\ SerialLinkDown(a).supersede_deadline = Never
           /\ ~SerialLinkDown(a).dual_map_execute_latched
<1> DEFINE c == ClearExecutionLease(a)
           e == InvalidateSources(c)
           b == [e EXCEPT !.link_up = FALSE, !.dual_map_execute_latched = FALSE]
<1>1. /\ c \in Arbiter /\ Frame(a, c) /\ PlannerFlags(a, c) /\ Expired(a, c)
      /\ ~c.auto_authorized /\ c.supersede_deadline = Never
  BY ClearType, RejectEffect, ClearExpired, NeverType DEF Arbiter, ClearExecutionLease
<1> HIDE DEF c
<1>2. /\ e \in Arbiter /\ Silenced(c, e)
      /\ ~e.auto_authorized /\ e.supersede_deadline = Never
  BY <1>1, InvalidateSourcesType, SilenceEffect
<1> HIDE DEF e
<1>3. /\ Silenced(e, b) /\ ~b.link_up /\ ~b.dual_map_execute_latched
      /\ b.auto_authorized = e.auto_authorized
      /\ b.supersede_deadline = e.supersede_deadline
  BY <1>2 DEF Arbiter, Silenced
<1>4. SerialLinkDown(a) = b
  BY DEF SerialLinkDown, c, e
<1> HIDE DEF b
<1> QED BY <1>1, <1>2, <1>3, <1>4 DEF Silenced, Frame, PlannerFlags, Expired

(* Everything but the authority and the latch is as in b.                  *)
Unlatched(b, r) ==
    /\ r.manual = b.manual /\ r.auto = b.auto
    /\ r.emergency_stop = b.emergency_stop
    /\ r.link_up = b.link_up
    /\ r.has_link_heartbeat = b.has_link_heartbeat
    /\ r.last_link_stamp = b.last_link_stamp
    /\ r.planner_epoch = b.planner_epoch
    /\ r.planner_generation = b.planner_generation
    /\ r.planner_generation_retired = b.planner_generation_retired
    /\ r.ready_lease_generation = b.ready_lease_generation
    /\ r.map_ready = b.map_ready
    /\ r.map_ready_stamp = b.map_ready_stamp
    /\ r.supersede_deadline = b.supersede_deadline
    /\ ~r.dual_map_execute_latched

LEMMA LatchEffect ==
    ASSUME NEW a \in Arbiter
    PROVE  \/ MaybeAuthorizeLatchedExecute(a) = a
           \/ /\ a.dual_map_execute_latched /\ ~a.emergency_stop /\ a.link_up
              /\ Unlatched(ExpireMapReady(a), MaybeAuthorizeLatchedExecute(a))
              /\ \/ MaybeAuthorizeLatchedExecute(a).auto_authorized
                      = ExpireMapReady(a).auto_authorized
                 \/ NamesUsableGeneration(
                        ExpireMapReady(a),
                        ExpireMapReady(a).latched_execute_epoch,
                        ExpireMapReady(a).latched_execute_generation)
<1> DEFINE b == ExpireMapReady(a)
           r == MaybeAuthorizeLatchedExecute(a)
           u == [b EXCEPT !.dual_map_execute_latched = FALSE]
           v == [u EXCEPT !.auto_authorized = TRUE,
                          !.execution_lease_stamp = b.latched_execute_stamp]
           usable == NamesUsableGeneration(b, b.latched_execute_epoch,
                                           b.latched_execute_generation)
<1>1. b \in Arbiter
  BY ExpireTypes
<1>2. \/ r = a
      \/ /\ a.dual_map_execute_latched /\ ~a.emergency_stop /\ a.link_up
         /\ r = u \/ (r = v /\ usable)
  BY DEF MaybeAuthorizeLatchedExecute
<1> HIDE DEF b, r, usable
<1>3. u \in Arbiter /\ Unlatched(b, u) /\ u.auto_authorized = b.auto_authorized
  <2>1. u \in Arbiter
    BY <1>1, Zenon DEF Arbiter
  <2> QED BY <1>1, <2>1 DEF Arbiter, Unlatched
<1> HIDE DEF u
<1>4. Unlatched(u, v)
  BY <1>3 DEF Arbiter, Unlatched
<1>5. Unlatched(b, v)
  BY <1>3, <1>4 DEF Unlatched
<1> HIDE DEF v
<1>6. \/ r = a
      \/ /\ a.dual_map_execute_latched /\ ~a.emergency_stop /\ a.link_up
         /\ Unlatched(b, r)
         /\ r.auto_authorized = b.auto_authorized \/ usable
  BY <1>2, <1>3, <1>5
<1> QED BY <1>6 DEF b, r, usable

-----------------------------------------------------------------------------
(* The sources.                                                            *)

(* A valid sample is the last one heard, a manual sample that is recent is *)
(* valid as long as the link is up, and the link is up exactly as long as  *)
(* its heartbeat was heard recently.                                       *)
SourcesSound(a, h, t) ==
    /\ a.manual.valid => h.manual = a.manual.stamp /\ h.manual # Never
    /\ a.auto.valid => h.auto = a.auto.stamp /\ h.auto # Never
    /\ a.map_ready => h.map = a.map_ready_stamp /\ h.map # Never
    /\ h.manual <= t /\ h.link <= t
    /\ a.link_up /\ ManualTimeout > 0 /\ h.manual # Never
           /\ t - h.manual <= ManualTimeout => a.manual.valid
    /\ a.link_up => a.has_link_heartbeat
    /\ RequireSerialLink \/ a.link_up
    /\ RequireSerialLink /\ a.link_up => h.link = a.last_link_stamp /\ h.link # Never
    /\ RequireSerialLink /\ ~a.link_up /\ h.link # Never =>
           LinkTimeout > 0 /\ t - h.link > LinkTimeout

HeardType == [manual : Int, auto : Int, link : Int, map : Int]

(* b holds nothing of the sources, the link and the map that a does not.   *)
SourceFrame(a, b) ==
    /\ b.manual = a.manual
    /\ b.auto.valid => a.auto.valid
    /\ b.auto.stamp = a.auto.stamp
    /\ b.link_up = a.link_up
    /\ b.has_link_heartbeat = a.has_link_heartbeat
    /\ b.last_link_stamp = a.last_link_stamp
    /\ b.map_ready_stamp = a.map_ready_stamp
    /\ b.map_ready => a.map_ready

LEMMA FrameSources ==
    ASSUME NEW a, NEW b, NEW h, NEW t, SourcesSound(a, h, t), SourceFrame(a, b)
    PROVE  SourcesSound(b, h, t)
BY DEF SourcesSound, SourceFrame

LEMMA ExpiredIsFramed ==
    ASSUME NEW a, NEW b, Expired(a, b) PROVE SourceFrame(a, b)
BY DEF Expired, SourceFrame

LEMMA LatchFramed ==
    ASSUME NEW a \in Arbiter
    PROVE  SourceFrame(a, MaybeAuthorizeLatchedExecute(a))
<1>1. SourceFrame(a, ExpireMapReady(a)) /\ SourceFrame(a, a)
  BY ExpiryExpired, ExpiredIsFramed DEF SourceFrame
<1>2. CASE MaybeAuthorizeLatchedExecute(a) = a
  BY <1>1, <1>2
<1>3. CASE Unlatched(ExpireMapReady(a), MaybeAuthorizeLatchedExecute(a))
  BY <1>1, <1>3 DEF Unlatched, SourceFrame
<1> QED BY <1>2, <1>3, LatchEffect

(* Nobody hears a link that is down.                                       *)
LEMMA DownIsUnheard ==
    ASSUME NEW a \in Arbiter, NEW h \in HeardType, NEW t \in Nat,
           SourcesSound(a, h, t), ~a.link_up
    PROVE  /\ RequireSerialLink
           /\ \/ h.link = Never
              \/ LinkTimeout > 0 /\ t - h.link \notin 0..LinkTimeout
<1>1. h.link \in Int /\ LinkTimeout \in Nat
  BY ConfigAssumption DEF HeardType
<1> QED BY <1>1 DEF SourcesSound

(* MotionRestsOnLiveInputs but for the EXECUTE, which is StandingGrant's.  *)
SourcesHeard ==
    /\ published \in {"MANUAL_FRESH", "AUTO_AUTHORIZED"} =>
           LinkHeard /\ ~arb.emergency_stop
    /\ published = "MANUAL_FRESH" => Heard(heard.manual, ManualTimeout)
    /\ published = "AUTO_AUTHORIZED" =>
           Heard(heard.auto, AutoTimeout) /\ Heard(heard.map, MapReadyTimeout)

(* What the step publishes is as the properties of the sources ask.        *)
SourcesHonest == SourcesHeard /\ ManualPreempts

LEMMA QuietSources ==
    ASSUME NEW a \in Arbiter, Quietly(a), SourcesSound(a, heard', clock')
    PROVE  SourcesSound(arb', heard', clock') /\ SourcesHonest'
BY DEF Quietly, SourcesHonest, SourcesHeard, ManualPreempts

LEMMA PublishDown ==
    ASSUME NEW a \in Arbiter, clock \in Nat, heard' \in HeardType,
           SourcesSound(arb', heard', clock), arb' \in Arbiter,
           ~arb'.link_up, published' = "LINK_DOWN", clock' = clock
    PROVE  SourcesHonest'
<1>1. /\ RequireSerialLink
      /\ \/ heard'.link = Never
         \/ LinkTimeout > 0 /\ clock - heard'.link \notin 0..LinkTimeout
  BY DownIsUnheard
<1>2. ~LinkHeard'
  BY <1>1 DEF LinkHeard, Heard
<1> QED
  BY <1>2 DEF SourcesHonest, SourcesHeard, ManualPreempts

LEMMA PublishChosen ==
    ASSUME NEW a \in Arbiter, clock \in Nat, heard' \in HeardType, clock' = clock,
           SourcesSound(a, heard', clock), ~LinkExpired(a), a.link_up,
           ~a.emergency_stop,
           arb' = DropStaleSamples(Settled(a)),
           published' = Selection(Settled(a))
    PROVE  SourcesSound(arb', heard', clock') /\ SourcesHonest'
<1> DEFINE b == Settled(a)
           fresh == IsFresh(b.manual, ManualTimeout)
           ready == IsFresh(b.auto, AutoTimeout)
<1>1. /\ b \in Arbiter /\ SourceFrame(a, b)
      /\ b.emergency_stop = a.emergency_stop
      /\ b.auto_authorized => MapReady(b)
  BY SettledType, SettledExpired, ExpiredIsFramed DEF Expired
<1>2. SourcesSound(b, heard', clock)
  BY <1>1, FrameSources
<1>3. arb' = DropStaleSamples(b) /\ published' = Selection(b)
  OBVIOUS
<1> HIDE DEF b
<1>4. /\ heard'.manual \in Int /\ heard'.auto \in Int /\ heard'.link \in Int
      /\ heard'.map \in Int
      /\ ManualTimeout \in Nat /\ AutoTimeout \in Nat /\ LinkTimeout \in Nat
      /\ MapReadyTimeout \in Nat
      /\ b.manual \in Sample /\ b.auto \in Sample
      /\ b.manual.stamp \in Int /\ b.auto.stamp \in Int
  BY <1>1, ConfigAssumption DEF HeardType, Arbiter, Sample
<1>5. fresh \in BOOLEAN /\ ready \in BOOLEAN
  BY DEF IsFresh
<1>6. /\ fresh => b.manual.valid /\ Heard(heard'.manual, ManualTimeout)
      /\ ready => b.auto.valid /\ Heard(heard'.auto, AutoTimeout)
  BY <1>2 DEF IsFresh, Heard, SourcesSound
<1>7. ManualTimeout > 0 /\ Heard(heard'.manual, ManualTimeout) => fresh
  <2> SUFFICES ASSUME ManualTimeout > 0, Heard(heard'.manual, ManualTimeout)
               PROVE  fresh
    OBVIOUS
  <2>1. b.link_up /\ heard'.manual # Never
        /\ clock - heard'.manual \in 0..ManualTimeout
        /\ clock - heard'.manual <= ManualTimeout
    BY <1>1, <1>4 DEF Heard, SourceFrame
  <2>2. b.manual.valid
    BY <1>2, <2>1 DEF SourcesSound
  <2>3. b.manual.stamp = heard'.manual
    BY <1>2, <2>2 DEF SourcesSound
  <2> QED BY <2>1, <2>2, <2>3 DEF IsFresh
<1>8. /\ arb' \in Arbiter
      /\ arb'.manual = [b.manual EXCEPT !.valid = fresh]
      /\ arb'.auto = [b.auto EXCEPT !.valid = ready]
      /\ arb'.link_up = b.link_up
      /\ arb'.has_link_heartbeat = b.has_link_heartbeat
      /\ arb'.last_link_stamp = b.last_link_stamp
      /\ arb'.map_ready = b.map_ready
      /\ arb'.map_ready_stamp = b.map_ready_stamp
      /\ arb'.emergency_stop = b.emergency_stop
  <2>1. arb' \in Arbiter
    BY <1>1, <1>3, DropStaleType
  <2> HIDE DEF fresh, ready
  <2>2. arb' = [b EXCEPT !.manual.valid = fresh, !.auto.valid = ready]
    BY <1>3 DEF DropStaleSamples, fresh, ready
  <2> QED BY <1>1, <2>1, <2>2 DEF Arbiter
<1>9. published' = "MANUAL_FRESH" <=> fresh
  BY <1>3 DEF Selection
<1>10. published' = "AUTO_AUTHORIZED" => ready /\ b.auto_authorized
  BY <1>3 DEF Selection
<1> HIDE DEF fresh, ready
<1>11. /\ arb'.manual.valid = fresh /\ arb'.manual.stamp = b.manual.stamp
       /\ arb'.auto.valid = ready /\ arb'.auto.stamp = b.auto.stamp
  BY <1>4, <1>5, <1>8, Zenon DEF Sample
<1>12. SourcesSound(arb', heard', clock)
  BY <1>2, <1>4, <1>6, <1>7, <1>8, <1>11 DEF SourcesSound, Heard
<1>13. /\ published' = "MANUAL_FRESH" => Heard(heard'.manual, ManualTimeout)
       /\ published' = "AUTO_AUTHORIZED" => Heard(heard'.auto, AutoTimeout)
  BY <1>6, <1>9, <1>10
<1>14. published' = "AUTO_AUTHORIZED" => Heard(heard'.map, MapReadyTimeout)
  BY <1>1, <1>2, <1>10 DEF MapReady, SourcesSound, Heard
<1>15. LinkHeard'
  BY <1>1, <1>2 DEF LinkHeard, Heard, LinkExpired, SourcesSound, SourceFrame
<1>16. ~arb'.emergency_stop
  BY <1>1, <1>8
<1>17. SourcesHeard'
  BY <1>13, <1>14, <1>15, <1>16 DEF SourcesHeard, Heard
<1>18. ManualPreempts'
  BY <1>7, <1>9 DEF ManualPreempts, Heard
<1> QED BY <1>12, <1>17, <1>18 DEF SourcesHonest

LEMMA PublishSources ==
    ASSUME NEW a \in Arbiter, clock \in Nat, heard' \in HeardType, clock' = clock,
           SourcesSound(a, heard', clock), PublishSelection(a)
    PROVE  SourcesSound(arb', heard', clock') /\ SourcesHonest'
<1>0. arb' \in Arbiter
  BY PublishType
<1>1. CASE /\ ~a.has_link_heartbeat
           /\ arb' = [a EXCEPT !.link_up = FALSE] /\ published' = "LINK_DOWN"
  <2>1. ~a.link_up
    BY <1>1 DEF SourcesSound
  <2>2. /\ SourceFrame(a, arb') /\ ~arb'.link_up
    <3>1. /\ arb'.manual = a.manual /\ arb'.auto = a.auto
          /\ arb'.has_link_heartbeat = a.has_link_heartbeat
          /\ arb'.last_link_stamp = a.last_link_stamp
          /\ arb'.map_ready = a.map_ready
          /\ arb'.map_ready_stamp = a.map_ready_stamp
          /\ arb'.link_up = FALSE
      BY <1>1 DEF Arbiter
    <3>2. a.link_up \in BOOLEAN
      BY DEF Arbiter
    <3> QED BY <2>1, <3>1, <3>2 DEF SourceFrame
  <2>3. SourcesSound(arb', heard', clock)
    BY <2>2, FrameSources
  <2> QED BY <1>0, <1>1, <2>2, <2>3, PublishDown
<1>2. CASE /\ LinkExpired(a)
           /\ arb' = [SerialLinkDown(a) EXCEPT !.has_link_heartbeat = FALSE]
           /\ published' = "LINK_DOWN"
  <2> DEFINE b == SerialLinkDown(a)
  <2>1. b \in Arbiter /\ Silenced(a, b) /\ ~b.link_up
    BY LinkDownType, LinkDownEffect
  <2>2. arb' = [b EXCEPT !.has_link_heartbeat = FALSE]
    BY <1>2
  <2> HIDE DEF b
  <2>3. /\ arb'.manual = b.manual /\ arb'.auto = b.auto
        /\ arb'.map_ready = b.map_ready
        /\ arb'.map_ready_stamp = b.map_ready_stamp
        /\ arb'.link_up = b.link_up
    BY <2>1, <2>2 DEF Arbiter
  <2>4. heard'.link \in Int /\ LinkTimeout \in Nat
    BY ConfigAssumption DEF HeardType
  <2>5. RequireSerialLink /\ LinkTimeout > 0
        /\ clock - a.last_link_stamp \notin 0..LinkTimeout
    BY <1>2 DEF LinkExpired
  <2>6. heard'.link # Never => clock - heard'.link > LinkTimeout
    BY <2>4, <2>5 DEF SourcesSound
  <2>7. SourcesSound(arb', heard', clock)
    BY <2>1, <2>3, <2>5, <2>6 DEF SourcesSound, Silenced
  <2> QED BY <1>0, <1>2, <2>1, <2>3, <2>7, PublishDown
<1>3. CASE ~a.link_up /\ arb' = a /\ published' = "LINK_DOWN"
  BY <1>0, <1>3, PublishDown
<1>4. CASE a.emergency_stop /\ arb' = a /\ published' = "EMERGENCY_STOP"
  BY <1>4 DEF SourcesHonest, SourcesHeard, ManualPreempts
<1>5. CASE /\ ~LinkExpired(a) /\ a.link_up /\ ~a.emergency_stop
           /\ arb' = DropStaleSamples(Settled(a))
           /\ published' = Selection(Settled(a))
  BY <1>5, PublishChosen
<1> QED BY <1>1, <1>2, <1>3, <1>4, <1>5 DEF PublishSelection

SourceInv == SourcesSound(arb, heard, clock) /\ SourcesHonest

LEMMA StatusFramed ==
    ASSUME clock \in Nat, NEW a \in Arbiter, NEW s \in Statuses
    PROVE  SourceFrame(a, PlannerStatusApplied(a, s))
<1> DEFINE p == IF Supersedes(a, s) THEN Graced(a) ELSE RejectExecutionCommand(a)
           b == AdoptIdentity(a, s)
           c == [b EXCEPT !.planner_status_stamp = s.stamp]
           d == [c EXCEPT !.planner_generation_usable = TRUE,
                          !.ready_lease_generation = c.planner_generation]
           e == [c EXCEPT !.planner_generation_usable = FALSE,
                          !.planner_generation_retired =
                              @ \/ s.verdict = "MAP_UNREADY"]
<1>1. s.epoch \in Nat /\ s.generation \in Nat /\ s.stamp \in Int
  BY MessageTypes
<1>2. SourceFrame(a, a)
  BY DEF SourceFrame
<1>3. p \in Arbiter /\ SourceFrame(a, p)
  <2>1. clock + SupersedeGrace \in Int /\ a.planner_generation \in Nat
    BY ConfigAssumption DEF Arbiter
  <2>2. Graced(a) \in Arbiter
    BY <2>1, Zenon DEF Arbiter, Graced
  <2>3. SourceFrame(a, Graced(a))
    BY <2>2 DEF Graced, SourceFrame, Arbiter
  <2> QED BY <2>2, <2>3, RejectType, RejectExpired, ExpiredIsFramed
<1> HIDE DEF p
<1>4. b \in Arbiter /\ SourceFrame(a, b)
  <2>1. b \in Arbiter
    BY AdoptType
  <2>2. \/ b = a
        \/ b = [p EXCEPT !.planner_epoch = s.epoch,
                         !.planner_generation = s.generation,
                         !.planner_generation_usable = FALSE,
                         !.planner_generation_retired = FALSE]
    BY DEF AdoptIdentity, p
  <2> HIDE DEF b
  <2>3. CASE b = a
    BY <1>2, <2>3
  <2>4. CASE b = [p EXCEPT !.planner_epoch = s.epoch,
                           !.planner_generation = s.generation,
                           !.planner_generation_usable = FALSE,
                           !.planner_generation_retired = FALSE]
    <3>1. /\ b.manual = p.manual /\ b.auto = p.auto /\ b.link_up = p.link_up
          /\ b.has_link_heartbeat = p.has_link_heartbeat
          /\ b.last_link_stamp = p.last_link_stamp
          /\ b.map_ready_stamp = p.map_ready_stamp
          /\ b.map_ready = p.map_ready
      BY <1>3, <2>4 DEF Arbiter
    <3> QED BY <1>3, <2>1, <3>1 DEF SourceFrame
  <2> QED BY <2>1, <2>2, <2>3, <2>4
<1> HIDE DEF b
<1>5. c \in Arbiter /\ SourceFrame(a, c)
  <2>1. c \in Arbiter
    BY <1>1, <1>4, Zenon DEF Arbiter
  <2> QED BY <1>4, <2>1 DEF SourceFrame, Arbiter
<1> HIDE DEF c
<1>6. SourceFrame(a, d)
  BY <1>5 DEF SourceFrame, Arbiter
<1>7. SourceFrame(a, RejectExecutionCommand(e))
  <2>1. e \in Arbiter
    <3>1. (c.planner_generation_retired \/ s.verdict = "MAP_UNREADY") \in BOOLEAN
      OBVIOUS
    <3> QED BY <1>5, <3>1, Zenon DEF Arbiter
  <2>2. SourceFrame(a, e)
    BY <1>5, <2>1 DEF SourceFrame, Arbiter
  <2> HIDE DEF e
  <2>3. SourceFrame(e, RejectExecutionCommand(e))
    BY <2>1, RejectExpired, ExpiredIsFramed
  <2> QED BY <2>2, <2>3 DEF SourceFrame
<1>8. PlannerStatusApplied(a, s) \in {a, c, d, RejectExecutionCommand(e)}
  BY DEF PlannerStatusApplied, ApplyVerdict, b, c
<1> HIDE DEF d, e
<1> QED BY <1>2, <1>5, <1>6, <1>7, <1>8

LEMMA CommandSources ==
    ASSUME Inductive, SourceInv, NEW c \in Commands, OnExecutionCommand(c)
    PROVE  SourceInv'
<1> DEFINE b == Consumed(arb, c)
<1>1. /\ arb \in Arbiter /\ clock \in Nat /\ heard \in HeardType
      /\ SourcesSound(arb, heard, clock)
  BY DEF Inductive, StateType, HistoryType, SourceInv, HeardType
<1>2. heard' = heard /\ clock' = clock
  BY <1>1 DEF OnExecutionCommand, RefuseCommand, HonourStop, TolerateSuperseded,
         RejectUnmapped, AuthorizeExecute, LatchExecute, history
<1>3. b \in Arbiter /\ SourceFrame(arb, b)
  BY <1>1, ConsumedType, ConsumedExpired, ExpiredIsFramed
<1> HIDE DEF b
<1>4. ASSUME NEW a \in Arbiter, SourceFrame(arb, a), PublishSelection(a)
      PROVE  SourceInv'
  <2>1. SourcesSound(a, heard', clock)
    BY <1>1, <1>2, <1>4, FrameSources
  <2> QED BY <1>1, <1>2, <1>4, <2>1, PublishSources DEF SourceInv
<1>5. ASSUME NEW a \in Arbiter, SourceFrame(arb, a), Quietly(a)
      PROVE  SourceInv'
  <2>1. SourcesSound(a, heard', clock')
    BY <1>1, <1>2, <1>5, FrameSources
  <2> QED BY <1>5, <2>1, QuietSources DEF SourceInv
<1>6. ASSUME NEW a \in Arbiter
      PROVE  /\ RejectExecutionCommand(a) \in Arbiter
             /\ SourceFrame(a, RejectExecutionCommand(a))
  BY RejectType, RejectExpired, ExpiredIsFramed
<1>7. CASE RefuseCommand(c)
  BY <1>1, <1>4, <1>6, <1>7 DEF RefuseCommand
<1>8. CASE HonourStop(c)
  <2> DEFINE d == RejectExecutionCommand(b)
             e == [d EXCEPT !.dual_map_execute_latched = FALSE]
  <2>1. Quietly(e)
    BY <1>8 DEF HonourStop, RejectExecutionCommand, b
  <2>2. d \in Arbiter /\ SourceFrame(b, d)
    BY <1>3, <1>6
  <2> HIDE DEF d
  <2>3. e \in Arbiter /\ SourceFrame(d, e)
    <3>1. e \in Arbiter
      BY <2>2, Zenon DEF Arbiter
    <3> QED BY <2>2, <3>1 DEF Arbiter, SourceFrame
  <2> HIDE DEF e
  <2>4. SourceFrame(arb, e)
    BY <1>3, <2>2, <2>3 DEF SourceFrame
  <2> QED BY <1>5, <2>1, <2>3, <2>4
<1>9. CASE TolerateSuperseded(c)
  BY <1>3, <1>5, <1>9 DEF TolerateSuperseded, b
<1>10. CASE RejectUnmapped(c)
  <2>1. SourceFrame(arb, RejectExecutionCommand(b))
    BY <1>3, <1>6 DEF SourceFrame
  <2> QED BY <1>3, <1>4, <1>6, <1>10, <2>1 DEF RejectUnmapped, b
<1>11. CASE AuthorizeExecute(c) \/ LatchExecute(c)
  <2> DEFINE d == [b EXCEPT !.auto_authorized = TRUE,
                            !.execution_lease_stamp = clock - c.age,
                            !.dual_map_execute_latched = FALSE,
                            !.supersede_deadline = Never]
             e == [b EXCEPT !.auto_authorized = FALSE,
                            !.dual_map_execute_latched = TRUE,
                            !.latched_execute_epoch = c.epoch,
                            !.latched_execute_generation = c.generation,
                            !.latched_execute_stamp = clock - c.age]
  <2>1. \/ Quietly(d) \/ Quietly(e)
    BY <1>11 DEF AuthorizeExecute, LatchExecute, b
  <2>2. c.epoch \in Nat /\ c.generation \in Nat /\ clock - c.age \in Int
    BY <1>1, MessageTypes
  <2>3. d \in Arbiter /\ e \in Arbiter
    BY <1>3, <2>2, NeverType, Zenon DEF Arbiter
  <2>4. SourceFrame(b, d) /\ SourceFrame(b, e)
    BY <1>3, <2>3 DEF Arbiter, SourceFrame
  <2> HIDE DEF d, e
  <2>5. SourceFrame(arb, d) /\ SourceFrame(arb, e)
    BY <1>3, <2>4 DEF SourceFrame
  <2> QED BY <1>5, <2>1, <2>3, <2>5
<1> QED
  BY <1>7, <1>8, <1>9, <1>10, <1>11 DEF OnExecutionCommand

LEMMA LinkSources ==
    ASSUME Inductive, SourceInv, NEW up \in BOOLEAN, OnLinkHealth(up)
    PROVE  SourceInv'
<1> DEFINE broken == ~up \/ ~arb.link_up
           h == IF broken THEN Forget(heard) ELSE heard
           k == IF up THEN clock ELSE Never
<1>1. /\ arb \in Arbiter /\ clock \in Nat /\ clock \in Int /\ heard \in HeardType
      /\ SourcesSound(arb, heard, clock)
  BY DEF Inductive, StateType, HistoryType, SourceInv, HeardType
<1>2. /\ clock' = clock /\ RequireSerialLink
      /\ heard'.manual = IF broken THEN Never ELSE heard.manual
      /\ heard'.auto = IF broken THEN Never ELSE heard.auto
      /\ heard'.map = heard.map
      /\ heard'.link = k
  BY <1>1 DEF OnLinkHealth, Forget, HeardType
<1>3. CASE ~up
  <2> DEFINE b == [arb EXCEPT !.has_link_heartbeat = TRUE, !.last_link_stamp = clock]
             d == SerialLinkDown(b)
  <2>1. Quietly(d)
    BY <1>3 DEF OnLinkHealth
  <2>2. /\ b \in Arbiter /\ b.map_ready = arb.map_ready
        /\ b.map_ready_stamp = arb.map_ready_stamp
    <3>1. b \in Arbiter
      BY <1>1, Zenon DEF Arbiter
    <3> QED BY <1>1, <3>1 DEF Arbiter
  <2> HIDE DEF b
  <2>3. d \in Arbiter /\ Silenced(b, d) /\ ~d.link_up
    BY <2>2, LinkDownType, LinkDownEffect
  <2> HIDE DEF d
  <2>4. SourcesSound(d, heard', clock')
    BY <1>1, <1>2, <1>3, <2>2, <2>3 DEF SourcesSound, Silenced, Never
  <2> QED BY <2>1, <2>3, <2>4, QuietSources DEF SourceInv
<1>4. CASE up
  <2> DEFINE b == IF arb.link_up THEN arb ELSE SerialLinkDown(arb)
             c == [b EXCEPT !.has_link_heartbeat = TRUE,
                            !.last_link_stamp = clock, !.link_up = TRUE]
             d == MaybeAuthorizeLatchedExecute(c)
  <2>1. Quietly(d)
    BY <1>4 DEF OnLinkHealth, SerialLinkUp
  <2>2. /\ b \in Arbiter
        /\ arb.link_up => b = arb
        /\ ~arb.link_up => Silenced(arb, b)
    BY <1>1, LinkDownType, LinkDownEffect
  <2> HIDE DEF b
  <2>3. /\ c \in Arbiter /\ c.link_up /\ c.has_link_heartbeat
        /\ c.last_link_stamp = clock
        /\ c.manual = b.manual /\ c.auto = b.auto
        /\ c.map_ready = b.map_ready /\ c.map_ready_stamp = b.map_ready_stamp
    <3>1. c \in Arbiter
      BY <1>1, <2>2, Zenon DEF Arbiter
    <3> QED BY <2>2, <3>1 DEF Arbiter
  <2> HIDE DEF c
  <2>4. SourcesSound(c, heard', clock')
    <3>1. CASE arb.link_up
      <4>1. b = arb /\ heard'.manual = heard.manual /\ heard'.auto = heard.auto
        BY <1>2, <1>4, <2>2, <3>1
      <4> QED BY <1>1, <1>2, <1>4, <2>3, <3>1, <4>1 DEF SourcesSound, Never
    <3>2. CASE ~arb.link_up
      <4>1. heard'.manual = Never /\ heard'.auto = Never /\ Silenced(arb, b)
        BY <1>2, <1>4, <2>2, <3>2
      <4> QED BY <1>1, <1>2, <1>4, <2>3, <3>2, <4>1 DEF SourcesSound, Silenced, Never
    <3> QED BY <3>1, <3>2
  <2>5. d \in Arbiter /\ SourceFrame(c, d)
    BY <2>3, LatchType, LatchFramed
  <2> HIDE DEF d
  <2>6. SourcesSound(d, heard', clock')
    BY <2>4, <2>5, FrameSources
  <2> QED BY <2>1, <2>5, <2>6, QuietSources DEF SourceInv
<1> QED BY <1>3, <1>4

(* A map heartbeat: what is left of the lease, then the new stamp.         *)
LEMMA MapReadyEffect ==
    ASSUME clock \in Nat, NEW a \in Arbiter, NEW ready \in BOOLEAN
    PROVE  \E p \in Arbiter :
             /\ Expired(a, p)
             /\ p.supersede_deadline = Never \/ p = a
             /\ p = IF a.map_ready /\ ~MapReady(a) THEN LapseMapReady(a)
                    ELSE IF ready THEN a ELSE RetirePlannerGeneration(a)
             /\ LET b == MapReadyApplied(a, ready)
                IN  /\ b.map_ready = ready /\ b.map_ready_stamp = clock
                    /\ b.ready_lease_generation =
                         IF ready THEN p.planner_generation
                         ELSE p.ready_lease_generation
                    /\ b.manual = p.manual /\ b.auto = p.auto
                    /\ b.emergency_stop = p.emergency_stop
                    /\ b.link_up = p.link_up
                    /\ b.has_link_heartbeat = p.has_link_heartbeat
                    /\ b.last_link_stamp = p.last_link_stamp
                    /\ b.auto_authorized = p.auto_authorized
                    /\ b.supersede_deadline = p.supersede_deadline
                    /\ b.dual_map_execute_latched = p.dual_map_execute_latched
                    /\ b.planner_epoch = p.planner_epoch
                    /\ b.planner_generation = p.planner_generation
                    /\ b.planner_generation_retired = p.planner_generation_retired
<1> DEFINE p == IF a.map_ready /\ ~MapReady(a) THEN LapseMapReady(a)
                ELSE IF ready THEN a ELSE RetirePlannerGeneration(a)
           lease == IF ready THEN p.planner_generation ELSE p.ready_lease_generation
           b == [p EXCEPT !.map_ready = ready, !.map_ready_stamp = clock,
                          !.ready_lease_generation = lease]
<1>1. p \in Arbiter
  BY LapseType, RetireType
<1>2. Expired(a, p) /\ (p.supersede_deadline = Never \/ p = a)
  <2>1. Expired(a, a)
    BY DEF Expired
  <2> QED BY <2>1, LapseExpired, RetireExpired
<1>3. MapReadyApplied(a, ready) = b
  BY DEF MapReadyApplied
<1>4. p = IF a.map_ready /\ ~MapReady(a) THEN LapseMapReady(a)
          ELSE IF ready THEN a ELSE RetirePlannerGeneration(a)
  OBVIOUS
<1> HIDE DEF p
<1>5. /\ b.map_ready = ready /\ b.map_ready_stamp = clock
      /\ b.ready_lease_generation = lease
      /\ b.manual = p.manual /\ b.auto = p.auto
      /\ b.emergency_stop = p.emergency_stop
      /\ b.link_up = p.link_up
      /\ b.has_link_heartbeat = p.has_link_heartbeat
      /\ b.last_link_stamp = p.last_link_stamp
      /\ b.auto_authorized = p.auto_authorized
      /\ b.supersede_deadline = p.supersede_deadline
      /\ b.dual_map_execute_latched = p.dual_map_execute_latched
      /\ b.planner_epoch = p.planner_epoch
      /\ b.planner_generation = p.planner_generation
      /\ b.planner_generation_retired = p.planner_generation_retired
  <2> HIDE DEF lease
  <2> QED BY <1>1 DEF Arbiter
<1> WITNESS p \in Arbiter
<1> HIDE DEF b
<1> QED BY <1>2, <1>3, <1>4, <1>5

LEMMA MapSources ==
    ASSUME Inductive, SourceInv, NEW ready \in BOOLEAN, OnMapReady(ready)
    PROVE  SourceInv'
<1> DEFINE a == MapReadyApplied(arb, ready)
<1>1. /\ arb \in Arbiter /\ clock \in Nat /\ clock \in Int /\ heard \in HeardType
      /\ SourcesSound(arb, heard, clock)
  BY DEF Inductive, StateType, HistoryType, SourceInv, HeardType
<1>2. /\ clock' = clock /\ PublishSelection(a)
      /\ heard' \in HeardType
      /\ heard'.manual = heard.manual /\ heard'.auto = heard.auto
      /\ heard'.link = heard.link
      /\ heard'.map = IF ready THEN clock ELSE Never
  <2>1. (IF ready THEN clock ELSE Never) \in Int
    BY <1>1, NeverType
  <2> QED BY <1>1, <2>1 DEF OnMapReady, HeardType
<1>3. PICK p \in Arbiter :
        /\ Expired(arb, p)
        /\ a.map_ready = ready /\ a.map_ready_stamp = clock
        /\ a.manual = p.manual /\ a.auto = p.auto
        /\ a.link_up = p.link_up
        /\ a.has_link_heartbeat = p.has_link_heartbeat
        /\ a.last_link_stamp = p.last_link_stamp
  BY <1>1, MapReadyEffect
<1>4. a \in Arbiter
  BY <1>1, MapReadyType
<1> HIDE DEF a
<1>5. SourcesSound(p, heard, clock)
  BY <1>1, <1>3, ExpiredIsFramed, FrameSources
<1>6. SourcesSound(a, heard', clock)
  BY <1>1, <1>2, <1>3, <1>5 DEF SourcesSound, Never
<1> QED BY <1>1, <1>2, <1>4, <1>6, PublishSources DEF SourceInv

LEMMA StopSources ==
    ASSUME Inductive, SourceInv, NEW active \in BOOLEAN, OnEmergencyStop(active)
    PROVE  SourceInv'
<1> DEFINE b == [arb EXCEPT !.emergency_stop = active]
           c == [b EXCEPT !.dual_map_execute_latched = FALSE]
           d == ClearExecutionLease(c)
           e == InvalidateSources(d)
           f == MaybeAuthorizeLatchedExecute(b)
<1>1. /\ arb \in Arbiter /\ clock \in Nat /\ heard \in HeardType
      /\ SourcesSound(arb, heard, clock)
  BY DEF Inductive, StateType, HistoryType, SourceInv, HeardType
<1>2. b \in Arbiter /\ SourceFrame(arb, b)
  <2>1. b \in Arbiter
    BY <1>1, Zenon DEF Arbiter
  <2> QED BY <1>1, <2>1 DEF Arbiter, SourceFrame
<1>3. CASE ~active
  <2>1. Quietly(f) /\ heard' = heard /\ clock' = clock
    BY <1>3 DEF OnEmergencyStop
  <2> HIDE DEF b
  <2>2. f \in Arbiter /\ SourceFrame(b, f)
    BY <1>2, LatchType, LatchFramed
  <2> HIDE DEF f
  <2>3. SourcesSound(f, heard', clock')
    BY <1>1, <1>2, <2>1, <2>2, FrameSources
  <2> QED BY <2>1, <2>2, <2>3, QuietSources DEF SourceInv
<1>4. CASE active
  <2>1. /\ Quietly(e) /\ clock' = clock
        /\ heard'.manual = Never /\ heard'.auto = Never
        /\ heard'.link = heard.link /\ heard'.map = heard.map
    BY <1>1, <1>4 DEF OnEmergencyStop, Forget, HeardType
  <2> HIDE DEF b
  <2>2. c \in Arbiter /\ SourceFrame(b, c)
    <3>1. c \in Arbiter
      BY <1>2, Zenon DEF Arbiter
    <3> QED BY <1>2, <3>1 DEF Arbiter, SourceFrame
  <2> HIDE DEF c
  <2>3. d \in Arbiter /\ SourceFrame(c, d)
    BY <2>2, ClearType, ClearExpired, ExpiredIsFramed
  <2> HIDE DEF d
  <2>4. e \in Arbiter /\ Silenced(d, e) /\ e.link_up = d.link_up
    BY <2>3, InvalidateSourcesType, SilenceEffect
  <2> HIDE DEF e
  <2>5. SourcesSound(d, heard, clock)
    BY <1>1, <1>2, <2>2, <2>3, FrameSources
  <2>6. SourcesSound(e, heard', clock')
    BY <1>1, <2>1, <2>4, <2>5 DEF SourcesSound, Silenced, Never
  <2> QED BY <2>1, <2>4, <2>6, QuietSources DEF SourceInv
<1> QED BY <1>3, <1>4

LEMMA SourceNext ==
    ASSUME Inductive, SourceInv, [Next]_vars PROVE SourceInv'
<1>1. /\ arb \in Arbiter /\ clock \in Nat /\ clock \in Int /\ heard \in HeardType
      /\ SourcesSound(arb, heard, clock) /\ SourcesHonest
      /\ heard.manual \in Int /\ heard.link \in Int
  BY DEF Inductive, StateType, HistoryType, SourceInv, HeardType
<1>2. CASE AdvanceClock
  <2>1. /\ arb' = arb /\ clock' = clock + 1 /\ heard' = heard
        /\ published' = "NOTHING"
    BY <1>2 DEF AdvanceClock, history
  <2>2. SourcesSound(arb', heard', clock')
    BY <1>1, <2>1, ConfigAssumption DEF SourcesSound
  <2> QED
    BY <2>1, <2>2
       DEF SourceInv, SourcesHonest, SourcesHeard, ManualPreempts
<1>3. CASE OnTimer
  BY <1>1, <1>3, PublishSources DEF OnTimer, history, SourceInv
<1>4. CASE OnManual \/ OnAuto
  <2> DEFINE m == [arb EXCEPT !.manual = [valid |-> TRUE, stamp |-> clock]]
             u == [arb EXCEPT !.auto = [valid |-> TRUE, stamp |-> clock]]
  <2>1. m \in Arbiter /\ u \in Arbiter
    <3>1. [valid |-> TRUE, stamp |-> clock] \in Sample
      BY <1>1 DEF Sample
    <3> QED BY <1>1, <3>1, Zenon DEF Arbiter
  <2>2. CASE OnManual
    <3>1. /\ m.manual.valid /\ m.manual.stamp = clock /\ m.auto = arb.auto
          /\ m.link_up = arb.link_up
          /\ m.has_link_heartbeat = arb.has_link_heartbeat
          /\ m.last_link_stamp = arb.last_link_stamp
          /\ m.map_ready = arb.map_ready
          /\ m.map_ready_stamp = arb.map_ready_stamp
      BY <1>1 DEF Arbiter
    <3>2. /\ Quietly(m) /\ clock' = clock /\ heard'.manual = clock
          /\ heard'.auto = heard.auto /\ heard'.link = heard.link
          /\ heard'.map = heard.map
      BY <1>1, <2>2 DEF OnManual, HeardType
    <3> HIDE DEF m
    <3>3. SourcesSound(m, heard', clock')
      BY <1>1, <3>1, <3>2 DEF SourcesSound, Never
    <3> QED BY <2>1, <3>2, <3>3, QuietSources DEF SourceInv
  <2>3. CASE OnAuto
    <3>1. /\ u.auto.valid /\ u.auto.stamp = clock /\ u.manual = arb.manual
          /\ u.link_up = arb.link_up
          /\ u.has_link_heartbeat = arb.has_link_heartbeat
          /\ u.last_link_stamp = arb.last_link_stamp
          /\ u.map_ready = arb.map_ready
          /\ u.map_ready_stamp = arb.map_ready_stamp
      BY <1>1 DEF Arbiter
    <3>2. /\ Quietly(u) /\ clock' = clock /\ heard'.auto = clock
          /\ heard'.manual = heard.manual /\ heard'.link = heard.link
          /\ heard'.map = heard.map
      BY <1>1, <2>3 DEF OnAuto, HeardType
    <3> HIDE DEF u
    <3>3. SourcesSound(u, heard', clock')
      BY <1>1, <3>1, <3>2 DEF SourcesSound, Never
    <3> QED BY <2>1, <3>2, <3>3, QuietSources DEF SourceInv
  <2> QED BY <1>4, <2>2, <2>3
<1>5. ASSUME NEW s \in Statuses, OnPlannerStatus(s) PROVE SourceInv'
  <2> DEFINE a == PlannerStatusApplied(arb, s)
  <2>1. /\ PublishSelection(a) /\ heard' = heard /\ clock' = clock
    BY <1>5 DEF OnPlannerStatus
  <2>2. a \in Arbiter /\ SourceFrame(arb, a)
    BY <1>1, StatusType, StatusFramed
  <2> HIDE DEF a
  <2>3. SourcesSound(a, heard', clock)
    BY <1>1, <2>1, <2>2, FrameSources
  <2> QED BY <1>1, <2>1, <2>2, <2>3, PublishSources DEF SourceInv
<1>6. CASE UNCHANGED vars
  <2>1. arb' = arb /\ clock' = clock /\ heard' = heard /\ published' = published
    BY <1>6 DEF vars, history
  <2>2. SourcesHeard' /\ ManualPreempts'
    BY <1>1, <2>1
       DEF SourcesHonest, SourcesHeard, ManualPreempts, LinkHeard, Heard
  <2> QED BY <1>1, <2>1, <2>2 DEF SourceInv, SourcesHonest
<1> QED
  BY <1>2, <1>3, <1>4, <1>5, <1>6, MapSources, StopSources, LinkSources,
     CommandSources DEF Next

LEMMA SourceInit == Init => SourceInv
<1> SUFFICES ASSUME Init PROVE SourceInv
  OBVIOUS
<1>1. SourcesSound(arb, heard, clock)
  <2>1. /\ ~arb.manual.valid /\ ~arb.auto.valid /\ ~arb.map_ready
        /\ arb.link_up <=> ~RequireSerialLink
        /\ arb.has_link_heartbeat <=> ~RequireSerialLink
    BY DEF Init, InitialArbiter
  <2>2. clock = 0 /\ heard.manual = -1 /\ heard.link = -1
    BY DEF Init, Never
  <2>3. heard.manual = Never /\ heard.link = Never
    BY DEF Init
  <2>4. heard.manual <= clock /\ heard.link <= clock
    BY <2>2
  <2> QED BY <2>1, <2>3, <2>4, Zenon DEF SourcesSound
<1>2. SourcesHonest
  BY DEF Init, SourcesHonest, SourcesHeard, ManualPreempts
<1> QED BY <1>1, <1>2 DEF SourceInv

LEMMA SourceInvariance == Spec => []SourceInv
<1>1. Inductive /\ SourceInv /\ [Next]_vars => SourceInv'
  BY SourceNext
<1> QED BY <1>1, SourceInit, InductiveInit, InductiveNext, PTL DEF Spec

(* A Twist that may move the robot rests on a link, a source and, for the  *)
(* autonomous source, a map that were heard within their timeouts, the     *)
(* source even since the last emergency stop or loss of the link.          *)
THEOREM LiveInputs == Spec => []MotionRestsOnLiveInputs
<1>1. SourceInv /\ AutoNeedsStandingGrant => MotionRestsOnLiveInputs
  BY DEF SourceInv, SourcesHonest, SourcesHeard, MotionRestsOnLiveInputs,
         AutoNeedsStandingGrant
<1> QED BY <1>1, SourceInvariance, StandingGrant, PTL

(* The operator's sample is never passed over: whenever the arbiter        *)
(* publishes, the link is heard and no emergency stop is active, a recent  *)
(* manual sample is what it publishes.                                     *)
THEOREM ManualFirst == Spec => []ManualPreempts
<1>1. SourceInv => ManualPreempts
  BY DEF SourceInv, SourcesHonest
<1> QED BY <1>1, SourceInvariance, PTL

-----------------------------------------------------------------------------
(* The map version behind an authority.                                    *)

(* The map versions of the grant and of the last loss never run ahead of   *)
(* the planner's.  An authority without a grace names the planner's        *)
(* version and was never superseded; the grace of any other one counts     *)
(* from the first version that superseded it.  A version in force when the *)
(* map was lost is retired for as long as the planner is still at it, and  *)
(* so is the version of a grant whose map lease lapsed in silence.         *)
PlanSound(a, g, l, m, t) ==
    /\ ~Outranks(Identity(g), PlannerIdentity(a))
    /\ ~Outranks(l, PlannerIdentity(a))
    /\ a.link_up => a.has_link_heartbeat
    /\ a.emergency_stop \/ ~a.link_up => ~a.auto_authorized
    /\ a.auto_authorized =>
        /\ Identity(g) # l
        /\ a.supersede_deadline = Never =>
              Identity(g) = PlannerIdentity(a) /\ g.superseded = Never
    /\ a.supersede_deadline # Never =>
        /\ a.auto_authorized
        /\ g.superseded \in 0..t
        /\ a.supersede_deadline = g.superseded + SupersedeGrace
    /\ Identity(g) = PlannerIdentity(a) =>
        /\ a.ready_lease_generation = a.planner_generation
        /\ a.dual_map_execute_latched => g.superseded = Never
        /\ m # Never /\ ~a.map_ready => a.planner_generation_retired
    /\ l = PlannerIdentity(a) /\ l # <<0, 0>> => a.planner_generation_retired

PlanHonest == AutoFollowsPlanner /\ LostGenerationStaysLost

PlanInv == PlanSound(arb, grant, lost, heard.map, clock) /\ PlanHonest

(* What PlanSound reads of a grant.                                        *)
SameVersion(g, h) == Identity(h) = Identity(g) /\ h.superseded = g.superseded

LEMMA PlanExpired ==
    ASSUME NEW a, NEW b, NEW g, NEW h, NEW l, NEW m, NEW t,
           PlanSound(a, g, l, m, t), Expired(a, b), SameVersion(g, h)
    PROVE  PlanSound(b, h, l, m, t)
BY DEF PlanSound, Expired, SameVersion, PlannerIdentity

(* The fields PlanSound reads.                                             *)
SamePlan(a, b) ==
    /\ b.planner_epoch = a.planner_epoch
    /\ b.planner_generation = a.planner_generation
    /\ b.planner_generation_retired = a.planner_generation_retired
    /\ b.ready_lease_generation = a.ready_lease_generation
    /\ b.map_ready = a.map_ready
    /\ b.auto_authorized = a.auto_authorized
    /\ b.supersede_deadline = a.supersede_deadline
    /\ b.dual_map_execute_latched => a.dual_map_execute_latched
    /\ b.link_up = a.link_up
    /\ b.has_link_heartbeat = a.has_link_heartbeat

LEMMA PlanSame ==
    ASSUME NEW a, NEW b, NEW g, NEW l, NEW m, NEW t,
           PlanSound(a, g, l, m, t), SamePlan(a, b),
           b.emergency_stop => a.emergency_stop
    PROVE  PlanSound(b, g, l, m, t)
BY DEF PlanSound, SamePlan, PlannerIdentity

(* Without an authority the link and the emergency stop may do anything.   *)
LEMMA PlanDown ==
    ASSUME NEW a, NEW b, NEW g, NEW h, NEW l, NEW m, NEW t,
           PlanSound(a, g, l, m, t), SameVersion(g, h),
           b.planner_epoch = a.planner_epoch,
           b.planner_generation = a.planner_generation,
           b.planner_generation_retired = a.planner_generation_retired,
           b.ready_lease_generation = a.ready_lease_generation,
           b.map_ready = a.map_ready,
           b.dual_map_execute_latched => a.dual_map_execute_latched,
           ~b.auto_authorized, b.supersede_deadline = Never,
           b.link_up => b.has_link_heartbeat
    PROVE  PlanSound(b, h, l, m, t)
BY DEF PlanSound, SameVersion, PlannerIdentity

LEMMA WithdrawnVersion ==
    ASSUME grant \in Grant
    PROVE  /\ SameVersion(grant, grant)
           /\ SameVersion(grant, Withdrawn(grant))
           /\ SameVersion(grant, WithdrawnUnlessLatched(grant))
<1>1. Withdrawn(grant).superseded = grant.superseded
  BY DEF Grant, Withdrawn
<1> QED
  BY <1>1, WithdrawnEffect DEF SameVersion, WithdrawnUnlessLatched

(* A latched EXECUTE becomes an authority for the planner's version, which *)
(* was not superseded and is not a lost one.                               *)
LEMMA LatchPlan ==
    ASSUME NEW a \in Arbiter, NEW g, NEW st, NEW l, NEW m, NEW t,
           AuthoritySound(a, g, st), PlanSound(a, g, l, m, t)
    PROVE  PlanSound(MaybeAuthorizeLatchedExecute(a), g, l, m, t)
<1> DEFINE b == ExpireMapReady(a)
           r == MaybeAuthorizeLatchedExecute(a)
           usable == NamesUsableGeneration(b, b.latched_execute_epoch,
                                           b.latched_execute_generation)
<1>1. /\ b \in Arbiter /\ Expired(a, b)
      /\ AuthoritySound(b, g, st)
  BY ExpireTypes, ExpiryExpired, ExpireSound
<1>2. \/ r = a
      \/ /\ a.dual_map_execute_latched /\ ~a.emergency_stop /\ a.link_up
         /\ Unlatched(b, r)
         /\ r.auto_authorized = b.auto_authorized \/ usable
  BY LatchEffect
<1>3. PlanSound(b, g, l, m, t)
  BY <1>1, PlanExpired DEF SameVersion
<1>4. usable => NamesUsableGeneration(b, b.latched_execute_epoch,
                                      b.latched_execute_generation)
  OBVIOUS
<1> SUFFICES PlanSound(r, g, l, m, t)
  OBVIOUS
<1> HIDE DEF b, r, usable
<1>5. CASE Unlatched(b, r) /\ r.auto_authorized = b.auto_authorized
  BY <1>3, <1>5, PlanSame DEF Unlatched, SamePlan
<1>6. CASE /\ a.dual_map_execute_latched /\ ~a.emergency_stop /\ a.link_up
           /\ Unlatched(b, r) /\ usable
  <2>1. /\ b.planner_generation_usable
        /\ b.latched_execute_epoch # 0
        /\ <<b.latched_execute_epoch, b.latched_execute_generation>>
             = PlannerIdentity(b)
    BY <1>4, <1>6 DEF NamesUsableGeneration, PlannerIdentity
  <2>2. /\ b.dual_map_execute_latched /\ ~b.auto_authorized
        /\ Identity(g) = PlannerIdentity(b)
        /\ ~b.planner_generation_retired
        /\ PlannerIdentity(b) # <<0, 0>>
    BY <1>1, <1>6, <2>1 DEF AuthoritySound, Expired, PlannerIdentity
  <2>3. /\ g.superseded = Never /\ b.supersede_deadline = Never
        /\ Identity(g) # l
    BY <1>3, <2>2 DEF PlanSound
  <2>4. PlannerIdentity(r) = PlannerIdentity(b)
    BY <1>6 DEF Unlatched, PlannerIdentity
  <2>5. ~r.emergency_stop /\ r.link_up
    BY <1>1, <1>6 DEF Unlatched, Expired
  <2> QED
    BY <1>3, <1>6, <2>2, <2>3, <2>4, <2>5 DEF PlanSound, Unlatched
<1>7. CASE r = a
  BY <1>7
<1> QED BY <1>2, <1>5, <1>6, <1>7

LEMMA QuietPlan ==
    ASSUME NEW a, Quietly(a), PlanSound(a, grant', lost', heard'.map, clock')
    PROVE  PlanInv'
BY DEF Quietly, PlanInv, PlanHonest, AutoFollowsPlanner, LostGenerationStaysLost

LEMMA PublishPlan ==
    ASSUME NEW a \in Arbiter, clock \in Nat, clock' = clock, Inductive',
           PlanSound(a, grant', lost', heard'.map, clock), PublishSelection(a)
    PROVE  PlanInv'
<1> DEFINE sound(x) == PlanSound(x, grant', lost', heard'.map, clock)
<1>1. ASSUME sound(arb'), published' # "AUTO_AUTHORIZED" PROVE PlanInv'
  BY <1>1 DEF PlanInv, PlanHonest, AutoFollowsPlanner, LostGenerationStaysLost
<1>2. CASE /\ ~a.has_link_heartbeat
           /\ arb' = [a EXCEPT !.link_up = FALSE] /\ published' = "LINK_DOWN"
  <2>1. /\ SamePlan(a, [a EXCEPT !.link_up = a.link_up])
        /\ a.link_up = FALSE
    <3>1. a.link_up = FALSE
      BY <1>2 DEF PlanSound, Arbiter
    <3> QED BY <3>1 DEF SamePlan, Arbiter
  <2>2. SamePlan(a, arb') /\ arb'.emergency_stop = a.emergency_stop
    BY <1>2, <2>1 DEF SamePlan, Arbiter
  <2> QED BY <1>1, <1>2, <2>2, PlanSame
<1>3. CASE /\ arb' = [SerialLinkDown(a) EXCEPT !.has_link_heartbeat = FALSE]
           /\ published' = "LINK_DOWN"
  <2> DEFINE b == SerialLinkDown(a)
  <2>1. /\ b \in Arbiter /\ Silenced(a, b) /\ ~b.link_up /\ ~b.auto_authorized
        /\ b.supersede_deadline = Never /\ ~b.dual_map_execute_latched
    BY LinkDownType, LinkDownEffect
  <2>2. arb' = [b EXCEPT !.has_link_heartbeat = FALSE]
    BY <1>3
  <2> HIDE DEF b
  <2>3. /\ arb'.planner_epoch = b.planner_epoch
        /\ arb'.planner_generation = b.planner_generation
        /\ arb'.planner_generation_retired = b.planner_generation_retired
        /\ arb'.ready_lease_generation = b.ready_lease_generation
        /\ arb'.map_ready = b.map_ready
        /\ ~arb'.auto_authorized /\ arb'.supersede_deadline = Never
        /\ ~arb'.dual_map_execute_latched /\ ~arb'.link_up
    BY <2>1, <2>2 DEF Arbiter
  <2>4. sound(arb')
    BY <2>1, <2>3, PlanDown DEF Silenced, SameVersion
  <2> QED BY <1>1, <1>3, <2>4
<1>4. CASE arb' = a /\ published' \in {"LINK_DOWN", "EMERGENCY_STOP"}
  BY <1>1, <1>4
<1>5. CASE /\ arb' = DropStaleSamples(Settled(a))
           /\ published' = Selection(Settled(a))
  <2> DEFINE b == Settled(a)
  <2>1. /\ b \in Arbiter /\ Expired(a, b)
        /\ b.auto_authorized =>
             b.supersede_deadline = Never \/ clock <= b.supersede_deadline
    BY SettledType, SettledExpired
  <2>2. arb' = DropStaleSamples(b)
        /\ (published' = "AUTO_AUTHORIZED" => b.auto_authorized)
    BY <1>5 DEF Selection
  <2> HIDE DEF b
  <2>3. sound(b)
    BY <2>1, PlanExpired DEF SameVersion
  <2>4. SamePlan(b, arb') /\ arb'.emergency_stop = b.emergency_stop
    BY <2>1, <2>2 DEF DropStaleSamples, Arbiter, SamePlan
  <2>5. sound(arb')
    BY <2>3, <2>4, PlanSame
  <2>6. ASSUME published' = "AUTO_AUTHORIZED"
        PROVE  /\ Identity(grant') # lost'
               /\ \/ Identity(grant') = PlannerIdentity(arb')
                  \/ /\ grant'.epoch = arb'.planner_epoch
                     /\ grant'.superseded # Never
                     /\ clock - grant'.superseded \in 0..SupersedeGrace
    <3>1. b.auto_authorized /\ arb'.auto_authorized
      BY <2>2, <2>4, <2>6 DEF SamePlan
    <3>2. grant'.epoch = arb'.planner_epoch
      BY <3>1 DEF Inductive, AuthorityInv, AuthoritySound
    <3>3. Identity(grant') # lost'
      BY <2>3, <3>1 DEF PlanSound
    <3>4. CASE b.supersede_deadline = Never
      BY <2>3, <2>4, <3>1, <3>3, <3>4 DEF PlanSound, SamePlan, PlannerIdentity
    <3>5. CASE b.supersede_deadline # Never
      <4>1. /\ grant'.superseded \in 0..clock
            /\ b.supersede_deadline = grant'.superseded + SupersedeGrace
            /\ clock <= b.supersede_deadline
        BY <2>1, <2>3, <3>1, <3>5 DEF PlanSound
      <4> QED BY <3>2, <3>3, <4>1, ConfigAssumption DEF Never
    <3> QED BY <3>4, <3>5
  <2>7. AutoFollowsPlanner' /\ LostGenerationStaysLost'
    BY <2>6 DEF AutoFollowsPlanner, LostGenerationStaysLost, Identity, PlannerIdentity
  <2> QED BY <2>5, <2>7 DEF PlanInv, PlanHonest
<1> QED BY <1>2, <1>3, <1>4, <1>5 DEF PublishSelection

(* What adopting another identity does to an authority.                    *)
LEMMA AdoptPlan ==
    ASSUME clock \in Nat, NEW a \in Arbiter, NEW s \in Statuses, ~SameIdentity(a, s)
    PROVE  LET b == AdoptIdentity(a, s)
           IN  /\ b.planner_epoch = s.epoch /\ b.planner_generation = s.generation
               /\ ~b.planner_generation_retired
               /\ b.emergency_stop = a.emergency_stop
               /\ b.link_up = a.link_up
               /\ b.has_link_heartbeat = a.has_link_heartbeat
               /\ \/ /\ Supersedes(a, s) /\ b.auto_authorized
                     /\ b.supersede_deadline =
                          IF a.supersede_deadline # Never THEN a.supersede_deadline
                          ELSE clock + SupersedeGrace
                  \/ ~b.auto_authorized /\ b.supersede_deadline = Never
<1> DEFINE p == IF Supersedes(a, s) THEN Graced(a) ELSE RejectExecutionCommand(a)
           b == [p EXCEPT !.planner_epoch = s.epoch,
                          !.planner_generation = s.generation,
                          !.planner_generation_usable = FALSE,
                          !.planner_generation_retired = FALSE]
<1>1. AdoptIdentity(a, s) = b
  BY DEF AdoptIdentity
<1>2. /\ p \in Arbiter
      /\ p.emergency_stop = a.emergency_stop
      /\ p.link_up = a.link_up
      /\ p.has_link_heartbeat = a.has_link_heartbeat
      /\ \/ /\ Supersedes(a, s) /\ p.auto_authorized
            /\ p.supersede_deadline =
                 IF a.supersede_deadline # Never THEN a.supersede_deadline
                 ELSE clock + SupersedeGrace
         \/ ~p.auto_authorized /\ p.supersede_deadline = Never
  <2>1. CASE Supersedes(a, s)
    <3>1. clock + SupersedeGrace \in Int /\ a.planner_generation \in Nat
      BY ConfigAssumption DEF Arbiter
    <3>2. Graced(a) \in Arbiter
      BY <3>1, Zenon DEF Arbiter, Graced
    <3>3. a.auto_authorized
      BY <2>1 DEF Supersedes
    <3>4. p = Graced(a)
      BY <2>1
    <3> HIDE DEF p
    <3> QED BY <2>1, <3>1, <3>2, <3>3, <3>4 DEF Graced, Arbiter
  <2>2. CASE ~Supersedes(a, s)
    <3>1. p = RejectExecutionCommand(a)
      BY <2>2
    <3> HIDE DEF p
    <3> QED BY <3>1, RejectType, RejectEffect, RejectExpired DEF Expired
  <2> QED BY <2>1, <2>2
<1> HIDE DEF p
<1>3. /\ b.planner_epoch = s.epoch /\ b.planner_generation = s.generation
      /\ ~b.planner_generation_retired
      /\ b.emergency_stop = p.emergency_stop
      /\ b.link_up = p.link_up
      /\ b.has_link_heartbeat = p.has_link_heartbeat
      /\ b.auto_authorized = p.auto_authorized
      /\ b.supersede_deadline = p.supersede_deadline
  BY <1>2 DEF Arbiter
<1> HIDE DEF b
<1> QED BY <1>1, <1>2, <1>3

LEMMA SupersededVersion ==
    ASSUME clock \in Nat, grant \in Grant, NEW s \in Statuses
    PROVE  /\ Identity(Superseded(grant, s)) = Identity(grant)
           /\ Superseded(grant, s).superseded =
                IF \/ grant.superseded # Never
                   \/ <<s.epoch, s.generation>> = Identity(grant)
                THEN grant.superseded ELSE clock
BY DEF Superseded, Grant, Identity

LEMMA StatusPlan ==
    ASSUME clock \in Nat, arb \in Arbiter, grant \in Grant, lost \in Nat \X Nat,
           NEW s \in Statuses, NEW m, PlanSound(arb, grant, lost, m, clock)
    PROVE  PlanSound(PlannerStatusApplied(arb, s), GrantAfterStatus(s), lost, m, clock)
<1> DEFINE b == AdoptIdentity(arb, s)
           c == [b EXCEPT !.planner_status_stamp = s.stamp]
           d == ApplyVerdict(c, s)
           g == Superseded(grant, s)
<1>1. CASE StatusIgnored(arb, s)
  BY <1>1 DEF PlannerStatusApplied, GrantAfterStatus
<1>2. CASE ~StatusIgnored(arb, s)
  <2>1. /\ s.epoch \in Nat /\ s.generation \in Nat /\ s.stamp \in Int
        /\ arb.planner_epoch \in Nat /\ arb.planner_generation \in Nat
        /\ grant.epoch \in Nat /\ grant.generation \in Nat
        /\ lost = <<lost[1], lost[2]>> /\ lost[1] \in Nat /\ lost[2] \in Nat
    BY MessageTypes DEF Arbiter, Grant
  <2>2. \/ s.epoch > arb.planner_epoch
        \/ s.epoch = arb.planner_epoch /\ s.generation > arb.planner_generation
        \/ SameIdentity(arb, s)
    BY <1>2, <2>1 DEF StatusIgnored, SameIdentity
  <2>3. /\ b \in Arbiter /\ StatusFrame(arb, b)
        /\ b.ready_lease_generation = arb.ready_lease_generation
        /\ b.planner_epoch = s.epoch /\ b.planner_generation = s.generation
        /\ SameIdentity(arb, s) => b = arb
    BY AdoptEffect, AdoptType
  <2>4. ~SameIdentity(arb, s) =>
             /\ b.emergency_stop = arb.emergency_stop
             /\ b.link_up = arb.link_up
             /\ b.has_link_heartbeat = arb.has_link_heartbeat
             /\ \/ /\ Supersedes(arb, s) /\ b.auto_authorized
                   /\ b.supersede_deadline =
                        IF arb.supersede_deadline # Never THEN arb.supersede_deadline
                        ELSE clock + SupersedeGrace
                \/ ~b.auto_authorized /\ b.supersede_deadline = Never
    BY AdoptPlan
  <2> HIDE DEF b
  <2>5. ASSUME ~SameIdentity(arb, s)
        PROVE  /\ Identity(grant) # <<s.epoch, s.generation>>
               /\ lost # <<s.epoch, s.generation>>
               /\ ~Outranks(Identity(grant), <<s.epoch, s.generation>>)
               /\ ~Outranks(lost, <<s.epoch, s.generation>>)
    BY <2>1, <2>2, <2>5 DEF PlanSound, Outranks, Identity, PlannerIdentity
  <2>6. /\ Identity(g) = Identity(grant)
        /\ g.superseded =
                IF \/ grant.superseded # Never
                   \/ <<s.epoch, s.generation>> = Identity(grant)
                THEN grant.superseded ELSE clock
    BY SupersededVersion
  <2> HIDE DEF g
  <2>7. PlanSound(b, g, lost, m, clock)
    <3>1. CASE SameIdentity(arb, s)
      <4>1. b = arb /\ PlannerIdentity(arb) = <<s.epoch, s.generation>>
        BY <2>3, <3>1 DEF PlannerIdentity
      <4>2. \/ SameVersion(grant, g)
            \/ /\ Identity(g) = Identity(grant)
               /\ grant.superseded = Never
               /\ Identity(grant) # PlannerIdentity(arb)
        BY <2>6, <4>1 DEF SameVersion
      <4>3. CASE SameVersion(grant, g)
        BY <4>1, <4>3 DEF PlanSound, SameVersion
      <4>4. CASE /\ Identity(g) = Identity(grant)
                 /\ grant.superseded = Never
                 /\ Identity(grant) # PlannerIdentity(arb)
        <5>1. ~arb.auto_authorized /\ arb.supersede_deadline = Never
          BY <4>4 DEF PlanSound, Never
        <5> QED BY <4>1, <4>4, <5>1 DEF PlanSound
      <4> QED BY <4>2, <4>3, <4>4
    <3>2. CASE ~SameIdentity(arb, s)
      <4>1. PlannerIdentity(b) = <<s.epoch, s.generation>>
        BY <2>3 DEF PlannerIdentity
      <4>2. /\ Identity(g) # PlannerIdentity(b) /\ lost # PlannerIdentity(b)
            /\ ~Outranks(Identity(g), PlannerIdentity(b))
            /\ ~Outranks(lost, PlannerIdentity(b))
        BY <2>5, <2>6, <3>2, <4>1
      <4>3. /\ b.link_up => b.has_link_heartbeat
        BY <2>4, <3>2 DEF PlanSound
      <4>4. CASE ~b.auto_authorized /\ b.supersede_deadline = Never
        BY <4>2, <4>3, <4>4 DEF PlanSound
      <4>5. CASE /\ Supersedes(arb, s) /\ b.auto_authorized
                 /\ b.supersede_deadline =
                      IF arb.supersede_deadline # Never THEN arb.supersede_deadline
                      ELSE clock + SupersedeGrace
        <5>1. arb.auto_authorized /\ Identity(grant) # lost
          BY <4>5 DEF Supersedes, PlanSound
        <5>2. ~(b.emergency_stop \/ ~b.link_up)
          BY <2>4, <3>2, <5>1 DEF PlanSound
        <5>3. /\ b.supersede_deadline # Never
              /\ g.superseded \in 0..clock
              /\ b.supersede_deadline = g.superseded + SupersedeGrace
          <6>1. CASE arb.supersede_deadline # Never
            <7>1. /\ grant.superseded \in 0..clock
                  /\ arb.supersede_deadline = grant.superseded + SupersedeGrace
              BY <6>1 DEF PlanSound
            <7>2. grant.superseded # Never
              BY <7>1 DEF Never
            <7> QED BY <2>6, <4>5, <6>1, <7>1, <7>2
          <6>2. CASE arb.supersede_deadline = Never
            <7>1. grant.superseded = Never
              BY <5>1, <6>2 DEF PlanSound
            <7>2. g.superseded = clock
              BY <2>5, <2>6, <3>2, <7>1
            <7>3. b.supersede_deadline = clock + SupersedeGrace
              BY <4>5, <6>2
            <7> QED BY <7>2, <7>3, ConfigAssumption DEF Never
          <6> QED BY <6>1, <6>2
        <5> QED BY <2>6, <4>2, <4>3, <4>5, <5>1, <5>2, <5>3 DEF PlanSound
      <4> QED BY <2>4, <3>2, <4>4, <4>5
    <3> QED BY <3>1, <3>2
  <2>8. /\ c \in Arbiter /\ SamePlan(b, c) /\ c.emergency_stop = b.emergency_stop
    <3>1. c \in Arbiter
      BY <2>1, <2>3, Zenon DEF Arbiter
    <3> QED BY <2>3, <3>1 DEF Arbiter, SamePlan
  <2>9. PlannerStatusApplied(arb, s) = d
    BY <1>2 DEF PlannerStatusApplied, b
  <2> HIDE DEF c
  <2>10. PlanSound(c, g, lost, m, clock)
    BY <2>7, <2>8, PlanSame
  <2>11. CASE s.verdict = "READY"
    <3>1. GrantAfterStatus(s) = g
      BY <1>2, <2>11 DEF GrantAfterStatus, g
    <3>2. /\ d.planner_epoch = c.planner_epoch
          /\ d.planner_generation = c.planner_generation
          /\ d.planner_generation_retired = c.planner_generation_retired
          /\ d.map_ready = c.map_ready
          /\ d.auto_authorized = c.auto_authorized
          /\ d.supersede_deadline = c.supersede_deadline
          /\ d.dual_map_execute_latched = c.dual_map_execute_latched
          /\ d.link_up = c.link_up /\ d.emergency_stop = c.emergency_stop
          /\ d.has_link_heartbeat = c.has_link_heartbeat
          /\ d.ready_lease_generation
               \in {c.ready_lease_generation, c.planner_generation}
      BY <2>8, <2>11 DEF ApplyVerdict, Arbiter
    <3> HIDE DEF d
    <3>3. PlanSound(d, g, lost, m, clock)
      BY <2>10, <3>2 DEF PlanSound, PlannerIdentity
    <3> QED BY <2>9, <3>1, <3>3
  <2>12. CASE s.verdict # "READY"
    <3> DEFINE e == [c EXCEPT !.planner_generation_usable = FALSE,
                              !.planner_generation_retired =
                                  @ \/ s.verdict = "MAP_UNREADY"]
               r == RejectExecutionCommand(e)
               h == GrantAfterStatus(s)
    <3>1. e \in Arbiter
      <4>1. (c.planner_generation_retired \/ s.verdict = "MAP_UNREADY") \in BOOLEAN
        OBVIOUS
      <4> QED BY <2>8, <4>1, Zenon DEF Arbiter
    <3>2. Expired(c, e)
      BY <2>8, <3>1 DEF Arbiter, Expired
    <3>3. d = r
      BY <2>12 DEF ApplyVerdict
    <3> HIDE DEF e
    <3>4. Expired(e, r) /\ ~r.auto_authorized /\ r.supersede_deadline = Never
      BY <3>1, RejectExpired, RejectEffect
    <3> HIDE DEF r
    <3>5. Expired(c, r)
      BY <3>2, <3>4, ExpiredTrans
    <3>6. PlanSound(r, g, lost, m, clock)
      BY <2>10, <3>5, PlanExpired DEF SameVersion
    <3>7. SameVersion(grant, h)
      <4>1. s.verdict \in {"FAILED", "MAP_UNREADY"}
        <5>1. s.verdict \in Verdicts
          BY DEF Statuses
        <5> QED BY <1>2, <2>12, <5>1, InputAssumption DEF StatusIgnored
      <4>2. h \in {Withdrawn(grant), WithdrawnUnlessLatched(grant)}
        BY <1>2, <4>1 DEF GrantAfterStatus
      <4> HIDE DEF h
      <4> QED BY <4>2, WithdrawnVersion
    <3> HIDE DEF h, d
    <3>8. PlannerIdentity(r) = <<s.epoch, s.generation>>
      BY <2>3, <2>8, <3>5 DEF SamePlan, Expired, PlannerIdentity
    <3>9. Identity(grant) = PlannerIdentity(r) => g.superseded = grant.superseded
      BY <2>6, <3>8
    <3>10. PlanSound(r, h, lost, m, clock)
      BY <2>6, <3>4, <3>6, <3>7, <3>9 DEF PlanSound, SameVersion
    <3> QED BY <2>9, <3>3, <3>10 DEF h
  <2> QED BY <2>11, <2>12
<1> QED BY <1>1, <1>2

LEMMA MapPlan ==
    ASSUME Inductive, Inductive', PlanInv, NEW ready \in BOOLEAN, OnMapReady(ready)
    PROVE  PlanInv'
<1> DEFINE a == MapReadyApplied(arb, ready)
<1>1. /\ arb \in Arbiter /\ clock \in Nat /\ clock \in Int /\ grant \in Grant
      /\ heard.map \in Int
      /\ AuthoritySound(arb, grant, stop)
      /\ arb.map_ready => heard.map = arb.map_ready_stamp
      /\ PlanSound(arb, grant, lost, heard.map, clock)
      /\ heard \in HeardType
  BY DEF Inductive, StateType, HistoryType, AuthorityInv, PlanInv, HeardType
<1>2. /\ clock' = clock /\ PublishSelection(a)
      /\ heard'.map = IF ready THEN clock ELSE Never
      /\ MapInterrupted(ready) => grant' = Withdrawn(grant) /\ lost' = Identity(grant)
      /\ ~MapInterrupted(ready) => grant' = grant /\ lost' = lost
  BY <1>1 DEF OnMapReady, HeardType
<1>3. PICK p \in Arbiter :
        /\ Expired(arb, p)
        /\ p = IF arb.map_ready /\ ~MapReady(arb) THEN LapseMapReady(arb)
               ELSE IF ready THEN arb ELSE RetirePlannerGeneration(arb)
        /\ a.map_ready = ready
        /\ a.ready_lease_generation =
             IF ready THEN p.planner_generation ELSE p.ready_lease_generation
        /\ a.emergency_stop = p.emergency_stop
        /\ a.link_up = p.link_up
        /\ a.has_link_heartbeat = p.has_link_heartbeat
        /\ a.auto_authorized = p.auto_authorized
        /\ a.supersede_deadline = p.supersede_deadline
        /\ a.dual_map_execute_latched = p.dual_map_execute_latched
        /\ a.planner_epoch = p.planner_epoch
        /\ a.planner_generation = p.planner_generation
        /\ a.planner_generation_retired = p.planner_generation_retired
  BY <1>1, MapReadyEffect
<1>4. a \in Arbiter
  BY <1>1, MapReadyType
<1>5. MapInterrupted(ready) => ~a.auto_authorized
  <2> DEFINE g == IF MapInterrupted(ready) THEN Withdrawn(grant) ELSE grant
  <2>1. AuthoritySound(a, g, stop)
    BY <1>1, MapReadySound
  <2>2. MapInterrupted(ready) => ~g.live
    BY <1>1 DEF Withdrawn, Grant
  <2> HIDE DEF a, g
  <2> QED BY <2>1, <2>2 DEF AuthoritySound, Backed
<1> HIDE DEF a
<1>6. PlanSound(p, grant, lost, heard.map, clock)
  BY <1>1, <1>3, PlanExpired DEF SameVersion
<1>7. CASE ~MapInterrupted(ready)
  <2>1. PlanSound(a, grant, lost, heard'.map, clock)
    <3>1. heard'.map # Never => a.map_ready
      BY <1>2, <1>3
    <3> QED BY <1>3, <1>6, <3>1 DEF PlanSound, PlannerIdentity
  <2> QED BY <1>1, <1>2, <1>4, <1>7, <2>1, PublishPlan
<1>8. CASE MapInterrupted(ready)
  <2>1. Identity(grant) = PlannerIdentity(p) => p.planner_generation_retired
    <3> SUFFICES ASSUME Identity(grant) = PlannerIdentity(p)
                 PROVE  p.planner_generation_retired
      OBVIOUS
    <3>1. Identity(grant) = PlannerIdentity(arb)
      BY <1>3 DEF Expired, PlannerIdentity
    <3>2. arb.ready_lease_generation = arb.planner_generation
      BY <1>1, <3>1 DEF PlanSound
    <3>3. CASE arb.map_ready /\ ~MapReady(arb)
      BY <1>1, <1>3, <3>2, <3>3, LapseEffect
    <3>4. CASE ~(arb.map_ready /\ ~MapReady(arb)) /\ ~ready
      BY <1>1, <1>3, <3>4, RetireEffect
    <3>5. CASE ~(arb.map_ready /\ ~MapReady(arb)) /\ ready
      <4>1. heard.map # Never /\ clock - heard.map > MapReadyTimeout /\ p = arb
        BY <1>3, <1>8, <3>5 DEF MapInterrupted
      <4>2. ~arb.map_ready
        BY <1>1, <3>5, <4>1, ConfigAssumption DEF MapReady
      <4> QED BY <1>1, <3>1, <4>1, <4>2 DEF PlanSound
    <3> QED BY <3>3, <3>4, <3>5
  <2>2. SameVersion(grant, grant') /\ lost' = Identity(grant)
    BY <1>1, <1>2, <1>8, WithdrawnVersion
  <2>3. heard'.map # Never => a.map_ready
    BY <1>2, <1>3
  <2>4. /\ PlannerIdentity(a) = PlannerIdentity(p)
        /\ ~a.auto_authorized /\ a.supersede_deadline = Never
    BY <1>3, <1>5, <1>6, <1>8 DEF PlanSound, PlannerIdentity
  <2>5. PlanSound(a, grant', lost', heard'.map, clock)
    BY <1>3, <1>6, <2>1, <2>2, <2>3, <2>4 DEF PlanSound, SameVersion
  <2> QED BY <1>1, <1>2, <1>4, <2>5, PublishPlan
<1> QED BY <1>7, <1>8

LEMMA StopPlan ==
    ASSUME Inductive, PlanInv, NEW active \in BOOLEAN, OnEmergencyStop(active)
    PROVE  PlanInv'
<1> DEFINE b == [arb EXCEPT !.emergency_stop = active]
           c == [b EXCEPT !.dual_map_execute_latched = FALSE]
           d == ClearExecutionLease(c)
           e == InvalidateSources(d)
           f == MaybeAuthorizeLatchedExecute(b)
<1>1. /\ arb \in Arbiter /\ clock \in Nat /\ grant \in Grant
      /\ AuthoritySound(arb, grant, stop)
      /\ PlanSound(arb, grant, lost, heard.map, clock)
      /\ heard \in HeardType
  BY DEF Inductive, StateType, HistoryType, AuthorityInv, PlanInv, HeardType
<1>2. /\ b \in Arbiter /\ SamePlan(arb, b) /\ b.emergency_stop = active
      /\ Frame(arb, b) /\ PlannerFlags(arb, b)
      /\ b.auto_authorized = arb.auto_authorized
      /\ b.dual_map_execute_latched = arb.dual_map_execute_latched
  <2>1. b \in Arbiter
    BY <1>1, Zenon DEF Arbiter
  <2> QED BY <1>1, <2>1 DEF Arbiter, SamePlan, Frame, PlannerFlags
<1>3. CASE ~active
  <2>1. Quietly(f) /\ heard' = heard /\ clock' = clock /\ grant' = grant /\ lost' = lost
    BY <1>3 DEF OnEmergencyStop
  <2> HIDE DEF b
  <2>2. PlanSound(b, grant, lost, heard.map, clock)
    BY <1>1, <1>2, <1>3, PlanSame
  <2>3. AuthoritySound(b, grant, stop)
    BY <1>1, <1>2, WeakerSound
  <2>4. PlanSound(f, grant, lost, heard.map, clock)
    BY <1>2, <2>2, <2>3, LatchPlan
  <2> HIDE DEF f
  <2>5. PlanSound(f, grant', lost', heard'.map, clock')
    BY <2>1, <2>4
  <2> QED BY <2>1, <2>5, QuietPlan
<1>4. CASE active
  <2>1. /\ Quietly(e) /\ clock' = clock /\ heard'.map = heard.map
        /\ grant' = Withdrawn(grant) /\ lost' = lost
    BY <1>1, <1>4 DEF OnEmergencyStop, Forget, HeardType
  <2> HIDE DEF b
  <2>2. c \in Arbiter /\ SamePlan(b, c)
    <3>1. c \in Arbiter
      BY <1>2, Zenon DEF Arbiter
    <3> QED BY <1>2, <3>1 DEF Arbiter, SamePlan
  <2> HIDE DEF c
  <2>3. /\ d \in Arbiter /\ Expired(c, d) /\ PlannerFlags(c, d) /\ ~d.auto_authorized
        /\ d.supersede_deadline = Never
    BY <2>2, ClearType, ClearExpired, RejectEffect, NeverType
       DEF Arbiter, ClearExecutionLease
  <2> HIDE DEF d
  <2>4. /\ Silenced(d, e) /\ ~e.auto_authorized /\ e.supersede_deadline = Never
        /\ e.dual_map_execute_latched = d.dual_map_execute_latched
        /\ e.link_up = d.link_up
    BY <2>3, SilenceEffect
  <2> HIDE DEF e
  <2>5. /\ e.planner_epoch = arb.planner_epoch
        /\ e.planner_generation = arb.planner_generation
        /\ e.planner_generation_retired = arb.planner_generation_retired
        /\ e.ready_lease_generation = arb.ready_lease_generation
        /\ e.map_ready = arb.map_ready
        /\ e.dual_map_execute_latched => arb.dual_map_execute_latched
        /\ e.link_up = arb.link_up
        /\ e.has_link_heartbeat = arb.has_link_heartbeat
    BY <1>2, <2>2, <2>3, <2>4 DEF Silenced, SamePlan, Expired, PlannerFlags
  <2>6. e.link_up => e.has_link_heartbeat
    BY <1>1, <2>5 DEF PlanSound
  <2>7. SameVersion(grant, grant')
    BY <1>1, <2>1, WithdrawnVersion
  <2>8. PlanSound(e, grant', lost', heard'.map, clock')
    BY <1>1, <2>1, <2>4, <2>5, <2>6, <2>7, PlanDown
  <2> QED BY <2>1, <2>8, QuietPlan
<1> QED BY <1>3, <1>4

LEMMA LinkPlan ==
    ASSUME Inductive, PlanInv, NEW up \in BOOLEAN, OnLinkHealth(up)
    PROVE  PlanInv'
<1>1. /\ arb \in Arbiter /\ clock \in Nat /\ clock \in Int /\ grant \in Grant
      /\ AuthoritySound(arb, grant, stop)
      /\ PlanSound(arb, grant, lost, heard.map, clock)
      /\ heard \in HeardType
  BY DEF Inductive, StateType, HistoryType, AuthorityInv, PlanInv, HeardType
<1>2. clock' = clock /\ heard'.map = heard.map /\ lost' = lost
  BY <1>1 DEF OnLinkHealth, Forget, HeardType
<1>3. CASE up /\ arb.link_up
  <2> DEFINE b == [arb EXCEPT !.has_link_heartbeat = TRUE,
                              !.last_link_stamp = clock, !.link_up = TRUE]
             f == MaybeAuthorizeLatchedExecute(b)
  <2>1. Quietly(f) /\ grant' = grant
    BY <1>3 DEF OnLinkHealth, SerialLinkUp
  <2>2. /\ b \in Arbiter /\ Frame(arb, b) /\ PlannerFlags(arb, b)
        /\ b.auto_authorized = arb.auto_authorized
        /\ b.dual_map_execute_latched = arb.dual_map_execute_latched
        /\ b.supersede_deadline = arb.supersede_deadline
        /\ b.emergency_stop = arb.emergency_stop
        /\ b.link_up /\ b.has_link_heartbeat
    <3>1. b \in Arbiter
      BY <1>1, Zenon DEF Arbiter
    <3> QED BY <1>1, <3>1 DEF Arbiter, Frame, PlannerFlags
  <2> HIDE DEF b
  <2>3. AuthoritySound(b, grant, stop)
    BY <1>1, <2>2, WeakerSound
  <2>4. PlanSound(b, grant, lost, heard.map, clock)
    BY <1>1, <1>3, <2>2 DEF PlanSound, Frame, PlannerFlags, PlannerIdentity
  <2>5. PlanSound(f, grant, lost, heard.map, clock)
    BY <2>2, <2>3, <2>4, LatchPlan
  <2> HIDE DEF f
  <2>6. PlanSound(f, grant', lost', heard'.map, clock')
    BY <1>2, <2>1, <2>5
  <2> QED BY <2>1, <2>6, QuietPlan
<1>4. CASE up /\ ~arb.link_up
  <2> DEFINE p == SerialLinkDown(arb)
             b == [p EXCEPT !.has_link_heartbeat = TRUE,
                            !.last_link_stamp = clock, !.link_up = TRUE]
  <2>1. Quietly(MaybeAuthorizeLatchedExecute(b)) /\ grant' = Withdrawn(grant)
    BY <1>4 DEF OnLinkHealth, SerialLinkUp
  <2>2. /\ p \in Arbiter /\ Silenced(arb, p) /\ ~p.auto_authorized
        /\ p.supersede_deadline = Never /\ ~p.dual_map_execute_latched
    BY <1>1, LinkDownType, LinkDownEffect
  <2> HIDE DEF p
  <2>3. /\ ~b.auto_authorized /\ b.supersede_deadline = Never
        /\ ~b.dual_map_execute_latched /\ b.has_link_heartbeat
    BY <1>1, <2>2 DEF Arbiter
  <2>4. /\ b.planner_epoch = p.planner_epoch
        /\ b.planner_generation = p.planner_generation
        /\ b.planner_generation_retired = p.planner_generation_retired
        /\ b.ready_lease_generation = p.ready_lease_generation
        /\ b.map_ready = p.map_ready
    BY <1>1, <2>2 DEF Arbiter
  <2> HIDE DEF b
  <2>5. Quietly(b)
    BY <2>1, <2>3 DEF MaybeAuthorizeLatchedExecute
  <2>6. SameVersion(grant, grant')
    BY <1>1, <2>1, WithdrawnVersion
  <2>7. PlanSound(b, grant', lost', heard'.map, clock')
    BY <1>1, <1>2, <2>2, <2>3, <2>4, <2>6, PlanDown DEF Silenced
  <2> QED BY <2>5, <2>7, QuietPlan
<1>5. CASE ~up
  <2> DEFINE b == [arb EXCEPT !.has_link_heartbeat = TRUE, !.last_link_stamp = clock]
             p == SerialLinkDown(b)
  <2>1. Quietly(p) /\ grant' = Withdrawn(grant)
    BY <1>5 DEF OnLinkHealth
  <2>2. /\ b \in Arbiter /\ Frame(arb, b) /\ PlannerFlags(arb, b)
    <3>1. b \in Arbiter
      BY <1>1, Zenon DEF Arbiter
    <3> QED BY <1>1, <3>1 DEF Arbiter, Frame, PlannerFlags
  <2> HIDE DEF b
  <2>3. /\ Silenced(b, p) /\ ~p.link_up /\ ~p.auto_authorized
        /\ p.supersede_deadline = Never /\ ~p.dual_map_execute_latched
    BY <2>2, LinkDownEffect
  <2> HIDE DEF p
  <2>4. SameVersion(grant, grant')
    BY <1>1, <2>1, WithdrawnVersion
  <2>5. PlanSound(p, grant', lost', heard'.map, clock')
    BY <1>1, <1>2, <2>2, <2>3, <2>4, PlanDown DEF Silenced, Frame, PlannerFlags
  <2> QED BY <2>1, <2>5, QuietPlan
<1> QED BY <1>3, <1>4, <1>5

(* A grant just made names the planner's version, which is usable: it was  *)
(* never superseded, its map lease lasts, and it is not a lost one.        *)
LEMMA GrantPlan ==
    ASSUME NEW b \in Arbiter, NEW c \in Commands, NEW d, NEW g, NEW st, NEW l,
           NEW m, NEW t,
           AuthoritySound(b, g, st), PlanSound(b, g, l, m, t),
           NamesUsableGeneration(b, c.epoch, c.generation),
           d.planner_epoch = b.planner_epoch,
           d.planner_generation = b.planner_generation,
           d.planner_generation_retired = b.planner_generation_retired,
           d.ready_lease_generation = b.ready_lease_generation,
           d.map_ready = b.map_ready,
           d.link_up = b.link_up, d.has_link_heartbeat = b.has_link_heartbeat,
           d.supersede_deadline = Never,
           d.emergency_stop \/ ~d.link_up => ~d.auto_authorized
    PROVE  PlanSound(d, GrantOf(c), l, m, t)
<1>1. /\ Identity(GrantOf(c)) = PlannerIdentity(b)
      /\ PlannerIdentity(b) # <<0, 0>>
      /\ b.planner_generation_usable /\ b.map_ready
  BY DEF NamesUsableGeneration, MapReady, GrantOf, Identity, PlannerIdentity
<1>2. GrantOf(c).superseded = Never
  BY DEF GrantOf
<1>3. PlannerIdentity(d) = PlannerIdentity(b)
  BY DEF PlannerIdentity
<1>4. /\ ~b.planner_generation_retired
      /\ b.ready_lease_generation = b.planner_generation
  BY <1>1 DEF AuthoritySound
<1>5. PlannerIdentity(b) # l
  BY <1>1, <1>4 DEF PlanSound
<1>6. ~Outranks(PlannerIdentity(b), PlannerIdentity(b))
  BY DEF Outranks, PlannerIdentity, Arbiter
<1>7. /\ ~Outranks(l, PlannerIdentity(b))
      /\ b.link_up => b.has_link_heartbeat
  BY DEF PlanSound
<1> HIDE DEF GrantOf
<1> QED
  BY <1>1, <1>2, <1>3, <1>4, <1>5, <1>6, <1>7 DEF PlanSound

LEMMA CommandPlan ==
    ASSUME Inductive, Inductive', PlanInv, NEW c \in Commands, OnExecutionCommand(c)
    PROVE  PlanInv'
<1> DEFINE b == Consumed(arb, c)
<1>1. /\ arb \in Arbiter /\ clock \in Nat /\ clock \in Int /\ grant \in Grant
      /\ AuthoritySound(arb, grant, stop)
      /\ PlanSound(arb, grant, lost, heard.map, clock)
  BY DEF Inductive, StateType, HistoryType, AuthorityInv, PlanInv
<1>2. clock' = clock /\ heard' = heard /\ lost' = lost
  BY DEF OnExecutionCommand, RefuseCommand, HonourStop, TolerateSuperseded,
         RejectUnmapped, AuthorizeExecute, LatchExecute, history
<1>3. b \in Arbiter /\ Expired(arb, b) /\ AuthoritySound(b, grant, stop)
  BY <1>1, ConsumedType, ConsumedExpired, ConsumedSound
<1> HIDE DEF b
<1>4. /\ SameVersion(grant, grant)
      /\ SameVersion(grant, Withdrawn(grant))
      /\ SameVersion(grant, WithdrawnUnlessLatched(grant))
  BY <1>1, WithdrawnVersion
<1>5. PlanSound(b, grant, lost, heard.map, clock)
  BY <1>1, <1>3, <1>4, PlanExpired
<1>6. ASSUME NEW a \in Arbiter, PlanSound(a, grant, lost, heard.map, clock),
             PublishSelection(RejectExecutionCommand(a)),
             grant' = WithdrawnUnlessLatched(grant)
      PROVE  PlanInv'
  <2> DEFINE d == RejectExecutionCommand(a)
  <2>1. d \in Arbiter /\ Expired(a, d)
    BY RejectType, RejectExpired
  <2>2. PublishSelection(d)
    BY <1>6
  <2> HIDE DEF d
  <2>3. PlanSound(d, grant', lost', heard'.map, clock)
    BY <1>2, <1>4, <1>6, <2>1, PlanExpired
  <2> QED BY <1>1, <1>2, <2>1, <2>2, <2>3, PublishPlan
<1>7. CASE RefuseCommand(c)
  BY <1>1, <1>6, <1>7 DEF RefuseCommand
<1>8. CASE HonourStop(c)
  <2> DEFINE d == RejectExecutionCommand(b)
             e == [d EXCEPT !.dual_map_execute_latched = FALSE]
  <2>1. Quietly(e) /\ grant' = Withdrawn(grant)
    BY <1>8 DEF HonourStop, RejectExecutionCommand, b
  <2>2. d \in Arbiter /\ Expired(b, d)
    BY <1>3, RejectType, RejectExpired
  <2> HIDE DEF d
  <2>3. SamePlan(d, e) /\ e.emergency_stop = d.emergency_stop
    <3>1. e \in Arbiter
      BY <2>2, Zenon DEF Arbiter
    <3> QED BY <2>2, <3>1 DEF Arbiter, SamePlan
  <2> HIDE DEF e
  <2>4. PlanSound(d, grant', lost, heard.map, clock)
    BY <1>4, <1>5, <2>1, <2>2, PlanExpired
  <2>5. PlanSound(e, grant', lost', heard'.map, clock')
    BY <1>2, <2>3, <2>4, PlanSame
  <2> QED BY <2>1, <2>5, QuietPlan
<1>9. CASE TolerateSuperseded(c)
  <2>1. Quietly(b) /\ grant' = grant
    BY <1>9 DEF TolerateSuperseded, history, b
  <2>2. PlanSound(b, grant', lost', heard'.map, clock')
    BY <1>2, <1>5, <2>1
  <2> QED BY <2>1, <2>2, QuietPlan
<1>10. CASE RejectUnmapped(c)
  BY <1>3, <1>5, <1>6, <1>10 DEF RejectUnmapped, b
<1>11. /\ c.epoch \in Nat /\ c.generation \in Nat /\ clock - c.age \in Int
  BY <1>1, MessageTypes
<1>12. CASE AuthorizeExecute(c)
  <2> DEFINE d == [b EXCEPT !.auto_authorized = TRUE,
                            !.execution_lease_stamp = clock - c.age,
                            !.dual_map_execute_latched = FALSE,
                            !.supersede_deadline = Never]
  <2>1. /\ Quietly(d) /\ grant' = GrantOf(c)
        /\ NamesUsableGeneration(b, c.epoch, c.generation)
        /\ ~b.emergency_stop /\ b.link_up
    BY <1>12 DEF AuthorizeExecute, b
  <2>2. d \in Arbiter
    BY <1>3, <1>11, NeverType, Zenon DEF Arbiter
  <2>3. /\ d.planner_epoch = b.planner_epoch
        /\ d.planner_generation = b.planner_generation
        /\ d.planner_generation_retired = b.planner_generation_retired
        /\ d.ready_lease_generation = b.ready_lease_generation
        /\ d.map_ready = b.map_ready
        /\ d.link_up = b.link_up /\ d.has_link_heartbeat = b.has_link_heartbeat
        /\ d.supersede_deadline = Never
        /\ d.emergency_stop = b.emergency_stop
    BY <1>3, <2>2 DEF Arbiter
  <2> HIDE DEF d
  <2>4. PlanSound(d, GrantOf(c), lost, heard.map, clock)
    BY <1>3, <1>5, <2>1, <2>3, GrantPlan
  <2>5. PlanSound(d, grant', lost', heard'.map, clock')
    BY <1>2, <2>1, <2>4
  <2> QED BY <2>1, <2>5, QuietPlan
<1>13. CASE LatchExecute(c)
  <2> DEFINE d == [b EXCEPT !.auto_authorized = FALSE,
                            !.dual_map_execute_latched = TRUE,
                            !.latched_execute_epoch = c.epoch,
                            !.latched_execute_generation = c.generation,
                            !.latched_execute_stamp = clock - c.age]
  <2>1. /\ Quietly(d) /\ grant' = GrantOf(c)
        /\ NamesUsableGeneration(b, c.epoch, c.generation)
        /\ b.emergency_stop \/ ~b.link_up
    BY <1>13 DEF LatchExecute, b
  <2>2. d \in Arbiter
    BY <1>3, <1>11, Zenon DEF Arbiter
  <2>3. /\ d.planner_epoch = b.planner_epoch
        /\ d.planner_generation = b.planner_generation
        /\ d.planner_generation_retired = b.planner_generation_retired
        /\ d.ready_lease_generation = b.ready_lease_generation
        /\ d.map_ready = b.map_ready
        /\ d.link_up = b.link_up /\ d.has_link_heartbeat = b.has_link_heartbeat
        /\ d.supersede_deadline = b.supersede_deadline
        /\ ~d.auto_authorized
    BY <1>3, <2>2 DEF Arbiter
  <2> HIDE DEF d
  <2>4. d.supersede_deadline = Never
    BY <1>5, <2>1, <2>3 DEF PlanSound
  <2>5. PlanSound(d, GrantOf(c), lost, heard.map, clock)
    BY <1>3, <1>5, <2>1, <2>3, <2>4, GrantPlan
  <2>6. PlanSound(d, grant', lost', heard'.map, clock')
    BY <1>2, <2>1, <2>5
  <2> QED BY <2>1, <2>6, QuietPlan
<1> QED
  BY <1>7, <1>8, <1>9, <1>10, <1>12, <1>13 DEF OnExecutionCommand

LEMMA PlanNext ==
    ASSUME Inductive, Inductive', PlanInv, [Next]_vars PROVE PlanInv'
<1>1. /\ arb \in Arbiter /\ clock \in Nat /\ clock \in Int /\ grant \in Grant
      /\ lost \in Nat \X Nat
      /\ PlanSound(arb, grant, lost, heard.map, clock)
  BY DEF Inductive, StateType, HistoryType, PlanInv
<1>2. CASE AdvanceClock
  <2>1. /\ Quietly(arb) /\ clock' = clock + 1
        /\ grant' = grant /\ lost' = lost /\ heard' = heard
    BY <1>2 DEF AdvanceClock, history, Quietly
  <2>2. PlanSound(arb, grant', lost', heard'.map, clock')
    BY <1>1, <2>1 DEF PlanSound
  <2> QED BY <2>1, <2>2, QuietPlan
<1>3. CASE OnTimer
  <2>1. /\ PublishSelection(arb) /\ clock' = clock
        /\ grant' = grant /\ lost' = lost /\ heard' = heard
    BY <1>3 DEF OnTimer, history
  <2>2. PlanSound(arb, grant', lost', heard'.map, clock)
    BY <1>1, <2>1
  <2> QED BY <1>1, <2>1, <2>2, PublishPlan
<1>4. CASE OnManual \/ OnAuto
  <2> DEFINE sample == [valid |-> TRUE, stamp |-> clock]
             p == [arb EXCEPT !.manual = sample]
             u == [arb EXCEPT !.auto = sample]
  <2>1. \/ Quietly(p) \/ Quietly(u)
    BY <1>4 DEF OnManual, OnAuto
  <2>2. /\ clock' = clock /\ grant' = grant /\ lost' = lost
        /\ heard'.map = heard.map
    BY <1>4 DEF OnManual, OnAuto, Inductive, HistoryType
  <2> HIDE DEF sample
  <2>3. /\ SamePlan(arb, p) /\ p.emergency_stop = arb.emergency_stop
        /\ SamePlan(arb, u) /\ u.emergency_stop = arb.emergency_stop
    BY <1>1 DEF Arbiter, SamePlan
  <2> HIDE DEF p, u
  <2>4. PlanSound(p, grant, lost, heard.map, clock)
    BY <1>1, <2>3, PlanSame
  <2>5. PlanSound(u, grant, lost, heard.map, clock)
    BY <1>1, <2>3, PlanSame
  <2>6. /\ PlanSound(p, grant', lost', heard'.map, clock')
        /\ PlanSound(u, grant', lost', heard'.map, clock')
    BY <2>2, <2>4, <2>5
  <2> QED BY <2>1, <2>6, QuietPlan
<1>5. ASSUME NEW s \in Statuses, OnPlannerStatus(s) PROVE PlanInv'
  <2> DEFINE a == PlannerStatusApplied(arb, s)
  <2>1. /\ PublishSelection(a) /\ clock' = clock /\ lost' = lost /\ heard' = heard
        /\ grant' = GrantAfterStatus(s)
    BY <1>5 DEF OnPlannerStatus
  <2>2. a \in Arbiter /\ PlanSound(a, GrantAfterStatus(s), lost, heard.map, clock)
    BY <1>1, StatusType, StatusPlan
  <2> HIDE DEF a
  <2>3. PlanSound(a, grant', lost', heard'.map, clock)
    BY <2>1, <2>2
  <2> QED BY <1>1, <2>1, <2>2, <2>3, PublishPlan
<1>6. CASE UNCHANGED vars
  <2>1. /\ arb' = arb /\ clock' = clock /\ heard' = heard /\ published' = published
        /\ grant' = grant /\ lost' = lost
    BY <1>6 DEF vars, history
  <2>2. PlanSound(arb', grant', lost', heard'.map, clock')
    BY <1>1, <2>1
  <2>3. AutoFollowsPlanner /\ LostGenerationStaysLost
    BY DEF PlanInv, PlanHonest
  <2>4. AutoFollowsPlanner' /\ LostGenerationStaysLost'
    BY <2>1, <2>3
       DEF AutoFollowsPlanner, LostGenerationStaysLost, Identity, PlannerIdentity
  <2> QED BY <2>2, <2>4 DEF PlanInv, PlanHonest
<1> QED
  BY <1>2, <1>3, <1>4, <1>5, <1>6, MapPlan, StopPlan, LinkPlan, CommandPlan
     DEF Next

LEMMA PlanInit == Init => PlanInv
<1> SUFFICES ASSUME Init PROVE PlanInv
  OBVIOUS
<1>1. /\ arb.planner_epoch = 0 /\ arb.planner_generation = 0
      /\ arb.ready_lease_generation = 0
      /\ arb.supersede_deadline = Never
      /\ ~arb.auto_authorized /\ ~arb.dual_map_execute_latched
      /\ arb.link_up <=> ~RequireSerialLink
      /\ arb.has_link_heartbeat <=> ~RequireSerialLink
  BY DEF Init, InitialArbiter
<1>2. Identity(grant) = <<0, 0>> /\ grant.superseded = Never
  BY DEF Init, NoGrant, Identity
<1>3. lost = <<0, 0>> /\ heard.map = Never /\ published = "NOTHING"
  BY DEF Init
<1>4. PlannerIdentity(arb) = <<0, 0>> /\ ~Outranks(<<0, 0>>, <<0, 0>>)
  BY <1>1 DEF PlannerIdentity, Outranks
<1>5. arb.ready_lease_generation = arb.planner_generation
  BY <1>1
<1>6. PlanSound(arb, grant, lost, heard.map, clock)
  BY <1>1, <1>2, <1>3, <1>4, <1>5, Zenon DEF PlanSound
<1>7. PlanHonest
  BY <1>3 DEF PlanHonest, AutoFollowsPlanner, LostGenerationStaysLost
<1> QED BY <1>6, <1>7 DEF PlanInv

LEMMA PlanInvariance == Spec => []PlanInv
<1>1. Inductive /\ Inductive' /\ PlanInv /\ [Next]_vars => PlanInv'
  BY PlanNext
<1> QED BY <1>1, PlanInit, InductiveInit, InductiveNext, PTL DEF Spec

(* The robot is only driven along the map version the planner stands by:   *)
(* the one it announced last, or one that was superseded at most a grace   *)
(* ago, counted from the first announcement that superseded it.            *)
THEOREM FollowsPlanner == Spec => []AutoFollowsPlanner
<1>1. PlanInv => AutoFollowsPlanner
  BY DEF PlanInv, PlanHonest
<1> QED BY <1>1, PlanInvariance, PTL

(* A map version that was in force when the map was lost or fell silent    *)
(* never moves the robot again, whatever statuses and commands arrive.     *)
THEOREM LostStaysLost == Spec => []LostGenerationStaysLost
<1>1. PlanInv => LostGenerationStaysLost
  BY DEF PlanInv, PlanHonest
<1> QED BY <1>1, PlanInvariance, PTL

=============================================================================
