--------------------------- MODULE CmdVelArbiter ---------------------------
(***************************************************************************)
(* The velocity arbiter of the navigation stack: class CmdVelArbiter and   *)
(* the node that owns it (ats_cmd_vel_arbiter).  It is the last gate       *)
(* before the chassis: every Twist on /cmd_vel/selected is chosen here     *)
(* from the manual source, the autonomous source (the MPC) or zero.        *)
(*                                                                         *)
(* Every callback of the node runs under one mutex, so a callback is one   *)
(* atomic action.  The inputs are unconstrained: each action takes any     *)
(* message of the finite input sets, in any order and at any time, which   *)
(* covers lost, delayed, duplicated and reordered deliveries.              *)
(*                                                                         *)
(* Time is a counter of abstract ticks.  Velocities are abstracted: what   *)
(* matters is which source, if any, a published Twist comes from.          *)
(*                                                                         *)
(* arb is the arbiter object.  Four pairs of fields are folded:            *)
(*   auto_authorized_ / has_execution_lease_  are written together;        *)
(*   has_map_ready_ is implied by map_ready_;                              *)
(*   has_manager_incarnation_ and has_command_sequence_ are encoded by the *)
(*   value 0, which no admissible command carries.                         *)
(* An absent supersede_deadline_ is Never.                                 *)
(***************************************************************************)
EXTENDS Integers

CONSTANTS
    ManualTimeout, AutoTimeout, ExecutionCommandTimeout,  \* CmdVelArbiterConfig
    LinkTimeout, MapReadyTimeout, SupersedeGrace,
    RequireSerialLink,   \* require_serial_link: FALSE arms the link at startup
    ManualOperator,      \* whether anybody publishes on /cmd_vel
    Modes, Verdicts, Epochs, Generations, Incarnations, Sequences,
    StatusStamps, Ages,  \* the values messages carry (bounds for TLC)
    MaxTime              \* bound of the clock

ASSUME ConfigAssumption ==
    /\ ManualTimeout \in Nat /\ AutoTimeout \in Nat
    /\ ExecutionCommandTimeout \in Nat /\ LinkTimeout \in Nat
    /\ MapReadyTimeout \in Nat /\ SupersedeGrace \in Nat
    /\ RequireSerialLink \in BOOLEAN /\ ManualOperator \in BOOLEAN

(* Modes of an ExecutionCommand: anything but STOP and EXECUTE is INVALID. *)
(* Verdicts: PlannerStatus as the node's onPlannerStatus classifies it,    *)
(* REFERENCE_READY without a failure, a failure, a MAP_UNREADY failure, or *)
(* OTHER.  STATE_ACCEPTED and malformed headers never reach the arbiter.   *)
ASSUME InputAssumption ==
    /\ Modes \subseteq {"STOP", "EXECUTE", "INVALID"}
    /\ Verdicts \subseteq {"READY", "FAILED", "MAP_UNREADY", "OTHER"}
    /\ Epochs \subseteq Nat /\ Generations \subseteq Nat
    /\ Incarnations \subseteq Nat /\ Sequences \subseteq Nat
    /\ StatusStamps \subseteq Nat /\ Ages \subseteq Int
    /\ MaxTime \in Nat

VARIABLES
    arb,        \* the CmdVelArbiter object, arbiter_ of the node
    clock,      \* steady_clock::now()
    published,  \* what the last step put on /cmd_vel/selected, or "NOTHING"
    grant,      \* history: the EXECUTE the arbiter last honoured or latched
    stop,       \* history: <<incarnation, sequence>> of the last honoured STOP
    heard,      \* history: when each input was last heard from
    lost        \* history: the map version in force when the map was last lost

history == <<grant, stop, heard, lost>>
vars == <<arb, clock, published, history>>

-----------------------------------------------------------------------------
(* Types.                                                                  *)

Never == -1     \* an optional time point that is not set

Commands ==
    [mode : Modes, incarnation : Incarnations, sequence : Sequences,
     epoch : Epochs, generation : Generations, age : Ages]

Statuses ==
    [epoch : Epochs, generation : Generations, stamp : StatusStamps,
     verdict : Verdicts]

Sample == [valid : BOOLEAN, stamp : Int]

Arbiter ==
    [manual : Sample, auto : Sample,
     auto_authorized : BOOLEAN, execution_lease_stamp : Int,
     emergency_stop : BOOLEAN,
     link_up : BOOLEAN, has_link_heartbeat : BOOLEAN, last_link_stamp : Int,
     active_manager_incarnation : Nat, last_command_sequence : Nat,
     dual_map_execute_latched : BOOLEAN, latched_execute_epoch : Nat,
     latched_execute_generation : Nat, latched_execute_stamp : Int,
     planner_epoch : Nat, planner_generation : Nat, planner_status_stamp : Int,
     planner_generation_usable : BOOLEAN, planner_generation_retired : BOOLEAN,
     ready_lease_generation : Nat,
     supersede_deadline : Int, superseded_generation : Nat,
     map_ready : BOOLEAN, map_ready_stamp : Int]

Reasons ==
    {"ZERO_NO_SOURCE", "MANUAL_FRESH", "AUTO_AUTHORIZED", "MANUAL_TIMEOUT",
     "AUTO_UNAUTHORIZED", "AUTO_TIMEOUT", "EMERGENCY_STOP", "LINK_DOWN"}

-----------------------------------------------------------------------------
(* The private helpers: each maps an arbiter to the arbiter it leaves.     *)

ClearExecutionLease(a) ==
    [a EXCEPT !.auto_authorized = FALSE, !.supersede_deadline = Never]

InvalidateAuto(a) == [a EXCEPT !.auto.valid = FALSE]

InvalidateSources(a) == [InvalidateAuto(a) EXCEPT !.manual.valid = FALSE]

(* Mutant: a rejected command drops the manual source too.                 *)
RejectEverySource(a) == InvalidateSources(ClearExecutionLease(a))

RejectExecutionCommand(a) == InvalidateAuto(ClearExecutionLease(a))

(* Mutant: a lost map suspends the generation instead of retiring it.      *)
SuspendPlannerGeneration(a) ==
    RejectExecutionCommand([a EXCEPT !.planner_generation_usable = FALSE])

RetirePlannerGeneration(a) ==
    RejectExecutionCommand([a EXCEPT !.planner_generation_usable = FALSE,
                                     !.planner_generation_retired = TRUE])

MapReady(a) == a.map_ready /\ clock - a.map_ready_stamp \in 0..MapReadyTimeout

(* What both expireMapReady and a late onMapReady do to a lapsed lease.    *)
LapseMapReady(a) ==
    LET lapsed == [a EXCEPT !.map_ready = FALSE]
    IN  IF a.planner_generation = a.ready_lease_generation
        THEN RetirePlannerGeneration(lapsed)
        ELSE RejectExecutionCommand(
                [lapsed EXCEPT !.planner_generation_usable = FALSE])

ExpireMapReady(a) == IF a.map_ready /\ ~MapReady(a) THEN LapseMapReady(a) ELSE a

ExpireSupersedeGrace(a) ==
    IF a.supersede_deadline # Never /\ clock > a.supersede_deadline
    THEN RejectExecutionCommand(a)
    ELSE a

ExpireExecutionLease(a) ==
    IF /\ a.auto_authorized
       /\ clock - a.execution_lease_stamp \notin 0..ExecutionCommandTimeout
    THEN ClearExecutionLease(a)
    ELSE a

IsFresh(sample, timeout) ==
    /\ sample.valid
    /\ timeout > 0
    /\ clock - sample.stamp \in 0..timeout

(* The planner's identity as the arbiter knows it names this map.          *)
NamesUsableGeneration(a, epoch, generation) ==
    /\ MapReady(a)
    /\ a.planner_generation_usable
    /\ epoch # 0 /\ generation # 0
    /\ epoch = a.planner_epoch /\ generation = a.planner_generation

MaybeAuthorizeLatchedExecute(a) ==
    LET b == ExpireMapReady(a)
        unlatched == [b EXCEPT !.dual_map_execute_latched = FALSE]
    IN  IF ~a.dual_map_execute_latched \/ a.emergency_stop \/ ~a.link_up
        THEN a
        ELSE IF /\ NamesUsableGeneration(b, b.latched_execute_epoch,
                                            b.latched_execute_generation)
                /\ clock - b.latched_execute_stamp \in 0..ExecutionCommandTimeout
             THEN [unlatched EXCEPT
                     !.auto_authorized = TRUE,
                     !.execution_lease_stamp = b.latched_execute_stamp]
             ELSE unlatched

SerialLinkDown(a) ==
    [InvalidateSources(ClearExecutionLease(a)) EXCEPT
        !.link_up = FALSE, !.dual_map_execute_latched = FALSE]

(* Mutant: samples cached while the link was down survive its recovery.    *)
SerialLinkUpKeepsSamples(a) ==
    MaybeAuthorizeLatchedExecute(
        [a EXCEPT !.has_link_heartbeat = TRUE, !.last_link_stamp = clock,
                  !.link_up = TRUE])

SerialLinkUp(a) ==
    LET b == IF a.link_up THEN a ELSE SerialLinkDown(a)
    IN  MaybeAuthorizeLatchedExecute(
            [b EXCEPT !.has_link_heartbeat = TRUE,
                      !.last_link_stamp = clock,
                      !.link_up = TRUE])

-----------------------------------------------------------------------------
(* publishSelection, which calls tick: expire what is due, then choose.    *)

(* link_timeout of the configuration: 0, never expiring, when the serial   *)
(* link is not required.                                                   *)
LinkExpired(a) ==
    /\ RequireSerialLink
    /\ LinkTimeout > 0
    /\ clock - a.last_link_stamp \notin 0..LinkTimeout

(* The leases tick expires before it looks at the sources.                 *)
Settled(a) ==
    LET b == ExpireSupersedeGrace(ExpireMapReady(ExpireExecutionLease(a)))
    IN  IF MapReady(b) THEN b ELSE RejectExecutionCommand(b)

DropStaleSamples(a) ==
    [a EXCEPT !.manual.valid = IsFresh(a.manual, ManualTimeout),
              !.auto.valid = IsFresh(a.auto, AutoTimeout)]

Selection(a) ==
    CASE IsFresh(a.manual, ManualTimeout) -> "MANUAL_FRESH"
      [] /\ ~IsFresh(a.manual, ManualTimeout)
         /\ IsFresh(a.auto, AutoTimeout)
         -> IF a.auto_authorized THEN "AUTO_AUTHORIZED" ELSE "AUTO_UNAUTHORIZED"
      [] OTHER -> IF a.manual.valid THEN "MANUAL_TIMEOUT"
                  ELSE IF a.auto.valid THEN "AUTO_TIMEOUT" ELSE "ZERO_NO_SOURCE"

PublishSelection(a) ==
    \/ /\ ~a.has_link_heartbeat
       /\ arb' = [a EXCEPT !.link_up = FALSE]
       /\ published' = "LINK_DOWN"
    \/ /\ a.has_link_heartbeat /\ LinkExpired(a)
       /\ arb' = [SerialLinkDown(a) EXCEPT !.has_link_heartbeat = FALSE]
       /\ published' = "LINK_DOWN"
    \/ /\ a.has_link_heartbeat /\ ~LinkExpired(a) /\ ~a.link_up
       /\ arb' = a
       /\ published' = "LINK_DOWN"
    \/ /\ a.has_link_heartbeat /\ ~LinkExpired(a) /\ a.link_up /\ a.emergency_stop
       /\ arb' = a
       /\ published' = "EMERGENCY_STOP"
    \/ /\ a.has_link_heartbeat /\ ~LinkExpired(a) /\ a.link_up /\ ~a.emergency_stop
       /\ arb' = DropStaleSamples(Settled(a))
       /\ published' = Selection(Settled(a))

Quietly(a) == arb' = a /\ published' = "NOTHING"

-----------------------------------------------------------------------------
(* History variables: they record the messages, and no action is guarded by *)
(* them.                                                                   *)

NoGrant ==
    [live |-> FALSE, incarnation |-> 0, sequence |-> 0, epoch |-> 0,
     generation |-> 0, issued |-> 0, superseded |-> Never]

Grant ==
    [live : BOOLEAN, incarnation : Nat, sequence : Nat, epoch : Nat,
     generation : Nat, issued : Int, superseded : Int]

GrantOf(c) ==
    [live |-> TRUE, incarnation |-> c.incarnation, sequence |-> c.sequence,
     epoch |-> c.epoch, generation |-> c.generation,
     issued |-> clock - c.age, superseded |-> Never]

Withdrawn(g) == [g EXCEPT !.live = FALSE, !.issued = 0]

(* What revokes an authority, but not an EXECUTE that still waits for the  *)
(* emergency stop to clear.                                                *)
WithdrawnUnlessLatched(g) ==
    IF arb.dual_map_execute_latched THEN g ELSE Withdrawn(g)

Order(g) == <<g.incarnation, g.sequence>>
Identity(g) == <<g.epoch, g.generation>>
PlannerIdentity(a) == <<a.planner_epoch, a.planner_generation>>

Forget(h) == [h EXCEPT !.manual = Never, !.auto = Never]

(* <<i, s>> comes after <<j, t>> in the order managers issue commands.     *)
Outranks(order, other) ==
    \/ order[1] > other[1]
    \/ order[1] = other[1] /\ order[2] > other[2]

-----------------------------------------------------------------------------
(* The callbacks.                                                          *)

OnManual ==
    /\ ManualOperator
    /\ Quietly([arb EXCEPT !.manual = [valid |-> TRUE, stamp |-> clock]])
    /\ heard' = [heard EXCEPT !.manual = clock]
    /\ UNCHANGED <<clock, grant, stop, lost>>

OnAuto ==
    /\ Quietly([arb EXCEPT !.auto = [valid |-> TRUE, stamp |-> clock]])
    /\ heard' = [heard EXCEPT !.auto = clock]
    /\ UNCHANGED <<clock, grant, stop, lost>>

(* Early returns of onPlannerStatus: nothing to say, no identity, an older *)
(* identity, or an older status of the same identity.                      *)
SameIdentity(a, s) ==
    s.epoch = a.planner_epoch /\ s.generation = a.planner_generation

StatusIgnored(a, s) ==
    \/ s.verdict = "OTHER"
    \/ s.epoch = 0 \/ s.generation = 0 \/ s.stamp <= 0
    \/ s.epoch < a.planner_epoch
    \/ s.epoch = a.planner_epoch /\ s.generation < a.planner_generation
    \/ SameIdentity(a, s) /\ s.stamp <= a.planner_status_stamp

(* A newer generation of the same epoch that is READY supersedes a live    *)
(* authority instead of revoking it.                                       *)
Supersedes(a, s) ==
    /\ ~SameIdentity(a, s)
    /\ SupersedeGrace > 0
    /\ s.verdict = "READY"
    /\ s.epoch = a.planner_epoch
    /\ a.auto_authorized

(* Mutant: every newer generation opens a new grace window.                *)
GraceRestarted(a) ==
    [a EXCEPT !.supersede_deadline = clock + SupersedeGrace,
              !.superseded_generation = a.planner_generation]

Graced(a) ==
    IF a.supersede_deadline # Never THEN a
    ELSE [a EXCEPT !.supersede_deadline = clock + SupersedeGrace,
                   !.superseded_generation = a.planner_generation]

AdoptIdentity(a, s) ==
    LET settled == IF Supersedes(a, s) THEN Graced(a) ELSE RejectExecutionCommand(a)
    IN  IF SameIdentity(a, s) THEN a
        ELSE [settled EXCEPT !.planner_epoch = s.epoch,
                             !.planner_generation = s.generation,
                             !.planner_generation_usable = FALSE,
                             !.planner_generation_retired = FALSE]

ApplyVerdict(a, s) ==
    IF s.verdict = "READY"
    THEN IF a.planner_generation_retired THEN a
         ELSE [a EXCEPT !.planner_generation_usable = TRUE,
                        !.ready_lease_generation = a.planner_generation]
    ELSE RejectExecutionCommand(
            [a EXCEPT !.planner_generation_usable = FALSE,
                      !.planner_generation_retired =
                          @ \/ s.verdict = "MAP_UNREADY"])

PlannerStatusApplied(a, s) ==
    IF StatusIgnored(a, s) THEN a
    ELSE ApplyVerdict([AdoptIdentity(a, s) EXCEPT !.planner_status_stamp = s.stamp], s)

(* A READY announcement of another identity opens the grace of the grant,  *)
(* which does not outlive its localization epoch.                          *)
Superseded(g, s) ==
    IF g.superseded # Never \/ <<s.epoch, s.generation>> = Identity(g) THEN g
    ELSE [g EXCEPT !.superseded = clock, !.live = @ /\ s.epoch = g.epoch]

GrantAfterStatus(s) ==
    IF StatusIgnored(arb, s) THEN grant
    ELSE IF s.verdict = "MAP_UNREADY" THEN Withdrawn(grant)
    ELSE IF s.verdict = "FAILED" THEN WithdrawnUnlessLatched(grant)
    ELSE Superseded(grant, s)

OnPlannerStatus(s) ==
    /\ PublishSelection(PlannerStatusApplied(arb, s))
    /\ grant' = GrantAfterStatus(s)
    /\ UNCHANGED <<clock, stop, heard, lost>>

MapReadyApplied(a, ready) ==
    LET b == IF a.map_ready /\ ~MapReady(a) THEN LapseMapReady(a)
             ELSE IF ready THEN a ELSE RetirePlannerGeneration(a)
    IN  [b EXCEPT !.map_ready = ready,
                  !.map_ready_stamp = clock,
                  !.ready_lease_generation =
                      IF ready THEN b.planner_generation ELSE @]

(* The map was silent for longer than its lease, or reports itself unready *)
MapInterrupted(ready) ==
    \/ ~ready
    \/ heard.map # Never /\ clock - heard.map > MapReadyTimeout

OnMapReady(ready) ==
    /\ PublishSelection(MapReadyApplied(arb, ready))
    /\ grant' = IF MapInterrupted(ready) THEN Withdrawn(grant) ELSE grant
    /\ heard' = [heard EXCEPT !.map = IF ready THEN clock ELSE Never]
    /\ lost' = IF MapInterrupted(ready) THEN Identity(grant) ELSE lost
    /\ UNCHANGED <<clock, stop>>

OnEmergencyStop(active) ==
    /\ LET b == [arb EXCEPT !.emergency_stop = active]
       IN  Quietly(IF active
                   THEN InvalidateSources(ClearExecutionLease(
                            [b EXCEPT !.dual_map_execute_latched = FALSE]))
                   ELSE MaybeAuthorizeLatchedExecute(b))
    /\ grant' = IF active THEN Withdrawn(grant) ELSE grant
    /\ heard' = IF active THEN Forget(heard) ELSE heard
    /\ UNCHANGED <<clock, stop, lost>>

OnLinkHealth(up) ==
    /\ RequireSerialLink
    /\ Quietly(IF up THEN SerialLinkUp(arb)
               ELSE SerialLinkDown([arb EXCEPT !.has_link_heartbeat = TRUE,
                                               !.last_link_stamp = clock]))
    /\ LET broken == ~up \/ ~arb.link_up
       IN  /\ grant' = IF broken THEN Withdrawn(grant) ELSE grant
           /\ heard' = [(IF broken THEN Forget(heard) ELSE heard)
                           EXCEPT !.link = IF up THEN clock ELSE Never]
    /\ UNCHANGED <<clock, stop, lost>>

(* onTimer: the control timer of the node.                                 *)
OnTimer ==
    /\ PublishSelection(arb)
    /\ UNCHANGED <<clock, history>>

-----------------------------------------------------------------------------
(* onExecutionCommand, one action per way it can end.                      *)

(* Mutant: a command stamped in the future counts as fresh.                *)
MalformedUnlessEarly(c) ==
    \/ c.mode = "INVALID" \/ c.incarnation = 0 \/ c.sequence = 0
    \/ c.age > ExecutionCommandTimeout

Malformed(c) ==
    \/ c.mode = "INVALID" \/ c.incarnation = 0 \/ c.sequence = 0
    \/ c.age \notin 0..ExecutionCommandTimeout

(* Mutant: a newer manager may introduce itself with an EXECUTE.           *)
FromOlderManager(a, c) ==
    /\ a.active_manager_incarnation # 0
    /\ c.incarnation < a.active_manager_incarnation

(* A newer manager incarnation may only introduce itself with a STOP.      *)
FromWrongManager(a, c) ==
    /\ a.active_manager_incarnation # 0
    /\ \/ c.incarnation < a.active_manager_incarnation
       \/ c.incarnation > a.active_manager_incarnation /\ c.mode = "EXECUTE"

(* Mutant: the last command honoured is honoured again.                    *)
OlderThanLast(a, c) ==
    /\ c.incarnation = a.active_manager_incarnation
    /\ c.sequence < a.last_command_sequence

Replayed(a, c) ==
    /\ c.incarnation = a.active_manager_incarnation
    /\ c.sequence <= a.last_command_sequence

(* The checks made before the command's identity is consumed.              *)
Refused(a, c) == Malformed(c) \/ FromWrongManager(a, c) \/ Replayed(a, c)

TakesOver(a, c) ==
    a.active_manager_incarnation # 0 /\ c.incarnation > a.active_manager_incarnation

(* The command is accepted as the newest one, and leases that are due      *)
(* expire before it is judged.                                             *)
Consumed(a, c) ==
    LET b == IF TakesOver(a, c) THEN InvalidateAuto(ClearExecutionLease(a)) ELSE a
    IN  ExpireSupersedeGrace(ExpireMapReady(
            [b EXCEPT !.active_manager_incarnation = c.incarnation,
                      !.last_command_sequence = c.sequence]))

(* A heartbeat of the superseded generation within its grace.              *)
NamesSuperseded(b, c) ==
    /\ b.supersede_deadline # Never
    /\ b.auto_authorized
    /\ c.epoch = b.planner_epoch /\ c.generation = b.superseded_generation
    /\ MapReady(b)

RefuseCommand(c) ==
    /\ Refused(arb, c)
    /\ PublishSelection(RejectExecutionCommand(arb))
    /\ grant' = WithdrawnUnlessLatched(grant)
    /\ UNCHANGED <<clock, stop, heard, lost>>

(* Mutant: a STOP leaves an EXECUTE latched.                               *)
HonourStopKeepsLatch(c) ==
    /\ ~Refused(arb, c)
    /\ c.mode = "STOP"
    /\ Quietly(InvalidateAuto(ClearExecutionLease(Consumed(arb, c))))
    /\ grant' = Withdrawn(grant)
    /\ stop' = <<c.incarnation, c.sequence>>
    /\ UNCHANGED <<clock, heard, lost>>

HonourStop(c) ==
    /\ ~Refused(arb, c)
    /\ c.mode = "STOP"
    /\ LET b == Consumed(arb, c)
       IN  Quietly([InvalidateAuto(ClearExecutionLease(b)) EXCEPT
                        !.dual_map_execute_latched = FALSE])
    /\ grant' = Withdrawn(grant)
    /\ stop' = <<c.incarnation, c.sequence>>
    /\ UNCHANGED <<clock, heard, lost>>

TolerateSuperseded(c) ==
    /\ ~Refused(arb, c)
    /\ c.mode = "EXECUTE"
    /\ NamesSuperseded(Consumed(arb, c), c)
    /\ Quietly(Consumed(arb, c))
    /\ UNCHANGED <<clock, history>>

RejectUnmapped(c) ==
    /\ ~Refused(arb, c)
    /\ c.mode = "EXECUTE"
    /\ LET b == Consumed(arb, c)
       IN  /\ ~NamesSuperseded(b, c)
           /\ ~NamesUsableGeneration(b, c.epoch, c.generation)
           /\ PublishSelection(RejectExecutionCommand(b))
    /\ grant' = WithdrawnUnlessLatched(grant)
    /\ UNCHANGED <<clock, stop, heard, lost>>

AuthorizeExecute(c) ==
    /\ ~Refused(arb, c)
    /\ c.mode = "EXECUTE"
    /\ LET b == Consumed(arb, c)
       IN  /\ ~NamesSuperseded(b, c)
           /\ NamesUsableGeneration(b, c.epoch, c.generation)
           /\ ~b.emergency_stop /\ b.link_up
           /\ Quietly([b EXCEPT !.auto_authorized = TRUE,
                                !.execution_lease_stamp = clock - c.age,
                                !.dual_map_execute_latched = FALSE,
                                !.supersede_deadline = Never])
    /\ grant' = GrantOf(c)
    /\ UNCHANGED <<clock, stop, heard, lost>>

(* EXECUTE can overtake the emergency_stop=false published just before it; *)
(* it waits for the stop to clear.                                         *)
LatchExecute(c) ==
    /\ ~Refused(arb, c)
    /\ c.mode = "EXECUTE"
    /\ LET b == Consumed(arb, c)
       IN  /\ ~NamesSuperseded(b, c)
           /\ NamesUsableGeneration(b, c.epoch, c.generation)
           /\ b.emergency_stop \/ ~b.link_up
           /\ Quietly([b EXCEPT !.auto_authorized = FALSE,
                                !.dual_map_execute_latched = TRUE,
                                !.latched_execute_epoch = c.epoch,
                                !.latched_execute_generation = c.generation,
                                !.latched_execute_stamp = clock - c.age])
    /\ grant' = GrantOf(c)
    /\ UNCHANGED <<clock, stop, heard, lost>>

OnExecutionCommand(c) ==
    \/ RefuseCommand(c)
    \/ HonourStop(c)
    \/ TolerateSuperseded(c)
    \/ RejectUnmapped(c)
    \/ AuthorizeExecute(c)
    \/ LatchExecute(c)

-----------------------------------------------------------------------------
AdvanceClock ==
    /\ clock < MaxTime
    /\ clock' = clock + 1
    /\ published' = "NOTHING"
    /\ UNCHANGED <<arb, history>>

InitialArbiter ==
    [manual |-> [valid |-> FALSE, stamp |-> 0],
     auto |-> [valid |-> FALSE, stamp |-> 0],
     auto_authorized |-> FALSE, execution_lease_stamp |-> 0,
     emergency_stop |-> FALSE,
     link_up |-> ~RequireSerialLink, has_link_heartbeat |-> ~RequireSerialLink,
     last_link_stamp |-> 0,
     active_manager_incarnation |-> 0, last_command_sequence |-> 0,
     dual_map_execute_latched |-> FALSE, latched_execute_epoch |-> 0,
     latched_execute_generation |-> 0, latched_execute_stamp |-> 0,
     planner_epoch |-> 0, planner_generation |-> 0, planner_status_stamp |-> -1,
     planner_generation_usable |-> FALSE, planner_generation_retired |-> FALSE,
     ready_lease_generation |-> 0,
     supersede_deadline |-> Never, superseded_generation |-> 0,
     map_ready |-> FALSE, map_ready_stamp |-> 0]

Init ==
    /\ clock = 0
    /\ arb = InitialArbiter
    /\ published = "NOTHING"
    /\ grant = NoGrant
    /\ stop = <<0, 0>>
    /\ heard = [manual |-> Never, auto |-> Never, link |-> Never, map |-> Never]
    /\ lost = <<0, 0>>

Next ==
    \/ AdvanceClock
    \/ OnTimer
    \/ OnManual
    \/ OnAuto
    \/ \E s \in Statuses : OnPlannerStatus(s)
    \/ \E ready \in BOOLEAN : OnMapReady(ready)
    \/ \E active \in BOOLEAN : OnEmergencyStop(active)
    \/ \E up \in BOOLEAN : OnLinkHealth(up)
    \/ \E c \in Commands : OnExecutionCommand(c)

Spec == Init /\ [][Next]_vars

-----------------------------------------------------------------------------
(* Correctness.                                                            *)

(* Type invariant.  A lease never starts in the future.                    *)
TypeOK ==
    /\ arb \in Arbiter
    /\ arb.execution_lease_stamp <= clock /\ arb.latched_execute_stamp <= clock
    /\ clock \in Nat
    /\ published \in Reasons \cup {"NOTHING"}
    /\ grant \in Grant
    /\ stop \in Nat \X Nat
    /\ heard \in [manual : Int, auto : Int, link : Int, map : Int]
    /\ lost \in Nat \X Nat

Heard(time, timeout) == time # Never /\ clock - time \in 0..timeout

LinkHeard ==
    RequireSerialLink =>
        heard.link # Never /\ (LinkTimeout > 0 => Heard(heard.link, LinkTimeout))

(* An autonomous Twist leaves the arbiter only under an EXECUTE issued no  *)
(* longer than the command timeout ago that nothing has withdrawn since:   *)
(* no STOP, even one overtaken in transit, no emergency stop, no link      *)
(* loss, no map interruption; and, once it has been an authority, no       *)
(* planner failure and no rejected command.  While it is only latched the  *)
(* last two do not withdraw it (rejectExecutionCommand keeps the latch): a *)
(* READY of the same map version after a FAILED lets it authorize after    *)
(* all, and the property admits that.                                      *)
AutoNeedsStandingGrant ==
    published = "AUTO_AUTHORIZED" =>
        /\ grant.live
        /\ clock - grant.issued \in 0..ExecutionCommandTimeout
        /\ Outranks(Order(grant), stop)

(* The map version an autonomous Twist was authorised for is the one the   *)
(* planner last announced, or one superseded at most one grace window ago, *)
(* counted from the FIRST newer announcement however many follow.          *)
AutoFollowsPlanner ==
    published = "AUTO_AUTHORIZED" =>
        \/ Identity(grant) = PlannerIdentity(arb)
        \/ /\ grant.epoch = arb.planner_epoch
           /\ grant.superseded # Never
           /\ clock - grant.superseded \in 0..SupersedeGrace

(* Once the map was interrupted, the map version then in force never       *)
(* carries authority again, whatever statuses and commands arrive for it.  *)
LostGenerationStaysLost ==
    published = "AUTO_AUTHORIZED" => Identity(grant) # lost

(* Every Twist that may move the robot rests on inputs heard recently: the *)
(* link, the source itself since the last emergency stop or link loss,     *)
(* and for autonomous motion the map heartbeat and the EXECUTE it obeys.   *)
MotionRestsOnLiveInputs ==
    /\ published \in {"MANUAL_FRESH", "AUTO_AUTHORIZED"} =>
           LinkHeard /\ ~arb.emergency_stop
    /\ published = "MANUAL_FRESH" => Heard(heard.manual, ManualTimeout)
    /\ published = "AUTO_AUTHORIZED" =>
           /\ Heard(heard.auto, AutoTimeout) /\ Heard(heard.map, MapReadyTimeout)
           /\ clock - grant.issued \in 0..ExecutionCommandTimeout

(* A fresh manual sample wins over everything but the emergency stop and   *)
(* the link, whatever state the autonomous side is in.                     *)
ManualPreempts ==
    /\ published # "NOTHING"
    /\ ManualTimeout > 0 /\ Heard(heard.manual, ManualTimeout)
    /\ LinkHeard /\ ~arb.emergency_stop
    => published = "MANUAL_FRESH"

(* No order is honoured twice, and none after a later one: an EXECUTE that *)
(* becomes effective was issued after every EXECUTE and STOP honoured so   *)
(* far, across manager restarts too.                                       *)
NoReplayedGrant ==
    [][(grant'.live /\ (~grant.live \/ Order(grant') # Order(grant))) =>
            /\ Outranks(Order(grant'), Order(grant))
            /\ Outranks(Order(grant'), stop)]_vars

(* The arbiter implements the promise both gates make: autonomous motion   *)
(* only under a licence, latched or effective, in the order of the         *)
(* managers' commands.                                                     *)
Licence == IF grant.live THEN Order(grant) ELSE <<0, 0>>

Abstract ==
    INSTANCE MotionLicence WITH
        seen <- <<arb.active_manager_incarnation, arb.last_command_sequence>>,
        licence <- Licence,
        moving <- published = "AUTO_AUTHORIZED"

ImplementsLicence == Abstract!Spec

(* The inductive strengthening of AutoNeedsStandingGrant.  An authority is *)
(* backed by a live grant of the planner's epoch while the map lease lasts.*)
(* A latched EXECUTE is, too, as long as it names the identity in force    *)
(* and that identity was not retired: it may therefore become an authority *)
(* when the emergency stop clears, and only then.                          *)
Backed(a, g, st, issued) ==
    /\ g.live
    /\ g.issued = issued
    /\ Outranks(Order(g), st)
    /\ a.map_ready

AuthoritySound(a, g, st) ==
    /\ a.auto_authorized =>
        /\ Backed(a, g, st, a.execution_lease_stamp)
        /\ g.epoch = a.planner_epoch
        /\ ~a.dual_map_execute_latched
    /\ a.dual_map_execute_latched =>
        /\ Identity(g) = <<a.latched_execute_epoch, a.latched_execute_generation>>
        /\ ~Outranks(Identity(g), PlannerIdentity(a))
        /\ Identity(g) = PlannerIdentity(a) /\ ~a.planner_generation_retired =>
            /\ Backed(a, g, st, a.latched_execute_stamp)
            /\ a.ready_lease_generation = a.planner_generation
    /\ a.planner_generation_usable =>
        /\ ~a.planner_generation_retired
        /\ a.ready_lease_generation = a.planner_generation

AuthorityInv ==
    /\ AuthoritySound(arb, grant, stop)
    /\ arb.map_ready => heard.map = arb.map_ready_stamp
    /\ ~Outranks(stop, <<arb.active_manager_incarnation, arb.last_command_sequence>>)

=============================================================================
