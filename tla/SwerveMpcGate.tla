--------------------------- MODULE SwerveMpcGate ---------------------------
(***************************************************************************)
(* The gate of the MPC node (ats_swerve_mpc): which reference the          *)
(* controller tracks, and when a control cycle may publish a velocity.     *)
(*                                                                         *)
(* The node is spun by one thread, so each callback and each control cycle *)
(* is one atomic action.  Messages are any of the finite input sets, in    *)
(* any order, which covers lost, delayed, repeated and reordered ones.     *)
(*                                                                         *)
(* The clock counts control periods: it advances only after a control      *)
(* cycle, as the 20 Hz timer runs many times within every lease.           *)
(*                                                                         *)
(* Left out: the legacy Path and Bool-false inputs, which do nothing when  *)
(* an execution_command_topic is set, as every configuration sets it; the  *)
(* odometry and the arithmetic of the tracker and the solver, whose        *)
(* outcome (a velocity, or zero as the odometry is not usable, the goal is *)
(* near, the path expired or too short, no solution found) is a free       *)
(* choice of the control cycle; the warm start.                            *)
(*                                                                         *)
(* A reference is named by its header stamp, which the goal manager sets   *)
(* to now when it commits and repeats in its heartbeats; a gimbal request  *)
(* number stands for the yaw authority, the feedback and the lock that the *)
(* command asks for, and a status for the request it acknowledges.         *)
(***************************************************************************)
EXTENDS Integers

CONSTANTS
    ExecutionCommandTimeout, MapReadyTimeout, SupersedeGrace,
    GimbalTimeout,                      \* parameters of the node
    Incarnations, Sequences, Goals, Epochs, Generations, GimbalRequests,
    Modes, Ages, Verdicts, StatusStamps,
    PathAges,       \* how old the references are that commands carry
    MaxTime         \* bound of the clock

ASSUME ConfigAssumption ==
    /\ ExecutionCommandTimeout \in Nat /\ MapReadyTimeout \in Nat
    /\ SupersedeGrace \in Nat /\ GimbalTimeout \in Nat

ASSUME InputAssumption ==
    /\ Incarnations \subseteq Nat /\ Sequences \subseteq Nat
    /\ Goals \subseteq Nat /\ Epochs \subseteq Nat
    /\ Generations \subseteq Nat /\ GimbalRequests \subseteq Nat
    /\ Modes \subseteq {"STOP", "EXECUTE", "INVALID"}
    /\ Verdicts \subseteq {"READY", "FAILED", "MAP_UNREADY", "OTHER"}
    /\ Ages \subseteq Int /\ StatusStamps \subseteq Nat
    /\ PathAges \subseteq Nat /\ MaxTime \in Nat

VARIABLES
    gate,       \* the members of AtsSwerveMpcNode that decide about motion
    clock,
    polled,     \* whether a control cycle ran since the clock last advanced
    moving,     \* whether the last Twist published was not zero
    history     \* records the messages; no action is guarded by it

vars == <<gate, clock, polled, moving, history>>

-----------------------------------------------------------------------------
(* Types.                                                                  *)

Never == -1
Empty == -1     \* the tracker holds no path

NoCommand ==
    [incarnation |-> 0, sequence |-> 0, goal |-> 0, epoch |-> 0,
     generation |-> 0, request |-> 0, reference |-> Empty]

Grants ==
    [incarnation : Nat, sequence : Nat, goal : Nat, epoch : Nat,
     generation : Nat, request : Nat, reference : Int]

(* sound: the frame of the path matches and its states are finite, which   *)
(* installPath checks after the command has been adopted.                  *)
(* A STOP carries no grant.                                                *)
Commands ==
    [mode : Modes \ {"STOP"}, incarnation : Incarnations,
     sequence : Sequences, goal : Goals, epoch : Epochs,
     generation : Generations, request : GimbalRequests, age : Ages,
     pathAge : PathAges, sound : BOOLEAN]
    \cup
    [mode : Modes \cap {"STOP"}, incarnation : Incarnations,
     sequence : Sequences, goal : {0}, epoch : {0}, generation : {0},
     request : {0}, age : Ages, pathAge : {0}, sound : {FALSE}]

Statuses ==
    [verdict : Verdicts, epoch : Epochs, generation : Generations,
     stamp : StatusStamps]

Gate ==
    [incarnation : Nat, sequence : Nat, signal : Int,
     active : Grants,
     planner_epoch : Nat, planner_generation : Nat, planner_stamp : Nat,
     usable : BOOLEAN, retired : Nat, lease_generation : Nat,
     supersede_deadline : Int, superseded : Nat,
     map_ready : BOOLEAN, map_signal : Int,
     tracking : BOOLEAN, epoch : Nat,
     gimbal : Nat, gimbal_signal : Int,
     fail_stop : BOOLEAN, trajectory : Int, last_stop : Int]

Larger(a, b) == IF a > b THEN a ELSE b

-----------------------------------------------------------------------------
(* Health predicates.                                                      *)

Holds(g) == g.active # NoCommand

MapReadyFresh(g) ==
    g.map_ready /\ clock - g.map_signal \in 0..MapReadyTimeout

(* gimbal is the request acknowledged while locked and tf_healthy, or 0.   *)
GimbalValid(g, request) ==
    /\ g.gimbal_signal # Never
    /\ clock - g.gimbal_signal \in 0..GimbalTimeout
    /\ g.gimbal = request

MapExecutionValid(g, c) ==
    /\ MapReadyFresh(g) /\ g.usable
    /\ c.epoch # 0 /\ c.epoch = g.planner_epoch
    /\ c.generation # 0 /\ c.generation = g.planner_generation
    /\ c.generation > g.retired

GraceActive(g) ==
    /\ g.supersede_deadline # Never /\ clock <= g.supersede_deadline
    /\ Holds(g) /\ ~g.fail_stop

ActiveExecutionValid(g) ==
    \/ MapExecutionValid(g, g.active)
    \/ /\ GraceActive(g) /\ MapReadyFresh(g) /\ g.usable
       /\ g.active.epoch = g.planner_epoch
       /\ g.active.generation = g.superseded
       /\ g.active.generation > g.retired

(* Mutant: nobody looks at the age of the last command.                    *)
ExecutionLeaseUnaged(g) ==
    /\ g.signal # Never /\ Holds(g)
    /\ ActiveExecutionValid(g)
    /\ GimbalValid(g, g.active.request)

ExecutionLeaseValid(g) ==
    /\ g.signal # Never /\ Holds(g)
    /\ clock - g.signal \in 0..ExecutionCommandTimeout
    /\ ActiveExecutionValid(g)
    /\ GimbalValid(g, g.active.request)

-----------------------------------------------------------------------------
(* Transformations of the gate, named as in the source.                    *)

Dropped(g) == [g EXCEPT !.active = NoCommand]

Revoked(g) == [Dropped(g) EXCEPT !.supersede_deadline = Never]

(* Mutant: the stop that engages leaves the path in the tracker.           *)
FailStoppedKeepingPath(g, record) ==
    IF g.fail_stop THEN g
    ELSE [g EXCEPT !.fail_stop = TRUE,
                   !.last_stop = IF record THEN clock ELSE @]

(* Only the stop that engages clears the tracker and leaves its stamp.     *)
FailStopped(g, record) ==
    IF g.fail_stop THEN g
    ELSE [g EXCEPT !.fail_stop = TRUE, !.trajectory = Empty,
                   !.last_stop = IF record THEN clock ELSE @]

Retired(g, floor) ==
    [Revoked(g) EXCEPT !.retired = Larger(@, floor), !.usable = FALSE]

LeaseFloor(g) ==
    IF g.lease_generation # 0 THEN g.lease_generation ELSE g.planner_generation

MapLapsed(g) == g.map_ready /\ ~MapReadyFresh(g)

-----------------------------------------------------------------------------
(* onExecutionCommand.                                                     *)

Malformed(c) ==
    \/ c.incarnation = 0 \/ c.sequence = 0
    \/ c.age \notin 0..ExecutionCommandTimeout

NewManager(c) == c.incarnation > gate.incarnation

(* Mutant: a repeated command passes.                                      *)
OlderOnly(c) ==
    \/ c.incarnation < gate.incarnation
    \/ c.incarnation = gate.incarnation /\ c.sequence < gate.sequence

Replayed(c) ==
    \/ c.incarnation < gate.incarnation
    \/ c.incarnation = gate.incarnation /\ c.sequence <= gate.sequence

(* A new incarnation is adopted by its STOP only.                          *)
Noted(c) ==
    LET heard == [gate EXCEPT !.signal = clock - c.age]
    IN  IF ~NewManager(c) THEN [heard EXCEPT !.sequence = c.sequence]
        ELSE IF c.mode # "STOP" THEN Dropped(heard)
        ELSE [Dropped(heard) EXCEPT !.incarnation = c.incarnation,
                                    !.sequence = c.sequence]

(* During the grace the manager still sends heartbeats for the superseded  *)
(* generation: they neither install nor stop.                              *)
GraceHeartbeat(g, c) ==
    /\ GraceActive(g) /\ c.mode = "EXECUTE" /\ ~NewManager(c)
    /\ c.goal = g.active.goal /\ c.epoch = g.active.epoch
    /\ c.generation = g.superseded

(* Mutant: a heartbeat renews the grace as well as the lease.              *)
ToleratedAnew(c) ==
    [Noted(c) EXCEPT !.supersede_deadline = clock + SupersedeGrace]

Tolerated(c) == Noted(c)

Admissible(g, c) ==
    /\ c.mode = "EXECUTE" /\ ~NewManager(c)
    /\ c.goal # 0 /\ c.request # 0
    /\ GimbalValid(g, c.request)
    /\ MapExecutionValid(g, c)
    /\ g.tracking /\ g.epoch = c.epoch

GrantOf(c) ==
    [incarnation |-> c.incarnation, sequence |-> c.sequence,
     goal |-> c.goal, epoch |-> c.epoch, generation |-> c.generation,
     request |-> c.request, reference |-> clock - c.pathAge]

SameReference(g, c) ==
    /\ Holds(g)
    /\ g.active.goal = c.goal /\ g.active.epoch = c.epoch
    /\ g.active.generation = c.generation
    /\ g.active.reference = clock - c.pathAge

(* installPath rejects an unsound path and one stamped before the stop.    *)
Installable(g, c) ==
    /\ c.sound
    /\ g.last_stop = Never \/ clock - c.pathAge > g.last_stop

Adopted(g, c) ==
    [g EXCEPT !.active = GrantOf(c), !.supersede_deadline = Never]

(* Mutant: the path is installed whatever its stamp.                       *)
AcceptedAnyStamp(g, c) ==
    IF ~SameReference(g, c) /\ ~c.sound
    THEN FailStopped(Adopted(g, c), TRUE)
    ELSE [Adopted(g, c) EXCEPT
            !.fail_stop = FALSE,
            !.trajectory = IF SameReference(g, c) THEN @ ELSE clock - c.pathAge]

Accepted(g, c) ==
    IF ~SameReference(g, c) /\ ~Installable(g, c)
    THEN FailStopped(Adopted(g, c), TRUE)
    ELSE [Adopted(g, c) EXCEPT
            !.fail_stop = FALSE,
            !.trajectory = IF SameReference(g, c) THEN @ ELSE clock - c.pathAge]

Commanded(c) ==
    IF Malformed(c) THEN FailStopped(gate, TRUE)
    ELSE IF Replayed(c) THEN FailStopped(Dropped(gate), TRUE)
    ELSE IF GraceHeartbeat(Noted(c), c) THEN Tolerated(c)
    ELSE IF Admissible(Noted(c), c) THEN Accepted(Noted(c), c)
    ELSE FailStopped(Dropped(Noted(c)), TRUE)

-----------------------------------------------------------------------------
(* onPlannerStatus, onMapReady.                                            *)

ChangedEpoch(s) == s.epoch > gate.planner_epoch

ChangedIdentity(s) ==
    ChangedEpoch(s) \/ s.generation > gate.planner_generation

StatusIgnored(s) ==
    \/ s.epoch = 0 \/ s.generation = 0 \/ s.stamp = 0
    \/ s.epoch < gate.planner_epoch
    \/ s.epoch = gate.planner_epoch /\ s.generation < gate.planner_generation
    \/ ~ChangedIdentity(s) /\ s.stamp <= gate.planner_stamp

Identified(s) ==
    [gate EXCEPT
        !.planner_epoch = s.epoch, !.planner_generation = s.generation,
        !.planner_stamp = s.stamp,
        !.retired = IF ChangedEpoch(s) THEN 0 ELSE @,
        !.usable = @ /\ ~ChangedIdentity(s)]

Readied(g) ==
    LET usable == g.planner_generation > g.retired
    IN  [g EXCEPT !.usable = usable,
                  !.lease_generation = IF usable /\ MapReadyFresh(g)
                                       THEN g.planner_generation ELSE @]

(* A newer generation of the same epoch supersedes the active command,     *)
(* which may run on until the deadline; the deadline is not extended.      *)
SupersededOnly(s) == ChangedIdentity(s) /\ ~ChangedEpoch(s)

Graced(g, s) ==
    /\ SupersededOnly(s) /\ SupersedeGrace > 0
    /\ Holds(g) /\ ~g.fail_stop /\ g.active.epoch = s.epoch

GraceOpened(g) ==
    IF g.supersede_deadline # Never THEN g
    ELSE [g EXCEPT !.supersede_deadline = clock + SupersedeGrace,
                   !.superseded = g.active.generation]

Reported(s) ==
    LET g == Identified(s)
        ready == Readied(g)
        floor == IF s.verdict = "MAP_UNREADY"
                 THEN Larger(g.retired, g.planner_generation) ELSE g.retired
        unusable == [Revoked(g) EXCEPT !.usable = FALSE, !.retired = floor]
    IN  IF StatusIgnored(s) THEN gate
        ELSE IF s.verdict # "READY" THEN FailStopped(unusable, TRUE)
        ELSE IF Graced(ready, s) THEN GraceOpened(ready)
        ELSE IF ChangedIdentity(s)
        THEN FailStopped(Revoked(ready), ~SupersededOnly(s))
        ELSE ready

HeartbeatReceived(ready) ==
    LET floor == IF MapLapsed(gate) THEN LeaseFloor(gate)
                 ELSE gate.planner_generation
        noted(g) == [g EXCEPT !.map_ready = ready, !.map_signal = clock,
                              !.lease_generation =
                                 IF ready THEN g.planner_generation ELSE @]
    IN  IF ready /\ ~MapLapsed(gate) THEN noted(gate)
        ELSE FailStopped(noted(Retired(gate, floor)), TRUE)

-----------------------------------------------------------------------------
(* onControlTimer.                                                         *)

GraceExpired(g) == g.supersede_deadline # Never /\ clock > g.supersede_deadline

GraceSettled(g) ==
    IF ~GraceExpired(g) THEN g
    ELSE IF Holds(g) /\ g.active.generation = g.superseded THEN Revoked(g)
    ELSE [g EXCEPT !.supersede_deadline = Never]

(* Mutant: the lapse of the map's lease ends the command only.             *)
MapSettledForgiving(g) ==
    IF MapLapsed(g) THEN [Dropped(g) EXCEPT !.map_ready = FALSE] ELSE g

MapSettled(g) ==
    IF ~MapLapsed(g) THEN g
    ELSE [Dropped(g) EXCEPT !.retired = Larger(@, LeaseFloor(g)),
                            !.usable = FALSE, !.map_ready = FALSE]

Settled(g) == MapSettled(GraceSettled(g))

-----------------------------------------------------------------------------
(* History: identities whose map was lost, references that a dangerous     *)
(* stop interrupted, and when the command in force was first superseded.   *)

Identity(c) == <<c.epoch, c.generation>>
PlannerIdentity(g) == <<g.planner_epoch, g.planner_generation>>

NoHistory ==
    [covered |-> <<0, 0>>, lost |-> {}, interrupted |-> {},
     outdated |-> Never]

-----------------------------------------------------------------------------
(* The callbacks.  Interrupted: the reference tracked is one a stop ends   *)
(* that comes from an event other than a control cycle or the mere         *)
(* succession of map generations.                                          *)

Interrupted(h) ==
    [h EXCEPT !.interrupted = IF gate.trajectory = Empty THEN @
                              ELSE @ \cup {gate.trajectory}]

OnExecutionCommand(c) ==
    /\ c.pathAge <= clock
    /\ gate' = Commanded(c)
    /\ moving' = (moving /\ ~gate'.fail_stop)
    /\ history' = LET h == [history EXCEPT !.outdated =
                               IF gate'.active.generation = gate.active.generation
                               THEN @ ELSE Never]
                  IN  IF gate'.fail_stop THEN Interrupted(h) ELSE h
    /\ UNCHANGED <<clock, polled>>

OnPlannerStatus(s) ==
    LET superseded == Holds(gate) /\ ChangedIdentity(s) /\ ~StatusIgnored(s)
        h == [history EXCEPT
                !.covered = IF s.verdict = "READY" /\ ~StatusIgnored(s)
                               /\ MapReadyFresh(gate)
                            THEN <<s.epoch, s.generation>> ELSE @,
                !.lost = IF s.verdict = "MAP_UNREADY" /\ ~StatusIgnored(s)
                         THEN @ \cup {<<s.epoch, s.generation>>} ELSE @,
                !.outdated = IF superseded /\ @ = Never THEN clock ELSE @]
    IN  /\ gate' = Reported(s)
        /\ moving' = (moving /\ ~gate'.fail_stop)
        /\ history' = IF ~StatusIgnored(s)
                         /\ (s.verdict # "READY" \/ ChangedEpoch(s))
                      THEN Interrupted(h) ELSE h
        /\ UNCHANGED <<clock, polled>>

OnMapReady(ready) ==
    /\ gate' = HeartbeatReceived(ready)
    /\ moving' = (moving /\ ~gate'.fail_stop)
    /\ history' =
         LET h == [history EXCEPT
                     !.covered = IF ready THEN PlannerIdentity(gate) ELSE @,
                     !.lost = IF ready \/ MapLapsed(gate) THEN @
                              ELSE @ \cup {PlannerIdentity(gate)}]
         IN  IF ready /\ ~MapLapsed(gate) THEN h ELSE Interrupted(h)
    /\ UNCHANGED <<clock, polled>>

OnEmergencyStop ==
    /\ gate' = FailStopped(gate, TRUE)
    /\ moving' = FALSE
    /\ history' = Interrupted(history)
    /\ UNCHANGED <<clock, polled>>

Localized(epoch) ==
    LET known == [gate EXCEPT !.tracking = TRUE, !.epoch = epoch]
    IN  IF gate.epoch \notin {0, epoch} THEN FailStopped(known, TRUE) ELSE known

Unlocalized == FailStopped([gate EXCEPT !.tracking = FALSE], TRUE)

OnLocalizationStatus(healthy, epoch) ==
    /\ gate' = IF healthy THEN Localized(epoch) ELSE Unlocalized
    /\ moving' = (moving /\ ~gate'.fail_stop)
    /\ history' = IF healthy /\ gate.epoch \in {0, epoch}
                  THEN history ELSE Interrupted(history)
    /\ UNCHANGED <<clock, polled>>

OnGimbalYawStatus(request) ==
    LET g == [gate EXCEPT !.gimbal = request, !.gimbal_signal = clock]
        stop == Holds(g) /\ ~GimbalValid(g, g.active.request)
    IN  /\ gate' = IF stop THEN FailStopped(g, TRUE) ELSE g
        /\ moving' = (moving /\ ~stop)
        /\ history' = IF stop THEN Interrupted(history) ELSE history
        /\ UNCHANGED <<clock, polled>>

(* The control cycle stops, or publishes zero, or a velocity.              *)
CycleStops(g, record) ==
    /\ gate' = FailStopped(g, record)
    /\ moving' = FALSE
    /\ history' = IF record THEN Interrupted(history) ELSE history

OnControlTimer ==
    LET g == Settled(gate)
        graceStop == Holds(gate) /\ ~Holds(GraceSettled(gate))
    IN  /\ polled' = TRUE
        /\ UNCHANGED clock
        /\ \/ /\ ~gate.tracking
              /\ CycleStops(gate, TRUE)
           \/ /\ gate.tracking /\ graceStop
              /\ CycleStops(g, FALSE)
           \/ /\ gate.tracking /\ ~graceStop
              /\ ~ExecutionLeaseValid(g) \/ g.fail_stop
              /\ CycleStops(g, TRUE)
           \/ /\ gate.tracking /\ ~graceStop
              /\ ExecutionLeaseValid(g) /\ ~g.fail_stop
              /\ gate' = g
              /\ moving' \in {FALSE, g.trajectory # Empty}
              /\ UNCHANGED history

(* Time: the lease of the map may lapse as it passes.                      *)
Tick ==
    /\ clock < MaxTime /\ polled
    /\ clock' = clock + 1 /\ polled' = FALSE
    /\ history' = [history EXCEPT
                     !.lost = IF /\ MapReadyFresh(gate)
                                 /\ clock' - gate.map_signal > MapReadyTimeout
                              THEN @ \cup {history.covered} ELSE @]
    /\ UNCHANGED <<gate, moving>>

-----------------------------------------------------------------------------
InitialGate ==
    [incarnation |-> 0, sequence |-> 0, signal |-> Never,
     active |-> NoCommand,
     planner_epoch |-> 0, planner_generation |-> 0, planner_stamp |-> 0,
     usable |-> FALSE, retired |-> 0, lease_generation |-> 0,
     supersede_deadline |-> Never, superseded |-> 0,
     map_ready |-> FALSE, map_signal |-> Never,
     tracking |-> FALSE, epoch |-> 0,
     gimbal |-> 0, gimbal_signal |-> Never,
     fail_stop |-> TRUE, trajectory |-> Empty, last_stop |-> Never]

Init ==
    /\ gate = InitialGate
    /\ clock = 0 /\ polled = FALSE /\ moving = FALSE
    /\ history = NoHistory

Next ==
    \/ \E c \in Commands : OnExecutionCommand(c)
    \/ \E s \in Statuses : OnPlannerStatus(s)
    \/ \E ready \in BOOLEAN : OnMapReady(ready)
    \/ OnEmergencyStop
    \/ \E healthy \in BOOLEAN, epoch \in Epochs : OnLocalizationStatus(healthy, epoch)
    \/ \E request \in GimbalRequests \cup {0} : OnGimbalYawStatus(request)
    \/ OnControlTimer
    \/ Tick

Spec == Init /\ [][Next]_vars

-----------------------------------------------------------------------------
(* Properties.                                                             *)

(* The gate is well typed, and an engaged fail stop means that nothing is  *)
(* left to track and that the last velocity published is zero.             *)
TypeOK ==
    /\ gate \in Gate
    /\ clock \in Nat /\ polled \in BOOLEAN /\ moving \in BOOLEAN
    /\ gate.fail_stop => gate.trajectory = Empty /\ ~moving

(* The gate implements the promise both gates make: motion only under a    *)
(* licence in the order of the managers' commands.                         *)
Licence ==
    IF Holds(gate) /\ ~gate.fail_stop
    THEN <<gate.active.incarnation, gate.active.sequence>> ELSE <<0, 0>>

Abstract ==
    INSTANCE MotionLicence WITH
        seen <- <<gate.incarnation, gate.sequence>>, licence <- Licence

ImplementsLicence == Abstract!Spec

(* A map version that was in force when the map was lost, or that the      *)
(* planner gave up with the map, does not outlive the next control cycle   *)
(* and never drives the robot again.                                       *)
LostGenerationStaysLost ==
    moving /\ polled => Identity(gate.active) \notin history.lost

(* A reference that was tracked when a dangerous stop fell is never        *)
(* tracked again (installPath, the comparison with last_stop_stamp_).      *)
InterruptedPathStaysDead == gate.trajectory \notin history.interrupted

(* However many newer generations are announced, a superseded reference    *)
(* moves the robot for the grace and until the next control cycle only.    *)
GraceIsBounded ==
    moving /\ polled /\ history.outdated # Never
        => clock - history.outdated <= SupersedeGrace

(* The robot moves on the path of the command in force, in the epoch of    *)
(* the localization, and no lease that ran out survives a control cycle,   *)
(* whatever callbacks ran before or after it.                              *)
MotionRestsOnLiveInputs ==
    moving =>
        /\ gate.trajectory = gate.active.reference
        /\ gate.tracking /\ gate.epoch = gate.active.epoch
        /\ gate.map_ready /\ gate.gimbal = gate.active.request
        /\ polled => /\ clock - gate.signal <= ExecutionCommandTimeout
                     /\ clock - gate.map_signal <= MapReadyTimeout
                     /\ clock - gate.gimbal_signal <= GimbalTimeout
=============================================================================
