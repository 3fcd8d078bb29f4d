---------------------------- MODULE GoalManager ----------------------------
(***************************************************************************)
(* The goal manager (ats_goal_manager): it owns the active goal, sends      *)
(* plan requests to MINCO, checks the candidates that come back and is the *)
(* only node that releases the emergency stop or issues an EXECUTE.        *)
(*                                                                         *)
(* The node spins in one thread: every callback and the timer run to their *)
(* end before the next one, so each is one action.  A callback is written  *)
(* as an operator from the manager it finds to the manager it leaves, and   *)
(* the manager's record also holds what it last published.                 *)
(*                                                                         *)
(* There is no clock.  A lease or a deadline is a flag that the passage of *)
(* time may turn at any moment (Lapse, Elapse): TLC explores every order.  *)
(* Poses, maps and references are abstracted to what the guards compare:   *)
(* the identities they carry and the verdicts of the geometric checks.     *)
(*                                                                         *)
(* Fixed as all shipped configurations have it: require_map_status is true *)
(* and require_accepted_localization is false.  Goals are action goals.    *)
(* recovering is written and never read; it is left out.  map_generation   *)
(* is MINCO's name for the map of a publication and is left to it.         *)
(***************************************************************************)
EXTENDS Integers

CONSTANTS
    RequireLocalization,   \* require_localization_status
    RequireSnapshot,       \* require_planning_snapshot
    RequireGimbal,         \* require_gimbal_status
    ReplanWithoutStop,     \* replan_without_stop_enabled
    YawModes,              \* the yaw authorities MINCO plans with
    Faults,                \* what may go wrong: see FaultKinds
    MaxReplans,            \* max_consecutive_replans
    MaxGoals, MaxRequests, MaxYawRequests,   \* bounds for TLC, the last two
    MaxPublications, MaxEpochs               \* on what the inputs say

FaultKinds ==
    {"MAP", "SNAPSHOT", "LOCALIZATION", "ODOMETRY", "GIMBAL", "GOAL_TF",
     "MAP_LEASE", "SNAPSHOT_LEASE", "LOCALIZATION_LEASE", "GIMBAL_LEASE",
     "RESTART", "FOOTPRINT", "STALL", "DRIFT",
     "DEADLINE", "WAIT", "NO_PLAN"}

ASSUME ConfigAssumption ==
    /\ RequireLocalization \in BOOLEAN /\ RequireSnapshot \in BOOLEAN
    /\ RequireGimbal \in BOOLEAN /\ ReplanWithoutStop \in BOOLEAN
    /\ YawModes \subseteq {"GIMBAL", "BODY", "SPIN"} /\ YawModes # {}
    /\ Faults \subseteq FaultKinds
    /\ MaxGoals \in Nat /\ MaxRequests \in Nat /\ MaxPublications \in Nat
    /\ MaxEpochs \in Nat /\ MaxReplans \in Nat /\ MaxYawRequests \in Nat

VARIABLES
    mgr,        \* AtsGoalManagerNode
    history     \* history: see the section of that name

vars == <<mgr, history>>

-----------------------------------------------------------------------------
(* Types.                                                                  *)

(* A PlannerGoal, and the identity of every answer MINCO gives to it.  yaw *)
(* is the authority MINCO will choose for it.                              *)
NoRequest == [goal |-> 0, request |-> 0, epoch |-> 0, pub |-> 0, yaw |-> "NONE"]

Requests ==
    [goal : 1..MaxGoals, request : 1..(MaxRequests + 1), epoch : 0..MaxEpochs,
     pub : 0..MaxPublications, yaw : YawModes]

MaybeRequest == Requests \cup {NoRequest}

(* active_execution_command_: the reference in force and the gimbal        *)
(* request it was granted under.                                           *)
NoCommand == [of |-> NoRequest, gimbal |-> 0]

(* pending_yaw_authority_request_.                                         *)
NoYawRequest == [sequence |-> 0, epoch |-> 0, pub |-> 0, yaw |-> "NONE"]

YawAuthorities == YawModes \cup {"NONE"}

Timers == {"NONE", "RUNNING", "ELAPSED"}

Manager ==
    [\* active_goal_; goal is 0 when there is none
     goal : 0..MaxGoals, epoch : 0..MaxEpochs, next : 0..MaxRequests,
     expected : 0..MaxRequests, committed : 0..MaxRequests,
     cancel : BOOLEAN, replacing : BOOLEAN, after : 0..MaxPublications,
     wait : Timers, deadline : Timers,
     \* the lifecycle and the authority
     state : {"IDLE", "WAITING", "PLANNING", "TRACKING"}, fail_stop : BOOLEAN,
     candidate : MaybeRequest, ready : MaybeRequest,
     command : [of : MaybeRequest, gimbal : Nat],
     yaw_request : [sequence : Nat, epoch : 0..MaxEpochs,
                    pub : 0..MaxPublications, yaw : YawAuthorities],
     dwell : Timers, noplan : Timers, replans : 0..MaxReplans,
     next_goal : 0..MaxGoals, next_yaw : Nat,
     \* the last value of each input
     map : [ready : BOOLEAN, alive : BOOLEAN, fresh : BOOLEAN,
            epoch : 0..MaxEpochs, pub : 0..MaxPublications],
     snapshot : [valid : BOOLEAN, fresh : BOOLEAN, epoch : 0..MaxEpochs,
                 pub : 0..MaxPublications],
     loc : [healthy : BOOLEAN, fresh : BOOLEAN, epoch : 0..MaxEpochs],
     odom : {"NONE", "LOST", "BLIND", "OK"},
     goal_tf : BOOLEAN,     \* the goal can be put in the planning frame
     gimbal : [sound : BOOLEAN, fresh : BOOLEAN, mode : YawAuthorities,
               request : Nat],
     \* the outputs
     requests : SUBSET Requests, estop : BOOLEAN,
     sent : [mode : {"NONE", "STOP", "EXECUTE"}, of : MaybeRequest,
             gimbal : Nat]]

Larger(a, b) == IF a >= b THEN a ELSE b

-----------------------------------------------------------------------------
(* The health predicates.                                                  *)

EpochAgrees(m) == RequireLocalization => m.map.epoch = m.loc.epoch

MapReady(m) == m.map.fresh /\ m.map.ready /\ EpochAgrees(m)

(* The adapter's own word, which a suspension does not clear.              *)
MapSourceAlive(m) == m.map.fresh /\ m.map.alive /\ EpochAgrees(m)

LocalizationHealthy(m) ==
    RequireLocalization =>
        m.loc.fresh /\ m.loc.healthy /\ m.odom \in {"BLIND", "OK"}

SnapshotUsable(m, pub, epoch) ==
    /\ m.snapshot.valid /\ m.snapshot.fresh
    /\ m.snapshot.pub = pub /\ m.snapshot.epoch = epoch

(* A candidate planned on an older publication is rechecked on the current *)
(* snapshot; safe is the verdict of planningSnapshotReferenceSafe.         *)
CandidateMapUsable(m, safe) ==
    /\ m.ready.pub # 0 /\ m.ready.pub <= m.map.pub
    /\ RequireSnapshot => SnapshotUsable(m, m.map.pub, m.ready.epoch)
    /\ m.ready.pub < m.map.pub => RequireSnapshot /\ safe

RecoverySnapshotReady(m) ==
    \/ m.after = 0
    \/ m.map.pub > m.after /\ SnapshotUsable(m, m.map.pub, m.epoch)

GimbalSatisfies(m, yaw, request) ==
    RequireGimbal =>
        /\ m.gimbal.fresh /\ m.gimbal.sound /\ m.gimbal.mode = yaw
        /\ request > 0 => m.gimbal.request = request
        /\ m.yaw_request # NoYawRequest =>
               m.gimbal.request = m.yaw_request.sequence

Commanding(m) == m.command # NoCommand

GimbalHolds(m) ==
    Commanding(m) => GimbalSatisfies(m, m.command.of.yaw, m.command.gimbal)

(* Mutant: an answer is matched by its goal alone.                         *)
ExpectedByGoal(m, r) == m.goal # 0 /\ r.goal = m.goal /\ r.epoch = m.epoch

(* The answer r is about the request this goal waits for.                  *)
Expected(m, r) ==
    m.goal # 0 /\ r.goal = m.goal /\ r.epoch = m.epoch /\ r.request = m.expected

-----------------------------------------------------------------------------
(* What a callback publishes, and the steps the callbacks share.           *)

(* What a callback finds out on the way: whether a candidate is safe on    *)
(* the newest map, and the yaw authority MINCO will choose if it is asked. *)
Surroundings ==
    [safe : IF "FOOTPRINT" \in Faults THEN BOOLEAN ELSE {TRUE},
     yaw : YawModes]

(* The same for a callback that judges no candidate.                       *)
Prospects == {v \in Surroundings : v.safe}

Silent == [mode |-> "NONE", of |-> NoRequest, gimbal |-> 0]
Stop == [mode |-> "STOP", of |-> NoRequest, gimbal |-> 0]
Execute(command) ==
    [mode |-> "EXECUTE", of |-> command.of, gimbal |-> command.gimbal]

Stopped(m) == [m EXCEPT !.estop = TRUE, !.sent = Stop]

(* publishPlannerGoal; required is 0 or a snapshot publication to plan on. *)
CanDispatch(m, required) ==
    /\ m.goal_tf
    /\ m.goal # 0 /\ MapReady(m) /\ LocalizationHealthy(m)
    /\ required # 0 => SnapshotUsable(m, required, m.epoch)
    /\ m.odom = "OK"

Dispatched(m, v, required) ==
    [m EXCEPT
        !.next = @ + 1,
        !.expected = m.next + 1,
        !.requests = @ \cup
            {[goal |-> m.goal, request |-> m.next + 1, epoch |-> m.epoch,
              pub |-> IF required # 0 THEN required ELSE m.map.pub,
              yaw |-> v.yaw]}]

DropCandidate(m) == [m EXCEPT !.candidate = NoRequest, !.ready = NoRequest]

(* What every end of an execution clears.                                  *)
Revoked(m) ==
    [DropCandidate(m) EXCEPT !.command = NoCommand, !.yaw_request = NoYawRequest,
                             !.dwell = "NONE", !.fail_stop = TRUE]

(* suspendActiveGoal; since is the wait to continue, "NONE" for none given;*)
(* after is the publication found unsafe, 0 for none.                      *)
Waiting(m, since) ==
    IF since # "NONE" THEN since
    ELSE IF m.state = "WAITING" /\ m.wait # "NONE" THEN m.wait
    ELSE "RUNNING"

(* Mutant: the last suspension alone says what to wait for.                *)
SuspendedForgetfully(m, since, after) ==
    Stopped([Revoked(m) EXCEPT
        !.replacing = FALSE, !.wait = Waiting(m, since),
        !.state = "WAITING", !.after = after])

Suspended(m, since, after) ==
    Stopped([Revoked(m) EXCEPT
        !.replacing = FALSE, !.wait = Waiting(m, since),
        !.state = "WAITING", !.after = Larger(@, after)])

DispatchedOrSuspended(m, v, required, since) ==
    IF CanDispatch(m, required) THEN Dispatched(m, v, required)
    ELSE Suspended(m, since, 0)

(* finishActive.  The lifecycle's terminal states all demand the stop, so  *)
(* which of them it is makes no difference here.                           *)
Finished(m) ==
    Stopped([Revoked(m) EXCEPT
        !.goal = 0, !.epoch = 0, !.next = 0, !.expected = 0, !.committed = 0,
        !.cancel = FALSE, !.replacing = FALSE, !.after = 0,
        !.wait = "NONE", !.deadline = "NONE", !.state = "IDLE",
        !.noplan = "NONE", !.replans = 0])

(* onReplanAdvised: plan a replacement while the reference is driven.      *)
ReplanAdvised(m, v, r) ==
    IF /\ ReplanWithoutStop /\ m.goal # 0 /\ ~m.cancel
       /\ r.goal = m.goal /\ r.epoch = m.epoch /\ r.request = m.committed
       /\ m.state = "TRACKING" /\ Commanding(m) /\ ~m.fail_stop /\ ~m.replacing
       /\ CanDispatch(m, 0)
    THEN Dispatched([m EXCEPT !.replacing = TRUE], v, 0)
    ELSE m

-----------------------------------------------------------------------------
(* tryCommitReference.                                                     *)

(* The candidate was planned on an older map and does not stand the        *)
(* recheck on the newest one.                                              *)
StaleCandidate(m, v) ==
    /\ m.candidate # NoRequest /\ m.ready # NoRequest /\ Expected(m, m.ready)
    /\ \/ m.ready.pub = 0
       \/ /\ m.map.pub # 0 /\ m.ready.pub < m.map.pub
          /\ RequireSnapshot => SnapshotUsable(m, m.map.pub, m.epoch)
          /\ ~CandidateMapUsable(m, v.safe)

Replanned(m, v) ==
    IF m.replacing /\ Commanding(m) /\ m.state = "TRACKING"
    THEN DispatchedOrSuspended(DropCandidate(m), v, 0, "NONE")
    ELSE Suspended(m, "NONE", 0)

(* Mutant: the health of the localization is left to the timer.            *)
CommittableWhileLost(m, v) ==
    /\ m.candidate # NoRequest /\ m.ready # NoRequest /\ Expected(m, m.ready)
    /\ ~m.cancel /\ MapReady(m)
    /\ m.loc.epoch # 0 => m.ready.epoch = m.loc.epoch
    /\ CandidateMapUsable(m, v.safe)
    /\ m.candidate = m.ready

Committable(m, v) ==
    /\ m.candidate # NoRequest /\ m.ready # NoRequest /\ Expected(m, m.ready)
    /\ ~m.cancel
    /\ MapReady(m) /\ LocalizationHealthy(m)
    /\ m.loc.epoch # 0 => m.ready.epoch = m.loc.epoch
    /\ CandidateMapUsable(m, v.safe)
    /\ m.candidate = m.ready    \* the stamps agree

(* requestYawAuthorityLocked.                                              *)
YawRequested(m) ==
    LET request == [sequence |-> m.next_yaw + 1, epoch |-> m.ready.epoch,
                    pub |-> m.ready.pub, yaw |-> m.ready.yaw]
        pending == [request EXCEPT !.sequence = m.yaw_request.sequence]
    IN  IF ~RequireGimbal \/ m.yaw_request = pending THEN m
        ELSE [m EXCEPT !.yaw_request = request, !.next_yaw = request.sequence]

Replacing(m) ==
    /\ m.replacing /\ Commanding(m) /\ m.state = "TRACKING"
    /\ m.command.of.yaw = m.ready.yaw

(* Mutant: a replacement keeps the number of the first reference.          *)
CommittedUnderFirst(m, gimbal) ==
    LET command == [of |-> m.ready, gimbal |-> gimbal]
    IN  [DropCandidate(m) EXCEPT
            !.fail_stop = FALSE, !.after = 0, !.replacing = FALSE,
            !.committed = IF m.replacing THEN @ ELSE m.ready.request,
            !.command = command,
            !.state = "TRACKING", !.noplan = "NONE",
            !.yaw_request = NoYawRequest,
            !.estop = FALSE, !.sent = Execute(command)]

Committed(m, gimbal) ==
    LET command == [of |-> m.ready, gimbal |-> gimbal]
    IN  [DropCandidate(m) EXCEPT
            !.fail_stop = FALSE, !.after = 0, !.replacing = FALSE,
            !.committed = m.ready.request, !.command = command,
            !.state = "TRACKING", !.noplan = "NONE",
            !.yaw_request = NoYawRequest,
            !.estop = FALSE, !.sent = Execute(command)]

CommitReplacement(m) ==
    IF GimbalSatisfies(m, m.ready.yaw, m.command.gimbal)
    THEN Committed(m, m.command.gimbal)
    ELSE [m EXCEPT !.fail_stop = TRUE]

(* Mutant: the gimbal's acknowledgement is not awaited.                    *)
CommitNewUnacknowledged(m) ==
    IF m.state = "PLANNING" THEN Committed(m, m.yaw_request.sequence) ELSE m

CommitNew(m) ==
    IF RequireGimbal /\ ~GimbalSatisfies(m, m.ready.yaw, 0)
    THEN [m EXCEPT !.fail_stop = TRUE]
    ELSE IF m.state = "PLANNING" THEN Committed(m, m.yaw_request.sequence)
    ELSE m

TryCommit(m, v) ==
    IF StaleCandidate(m, v) THEN Replanned(m, v)
    ELSE IF ~Committable(m, v) THEN m
    ELSE IF Replacing(m) THEN CommitReplacement(m)
    ELSE CommitNew(YawRequested(m))

-----------------------------------------------------------------------------
(* The action server's callbacks.                                          *)

(* startGoal: a new goal preempts the active one.                          *)
Started(m, v) ==
    LET ready == MapReady(m) /\ LocalizationHealthy(m)
        n == [Finished(m) EXCEPT
                !.goal = m.next_goal + 1, !.next_goal = m.next_goal + 1,
                !.epoch = IF m.loc.epoch # 0 THEN m.loc.epoch ELSE m.map.epoch,
                !.wait = IF ready THEN "NONE" ELSE "RUNNING",
                !.deadline = "RUNNING",
                !.state = IF ready THEN "PLANNING" ELSE "WAITING"]
    IN  IF ready THEN DispatchedOrSuspended(n, v, 0, "NONE") ELSE n

(* onActionCancel; the result is left to the timer.                        *)
Cancelled(m) ==
    [m EXCEPT !.cancel = TRUE, !.fail_stop = TRUE, !.estop = TRUE]

-----------------------------------------------------------------------------
(* onPlannerStatus.                                                        *)

(* FATAL stands for FAILURE_INVALID_GOAL, the one reason                   *)
(* plannerFailureIsTransient refuses; TRANSIENT for those of its reasons   *)
(* that the handler does not tell apart.                                   *)
Reasons == {"FATAL", "TRANSIENT", "UNSAFE", "SNAPSHOT_CHANGED"}

ConcernsActive(m, r) ==
    /\ m.goal # 0 /\ r.goal = m.goal /\ r.epoch = m.epoch
    /\ r.request = m.expected \/ (Commanding(m) /\ r.request = m.committed)

(* A newer status and snapshot of the map have already arrived together.   *)
NewerMapArrived(m, r) ==
    /\ m.map.ready /\ m.map.pub > r.pub
    /\ SnapshotUsable(m, m.map.pub, m.epoch)

PlanFailed(m, r, reason) ==
    IF ~ConcernsActive(m, r) THEN m
    ELSE IF reason = "FATAL" THEN Finished(m)
    ELSE LET keep == reason = "SNAPSHOT_CHANGED" /\ NewerMapArrived(m, r)
         IN  Suspended([m EXCEPT !.map.ready = @ /\ keep], "NONE",
                       IF reason = "TRANSIENT" THEN 0 ELSE r.pub)

(* A candidate with another yaw authority than the one in force: stop      *)
(* first, and let it pass the gate of a new goal.                          *)
ModeSwitched(m) ==
    Stopped([m EXCEPT !.command = NoCommand, !.yaw_request = NoYawRequest,
                      !.fail_stop = TRUE, !.state = "PLANNING"])

ReferenceReady(m, v, r) ==
    LET n == IF Commanding(m) /\ m.command.of.yaw # r.yaw THEN ModeSwitched(m)
             ELSE m
    IN  TryCommit(IF Expected(m, r) THEN [n EXCEPT !.ready = r] ELSE m, v)

-----------------------------------------------------------------------------
(* The inputs.                                                             *)

MapStatusReceived(m, v, ready, epoch, pub) ==
    LET n == [m EXCEPT !.map = [ready |-> ready, alive |-> ready, fresh |-> TRUE,
                                epoch |-> epoch, pub |-> pub]]
        current == m.loc.epoch = 0 \/ epoch = m.loc.epoch
    IN  IF m.goal # 0 /\ current /\ ~ready THEN Suspended(n, "NONE", 0)
        ELSE TryCommit(n, v)

SnapshotReceived(m, v, valid, epoch, pub) ==
    LET n == [m EXCEPT !.snapshot = [valid |-> valid, fresh |-> TRUE,
                                     epoch |-> epoch, pub |-> pub]]
    IN  IF \/ m.loc.epoch # 0 /\ epoch # m.loc.epoch
           \/ m.snapshot.epoch = epoch /\ pub < m.snapshot.pub
        THEN m
        ELSE IF m.goal # 0 /\ ~valid /\ epoch = m.epoch
        THEN Suspended(n, "NONE", 0)
        ELSE TryCommit(n, v)

(* The map has to be reported again in the localization's new epoch.       *)
LocalizationInterrupted(m) ==
    Stopped([DropCandidate(m) EXCEPT
        !.command = NoCommand, !.fail_stop = TRUE, !.epoch = m.loc.epoch,
        !.state = "WAITING",
        !.wait = IF m.state = "WAITING" /\ @ # "NONE" THEN @ ELSE "RUNNING",
        !.map.ready = FALSE])

LocalizationReceived(m, healthy, epoch) ==
    LET n == [m EXCEPT !.loc = [healthy |-> healthy, fresh |-> TRUE,
                                epoch |-> epoch]]
        changed == m.loc.epoch # 0 /\ epoch # m.loc.epoch
    IN  IF /\ RequireLocalization /\ m.goal # 0
           /\ ~healthy \/ changed \/ ~m.loc.healthy
        THEN LocalizationInterrupted(n)
        ELSE n

GimbalReceived(m, v, mode, sound, request) ==
    LET n == [m EXCEPT !.gimbal = [mode |-> mode, sound |-> sound,
                                   fresh |-> TRUE, request |-> request]]
    IN  TryCommit(IF GimbalHolds(n) THEN n ELSE Suspended(n, "NONE", 0), v)

OdometryReceived(m, quality) ==
    LET n == [m EXCEPT !.odom = quality]
    IN  IF quality = "LOST" /\ m.goal # 0 THEN Suspended(n, "NONE", 0) ELSE n

-----------------------------------------------------------------------------
(* onTick: what the timer sees of the robot, beyond the surroundings.      *)
(* place: outside the hold disk, in it, or in the goal's tolerance at rest.*)
(* footing: the check of the current pose against the snapshot.            *)
(* stalled: the progress watchdog calls for a replan.                      *)
(* drifted: the goal moved in the planning frame since the commit.         *)
(* The footing is looked at outside the disk, progress on a free footing.  *)
Sightings ==
    {s \in [place : {"AWAY", "NEAR", "ARRIVED"},
            footing : {"FREE", "BLOCKED", "OUTSIDE"},
            stalled : BOOLEAN, drifted : BOOLEAN] :
        /\ s.footing # "FREE" => s.place = "AWAY" /\ "FOOTPRINT" \in Faults
        /\ s.stalled => s.place = "AWAY" /\ s.footing = "FREE" /\ "STALL" \in Faults
        /\ s.drifted => "DRIFT" \in Faults}

GimbalChecked(m) ==
    IF GimbalHolds(m) THEN m
    ELSE [DropCandidate(m) EXCEPT !.command = NoCommand, !.fail_stop = TRUE]

(* Unlike a suspension this leaves the command in place.                   *)
LocalizationChecked(m) ==
    IF LocalizationHealthy(m) \/ m.state = "WAITING" THEN m
    ELSE [DropCandidate(m) EXCEPT
            !.fail_stop = TRUE, !.estop = TRUE,
            !.state = "WAITING", !.wait = "RUNNING", !.map.ready = FALSE]

MapRecovered(m) ==
    /\ m.state = "WAITING"
    /\ MapReady(m) /\ LocalizationHealthy(m) /\ RecoverySnapshotReady(m)

MapStale(m) == m.state # "WAITING" /\ ~MapReady(m)

(* The no_executable_plan budget of the watchdog is about to run.          *)
Charged(noplan) == IF noplan = "NONE" THEN "RUNNING" ELSE noplan

(* evaluateSuspended.                                                      *)
SuspensionCharged(m) ==
    IF m.cancel THEN m
    ELSE [m EXCEPT !.noplan =
            IF MapSourceAlive(m) /\ LocalizationHealthy(m) THEN Charged(@)
            ELSE "NONE"]

(* evaluate, outside the hold disk: what the watchdog decides, and the     *)
(* budgets it leaves.  The escape from a blocked pose is disabled, as in   *)
(* the shipped configurations.                                             *)
ProgressGateHealthy(m) ==
    /\ MapReady(m) /\ LocalizationHealthy(m) /\ m.odom # "LOST"
    /\ SnapshotUsable(m, m.snapshot.pub, m.epoch)

Executable(m) == Commanding(m) /\ ~m.fail_stop

Watched(m, s) == RequireSnapshot /\ s.place = "AWAY" /\ ~m.cancel

(* Mutant: one replan too many.                                            *)
DecisionOffByOne(m, s) ==
    IF ~Watched(m, s) THEN "NONE"
    ELSE IF ~ProgressGateHealthy(m) \/ s.footing # "FREE" THEN "UNSAFE"
    ELSE IF ~Executable(m)
         THEN IF m.noplan = "ELAPSED" THEN "NO_PLAN" ELSE "NONE"
    ELSE IF ~s.stalled THEN "NONE"
    ELSE IF m.replans <= MaxReplans THEN "REPLAN" ELSE "EXHAUSTED"

Decision(m, s) ==
    IF ~Watched(m, s) THEN "NONE"
    ELSE IF ~ProgressGateHealthy(m) \/ s.footing # "FREE" THEN "UNSAFE"
    ELSE IF ~Executable(m)
         THEN IF m.noplan = "ELAPSED" THEN "NO_PLAN" ELSE "NONE"
    ELSE IF ~s.stalled THEN "NONE"
    ELSE IF m.replans < MaxReplans THEN "REPLAN" ELSE "EXHAUSTED"

ProgressCharged(m, s) ==
    IF ~Watched(m, s) THEN m
    ELSE [m EXCEPT
            !.noplan = IF ~ProgressGateHealthy(m) \/ s.footing = "OUTSIDE"
                       THEN "NONE"
                       ELSE IF s.footing = "BLOCKED" THEN @
                       ELSE IF Executable(m) THEN "NONE" ELSE Charged(@),
            !.replans = IF Decision(m, s) = "REPLAN" THEN @ + 1 ELSE @]

Retargets(m, s) ==
    ReplanWithoutStop /\ Commanding(m) /\ ~m.fail_stop /\ ~m.replacing /\ s.drifted

Settling(m, s) == s.place = "ARRIVED" /\ ~Retargets(m, s)

Reached(m, s) == Settling(m, s) /\ m.dwell = "ELAPSED"

Tracked(m, s) ==
    [ProgressCharged(m, s) EXCEPT
        !.dwell = IF Settling(m, s) THEN Charged(@) ELSE "NONE"]

(* The replan of a stalled reference: a stop, and a request bound to the   *)
(* snapshot the stall was judged on.                                       *)
ProgressReplanned(m, v) ==
    DispatchedOrSuspended(
        Stopped([Revoked(m) EXCEPT !.state = "PLANNING", !.wait = "NONE"]),
        v, m.snapshot.pub, "NONE")

TrackingActed(m, v, s) ==
    LET d == Decision(m, s)
        n == Tracked(m, s)
    IN  IF d = "REPLAN" THEN ProgressReplanned(n, v)
        ELSE IF d = "UNSAFE"
        THEN Suspended(n, "NONE",
                       IF ProgressGateHealthy(m) THEN m.snapshot.pub ELSE 0)
        ELSE IF Retargets(m, s)
        THEN ReplanAdvised(n, v, [goal |-> n.goal, epoch |-> n.epoch,
                                  request |-> n.committed])
        ELSE n

(* Mutants: a cancel is looked at only for a goal that has a request;      *)
(* the deadline is left out while the goal waits.                          *)
GoalEndsCanceledInMotion(m, s) ==
    \/ m.cancel /\ m.state # "WAITING"
    \/ m.deadline = "ELAPSED"
    \/ MapStale(m)
    \/ /\ m.state = "WAITING" /\ ~MapRecovered(m)
       /\ m.wait = "ELAPSED" \/ SuspensionCharged(m).noplan = "ELAPSED"
    \/ /\ m.state = "TRACKING"
       /\ Reached(m, s) \/ Decision(m, s) \in {"EXHAUSTED", "NO_PLAN"}

GoalEndsNotWhileWaiting(m, s) ==
    \/ m.cancel
    \/ m.deadline = "ELAPSED" /\ m.state # "WAITING"
    \/ MapStale(m)
    \/ /\ m.state = "WAITING" /\ ~MapRecovered(m)
       /\ m.wait = "ELAPSED" \/ SuspensionCharged(m).noplan = "ELAPSED"
    \/ /\ m.state = "TRACKING"
       /\ Reached(m, s) \/ Decision(m, s) \in {"EXHAUSTED", "NO_PLAN"}

(* The reasons for which a goal ends, given the manager after the checks.  *)
GoalEnds(m, s) ==
    \/ m.cancel
    \/ m.deadline = "ELAPSED"
    \/ MapStale(m)
    \/ /\ m.state = "WAITING" /\ ~MapRecovered(m)
       /\ m.wait = "ELAPSED" \/ SuspensionCharged(m).noplan = "ELAPSED"
    \/ /\ m.state = "TRACKING"
       /\ Reached(m, s) \/ Decision(m, s) \in {"EXHAUSTED", "NO_PLAN"}

(* The work of the timer on an active goal whose transform is known.       *)
Acted(m, v, s, lost) ==
    CASE MapRecovered(m) ->
            DispatchedOrSuspended(
                [m EXCEPT !.state = "PLANNING", !.wait = "NONE"], v, 0, m.wait)
      [] m.state = "WAITING" /\ ~MapRecovered(m) -> SuspensionCharged(m)
      [] m.state = "TRACKING" ->
            IF lost THEN Tracked(m, s) ELSE TrackingActed(m, v, s)
      [] OTHER -> m

Supervised(m, v, s) ==
    LET lost == ~GimbalHolds(m)
        n == LocalizationChecked(GimbalChecked(m))
        acted == Acted(n, v, s, lost)
        recovering == IF lost THEN Suspended(acted, "NONE", 0) ELSE acted
    IN  IF GoalEnds(n, s) THEN Finished(recovering) ELSE recovering

Heartbeat(m) ==
    IF m.fail_stop \/ m.state # "TRACKING" THEN Stopped(m)
    ELSE [m EXCEPT !.estop = FALSE,
                   !.sent = IF Commanding(m) THEN Execute(m.command) ELSE Stop]

(* Without the goal's transform the callback returns after the suspension. *)
Ticked(m, v, s) ==
    IF m.goal = 0 THEN Heartbeat(m)
    ELSE IF ~m.goal_tf THEN Suspended(m, "NONE", 0)
    ELSE Heartbeat(Supervised(m, v, s))

-----------------------------------------------------------------------------
(* History: what the properties remember of the past.                      *)
(*   barrier    the last request issued before execution was last broken   *)
(*              off to wait or to replan from a stop;                      *)
(*   condemned  the newest map publication on which MINCO found the active *)
(*              goal's plan unsafe or superseded.                          *)

BreaksOff(m) ==
    \/ mgr.state # "WAITING" /\ m.state = "WAITING"
    \/ mgr.state = "TRACKING" /\ m.state = "PLANNING" /\ m.expected # mgr.expected

NothingHappened == [barrier |-> 0, condemned |-> 0]

Remembered(m) ==
    IF m.goal # mgr.goal THEN NothingHappened
    ELSE [history EXCEPT !.barrier = IF BreaksOff(m) THEN mgr.next ELSE @]

(* The callback leaves m.  The bounds on the requests are applied here.    *)
Becomes(m) ==
    /\ mgr' \in {n \in {m} : n.next <= MaxRequests /\ n.next_yaw <= MaxYawRequests}
    /\ history' = Remembered(mgr')

(* A callback starts with nothing published.                               *)
Awake == [mgr EXCEPT !.sent = Silent]

-----------------------------------------------------------------------------
(* The callbacks as actions.                                               *)

OnActionAccepted ==
    /\ mgr.next_goal < MaxGoals
    /\ \E v \in Prospects : Becomes(Started(Awake, v))

OnActionCancel ==
    /\ mgr.goal # 0 /\ ~mgr.cancel
    /\ Becomes(Cancelled(Awake))

(* A goal that cannot be transformed is refused, with a momentary stop.    *)
OnGoalRefused == Becomes([Awake EXCEPT !.estop = TRUE])

OnPlanFailed(r, reason) ==
    LET m == PlanFailed(Awake, r, reason)
        condemns == ConcernsActive(mgr, r) /\ reason \in {"UNSAFE", "SNAPSHOT_CHANGED"}
    IN  /\ mgr' = m
        /\ history' = [Remembered(m) EXCEPT
                         !.condemned = IF condemns /\ m.goal # 0 THEN Larger(@, r.pub)
                                       ELSE @]

(* ACCEPTED with a failure reason: a replacement failed and the reference  *)
(* in force is still guarded; without one it is an ordinary failure.       *)
OnPlanAcceptedInVain(r, reason) ==
    \/ Expected(mgr, r) /\ ~Commanding(mgr) /\ OnPlanFailed(r, reason)
    \/ /\ Expected(mgr, r) /\ Commanding(mgr)
       /\ mgr' = [Awake EXCEPT !.replacing = FALSE]
       /\ UNCHANGED history

OnPlannerFailure ==
    \E r \in mgr.requests, reason \in Reasons :
        OnPlanFailed(r, reason) \/ OnPlanAcceptedInVain(r, reason)

OnReplanAdvised ==
    \E r \in mgr.requests, v \in Prospects : Becomes(ReplanAdvised(Awake, v, r))

OnReferenceReady ==
    \E r \in mgr.requests, v \in Surroundings : Becomes(ReferenceReady(Awake, v, r))

OnCandidateReference ==
    \E r \in mgr.requests, v \in Surroundings :
        Becomes(TryCommit([Awake EXCEPT !.candidate = r], v))

-----------------------------------------------------------------------------
(* The values an input may take.  Sequence numbers do not go back unless   *)
(* the adapter restarts.                                                   *)
Outcomes(fault) == IF fault \in Faults THEN BOOLEAN ELSE {TRUE}

OnMapStatus ==
    \E v \in Surroundings, ready \in Outcomes("MAP"),
       epoch \in Larger(1, mgr.map.epoch)..MaxEpochs, pub \in 1..MaxPublications :
        /\ pub >= mgr.map.pub \/ "RESTART" \in Faults
        /\ Becomes(MapStatusReceived(Awake, v, ready, epoch, pub))

OnPlanningSnapshot ==
    \E v \in Surroundings, valid \in Outcomes("SNAPSHOT"),
       epoch \in 1..MaxEpochs, pub \in 1..MaxPublications :
        /\ pub >= mgr.snapshot.pub \/ "RESTART" \in Faults
        /\ Becomes(SnapshotReceived(Awake, v, valid, epoch, pub))

OnLocalizationStatus ==
    \E healthy \in Outcomes("LOCALIZATION"),
       epoch \in Larger(1, mgr.loc.epoch)..MaxEpochs :
        Becomes(LocalizationReceived(Awake, healthy, epoch))

OnGimbalYawStatus ==
    /\ RequireGimbal
    /\ \E v \in Surroundings, mode \in YawModes, sound \in Outcomes("GIMBAL"),
          request \in 0..mgr.next_yaw :
           Becomes(GimbalReceived(Awake, v, mode, sound, request))

OnOdometry ==
    \E quality \in IF "ODOMETRY" \in Faults THEN {"LOST", "BLIND", "OK"} ELSE {"OK"} :
        Becomes(OdometryReceived(Awake, quality))

OnTick ==
    \E v \in Prospects, s \in Sightings :
        /\ s.place = "ARRIVED" => mgr.odom # "BLIND"
        /\ Becomes(Ticked(Awake, v, s))

(* The environment: leases run out, deadlines pass, the transform of the   *)
(* goal comes and goes.                                                    *)
Lapse ==
    \/ "MAP_LEASE" \in Faults /\ Becomes([Awake EXCEPT !.map.fresh = FALSE])
    \/ "SNAPSHOT_LEASE" \in Faults /\ Becomes([Awake EXCEPT !.snapshot.fresh = FALSE])
    \/ "LOCALIZATION_LEASE" \in Faults /\ Becomes([Awake EXCEPT !.loc.fresh = FALSE])
    \/ "GIMBAL_LEASE" \in Faults /\ Becomes([Awake EXCEPT !.gimbal.fresh = FALSE])

DeadlinePasses ==
    /\ "DEADLINE" \in Faults /\ mgr.deadline = "RUNNING"
    /\ Becomes([Awake EXCEPT !.deadline = "ELAPSED"])

Elapse ==
    \/ /\ "WAIT" \in Faults /\ mgr.wait = "RUNNING"
       /\ Becomes([Awake EXCEPT !.wait = "ELAPSED"])
    \/ /\ "NO_PLAN" \in Faults /\ mgr.noplan = "RUNNING"
       /\ Becomes([Awake EXCEPT !.noplan = "ELAPSED"])
    \/ mgr.dwell = "RUNNING" /\ Becomes([Awake EXCEPT !.dwell = "ELAPSED"])

TransformChanges ==
    /\ "GOAL_TF" \in Faults
    /\ Becomes([Awake EXCEPT !.goal_tf = ~@])

-----------------------------------------------------------------------------
(* The constructor publishes a stop before anything is heard.              *)
InitialManager ==
    [goal |-> 0, epoch |-> 0, next |-> 0, expected |-> 0, committed |-> 0,
     cancel |-> FALSE, replacing |-> FALSE, after |-> 0, wait |-> "NONE",
     deadline |-> "NONE", state |-> "IDLE", fail_stop |-> TRUE,
     candidate |-> NoRequest, ready |-> NoRequest, command |-> NoCommand,
     yaw_request |-> NoYawRequest, dwell |-> "NONE", noplan |-> "NONE",
     replans |-> 0, next_goal |-> 0, next_yaw |-> 0,
     map |-> [ready |-> FALSE, alive |-> FALSE, fresh |-> FALSE, epoch |-> 0,
              pub |-> 0],
     snapshot |-> [valid |-> FALSE, fresh |-> FALSE, epoch |-> 0, pub |-> 0],
     loc |-> [healthy |-> FALSE, fresh |-> FALSE, epoch |-> 0],
     odom |-> "NONE", goal_tf |-> TRUE,
     gimbal |-> [sound |-> FALSE, fresh |-> FALSE, mode |-> "NONE", request |-> 0],
     requests |-> {}, estop |-> TRUE, sent |-> Stop]

Init == mgr = InitialManager /\ history = NothingHappened

Next ==
    \/ OnActionAccepted
    \/ OnActionCancel
    \/ OnGoalRefused
    \/ OnPlannerFailure
    \/ OnReplanAdvised
    \/ OnReferenceReady
    \/ OnCandidateReference
    \/ OnMapStatus
    \/ OnPlanningSnapshot
    \/ OnLocalizationStatus
    \/ OnGimbalYawStatus
    \/ OnOdometry
    \/ OnTick
    \/ Lapse
    \/ DeadlinePasses
    \/ Elapse
    \/ TransformChanges

Spec == Init /\ [][Next]_vars

(* The timer fires at its period, and when the transform of the goal comes *)
(* and goes it does not for ever fire in the gaps only.  No deadline and no *)
(* wait is assumed to run out.                                             *)
TickWithTransform == mgr.goal_tf /\ OnTick

FairSpec == Spec /\ SF_vars(TickWithTransform)

-----------------------------------------------------------------------------
(* Type invariant.                                                         *)
TypeOK ==
    /\ mgr \in Manager
    /\ history \in [barrier : 0..MaxRequests, condemned : 0..MaxPublications]

(* What the comment on the execution command promises: when the manager    *)
(* sends an EXECUTE, everything it depends on is in order at that moment,   *)
(* by whichever callback it is sent: the map and the localization are      *)
(* healthy in the goal's epoch, the gimbal holds the yaw authority granted, *)
(* the goal is not being canceled, and the emergency stop is released.     *)
ExecuteInFullHealth ==
    mgr.sent.mode = "EXECUTE" =>
        /\ MapReady(mgr) /\ LocalizationHealthy(mgr)
        /\ GimbalSatisfies(mgr, mgr.sent.of.yaw, mgr.sent.gimbal)
        /\ ~mgr.cancel /\ ~mgr.estop
        /\ mgr.sent.of.goal = mgr.goal /\ mgr.sent.of.epoch = mgr.epoch

(* The abstract promise: see ExecutionAuthority.  In particular execution  *)
(* is never passed back to an earlier request, and once it was broken off  *)
(* no plan requested before is executed, however late its answers come.    *)
Authority ==
    INSTANCE ExecutionAuthority WITH
        goal <- mgr.next_goal, issued <- mgr.next, revoked <- history.barrier,
        running <- IF mgr.state = "TRACKING" /\ ~mgr.fail_stop
                   THEN mgr.command.of.request ELSE 0

ImplementsAuthority == Authority!Spec

(* The last clause of that promise by itself.  (The design document,       *)
(* ats_swerve_mpc 17.1: a late candidate may only be recorded and rejected,*)
(* it cannot bring an old trajectory back.)                                *)
LateCandidateStaysDead ==
    mgr.sent.mode = "EXECUTE" => mgr.sent.of.request > history.barrier

(* No plan made on a map publication on which MINCO found this goal's plan *)
(* unsafe or superseded, or on an older one, is executed afterwards,       *)
(* through any number of further suspensions for other reasons.            *)
CondemnedMapStaysDead ==
    mgr.sent.mode = "EXECUTE" => mgr.sent.of.pub > history.condemned

(* The release of the emergency stop is backed by an execution: while the  *)
(* last word on the topic is a release and no stop is pending, the goal is *)
(* tracked with a command, and the number that runtime failures and replan *)
(* advice of MINCO are matched against is that command's.                  *)
ReleaseIsBacked ==
    (~mgr.estop /\ ~mgr.fail_stop) =>
        /\ mgr.state = "TRACKING" /\ Commanding(mgr)
        /\ mgr.command.of.goal = mgr.goal
        /\ mgr.command.of.request = mgr.committed

(* A canceled goal ends while its transform is known again and again, by   *)
(* the cancel itself: the deadline and the waits may run on for ever, and  *)
(* the goal may be suspended and resumed meanwhile.  (The comment in       *)
(* onActionCancel: the final result is settled by the tick.)               *)
AcceptedCancelCompletes ==
    []<>mgr.goal_tf => (mgr.cancel ~> ~mgr.cancel)

(* A goal whose deadline passed ends, in whatever state it is, while its   *)
(* transform is known again and again.                                     *)
DeadlineEndsGoal ==
    []<>mgr.goal_tf => (mgr.deadline = "ELAPSED" ~> mgr.deadline # "ELAPSED")

=============================================================================
