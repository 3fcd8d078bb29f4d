-------------------------- MODULE MincoPublication --------------------------
(***************************************************************************)
(* What the MINCO planner node (minco_planner) commits and announces: the  *)
(* map snapshot it plans on, the reference it watches while the robot      *)
(* follows it, and the planner statuses the goal manager, the MPC and the  *)
(* arbiter act on.  The search and the optimisation are left out: a plan   *)
(* may fail or succeed, and a footprint check may say anything.            *)
(*                                                                         *)
(* The node runs on a multi-threaded executor with three callback groups,  *)
(* each with at most one callback at a time: planning (requests), map      *)
(* (snapshots) and health (heartbeat, watchdog, runtime recheck).  They    *)
(* share minco under map_mutex_, and work on their own copies in between:  *)
(* every action below is one locked section, and the groups interleave.    *)
(*                                                                         *)
(* The configuration is the one of the real robot: snapshots come by       *)
(* topic, the heartbeat is required (map_ready_topic_), the goal manager   *)
(* owns the emergency stop.  A reference's commit stamp names the request  *)
(* it answers, since a request commits at most once.                       *)
(***************************************************************************)
EXTENDS Integers

CONSTANTS
    RetainSafeReference,    \* retain_safe_reference_on_snapshot_change_
    ReplanAdvisory,         \* replan_advisory_enabled_
    Goals, Epochs, Sequences,     \* what requests carry (bounds for TLC)
    Contents,                     \* what a snapshot shows, up to safety
    MaxGenerations, MaxLosses     \* bounds of the counters

ASSUME MincoAssumption ==
    /\ RetainSafeReference \in BOOLEAN /\ ReplanAdvisory \in BOOLEAN
    /\ Goals \subseteq Nat \ {0} /\ Epochs \subseteq Nat
    /\ Sequences \subseteq Nat \ {0}
    /\ Contents # {}
    /\ MaxGenerations \in Nat /\ MaxLosses \in Nat

VARIABLES
    minco,      \* the members shared by the callback groups
    lease,      \* whether last_map_ready_signal_ is within its timeout
    planning,   \* the local variables of the request being handled
    mapping,    \* those of the snapshot being handled
    health,     \* those of the runtime recheck
    published,  \* the planner status this step published, or Silence
    granted,    \* history: the request consumers hold a reference of
    reply,      \* history: what was said about the last request
    judged,     \* history: which request was last found safe, on which map
    losses      \* history: how often the map was lost

history == <<granted, reply, judged, losses>>
locals == <<planning, mapping, health>>
vars == <<minco, lease, locals, published, history>>

-----------------------------------------------------------------------------
(* Requests, snapshots, references and statuses.                           *)

NoRequest == [goal |-> 0, epoch |-> 0, sequence |-> 0]

Requests == [goal : Goals, epoch : Epochs, sequence : Sequences]

(* received is history: how many losses of the map preceded its arrival.   *)
NoSnapshot == [generation |-> 0, content |-> 0, received |-> 0]

NoReference == [request |-> NoRequest, map_generation |-> 0]

Bound(request, snapshot) ==
    [request |-> request, map_generation |-> snapshot.generation]

Silence ==
    [request |-> NoRequest, generation |-> 0, state |-> "NONE", reason |-> "NONE"]

(* PLANNING stands for the failures of the search, the optimiser, the      *)
(* footprint gate and the transforms, which nothing here tells apart.      *)
Reasons ==
    {"NONE", "MAP_UNREADY", "SNAPSHOT_CHANGED", "RUNTIME_UNSAFE", "PLANNING",
     "REPLAN_ADVISED"}

Status(request, generation, state, reason) ==
    [request |-> request, generation |-> generation, state |-> state,
     reason |-> reason]

Failed(request, generation, reason) ==
    Status(request, generation, "FAILED", reason)

(* Mutant: a second status of the same request counts as outdated.         *)
OutdatedOrSame(r, s) == r.goal = s.goal /\ r.sequence <= s.sequence

(* plan_request_sequence is ordered within one goal only.                  *)
Outdated(r, s) == r.goal = s.goal /\ r.sequence < s.sequence

-----------------------------------------------------------------------------
(* PlannerSafetyState and PlannerStatusState.                              *)

Usable(m, generation) ==
    m.map_ready /\ generation >= m.minimum_map_generation

(* PlannerStatusState::update drops what is older than the latest status,  *)
(* and what would undo a MAP_UNREADY of the same generation.               *)
Admissible(latest, s) ==
    \/ latest = Silence
    \/ s.request.epoch > latest.request.epoch
    \/ /\ s.request.epoch = latest.request.epoch
       /\ s.generation >= latest.generation
       /\ ~Outdated(s.request, latest.request)
       /\ \/ s.generation > latest.generation
          \/ latest.state # "FAILED" \/ latest.reason # "MAP_UNREADY"
          \/ s.reason = "MAP_UNREADY"

Recorded(m, s) == IF Admissible(m.latest, s) THEN [m EXCEPT !.latest = s] ELSE m

(* A status of generation 0 takes the generation of the map in force.      *)
Stamped(m, s) ==
    IF s.generation = 0 THEN [s EXCEPT !.generation = m.next_map_generation] ELSE s

(* What consumers make of a status: READY offers a reference, FAILED takes *)
(* it back, ACCEPTED changes nothing but may answer a request.             *)
Heard(s) ==
    /\ published' = s
    /\ granted' = CASE s.state = "READY" -> s.request
                    [] s.state = "FAILED" -> NoRequest
                    [] OTHER -> granted
    /\ reply' = IF s.request = planning.request THEN "ANSWERED" ELSE reply

Quiet == published' = Silence /\ UNCHANGED <<granted, reply>>

(* publishPlannerStatusLocked: record s and publish it, or drop it.        *)
Publish(m, s) ==
    LET stamped == Stamped(m, s)
    IN  /\ minco' = Recorded(m, stamped)
        /\ IF Admissible(m.latest, stamped) THEN Heard(stamped) ELSE Quiet

(* invalidatePlannerStatusLocked: the latest status has failed.            *)
PublishInvalidation(m, generation, reason) ==
    LET s == Failed(m.latest.request, generation, reason)
    IN  IF m.latest = Silence THEN minco' = m /\ Quiet
        ELSE /\ minco' = Recorded(m, s)
             /\ IF Admissible(m.latest, s) THEN Heard(s) ELSE Quiet

(* Mutant: a lost map restarts the count of the generations.               *)
LostMapRestartsCount(m) ==
    [m EXCEPT !.map_health_epoch = @ + 1,
              !.next_map_generation = 0,
              !.latest_map_snapshot = NoSnapshot,
              !.active_safety_reference = NoReference,
              !.map_ready = FALSE,
              !.plan_safe = FALSE,
              !.minimum_map_generation = m.next_map_generation + 1]

LostMap(m) ==
    [m EXCEPT !.map_health_epoch = @ + 1,
              !.latest_map_snapshot = NoSnapshot,
              !.active_safety_reference = NoReference,
              !.map_ready = FALSE,
              !.plan_safe = FALSE,
              !.minimum_map_generation = m.next_map_generation + 1]

InvalidateMap ==
    /\ losses < MaxLosses
    /\ losses' = losses + 1
    /\ PublishInvalidation(LostMap(minco), minco.next_map_generation, "MAP_UNREADY")
    /\ UNCHANGED judged

-----------------------------------------------------------------------------
(* Health group: heartbeat, watchdog and runtime recheck.                  *)

OnMapReady(ready) ==
    /\ health.at = "IDLE"
    /\ lease' = TRUE
    /\ IF ready
       THEN /\ minco' = [minco EXCEPT !.map_ready = TRUE]
            /\ Quiet /\ UNCHANGED <<judged, losses>>
       ELSE InvalidateMap
    /\ UNCHANGED locals

OnMapReadyWatchdog ==
    /\ health.at = "IDLE"
    /\ minco.map_ready /\ ~lease
    /\ InvalidateMap
    /\ UNCHANGED <<lease, locals>>

(* The clock passes map_ready_timeout_sec_ after the last heartbeat.       *)
LeaseRunsOut ==
    /\ lease
    /\ lease' = FALSE
    /\ Quiet
    /\ UNCHANGED <<minco, locals, judged, losses>>

RecheckBegins ==
    /\ health.at = "IDLE"
    /\ minco.active_safety_reference # NoReference
    /\ minco.latest_map_snapshot # NoSnapshot
    /\ Usable(minco, minco.latest_map_snapshot.generation)
    /\ health' = [at |-> "CHECKING",
                  reference |-> minco.active_safety_reference,
                  generation |-> minco.latest_map_snapshot.generation]
    /\ Quiet
    /\ UNCHANGED <<minco, lease, planning, mapping, judged, losses>>

NoRecheck == [at |-> "IDLE", reference |-> NoReference, generation |-> 0]

RecheckPasses ==
    /\ health.at = "CHECKING"
    /\ health' = NoRecheck
    /\ Quiet
    /\ UNCHANGED <<minco, lease, planning, mapping, judged, losses>>

(* Mutant: the verdict counts for whatever reference is in force.          *)
AnyInForce == minco.active_safety_reference # NoReference

(* The verdict counts only for the reference it was reached on.            *)
StillInForce == minco.active_safety_reference = health.reference

RecheckCondemns ==
    /\ health.at = "CHECKING"
    /\ IF StillInForce
       THEN Publish([minco EXCEPT !.active_safety_reference = NoReference,
                                  !.plan_safe = FALSE],
                    Failed(health.reference.request, health.generation,
                           "RUNTIME_UNSAFE"))
       ELSE minco' = minco /\ Quiet
    /\ health' = NoRecheck
    /\ UNCHANGED <<lease, planning, mapping, judged, losses>>

-----------------------------------------------------------------------------
(* Map group: a snapshot is built and judged outside the lock.             *)

NoBuild ==
    [at |-> "IDLE", snapshot |-> NoSnapshot, health_epoch |-> 0,
     candidate |-> NoReference]

OnSnapshotWithdrawn ==
    /\ mapping.at = "IDLE"
    /\ InvalidateMap
    /\ UNCHANGED <<lease, locals>>

BuildBegins(content) ==
    /\ mapping.at = "IDLE"
    /\ minco.next_map_generation < MaxGenerations
    /\ mapping' = [at |-> "BUILDING",
                   snapshot |-> [generation |-> minco.next_map_generation + 1,
                                 content |-> content, received |-> losses],
                   health_epoch |-> minco.map_health_epoch,
                   candidate |-> NoReference]
    /\ Quiet
    /\ UNCHANGED <<minco, lease, planning, health, judged, losses>>

BuildFails ==
    /\ mapping.at = "BUILDING"
    /\ InvalidateMap
    /\ mapping' = NoBuild
    /\ UNCHANGED <<lease, planning, health>>

SameContent(m, snapshot) ==
    /\ m.latest_map_snapshot # NoSnapshot
    /\ m.latest_map_snapshot.content = snapshot.content

(* A committed reference may be kept if the new map leaves it safe.        *)
BuildEnds ==
    /\ mapping.at = "BUILDING"
    /\ mapping' =
         [mapping EXCEPT
            !.at = "JUDGED",
            !.candidate =
                IF /\ RetainSafeReference
                   /\ minco.latest_map_snapshot # NoSnapshot
                   /\ minco.plan_safe
                   /\ ~SameContent(minco, mapping.snapshot)
                THEN minco.active_safety_reference ELSE NoReference]
    /\ Quiet
    /\ UNCHANGED <<minco, lease, planning, health, judged, losses>>

(* SAFE: the rest of the candidate is clear; NEAR: only its first second.  *)
Verdicts == {"SAFE", "UNSAFE"} \cup (IF ReplanAdvisory THEN {"NEAR"} ELSE {})

ChangedMeanwhile ==
    \/ mapping.health_epoch # minco.map_health_epoch
    \/ mapping.snapshot.generation # minco.next_map_generation + 1

(* Mutant: whatever reference is in force is kept on the verdict.          *)
RetainsAnyReference(verdict) ==
    /\ mapping.candidate # NoReference
    /\ verdict \in {"SAFE", "NEAR"}
    /\ minco.latest_map_snapshot # NoSnapshot
    /\ minco.active_safety_reference # NoReference
    /\ minco.plan_safe
    /\ Usable(minco, mapping.snapshot.generation)

Retains(verdict) ==
    /\ mapping.candidate # NoReference
    /\ verdict \in {"SAFE", "NEAR"}
    /\ minco.latest_map_snapshot # NoSnapshot
    /\ minco.plan_safe
    /\ Usable(minco, mapping.snapshot.generation)
    /\ minco.active_safety_reference = mapping.candidate

Advises(verdict) ==
    verdict = "NEAR" /\ minco.replan_advised # minco.active_safety_reference.request

WithSnapshot(m, snapshot, reference) ==
    [m EXCEPT !.next_map_generation = snapshot.generation,
              !.latest_map_snapshot = snapshot,
              !.active_safety_reference = reference]

(* invalidatePlanForNewMap: no plan on an older map is good any more.      *)
PlanInvalidated(m, generation) ==
    [m EXCEPT !.plan_safe = FALSE,
              !.minimum_map_generation = IF generation > @ THEN generation ELSE @]

DiscardSnapshot ==
    /\ mapping.at = "JUDGED"
    /\ \/ ChangedMeanwhile
       \/ SameContent(minco, mapping.snapshot)
    /\ mapping' = NoBuild
    /\ Quiet
    /\ UNCHANGED <<minco, lease, planning, health, judged, losses>>

CommitRetaining(verdict) ==
    /\ mapping.at = "JUDGED"
    /\ ~ChangedMeanwhile
    /\ ~SameContent(minco, mapping.snapshot)
    /\ Retains(verdict)
    /\ LET request == minco.active_safety_reference.request
           kept == WithSnapshot(minco, mapping.snapshot, Bound(request, mapping.snapshot))
       IN  minco' = IF Advises(verdict) THEN [kept EXCEPT !.replan_advised = request]
                    ELSE kept
    /\ mapping' = IF Advises(verdict) THEN [mapping EXCEPT !.at = "ADVISING"]
                  ELSE NoBuild
    /\ judged' = [request |-> mapping.candidate.request, snapshot |-> mapping.snapshot]
    /\ Quiet
    /\ UNCHANGED <<lease, planning, health, losses>>

(* A new map without a reference to keep; the first one after a loss       *)
(* announces nothing.                                                      *)
CommitDropping(verdict) ==
    /\ mapping.at = "JUDGED"
    /\ ~ChangedMeanwhile
    /\ ~SameContent(minco, mapping.snapshot)
    /\ ~Retains(verdict)
    /\ LET generation == mapping.snapshot.generation
           m == WithSnapshot(minco, mapping.snapshot, NoReference)
       IN  IF minco.latest_map_snapshot = NoSnapshot
           THEN minco' = m /\ Quiet
           ELSE PublishInvalidation(PlanInvalidated(m, generation), generation,
                                    "SNAPSHOT_CHANGED")
    /\ mapping' = NoBuild
    /\ UNCHANGED <<lease, planning, health, judged, losses>>

(* Published outside the lock, past the record of the latest status.       *)
AdviseReplan ==
    /\ mapping.at = "ADVISING"
    /\ Heard(Status(mapping.candidate.request, mapping.snapshot.generation,
                    "ACCEPTED", "REPLAN_ADVISED"))
    /\ mapping' = NoBuild
    /\ UNCHANGED <<minco, lease, planning, health, judged, losses>>

-----------------------------------------------------------------------------
(* Planning group: a request from its arrival to its answer.               *)

(* The goal manager numbers its goals, and the requests of each, upwards.  *)
Follows(r, last) ==
    /\ r.epoch >= last.epoch
    /\ \/ r.goal > last.goal /\ r.sequence = 1
       \/ r.goal = last.goal /\ r.sequence = last.sequence + 1

(* Its first status is recorded before the plan begins; an acceptance is   *)
(* recorded for the map in force and published without one.                *)
Receive(r, s, at) ==
    LET stamped == Stamped(minco, s)
        heard == Admissible(minco.latest, stamped)
    IN  /\ planning.at = "IDLE"
        /\ Follows(r, planning.request)
        /\ minco' = Recorded(minco, stamped)
        /\ published' = IF ~heard THEN Silence
                        ELSE IF s.state = "ACCEPTED" THEN s ELSE stamped
        /\ reply' = IF heard THEN s.state ELSE "NOTHING"
        /\ granted' = IF heard /\ s.state = "FAILED" THEN NoRequest ELSE granted
        /\ planning' = [at |-> at, request |-> r, keep |-> FALSE,
                        snapshot |-> NoSnapshot, health_epoch |-> 0, reason |-> "NONE"]
        /\ UNCHANGED <<lease, mapping, health, judged, losses>>

OnPlannerGoal(r) == Receive(r, Status(r, 0, "ACCEPTED", "NONE"), "ACCEPTED")

(* The request freezes a start that is not finite.                         *)
OnUnusableStart(r) == Receive(r, Failed(r, 0, "PLANNING"), "IDLE")

Step(at) == planning' = [planning EXCEPT !.at = at]

(* Only a replan MINCO itself advised keeps the reference in execution     *)
(* under guard while it is replaced.                                       *)
KeepsReference ==
    LET active == minco.active_safety_reference
    IN  /\ active # NoReference /\ minco.plan_safe
        /\ active.request.goal = planning.request.goal
        /\ active.request.epoch = planning.request.epoch
        /\ active.request.sequence < planning.request.sequence
        /\ active.request = minco.replan_advised

PlanBegins ==
    /\ planning.at = "ACCEPTED"
    /\ planning' = [planning EXCEPT !.keep = KeepsReference,
                                    !.at = IF KeepsReference THEN "STARTING"
                                           ELSE "DISARMING"]
    /\ minco' = IF KeepsReference THEN minco
                ELSE [minco EXCEPT !.active_safety_reference = NoReference]
    /\ Quiet
    /\ UNCHANGED <<lease, mapping, health, judged, losses>>

(* setPlanSafe(false), in a locked section of its own.                     *)
Disarm ==
    /\ planning.at \in {"DISARMING", "FAILED_DISARMING"}
    /\ minco' = [minco EXCEPT !.plan_safe = FALSE]
    /\ Step(IF planning.at = "DISARMING" THEN "STARTING" ELSE "REPORTING")
    /\ Quiet
    /\ UNCHANGED <<lease, mapping, health, judged, losses>>

CaptureMap ==
    /\ planning.at = "STARTING"
    /\ LET snapshot == minco.latest_map_snapshot
       IN  IF snapshot # NoSnapshot /\ Usable(minco, snapshot.generation)
           THEN planning' = [planning EXCEPT !.at = "PLANNING",
                                             !.snapshot = snapshot,
                                             !.health_epoch = minco.map_health_epoch]
           ELSE planning' = [planning EXCEPT !.at = "FAILING", !.reason = "MAP_UNREADY"]
    /\ Quiet
    /\ UNCHANGED <<minco, lease, mapping, health, judged, losses>>

PlanFails ==
    /\ planning.at = "PLANNING"
    /\ planning' = [planning EXCEPT !.at = "FAILING", !.reason = "PLANNING"]
    /\ Quiet
    /\ UNCHANGED <<minco, lease, mapping, health, judged, losses>>

(* publishReferenceIfCurrent.                                              *)

Current ==
    /\ lease
    /\ minco.latest_map_snapshot # NoSnapshot
    /\ Usable(minco, planning.snapshot.generation)
    /\ planning.health_epoch = minco.map_health_epoch
    /\ planning.snapshot.generation = minco.latest_map_snapshot.generation

CommitReference ==
    /\ planning.at = "PLANNING"
    /\ Current
    /\ Publish([minco EXCEPT !.plan_safe = TRUE,
                             !.active_safety_reference =
                                 Bound(planning.request, planning.snapshot)],
               Status(planning.request, planning.snapshot.generation, "READY", "NONE"))
    /\ judged' = [request |-> planning.request, snapshot |-> planning.snapshot]
    /\ Step("IDLE")
    /\ UNCHANGED <<lease, mapping, health, losses>>

StillGuarded ==
    LET active == minco.active_safety_reference
    IN  /\ lease
        /\ minco.latest_map_snapshot # NoSnapshot
        /\ minco.replan_advised # NoRequest
        /\ active # NoReference
        /\ active.request.goal = planning.request.goal
        /\ active.request.epoch = planning.request.epoch
        /\ active.request.sequence < planning.request.sequence
        /\ Usable(minco, minco.latest_map_snapshot.generation)

(* A plan that comes too late, for a map that is gone or silent.           *)
CommitTooLate ==
    /\ planning.at = "PLANNING"
    /\ ~Current
    /\ IF ~lease /\ minco.map_ready THEN InvalidateMap
       ELSE /\ minco' = [minco EXCEPT !.plan_safe = @ /\ StillGuarded]
            /\ Quiet
            /\ UNCHANGED <<judged, losses>>
    /\ planning' = [planning EXCEPT !.at = "FAILING", !.reason = "SNAPSHOT_CHANGED"]
    /\ UNCHANGED <<lease, mapping, health>>

(* A replan that fails leaves the guarded reference in execution, and says *)
(* so in a status the gates ignore.                                        *)
FailGuarded ==
    /\ planning.at = "FAILING" /\ planning.keep
    /\ minco.active_safety_reference # NoReference /\ minco.plan_safe
    /\ minco' = [minco EXCEPT !.replan_advised = NoRequest]
    /\ Heard(Status(planning.request,
                    IF planning.snapshot.generation # 0
                    THEN planning.snapshot.generation ELSE minco.next_map_generation,
                    "ACCEPTED", planning.reason))
    /\ Step("IDLE")
    /\ UNCHANGED <<lease, mapping, health, judged, losses>>

FailUnguarded ==
    /\ planning.at = "FAILING" /\ planning.keep
    /\ minco.active_safety_reference = NoReference \/ ~minco.plan_safe
    /\ minco' = [minco EXCEPT !.replan_advised = NoRequest]
    /\ Step("DROPPING")
    /\ Quiet
    /\ UNCHANGED <<lease, mapping, health, judged, losses>>

DropReference ==
    /\ planning.at = "DROPPING" \/ (planning.at = "FAILING" /\ ~planning.keep)
    /\ minco' = [minco EXCEPT !.active_safety_reference = NoReference]
    /\ Step("FAILED_DISARMING")
    /\ Quiet
    /\ UNCHANGED <<lease, mapping, health, judged, losses>>

ReportFailure ==
    /\ planning.at = "REPORTING"
    /\ Publish(minco, Failed(planning.request, planning.snapshot.generation,
                             planning.reason))
    /\ Step("IDLE")
    /\ UNCHANGED <<lease, mapping, health, judged, losses>>

-----------------------------------------------------------------------------
NoPlan ==
    [at |-> "IDLE", request |-> NoRequest, keep |-> FALSE,
     snapshot |-> NoSnapshot, health_epoch |-> 0, reason |-> "NONE"]

Init ==
    /\ minco = [map_ready |-> FALSE, plan_safe |-> FALSE,
                minimum_map_generation |-> 0, map_health_epoch |-> 0,
                next_map_generation |-> 0, latest_map_snapshot |-> NoSnapshot,
                active_safety_reference |-> NoReference,
                replan_advised |-> NoRequest, latest |-> Silence]
    /\ lease = FALSE
    /\ planning = NoPlan /\ mapping = NoBuild /\ health = NoRecheck
    /\ published = Silence
    /\ granted = NoRequest
    /\ reply = "NOTHING"
    /\ judged = [request |-> NoRequest, snapshot |-> NoSnapshot]
    /\ losses = 0

HealthStep ==
    \/ \E ready \in BOOLEAN : OnMapReady(ready)
    \/ OnMapReadyWatchdog
    \/ RecheckBegins \/ RecheckPasses \/ RecheckCondemns

MapStep ==
    \/ OnSnapshotWithdrawn
    \/ \E content \in Contents : BuildBegins(content)
    \/ BuildFails \/ BuildEnds \/ DiscardSnapshot
    \/ \E verdict \in Verdicts : CommitRetaining(verdict) \/ CommitDropping(verdict)
    \/ AdviseReplan

PlanStep ==
    \/ \E r \in Requests : OnPlannerGoal(r) \/ OnUnusableStart(r)
    \/ PlanBegins \/ Disarm \/ CaptureMap \/ PlanFails
    \/ CommitReference \/ CommitTooLate
    \/ FailGuarded \/ FailUnguarded \/ DropReference \/ ReportFailure

Next == LeaseRunsOut \/ HealthStep \/ MapStep \/ PlanStep

Spec == Init /\ [][Next]_vars

-----------------------------------------------------------------------------
(* Correctness.                                                            *)

Request == [goal : Nat, epoch : Nat, sequence : Nat]

Snapshot ==
    [generation : Nat, content : Contents \cup {0}, received : Nat]

Reference == [request : Request, map_generation : Nat]

PlannerStatus ==
    [request : Request, generation : Nat,
     state : {"NONE", "ACCEPTED", "READY", "FAILED"}, reason : Reasons]

Minco ==
    [map_ready : BOOLEAN, plan_safe : BOOLEAN,
     minimum_map_generation : Nat, map_health_epoch : Nat,
     next_map_generation : Nat, latest_map_snapshot : Snapshot,
     active_safety_reference : Reference,
     replan_advised : Request, latest : PlannerStatus]

Plan ==
    [at : {"IDLE", "ACCEPTED", "DISARMING", "STARTING", "PLANNING",
           "FAILING", "DROPPING", "FAILED_DISARMING", "REPORTING"},
     request : Request, keep : BOOLEAN, snapshot : Snapshot,
     health_epoch : Nat, reason : Reasons]

Build ==
    [at : {"IDLE", "BUILDING", "JUDGED", "ADVISING"},
     snapshot : Snapshot, health_epoch : Nat, candidate : Reference]

Recheck == [at : {"IDLE", "CHECKING"}, reference : Reference, generation : Nat]

Judgement == [request : Request, snapshot : Snapshot]

(* Type invariant.  The generation counter is the one of the newest        *)
(* snapshot committed, and a snapshot being built is numbered at most one  *)
(* past it.                                                                *)
TypeOK ==
    /\ minco \in Minco
    /\ lease \in BOOLEAN
    /\ planning \in Plan /\ mapping \in Build /\ health \in Recheck
    /\ published \in PlannerStatus
    /\ granted \in Request
    /\ reply \in {"NOTHING", "ACCEPTED", "ANSWERED", "FAILED"}
    /\ judged \in Judgement
    /\ losses \in Nat
    /\ minco.latest_map_snapshot.generation \in {0, minco.next_map_generation}
    /\ mapping.snapshot.generation <= minco.next_map_generation + 1

(* The reference the robot may follow was last found safe on the very map  *)
(* in force, and that map was received after the last time the map was     *)
(* lost, however builds, plans and losses interleave.                      *)
ReferenceJudgedOnItsMap ==
    minco.active_safety_reference # NoReference =>
        /\ judged.request = minco.active_safety_reference.request
        /\ judged.snapshot = minco.latest_map_snapshot
        /\ minco.latest_map_snapshot.generation =
               minco.active_safety_reference.map_generation
        /\ minco.latest_map_snapshot.received = losses

(* Whenever no request is being handled, the request the consumers hold on *)
(* to is the one the runtime recheck watches, unless a later request of    *)
(* the goal has been accepted since.                                       *)
GrantIsGuardedUntilReplan ==
    /\ planning.at = "IDLE"
    /\ granted # NoRequest /\ minco.latest.request = granted
    => minco.active_safety_reference.request = granted /\ minco.plan_safe

(* A request whose acceptance was published is answered before the next    *)
(* one is taken, unless a recheck that outlived it has put the name of an  *)
(* older reference back on the latest status.                              *)
AcceptedRequestsAreAnswered ==
    planning.at = "IDLE" /\ minco.latest.request = planning.request =>
        reply # "ACCEPTED"

(* Why ReferenceJudgedOnItsMap is inductive: the health epoch counts the   *)
(* losses, a snapshot in hand knows the epoch it arrived in, and no two    *)
(* snapshots of one generation reach the planner.                          *)
MapSound ==
    /\ minco.map_health_epoch = losses
    /\ minco.latest_map_snapshot # NoSnapshot =>
           /\ minco.latest_map_snapshot.generation = minco.next_map_generation
           /\ minco.latest_map_snapshot.received = losses

BuildSound ==
    mapping.at \in {"BUILDING", "JUDGED"} =>
        mapping.snapshot.received = mapping.health_epoch

PlanSound ==
    planning.at = "PLANNING" =>
        /\ planning.snapshot.generation <= minco.next_map_generation
        /\ \/ minco.latest_map_snapshot = NoSnapshot
           \/ planning.snapshot = minco.latest_map_snapshot
           \/ planning.snapshot.generation # minco.latest_map_snapshot.generation

JudgementInv == MapSound /\ BuildSound /\ PlanSound /\ ReferenceJudgedOnItsMap

=============================================================================
