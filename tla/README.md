# Formal models of the ATS sentry navigation stack

TLA+ models of the part of the navigation stack that decides whether the robot
may move: which localization and which map a plan rests on, who holds the
authority to execute which trajectory, what revokes it, and what happens when
messages, leases and acknowledgements arrive late, twice or in another order.
TLC checks small instances of seven components; TLAPS proves every safety property
of the passing runs for every value of the constants, two of them under a
hypothesis that section 5 states.

## 1. The system

ROS 2 nodes around one safety rule of the repository's README: when the map, the
localization, a valid reference, the execution authority or a heartbeat is lost,
the result is a deterministic zero velocity.

```
 goal --> goal manager --PlannerGoal--> MINCO planner
              ^   ^                        | PlannerStatus, candidate path
   map status |   | localization           v
   + snapshot |   | status, odometry    goal manager: recheck and commit
              |   |                        | ExecutionCommand, emergency_stop
        map adapter <-- localization       v
         (ROG map)  status  fusion      swerve MPC --/cmd_vel/autonomy--> arbiter --> chassis
                                                        manual /cmd_vel ---^
```

| component | state it keeps | operations | correct when |
|---|---|---|---|
| `ats_cmd_vel_arbiter` | samples of the two sources, execution lease, latched EXECUTE, planner identity, map lease, link lease, grace window | one callback per topic, a timer | no autonomous Twist without a standing EXECUTE; a lost map version stays lost; manual input preempts |
| `ats_goal_manager` | active goal, request and publication numbers, candidate and its status, command in force, lifecycle, watchdog budgets, last value of every input | action and status callbacks, a timer | an EXECUTE is sent only in full health; late answers cannot revive a revoked plan; goals end |
| `ats_swerve_mpc` node | active command, planner identity and retired floor, map and gimbal leases, grace window, fail stop, path, stamp of the last stop | command, status, map, gimbal and stop callbacks, control timer | zero velocity unless every lease holds; an interrupted path is never tracked again |
| `minco_planner` node | map snapshots and generations, health epoch, the reference under guard, record of the latest status, the request in hand | plan, recheck, ingest a map, advise a replan, three callback groups | the guarded reference was found safe on the map in force; accepted requests are answered |
| map adapter (`planning_map_publisher`) | last localization status, request in flight, its job, the worker thread | status callback, projection timer, worker | a published map belongs to one localization; it comes back after an interruption |
| localization fusion | odometry instance tracker, state, loss latch, recovery episode, observation floor, epoch | observation, odometry, monitor and timer callbacks | a usable state rests on evidence newer than the last loss; epochs and identities never go back |
| ROG map (`ats_rog_map`) | identity of the odometry and its lease, the scan in hand, the voxel map with its open batch of rays and its distance field, the odometry layer | status, odometry and cloud callbacks, projections | nothing of an older odometry process is left or comes back; distances are those of the voxels; the map becomes usable for the odometry that stays |
| registration, point_lio, terrain analysis, ESDF, solvers | numerical state | filters and optimisers | numerical; not modelled |
| bringup, interfaces, teleoperation, conversion nodes, vendored drivers | none of their own | launch, messages, transforms | configuration and plumbing |

The components talk through topics. ExecutionCommand, emergency_stop, map_ready,
the localization status and the link state are reliable and transient local with
depth 1, so a late joiner gets the last one again and a slow reader misses those
in between; PlannerStatus has depth 10. Nothing orders messages of different
topics. The hard behaviours are listed with their lines in `PROJECT.json` under
`hazards`: EXECUTE overtaking the release of the stop, candidates overtaking the
status that vouches for them, answers to requests that are no longer awaited,
leases that end between two callbacks, maps that are lost while a plan or a
recheck is under way, projections that finish after the localization they were
asked for, scans decoded while the odometry they come from is replaced,
observations measured before a loss, restarts of the manager and of
the odometry, and deadlines racing recoveries.

## 2. The modules

| module | models | state | properties |
|---|---|---|---|
| `CmdVelArbiter` | class `CmdVelArbiter` and its node | `arb` (the object), `clock`, `published` (what the step put on `/cmd_vel/selected`), history | section 4 |
| `SwerveMpcGate` | `AtsSwerveMpcNode` as a gate | `gate` (its members), `clock`, `polled`, `moving`, history | section 4 |
| `MotionLicence` | abstract promise of both gates | `seen`, `licence`, `moving` | refinement target of both |
| `GoalManager` | `AtsGoalManagerNode` with its lifecycle, commit gate and watchdog decisions | `mgr` (members, last inputs, last outputs), `history` | section 4 |
| `ExecutionAuthority` | abstract promise of the goal manager | `goal`, `issued`, `revoked`, `running` | refinement target |
| `MincoPublication` | `MincoPlannerNode` without its search | `minco` (members under `map_mutex_`), `lease`, the locals `planning`, `mapping`, `health` of its callback groups, `published`, history | section 4 |
| `LocalizationFusion` | `LocalizationFusionNode` with `OdomInstanceTracker` | `fusion` (members), `time`, `status`, `status_stamp`, history | section 4 |
| `LocalizationStream` | what consumers of `/localization/status` may rely on | `status`, `status_stamp` | refinement target; the environment of `LocalizedMap` and `OdometryMap` |
| `PlanningMapAdapter` | `PlanningMapPublisher` and its worker | `adapter`, `queue`, `worker`, `snapshot` | section 4 |
| `LocalizedMap` | the stream and the adapter composed | both, and `taken`, the status the callback holds while it waits for the lock | section 4 |
| `MapSource` | the ROG map node and its engine, without the arithmetic of rays | `source` (identity guard, lease, age of the inputs), `cloud`, `map`, `layer` | section 4 |
| `OdometryMap` | the stream and the ROG map composed | both, and `heard`, the status its callback holds | section 4 |
| `MC...` | the finite input sets and views of the runs | | |
| `...Proofs` | theorems | | section 5 |

**Arbiter.** Each private helper of the class is an operator from arbiter to
arbiter (`RejectExecutionCommand`, `RetirePlannerGeneration`, `Settled`...), each
callback an action; the callbacks share a mutex, so they are atomic.
`onExecutionCommand` is six actions, one per way it can end. `PublishSelection`
is the node's call of `tick`, with the expiries in the code's order. The inputs
are unconstrained: any message of the input sets at any time, which covers loss,
duplication, delay and reordering. Velocities are left out; what is kept is
which source a Twist comes from.

**MPC gate.** The node is spun by one thread. Every callback that decides about
motion is one action, `engageFailStop` with its first-time-only stop stamp and
its clearing of the path is `FailStopped`, and `OnControlTimer` is the control
cycle in the code's order: localization, end of the grace, lapse of the map,
leases, motion. A velocity or zero is a free choice of a cycle that passes (the
odometry, the tracker, the terminal deceleration and the solver decide it). The
clock counts control periods and advances only after a cycle (`polled`), because
the 20 Hz timer runs many times within each lease; a callback may come before or
after the cycle of its period. A reference is named by its header stamp.

**Goal manager.** The node is spun by a single thread, so a callback or a timer
tick is one action. Each is written as an operator from the manager it finds to
the one it leaves, in the order of the code: `Ticked` is `onTick`, made of the
gimbal check, the localization suspension, the recovery, the tracking work and
the watchdog, the ends of a goal and the heartbeat. `mgr.sent` is what the last
step published on the execution topic. There is no clock: a lease is a flag
`fresh` that `Lapse` clears, a deadline is `RUNNING` until it is `ELAPSED`, so
every order of expiries is explored whatever the durations. MINCO, the gimbal,
the adapter and the fusion are the environment: answers to any request ever made,
in any order, repeated or missing; statuses with any epoch and publication that
does not go back. `FaultKinds` lists what may go wrong; a run takes the faults that
meet in the same guards. `RESTART` (publications that go back) and `GIMBAL` (an
unsound gimbal, which its guard does not tell from a silent one) are in no run.

Left out of `GoalManager`, and why it does not weaken the properties:
topic goals (as action goals, without a result); `require_map_status` FALSE and
`require_accepted_localization` TRUE, which no configuration ships; the escape
from a blocked pose and the contact hold, both disabled in every configuration;
the snapshot's readiness flag and its validity are one flag; the gimbal's
transform health and lock are one flag and the feedback-sequence minimum is left
out (it only makes acknowledgements rarer); the watchdog's distances and times
are nondeterministic verdicts (`Sightings`). MINCO's answer carries the
publication and epoch of the request, which `minco_planner_node.cpp` does.

**MINCO publication.** The node runs on a multi-threaded executor with three
mutually exclusive callback groups that share members under `map_mutex_` and work
on copies between. So an action is one locked section, and the program counters
`planning.at`, `mapping.at` and `health.at` carry each group from one to the
next: a request goes ACCEPTED, DISARMING (the guarded reference dropped, then
`plan_safe` cleared in a section of its own), STARTING, PLANNING, and commits or
fails through up to three more sections; a snapshot is built, judged and
committed in three; a recheck in two. `Recorded` is `PlannerStatusState::update`,
which drops what it takes for outdated, and `Publish` the status that goes out or
is swallowed with it. A plan may fail or succeed and a footprint check may say
anything. `published` is the wire: an acceptance goes out without a generation
while the record holds it under the one in force. The retention of a safe
reference and the replan advice are on; they default to off, and off is the
special case in which `Retains` and `Advises` never hold.

**Localization fusion.** All callbacks run under one mutex and in one group, so
each is an action. `Verdict`/`Observed` are `OdomInstanceTracker::observe`,
`Health` is `updateHealthLocked`, which most callbacks run before or after their
own work, `EnterLost` and `Rejected` are the functions of those names. Deadlines
of the steady clock (odometry silence, the observation lease, the hold, the
recovery episode) are flags the environment turns in any order; the ROS clock,
`time`, is explicit because observations are compared by stamp. An accepted
observation asks for one of four sizes of correction, which decides between
refusal, smoothing and a new epoch. The configuration is `use_identified_odometry`
with an initial transform and without continuous corrections.

**Map adapter.** The status callback, the timer and the completion of a job hold
`state_mutex_` and are atomic; the worker computes without it and gives up
`worker_busy_` before it asks for the lock again (`Project`, then
`CompleteProjection`), so that the timer may queue a new job in between. The ROG
map's answer names the odometry it was made for: the one asked, another, or none
at all. The configuration requires the localization status and the odometry
identity, with `mapping_mode` off. `LocalizedMap` puts `LocalizationStream` in
front of it instead of the fusion itself: what holds there holds for every fusion
that implements the stream, and the proof that `LocalizationFusion` does is in
section 5.

**ROG map.** Scans of two odometry processes are measured in different frames and
must not meet in one map. So of the voxels, the rays and the layer the model keeps
the set of odometry processes whose scans are in them. The status callback, the odometry callback, a projection and both
ends of the cloud callback hold `epoch_mutex_`; a scan is decoded between the two
ends without it (`cloud.at`), while a status may change or revoke the process.
`Guarded` is `OdomEpochGuard::update`. `Cast` and `Slid` are the two ways
`RogMapEngine::update` changes the map: rays wait in a batch until it is full, and
the engine concludes from the update index whether the voxel map has just
rebuilt the distance field (`CoreRebuiltEsdf`); `of_voxels` is the history variable
that knows the truth. A slide may drop any voxels. `OdometryMap` composes it with
`LocalizationStream`, as `LocalizedMap` does the adapter. Two assumptions are the
stream's and the sensor's: odometry processes run one after another and are
numbered by their start, and one clock stamps their scans, so that a stamp is
before or after the start the fusion reports. The configuration is
`require_odom_identity` without the test fixtures. The adapter and the ROG map on
one stream are beyond a run of TLC; the end-to-end argument is in two parts: the
adapter publishes only what was projected for the odometry it asked about
(`SnapshotOfOneLocalization`), and the ROG map answers for that odometry from
nothing older (`NoOlderProcess`, `Answers`).

## 3. Abstract specifications

- `ExecutionAuthority` says what the goal manager promises whatever its inputs:
  the running request was issued after the last break, a replacement only moves
  to a later request, and a break revokes all requests issued so far.
  `GoalManager` instantiates it with `running` read off the lifecycle, the fail
  stop and the command in force (`ImplementsAuthority`).
- `MotionLicence` says what both gates promise: the robot moves only under a
  licence, licences follow the managers' command order, the first command
  honoured from a new manager is a STOP, and a revocation stops the robot in the
  same step. The arbiter and the MPC keep the same identities in different ways
  (a retired flag against a retired floor, a latch against none, opposite orders
  of checks); that both implement one specification (`ImplementsLicence` of each)
  is the agreement asked of them. Neither relies on the other.
- `LocalizationStream` says what consumers of the localization status may rely
  on: stamps grow, epochs and identities never go back, an odometry instance is
  replaced through LOST with a new epoch, a conflict of identities is never taken
  back, a state that allows planning has a transform. `LocalizationFusion`
  implements it; `LocalizedMap` and `OdometryMap` use it.

## 4. What TLC checks

All runs check deadlock too: some callback can always run. States are distinct
states; times are of a run with two workers and coverage, rounded.

| run | properties | instance | states, time |
|---|---|---|---|
| `ArbiterSources` | `TypeOK`, `MotionRestsOnLiveInputs`, `ManualPreempts`, `LostGenerationStaysLost` | operator and supervised serial link, all verdicts, 2 status stamps, commands late, invalid or stamped in the future, clock to 2 | 366 k, 2 to 3 min |
| `ArbiterRestart` | `AutoNeedsStandingGrant`, `AutoFollowsPlanner`, `NoReplayedGrant`, `ImplementsLicence` | 2 manager incarnations, 2 commands of each, 3 map versions, grace of 1, execution lease of 2, clock to 2 | 161 k, 2 to 3 min |
| `ManagerLeases` | `ExecuteInFullHealth`, `ImplementsAuthority` | localization and map fall ill or silent, 2 epochs, the goal's transform comes and goes | 325 k, 47 s |
| `ManagerReplan` | `TypeOK`, `CondemnedMapStaysDead`, `ReleaseIsBacked` | 2 publications, invalid or late snapshots, lost odometry, unsafe poses, stalls | 322 k, 52 s |
| `ManagerGimbal` | `ExecuteInFullHealth` | 2 yaw authorities, 2 yaw requests, lease losses, drift, the time without a plan | 220 k, 1 to 3 min |
| `ManagerEnds` | `AcceptedCancelCompletes`, `DeadlineEndsGoal` | 2 goals, cancel, deadlines, unready map, the goal's transform comes and goes; `FairSpec` | 96 k, 2 to 3 min |
| `MpcGate` | `TypeOK`, `MotionRestsOnLiveInputs`, `ImplementsLicence`, `InterruptedPathStaysDead`, `LostGenerationStaysLost`, `GraceIsBounded` | 3 commands, 2 map versions, 2 status stamps, paths of this period or the one before, a gimbal, clock to 2 | 289 k, 60 s |
| `Minco` | `TypeOK`, `ReferenceJudgedOnItsMap`, `GrantIsGuardedUntilReplan`, `AcceptedRequestsAreAnswered` | 2 goals of 2 requests, 2 epochs, 3 map generations of 2 contents, 1 loss | 2.58 M, 150 s |
| `Localization` | `TypeOK`, `UsableRestsOnFreshEvidence`, `OneRecoveryPerLoss`, `ImplementsStream` | 3 odometry instances, 2 initial samples, 1 retired sample tolerated, clock to 3, 4 epochs | 174 k, under 1 min |
| `LocalizedMap` | `TypeOK`, `SnapshotOfOneLocalization`, `PendingRequestIsServed`, `ReadyFollowsLocalization`, `MapComesBack` | 2 odometry instances, 2 epochs, unbounded stamps and requests; `FairSystemSpec` | 113 k, 1 to 2 min |
| `OdometryMap` | `TypeOK`, `NoOlderProcess`, `DistancesOfTheseVoxels`, `RevokedIdentityFreezesTheMap`, `MapBecomesUsable` | 2 odometry processes, 2 epochs, unbounded stamps and revisions, batches of 2, distance field every 2 updates; `FairSystemSpec` | 116 k, 1 to 2 min |
| `ManagerLateCandidate` | `LateCandidateStaysDead` (violated) | see below | |

Why the bounds suffice for the cases in question: a replay needs one earlier
command, an overtaken STOP two, a takeover two incarnations; the grace window is
stretched by a third map version and not by a second; a lease of one tick has
its three ages (fresh, at the limit, over) within two ticks. `ArbiterRestart` has an
execution lease of two, because a superseded authority must outlive its grace to
show that the grace ends it; the lease itself runs out in `ArbiterSources`. A manager's
replacement needs two requests, and so does a late answer; a mode switch two yaw
authorities; a condemned publication and its successor two publications. In
MINCO a retained reference needs a second map, a dropped one after it a third,
and a build under way during a loss needs one loss. In the fusion, a restart
during a restart needs three odometry instances, and stamps before, at and after
a loss three ticks. In the ROG map, a scan of an older process needs two
processes, an open batch two frames, and the guess about the distance field an
interval of two. `MpcGate` has one localization epoch and one manager; a
second of either multiplies the states beyond the time of a run, and the proofs of
section 5 cover any number.

The caps `MaxGoals`, `MaxRequests`, `MaxYawRequests`, `MaxPublications`,
`MaxEpochs` (manager), `MaxTime` (arbiter, MPC, fusion), `MaxGenerations`,
`MaxLosses` (MINCO) and `MaxEpochs` (fusion, stream and ROG map) are in the guards: beyond
them the callback that would exceed the cap does not happen, and what is checked is
every behaviour up to it. In `ManagerEnds` the cap on requests can make a tick
impossible; as the properties there are about ticks that end a goal, which issue
no request, the cap is not what makes them hold.

*Views.* Six runs give TLC a view (`Distinguished` in the MC modules) that
merges states differing only in what no step and no property reads: in
both arbiter runs and `MpcGate` stamps of samples and leases that are not in
force, and of stops older than every path that may still come; in `Localization`
the stamp of the last status, which the next only has to exceed; in
`LocalizedMap` the absolute values of stamps and request numbers, which are only
compared, with the comparisons kept; in `OdometryMap` likewise the stamps of the
statuses and whether a captured revision is the present one. Two states of one view
have the same steps up to the view and agree on the properties, `MapComesBack`,
`MapBecomesUsable` and their fairness included, so merging them is sound for
invariants and for liveness.

*Fairness.* `FairSpec` of the manager is used by `ManagerEnds` only: strong fairness
of the timer finding the goal's transform. The timer is a ROS wall timer in the
node's only thread, so it fires for ever; that it does not fire for ever in the
gaps of a transform that comes and goes is an assumption on the transforms, and
the properties speak of behaviours in which the transform is back again and again.
No deadline and no wait is assumed to run out, so it is the cancel that ends a
canceled goal. Nothing is assumed of MINCO, the adapter, the gimbal or the
localization, and none of the leases is assumed to hold. `FairSystemSpec`
of `LocalizedMap` assumes weak fairness of the adapter's timer making a request
it can make, of the worker taking a job and completing it (a thread of its own),
and strong fairness of the ROG map answering for the odometry it is asked about
and of such a projection being fused: without these the map may of course never
come back. It assumes nothing of the localization: `MapComesBack` speaks of
behaviours in which it stays usable. `FairSystemSpec` of `OdometryMap` assumes weak
fairness of the status callback and of the second end of the cloud callback when
it discards a scan, which the executor serves, and of the world strong fairness:
the process the map follows is heard and scanned again, and one of those scans
gets its transforms, is decoded and changes the map. `MapBecomesUsable` speaks of
behaviours in which the localization settles on an odometry, its identity keeps
being confirmed and the inputs come within their timeouts from some moment on.

Each property of a passing run has a mutant in `PROJECT.json`: an operator next to
the one it replaces, changed as a plausible bug would, under which TLC finds the
property violated.

### Where the code departs from what its comments and documents say

One run ends in a violation, of a property taken from a document. It needs no
message that the other nodes do not send.

- `ManagerLateCandidate`: the timer's localization suspension
  (`ats_goal_manager_node.cpp:1373`) leaves the execution command set. That stale
  command turns a READY of another yaw authority into a protected mode switch
  (line 732), which moves the waiting goal on to PLANNING without a request; the
  candidate, planned before the localization was lost, is executed. The design
  document (`求解器.md:719`) says a late candidate may only be recorded and rejected.

Others were met while modelling. They follow from the lines named here; the
models contain the behaviour and the properties are stated so as to hold in
spite of it:

- Arbiter, `cmd_vel_arbiter.hpp:163`: while the emergency stop is active, `tick`
  returns before it expires the map lease; a READY of a new generation then ties
  the lapsed lease to that generation, and the heartbeat that ends the lapse
  retires it, although the comment at lines 160-162 says a newer generation must
  not be retired by the recovery pulse. It stays retired until MINCO makes another.
- Goal manager, line 1319: without the goal's transform the timer returns before it
  looks at a cancel, whose result the comment at 402-403 leaves to the timer. So
  `AcceptedCancelCompletes` and `DeadlineEndsGoal` speak of behaviours in which the
  transform is back again and again.
- Goal manager, line 691: after the localization suspension, a replacement's failure
  that arrives as ACCEPTED is dropped because of the stale command, and the goal
  waits in PLANNING for an answer it was already given; the comment at 697-699
  says this path must not wait indefinitely.
- MPC, `ats_swerve_mpc_node.cpp:1848`: the stop stamp is recorded only by the stop
  that engages. A second stop while the first is engaged does not move it, so a
  reference made between the two passes `installPath`, where the design document
  (`求解器.md:551` and `:555`) has every stop raise the bar. `InterruptedPathStaysDead`
  is therefore about references that were tracked when the stop fell.
- MINCO, `minco_planner_node.cpp:1440`: a runtime recheck that condemns the
  reference after a newer request of its goal was accepted records a status that is
  dropped as outdated, so the FAILED is not published. Conversely a recheck of
  another goal's reference can put the older request back on the record, after
  which the failure of the new one is dropped. `GrantIsGuardedUntilReplan` and
  `AcceptedRequestsAreAnswered` exclude exactly these cases by name.
- MINCO, line 2603: a plan that fails without a map is stamped with the generation
  in force when the failure is published, which may be newer than the attempt.
- Fusion: a seeded node that has never accepted an observation may go from
  BOOTSTRAP to DEGRADED, which both consumers allow planning on because "map-odom
  still held" (`planning_map_publisher.cpp:305`) after "soft quality loss"
  (`ats_goal_manager_node.cpp:894-895`). `UsableRestsOnFreshEvidence` names this
  exception.

## 5. What is proved

Eight proof modules, for every value of the constants their assumptions admit.
The assumptions say that parameters and identities are natural numbers (or
subsets of them); timeouts and graces may be 0, input sets may be empty or
infinite unless stated. Bounds on counters are constants like the others.

| module | theorem | property |
|---|---|---|
| `CmdVelArbiterProofs` | `TypeCorrect`, `AuthorityInvariant`, `StandingGrant`, `NoReplay`, `ArbiterImplementsLicence`, `LiveInputs`, `ManualFirst`, `FollowsPlanner`, `LostStaysLost` | `TypeOK`, `AuthorityInv`, `AutoNeedsStandingGrant`, `NoReplayedGrant`, `ImplementsLicence`, `MotionRestsOnLiveInputs`, `ManualPreempts`, `AutoFollowsPlanner`, `LostGenerationStaysLost` |
| `GoalManagerProofs` | `TypeCorrect`, `FullHealth`, `ReleaseBacked` | `TypeOK`, `ExecuteInFullHealth`, `ReleaseIsBacked` |
| `GoalManagerAuthorityProofs` | `CondemnedStaysDead`, `ManagerImplementsAuthority` | `CondemnedMapStaysDead`, `ImplementsAuthority` |
| `SwerveMpcGateProofs` | `TypeCorrect`, `LiveInputs`, `GraceBound`, `InterruptedStaysDead`, `LostStaysLost`, `GateImplementsLicence` | `TypeOK`, `MotionRestsOnLiveInputs`, `GraceIsBounded`, `InterruptedPathStaysDead`, `LostGenerationStaysLost`, `ImplementsLicence` |
| `MincoPublicationProofs` | `TypeCorrect`, `JudgementHolds`, `Judged`, `GrantGuarded`, `RequestsAnswered` | `TypeOK`, `JudgementInv`, `ReferenceJudgedOnItsMap`, `GrantIsGuardedUntilReplan`, `AcceptedRequestsAreAnswered` |
| `LocalizationFusionProofs` | `TypeCorrect`, `FreshEvidence`, `OneRecovery`, `FusionImplementsStream` | `TypeOK`, `UsableRestsOnFreshEvidence`, `OneRecoveryPerLoss`, `ImplementsStream` |
| `LocalizedMapProofs` | `TypeCorrect`, `OneLocalization`, `PendingServed`, `ReadyFollows` | `TypeOK`, `SnapshotOfOneLocalization`, `PendingRequestIsServed`, `ReadyFollowsLocalization` |
| `OdometryMapProofs` | `TypeCorrect`, `NoOlder`, `DistancesCurrent`, `RevokedFreezes` | `TypeOK`, `NoOlderProcess`, `DistancesOfTheseVoxels`, `RevokedIdentityFreezesTheMap` |

The two theorems of `GoalManagerAuthorityProofs` have a hypothesis each, given
below with the reason.

`AuthorityInv` and `JudgementInv` are inductive invariants, stated beside the
properties they support; no run repeats them.

All proofs have the same layout: lemmas on what each operator of the model keeps
of a state; an inductive invariant with one lemma per action; `Invariance` by PTL;
and the theorems as its consequences. Why the invariants are needed:

*Arbiter.* A planner failure or a rejected command withdraws an EXECUTE in force but
not one that is only latched (`rejectExecutionCommand` keeps the latch): after a READY
of the same map version it authorizes when the stop clears, and the property admits it.
`AutoNeedsStandingGrant` speaks of the moment a Twist is published, but
the authority may have been acquired long before, and a latched EXECUTE becomes
one only when the emergency stop clears. `AuthorityInv` says what must hold all
the while: an authority in force is backed by a live grant of the planner's
epoch while the map lease lasts; a latched EXECUTE that names the identity in
force is backed too unless that identity was retired, and otherwise can never be
used again because identities only grow; a usable generation is not retired and
holds the map lease; and the last STOP never outranks the last command consumed.
`Settled` expires the leases in the order that makes the grace and the map lease
end before the choice is made.

Three more invariants stand on this one, and with them every property of the
arbiter is proved. `OrderInv` says that neither the grant nor the STOP on record
is younger than the last command consumed, which gives `NoReplayedGrant` and the
refinement of the licence. `SourceInv` ties each stamp the arbiter stores to the
moment the input was really heard: a sample held is the last one since the last
stop or link loss, and one that is not held is stale, which is what
`ManualPreempts` needs. `PlanInv` follows the map version: an authority without
a grace names the planner's version and was never superseded; a grace
counts from the first supersession; the version in force at a loss of the map is
retired for as long as the planner stays at it, and so is the version of a grant
whose map lease lapsed in silence, which the arbiter may notice
before the heartbeat that reveals the gap. All helpers that expire or revoke
something are instances of one relation, `Expired`, so that the three proofs
have one lemma per helper and not three.

*Goal manager.* A callback is a composition of operators on the manager's record,
so the invariant is one of a record in the middle of a callback, `Sound`, and every
operator has a lemma that it keeps it. `Backed`: the fail stop is set or the goal
is tracked under a command. `Commanded`: a command names the active goal, its
epoch and the request committed last. `Numbered`: requests are numbered in the
order they are made and an answer identifies its request. `Staged`: a goal exists
exactly outside IDLE, and a tracked goal waits for no publication. An EXECUTE
leaves by two ways. At the commit its gates were checked on the same record.
At the heartbeat nothing was checked in that operator: `ActedSound` shows that a
tick which leaves the goal tracked changed none of the inputs, the command or
the pending yaw request since the checks that opened it (`Driven`), which gives
`FullHealth`. `Wide` is the type without the bound on requests, which is applied
when a callback ends.

Two properties relate what is executed to the past, and their proofs add what must
hold while nothing is executed. For `CondemnedMapStaysDead`, with `c` the newest
publication on which a plan of the goal was found unsafe, `Past` says that the goal
still waits for a publication after `c`, or that the map and the snapshot in hand
are after `c`, and that the command in force rests on a later one; `Awaited` says
the same of the answer the goal waits for. Maps and snapshots are only replaced by
later ones (`Ahead`) as long as the adapter does not restart, which is the
theorem's hypothesis: the numbers of a restarted adapter start again
(`ats_goal_manager_node.cpp:1974`). The refinement shows that each callback is
`Held`, `Asked`, `Renewed`, `Granted`, `Ended` or `Begun`, and `Barred` that a request
up to the last break is neither executed nor awaited. It needs `Steady`: a goal that
waits has no command. The one way to break that is an interruption of the
localization while a change of the yaw mode is pending, so the theorem assumes
`Cautious`: one yaw authority, or no localization required. Without it the
refinement is false: `ManagerLateCandidate` shows how.

*MPC gate.* A lost map version is known to the model when the lease lapses, to the
gate only at its next callback. `IInv` therefore says of every lost identity that
it is older than the planner's, or retired by the floor, or is the one whose lapse
the gate is about to notice (the lease bound to `lease_generation`): `MapHistory`. No
interrupted path is younger than the last recorded stop (`MotionHistory`), which
with the tracked path being younger than that stop gives `InterruptedPathStaysDead`.
`GraceHistory` ties the grace deadline to the moment of the first supersession.
`Sound` collects the facts between callbacks, `Weak` what remains of them in the
middle of one. The refinement needs `IInv` too: motion is a licence only because
the leases of `MotionRestsOnLiveInputs` were checked in the same step.

*MINCO.* The commit of a retained reference compares the reference, the generation
and the health epoch with what the judgement was made on. That these comparisons
are enough needs three facts: the health epoch counts the losses, a snapshot in
hand knows the epoch it arrived in (`BuildSound`), and a plan's snapshot is the one
in force or of another generation (`PlanSound`), because every commit takes a new
number.

What MINCO announces rests on a second invariant, `Announced`. A status is dropped
when the record names a later request of the goal, a later generation or a later
epoch; a dropped answer would leave the consumers with a reference nobody
watches, or a goal without an answer. `InOrder` says that no request anyone knows
of (in the record, under guard, in the recheck, granted) is later than the one
handled last, and `RecordSound` that no status and no plan names a map that has not
come yet, so that what is said of the newest request on the newest map is never
outdated. `GrantSound` follows the granted request: while its READY is the latest
status no plan is under way, its reference is under guard, on the same map or
a later one, and `plan_safe` is set. `AnswerSound` follows an acceptance: until it is
answered, it is the latest status or the record names another request, and the
plan's map is not older than the record's, which is why the answer is not dropped.

*Fusion.* `Health` runs in the middle of most callbacks, on a state that is not
published. `Loosely` is what holds on entry to it, `Soundly` what it establishes:
among others a loss latch means LOST or RELOCALIZING, a recovery runs only with
odometry, TRACKING and CONFIRMED have an accepted observation, and a tracker that
has latched a conflict stays LOST. `Evolves` says what one pass may change. The
floor is the time of the loss, which gives `UsableRestsOnFreshEvidence`; a
closed episode gives `OneRecoveryPerLoss`; and the refinement maps each published
status to a step of the stream, using that a replaced instance is LOST in the
very status that first names it.

*Adapter.* The proof is of the composition: a ready snapshot or a pending job that
is still awaited is intact (`Served`, `Published`) because every interruption
fences the request off, which works only while the request pending is the last
one made (`TypeOK`). That a status skipped between two handled ones cannot hide a
change needs the stream: `Follows` is transitive in the sense that equal epochs
and equal odometry numbers at both ends leave nothing in between.

*ROG map.* `NoOlderProcess` needs that no stamp of an older process passes the guard:
the floor is the start of the process followed (`source.start`), a scan in hand has
a stamp of some process, and the second end of the cloud callback checks the floor
again under the lock, so what it commits is not older than the process of that
moment. Identities only grow in the guard itself (`Guarded` refuses a smaller
one), and the step that takes a new one empties voxels, rays and layer, so no fact
about the stream beyond its types is needed. `Sound` says of the engine's map what
each of its operations keeps: the batch is empty exactly when no frame is
counted, and distances taken for current are those of the voxels. Only `Cast` may
claim that without recomputing them, and its claim holds because the index it
reads is the one `updateProbMap` rebuilt at. While the identity is invalid the floor
check fails whatever the stamp, which gives `RevokedIdentityFreezesTheMap`.

Model-checked only: the liveness properties `MapComesBack`, `MapBecomesUsable`,
`AcceptedCancelCompletes` and `DeadlineEndsGoal`, because liveness under
fairness and anything that needs ENABLED are beyond the prover. So are
proofs by induction over data and modules with RECURSIVE operators; no module here
declares one.

## 6. What is not modelled

- Numerical code: registration, filtering, the arithmetic of the voxel map (which
  cell a ray hits, its probability, the indices of the sliding window), the clearing
  around the sensor at the first frame, the ESDF, trajectory
  search and optimisation (`planGoal` between capture and commit), the solvers.
  Its verdicts (a pose is safe, a plan was found, a correction was accepted, a
  projection could be fused) are nondeterministic inputs.
- Restarts of MINCO, of the map adapter and of the fusion node. Their counters live
  in memory, and consumers that order identities ignore the new ones until the
  epoch moves or the counters pass the old values; the hazards at
  `cmd_vel_arbiter.hpp:107`, `ats_goal_manager_node.cpp:1974` and
  `localization_fusion_node.cpp:228` record it. Restarts of the goal manager
  (`ArbiterRestart`) and of the odometry (`Localization`) are modelled.
- The transform next to the localization status: a new epoch is named at once, its
  transform follows with the next 100 ms timer, and the adapter may fall back to
  the latest transform within 0.1 s (`planning_map_publisher.cpp:776`). Ages of
  transforms are not in the models.
- The fusion without identified odometry (the shipped default), without an initial
  transform, or with continuous corrections; the adapter in `mapping_mode` or
  without the odometry identity, the ROG map without it, with its test fixtures, or
  saving the map; MINCO requests with goal or sequence 0, which it
  refuses at once; the watchdog's arithmetic (its verdicts are inputs).
- Launch files, message definitions, stateless conversion nodes and vendored
  drivers have no state of their own. `PROJECT.json` gives the reason for each
  component.

## 7. Plan

Done, in this order: the arbiter (the last gate before the chassis) and its proof,
the execution authority, the goal manager (the only source of authority), the
MPC gate and the licence both gates implement, MINCO's publication, the
localization fusion and its stream, the map adapter and the ROG map on that stream,
and the proofs of section 5: every safety property of the passing runs.

Left, by value:

1. The composition of `GoalManager` with `MincoPublication`: whether the
   reference in execution is the one MINCO guards when the manager, not MINCO,
   asks for the replacement.
2. The watchdog's budgets with time, and whether the no-executable-plan limit is
   reached under a map that changes faster than it can be planned on.
3. The indices of the ROG map's sliding window: that its four layers (probability,
   counters, inflation, distances) forget the same cells when it moves.
4. The safety part of the goal manager's ends (a tick that finds the deadline
   passed ends the goal) as a theorem of its own beside the liveness runs.
5. Restarts of MINCO, the adapter and the fusion, once it is decided how
   consumers are to learn of them.
