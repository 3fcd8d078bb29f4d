-------------------------- MODULE LocalizationFusion --------------------------
(***************************************************************************)
(* The localization fusion node (small_gicp_relocalization): it joins the  *)
(* odometry of one identified process with the observations of the         *)
(* relocalization, decides the localization state, and owns the map->odom  *)
(* transform and its epoch.  Every callback runs under mutex_ and in the   *)
(* node's one callback group, so each action below is a whole callback.    *)
(*                                                                         *)
(* The configuration is use_identified_odometry with an initial map->odom  *)
(* transform and without continuous corrections.  Poses are left out: an   *)
(* observation may or may not pass the quality gates, and the correction   *)
(* it asks for has one of four sizes.  Deadlines of the steady clock are   *)
(* flags the environment turns; time is the ROS clock of the stamps.       *)
(***************************************************************************)
EXTENDS Integers

CONSTANTS
    Instances,          \* the odometry processes, by start time
    InitialSamples,     \* identity_initial_samples
    RetiredLimit,       \* identity_retired_limit
    MaxRejections,      \* max_consecutive_rejections
    MaxTime, MaxEpochs  \* bounds of the ROS clock and of the map epoch

ASSUME FusionAssumption ==
    /\ Instances \subseteq Nat \ {0}
    /\ InitialSamples \in Nat \ {0} /\ RetiredLimit \in Nat
    /\ MaxRejections \in Nat \ {0}
    /\ MaxTime \in Nat \ {0} /\ MaxEpochs \in Nat \ {0}

VARIABLES
    fusion,         \* the members of the node
    time,           \* now()
    status,         \* the last status published
    status_stamp,   \* its stamp, last_status_stamp_ns_
    evidence,       \* history: the observation accepted last
    lost_since,     \* history: when the state last became LOST
    exhausted       \* history: an episode of recovery failed since then

history == <<evidence, lost_since, exhausted>>
vars == <<fusion, time, status, status_stamp, history>>

Stream == INSTANCE LocalizationStream

-----------------------------------------------------------------------------
(* OdomInstanceTracker.  samples and pending serve only until the first    *)
(* instance is adopted.                                                    *)

NoTracker ==
    [instance |-> 0, epoch |-> 0, pending |-> 0, samples |-> 0, retired |-> 0,
     latched |-> FALSE]

Outlived(t, instance) ==
    instance < (IF t.instance # 0 THEN t.instance ELSE t.pending)

SamplesOf(t, instance) == IF instance = t.pending THEN t.samples + 1 ELSE 1

(* Mutant: one more retired sample than the limit is tolerated.            *)
VerdictOffByOne(t, instance, fresh, kept) ==
    IF t.latched THEN "LATCHED"
    ELSE IF instance = 0 THEN "INVALID"
    ELSE IF Outlived(t, instance) THEN IF kept > RetiredLimit THEN "LATCHED" ELSE "RETIRED"
    ELSE IF ~fresh THEN "INVALID"
    ELSE IF t.instance = 0
    THEN IF SamplesOf(t, instance) < InitialSamples THEN "PENDING" ELSE "FIRST"
    ELSE IF instance = t.instance THEN "UNCHANGED" ELSE "CHANGED"

(* kept is how many retired samples the one-second window still holds.     *)
Verdict(t, instance, fresh, kept) ==
    IF t.latched THEN "LATCHED"
    ELSE IF instance = 0 THEN "INVALID"
    ELSE IF Outlived(t, instance) THEN IF kept + 1 > RetiredLimit THEN "LATCHED" ELSE "RETIRED"
    ELSE IF ~fresh THEN "INVALID"
    ELSE IF t.instance = 0
    THEN IF SamplesOf(t, instance) < InitialSamples THEN "PENDING" ELSE "FIRST"
    ELSE IF instance = t.instance THEN "UNCHANGED" ELSE "CHANGED"

Adopted(t, instance) ==
    [t EXCEPT !.instance = instance, !.epoch = @ + 1, !.pending = 0, !.samples = 0]

(* observe: the tracker after a sample of instance with this verdict.      *)
Observed(t, instance, kept, verdict) ==
    CASE verdict \in {"FIRST", "CHANGED"} -> Adopted(t, instance)
      [] verdict = "PENDING" ->
             [t EXCEPT !.pending = instance, !.samples = SamplesOf(t, instance)]
      [] verdict = "INVALID" -> [t EXCEPT !.samples = 0]
      [] verdict = "RETIRED" -> [t EXCEPT !.retired = kept + 1, !.samples = 0]
      [] verdict = "LATCHED" -> [t EXCEPT !.latched = TRUE, !.samples = 0]
      [] OTHER -> t

-----------------------------------------------------------------------------
(* The health of the localization.                                         *)

InitialFusion ==
    [tracker |-> NoTracker,
     odom |-> "NONE",               \* latest odometry: NONE, FRESH, SILENT
     late |-> FALSE,                \* odom_timeout_s_ since the start
     silence |-> "FRESH",           \* observationSilenceLocked: FRESH, STALE, LOST
     input |-> 0,                   \* last_input_observation_stamp_
     floor |-> 0,                   \* recovery_observation_floor_
     hold |-> "NONE",               \* relocalizing_until_: NONE, RUNNING, OVER
     recovery |-> "NONE",           \* recovery_until_: NONE, RUNNING, OVER
     recovery_episode_closed |-> FALSE,
     lost_latched |-> FALSE,
     has_map_to_odom |-> TRUE,
     has_accepted_observation |-> FALSE,
     epoch |-> 1,
     rejections |-> 0,              \* consecutive_rejections_, up to the limit
     state |-> "UNINITIALIZED"]     \* status_

(* Mutant: the loss sets no floor for the observations of the recovery.    *)
LostWithoutFloor(f) ==
    [f EXCEPT !.recovery_episode_closed = @ \/ f.recovery # "NONE",
              !.lost_latched = TRUE, !.recovery = "NONE", !.hold = "NONE",
              !.state = "LOST"]

(* Mutant: a failed recovery does not close its episode.                   *)
LostWithEpisodeOpen(f) ==
    [f EXCEPT !.floor = IF f.lost_latched /\ f.recovery = "NONE" THEN @ ELSE time,
              !.lost_latched = TRUE, !.recovery = "NONE", !.hold = "NONE",
              !.state = "LOST"]

(* enterLostLocked: a lost node accepts only what is measured from now on. *)
EnterLost(f) ==
    [f EXCEPT !.recovery_episode_closed = @ \/ f.recovery # "NONE",
              !.floor = IF f.lost_latched /\ f.recovery = "NONE" THEN @ ELSE time,
              !.lost_latched = TRUE, !.recovery = "NONE", !.hold = "NONE",
              !.state = "LOST"]

(* What loses the localization by itself: silent odometry, an episode of   *)
(* recovery that ran out, or no accepted observation for too long.         *)
Lapsed(f) ==
    CASE f.odom = "NONE" -> f.late
      [] f.odom = "SILENT" -> TRUE
      [] f.odom = "FRESH" ->
             f.recovery = "OVER" \/ (~f.lost_latched /\ f.silence = "LOST")

Unsound(f) ==
    f.state = "DEGRADED" \/ f.silence # "FRESH" \/ f.rejections = MaxRejections

StateOf(f) ==
    IF f.odom = "NONE" THEN IF f.lost_latched THEN f.state ELSE "UNINITIALIZED"
    ELSE IF f.recovery # "NONE" THEN "RELOCALIZING"
    ELSE IF f.lost_latched THEN "LOST"
    ELSE IF Unsound(f) THEN "DEGRADED"
    ELSE IF ~f.has_accepted_observation THEN "BOOTSTRAP"
    ELSE IF f.hold = "RUNNING" THEN "CONFIRMED" ELSE "TRACKING"

(* updateHealthLocked.                                                     *)
Health(f) ==
    LET state == StateOf(f)
    IN  IF Lapsed(f) THEN EnterLost(f)
        ELSE [f EXCEPT !.state = state,
                       !.hold = IF state \in {"DEGRADED", "TRACKING"} THEN "NONE"
                                ELSE @]

(* recordRejectionLocked: a rejection ends an episode of recovery.         *)
Rejected(f) ==
    LET counted == [f EXCEPT !.rejections = IF @ < MaxRejections THEN @ + 1 ELSE @]
    IN  IF f.recovery # "NONE" THEN EnterLost(counted) ELSE Health(counted)

(* publishStatusLocked: two statuses never carry the same stamp.           *)
StampFor(f) == IF time > status_stamp THEN time ELSE status_stamp + 1

(* What the step that ends in f says of the losses; an accepted            *)
(* observation takes back that a recovery has failed.                      *)
Recorded(f) ==
    LET loses == f.state = "LOST" /\ fusion.state # "LOST"
    IN  /\ lost_since' = IF loses THEN time ELSE lost_since
        /\ exhausted' = IF loses /\ fusion.state = "RELOCALIZING" THEN TRUE
                        ELSE exhausted /\ (f.lost_latched \/ ~fusion.lost_latched)

(* Publish the status of f, and stay in f.                                 *)
Published(f) ==
    /\ fusion' = f
    /\ status' = [state |-> f.state, epoch |-> f.epoch,
                  instance |-> f.tracker.instance, odom_epoch |-> f.tracker.epoch,
                  latched |-> f.tracker.latched,
                  map_to_odom_valid |-> f.has_map_to_odom]
    /\ status_stamp' = StampFor(f)
    /\ Recorded(f)

Unpublished(f) ==
    /\ fusion' = f
    /\ UNCHANGED <<status, status_stamp>>
    /\ Recorded(f)

-----------------------------------------------------------------------------
(* Odometry.                                                               *)

(* A new odometry process: nothing measured against the old one remains.   *)
Replaced(f) ==
    EnterLost([f EXCEPT !.odom = "NONE", !.input = 0, !.silence = "FRESH",
                        !.has_map_to_odom = FALSE,
                        !.has_accepted_observation = FALSE,
                        !.epoch = @ + 1])

Tracked(f, tracker) == [f EXCEPT !.tracker = tracker]

(* onOdometry with a pose that is not finite, or of another frame.         *)
BadOdometry(f) == Published(EnterLost(f))

Doubted(f) ==
    IF f.lost_latched THEN f ELSE [f EXCEPT !.state = "DEGRADED", !.hold = "NONE"]

(* onOdometry with a stamp before the latest one.                          *)
LateOdometry(f) ==
    f.odom # "NONE" /\ Published(Doubted(Rejected(Health(f))))

(* onOdometry with the latest stamp again.                                 *)
RepeatedOdometry(f) == f.odom # "NONE" /\ Unpublished(Health(f))

(* onOdometry with the next stamp: the first one starts the silence.       *)
NextOdometry(f) ==
    LET h == Health(f)
    IN  Published(Health([h EXCEPT !.odom = "FRESH",
                                   !.silence = IF h.odom = "NONE" THEN "FRESH" ELSE @]))

OnOdometry(f) ==
    BadOdometry(f) \/ LateOdometry(f) \/ RepeatedOdometry(f) \/ NextOdometry(f)

OnIdentifiedOdometry(instance, fresh, kept) ==
    LET verdict == Verdict(fusion.tracker, instance, fresh, kept)
        f == Tracked(fusion, Observed(fusion.tracker, instance, kept, verdict))
    IN  /\ kept <= fusion.tracker.retired
        /\ CASE verdict = "LATCHED" -> Published(EnterLost(f))
             [] verdict = "RETIRED" -> Published(Rejected(f))
             [] verdict \in {"INVALID", "PENDING"} -> Unpublished(f)
             [] verdict \in {"FIRST", "UNCHANGED"} -> OnOdometry(f)
             [] verdict = "CHANGED" -> fusion.epoch < MaxEpochs /\ OnOdometry(Replaced(f))
        /\ UNCHANGED <<time, evidence>>

(* onIdentityMonitor: the unfiltered frontend betrays an older process.    *)
OnIdentityMonitor(instance, kept) ==
    LET verdict == Verdict(fusion.tracker, instance, FALSE, kept)
        f == Tracked(fusion, Observed(fusion.tracker, instance, kept, verdict))
    IN  /\ 0 < instance /\ instance < fusion.tracker.instance
        /\ kept <= fusion.tracker.retired
        /\ Published(IF verdict = "LATCHED" THEN EnterLost(f) ELSE Rejected(f))
        /\ UNCHANGED <<time, evidence>>

-----------------------------------------------------------------------------
(* Observations of the relocalization.                                     *)

(* observationMatchesFrontend fails: it was registered on older odometry.  *)
ObservationObsolete ==
    /\ Published(Rejected(fusion))
    /\ UNCHANGED <<time, evidence>>

Matched == fusion.tracker.instance # 0

ObservationWhileLatched ==
    /\ Matched /\ fusion.tracker.latched
    /\ Published(EnterLost(fusion))
    /\ UNCHANGED <<time, evidence>>

(* Mutant: a latched identity conflict does not stop observations.         *)
MatchedThoughLatched == fusion.tracker.instance # 0

MatchedUnlatched == fusion.tracker.instance # 0 /\ ~fusion.tracker.latched

(* It comes too late in its episode, has a bad stamp, frame or quality, or *)
(* no odometry to go with it, or is one of those Admissible excludes.      *)
ObservationRefused ==
    /\ MatchedUnlatched
    /\ Published(Rejected(Health(fusion)))
    /\ UNCHANGED <<time, evidence>>

(* Measured after the last loss and not before the last input (of two with *)
(* one stamp the sequence decides), and within its episode.                *)
Admissible(f, stamp) ==
    /\ MatchedUnlatched
    /\ ~(fusion.recovery # "NONE" /\ f.recovery = "NONE")
    /\ stamp <= time /\ stamp > f.floor /\ stamp >= f.input

Noted(f, stamp) == [f EXCEPT !.input = stamp]

(* The registration itself reports a failure.                              *)
ObservationFailed(stamp) ==
    LET f == Health(fusion)
    IN  /\ Admissible(f, stamp)
        /\ Published(Rejected(Noted(f, stamp)))
        /\ UNCHANGED <<time, evidence>>

(* A pending confirmation starts an episode of recovery, but none after a  *)
(* closed one, and does not disturb a localization that is accepted.       *)
ObservationPending(stamp) ==
    LET f == Noted(Health(fusion), stamp)
    IN  /\ Admissible(Health(fusion), stamp) /\ f.odom = "FRESH"
        /\ Published(
               IF f.recovery_episode_closed THEN Rejected(f)
               ELSE IF f.has_accepted_observation /\ ~f.lost_latched THEN f
               ELSE [f EXCEPT !.recovery = IF @ = "NONE" THEN "RUNNING" ELSE @,
                              !.state = "RELOCALIZING"])
        /\ UNCHANGED <<time, evidence>>

(* Sizes of the correction an accepted observation asks for: below the     *)
(* epoch thresholds, a step beyond them, a jump only a lost node follows,  *)
(* and one that even a lost node does not follow.                          *)
Corrections == {"NONE", "STEP", "JUMP", "WILD"}

Plausible(f, correction) ==
    \/ ~f.has_map_to_odom
    \/ correction \in {"NONE", "STEP"}
    \/ correction = "JUMP" /\ f.lost_latched

AdvancesEpoch(f, correction) == ~f.has_map_to_odom \/ correction # "NONE"

(* The observation is committed.                                           *)
Relocalized(f, advances) ==
    LET holds == advances \/ f.state # "TRACKING"
    IN  Health([f EXCEPT !.has_map_to_odom = TRUE,
                         !.has_accepted_observation = TRUE,
                         !.lost_latched = FALSE,
                         !.recovery_episode_closed = FALSE,
                         !.recovery = "NONE",
                         !.silence = "FRESH",
                         !.rejections = 0,
                         !.epoch = IF advances THEN @ + 1 ELSE @,
                         !.hold = IF holds /\ (@ = "NONE" \/ advances)
                                  THEN "RUNNING" ELSE @,
                         !.state = IF holds THEN "CONFIRMED" ELSE "TRACKING"])

ObservationAccepted(stamp, correction) ==
    LET f == Noted(Health(fusion), stamp)
        advances == AdvancesEpoch(f, correction)
    IN  /\ Admissible(Health(fusion), stamp) /\ f.odom = "FRESH"
        /\ Plausible(f, correction)
        /\ advances => f.epoch < MaxEpochs
        /\ Published(Relocalized(f, advances))
        /\ evidence' = [instance |-> f.tracker.instance, stamp |-> stamp]
        /\ UNCHANGED time

ObservationImplausible(stamp, correction) ==
    LET f == Noted(Health(fusion), stamp)
    IN  /\ Admissible(Health(fusion), stamp) /\ f.odom = "FRESH"
        /\ ~Plausible(f, correction)
        /\ Published(Rejected(f))
        /\ UNCHANGED <<time, evidence>>

-----------------------------------------------------------------------------
(* The timer and the clocks.                                               *)

OnStatusTimer == Published(Health(fusion)) /\ UNCHANGED <<time, evidence>>

Elapsed(f) ==
    /\ fusion' = f
    /\ UNCHANGED <<time, status, status_stamp, history>>

StartTimesOut == ~fusion.late /\ Elapsed([fusion EXCEPT !.late = TRUE])

OdometryFallsSilent ==
    fusion.odom = "FRESH" /\ Elapsed([fusion EXCEPT !.odom = "SILENT"])

(* From observation_degraded_timeout_s_ on STALE, from the other on LOST.  *)
SilenceGrows ==
    /\ fusion.odom # "NONE" /\ fusion.silence # "LOST"
    /\ Elapsed([fusion EXCEPT
                   !.silence = IF @ = "FRESH" THEN "STALE" ELSE "LOST"])

HoldEnds == fusion.hold = "RUNNING" /\ Elapsed([fusion EXCEPT !.hold = "OVER"])

RecoveryEnds ==
    fusion.recovery = "RUNNING" /\ Elapsed([fusion EXCEPT !.recovery = "OVER"])

Tick ==
    /\ time < MaxTime
    /\ time' = time + 1
    /\ UNCHANGED <<fusion, status, status_stamp, history>>

Init ==
    /\ fusion = InitialFusion
    /\ time = 1
    /\ status = Stream!NoStatus
    /\ status_stamp = 0
    /\ evidence = [instance |-> 0, stamp |-> 0]
    /\ lost_since = 0
    /\ exhausted = FALSE

Odometry ==
    \/ \E instance \in Instances \cup {0}, fresh \in BOOLEAN, kept \in 0..RetiredLimit :
           OnIdentifiedOdometry(instance, fresh, kept)
    \/ \E instance \in Instances, kept \in 0..RetiredLimit :
           OnIdentityMonitor(instance, kept)

Observation ==
    \/ ObservationObsolete
    \/ ObservationWhileLatched
    \/ ObservationRefused
    \/ \E stamp \in 1..MaxTime :
           \/ ObservationFailed(stamp)
           \/ ObservationPending(stamp)
           \/ \E correction \in Corrections :
                  \/ ObservationAccepted(stamp, correction)
                  \/ ObservationImplausible(stamp, correction)

Clocks ==
    \/ StartTimesOut \/ OdometryFallsSilent \/ SilenceGrows
    \/ HoldEnds \/ RecoveryEnds \/ Tick

Next == Odometry \/ Observation \/ OnStatusTimer \/ Clocks

Spec == Init /\ [][Next]_vars

-----------------------------------------------------------------------------
(* Correctness.                                                            *)

Trackers ==
    [instance : Instances \cup {0}, epoch : Nat,
     pending : Instances \cup {0}, samples : 0..(InitialSamples - 1),
     retired : 0..RetiredLimit, latched : BOOLEAN]

Fusions ==
    [tracker : Trackers, odom : {"NONE", "FRESH", "SILENT"}, late : BOOLEAN,
     silence : {"FRESH", "STALE", "LOST"}, input : 0..MaxTime, floor : 0..MaxTime,
     hold : {"NONE", "RUNNING", "OVER"}, recovery : {"NONE", "RUNNING", "OVER"},
     recovery_episode_closed : BOOLEAN, lost_latched : BOOLEAN,
     has_map_to_odom : BOOLEAN, has_accepted_observation : BOOLEAN,
     epoch : 1..MaxEpochs, rejections : 0..MaxRejections, state : Stream!States]

(* The state is well typed; in particular no more retired samples than the *)
(* limit are ever tolerated in one window before the identity is latched.  *)
TypeOK ==
    /\ fusion \in Fusions
    /\ time \in 1..MaxTime
    /\ status \in Stream!Statuses
    /\ status_stamp \in Nat
    /\ evidence \in [instance : Instances \cup {0}, stamp : 0..MaxTime]
    /\ lost_since \in 0..MaxTime
    /\ exhausted \in BOOLEAN

(* A state consumers plan on rests on an observation of the odometry       *)
(* process in use, measured after the localization was last lost: what was *)
(* under way when it was lost does not bring it back, and a lost node does *)
(* not become DEGRADED.  The one exception is the initial transform, which *)
(* a node that was never lost may degrade on without an observation.       *)
UsableRestsOnFreshEvidence ==
    Stream!AllowsPlanning(fusion) =>
        \/ /\ evidence.instance = fusion.tracker.instance
           /\ evidence.stamp > lost_since
        \/ fusion.state = "DEGRADED" /\ lost_since = 0 /\ evidence.instance = 0

(* After a recovery that ran out or was rejected, pending confirmations do *)
(* not start another: the node stays out of RELOCALIZING until an          *)
(* observation is accepted.                                                *)
OneRecoveryPerLoss == exhausted => fusion.state # "RELOCALIZING"

(* The statuses follow each other as consumers rely on: epochs and         *)
(* identities never go back, an odometry process is replaced through LOST  *)
(* and a new epoch, a latched conflict stays LOST, and every status is     *)
(* stamped later than the one before.                                      *)
ImplementsStream == Stream!Spec
=============================================================================
