--------------------------- MODULE MCGoalManager ---------------------------
(* Small instances of GoalManager for TLC: what goes wrong in each run.    *)
(* Every run takes a group of faults that meet in the same guards; the     *)
(* switches and the bounds are given in the configuration files.           *)
EXTENDS GoalManager

(* Localization and map are lost, the goal cannot be transformed.          *)
HealthIsLost == {"LOCALIZATION", "LOCALIZATION_LEASE", "MAP_LEASE", "GOAL_TF"}
LocalizationLeaseLapses == {"LOCALIZATION_LEASE"}

(* The reference in force becomes unsafe, stalls or loses its map.         *)
ReferenceFails == {"SNAPSHOT", "SNAPSHOT_LEASE", "ODOMETRY", "FOOTPRINT", "STALL"}

(* The gimbal falls silent while the goal moves in the planning frame; the *)
(* time a goal may be without a plan runs out.                             *)
GimbalAndDrift == {"GIMBAL_LEASE", "DRIFT", "NO_PLAN"}

(* A deadline, a map that is not ready, the wait for it, and a transform   *)
(* that comes and goes.                                                    *)
DeadlinesPass == {"MAP", "DEADLINE", "WAIT", "GOAL_TF"}

BodyOnly == {"BODY"}
BodyAndSpin == {"BODY", "SPIN"}
=============================================================================
