-------------------------- MODULE LocalizationStream --------------------------
(***************************************************************************)
(* What the consumers of /localization/status may rely on, whatever the    *)
(* fusion node makes of its inputs: the map epoch and the odometry         *)
(* identity never go back, an odometry instance is replaced only through   *)
(* LOST and with a new map epoch, a latched identity conflict is LOST      *)
(* until the node is restarted, a usable state has a transform, and each   *)
(* status is stamped later than the one before, even within one tick of a  *)
(* simulated clock, since consumers drop what does not advance.            *)
(* LocalizationFusion implements this specification and LocalizedMap       *)
(* composes it with the planning map adapter.                              *)
(***************************************************************************)
EXTENDS Integers

CONSTANTS
    Instances,      \* the odometry processes, by start time
    MaxEpochs       \* bound of the map epoch

ASSUME StreamAssumption ==
    /\ Instances \subseteq Nat \ {0}
    /\ MaxEpochs \in Nat

VARIABLES
    status,         \* the last LocalizationStatus published
    status_stamp    \* its header.stamp, or 0 when there is none

States ==
    {"UNINITIALIZED", "BOOTSTRAP", "RELOCALIZING", "CONFIRMED", "TRACKING",
     "DEGRADED", "LOST"}

StatusesIn(states, odom_epochs) ==
    [state : states, epoch : 0..MaxEpochs, instance : Instances \cup {0},
     odom_epoch : odom_epochs, latched : BOOLEAN, map_to_odom_valid : BOOLEAN]

Statuses == StatusesIn(States, Nat)

NoStatus ==
    [state |-> "UNINITIALIZED", epoch |-> 0, instance |-> 0, odom_epoch |-> 0,
     latched |-> FALSE, map_to_odom_valid |-> FALSE]

(* localizationStateAllowsPlanning.                                        *)
AllowsPlanning(s) == s.state \in {"TRACKING", "CONFIRMED", "DEGRADED"}

WellFormed(s) ==
    /\ s.latched => s.state = "LOST"
    /\ AllowsPlanning(s) => s.instance # 0 /\ s.map_to_odom_valid

Follows(s, previous) ==
    /\ s.epoch >= previous.epoch
    /\ s.odom_epoch \in {previous.odom_epoch, previous.odom_epoch + 1}
    /\ s.instance >= previous.instance
    /\ s.instance = previous.instance <=> s.odom_epoch = previous.odom_epoch
    /\ previous.instance \notin {0, s.instance} =>
           s.state = "LOST" /\ s.epoch > previous.epoch
    /\ previous.latched => s.latched

Init == status = NoStatus /\ status_stamp = 0

Next ==
    /\ status_stamp' > status_stamp
    /\ status' \in Statuses
    /\ WellFormed(status')
    /\ Follows(status', status)

Spec == Init /\ [][Next]_<<status, status_stamp>>
=============================================================================
