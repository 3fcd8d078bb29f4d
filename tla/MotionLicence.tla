--------------------------- MODULE MotionLicence ---------------------------
(***************************************************************************)
(* What both gates on the way to the chassis, the MPC node and the         *)
(* velocity arbiter, promise about autonomous motion, without their        *)
(* inputs: the robot moves only under a licence, and licences follow the   *)
(* order in which the goal managers issue commands.                        *)
(*                                                                         *)
(* An order is a pair <<incarnation, sequence>>.  Once a gate has heard of *)
(* a manager, the first command it honours from a new incarnation is a     *)
(* STOP, so a licence never passes from one manager process to the next    *)
(* one.  A revocation stops the robot in the same step.                    *)
(***************************************************************************)
EXTENDS Naturals

VARIABLES
    seen,      \* the order of the last command honoured
    licence,   \* the order of the EXECUTE in force, or NoLicence
    moving     \* whether the robot is being driven

vars == <<seen, licence, moving>>

NoLicence == <<0, 0>>

After(order, other) ==
    \/ order[1] > other[1]
    \/ order[1] = other[1] /\ order[2] > other[2]

Orders == Nat \X Nat

Init == seen = <<0, 0>> /\ licence = NoLicence /\ moving = FALSE

(* An EXECUTE of the manager in force is honoured; a robot that moves may  *)
(* go on moving under it.                                                  *)
Grant ==
    /\ seen' \in Orders /\ After(seen', seen) /\ seen[1] \in {0, seen'[1]}
    /\ licence' = seen'
    /\ moving' \in {moving, FALSE}

(* A command is noted without a change of authority.                       *)
Note ==
    /\ seen' \in Orders /\ After(seen', seen) /\ seen'[1] = seen[1]
    /\ UNCHANGED licence /\ moving' \in {moving, FALSE}

Revoke ==
    /\ seen' \in Orders /\ (seen' = seen \/ After(seen', seen))
    /\ licence' = NoLicence /\ moving' = FALSE

Move == licence # NoLicence /\ moving' = TRUE /\ UNCHANGED <<seen, licence>>

Halt == moving' = FALSE /\ UNCHANGED <<seen, licence>>

Next == Grant \/ Note \/ Revoke \/ Move \/ Halt

Spec == Init /\ [][Next]_vars
=============================================================================
