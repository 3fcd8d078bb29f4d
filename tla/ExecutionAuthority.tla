------------------------- MODULE ExecutionAuthority -------------------------
(***************************************************************************)
(* What the goal manager promises about execution, without its inputs:     *)
(* which plan request a robot may be executing the answer to.              *)
(*                                                                         *)
(* Requests are numbered from 1 within a goal.  A grant starts execution,  *)
(* a replacement passes it to a later request without a stop, a pause      *)
(* interrupts it.  A break revokes every request issued so far: what       *)
(* executes next was requested after it (the design document of the stack, *)
(* ats_swerve_mpc, 17.1: late candidates "can only be recorded and         *)
(* rejected").                                                             *)
(***************************************************************************)
EXTENDS Naturals

VARIABLES
    goal,       \* the last goal accepted
    issued,     \* requests issued for it
    revoked,    \* requests 1..revoked are never executed any more
    running     \* the request in execution, 0 for none

vars == <<goal, issued, revoked, running>>

Init == goal = 0 /\ issued = 0 /\ revoked = 0 /\ running = 0

(* A goal starts, perhaps with its first request.                          *)
Begin ==
    /\ goal' = goal + 1 /\ issued' \in {0, 1}
    /\ revoked' = 0 /\ running' = 0

Issue ==
    /\ issued' = issued + 1
    /\ UNCHANGED <<goal, revoked, running>>

Grant ==
    /\ running = 0 /\ running' \in (revoked + 1)..issued
    /\ UNCHANGED <<goal, issued, revoked>>

Replace ==
    /\ running # 0 /\ running' \in (running + 1)..issued
    /\ UNCHANGED <<goal, issued, revoked>>

Pause ==
    /\ running' = 0
    /\ UNCHANGED <<goal, issued, revoked>>

(* A replan from a stop issues the next request in the same step.          *)
Break ==
    /\ running' = 0 /\ revoked' = issued /\ issued' \in {issued, issued + 1}
    /\ UNCHANGED goal

End ==
    /\ issued' = 0 /\ revoked' = 0 /\ running' = 0
    /\ UNCHANGED goal

Next == Begin \/ Issue \/ Grant \/ Replace \/ Pause \/ Break \/ End

Spec == Init /\ [][Next]_vars

=============================================================================
