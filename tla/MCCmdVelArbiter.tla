-------------------------- MODULE MCCmdVelArbiter --------------------------
(* Small instances of CmdVelArbiter for TLC: the input sets.  Timeouts are *)
(* given in the configuration files.                                       *)
EXTENDS CmdVelArbiter

StopAndExecute == {"STOP", "EXECUTE"}
AllModes == {"STOP", "EXECUTE", "INVALID"}
ReadyOnly == {"READY"}
AllVerdicts == {"READY", "FAILED", "MAP_UNREADY", "OTHER"}
One == {1}
Two == {1, 2}
Three == {1, 2, 3}
NoAge == {0}
EarlyFreshLate == {-1, 0, 2}

(* States that differ only in what no step reads any more are one: the     *)
(* stamps of samples and leases that are not in force, the latched command *)
(* when none is latched, the superseded generation outside a grace.        *)
Distinguished ==
    <<[arb EXCEPT
         !.manual.stamp = IF arb.manual.valid THEN @ ELSE 0,
         !.auto.stamp = IF arb.auto.valid THEN @ ELSE 0,
         !.execution_lease_stamp = IF arb.auto_authorized THEN @ ELSE 0,
         !.latched_execute_epoch = IF arb.dual_map_execute_latched THEN @ ELSE 0,
         !.latched_execute_generation =
             IF arb.dual_map_execute_latched THEN @ ELSE 0,
         !.latched_execute_stamp = IF arb.dual_map_execute_latched THEN @ ELSE 0,
         !.superseded_generation =
             IF arb.supersede_deadline = Never THEN 0 ELSE @],
      clock, published, history>>
=============================================================================
