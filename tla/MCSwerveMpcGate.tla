--------------------------- MODULE MCSwerveMpcGate --------------------------
(* Input sets of the runs of SwerveMpcGate.                                *)
EXTENDS SwerveMpcGate

One == {1}
Two == {1, 2}
Three == {1, 2, 3}
Now == {0}
NowOrBefore == {0, 1}
OnTimeOrEarly == {-1, 0}
StopAndExecute == {"STOP", "EXECUTE"}
Either == {"READY", "FAILED"}
ReadyOrUnready == {"READY", "MAP_UNREADY"}

(* States that differ only in what no step reads any more are one: the     *)
(* stamp of a lease that has run out, or of an acknowledgement of nothing, *)
(* the superseded generation when no grace is open, a stop older than      *)
(* every reference that can still arrive.                                  *)
Current(signal, timeout) == IF clock - signal <= timeout THEN signal ELSE Never

Distinguished ==
    <<[gate EXCEPT
         !.signal = Current(@, ExecutionCommandTimeout),
         !.map_signal = IF gate.map_ready
                        THEN Current(@, MapReadyTimeout) ELSE Never,
         !.gimbal_signal = IF gate.gimbal # 0
                           THEN Current(@, GimbalTimeout) ELSE Never,
         !.superseded = IF gate.supersede_deadline = Never THEN 0 ELSE @,
         !.last_stop = IF @ < clock - 1 THEN Never ELSE @],
      clock, polled, moving,
      [history EXCEPT
         !.interrupted = @ \cap {gate.trajectory, clock - 1, clock}]>>
=============================================================================
