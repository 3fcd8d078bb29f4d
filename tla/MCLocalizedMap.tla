---------------------------- MODULE MCLocalizedMap ----------------------------
(* Small instances of LocalizedMap for TLC.                                *)
EXTENDS LocalizedMap

Two == {1, 2}
TrackingOrLost == {"TRACKING", "LOST"}

(* Stamps and request numbers only grow, and steps only compare them: of   *)
(* the stamps it matters which statuses are newer than the last handled,   *)
(* of the requests which job is the one awaited.  Nobody reads whether the *)
(* transform is valid.                                                     *)
Job(job) ==
    [job EXCEPT !.request = IF job = Adapter!NoJob THEN 0
                            ELSE IF @ = adapter.active_request_epoch THEN 2 ELSE 1]

Seen(s) == [s EXCEPT !.map_to_odom_valid = FALSE]

Distinguished ==
    <<Seen(status),
      [adapter EXCEPT !.last = Seen(@), !.last_signal = 0, !.active_request_epoch = 0,
                      !.next_request_epoch = 0],
      Job(queue), [worker EXCEPT !.job = Job(@)],
      [snapshot EXCEPT !.job.request = 0], Seen(taken.status),
      taken = Nothing, taken.stamp > adapter.last_signal,
      status_stamp > adapter.last_signal, status_stamp > taken.stamp>>
=============================================================================
