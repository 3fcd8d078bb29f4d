---------------------------- MODULE MCOdometryMap ----------------------------
(* Small instances of OdometryMap for TLC.                                 *)
EXTENDS OdometryMap

Two == {1, 2}
Lost == {"LOST"}

(* Of the stamps of the statuses only their order matters, and of a        *)
(* captured revision whether it is the present one.  The node does not read *)
(* the state or whether the transform is valid.                            *)
Seen(s) == [s EXCEPT !.map_to_odom_valid = FALSE]

Distinguished ==
    <<Seen(status), [source EXCEPT !.signal = (@ # 0), !.revision = 0],
      [cloud EXCEPT !.revision = (@ = source.revision)],
      map, layer, Seen(heard.status), heard = Nothing, heard.stamp > source.signal,
      status_stamp > source.signal, status_stamp > heard.stamp>>
=============================================================================
