------------------------ MODULE MCMincoPublication ------------------------
(* Small instances of MincoPublication for TLC.                            *)
EXTENDS MincoPublication

One == {1}
Two == {1, 2}
Three == {1, 2, 3}
=============================================================================
