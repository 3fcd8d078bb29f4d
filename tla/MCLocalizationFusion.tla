------------------------ MODULE MCLocalizationFusion ------------------------
(* Small instances of LocalizationFusion for TLC.                          *)
EXTENDS LocalizationFusion

Two == {1, 2}
Three == {1, 2, 3}

(* A step reads the stamp of the last status only to exceed it; the rest   *)
(* of the state is what distinguishes two states.                          *)
Distinguished == <<fusion, time, status, history>>
=============================================================================
