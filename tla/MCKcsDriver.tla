---------------------------- MODULE MCKcsDriver ----------------------------
(* Small instances of KcsDriver. *)
EXTENDS KcsDriver

CONSTANTS p1, p2
=============================================================================
