---------------------------- MODULE MCLanSession ----------------------------
(* Small instances of LanSession. *)
EXTENDS LanSession
=============================================================================
