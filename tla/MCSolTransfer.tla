--------------------------- MODULE MCSolTransfer ---------------------------
(* Small instances of SolTransfer. *)
EXTENDS SolTransfer
=============================================================================
