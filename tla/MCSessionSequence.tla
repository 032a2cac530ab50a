------------------------- MODULE MCSessionSequence -------------------------
(* Small instances of SessionSequence: a short cycle of numbers, so that a  *)
(* run of MaxSent packets wraps at least once.                              *)
EXTENDS SessionSequence

CONSTANT MaxSent   \* bound on the packets the BMC sends

MCNext == Next /\ sent' <= MaxSent

MCSpec == Init /\ [][MCNext]_vars
=============================================================================
