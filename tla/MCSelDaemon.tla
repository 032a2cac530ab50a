------------------------------ MODULE MCSelDaemon ------------------------------
(* Instances of SelDaemon for TLC. *)
EXTENDS SelDaemon

Situation(threshold, options, outside, faultsAllowed) ==
  [threshold |-> threshold, clearSel |-> "clearSel" \in options,
   reserves |-> "reserves" \in options, deletes |-> "deletes" \in options,
   restarts |-> "restarts" \in options, outside |-> outside,
   faults |-> faultsAllowed]

MCArgs ==
  {\* the daemon clears the SEL, and nothing fails
   Situation(50, {"reserves", "deletes", "restarts"}, 0, 0),
   \* record ids restart, and something fails or another client clears
   Situation(50, {"deletes", "restarts"}, 1, 1),
   \* record ids grow: something fails
   Situation(50, {"reserves", "deletes"}, 0, 2),
   Situation(50, {}, 0, 1),
   \* another client clears the SEL
   Situation(0, {"deletes"}, 1, 2),
   Situation(0, {"clearSel"}, 1, 1)}
===============================================================================
