---------------------------- MODULE MCPowerCommand ----------------------------
(* Instances of PowerCommand for TLC. *)
EXTENDS PowerCommand

MCHostOf == [a |-> "h", b |-> "k", c |-> "h"]

Situation(version, fanout, flags, batches, ops, initial) ==
  [version |-> version, fanout |-> fanout, c410x |-> "c410x" \in flags,
   onIfOff |-> "onIfOff" \in flags, waitOn |-> "wait" \in flags,
   waitOff |-> "wait" \in flags, batches |-> batches, ops |-> ops,
   initial |-> initial]

MCArgs ==
  {\* two commands to one host
   Situation(15, 2, {"c410x"}, <<<<"a", "c">>>>, {"status"}, {"off"}),
   \* two hosts, one after the other and at once
   Situation(15, 1, {}, <<<<"a", "b">>>>, {"status"}, {"off"}),
   Situation(15, 2, {}, <<<<"a", "b">>>>, {"status"}, {"off"}),
   \* one command after the other from the prompt
   Situation(15, 0, {}, <<<<"a">>, <<"c">>>>, {"reset"}, {"on"}),
   \* every operation, with and without the flags
   Situation(15, 0, {}, <<<<"a">>>>, AllOps, PowerStates),
   Situation(20, 0, {"onIfOff", "wait"}, <<<<"a">>>>, AllOps, PowerStates),
   Situation(20, 0, {"c410x", "wait"}, <<<<"a">>>>,
             {"status", "on", "off"}, PowerStates)}
=============================================================================
