-------------------------- MODULE MCConsoleSession --------------------------
(* Instances of ConsoleSession for TLC. *)
EXTENDS ConsoleSession

\* The configuration with just these flags set.
Flags(set) ==
  [only |-> "only" \in set, all |-> "all" \in set,
   errorInUse |-> "errorInUse" \in set, skipSupport |-> "skipSupport" \in set,
   skipStatus |-> "skipStatus" \in set, otherPort |-> "otherPort" \in set]

\* Every flag, in combinations that bring out each branch.
SomeConfigs ==
  {Flags({}), Flags({"skipStatus", "otherPort"}),
   Flags({"errorInUse", "skipSupport"}), Flags({"only", "all"})}
=============================================================================
