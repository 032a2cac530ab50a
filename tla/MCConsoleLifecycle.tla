------------------------ MODULE MCConsoleLifecycle ------------------------
(* Small instances of ConsoleLifecycle. *)
EXTENDS ConsoleLifecycle

CONSTANTS c1, c2   \* contexts
=============================================================================
