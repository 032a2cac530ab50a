---------------------------- MODULE InbandService ----------------------------
(***************************************************************************)
(* What an in-band driver of libfreeipmi promises the processes that share *)
(* one BMC: commands are served one at a time, the BMC executes a command  *)
(* at most once, and a command that succeeds returns the answer to itself. *)
(* A command that failed may have been executed, also after its caller gave*)
(* up, but no longer once the BMC serves another one.                      *)
(***************************************************************************)
EXTENDS Naturals, Sequences

CONSTANTS
  Proc,       \* the processes that use the driver
  MaxCalls    \* bound on the commands of each

VARIABLES
  mode,       \* of each process: "idle", "waiting" or "serving"
  calls,      \* how many commands each has started
  cur,        \* the command the BMC was last given, or None
  log,        \* the commands the BMC executed, in order
  answer      \* of each process: whose answer its last command returned

vars == <<mode, calls, cur, log, answer>>

None == <<>>
Failed == <<0>>

Init ==
  /\ mode = [p \in Proc |-> "idle"]
  /\ calls = [p \in Proc |-> 0]
  /\ cur = None
  /\ log = <<>>
  /\ answer = [p \in Proc |-> None]

Call(p) ==
  /\ mode[p] = "idle" /\ calls[p] < MaxCalls
  /\ mode' = [mode EXCEPT ![p] = "waiting"]
  /\ calls' = [calls EXCEPT ![p] = @ + 1]
  /\ answer' = [answer EXCEPT ![p] = None]
  /\ UNCHANGED <<cur, log>>

Begin(p) ==
  /\ mode[p] = "waiting" /\ \A q \in Proc : mode[q] # "serving"
  /\ mode' = [mode EXCEPT ![p] = "serving"]
  /\ cur' = <<p, calls[p]>>
  /\ UNCHANGED <<calls, log, answer>>

Executed(c) == \E i \in 1 .. Len(log) : log[i] = c

Execute ==
  /\ cur # None /\ ~ Executed(cur)
  /\ log' = Append(log, cur)
  /\ UNCHANGED <<mode, calls, cur, answer>>

Succeed(p) ==
  /\ mode[p] = "serving" /\ Executed(cur)
  /\ mode' = [mode EXCEPT ![p] = "idle"]
  /\ answer' = [answer EXCEPT ![p] = cur]
  /\ UNCHANGED <<calls, cur, log>>

Fail(p) ==
  /\ mode[p] # "idle"
  /\ mode' = [mode EXCEPT ![p] = "idle"]
  /\ answer' = [answer EXCEPT ![p] = Failed]
  /\ UNCHANGED <<calls, cur, log>>

Next ==
  \/ Execute
  \/ \E p \in Proc : Call(p) \/ Begin(p) \/ Succeed(p) \/ Fail(p)

Spec == Init /\ [][Next]_vars
=============================================================================
