------------------------------ MODULE KcsDriver ------------------------------
(***************************************************************************)
(* In-band commands over a keyboard controller style (KCS) interface       *)
(* (driver/ipmi-kcs-driver.c, driver/ipmi-semaphores.c and api_kcs_cmd() of *)
(* api/ipmi-kcs-driver-api.c).  Processes that know nothing of each other  *)
(* share two registers of the BMC and a System V semaphore: a command is   *)
(* written byte by byte and its answer read byte by byte, each byte paced  *)
(* by the flags IBF (the BMC has not taken the last byte) and OBF (a byte  *)
(* waits to be read); ipmi_kcs_write() returns with the semaphore held and *)
(* ipmi_kcs_read() releases it.  Every wait may time out, the BMC may be   *)
(* reset, and a process may die anywhere.                                  *)
(*                                                                         *)
(* The BMC is external: it takes bytes in order, starts over at            *)
(* WRITE_START, and raises OBF for a byte taken while it is written to no  *)
(* later than it clears IBF.  Failures of system calls and of malloc() are *)
(* left out, and so is a BMC that never leaves READ: its answer has RsLen  *)
(* bytes, and the loop of ipmi_kcs_read() reads for as long as it lasts.   *)
(***************************************************************************)
EXTENDS Integers, Sequences, FiniteSets

CONSTANTS
  Proc,         \* processes
  NonBlocking,  \* those whose context has IPMI_KCS_FLAGS_NONBLOCKING
  RqLen,        \* bytes of a request
  RsLen,        \* bytes of an answer
  BufLen,       \* bytes the caller has room for
  MaxCalls      \* bound on the commands of each process

ASSUME KcsAssumption ==
  /\ {RqLen, RsLen, BufLen} \subseteq Nat \ {0} /\ MaxCalls \in Nat
  /\ NonBlocking \subseteq Proc

VARIABLES
  sem,      \* the semaphore: how far it was created, and its value
  pc,       \* where each process is
  drv,      \* count and buf of ipmi_kcs_write() and ipmi_kcs_read()
  reg,      \* the registers: IBF, OBF, the state bits, and the two data bytes
  bmc,      \* the BMC's side (external)
  calls,    \* history: how many commands each process has started
  cur,      \* history: the command last announced with WRITE_START
  log,      \* history: the commands the BMC executed
  answer    \* history: whose answer each process's last command returned

vars == <<sem, pc, drv, reg, bmc, calls, cur, log, answer>>

None == <<>>
Failed == <<0>>
Mixed == <<0, 0>>   \* bytes of no one command

Byte(c, i) == <<c, i>>
Dummy == Byte(Mixed, 0)
Request(c) == [i \in 1 .. RqLen |-> Byte(c, i)]
Response(c) == [i \in 1 .. RsLen |-> Byte(c, i)]
Kept(s) == SubSeq(s, 1, IF Len(s) < BufLen THEN Len(s) ELSE BufLen)

\* The command that these bytes are the request of; that they answer.
Requested(s) == IF s = Request(s[1][1]) THEN s[1][1] ELSE Mixed
Answered(s) ==
  IF s = Kept(Response(s[1][1])) THEN s[1][1] ELSE Mixed

Holding == {"start_wait", "start", "write_wait", "write", "end_wait", "last",
            "read_wait", "obf_wait", "next", "next_wait", "ack_wait"}
IbfWaits == {"start_wait", "write_wait", "end_wait", "read_wait", "next_wait"}
ObfWaits == {"obf_wait", "ack_wait"}

Goto(p, l) == pc' = [pc EXCEPT ![p] = l]

-----------------------------------------------------------------------------
(* driver_mutex_init(), run by ipmi_kcs_ctx_create() *)

\* The first process creates the semaphore, with value 0; others find it.
SemGet(p) ==
  /\ pc[p] = "closed"
  /\ IF sem.phase = "absent"
     THEN Goto(p, "creator") /\ sem' = [sem EXCEPT !.phase = "made"]
     ELSE Goto(p, "idle") /\ UNCHANGED sem
  /\ UNCHANGED <<drv, reg, bmc, calls, cur, log, answer>>

SemSetAll(p) ==
  /\ pc[p] = "creator"
  /\ sem' = [phase |-> "set", value |-> 1]
  /\ Goto(p, "idle")
  /\ UNCHANGED <<drv, reg, bmc, calls, cur, log, answer>>

-----------------------------------------------------------------------------
(* ipmi_kcs_write() *)

\* api_kcs_cmd(): a new command.
Call(p) ==
  /\ pc[p] = "idle" /\ calls[p] < MaxCalls
  /\ calls' = [calls EXCEPT ![p] = @ + 1]
  /\ answer' = [answer EXCEPT ![p] = None]
  /\ drv' = [drv EXCEPT ![p] = [count |-> 0, buf |-> <<>>]]
  /\ Goto(p, "lock")
  /\ UNCHANGED <<sem, reg, bmc, cur, log>>

\* driver_mutex_lock(), driver_mutex_lock_interruptible(): the latter does
\* not wait.
Lock(p) ==
  /\ pc[p] = "lock" /\ sem.value > 0
  /\ sem' = [sem EXCEPT !.value = @ - 1]
  /\ Goto(p, "start_wait")
  /\ UNCHANGED <<drv, reg, bmc, calls, cur, log, answer>>

LockBusy(p) ==
  /\ pc[p] = "lock" /\ sem.value = 0 /\ p \in NonBlocking
  /\ answer' = [answer EXCEPT ![p] = Failed]
  /\ Goto(p, "idle")
  /\ UNCHANGED <<sem, drv, reg, bmc, calls, cur, log>>

UnlockedNever == sem

\* The command ends: driver_mutex_unlock() by whoever called this.
Unlocked == [sem EXCEPT !.value = @ + 1]

End(p, a) ==
  /\ sem' = Unlocked
  /\ answer' = [answer EXCEPT ![p] = a]
  /\ Goto(p, "idle")

TimedOutIbf(l) == l \in IbfWaits /\ reg.ibf

\* _ipmi_kcs_wait_for_ibf_clear() and _ipmi_kcs_wait_for_obf_set() poll until
\* the flag is as wanted or IPMI_KCS_TIMEOUT_USECS have passed.
TimedOut(l) == (l \in IbfWaits /\ reg.ibf) \/ (l \in ObfWaits /\ ~ reg.obf)

Timeout(p) ==
  /\ TimedOut(pc[p])
  /\ End(p, Failed)
  /\ UNCHANGED <<drv, reg, bmc, calls, cur, log>>

ClearedObfNever(r) == r

\* _ipmi_kcs_clear_obf(): a byte that waits is read and dropped.
ClearedObf(r) == [r EXCEPT !.obf = FALSE]

\* A data byte or a control code goes into a register, which raises IBF.
Out(b) == reg' = [reg EXCEPT !.ibf = TRUE, !.ctl = "DATA", !.in = b]
OutCtl(code) == reg' = [reg EXCEPT !.ibf = TRUE, !.ctl = code, !.in = None]

StartWait(p) ==
  /\ pc[p] = "start_wait" /\ ~ reg.ibf
  /\ reg' = ClearedObf(reg)
  /\ Goto(p, "start")
  /\ UNCHANGED <<sem, drv, bmc, calls, cur, log, answer>>

StartWrite(p) ==
  /\ pc[p] = "start"
  /\ OutCtl("WRITE_START")
  /\ cur' = <<p, calls[p]>>
  /\ Goto(p, "write_wait")
  /\ UNCHANGED <<sem, drv, bmc, calls, log, answer>>

\* The BMC has taken a byte: it must be in WRITE state, otherwise
\* IPMI_KCS_ERR_BUSY.
WriteWait(p) ==
  /\ pc[p] \in {"write_wait", "end_wait"} /\ ~ reg.ibf
  /\ IF reg.state = "WRITE"
     THEN /\ reg' = ClearedObf(reg)
          /\ Goto(p, IF pc[p] = "end_wait" THEN "last" ELSE "write")
          /\ UNCHANGED <<sem, answer>>
     ELSE End(p, Failed) /\ UNCHANGED reg
  /\ UNCHANGED <<drv, bmc, calls, cur, log>>

\* All bytes but the last, then WRITE_END; the last byte comes after it, and
\* ipmi_kcs_write() returns with the semaphore held.
WriteByte(p) ==
  LET count == drv[p].count
      c == <<p, calls[p]>>
  IN  /\ \/ /\ pc[p] = "write" /\ count < RqLen - 1
            /\ Out(Byte(c, count + 1))
            /\ drv' = [drv EXCEPT ![p].count = @ + 1]
            /\ Goto(p, "write_wait")
            /\ UNCHANGED sem
         \/ /\ pc[p] = "write" /\ count = RqLen - 1
            /\ OutCtl("WRITE_END")
            /\ Goto(p, "end_wait")
            /\ UNCHANGED <<sem, drv>>
         \/ /\ pc[p] = "last"
            /\ Out(Byte(c, count + 1))
            /\ drv' = [drv EXCEPT ![p].count = @ + 1]
            /\ Goto(p, "read_wait")
            /\ UNCHANGED sem
      /\ UNCHANGED <<bmc, calls, cur, log, answer>>

-----------------------------------------------------------------------------
(* ipmi_kcs_read() *)

ReadWait(p) ==
  /\ pc[p] = "read_wait" /\ ~ reg.ibf
  /\ IF reg.state = "READ"
     THEN Goto(p, "obf_wait") /\ UNCHANGED <<sem, answer>>
     ELSE End(p, Failed)
  /\ UNCHANGED <<drv, reg, bmc, calls, cur, log>>

\* A byte that does not fit is dropped, silently.
ReadByte(p) ==
  /\ pc[p] = "obf_wait" /\ reg.obf
  /\ drv' = [drv EXCEPT ![p].buf = IF Len(@) < BufLen THEN Append(@, reg.out)
                                                      ELSE @]
  /\ reg' = ClearedObf(reg)
  /\ Goto(p, "next")
  /\ UNCHANGED <<sem, bmc, calls, cur, log, answer>>

ReadNext(p) ==
  /\ pc[p] = "next"
  /\ OutCtl("READ")
  /\ Goto(p, "next_wait")
  /\ UNCHANGED <<sem, drv, bmc, calls, cur, log, answer>>

NextWait(p) ==
  /\ pc[p] = "next_wait" /\ ~ reg.ibf
  /\ CASE reg.state = "READ" -> Goto(p, "obf_wait") /\ UNCHANGED <<sem, answer>>
       [] reg.state = "IDLE" -> Goto(p, "ack_wait") /\ UNCHANGED <<sem, answer>>
       [] OTHER -> End(p, Failed)
  /\ UNCHANGED <<drv, reg, bmc, calls, cur, log>>

\* The last byte only says that the answer is over.
ReadAck(p) ==
  /\ pc[p] = "ack_wait" /\ reg.obf
  /\ reg' = ClearedObf(reg)
  /\ End(p, Answered(drv[p].buf))
  /\ UNCHANGED <<drv, bmc, calls, cur, log>>

\* A process dies; SEM_UNDO gives back what it holds of the semaphore.
Crash(p) ==
  /\ pc[p] # "closed"
  /\ sem' = IF pc[p] \in Holding THEN Unlocked ELSE sem
  /\ answer' = IF pc[p] \in Holding \cup {"lock"}
               THEN [answer EXCEPT ![p] = Failed] ELSE answer
  /\ Goto(p, "closed")
  /\ UNCHANGED <<drv, reg, bmc, calls, cur, log>>

-----------------------------------------------------------------------------
(* The BMC (external) *)

\* What the BMC does with the byte it takes: r and b are the registers and its
\* own state after taking it, before it acts on it.
BmcStart(r, b) ==
  /\ reg' = [r EXCEPT !.state = "WRITE"]
  /\ bmc' = [b EXCEPT !.rq = <<>>, !.end = FALSE, !.rs = <<>>, !.due = FALSE]
  /\ UNCHANGED log

BmcWrite(r, b) ==
  \/ /\ reg.ctl = "WRITE_END"
     /\ reg' = r /\ bmc' = [b EXCEPT !.end = TRUE] /\ UNCHANGED log
  \/ /\ reg.ctl = "DATA" /\ ~ b.end
     /\ reg' = r /\ bmc' = [b EXCEPT !.rq = Append(@, reg.in)] /\ UNCHANGED log
  \/ /\ reg.ctl = "DATA" /\ b.end
     /\ LET c == Requested(Append(b.rq, reg.in))
        IN  /\ log' = Append(log, c)
            /\ bmc' = [b EXCEPT !.rs = Response(c), !.due = TRUE]
     /\ reg' = [r EXCEPT !.state = "READ", !.obf = reg.obf, !.out = reg.out]

BmcRead(r, b) ==
  /\ reg.ctl = "READ"
  /\ reg' = [r EXCEPT !.state = IF b.rs = <<>> THEN "IDLE" ELSE "READ",
                      !.obf = reg.obf, !.out = reg.out]
  /\ bmc' = [b EXCEPT !.due = TRUE]
  /\ UNCHANGED log

BmcTake ==
  /\ reg.ibf /\ ~ bmc.due
  /\ \E dummy \in BOOLEAN :
       LET r == [reg EXCEPT !.ibf = FALSE, !.obf = reg.obf \/ dummy,
                            !.out = IF dummy THEN Dummy ELSE @]
       IN  \/ reg.ctl = "WRITE_START" /\ BmcStart(r, bmc)
           \/ reg.state = "WRITE" /\ BmcWrite(r, bmc)
           \/ reg.state = "READ" /\ BmcRead(r, bmc)
           \/ /\ reg.ctl # "WRITE_START"
              /\ \/ reg.state \in {"IDLE", "ERROR"}
                 \/ reg.state = "WRITE" /\ reg.ctl = "READ"
                 \/ reg.state = "READ" /\ reg.ctl # "READ"
              /\ reg' = [r EXCEPT !.state = "ERROR"]
              /\ UNCHANGED <<bmc, log>>
  /\ UNCHANGED <<sem, pc, drv, calls, cur, answer>>

\* The next byte of the answer, or the one that says it is over.
BmcPut ==
  /\ bmc.due
  /\ reg' = [reg EXCEPT !.obf = TRUE,
                        !.out = IF bmc.rs = <<>> THEN Dummy ELSE Head(bmc.rs)]
  /\ bmc' = [bmc EXCEPT !.due = FALSE,
                        !.rs = IF @ = <<>> THEN @ ELSE Tail(@)]
  /\ UNCHANGED <<sem, pc, drv, calls, cur, log, answer>>

Idle == [ibf |-> FALSE, obf |-> FALSE, state |-> "IDLE", ctl |-> "DATA",
         in |-> None, out |-> Dummy]
Empty == [rq |-> <<>>, end |-> FALSE, rs |-> <<>>, due |-> FALSE]

BmcReset ==
  /\ reg' = Idle /\ bmc' = Empty
  /\ UNCHANGED <<sem, pc, drv, calls, cur, log, answer>>

-----------------------------------------------------------------------------

Init ==
  /\ sem = [phase |-> "absent", value |-> 0]
  /\ pc = [p \in Proc |-> "closed"]
  /\ drv = [p \in Proc |-> [count |-> 0, buf |-> <<>>]]
  /\ reg = Idle /\ bmc = Empty
  /\ calls = [p \in Proc |-> 0]
  /\ cur = None /\ log = <<>>
  /\ answer = [p \in Proc |-> None]

\* What a process that is in a command does on its own.
Step(p) ==
  \/ Lock(p) \/ LockBusy(p) \/ Timeout(p)
  \/ StartWait(p) \/ StartWrite(p) \/ WriteWait(p) \/ WriteByte(p)
  \/ ReadWait(p) \/ ReadByte(p) \/ ReadNext(p) \/ NextWait(p) \/ ReadAck(p)

Next ==
  \/ \E p \in Proc :
       SemGet(p) \/ SemSetAll(p) \/ Call(p) \/ Step(p) \/ Crash(p)
  \/ BmcTake \/ BmcPut \/ BmcReset

Spec == Init /\ [][Next]_vars

\* A process runs on while it can, and the queue of a semaphore is served in
\* order.  Nothing is assumed of the BMC.
FairSpec ==
  Spec /\ \A p \in Proc : WF_vars(Step(p)) /\ SF_vars(Lock(p))

-----------------------------------------------------------------------------
(* Properties. *)

Calls == Proc \X (1 .. MaxCalls)

\* Every variable keeps its type.
TypeOK ==
  /\ sem \in [phase : {"absent", "made", "set"}, value : {0, 1}]
  /\ pc \in [Proc -> {"closed", "creator", "idle", "lock"} \cup Holding]
  /\ \A p \in Proc : drv[p].count \in 0 .. RqLen /\ Len(drv[p].buf) <= BufLen
  /\ reg.state \in {"IDLE", "WRITE", "READ", "ERROR"}
  /\ reg.ctl \in {"WRITE_START", "WRITE_END", "READ", "DATA"}
  /\ reg.ibf \in BOOLEAN /\ reg.obf \in BOOLEAN
  /\ calls \in [Proc -> 0 .. MaxCalls]
  /\ cur \in Calls \cup {None}
  /\ \A i \in 1 .. Len(log) : log[i] \in Calls \cup {Mixed}
  /\ \A p \in Proc : answer[p] \in Calls \cup {None, Failed, Mixed}

\* Once it is set up the semaphore is one for the processes between the start
\* of ipmi_kcs_write() and the end of ipmi_kcs_read() and the free count: no
\* error path releases it twice or not at all, and no death of a process
\* loses it.
SemaphoreBalanced ==
  LET holders == {p \in Proc : pc[p] \in Holding}
  IN  IF sem.phase = "set" THEN Cardinality(holders) + sem.value = 1
      ELSE holders = {} /\ sem.value = 0

\* To the processes the driver is the abstract service: one command at a time,
\* each executed at most once, and a success returns the answer to the very
\* command, complete, whatever was left behind by commands that timed out or
\* whose process died (ipmi_kcs_write, ipmi_kcs_read).
Service == INSTANCE InbandService WITH
  mode <- [p \in Proc |->
             CASE pc[p] \in {"closed", "creator", "idle"} -> "idle"
               [] pc[p] \in {"lock", "start_wait", "start"} -> "waiting"
               [] OTHER -> "serving"]
ServiceSpec == Service!Spec

\* A command comes back, with an answer or an error, though the BMC stops,
\* resets or answers late at any byte, provided the creator of the semaphore
\* lived to set it (_ipmi_kcs_sleep, driver_mutex_unlock) and an answer of the
\* BMC's has an end.
CommandReturns ==
  \A p \in Proc :
    (pc[p] = "lock" /\ sem.phase = "set") ~> pc[p] \in {"idle", "closed"}
=============================================================================
