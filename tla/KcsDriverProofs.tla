--------------------------- MODULE KcsDriverProofs ---------------------------
(***************************************************************************)
(* Proofs about KcsDriver, for every set of processes and every length of  *)
(* requests, answers and buffers: the semaphore is balanced, and the driver *)
(* implements InbandService.                                               *)
(***************************************************************************)
EXTENDS KcsDriver, SequenceTheorems, FiniteSetTheorems, TLAPS

-----------------------------------------------------------------------------
(* The inductive invariant. *)

Bytes == (Calls \cup {Mixed}) \X Nat
Waits == {"lock", "start_wait", "start"}
Serving == Holding \ {"start_wait", "start"}

\* The types, stronger than TypeOK where the proof needs the shape of a record.
Shape ==
  /\ sem \in [phase : {"absent", "made", "set"}, value : {0, 1}]
  /\ pc \in [Proc -> {"closed", "creator", "idle", "lock"} \cup Holding]
  /\ drv \in [Proc -> [count : 0 .. RqLen, buf : Seq(Bytes)]]
  /\ reg \in [ibf : BOOLEAN, obf : BOOLEAN,
              state : {"IDLE", "WRITE", "READ", "ERROR"},
              ctl : {"WRITE_START", "WRITE_END", "READ", "DATA"},
              in : Bytes \cup {None}, out : Bytes]
  /\ bmc \in [rq : Seq(Bytes), end : BOOLEAN, rs : Seq(Bytes), due : BOOLEAN]
  /\ calls \in [Proc -> 0 .. MaxCalls]
  /\ cur \in Calls \cup {None}
  /\ log \in Seq(Calls)
  /\ answer \in [Proc -> Calls \cup {None, Failed}]

\* One process at most is between the lock and the unlock, and none before the
\* semaphore is set; the creator is the one that made it.
SemInv ==
  /\ \A p, q \in Proc : pc[p] \in Holding /\ pc[q] \in Holding => p = q
  /\ sem.phase # "set" => sem.value = 0 /\ \A p \in Proc : pc[p] \notin Holding
  /\ sem.phase = "set" =>
       (sem.value = 0 <=> \E p \in Proc : pc[p] \in Holding)
  /\ \A p \in Proc : pc[p] = "creator" => sem.phase = "made"
  /\ \A p, q \in Proc : pc[p] = "creator" /\ pc[q] = "creator" => p = q

\* A command the BMC was given is not one that still waits for its turn, and
\* not one of the future.
Given(c) ==
  \A p \in Proc :
    /\ \A n \in 1 .. MaxCalls : c = <<p, n>> => n <= calls[p]
    /\ pc[p] \in Waits => c # <<p, calls[p]>>

CallInv ==
  /\ Given(cur)
  /\ \A k \in 1 .. Len(log) : Given(log[k])
  /\ \A p \in Proc : pc[p] \in Waits \cup Serving => calls[p] > 0
  /\ \A p \in Proc : pc[p] \in Serving => cur = <<p, calls[p]>>

InLog == \E k \in 1 .. Len(log) : log[k] = cur

\* WRITE_START of the current command is in the register: what the BMC still
\* has is of an earlier one.
Fresh == reg.ibf /\ reg.ctl = "WRITE_START"

First(c, n) == [k \in 1 .. n |-> Byte(c, k)]
Final(c, n) == [k \in 1 .. n |-> Byte(c, RsLen - n + k)]

\* What the BMC has got and has still to give is of the current command.
BmcInv ==
  /\ Fresh => cur # None /\ ~ InLog
  /\ reg.state = "WRITE" /\ ~ Fresh =>
       /\ cur # None /\ ~ InLog /\ ~ bmc.due
       /\ Len(bmc.rq) < RqLen /\ bmc.rq = First(cur, Len(bmc.rq))
       /\ bmc.end => Len(bmc.rq) = RqLen - 1
       /\ reg.ibf /\ reg.ctl = "DATA" =>
            /\ reg.in = Byte(cur, Len(bmc.rq) + 1)
            /\ Len(bmc.rq) = RqLen - 1 => bmc.end
       /\ reg.ibf /\ reg.ctl = "WRITE_END" => Len(bmc.rq) = RqLen - 1
  /\ reg.state = "READ" /\ ~ Fresh =>
       /\ cur # None /\ InLog
       /\ Len(bmc.rs) <= RsLen /\ bmc.rs = Final(cur, Len(bmc.rs))
       /\ bmc.due => Len(bmc.rs) > 0

\* The caller has the first n bytes of the answer, as far as they fit.
Got(p, n) == drv[p].buf = First(cur, IF n < BufLen THEN n ELSE BufLen)

\* The next byte of the answer is due, or is there.
Coming(p) ==
  \/ bmc.due /\ ~ reg.obf /\ Got(p, RsLen - Len(bmc.rs))
  \/ /\ ~ bmc.due /\ reg.obf /\ Len(bmc.rs) < RsLen
     /\ reg.out = Byte(cur, RsLen - Len(bmc.rs))
     /\ Got(p, RsLen - Len(bmc.rs) - 1)

\* Where the process is in its command, and where the BMC is.
DrvStart(p) ==
  /\ pc[p] \in Waits \cup {"write_wait", "write", "end_wait", "last", "read_wait"}
       => drv[p].buf = <<>>
  /\ pc[p] \in Waits => drv[p].count = 0
  /\ pc[p] = "start" => ~ reg.ibf

DrvWrite(p) ==
  /\ pc[p] = "write_wait" =>
       /\ drv[p].count < RqLen
       /\ Fresh => drv[p].count = 0
       /\ ~ Fresh => reg.state # "READ"
       /\ ~ Fresh /\ reg.state = "WRITE" =>
            /\ ~ bmc.end
            /\ reg.ibf => reg.ctl = "DATA" /\ drv[p].count = Len(bmc.rq) + 1
            /\ ~ reg.ibf => drv[p].count = Len(bmc.rq)
  /\ pc[p] = "write" =>
       /\ drv[p].count < RqLen /\ ~ reg.ibf /\ reg.state # "READ"
       /\ reg.state = "WRITE" => ~ bmc.end /\ drv[p].count = Len(bmc.rq)
  /\ pc[p] = "end_wait" =>
       /\ drv[p].count = RqLen - 1 /\ ~ Fresh /\ reg.state # "READ"
       /\ reg.state = "WRITE" =>
            /\ Len(bmc.rq) = RqLen - 1
            /\ reg.ibf => reg.ctl = "WRITE_END"
            /\ ~ reg.ibf => bmc.end
  /\ pc[p] = "last" =>
       /\ drv[p].count = RqLen - 1 /\ ~ reg.ibf /\ reg.state # "READ"
       /\ reg.state = "WRITE" => bmc.end /\ ~ reg.obf

DrvRead(p) ==
  /\ pc[p] = "read_wait" =>
       /\ ~ Fresh
       /\ reg.state = "WRITE" => reg.ibf /\ reg.ctl = "DATA" /\ bmc.end /\ ~ reg.obf
       /\ reg.state = "READ" => ~ reg.ibf /\ Coming(p)
  /\ pc[p] = "obf_wait" =>
       /\ ~ reg.ibf /\ reg.state # "WRITE"
       /\ reg.state = "READ" => Coming(p)
       /\ reg.state # "READ" => ~ reg.obf /\ ~ bmc.due
  /\ pc[p] = "next" =>
       /\ ~ reg.ibf /\ reg.state # "WRITE" /\ ~ reg.obf /\ ~ bmc.due
       /\ reg.state = "READ" => Got(p, RsLen - Len(bmc.rs))
  /\ pc[p] = "next_wait" =>
       /\ ~ Fresh /\ reg.state # "WRITE"
       /\ reg.ibf => /\ reg.ctl = "READ" /\ ~ reg.obf /\ ~ bmc.due
                     /\ reg.state = "READ" => Got(p, RsLen - Len(bmc.rs))
       /\ ~ reg.ibf /\ reg.state = "READ" => Coming(p)
       /\ reg.state = "IDLE" /\ (reg.obf \/ bmc.due) =>
            InLog /\ bmc.rs = <<>> /\ Got(p, RsLen)
  /\ pc[p] = "ack_wait" =>
       /\ ~ reg.ibf /\ reg.state \notin {"WRITE", "READ"}
       /\ reg.obf \/ bmc.due => InLog /\ bmc.rs = <<>> /\ Got(p, RsLen)

DrvInv == \A p \in Proc : DrvStart(p) /\ DrvWrite(p) /\ DrvRead(p)

IInv == Shape /\ SemInv /\ CallInv /\ BmcInv /\ DrvInv

-----------------------------------------------------------------------------
(* The bytes of a request and of an answer. *)

\* One more byte.
LEMMA FirstAppend ==
  ASSUME NEW c, NEW n \in Nat
  PROVE  Append(First(c, n), Byte(c, n + 1)) = First(c, n + 1)
  BY DEF First, Byte

\* A whole request is recognised as the command it is of.
LEMMA FirstRequested ==
  ASSUME NEW c
  PROVE  Requested(First(c, RqLen)) = c
<1>1. First(c, RqLen)[1] = <<c, 1>>
  BY KcsAssumption DEF First, Byte
<1>2. First(c, RqLen)[1][1] = c
  BY <1>1
<1>3. Request(c) = First(c, RqLen)
  BY DEF Request, First
<1> QED BY <1>2, <1>3 DEF Requested

\* What the caller has after the whole answer is recognised as the answer.
LEMMA GotAnswered ==
  ASSUME NEW p, Got(p, RsLen)
  PROVE  Answered(drv[p].buf) = cur
<1> DEFINE n == IF RsLen < BufLen THEN RsLen ELSE BufLen
<1>1. n \in Nat \ {0} /\ n <= RsLen
  BY KcsAssumption
<1>2. drv[p].buf = First(cur, n)
  BY DEF Got
<1>3. Kept(Response(cur)) = First(cur, n)
  <2>1. Len(Response(cur)) = RsLen
    BY KcsAssumption DEF Response
  <2>2. Kept(Response(cur)) = SubSeq(Response(cur), 1, n)
    BY <2>1 DEF Kept
  <2> QED BY <2>2, <1>1, KcsAssumption DEF Response, First, Byte
<1>4. First(cur, n)[1] = <<cur, 1>>
  BY <1>1 DEF First, Byte
<1> QED BY <1>2, <1>3, <1>4 DEF Answered

\* The next byte of an answer, and what is then left of it.
LEMMA FinalHead ==
  ASSUME NEW c, NEW n \in 1 .. RsLen
  PROVE  /\ Head(Final(c, n)) = Byte(c, RsLen - n + 1)
         /\ Tail(Final(c, n)) = Final(c, n - 1)
<1> DEFINE S == {Byte(c, k) : k \in Nat}
<1>1. RsLen \in Nat /\ n \in Nat /\ n > 0 /\ n - 1 \in Nat
  BY KcsAssumption
<1>2. \A m \in 0 .. RsLen :
        /\ Final(c, m) \in Seq(S) /\ Len(Final(c, m)) = m
        /\ \A k \in 1 .. m : Final(c, m)[k] = Byte(c, RsLen - m + k)
  BY <1>1 DEF Final
<1> HIDE DEF S
<1> DEFINE s == Final(c, n)
           t == Final(c, n - 1)
<1>a. /\ s \in Seq(S) /\ Len(s) = n
      /\ s[1] = Byte(c, RsLen - n + 1)
  BY <1>1, <1>2
<1>b. /\ t \in Seq(S) /\ Len(t) = n - 1
      /\ \A k \in 1 .. n - 1 : t[k] = Byte(c, RsLen - (n - 1) + k)
  BY <1>1, <1>2
<1> HIDE DEF s, t
<1>3. s # <<>>
  BY <1>1, <1>a
<1>4. Head(s) = Byte(c, RsLen - n + 1)
  BY <1>1, <1>3, <1>a
<1>5. /\ Tail(s) \in Seq(S) /\ Len(Tail(s)) = n - 1
      /\ \A k \in 1 .. n - 1 : Tail(s)[k] = s[k + 1]
  BY <1>1, <1>a, <1>3, HeadTailProperties
<1>6. \A k \in 1 .. n - 1 : s[k + 1] = Byte(c, RsLen - (n - 1) + k)
  BY <1>1 DEF Final, s
<1>7. Tail(s) = t
  <2>1. Len(Tail(s)) = Len(t) /\ \A k \in 1 .. Len(Tail(s)) : Tail(s)[k] = t[k]
    BY <1>1, <1>b, <1>5, <1>6
  <2> QED BY <2>1, <1>b, <1>5, SeqEqual
<1> QED BY <1>4, <1>7 DEF s, t

LEMMA ResponseFinal ==
  ASSUME NEW c
  PROVE  Response(c) = Final(c, RsLen)
  BY KcsAssumption DEF Response, Final, Byte

LEMMA Lengths ==
  ASSUME NEW c, NEW n \in Nat
  PROVE  Len(First(c, n)) = n /\ Len(Final(c, n)) = n
  BY DEF First, Final

-----------------------------------------------------------------------------
(* What most steps leave alone. *)

ControlTypes == {"closed", "creator", "idle", "lock"} \cup Holding

\* A process between lock and unlock goes on.
LEMMA HolderStays ==
  ASSUME Shape, SemInv, NEW p \in Proc, pc[p] \in Holding,
         NEW l \in Holding, Goto(p, l), UNCHANGED sem
  PROVE  SemInv' /\ pc' \in [Proc -> ControlTypes]
<1>1. pc' \in [Proc -> ControlTypes]
  BY DEF Shape, Goto, ControlTypes
<1>2. \A q \in Proc : pc'[q] = IF q = p THEN l ELSE pc[q]
  BY DEF Shape, Goto
<1>3. l # "creator" /\ pc[p] # "creator"
  BY DEF Holding
<1> QED BY <1>1, <1>2, <1>3 DEF SemInv

\* It unlocks, or dies and the semaphore is given back.
LEMMA HolderEnds ==
  ASSUME Shape, SemInv, NEW p \in Proc, pc[p] \in Holding,
         NEW l \in {"idle", "closed"}, Goto(p, l), sem' = Unlocked
  PROVE  /\ SemInv' /\ pc' \in [Proc -> ControlTypes]
         /\ sem' \in [phase : {"absent", "made", "set"}, value : {0, 1}]
<1>1. pc' \in [Proc -> ControlTypes]
  BY DEF Shape, Goto, ControlTypes
<1>2. \A q \in Proc : pc'[q] = IF q = p THEN l ELSE pc[q]
  BY DEF Shape, Goto
<1>3. l \notin Holding \cup {"creator"} /\ pc[p] # "creator"
  BY DEF Holding
<1>4. sem.phase = "set" /\ sem.value = 0
  BY DEF Shape, SemInv
<1>5. /\ sem'.phase = "set" /\ sem'.value = 1
      /\ sem' \in [phase : {"absent", "made", "set"}, value : {0, 1}]
  <2>1. sem \in [phase : {"absent", "made", "set"}, value : {0, 1}]
    BY DEF Shape
  <2>2. sem' = [sem EXCEPT !.value = 1]
    BY <1>4 DEF Unlocked
  <2> QED BY <2>1, <2>2, <1>4
<1> QED BY <1>1, <1>2, <1>3, <1>4, <1>5 DEF SemInv

\* No command is begun or given to the BMC.
LEMMA CallsKept ==
  ASSUME Shape, CallInv, NEW p \in Proc, NEW l \in ControlTypes, Goto(p, l),
         l \in Serving => pc[p] \in Serving,
         l \in Waits => pc[p] \in Waits,
         UNCHANGED <<calls, cur, log>>
  PROVE  CallInv'
<1>1. \A q \in Proc : pc'[q] = IF q = p THEN l ELSE pc[q]
  BY DEF Shape, Goto
<1> QED BY <1>1 DEF CallInv, Given

\* The processes that do not hold the semaphore.
LEMMA OtherDrv ==
  ASSUME Shape, SemInv, DrvInv,
         NEW q \in Proc, pc[q] \notin Holding,
         pc'[q] = pc[q], drv'[q] = drv[q]
  PROVE  DrvStart(q)' /\ DrvWrite(q)' /\ DrvRead(q)'
<1>1. pc[q] \notin {"start", "write_wait", "write", "end_wait", "last", "read_wait",
                    "obf_wait", "next", "next_wait", "ack_wait"}
  BY DEF Holding
<1> QED BY <1>1 DEF DrvInv, DrvStart, DrvWrite, DrvRead, Waits

\* So of a holder's step only what concerns its own place is to be shown.
LEMMA StepDrv ==
  ASSUME Shape, SemInv, DrvInv, NEW p \in Proc, NEW l \in ControlTypes, Goto(p, l),
         pc[p] \in Holding,
         \A q \in Proc \ {p} : drv'[q] = drv[q],
         DrvStart(p)' /\ DrvWrite(p)' /\ DrvRead(p)'
  PROVE  DrvInv'
<1>1. ASSUME NEW q \in Proc, q # p
      PROVE  DrvStart(q)' /\ DrvWrite(q)' /\ DrvRead(q)'
  <2>1. pc[q] \notin Holding /\ pc'[q] = pc[q] /\ drv'[q] = drv[q]
    BY <1>1 DEF SemInv, Shape, Goto
  <2> QED BY <2>1, OtherDrv
<1> QED BY <1>1 DEF DrvInv

-----------------------------------------------------------------------------
(* The end of a command. *)

\* The BMC's side is as before but that a waiting byte may have been read.
LEMMA BmcKept ==
  ASSUME Shape, BmcInv, reg' = reg \/ reg' = ClearedObf(reg),
         UNCHANGED <<bmc, cur, log>>
  PROVE  /\ BmcInv'
         /\ reg' \in [ibf : BOOLEAN, obf : BOOLEAN,
                      state : {"IDLE", "WRITE", "READ", "ERROR"},
                      ctl : {"WRITE_START", "WRITE_END", "READ", "DATA"},
                      in : Bytes \cup {None}, out : Bytes]
         /\ reg'.ibf = reg.ibf /\ reg'.state = reg.state /\ reg'.ctl = reg.ctl
         /\ reg'.in = reg.in /\ reg'.out = reg.out
         /\ reg' = reg \/ reg'.obf = FALSE
<1>1. /\ reg' \in [ibf : BOOLEAN, obf : BOOLEAN,
                      state : {"IDLE", "WRITE", "READ", "ERROR"},
                      ctl : {"WRITE_START", "WRITE_END", "READ", "DATA"},
                      in : Bytes \cup {None}, out : Bytes]
      /\ reg'.ibf = reg.ibf /\ reg'.state = reg.state /\ reg'.ctl = reg.ctl
      /\ reg'.in = reg.in /\ reg'.out = reg.out
      /\ reg' = reg \/ reg'.obf = FALSE
  BY DEF Shape, ClearedObf
<1> QED BY <1>1 DEF BmcInv, Fresh, InLog

LEMMA EndInv ==
  ASSUME IInv, NEW p \in Proc, pc[p] \in Holding,
         NEW a \in Calls \cup {None, Failed}, End(p, a),
         reg' = reg \/ reg' = ClearedObf(reg),
         UNCHANGED <<drv, bmc, calls, cur, log>>
  PROVE  IInv'
<1> USE DEF IInv, End
<1>1. "idle" \in ControlTypes \ (Serving \cup Waits)
  BY DEF ControlTypes, Serving, Waits, Holding
<1>2. SemInv' /\ pc' \in [Proc -> ControlTypes]
      /\ sem' \in [phase : {"absent", "made", "set"}, value : {0, 1}]
  BY HolderEnds
<1>3. CallInv'
  BY <1>1, CallsKept
<1>4. BmcInv'
  BY BmcKept
<1>5. Shape'
  BY <1>2, BmcKept DEF Shape, ControlTypes
<1>6. DrvInv'
  <2>1. pc'[p] = "idle"
    BY DEF Goto, Shape
  <2>2. DrvStart(p)' /\ DrvWrite(p)' /\ DrvRead(p)'
    BY <2>1 DEF DrvStart, DrvWrite, DrvRead, Waits
  <2> QED BY <1>1, <2>2, StepDrv
<1> QED BY <1>2, <1>3, <1>4, <1>5, <1>6

\* A wait times out: the command fails, wherever it stands.
LEMMA TimeoutInv ==
  ASSUME IInv, NEW p \in Proc, Timeout(p)
  PROVE  IInv'
<1>1. pc[p] \in Holding
  BY DEF Timeout, TimedOut, IbfWaits, ObfWaits, Holding
<1> QED BY <1>1, EndInv DEF Timeout

\* A process dies.
LEMMA CrashInv ==
  ASSUME IInv, NEW p \in Proc, Crash(p)
  PROVE  IInv'
<1> USE DEF IInv, Crash
<1>1. "closed" \in ControlTypes \ (Serving \cup Waits)
  BY DEF ControlTypes, Serving, Waits, Holding
<1>2. \A q \in Proc : pc'[q] = IF q = p THEN "closed" ELSE pc[q]
  BY DEF Shape, Goto
<1>3. SemInv' /\ pc' \in [Proc -> ControlTypes]
      /\ sem' \in [phase : {"absent", "made", "set"}, value : {0, 1}]
  <2>1. CASE pc[p] \in Holding
    BY <2>1, HolderEnds
  <2>2. CASE pc[p] \notin Holding
    <3>1. sem' = sem /\ pc' \in [Proc -> ControlTypes]
      BY <2>2 DEF Shape, Goto, ControlTypes
    <3>2. "closed" \notin Holding \cup {"creator"}
      BY DEF Holding
    <3>3. SemInv'
      BY <3>1, <3>2, <1>2, <2>2 DEF SemInv
    <3> QED BY <3>1, <3>3 DEF Shape
  <2> QED BY <2>1, <2>2
<1>4. CallInv'
  BY <1>1, CallsKept
<1>5. BmcInv'
  BY BmcKept
<1>6. Shape'
  BY <1>3 DEF Shape, ControlTypes
<1>7. DrvInv'
  BY <1>2 DEF DrvInv, DrvStart, DrvWrite, DrvRead, Waits, Fresh, Got, Coming, InLog
<1> QED BY <1>3, <1>4, <1>5, <1>6, <1>7

-----------------------------------------------------------------------------
(* The semaphore: driver_mutex_init(), driver_mutex_lock(). *)

\* Steps of a process that does not hold the semaphore leave the BMC alone.
LEMMA OutsideDrv ==
  ASSUME Shape, SemInv, DrvInv, NEW p \in Proc, NEW l, Goto(p, l),
         UNCHANGED <<reg, bmc, cur, log>>,
         \A q \in Proc \ {p} : drv'[q] = drv[q],
         DrvStart(p)' /\ DrvWrite(p)' /\ DrvRead(p)'
  PROVE  DrvInv'
<1>1. \A q \in Proc \ {p} : pc'[q] = pc[q]
  BY DEF Goto, Shape
<1> QED BY <1>1 DEF DrvInv, DrvStart, DrvWrite, DrvRead, Fresh, Got, Coming, InLog

LEMMA SemGetInv ==
  ASSUME IInv, NEW p \in Proc, SemGet(p)
  PROVE  IInv'
<1> USE DEF IInv
<1>1. PICK l \in {"creator", "idle"} :
        /\ Goto(p, l)
        /\ \/ l = "creator" /\ sem.phase = "absent"
              /\ sem' = [sem EXCEPT !.phase = "made"]
           \/ l = "idle" /\ sem' = sem
  BY DEF SemGet
<1>2. l \in ControlTypes \ (Serving \cup Waits \cup Holding)
  BY DEF ControlTypes, Serving, Waits, Holding
<1>3. \A q \in Proc : pc'[q] = IF q = p THEN l ELSE pc[q]
  BY <1>1 DEF Shape, Goto
<1>4. /\ sem' \in [phase : {"absent", "made", "set"}, value : {0, 1}]
      /\ sem'.value = sem.value
      /\ sem'.phase = IF l = "creator" THEN "made" ELSE sem.phase
  BY <1>1 DEF Shape
<1>5. Shape'
  BY <1>1, <1>2, <1>4 DEF Shape, SemGet, ControlTypes, Goto
<1>6. SemInv'
  <2>1. pc[p] \notin Holding \cup {"creator"}
    BY DEF SemGet, Holding
  <2> QED BY <2>1, <1>1, <1>2, <1>3, <1>4 DEF SemInv
<1>7. CallInv'
  BY <1>1, <1>2, CallsKept DEF SemGet
<1>8. BmcInv'
  BY BmcKept DEF SemGet
<1>9. DrvInv'
  <2>1. DrvStart(p)' /\ DrvWrite(p)' /\ DrvRead(p)'
    BY <1>1, <1>2, <1>3 DEF DrvStart, DrvWrite, DrvRead, Waits, Holding
  <2> QED BY <2>1, <1>1, OutsideDrv DEF SemGet
<1> QED BY <1>5, <1>6, <1>7, <1>8, <1>9

LEMMA SemSetAllInv ==
  ASSUME IInv, NEW p \in Proc, SemSetAll(p)
  PROVE  IInv'
<1> USE DEF IInv, SemSetAll
<1>2. "idle" \in ControlTypes \ (Serving \cup Waits \cup Holding)
  BY DEF ControlTypes, Serving, Waits, Holding
<1>3. \A q \in Proc : pc'[q] = IF q = p THEN "idle" ELSE pc[q]
  BY DEF Shape, Goto
<1>5. Shape'
  BY <1>2 DEF Shape, ControlTypes, Goto
<1>6. SemInv'
  BY <1>2, <1>3 DEF SemInv
<1>7. CallInv'
  BY <1>2, CallsKept
<1>8. BmcInv'
  BY BmcKept
<1>9. DrvInv'
  <2>1. DrvStart(p)' /\ DrvWrite(p)' /\ DrvRead(p)'
    BY <1>2, <1>3 DEF DrvStart, DrvWrite, DrvRead, Waits, Holding
  <2> QED BY <2>1, OutsideDrv
<1> QED BY <1>5, <1>6, <1>7, <1>8, <1>9

LEMMA CallStepInv ==
  ASSUME IInv, NEW p \in Proc, Call(p)
  PROVE  IInv'
<1> USE DEF IInv, Call
<1>1. "lock" \in (ControlTypes \cap Waits) \ (Serving \cup Holding)
  BY DEF ControlTypes, Serving, Waits, Holding
<1>2. \A q \in Proc : /\ pc'[q] = IF q = p THEN "lock" ELSE pc[q]
                      /\ calls'[q] = IF q = p THEN calls[q] + 1 ELSE calls[q]
                      /\ calls[q] \in 0 .. MaxCalls
  BY KcsAssumption DEF Shape, Goto
<1>3. drv'[p] = [count |-> 0, buf |-> <<>>] /\ \A q \in Proc \ {p} : drv'[q] = drv[q]
  BY DEF Shape
<1>5. Shape'
  <2>1. pc' \in [Proc -> ControlTypes]
    BY <1>1 DEF Goto, Shape, ControlTypes
  <2>2. calls' \in [Proc -> 0 .. MaxCalls]
    BY KcsAssumption DEF Shape
  <2>3. [count |-> 0, buf |-> <<>>] \in [count : 0 .. RqLen, buf : Seq(Bytes)]
    BY KcsAssumption
  <2>4. drv' \in [Proc -> [count : 0 .. RqLen, buf : Seq(Bytes)]]
    BY <2>3 DEF Shape
  <2> QED BY <2>1, <2>2, <2>4 DEF Shape, ControlTypes
<1>6. SemInv'
  <2>1. pc[p] \notin Holding \cup {"creator"}
    BY DEF Holding
  <2> QED BY <2>1, <1>1, <1>2 DEF SemInv
<1>7. CallInv'
  <2>1. ASSUME NEW c, Given(c) PROVE Given(c)'
    <3>1. c # <<p, calls[p] + 1>>
      BY <2>1, <1>2, KcsAssumption DEF Given
    <3> QED BY <2>1, <3>1, <1>2, KcsAssumption DEF Given
  <2>2. "lock" \notin Serving /\ \A q \in Proc : pc[q] = "idle" => pc[q] \notin Serving \cup Waits
    BY DEF Serving, Holding, Waits
  <2> QED BY <2>1, <2>2, <1>1, <1>2 DEF CallInv
<1>8. BmcInv'
  BY BmcKept
<1>9. DrvInv'
  <2>1. DrvStart(p)' /\ DrvWrite(p)' /\ DrvRead(p)'
    BY <1>1, <1>2, <1>3 DEF DrvStart, DrvWrite, DrvRead, Waits
  <2> QED BY <2>1, <1>3, OutsideDrv
<1> QED BY <1>5, <1>6, <1>7, <1>8, <1>9

LEMMA LockInv ==
  ASSUME IInv, NEW p \in Proc, Lock(p)
  PROVE  IInv'
<1> USE DEF IInv, Lock
<1>1. /\ "start_wait" \in (ControlTypes \cap Waits \cap Holding) \ Serving
      /\ "lock" \in Waits \ Holding
  BY DEF ControlTypes, Serving, Waits, Holding
<1>2. \A q \in Proc : pc'[q] = IF q = p THEN "start_wait" ELSE pc[q]
  BY DEF Shape, Goto
<1>3. sem.phase = "set" /\ sem.value = 1
  BY DEF Shape, SemInv
<1>4. /\ sem' \in [phase : {"absent", "made", "set"}, value : {0, 1}]
      /\ sem'.value = 0 /\ sem'.phase = "set"
  <2>1. sem \in [phase : {"absent", "made", "set"}, value : {0, 1}]
    BY DEF Shape
  <2>2. sem' = [sem EXCEPT !.value = 0]
    BY <1>3
  <2> QED BY <2>1, <2>2, <1>3
<1>5. Shape'
  BY <1>1, <1>4 DEF Shape, ControlTypes, Goto
<1>6. SemInv'
  <2>1. \A q \in Proc : pc[q] \notin Holding /\ pc[q] # "creator"
    BY <1>3 DEF SemInv
  <2> QED BY <1>1, <1>2, <1>4, <2>1 DEF SemInv
<1>7. CallInv'
  BY <1>1, CallsKept
<1>8. BmcInv'
  BY BmcKept
<1>9. DrvInv'
  <2>1. DrvStart(p)' /\ DrvWrite(p)' /\ DrvRead(p)'
    BY <1>1, <1>2 DEF DrvInv, DrvStart, DrvWrite, DrvRead, Waits
  <2> QED BY <2>1, OutsideDrv
<1> QED BY <1>5, <1>6, <1>7, <1>8, <1>9

LEMMA LockBusyInv ==
  ASSUME IInv, NEW p \in Proc, LockBusy(p)
  PROVE  IInv'
<1> USE DEF IInv, LockBusy
<1>2. "idle" \in ControlTypes \ (Serving \cup Waits \cup Holding)
  BY DEF ControlTypes, Serving, Waits, Holding
<1>3. \A q \in Proc : pc'[q] = IF q = p THEN "idle" ELSE pc[q]
  BY DEF Shape, Goto
<1>4. "lock" \notin Holding
  BY DEF Holding
<1>5. Shape'
  BY <1>2 DEF Shape, ControlTypes, Goto
<1>6. SemInv'
  BY <1>2, <1>3, <1>4 DEF SemInv
<1>7. CallInv'
  BY <1>2, CallsKept
<1>8. BmcInv'
  BY BmcKept
<1>9. DrvInv'
  <2>1. DrvStart(p)' /\ DrvWrite(p)' /\ DrvRead(p)'
    BY <1>2, <1>3 DEF DrvStart, DrvWrite, DrvRead, Waits, Holding
  <2> QED BY <2>1, OutsideDrv
<1> QED BY <1>5, <1>6, <1>7, <1>8, <1>9

-----------------------------------------------------------------------------
(* ipmi_kcs_write() and ipmi_kcs_read(): what the holder's next step has to *)
(* show.                                                                    *)

RegType ==
  [ibf : BOOLEAN, obf : BOOLEAN, state : {"IDLE", "WRITE", "READ", "ERROR"},
   ctl : {"WRITE_START", "WRITE_END", "READ", "DATA"},
   in : Bytes \cup {None}, out : Bytes]

LEMMA HolderStep ==
  ASSUME IInv, NEW p \in Proc, pc[p] \in Holding, NEW l \in Holding, Goto(p, l),
         l \in Serving => pc[p] \in Serving,
         l \in Waits => pc[p] \in Waits,
         UNCHANGED <<sem, bmc, calls, cur, log, answer>>,
         drv' \in [Proc -> [count : 0 .. RqLen, buf : Seq(Bytes)]],
         \A q \in Proc \ {p} : drv'[q] = drv[q],
         reg' \in RegType, BmcInv',
         pc'[p] = l => DrvStart(p)' /\ DrvWrite(p)' /\ DrvRead(p)'
  PROVE  IInv'
<1> USE DEF IInv
<1>1. l \in ControlTypes
  BY DEF ControlTypes
<1>2. SemInv' /\ pc' \in [Proc -> ControlTypes]
  BY HolderStays
<1>3. CallInv'
  BY <1>1, CallsKept
<1>4. DrvInv'
  <2>1. pc'[p] = l
    BY DEF Goto, Shape
  <2> QED BY <2>1, <1>1, StepDrv
<1>5. Shape'
  BY <1>2 DEF Shape, ControlTypes, RegType
<1> QED BY <1>2, <1>3, <1>4, <1>5

LEMMA StartWaitInv ==
  ASSUME IInv, NEW p \in Proc, StartWait(p)
  PROVE  IInv'
<1> USE DEF IInv, StartWait
<1>1. pc[p] \in Holding /\ "start" \in (Holding \cap Waits) \ Serving /\ pc[p] \in Waits
  BY DEF Holding, Waits, Serving
<1>2. BmcInv' /\ reg' \in RegType /\ ~ reg'.ibf
  BY BmcKept DEF RegType
<1>3. pc'[p] = "start" => DrvStart(p)' /\ DrvWrite(p)' /\ DrvRead(p)'
  BY <1>1, <1>2 DEF DrvInv, DrvStart, DrvWrite, DrvRead
<1>4. drv' \in [Proc -> [count : 0 .. RqLen, buf : Seq(Bytes)]]
      /\ \A q \in Proc \ {p} : drv'[q] = drv[q]
  BY DEF Shape
<1> QED BY <1>1, <1>2, <1>3, <1>4, HolderStep

\* A control code or a byte in the register.
LEMMA OutCtlReg ==
  ASSUME Shape, NEW code \in {"WRITE_START", "WRITE_END", "READ"}, OutCtl(code)
  PROVE  /\ reg' \in RegType
         /\ reg'.ibf = TRUE /\ reg'.ctl = code /\ reg'.in = None
         /\ reg'.obf = reg.obf /\ reg'.out = reg.out /\ reg'.state = reg.state
  BY DEF Shape, RegType, OutCtl

LEMMA OutReg ==
  ASSUME Shape, NEW b \in Bytes, Out(b)
  PROVE  /\ reg' \in RegType
         /\ reg'.ibf = TRUE /\ reg'.ctl = "DATA" /\ reg'.in = b
         /\ reg'.obf = reg.obf /\ reg'.out = reg.out /\ reg'.state = reg.state
  BY DEF Shape, RegType, Out

\* The command becomes the current one; it was not executed before.
LEMMA StartWriteInv ==
  ASSUME IInv, NEW p \in Proc, StartWrite(p)
  PROVE  IInv'
<1> USE DEF IInv, StartWrite
<1>1. /\ pc[p] \in Holding \cap Waits
      /\ "write_wait" \in (ControlTypes \cap Serving \cap Holding) \ Waits
  BY DEF Holding, Waits, Serving, ControlTypes
<1>2. \A q \in Proc : pc'[q] = IF q = p THEN "write_wait" ELSE pc[q]
  BY DEF Shape, Goto
<1>3. calls[p] \in 1 .. MaxCalls /\ cur' \in Calls /\ cur' # None
  BY <1>1, KcsAssumption DEF Shape, CallInv, Calls, None
<1>4. /\ reg' \in RegType /\ reg'.state = reg.state
      /\ reg'.ibf = TRUE /\ reg'.ctl = "WRITE_START"
  BY OutCtlReg
<1>5. SemInv' /\ pc' \in [Proc -> ControlTypes]
  BY <1>1, HolderStays
<1>6. Shape'
  BY <1>3, <1>4, <1>5 DEF Shape, ControlTypes, RegType
<1>7. CallInv'
  <2>1. Given(cur)'
    <3>1. ASSUME NEW q \in Proc, NEW n \in 1 .. MaxCalls, cur' = <<q, n>>
          PROVE  n <= calls'[q]
      <4>1. q = p /\ n = calls[p]
        BY <3>1
      <4> QED BY <4>1, <1>3
    <3>2. ASSUME NEW q \in Proc, pc'[q] \in Waits
          PROVE  cur' # <<q, calls'[q]>>
      <4>1. q # p
        BY <3>2, <1>1, <1>2
      <4> QED BY <4>1
    <3> QED BY <3>1, <3>2 DEF Given
  <2>2. (\A k \in 1 .. Len(log) : Given(log[k]))'
    BY <1>1, <1>2 DEF CallInv, Given
  <2>3. \A q \in Proc : pc[q] \in Serving => q = p
    BY <1>1 DEF Serving, SemInv
  <2> QED BY <2>1, <2>2, <2>3, <1>1, <1>2, <1>3 DEF CallInv
<1>8. BmcInv'
  <2>1. ~ InLog'
    BY <1>1, <1>3 DEF CallInv, Given, InLog
  <2> QED BY <2>1, <1>3, <1>4 DEF BmcInv, Fresh
<1>9. DrvInv'
  <2>1. drv[p].count = 0 /\ drv[p].buf = <<>>
    BY <1>1 DEF DrvInv, DrvStart
  <2>2. DrvStart(p)' /\ DrvWrite(p)' /\ DrvRead(p)'
    BY <2>1, <1>2, <1>4, KcsAssumption DEF DrvStart, DrvWrite, DrvRead, Waits, Fresh
  <2>3. \A q \in Proc \ {p} : drv'[q] = drv[q]
    OBVIOUS
  <2> QED BY <2>2, <2>3, <1>1, StepDrv
<1> QED BY <1>5, <1>6, <1>7, <1>8, <1>9

LEMMA WriteWaitInv ==
  ASSUME IInv, NEW p \in Proc, WriteWait(p)
  PROVE  IInv'
<1> USE DEF IInv, WriteWait
<1>1. /\ pc[p] \in Holding \cap Serving /\ pc[p] \in {"write_wait", "end_wait"}
      /\ {"write", "last"} \subseteq (Serving \cap Holding) \ Waits
  BY DEF Holding, Waits, Serving
<1>2. CASE reg.state = "WRITE"
  <2> DEFINE l == IF pc[p] = "end_wait" THEN "last" ELSE "write"
  <2>1. Goto(p, l) /\ reg' = ClearedObf(reg) /\ UNCHANGED <<sem, answer>>
    BY <1>2
  <2>2. /\ BmcInv' /\ reg' \in RegType
        /\ reg'.ibf = FALSE /\ reg'.state = "WRITE" /\ reg'.obf = FALSE
    <3>1. reg'.obf = FALSE
      BY <2>1 DEF Shape, ClearedObf
    <3> QED BY <2>1, <1>2, <3>1, BmcKept DEF RegType, Shape
  <2>3. ~ Fresh
    BY DEF Fresh
  <2>4. pc'[p] = l => DrvStart(p)' /\ DrvWrite(p)' /\ DrvRead(p)'
    <3>1. CASE pc[p] = "end_wait"
      BY <3>1, <1>2, <2>2, <2>3 DEF DrvInv, DrvStart, DrvWrite, DrvRead, Waits
    <3>2. CASE pc[p] = "write_wait"
      BY <3>2, <1>2, <2>2, <2>3 DEF DrvInv, DrvStart, DrvWrite, DrvRead, Waits
    <3> QED BY <1>1, <3>1, <3>2
  <2>5. drv' \in [Proc -> [count : 0 .. RqLen, buf : Seq(Bytes)]]
        /\ \A q \in Proc \ {p} : drv'[q] = drv[q]
    BY DEF Shape
  <2>6. l \in (Serving \cap Holding) \ Waits
    BY <1>1
  <2> QED BY <1>1, <2>1, <2>2, <2>4, <2>5, <2>6, HolderStep
<1>3. CASE reg.state # "WRITE"
  BY <1>1, <1>3, EndInv
<1> QED BY <1>2, <1>3

\* A byte of the request, WRITE_END, or the last byte.
LEMMA WriteByteInv ==
  ASSUME IInv, NEW p \in Proc, WriteByte(p)
  PROVE  IInv'
<1> USE DEF IInv
<1> DEFINE c == <<p, calls[p]>>
           count == drv[p].count
<1>1. /\ pc[p] \in Holding \cap Serving /\ pc[p] \in {"write", "last"}
      /\ {"write_wait", "end_wait", "read_wait"} \subseteq (Serving \cap Holding) \ Waits
  BY DEF WriteByte, Holding, Waits, Serving
<1>2. cur = c /\ c \in Calls /\ cur # None /\ count \in 0 .. RqLen
  <2>1. cur = c /\ calls[p] \in 1 .. MaxCalls
    BY <1>1, KcsAssumption DEF Shape, CallInv
  <2>2. count \in 0 .. RqLen
    BY DEF Shape
  <2> QED BY <2>1, <2>2 DEF Calls, None
<1>3. ~ Fresh /\ ~ reg.ibf /\ count < RqLen /\ count + 1 \in 0 .. RqLen
      /\ Byte(c, count + 1) \in Bytes
  BY <1>1, <1>2, KcsAssumption DEF DrvInv, DrvWrite, Fresh, Byte, Bytes
<1>4. ASSUME NEW l \in {"write_wait", "read_wait"}, Goto(p, l),
             Out(Byte(c, count + 1)),
             drv' = [drv EXCEPT ![p].count = @ + 1], UNCHANGED sem,
             \/ pc[p] = "write" /\ l = "write_wait" /\ count < RqLen - 1
             \/ pc[p] = "last" /\ l = "read_wait"
      PROVE  IInv'
  <2>1. /\ reg' \in RegType
        /\ reg'.ibf = TRUE /\ reg'.ctl = "DATA" /\ reg'.in = Byte(c, count + 1)
        /\ reg'.obf = reg.obf /\ reg'.out = reg.out /\ reg'.state = reg.state
    BY <1>3, <1>4, OutReg
  <2>2. /\ drv' \in [Proc -> [count : 0 .. RqLen, buf : Seq(Bytes)]]
        /\ \A q \in Proc \ {p} : drv'[q] = drv[q]
        /\ drv'[p].count = count + 1 /\ drv'[p].buf = drv[p].buf
    BY <1>2, <1>3, <1>4, ZenonT(60) DEF Shape
  <2>3. UNCHANGED <<bmc, calls, cur, log, answer>>
    BY DEF WriteByte
  <2>4. /\ reg.state = "WRITE" => ~ bmc.due /\ (bmc.end <=> pc[p] = "last") /\ count = Len(bmc.rq)
        /\ reg.state # "READ" /\ (pc[p] = "last" => count = RqLen - 1)
        /\ pc[p] = "last" /\ reg.state = "WRITE" => ~ reg.obf
    BY <1>1, <1>3 DEF DrvInv, DrvWrite, BmcInv
  <2>5. BmcInv'
    BY <2>1, <2>3, <2>4, <1>2, <1>3, <1>4 DEF BmcInv, Fresh, InLog
  <2>6. drv[p].buf = <<>>
    BY <1>1 DEF DrvInv, DrvStart
  <2>7. pc'[p] = l => DrvStart(p)' /\ DrvWrite(p)' /\ DrvRead(p)'
    <3>1. CASE l = "write_wait"
      BY <3>1, <2>1, <2>2, <2>3, <2>4, <2>6, <1>2, <1>3, <1>4, KcsAssumption
         DEF DrvStart, DrvWrite, DrvRead, Waits, Fresh
    <3>2. CASE l = "read_wait"
      BY <3>2, <2>1, <2>2, <2>3, <2>4, <2>6, <1>2, <1>3, <1>4, KcsAssumption
         DEF DrvStart, DrvWrite, DrvRead, Waits, Fresh
    <3> QED BY <3>1, <3>2
  <2> QED BY <1>1, <1>4, <2>1, <2>2, <2>3, <2>5, <2>7, HolderStep
<1>5. ASSUME Goto(p, "end_wait"), OutCtl("WRITE_END"), UNCHANGED <<sem, drv>>,
             pc[p] = "write", count = RqLen - 1
      PROVE  IInv'
  <2>1. /\ reg' \in RegType
        /\ reg'.ibf = TRUE /\ reg'.ctl = "WRITE_END"
        /\ reg'.obf = reg.obf /\ reg'.out = reg.out /\ reg'.state = reg.state
    BY <1>5, OutCtlReg
  <2>2. /\ drv' \in [Proc -> [count : 0 .. RqLen, buf : Seq(Bytes)]]
        /\ \A q \in Proc \ {p} : drv'[q] = drv[q]
    BY <1>5 DEF Shape
  <2>3. UNCHANGED <<bmc, calls, cur, log, answer>>
    BY DEF WriteByte
  <2>4. /\ reg.state = "WRITE" => count = Len(bmc.rq)
        /\ reg.state # "READ" /\ drv[p].buf = <<>>
    BY <1>5 DEF DrvInv, DrvStart, DrvWrite
  <2>5. BmcInv'
    BY <2>1, <2>3, <2>4, <1>2, <1>3, <1>5 DEF BmcInv, Fresh, InLog
  <2>6. pc'[p] = "end_wait" => DrvStart(p)' /\ DrvWrite(p)' /\ DrvRead(p)'
    BY <2>1, <2>3, <2>4, <1>5 DEF DrvStart, DrvWrite, DrvRead, Waits, Fresh
  <2> QED BY <1>1, <1>5, <2>1, <2>2, <2>3, <2>5, <2>6, HolderStep
<1>6. CASE pc[p] = "write" /\ count < RqLen - 1
  <2>1. /\ Goto(p, "write_wait") /\ Out(Byte(c, count + 1)) /\ UNCHANGED sem
        /\ drv' = [drv EXCEPT ![p].count = @ + 1]
    BY <1>2, <1>6, KcsAssumption DEF WriteByte
  <2> QED BY <2>1, <1>4, <1>6
<1>7. CASE pc[p] = "write" /\ count >= RqLen - 1
  <2>1. count = RqLen - 1
    BY <1>2, <1>3, <1>7, KcsAssumption
  <2>2. Goto(p, "end_wait") /\ OutCtl("WRITE_END") /\ UNCHANGED <<sem, drv>>
    BY <2>1, <1>7, KcsAssumption DEF WriteByte
  <2> QED BY <2>1, <2>2, <1>5, <1>7
<1>8. CASE pc[p] = "last"
  <2>1. /\ Goto(p, "read_wait") /\ Out(Byte(c, count + 1)) /\ UNCHANGED sem
        /\ drv' = [drv EXCEPT ![p].count = @ + 1]
    BY <1>8 DEF WriteByte
  <2> QED BY <2>1, <1>4, <1>8
<1> QED BY <1>1, <1>2, <1>6, <1>7, <1>8, KcsAssumption

LEMMA ReadWaitInv ==
  ASSUME IInv, NEW p \in Proc, ReadWait(p)
  PROVE  IInv'
<1> USE DEF IInv, ReadWait
<1>1. /\ pc[p] \in Holding \cap Serving
      /\ "obf_wait" \in (Serving \cap Holding) \ Waits
  BY DEF Holding, Waits, Serving
<1>2. CASE reg.state = "READ"
  <2>1. BmcInv' /\ reg' \in RegType /\ reg' = reg
    BY BmcKept DEF RegType
  <2>2. pc'[p] = "obf_wait" => DrvStart(p)' /\ DrvWrite(p)' /\ DrvRead(p)'
    BY <1>2, <2>1 DEF DrvInv, DrvStart, DrvWrite, DrvRead, Waits, Coming, Got
  <2>3. drv' \in [Proc -> [count : 0 .. RqLen, buf : Seq(Bytes)]]
        /\ \A q \in Proc \ {p} : drv'[q] = drv[q]
    BY DEF Shape
  <2> QED BY <1>1, <1>2, <2>1, <2>2, <2>3, HolderStep
<1>3. CASE reg.state # "READ"
  BY <1>1, <1>3, EndInv
<1> QED BY <1>2, <1>3

\* The buffer after one more byte of the answer.
LEMMA GotNext ==
  ASSUME NEW c, NEW k \in Nat, NEW buf,
         buf = First(c, IF k < BufLen THEN k ELSE BufLen)
  PROVE  (IF Len(buf) < BufLen THEN Append(buf, Byte(c, k + 1)) ELSE buf)
           = First(c, IF k + 1 < BufLen THEN k + 1 ELSE BufLen)
<1>1. BufLen \in Nat
  BY KcsAssumption
<1>2. CASE k < BufLen
  <2>1. buf = First(c, k) /\ Len(buf) = k
    BY <1>2, Lengths
  <2>2. (IF k + 1 < BufLen THEN k + 1 ELSE BufLen) = k + 1
    BY <1>1, <1>2
  <2> QED BY <1>2, <2>1, <2>2, FirstAppend
<1>3. CASE ~ (k < BufLen)
  <2>1. buf = First(c, BufLen) /\ Len(buf) = BufLen
    BY <1>1, <1>3, Lengths
  <2>2. (IF k + 1 < BufLen THEN k + 1 ELSE BufLen) = BufLen
    BY <1>1, <1>3
  <2> QED BY <1>1, <2>1, <2>2
<1> QED BY <1>2, <1>3

LEMMA ReadByteInv ==
  ASSUME IInv, NEW p \in Proc, ReadByte(p)
  PROVE  IInv'
<1> USE DEF IInv
<1> DEFINE m == Len(bmc.rs)
<1>1. /\ pc[p] \in Holding \cap Serving /\ pc[p] = "obf_wait" /\ reg.obf
      /\ "next" \in (Serving \cap Holding) \ Waits
  BY DEF ReadByte, Holding, Waits, Serving
<1>2. /\ reg.state = "READ" /\ ~ reg.ibf /\ ~ bmc.due /\ m < RsLen
      /\ reg.out = Byte(cur, RsLen - m) /\ Got(p, RsLen - m - 1)
  BY <1>1 DEF DrvInv, DrvRead, Coming
<1>3. m \in Nat /\ RsLen - m - 1 \in Nat /\ RsLen - m - 1 + 1 = RsLen - m
  BY <1>2, KcsAssumption DEF Shape
<1>4. /\ drv' = [drv EXCEPT ![p].buf =
                   IF Len(@) < BufLen THEN Append(@, reg.out) ELSE @]
      /\ reg' = ClearedObf(reg) /\ Goto(p, "next")
      /\ UNCHANGED <<sem, bmc, calls, cur, log, answer>>
  BY DEF ReadByte
<1>5. BmcInv' /\ reg' \in RegType /\ reg'.ibf = reg.ibf /\ reg'.state = reg.state
      /\ reg'.obf = FALSE
  <2>1. reg'.obf = FALSE
    BY <1>4 DEF Shape, ClearedObf
  <2> QED BY <1>4, <2>1, BmcKept DEF RegType
<1>6. /\ drv' \in [Proc -> [count : 0 .. RqLen, buf : Seq(Bytes)]]
      /\ \A q \in Proc \ {p} : drv'[q] = drv[q]
      /\ drv'[p].buf = IF Len(drv[p].buf) < BufLen
                       THEN Append(drv[p].buf, reg.out) ELSE drv[p].buf
  <2>1. drv[p].buf \in Seq(Bytes) /\ reg.out \in Bytes
    BY DEF Shape
  <2>2. Append(drv[p].buf, reg.out) \in Seq(Bytes)
    BY <2>1
  <2> QED BY <1>4, <2>1, <2>2, ZenonT(60) DEF Shape
<1>7. Got(p, RsLen - m)'
  BY <1>2, <1>3, <1>4, <1>6, GotNext DEF Got
<1>8. pc'[p] = "next" => DrvStart(p)' /\ DrvWrite(p)' /\ DrvRead(p)'
  BY <1>2, <1>4, <1>5, <1>7 DEF DrvStart, DrvWrite, DrvRead, Waits
<1> QED BY <1>1, <1>4, <1>5, <1>6, <1>8, HolderStep

LEMMA ReadNextInv ==
  ASSUME IInv, NEW p \in Proc, ReadNext(p)
  PROVE  IInv'
<1> USE DEF IInv, ReadNext
<1>1. /\ pc[p] \in Holding \cap Serving
      /\ "next_wait" \in (Serving \cap Holding) \ Waits
  BY DEF Holding, Waits, Serving
<1>2. /\ reg' \in RegType /\ reg'.ibf = TRUE /\ reg'.ctl = "READ"
      /\ reg'.obf = reg.obf /\ reg'.out = reg.out /\ reg'.state = reg.state
  BY OutCtlReg
<1>3. /\ ~ reg.ibf /\ reg.state # "WRITE" /\ ~ reg.obf /\ ~ bmc.due
      /\ reg.state = "READ" => Got(p, RsLen - Len(bmc.rs))
  BY DEF DrvInv, DrvRead
<1>4. BmcInv'
  BY <1>2, <1>3 DEF BmcInv, Fresh, InLog
<1>5. pc'[p] = "next_wait" => DrvStart(p)' /\ DrvWrite(p)' /\ DrvRead(p)'
  BY <1>2, <1>3 DEF DrvStart, DrvWrite, DrvRead, Waits, Fresh, Got
<1>6. drv' \in [Proc -> [count : 0 .. RqLen, buf : Seq(Bytes)]]
      /\ \A q \in Proc \ {p} : drv'[q] = drv[q]
  BY DEF Shape
<1> QED BY <1>1, <1>2, <1>4, <1>5, <1>6, HolderStep

LEMMA NextWaitInv ==
  ASSUME IInv, NEW p \in Proc, NextWait(p)
  PROVE  IInv'
<1> USE DEF IInv
<1>1. /\ pc[p] \in Holding \cap Serving /\ pc[p] = "next_wait" /\ ~ reg.ibf
      /\ {"obf_wait", "ack_wait"} \subseteq (Serving \cap Holding) \ Waits
  BY DEF NextWait, Holding, Waits, Serving
<1>2. UNCHANGED <<drv, reg, bmc, calls, cur, log>>
  BY DEF NextWait
<1>3. BmcInv' /\ reg' \in RegType
  BY <1>2, BmcKept DEF RegType
<1>4. drv' \in [Proc -> [count : 0 .. RqLen, buf : Seq(Bytes)]]
      /\ \A q \in Proc \ {p} : drv'[q] = drv[q]
  BY <1>2 DEF Shape
<1>5. CASE reg.state = "READ"
  <2>1. Goto(p, "obf_wait") /\ UNCHANGED <<sem, answer>>
    BY <1>5 DEF NextWait
  <2>2. pc'[p] = "obf_wait" => DrvStart(p)' /\ DrvWrite(p)' /\ DrvRead(p)'
    BY <1>1, <1>2, <1>5 DEF DrvInv, DrvStart, DrvWrite, DrvRead, Waits, Coming, Got
  <2> QED BY <1>1, <1>2, <1>3, <1>4, <2>1, <2>2, HolderStep
<1>6. CASE reg.state = "IDLE"
  <2>1. Goto(p, "ack_wait") /\ UNCHANGED <<sem, answer>>
    BY <1>6 DEF NextWait
  <2>2. pc'[p] = "ack_wait" => DrvStart(p)' /\ DrvWrite(p)' /\ DrvRead(p)'
    BY <1>1, <1>2, <1>6 DEF DrvInv, DrvStart, DrvWrite, DrvRead, Waits, InLog, Got
  <2> QED BY <1>1, <1>2, <1>3, <1>4, <2>1, <2>2, HolderStep
<1>7. CASE reg.state \notin {"READ", "IDLE"}
  <2>1. End(p, Failed)
    BY <1>7 DEF NextWait
  <2> QED BY <1>1, <1>2, <2>1, EndInv
<1> QED BY <1>5, <1>6, <1>7

LEMMA ReadAckInv ==
  ASSUME IInv, NEW p \in Proc, ReadAck(p)
  PROVE  IInv' /\ Answered(drv[p].buf) = cur /\ InLog
<1> USE DEF IInv, ReadAck
<1>1. pc[p] \in Holding
  BY DEF Holding
<1>2. Got(p, RsLen) /\ InLog
  BY DEF DrvInv, DrvRead
<1>3. Answered(drv[p].buf) = cur
  BY <1>2, GotAnswered
<1>4. cur \in Calls \cup {None, Failed}
  BY DEF Shape
<1> QED BY <1>1, <1>2, <1>3, <1>4, EndInv

-----------------------------------------------------------------------------
(* The BMC. *)

BmcType ==
  [rq : Seq(Bytes), end : BOOLEAN, rs : Seq(Bytes), due : BOOLEAN]

\* What is to be shown of a step of the BMC.
LEMMA BmcStep ==
  ASSUME IInv, UNCHANGED <<sem, pc, drv, calls, cur, answer>>,
         reg' \in RegType, bmc' \in BmcType, BmcInv', DrvInv',
         \/ log' = log
         \/ log' = Append(log, cur) /\ cur # None
  PROVE  IInv'
<1> USE DEF IInv
<1>1. Shape'
  <2>0. log \in Seq(Calls) /\ cur \in Calls \cup {None}
    BY DEF Shape
  <2>1. log' \in Seq(Calls)
    BY <2>0
  <2> QED BY <2>1 DEF Shape, RegType, BmcType
<1>2. SemInv'
  BY DEF SemInv
<1>3. CallInv'
  <2>1. ASSUME NEW k \in 1 .. Len(log') PROVE Given(log'[k])
    <3>1. log'[k] = cur \/ (k \in 1 .. Len(log) /\ log'[k] = log[k])
      BY <2>1 DEF Shape
    <3> QED BY <3>1 DEF CallInv
  <2> QED BY <2>1 DEF CallInv, Given
<1> QED BY <1>1, <1>2, <1>3

LEMMA BmcResetInv ==
  ASSUME IInv, BmcReset
  PROVE  IInv'
<1> USE DEF IInv, BmcReset
<1>1. reg' \in RegType /\ bmc' \in BmcType
  <2>1. Dummy \in Bytes
    BY DEF Dummy, Byte, Bytes
  <2> QED BY <2>1 DEF RegType, BmcType, Idle, Empty
<1>2. /\ reg'.ibf = FALSE /\ reg'.obf = FALSE /\ reg'.state = "IDLE"
      /\ bmc'.due = FALSE
  BY DEF Idle, Empty
<1>3. BmcInv'
  BY <1>2 DEF BmcInv, Fresh
<1>4. DrvInv'
  BY <1>2 DEF DrvInv, DrvStart, DrvWrite, DrvRead, Fresh
<1> QED BY <1>1, <1>3, <1>4, BmcStep

\* The next byte of the answer, or the one that ends it.
LEMMA BmcPutInv ==
  ASSUME IInv, BmcPut
  PROVE  IInv'
<1> USE DEF IInv, BmcPut
<1> DEFINE m == Len(bmc.rs)
<1>0. reg \in RegType /\ bmc \in BmcType /\ m \in Nat
  BY DEF Shape, RegType, BmcType
<1>1. /\ reg' \in RegType /\ reg'.obf = TRUE
      /\ reg'.out = IF bmc.rs = <<>> THEN Dummy ELSE Head(bmc.rs)
      /\ reg'.ibf = reg.ibf /\ reg'.state = reg.state
      /\ reg'.ctl = reg.ctl /\ reg'.in = reg.in
  <2>1. (IF bmc.rs = <<>> THEN Dummy ELSE Head(bmc.rs)) \in Bytes
    BY <1>0 DEF BmcType, Dummy, Byte, Bytes
  <2> QED BY <1>0, <2>1 DEF RegType
<1>2. /\ bmc' \in BmcType /\ bmc'.due = FALSE
      /\ bmc'.rq = bmc.rq /\ bmc'.end = bmc.end
      /\ bmc'.rs = IF bmc.rs = <<>> THEN bmc.rs ELSE Tail(bmc.rs)
  <2>1. (IF bmc.rs = <<>> THEN bmc.rs ELSE Tail(bmc.rs)) \in Seq(Bytes)
    BY <1>0 DEF BmcType
  <2> QED BY <1>0, <2>1 DEF BmcType
<1>3. ASSUME reg.state = "READ", ~ Fresh
      PROVE  /\ m \in 1 .. RsLen
             /\ bmc'.rs = Final(cur, m - 1) /\ Len(bmc'.rs) = m - 1
             /\ reg'.out = Byte(cur, RsLen - m + 1)
  <2>1. m \in 1 .. RsLen /\ bmc.rs = Final(cur, m)
    BY <1>0, <1>3, KcsAssumption DEF BmcInv
  <2>2. bmc.rs # <<>>
    BY <2>1, <1>0 DEF BmcType
  <2>3. Head(bmc.rs) = Byte(cur, RsLen - m + 1) /\ Tail(bmc.rs) = Final(cur, m - 1)
    BY <2>1, FinalHead
  <2>4. Len(Final(cur, m - 1)) = m - 1
    BY <2>1, Lengths, KcsAssumption
  <2> QED BY <1>1, <1>2, <2>1, <2>2, <2>3, <2>4
<1>4. BmcInv'
  <2>1. Fresh' = Fresh /\ InLog' = InLog
    BY <1>1 DEF Fresh, InLog
  <2>2. ~ (reg.state = "WRITE" /\ ~ Fresh)
    BY DEF BmcInv
  <2> QED BY <1>1, <1>2, <1>3, <2>1, <2>2, KcsAssumption DEF BmcInv
<1>5. DrvInv'
  <2>0. SUFFICES ASSUME NEW p \in Proc
                 PROVE  DrvStart(p)' /\ DrvWrite(p)' /\ DrvRead(p)'
    BY DEF DrvInv
  <2>1. Fresh' = Fresh /\ InLog' = InLog
    BY <1>1 DEF Fresh, InLog
  <2>2. ~ (reg.state = "WRITE" /\ ~ Fresh)
    BY DEF BmcInv
  <2>3. DrvStart(p)'
    BY <1>1 DEF DrvInv, DrvStart
  <2>4. DrvWrite(p)'
    BY <1>1, <1>2, <2>1, <2>2 DEF DrvInv, DrvWrite, Fresh
  <2>5. ASSUME reg.state = "READ", ~ Fresh, Coming(p)
        PROVE  Coming(p)'
    <3>1. Got(p, RsLen - m)
      BY <2>5 DEF Coming
    <3>2. RsLen - (m - 1) = RsLen - m + 1 /\ RsLen - (m - 1) - 1 = RsLen - m /\ m - 1 < RsLen
      BY <1>3, <2>5, KcsAssumption
    <3> QED BY <1>1, <1>2, <1>3, <2>5, <3>1, <3>2 DEF Coming, Got
  <2>6. DrvRead(p)'
    BY <1>1, <1>2, <2>1, <2>2, <2>5 DEF DrvInv, DrvRead, Fresh, Got
  <2> QED BY <2>3, <2>4, <2>6
<1> QED BY <1>1, <1>2, <1>4, <1>5, BmcStep

\* The BMC takes what is in the register: r is the register after it.
Taken(dummy) ==
  [reg EXCEPT !.ibf = FALSE, !.obf = reg.obf \/ dummy,
              !.out = IF dummy THEN Dummy ELSE @]

LEMMA TakenReg ==
  ASSUME Shape, NEW dummy \in BOOLEAN
  PROVE  /\ Taken(dummy) \in RegType /\ Taken(dummy).ibf = FALSE
         /\ Taken(dummy).state = reg.state
<1>1. Dummy \in Bytes
  BY DEF Dummy, Byte, Bytes
<1>2. reg \in RegType
  BY DEF Shape, RegType
<1>3. (reg.obf \/ dummy) \in BOOLEAN
  OBVIOUS
<1>4. (IF dummy THEN Dummy ELSE reg.out) \in Bytes
  BY <1>1, <1>2 DEF RegType
<1> QED BY <1>2, <1>3, <1>4 DEF RegType, Taken

TakeFrame == reg.ibf /\ ~ bmc.due /\ UNCHANGED <<sem, pc, drv, calls, cur, answer>>

\* WRITE_START: a new command, whatever the BMC was doing.
LEMMA TakeStartInv ==
  ASSUME IInv, TakeFrame, NEW dummy \in BOOLEAN, reg.ctl = "WRITE_START",
         BmcStart(Taken(dummy), bmc)
  PROVE  IInv'
<1> USE DEF IInv, TakeFrame
<1>1. reg' \in RegType /\ reg'.ibf = FALSE /\ reg'.state = "WRITE"
  <2>1. Taken(dummy) \in RegType /\ Taken(dummy).ibf = FALSE
    BY TakenReg
  <2>2. reg' = [Taken(dummy) EXCEPT !.state = "WRITE"]
    BY DEF BmcStart
  <2> QED BY <2>1, <2>2 DEF RegType
<1>2. /\ bmc' \in BmcType /\ bmc'.rq = <<>> /\ bmc'.end = FALSE /\ bmc'.due = FALSE
  <2>1. bmc \in BmcType /\ <<>> \in Seq(Bytes)
    BY DEF Shape, BmcType
  <2>2. bmc' = [bmc EXCEPT !.rq = <<>>, !.end = FALSE, !.rs = <<>>, !.due = FALSE]
    BY DEF BmcStart
  <2> QED BY <2>1, <2>2 DEF BmcType
<1>3. Fresh /\ log' = log
  BY DEF Fresh, BmcStart
<1>4. BmcInv'
  <2>1. cur # None /\ ~ InLog
    BY <1>3 DEF BmcInv
  <2>2. bmc'.rq = First(cur, 0)
    BY <1>2 DEF First
  <2> QED BY <1>1, <1>2, <1>3, <2>1, <2>2, KcsAssumption DEF BmcInv, Fresh, InLog
<1>5. DrvInv'
  <2>0. SUFFICES ASSUME NEW p \in Proc
                 PROVE  DrvStart(p)' /\ DrvWrite(p)' /\ DrvRead(p)'
    BY DEF DrvInv
  <2>1. DrvStart(p)'
    BY <1>1 DEF DrvInv, DrvStart
  <2>2. DrvWrite(p)'
    BY <1>1, <1>2, <1>3 DEF DrvInv, DrvWrite, Fresh
  <2>3. DrvRead(p)'
    BY <1>1, <1>2, <1>3 DEF DrvInv, DrvRead, Fresh
  <2> QED BY <2>1, <2>2, <2>3
<1> QED BY <1>1, <1>2, <1>3, <1>4, <1>5, BmcStep

\* A byte of the request that is not the last, or WRITE_END.
LEMMA TakeWriteInv ==
  ASSUME IInv, TakeFrame, NEW dummy \in BOOLEAN, reg.state = "WRITE",
         reg' = Taken(dummy), UNCHANGED log,
         \/ reg.ctl = "WRITE_END" /\ bmc' = [bmc EXCEPT !.end = TRUE]
         \/ /\ reg.ctl = "DATA" /\ ~ bmc.end
            /\ bmc' = [bmc EXCEPT !.rq = Append(@, reg.in)]
  PROVE  IInv'
<1> USE DEF IInv, TakeFrame
<1> DEFINE n == Len(bmc.rq)
<1>1. reg' \in RegType /\ reg'.ibf = FALSE /\ reg'.state = "WRITE"
  BY TakenReg
<1>2. /\ ~ Fresh /\ cur # None /\ ~ InLog
      /\ n < RqLen /\ bmc.rq = First(cur, n)
      /\ reg.ctl = "WRITE_END" => n = RqLen - 1
      /\ reg.ctl = "DATA" =>
           /\ reg.in = Byte(cur, n + 1)
           /\ n = RqLen - 1 => bmc.end
  BY DEF Fresh, BmcInv
<1>3. n \in Nat /\ bmc \in BmcType /\ cur \in Calls
  BY <1>2 DEF Shape, BmcType
<1>4. CASE reg.ctl = "WRITE_END"
  <2>1. /\ bmc' \in BmcType /\ bmc'.end = TRUE
        /\ bmc'.rq = bmc.rq /\ bmc'.rs = bmc.rs /\ bmc'.due = FALSE
    BY <1>3, <1>4 DEF BmcType
  <2>2. BmcInv'
    BY <1>1, <1>2, <1>4, <2>1 DEF BmcInv, Fresh, InLog
  <2>3. DrvInv'
    <3>0. SUFFICES ASSUME NEW p \in Proc
                   PROVE  DrvStart(p)' /\ DrvWrite(p)' /\ DrvRead(p)'
      BY DEF DrvInv
    <3>1. DrvStart(p)'
      BY <1>1 DEF DrvInv, DrvStart
    <3>2. DrvWrite(p)'
      BY <1>1, <1>2, <1>4, <2>1 DEF DrvInv, DrvWrite, Fresh
    <3>3. DrvRead(p)'
      BY <1>1, <1>2, <1>4, <2>1 DEF DrvInv, DrvRead, Fresh
    <3> QED BY <3>1, <3>2, <3>3
  <2> QED BY <1>1, <2>1, <2>2, <2>3, BmcStep
<1>5. CASE reg.ctl = "DATA"
  <2>0. reg.in \in Bytes
    <3>1. reg.in = <<cur, n + 1>> /\ n + 1 \in Nat
      BY <1>2, <1>3, <1>5 DEF Byte
    <3> HIDE DEF n
    <3> QED BY <3>1, <1>3 DEF Bytes
  <2>1. /\ bmc' \in BmcType /\ bmc'.end = FALSE
        /\ bmc'.rq = Append(bmc.rq, reg.in) /\ bmc'.rs = bmc.rs /\ bmc'.due = FALSE
    <3>1. bmc' = [bmc EXCEPT !.rq = Append(bmc.rq, reg.in)] /\ bmc.end = FALSE
      BY <1>3, <1>5 DEF BmcType
    <3>2. Append(bmc.rq, reg.in) \in Seq(Bytes)
      BY <1>3, <2>0 DEF BmcType
    <3> QED BY <1>3, <3>1, <3>2 DEF BmcType
  <2>2. n + 1 < RqLen /\ bmc'.rq = First(cur, n + 1) /\ Len(bmc'.rq) = n + 1
    <3>1. n # RqLen - 1
      BY <1>2, <1>5
    <3>2. bmc'.rq = First(cur, n + 1)
      BY <1>2, <1>3, <1>5, <2>1, FirstAppend
    <3> QED BY <1>2, <1>3, <3>1, <3>2, Lengths, KcsAssumption
  <2>3. BmcInv'
    BY <1>1, <1>2, <2>1, <2>2 DEF BmcInv, Fresh, InLog
  <2>4. DrvInv'
    <3>0. SUFFICES ASSUME NEW p \in Proc
                   PROVE  DrvStart(p)' /\ DrvWrite(p)' /\ DrvRead(p)'
      BY DEF DrvInv
    <3>1. DrvStart(p)'
      BY <1>1 DEF DrvInv, DrvStart
    <3>2. DrvWrite(p)'
      BY <1>1, <1>2, <1>5, <2>1, <2>2 DEF DrvInv, DrvWrite, Fresh
    <3>3. DrvRead(p)'
      BY <1>1, <1>2, <1>5, <2>1 DEF DrvInv, DrvRead, Fresh
    <3> QED BY <3>1, <3>2, <3>3
  <2> QED BY <1>1, <2>1, <2>3, <2>4, BmcStep
<1> QED BY <1>4, <1>5

\* The last byte: the BMC executes the command, which is the current one and
\* was not executed before.
LEMMA TakeLastInv ==
  ASSUME IInv, TakeFrame, NEW dummy \in BOOLEAN, reg.state = "WRITE",
         reg.ctl = "DATA", bmc.end,
         reg' = [Taken(dummy) EXCEPT !.state = "READ", !.obf = reg.obf,
                                     !.out = reg.out],
         NEW c, c = Requested(Append(bmc.rq, reg.in)),
         log' = Append(log, c),
         bmc' = [bmc EXCEPT !.rs = Response(c), !.due = TRUE]
  PROVE  IInv' /\ log' = Append(log, cur) /\ cur # None /\ ~ InLog
<1> USE DEF IInv, TakeFrame
<1> DEFINE n == Len(bmc.rq)
<1>1. /\ reg' \in RegType /\ reg'.ibf = FALSE /\ reg'.state = "READ"
      /\ reg'.obf = reg.obf /\ reg'.out = reg.out
  <2>1. Taken(dummy) \in RegType /\ Taken(dummy).ibf = FALSE
    BY TakenReg
  <2>2. reg.obf \in BOOLEAN /\ reg.out \in Bytes
    BY DEF Shape
  <2> QED BY <2>1, <2>2 DEF RegType
<1>2. /\ ~ Fresh /\ cur # None /\ ~ InLog
      /\ bmc.rq = First(cur, n) /\ n = RqLen - 1
      /\ reg.in = Byte(cur, n + 1)
  BY DEF Fresh, BmcInv
<1>3. n \in Nat /\ n + 1 = RqLen /\ bmc \in BmcType /\ cur \in Calls
  BY <1>2, KcsAssumption DEF Shape, BmcType
<1>4. c = cur
  <2>1. Append(bmc.rq, reg.in) = First(cur, RqLen)
    BY <1>2, <1>3, FirstAppend
  <2> QED BY <2>1, FirstRequested
<1>5. /\ bmc' \in BmcType /\ bmc'.due = TRUE /\ bmc'.rs = Final(cur, RsLen)
      /\ Len(bmc'.rs) = RsLen
  <2>1. Response(cur) = Final(cur, RsLen) /\ Len(Response(cur)) = RsLen
    BY ResponseFinal, Lengths, KcsAssumption
  <2>2. Response(cur) \in Seq(Bytes)
    <3>1. \A k \in 1 .. RsLen : <<cur, k>> \in Bytes
      BY <1>3 DEF Bytes
    <3> QED BY <3>1, KcsAssumption DEF Response, Byte
  <2> QED BY <1>3, <1>4, <2>1, <2>2 DEF BmcType
<1>6. log' = Append(log, cur) /\ InLog'
  <2>1. log \in Seq(Calls) /\ log' = Append(log, cur)
    BY <1>4 DEF Shape
  <2>2. Len(log) + 1 \in 1 .. Len(log') /\ log'[Len(log) + 1] = cur
    BY <1>3, <2>1
  <2> QED BY <2>1, <2>2 DEF InLog
<1>7. BmcInv'
  BY <1>1, <1>2, <1>5, <1>6, KcsAssumption DEF BmcInv, Fresh
<1>8. DrvInv'
  <2>0. SUFFICES ASSUME NEW p \in Proc
                 PROVE  DrvStart(p)' /\ DrvWrite(p)' /\ DrvRead(p)'
    BY DEF DrvInv
  <2>1. DrvStart(p)'
    BY <1>1 DEF DrvInv, DrvStart
  <2>2. DrvWrite(p)'
    BY <1>1, <1>2 DEF DrvInv, DrvWrite, Fresh
  <2>3. pc[p] = "read_wait" => Coming(p)'
    <3>1. First(cur, 0) = <<>> /\ RsLen - RsLen = 0 /\ 0 < BufLen
      BY KcsAssumption DEF First
    <3>2. pc[p] = "read_wait" => drv[p].buf = <<>> /\ ~ reg.obf
      BY DEF DrvInv, DrvStart, DrvRead
    <3> QED BY <1>1, <1>5, <3>1, <3>2 DEF Coming, Got
  <2>4. DrvRead(p)'
    BY <1>1, <1>2, <2>3 DEF DrvInv, DrvRead, Fresh
  <2> QED BY <2>1, <2>2, <2>4
<1> QED BY <1>1, <1>2, <1>5, <1>6, <1>7, <1>8, BmcStep

\* READ: the next byte of the answer is due, or the one that ends it.
LEMMA TakeReadInv ==
  ASSUME IInv, TakeFrame, NEW dummy \in BOOLEAN, reg.state = "READ",
         BmcRead(Taken(dummy), bmc)
  PROVE  IInv'
<1> USE DEF IInv, TakeFrame
<1>0. reg.ctl = "READ" /\ log' = log /\ bmc' = [bmc EXCEPT !.due = TRUE]
  BY DEF BmcRead
<1>1. /\ reg' \in RegType /\ reg'.ibf = FALSE
      /\ reg'.state = IF bmc.rs = <<>> THEN "IDLE" ELSE "READ"
      /\ reg'.obf = reg.obf /\ reg'.out = reg.out
  <2>1. Taken(dummy) \in RegType /\ Taken(dummy).ibf = FALSE
    BY TakenReg
  <2>2. reg.obf \in BOOLEAN /\ reg.out \in Bytes
    BY DEF Shape
  <2>3. reg' = [Taken(dummy) EXCEPT
                  !.state = IF bmc.rs = <<>> THEN "IDLE" ELSE "READ",
                  !.obf = reg.obf, !.out = reg.out]
    BY DEF BmcRead
  <2> QED BY <2>1, <2>2, <2>3 DEF RegType
<1>2. /\ bmc' \in BmcType /\ bmc'.due = TRUE
      /\ bmc'.rq = bmc.rq /\ bmc'.rs = bmc.rs /\ bmc'.end = bmc.end
  BY <1>0 DEF Shape, BmcType
<1>3. /\ ~ Fresh /\ cur # None /\ InLog
      /\ Len(bmc.rs) <= RsLen /\ bmc.rs = Final(cur, Len(bmc.rs))
      /\ bmc.rs # <<>> => Len(bmc.rs) > 0
  BY <1>0 DEF Fresh, BmcInv, Shape
<1>4. BmcInv'
  BY <1>0, <1>1, <1>2, <1>3 DEF BmcInv, Fresh, InLog
<1>5. DrvInv'
  <2>0. SUFFICES ASSUME NEW p \in Proc
                 PROVE  DrvStart(p)' /\ DrvWrite(p)' /\ DrvRead(p)'
    BY DEF DrvInv
  <2>1. DrvStart(p)'
    BY <1>1 DEF DrvInv, DrvStart
  <2>2. DrvWrite(p)'
    BY <1>1, <1>3 DEF DrvInv, DrvWrite, Fresh
  <2>3. InLog'
    BY <1>0, <1>3 DEF InLog
  <2>4. pc[p] = "next_wait" => Coming(p)'
    BY <1>1, <1>2 DEF DrvInv, DrvRead, Coming, Got
  <2>5. pc[p] = "next_wait" /\ bmc.rs = <<>> => Got(p, RsLen)'
    <3>1. bmc.rs = <<>> => RsLen - Len(bmc.rs) = RsLen
      BY KcsAssumption
    <3> QED BY <3>1 DEF DrvInv, DrvRead, Got
  <2>6. DrvRead(p)'
    BY <1>1, <1>2, <1>3, <2>3, <2>4, <2>5 DEF DrvInv, DrvRead, Fresh
  <2> QED BY <2>1, <2>2, <2>6
<1> QED BY <1>0, <1>1, <1>2, <1>4, <1>5, BmcStep

\* A byte out of place: the BMC waits for WRITE_START.
LEMMA TakeErrorInv ==
  ASSUME IInv, TakeFrame, NEW dummy \in BOOLEAN, reg.ctl # "WRITE_START",
         reg' = [Taken(dummy) EXCEPT !.state = "ERROR"], UNCHANGED <<bmc, log>>
  PROVE  IInv'
<1> USE DEF IInv, TakeFrame
<1>1. reg' \in RegType /\ reg'.ibf = FALSE /\ reg'.state = "ERROR"
  <2>1. Taken(dummy) \in RegType /\ Taken(dummy).ibf = FALSE
    BY TakenReg
  <2> QED BY <2>1 DEF RegType
<1>2. BmcInv'
  BY <1>1 DEF BmcInv, Fresh
<1>3. DrvInv'
  BY <1>1 DEF DrvInv, DrvStart, DrvWrite, DrvRead, Fresh
<1>4. bmc' \in BmcType
  BY DEF Shape, BmcType
<1> QED BY <1>1, <1>2, <1>3, <1>4, BmcStep

\* The BMC takes what is in the register, and executes nothing, or the
\* current command for the first time.
LEMMA BmcTakeInv ==
  ASSUME IInv, BmcTake
  PROVE  /\ IInv'
         /\ log' # log => log' = Append(log, cur) /\ cur # None /\ ~ InLog
<1>1. TakeFrame
  BY DEF BmcTake, TakeFrame
<1>2. PICK dummy \in BOOLEAN :
        LET r == Taken(dummy)
        IN  \/ reg.ctl = "WRITE_START" /\ BmcStart(r, bmc)
            \/ reg.state = "WRITE" /\ BmcWrite(r, bmc)
            \/ reg.state = "READ" /\ BmcRead(r, bmc)
            \/ /\ reg.ctl # "WRITE_START"
               /\ reg' = [r EXCEPT !.state = "ERROR"]
               /\ UNCHANGED <<bmc, log>>
  BY DEF BmcTake, Taken
<1>3. CASE reg.ctl = "WRITE_START" /\ BmcStart(Taken(dummy), bmc)
  <2>1. log' = log
    BY <1>3 DEF BmcStart
  <2> QED BY <1>1, <1>3, <2>1, TakeStartInv
<1>4. CASE reg.state = "WRITE" /\ BmcWrite(Taken(dummy), bmc)
  <2>1. CASE reg.ctl = "DATA" /\ bmc.end
    <3>1. /\ log' = Append(log, Requested(Append(bmc.rq, reg.in)))
          /\ bmc' = [bmc EXCEPT !.rs = Response(Requested(Append(bmc.rq, reg.in))),
                                !.due = TRUE]
          /\ reg' = [Taken(dummy) EXCEPT !.state = "READ", !.obf = reg.obf,
                                         !.out = reg.out]
      BY <1>4, <2>1 DEF BmcWrite
    <3> QED BY <1>1, <1>4, <2>1, <3>1, TakeLastInv
  <2>2. CASE ~ (reg.ctl = "DATA" /\ bmc.end)
    <3>1. /\ reg' = Taken(dummy) /\ UNCHANGED log
          /\ \/ reg.ctl = "WRITE_END" /\ bmc' = [bmc EXCEPT !.end = TRUE]
             \/ /\ reg.ctl = "DATA" /\ ~ bmc.end
                /\ bmc' = [bmc EXCEPT !.rq = Append(@, reg.in)]
      BY <1>4, <2>2 DEF BmcWrite
    <3> QED BY <1>1, <1>4, <3>1, TakeWriteInv
  <2> QED BY <2>1, <2>2
<1>5. CASE reg.state = "READ" /\ BmcRead(Taken(dummy), bmc)
  <2>1. log' = log
    BY <1>5 DEF BmcRead
  <2> QED BY <1>1, <1>5, <2>1, TakeReadInv
<1>6. CASE /\ reg.ctl # "WRITE_START"
           /\ reg' = [Taken(dummy) EXCEPT !.state = "ERROR"]
           /\ UNCHANGED <<bmc, log>>
  BY <1>1, <1>6, TakeErrorInv
<1> QED BY <1>2, <1>3, <1>4, <1>5, <1>6

-----------------------------------------------------------------------------
(* The invariant holds. *)

LEMMA InitInv == Init => IInv
<1> SUFFICES ASSUME Init PROVE IInv
  OBVIOUS
<1> USE DEF Init
<1>1. Shape
  <2>1. Dummy \in Bytes
    BY DEF Dummy, Byte, Bytes
  <2>2. [count |-> 0, buf |-> <<>>] \in [count : 0 .. RqLen, buf : Seq(Bytes)]
    BY KcsAssumption
  <2>3. Idle \in RegType /\ Empty \in BmcType
    BY <2>1 DEF Idle, Empty, RegType, BmcType
  <2> QED BY <2>2, <2>3, KcsAssumption DEF Shape, RegType, BmcType
<1>2. \A p \in Proc : pc[p] = "closed"
  OBVIOUS
<1>3. "closed" \notin Holding \cup Waits \cup Serving
  BY DEF Holding, Waits, Serving
<1>4. SemInv
  BY <1>2, <1>3 DEF SemInv
<1>5. CallInv
  BY <1>2, <1>3 DEF CallInv, Given, None
<1>6. BmcInv
  BY DEF BmcInv, Fresh, Idle
<1>7. DrvInv
  BY <1>2 DEF DrvInv, DrvStart, DrvWrite, DrvRead, Waits
<1> QED BY <1>1, <1>4, <1>5, <1>6, <1>7 DEF IInv

LEMMA NextInv == IInv /\ [Next]_vars => IInv'
<1> SUFFICES ASSUME IInv, [Next]_vars PROVE IInv'
  OBVIOUS
<1>1. ASSUME NEW p \in Proc, SemGet(p) \/ SemSetAll(p) \/ Call(p) \/ Crash(p)
      PROVE  IInv'
  BY <1>1, SemGetInv, SemSetAllInv, CallStepInv, CrashInv
<1>2. ASSUME NEW p \in Proc, Step(p)
      PROVE  IInv'
  BY <1>2, LockInv, LockBusyInv, TimeoutInv, StartWaitInv, StartWriteInv,
     WriteWaitInv, WriteByteInv, ReadWaitInv, ReadByteInv, ReadNextInv,
     NextWaitInv, ReadAckInv DEF Step
<1>3. CASE BmcTake \/ BmcPut \/ BmcReset
  BY <1>3, BmcTakeInv, BmcPutInv, BmcResetInv
<1>4. CASE UNCHANGED vars
  <2> USE <1>4 DEF vars
  <2>1. Shape' /\ SemInv'
    BY DEF IInv, Shape, SemInv
  <2>2. CallInv' /\ BmcInv'
    BY DEF IInv, CallInv, Given, BmcInv, Fresh, InLog
  <2>3. DrvInv'
    BY DEF IInv, DrvInv, DrvStart, DrvWrite, DrvRead, Fresh, InLog, Coming, Got
  <2> QED BY <2>1, <2>2, <2>3 DEF IInv
<1> QED BY <1>1, <1>2, <1>3, <1>4 DEF Next

\* In every state the process that holds the semaphore and the BMC are at
\* matching places of one command, and what the BMC holds is of that command
\* (ipmi_kcs_write, ipmi_kcs_read).
THEOREM KcsInvariant == Spec => []IInv
  BY InitInv, NextInv, PTL DEF Spec

\* One process at most is between ipmi_kcs_write() and ipmi_kcs_read(), and
\* the semaphore is neither lost nor given back twice, for any number of
\* processes, wherever they time out or die.
THEOREM KcsSemaphoreBalanced == Spec => []SemaphoreBalanced
<1>1. IInv => SemaphoreBalanced
  <2> SUFFICES ASSUME IInv PROVE SemaphoreBalanced
    OBVIOUS
  <2> DEFINE holders == {p \in Proc : pc[p] \in Holding}
  <2>1. CASE sem.phase # "set"
    BY <2>1 DEF IInv, SemInv, SemaphoreBalanced
  <2>2. CASE sem.phase = "set" /\ sem.value = 0
    <3>1. PICK p \in Proc : pc[p] \in Holding
      BY <2>2 DEF IInv, SemInv
    <3>2. holders = {p}
      BY <3>1 DEF IInv, SemInv
    <3> QED BY <2>2, <3>2, FS_Singleton, SMTT(30) DEF SemaphoreBalanced
  <2>3. CASE sem.phase = "set" /\ sem.value = 1
    <3>1. holders = {}
      BY <2>3 DEF IInv, SemInv
    <3> QED BY <2>3, <3>1, FS_EmptySet DEF SemaphoreBalanced
  <2>4. sem.value \in {0, 1}
    BY DEF IInv, Shape
  <2> QED BY <2>1, <2>2, <2>3, <2>4
<1> QED BY <1>1, KcsInvariant, PTL

\* Every variable keeps its type: above all ipmi_kcs_read() never puts more
\* than buf_len bytes in the caller's buffer, however long the answer is.
THEOREM KcsTypeCorrect == Spec => []TypeOK
<1> DEFINE Fits == \A p \in Proc : Len(drv[p].buf) <= BufLen
<1>1. Init => Fits
  BY KcsAssumption DEF Init
<1>2. IInv /\ Fits /\ [Next]_vars => Fits'
  <2> SUFFICES ASSUME IInv, Fits, [Next]_vars, NEW q \in Proc
               PROVE  Len(drv[q].buf)' <= BufLen
    OBVIOUS
  <2>1. drv \in [Proc -> [count : 0 .. RqLen, buf : Seq(Bytes)]] /\ BufLen \in Nat
    BY KcsAssumption DEF IInv, Shape
  <2>2. ASSUME NEW p \in Proc, Call(p) PROVE Len(drv'[q].buf) <= BufLen
    BY <2>1, <2>2 DEF Call
  <2>3. ASSUME NEW p \in Proc, WriteByte(p) PROVE Len(drv'[q].buf) <= BufLen
    <3>1. drv'[q].buf = drv[q].buf
      BY <2>1, <2>3 DEF WriteByte
    <3> QED BY <3>1
  <2>4. ASSUME NEW p \in Proc, ReadByte(p) PROVE Len(drv'[q].buf) <= BufLen
    <3>1. drv'[q].buf = IF q = p /\ Len(drv[p].buf) < BufLen
                        THEN Append(drv[p].buf, reg.out) ELSE drv[q].buf
      BY <2>1, <2>4 DEF ReadByte
    <3>2. drv[p].buf \in Seq(Bytes) /\ reg.out \in Bytes
      BY <2>1 DEF IInv, Shape
    <3>3. Len(Append(drv[p].buf, reg.out)) = Len(drv[p].buf) + 1 /\ Len(drv[p].buf) \in Nat
      BY <3>2
    <3> QED BY <3>1, <3>3, <2>1
  <2>5. drv' = drv => Len(drv'[q].buf) <= BufLen
    OBVIOUS
  <2>6. \/ drv' = drv
        \/ \E p \in Proc : Call(p) \/ WriteByte(p) \/ ReadByte(p)
    BY DEF Next, Step, vars, SemGet, SemSetAll, Crash, Lock, LockBusy, Timeout,
           StartWait, StartWrite, WriteWait, ReadWait, ReadNext, NextWait,
           ReadAck, BmcTake, BmcPut, BmcReset
  <2> QED BY <2>2, <2>3, <2>4, <2>5, <2>6
<1>3. IInv /\ Fits => TypeOK
  <2> SUFFICES ASSUME IInv, Fits PROVE TypeOK
    OBVIOUS
  <2>1. \A k \in 1 .. Len(log) : log[k] \in Calls
    BY DEF IInv, Shape
  <2> QED BY <2>1 DEF IInv, Shape, TypeOK
<1> QED BY <1>1, <1>2, <1>3, KcsInvariant, PTL DEF Spec

-----------------------------------------------------------------------------
(* KcsDriver implements InbandService. *)

\* The refinement mapping of Service, for one process.
ModeOf(l) ==
  CASE l \in {"closed", "creator", "idle"} -> "idle"
    [] l \in {"lock", "start_wait", "start"} -> "waiting"
    [] OTHER -> "serving"
Mode == [p \in Proc |-> ModeOf(pc[p])]

LEMMA ModeStep ==
  ASSUME Shape, NEW p \in Proc, NEW l, Goto(p, l)
  PROVE  Mode' = [Mode EXCEPT ![p] = ModeOf(l)] /\ Mode[p] = ModeOf(pc[p])
  BY DEF Shape, Goto, Mode

LEMMA ModeCases ==
  /\ \A l \in {"closed", "creator", "idle"} : ModeOf(l) = "idle"
  /\ \A l \in Waits : ModeOf(l) = "waiting"
  /\ \A l \in Serving : ModeOf(l) = "serving"
  BY DEF ModeOf, Waits, Serving, Holding

LEMMA SimCall ==
  ASSUME IInv, NEW p \in Proc, Call(p)
  PROVE  Service!Call(p)
<1>1. Mode' = [Mode EXCEPT ![p] = "waiting"] /\ Mode[p] = "idle"
  BY ModeStep, ModeCases DEF IInv, Call, Waits
<1> QED BY <1>1 DEF Call, Mode, ModeOf, Service!Call, None, Service!None

LEMMA SimFail ==
  ASSUME IInv, NEW p \in Proc, pc[p] \in Waits \cup Serving,
         NEW l \in {"idle", "closed"}, Goto(p, l),
         answer' = [answer EXCEPT ![p] = Failed],
         UNCHANGED <<calls, cur, log>>
  PROVE  Service!Fail(p)
<1>1. Mode' = [Mode EXCEPT ![p] = "idle"] /\ Mode[p] # "idle"
  BY ModeStep, ModeCases DEF IInv
<1> QED BY <1>1 DEF Mode, ModeOf, Service!Fail, Failed, Service!Failed

LEMMA SimBegin ==
  ASSUME IInv, NEW p \in Proc, StartWrite(p)
  PROVE  Service!Begin(p)
<1>1. "write_wait" \in Serving /\ "start" \in Waits \cap Holding
  BY DEF Serving, Waits, Holding
<1>2. Mode' = [Mode EXCEPT ![p] = "serving"] /\ Mode[p] = "waiting"
  BY <1>1, ModeStep, ModeCases DEF IInv, StartWrite
<1>3. \A q \in Proc : Mode[q] # "serving"
  <2>1. ASSUME NEW q \in Proc, q # p PROVE Mode[q] # "serving"
    <3>1. pc[q] \notin Holding /\ pc[q] \in ControlTypes
      BY <1>1, <2>1 DEF IInv, SemInv, Shape, ControlTypes, StartWrite
    <3>2. pc[q] \in {"closed", "creator", "idle"} \cup Waits
      BY <3>1 DEF ControlTypes, Waits
    <3> QED BY <3>2, ModeCases DEF Mode
  <2> QED BY <1>2, <2>1
<1> QED BY <1>2, <1>3 DEF StartWrite, Mode, ModeOf, Service!Begin

LEMMA SimSucceed ==
  ASSUME IInv, NEW p \in Proc, ReadAck(p)
  PROVE  Service!Succeed(p)
<1>1. "ack_wait" \in Serving
  BY DEF Serving, Holding
<1>2. Mode' = [Mode EXCEPT ![p] = "idle"] /\ Mode[p] = "serving"
  BY <1>1, ModeStep, ModeCases DEF IInv, ReadAck, End
<1>3. InLog /\ answer' = [answer EXCEPT ![p] = cur]
  BY ReadAckInv DEF ReadAck, End
<1> QED BY <1>2, <1>3
        DEF ReadAck, Mode, ModeOf, InLog, Service!Succeed, Service!Executed

LEMMA SimTake ==
  ASSUME IInv, BmcTake
  PROVE  [Service!Next]_(Service!vars)
<1>1. UNCHANGED <<pc, calls, cur, answer>>
  BY DEF BmcTake
<1>2. CASE log' = log
  BY <1>1, <1>2 DEF Service!vars
<1>3. CASE log' # log
  <2>1. log' = Append(log, cur) /\ cur # None /\ ~ InLog
    BY <1>3, BmcTakeInv
  <2>2. Service!Execute
    BY <1>1, <2>1 DEF Service!Execute, Service!Executed, InLog, None, Service!None
  <2> QED BY <2>2 DEF Service!Next
<1> QED BY <1>2, <1>3

\* A step the service does not see.
LEMMA SimStutter ==
  ASSUME IInv, NEW p \in Proc, NEW l, Goto(p, l), ModeOf(l) = ModeOf(pc[p]),
         UNCHANGED <<calls, cur, log, answer>>
  PROVE  UNCHANGED Service!vars
<1>1. Mode' = Mode
  BY ModeStep DEF IInv, Mode
<1> QED BY <1>1 DEF Mode, ModeOf, Service!vars

\* A command that ends with an error.
LEMMA SimEnd ==
  ASSUME IInv, NEW p \in Proc, pc[p] \in Holding, End(p, Failed),
         UNCHANGED <<calls, cur, log>>
  PROVE  Service!Fail(p)
<1>1. pc[p] \in Waits \cup Serving
  BY DEF Waits, Serving, Holding
<1> QED BY <1>1, SimFail DEF End

LEMMA SimStep ==
  ASSUME IInv, NEW p \in Proc, Step(p)
  PROVE  [Service!Next]_(Service!vars)
<1> USE ModeCases
<1>0. /\ {"start_wait", "start", "lock"} \subseteq Waits
      /\ {"write_wait", "write", "end_wait", "last", "read_wait", "obf_wait",
          "next", "next_wait", "ack_wait"} \subseteq Serving
      /\ Serving \subseteq Holding /\ Holding \subseteq Serving \cup Waits
  BY DEF Waits, Serving, Holding
<1>1. CASE Lock(p)
  BY <1>0, <1>1, SimStutter DEF Lock
<1>2. CASE LockBusy(p)
  BY <1>0, <1>2, SimFail DEF LockBusy, Service!Next
<1>3. CASE Timeout(p)
  <2>1. pc[p] \in Holding
    BY <1>3 DEF Timeout, TimedOut, IbfWaits, ObfWaits, Holding
  <2> QED BY <1>3, <2>1, SimEnd DEF Timeout, Service!Next
<1>4. CASE StartWait(p)
  BY <1>0, <1>4, SimStutter DEF StartWait
<1>5. CASE StartWrite(p)
  BY <1>5, SimBegin DEF Service!Next
<1>6. CASE WriteWait(p)
  <2>1. pc[p] \in Serving /\ ModeOf(IF pc[p] = "end_wait" THEN "last" ELSE "write") = "serving"
    BY <1>0, <1>6 DEF WriteWait
  <2>2. CASE reg.state = "WRITE"
    <3>1. /\ Goto(p, IF pc[p] = "end_wait" THEN "last" ELSE "write")
          /\ UNCHANGED <<calls, cur, log, answer>>
      BY <1>6, <2>2 DEF WriteWait
    <3> QED BY <2>1, <3>1, SimStutter
  <2>3. CASE reg.state # "WRITE"
    BY <1>0, <1>6, <2>1, <2>3, SimEnd DEF WriteWait, Service!Next
  <2> QED BY <2>2, <2>3
<1>7. CASE WriteByte(p)
  <2>1. PICK l \in Serving : Goto(p, l) /\ UNCHANGED <<calls, cur, log, answer>>
    BY <1>0, <1>7 DEF WriteByte
  <2>2. pc[p] \in Serving
    BY <1>0, <1>7 DEF WriteByte
  <2> QED BY <2>1, <2>2, SimStutter
<1>8. CASE ReadWait(p)
  <2>1. CASE reg.state = "READ"
    BY <1>0, <1>8, <2>1, SimStutter DEF ReadWait
  <2>2. CASE reg.state # "READ"
    BY <1>0, <1>8, <2>2, SimEnd DEF ReadWait, Service!Next
  <2> QED BY <2>1, <2>2
<1>9. CASE ReadByte(p)
  BY <1>0, <1>9, SimStutter DEF ReadByte
<1>10. CASE ReadNext(p)
  BY <1>0, <1>10, SimStutter DEF ReadNext
<1>11. CASE NextWait(p)
  <2>1. CASE reg.state \in {"READ", "IDLE"}
    <3>1. PICK l \in {"obf_wait", "ack_wait"} : Goto(p, l) /\ UNCHANGED answer
      BY <1>11, <2>1 DEF NextWait
    <3> QED BY <1>0, <1>11, <3>1, SimStutter DEF NextWait
  <2>2. CASE reg.state \notin {"READ", "IDLE"}
    <3>1. End(p, Failed)
      BY <1>11, <2>2 DEF NextWait
    <3> QED BY <1>0, <1>11, <3>1, SimEnd DEF NextWait, Service!Next
  <2> QED BY <2>1, <2>2
<1>12. CASE ReadAck(p)
  BY <1>12, SimSucceed DEF Service!Next
<1> QED BY <1>1, <1>2, <1>3, <1>4, <1>5, <1>6, <1>7, <1>8, <1>9, <1>10,
           <1>11, <1>12 DEF Step

LEMMA SimCrash ==
  ASSUME IInv, NEW p \in Proc, Crash(p)
  PROVE  [Service!Next]_(Service!vars)
<1>1. Goto(p, "closed") /\ UNCHANGED <<calls, cur, log>> /\ pc[p] \in ControlTypes
  BY DEF Crash, IInv, Shape, ControlTypes
<1>2. CASE pc[p] \in Holding \cup {"lock"}
  <2>1. pc[p] \in Waits \cup Serving /\ answer' = [answer EXCEPT ![p] = Failed]
    BY <1>2 DEF Waits, Serving, Holding, Crash
  <2> QED BY <1>1, <2>1, SimFail DEF Service!Next
<1>3. CASE pc[p] \notin Holding \cup {"lock"}
  <2>1. pc[p] \in {"closed", "creator", "idle"} /\ answer' = answer
    BY <1>1, <1>3 DEF ControlTypes, Crash
  <2> QED BY <1>1, <2>1, ModeCases, SimStutter
<1> QED BY <1>2, <1>3

\* Each step of the driver is a step of the service, or none.
LEMMA Simulates == IInv /\ [Next]_vars => [Service!Next]_(Service!vars)
<1> SUFFICES ASSUME IInv, [Next]_vars PROVE [Service!Next]_(Service!vars)
  OBVIOUS
<1>1. ASSUME NEW p \in Proc, SemGet(p) PROVE [Service!Next]_(Service!vars)
  BY <1>1, ModeCases, SimStutter DEF SemGet
<1>2. ASSUME NEW p \in Proc, SemSetAll(p) PROVE [Service!Next]_(Service!vars)
  BY <1>2, ModeCases, SimStutter DEF SemSetAll
<1>3. ASSUME NEW p \in Proc, Call(p) PROVE [Service!Next]_(Service!vars)
  BY <1>3, SimCall DEF Service!Next
<1>4. CASE BmcPut \/ BmcReset \/ UNCHANGED vars
  BY <1>4 DEF BmcPut, BmcReset, vars, Service!vars
<1> QED BY <1>1, <1>2, <1>3, <1>4, SimStep, SimCrash, SimTake DEF Next

\* To its callers the driver is the abstract service, for any number of
\* processes and any lengths: commands are given to the BMC one at a time, the
\* BMC executes each at most once, and a success returns the answer to the
\* very command, however commands before it ended.
THEOREM KcsImplementsService == Spec => ServiceSpec
<1>1. Init => Service!Init
  <2> SUFFICES ASSUME Init PROVE Service!Init
    OBVIOUS
  <2>1. Mode = [p \in Proc |-> "idle"]
    BY ModeCases DEF Init, Mode
  <2> QED BY <2>1 DEF Init, Mode, ModeOf, Service!Init, None, Service!None
<1> QED BY <1>1, Simulates, KcsInvariant, PTL DEF Spec, ServiceSpec, Service!Spec

=============================================================================
