----------------------------- MODULE PowerCommand -----------------------------
(***************************************************************************)
(* ipmipower: one thread runs the power commands of many hosts at once.    *)
(* A batch of commands is put on the list pending; every round of the poll *)
(* loop walks that list and moves each command one step on: it times out,  *)
(* retransmits, starts, or reads the packet that has come in for its host  *)
(* (ipmipower_powercmd.c); then packets are received and sent.             *)
(*                                                                         *)
(* Time is abstracted to what gettimeofday() tells a command when its turn *)
(* comes: that its session timeout has passed, that its retransmission     *)
(* timeout, backed off, has passed, or neither.  The requester sequence    *)
(* number and the message tag, which grow with every transmission, are     *)
(* abstracted to the flag cur: whether a packet belongs to the last one    *)
(* (numbers are taken not to come round while a packet is under way).      *)
(* The network loses, delays and reorders packets.  The BMC is external.   *)
(***************************************************************************)
EXTENDS Integers, FiniteSets, Sequences, SequencesExt

CONSTANTS
  Hosts,     \* the hosts and their BMCs
  Ids,       \* the commands
  HostOf,    \* the host of each command
  Args,      \* the command lines (cmd_args), the batches and what they may ask
             \* for, and the power states they may find
  None,
  Capacity   \* bound: packets in flight for each host

AllOps == {"status", "on", "off", "cycle", "reset", "diag", "soft",
           "identify_on", "identify_off", "identify_status"}

PowerStates == {"on", "off"}

AllArgs ==
  [version: {15, 20}, c410x: BOOLEAN, fanout: Nat, onIfOff: BOOLEAN,
   waitOn: BOOLEAN, waitOff: BOOLEAN, batches: Seq(Seq(Ids)),
   ops: SUBSET AllOps, initial: SUBSET PowerStates]

ASSUME PowerAssumption ==
  /\ Args \subseteq AllArgs
  /\ HostOf \in [Ids -> Hosts] /\ None \notin Ids /\ Capacity \in Nat
  /\ \A a \in Args :
       \* a command is queued once
       /\ \A m, n \in DOMAIN a.batches :
            \A i \in DOMAIN a.batches[m], j \in DOMAIN a.batches[n] :
              a.batches[m][i] = a.batches[n][j] => m = n /\ i = j
       \* the OEM extension knows three operations
       /\ a.c410x => a.ops \subseteq {"status", "on", "off"}
       \* and only the OEM extension lets a batch name a host twice
       /\ a.c410x \/ \A n \in DOMAIN a.batches : LET b == a.batches[n] IN
            \A i, j \in DOMAIN b : HostOf[b[i]] = HostOf[b[j]] => i = j

VARIABLES
  args,       \* cmd_args
  batch,      \* batches queued so far
  pending, adding,   \* the lists pending and add_to_pending
  itr,        \* the iterator's place in pending, 1 between two walks
  next,       \* ip->next
  ip,         \* st (protocol_state), cmd and wait (wait_until_*_state)
  executing,  \* executing_count
  conn,       \* of each host: ipmi_in and ipmi_out
  net,        \* of each host: the packets in flight (external)
  power, aim, \* of each target: its power state, and where it is going (external)
  counts,     \* the messages with output_counts # 0
  said,       \* history: the lines printed for each command
  did,        \* history: for each command, the operations the BMC executed and
              \* the power states it reported before and after that
  exit        \* the exit status, None while the program runs

lists == <<pending, adding, itr, next>>
history == <<counts, said>>
vars == <<args, batch, lists, ip, executing, conn, net, power, aim, counts,
          said, did, exit>>

-----------------------------------------------------------------------------
(* Packets *)

\* What is switched: the slot a C410X command names, or the host's chassis.
TargetOf(id) == IF args.c410x THEN id ELSE HostOf[id]
Targets ==
  {TargetOf(id) : id \in UNION {ToSet(args.batches[n]) : n \in DOMAIN args.batches}}

Setup == {"authcap", "challenge", "activate", "open", "rakp1", "rakp3"}
Operation == {"status", "control", "identify", "sensor", "slot"}
Session == {"setpriv", "close"} \cup Operation
Sent == Setup \cup Session
Messages == {"on", "off", "ok", "unknown", "error", "bmc_error"}

Packet ==
  [kind: {"rq", "rs"}, type: Sent, id: Ids, cur: BOOLEAN, op: AllOps,
   result: {"ok", "refused", "unfit"}, power: PowerStates]

Request(id, type, op) ==
  [kind |-> "rq", type |-> type, id |-> id, cur |-> TRUE, op |-> op,
   result |-> "ok", power |-> "off"]

\* What a new transmission makes of the packets under way.  An answer will be
\* dropped, or closes the session whatever it says.
Older(p) ==
  [p EXCEPT !.cur = FALSE, !.result = "ok", !.power = "off"]

\* Requests left in ipmi_out go out with the new one in one datagram, which the
\* BMC cannot read: it does not matter which they are, nor how many.
Queued(out, p) == IF out = <<>> THEN <<p>> ELSE <<p, p>>

\* ipmipower_connection_clear()
Cleared(c) == [c EXCEPT !.in = <<>>, !.out = <<>>]

-----------------------------------------------------------------------------
(* The steps of a command *)

\* The iterator goes on to the next command.
Advance == itr' = itr + 1 /\ UNCHANGED <<pending, adding, next, executing>>

FinishKeepCount(id) ==
  /\ ip' = [ip EXCEPT ![id].st = "end", ![id].wait = FALSE]
  /\ pending' = RemoveAt(pending, itr)
  /\ adding' = IF next[id] = None THEN adding ELSE Append(adding, next[id])
  /\ next' = [next EXCEPT ![id] = None]
  /\ executing' = IF next[id] = None THEN executing - 1 ELSE executing
  /\ UNCHANGED itr

\* list_delete(): the command is gone, the one chained to it is to be added.
Finish(id) ==
  /\ ip' = [ip EXCEPT ![id].st = "end", ![id].wait = FALSE]
  /\ pending' = RemoveAt(pending, itr)
  /\ adding' = IF next[id] = None THEN adding ELSE Append(adding, next[id])
  /\ next' = [next EXCEPT ![id] = None]
  /\ executing' = executing - 1
  /\ UNCHANGED itr

\* ipmipower_output()
Output(id, m) ==
  /\ said' = [said EXCEPT ![id] = Append(@, m)]
  /\ counts' = counts \cup {m}

\* _send_packet() of the request that goes with the state new; in is what is
\* left in ipmi_in.
Send(id, new, in) ==
  LET h == HostOf[id] IN
  /\ ip' = [ip EXCEPT ![id] = new]
  /\ conn' = [conn EXCEPT ![h] =
       [in |-> [i \in DOMAIN in |-> Older(in[i])],
        out |-> Queued(@.out, Request(id, new.st, new.cmd))]]
  /\ net' = [net EXCEPT ![h] = {Older(p) : p \in @}]

\* The next request, now that the answer has been read.
SendPacket(id, type) == Send(id, [ip[id] EXCEPT !.st = type], <<>>)

\* The command has printed its line and closes the session.
Close(id) == SendPacket(id, "close") /\ Advance

MayTimeOutNotWaiting(id) == ip[id].st # "start" /\ ~ip[id].wait

\* _has_timed_out() may find that the session timeout has passed.
MayTimeOut(id) == ip[id].st # "start"

GiveUp(id) ==
  /\ MayTimeOut(id)
  /\ IF ip[id].st # "close" THEN Output(id, "error") ELSE UNCHANGED history
  /\ Finish(id)
  /\ UNCHANGED <<conn, net>>

\* _retry_packets() and "goto done": the packet that came in stays unread.
\* A Get Session Challenge goes out from a new socket, if there is one.
RetryPackets(id) ==
  /\ ip[id].st \notin {"start", "close"}
  /\ \/ /\ Send(id, ip[id], conn[HostOf[id]].in)
        /\ Advance /\ UNCHANGED history
     \/ /\ ip[id].st = "challenge"
        /\ Output(id, "error") /\ Finish(id)
        /\ UNCHANGED <<conn, net>>

\* A Close Session is not repeated: close_timeout ends the command.
CloseTimeout(id) ==
  /\ ip[id].st = "close"
  /\ Finish(id)
  /\ UNCHANGED <<conn, net, history>>

FanoutFull == args.fanout > 0 /\ executing >= args.fanout

Start(id) ==
  /\ ip[id].st = "start" /\ ~FanoutFull
  /\ Send(id, [ip[id] EXCEPT !.st = "authcap"], conn[HostOf[id]].in)
  /\ executing' = executing + 1
  /\ itr' = itr + 1
  /\ UNCHANGED <<pending, adding, next, history>>

StartLater(id) ==
  /\ ip[id].st = "start" /\ FanoutFull
  /\ Advance
  /\ UNCHANGED <<ip, conn, net, history>>

-----------------------------------------------------------------------------
(* Packets received *)

\* The checks of a response that do not print anything: the command, the
\* session and the number must be the ones expected; the answer to Close
\* Session may have any number.
Accepted(id, a) ==
  a.type = ip[id].st /\ a.id = id /\ (a.cur \/ a.type = "close")

In(id) == conn[HostOf[id]].in

Consumed(id) == conn' = [conn EXCEPT ![HostOf[id]].in = <<>>]

\* _recv_packet() returns 0: nothing there, or a packet that is dropped.
NoPacket(id) ==
  /\ ip[id].st # "start"
  /\ \A i \in DOMAIN In(id) : ~Accepted(id, In(id)[i])
  /\ Consumed(id) /\ Advance
  /\ UNCHANGED <<ip, net, history>>

Answer(id) == In(id)[1]

\* The answer to a request that is no operation may turn out either way.
Answered(id, type, result) ==
  /\ ip[id].st = type
  /\ In(id) # <<>> /\ Accepted(id, Answer(id))
  /\ type \in Operation => Answer(id).result = result

\* ipmipower_packet_errmsg(): the message for a completion or status code
OutputRefusal(id) == \E m \in {"error", "bmc_error"} : Output(id, m)

\* Errors while there is no session yet: one line, and the command ends.
\* (unfit: the answer is well-formed but its contents are not acceptable.)
SetupFailed(id) ==
  /\ \E type \in Setup :
       \/ Answered(id, type, "refused") /\ OutputRefusal(id)
       \/ /\ type # "challenge" /\ Answered(id, type, "unfit")
          /\ Output(id, IF type = "activate" THEN "bmc_error" ELSE "error")
  /\ Finish(id) /\ Consumed(id)
  /\ UNCHANGED net

RefusedEnds(id) ==
  /\ \E type \in Session \ {"close"} : Answered(id, type, "refused")
  /\ OutputRefusal(id)
  /\ SendPacket(id, ip[id].st) /\ Advance

\* A refusal within the session closes it.  The branch of _recv_packet() for
\* IPMI 2.0 prints nothing.
Refused(id) ==
  /\ \E type \in Session \ {"close"} : Answered(id, type, "refused")
  /\ IF args.version = 15 THEN OutputRefusal(id)
                          ELSE UNCHANGED history
  /\ Close(id)

\* The request that follows each one of the set-up.
NextSetup(type) ==
  CASE type = "authcap" -> IF args.version = 20 THEN "open" ELSE "challenge"
    [] type = "challenge" -> "activate"
    [] type = "activate" -> "setpriv"
    [] type = "open" -> "rakp1"
    [] type = "rakp1" -> "rakp3"
    [] type = "rakp3" -> "setpriv"

SetupDone(id) ==
  \E type \in Setup :
    /\ Answered(id, type, "ok")
    /\ SendPacket(id, NextSetup(type))
    /\ Advance /\ UNCHANGED history

\* Whether a cycle or reset looks at the chassis first.
OnIfOff(cmd) == args.onIfOff /\ cmd \in {"cycle", "reset"}

\* The first request of the operation, once the privilege is set.
FirstRequest(cmd) ==
  IF args.c410x THEN "sensor"
  ELSE IF cmd \in {"status", "identify_status"} \/ OnIfOff(cmd) THEN "status"
  ELSE IF cmd \in {"identify_on", "identify_off"} THEN "identify"
  ELSE "control"

PrivilegeDone(id) ==
  /\ Answered(id, "setpriv", "ok")
  /\ SendPacket(id, FirstRequest(ip[id].cmd))
  /\ Advance /\ UNCHANGED history

\* The command waits until the power state is the one it asked for.
WaitsFor(cmd) == (args.waitOn /\ cmd = "on") \/ (args.waitOff /\ cmd = "off")

\* Get Chassis Status or, for the C410X, Get Sensor Reading while waiting: not
\* there yet, so the state stays and the request is repeated when due.
StillWaiting(id) ==
  \E type \in {"status", "sensor"} :
    /\ Answered(id, type, "ok") /\ ip[id].wait
    /\ Answer(id).power # ip[id].cmd
    /\ Consumed(id) /\ Advance /\ UNCHANGED <<ip, net, history>>

WaitOver(id) ==
  \E type \in {"status", "sensor"} :
    /\ Answered(id, type, "ok") /\ ip[id].wait
    /\ Answer(id).power = ip[id].cmd
    /\ Output(id, "ok")
    /\ Send(id, [ip[id] EXCEPT !.st = "close", !.wait = FALSE], <<>>) /\ Advance

StatusDone(id) ==
  \E type \in {"status", "sensor"} :
    /\ Answered(id, type, "ok") /\ ip[id].cmd = "status"
    /\ Output(id, Answer(id).power) /\ Close(id)

\* identify_status reads another field of the same answer, which need not be
\* supported; its value is not followed here.
IdentifyStatusDone(id) ==
  /\ Answered(id, "status", "ok") /\ ip[id].cmd = "identify_status"
  /\ \E m \in {"on", "off", "unknown"} : Output(id, m)
  /\ Close(id)

\* A cycle or reset of a chassis that is off becomes a power on.
OnIfOffChecked(id) ==
  /\ Answered(id, "status", "ok") /\ OnIfOff(ip[id].cmd)
  /\ Send(id, [ip[id] EXCEPT !.st = "control",
                  !.cmd = IF Answer(id).power = "off" THEN "on" ELSE @], <<>>)
  /\ Advance /\ UNCHANGED history

\* The slot's sensor before the operation: nothing to do, or control the slot.
SensorChecked(id) ==
  /\ Answered(id, "sensor", "ok") /\ ~ip[id].wait
  /\ ip[id].cmd \in PowerStates
  /\ IF Answer(id).power = ip[id].cmd
     THEN Output(id, "ok") /\ Close(id)
     ELSE /\ SendPacket(id, "slot")
          /\ Advance /\ UNCHANGED history

\* The slot's sensor cannot be read.
SensorFailed(id) ==
  /\ Answered(id, "sensor", "unfit")
  /\ Output(id, "bmc_error") /\ Close(id)

ControlDoneAtOnce(id) ==
  \E type \in {"control", "slot"} :
    /\ Answered(id, type, "ok")
    /\ Output(id, "ok")
    /\ IF ip[id].cmd = "reset"
       THEN Finish(id) /\ Consumed(id) /\ UNCHANGED net
       ELSE Close(id)

\* The operation was accepted: wait for its effect, or be done.  After a reset
\* the session is not closed.
ControlDone(id) ==
  \E type \in {"control", "slot"} :
    /\ Answered(id, type, "ok")
    /\ IF WaitsFor(ip[id].cmd)
       THEN /\ Send(id, [ip[id] EXCEPT !.wait = TRUE, !.st =
                 IF type = "control" THEN "status" ELSE "sensor"], <<>>)
            /\ Advance /\ UNCHANGED history
       ELSE /\ Output(id, "ok")
            /\ IF ip[id].cmd = "reset"
               THEN Finish(id) /\ Consumed(id) /\ UNCHANGED net
               ELSE Close(id)

IdentifyDone(id) ==
  /\ Answered(id, "identify", "ok")
  /\ Output(id, "ok") /\ Close(id)

\* Any answer to Close Session ends the command.
Closed(id) ==
  /\ Answered(id, "close", "ok")
  /\ Finish(id) /\ Consumed(id)
  /\ UNCHANGED <<net, history>>

-----------------------------------------------------------------------------
(* The poll loop *)

\* The list of commands is not being walked.
BetweenWalks == itr = 1 /\ adding = <<>>

ChainedNever(b, i) == FALSE

\* For the C410X, commands to one host are chained.
Chained(b, i) ==
  args.c410x /\ \E j \in 1 .. i - 1 : HostOf[b[j]] = HostOf[b[i]]

\* The next command of the batch to the same host, if it is chained.
NextOf(b, i) ==
  LET later == {j \in i + 1 .. Len(b) : Chained(b, j) /\ HostOf[b[j]] = HostOf[b[i]]}
  IN  IF later = {} THEN None ELSE b[CHOOSE j \in later : \A k \in later : j <= k]

\* The commands of the batch that go on the list, in order.
Heads(b) ==
  LET heads == {i \in DOMAIN b : ~Chained(b, i)}
      Rank(i) == Cardinality({j \in heads : j <= i})
  IN  [k \in 1 .. Cardinality(heads) |-> b[CHOOSE i \in heads : Rank(i) = k]]

\* The command line is read while nothing is pending, and a batch is queued for
\* its hosts.
Queue ==
  /\ exit = None /\ BetweenWalks /\ pending = <<>> /\ batch < Len(args.batches)
  /\ LET b == args.batches[batch + 1]
     IN  /\ pending' = Heads(b)
         /\ next' = [id \in Ids |->
              IF id \in ToSet(b)
              THEN NextOf(b, CHOOSE i \in DOMAIN b : b[i] = id) ELSE None]
         /\ conn' = [h \in Hosts |->
              IF \E i \in DOMAIN b : HostOf[b[i]] = h
              THEN Cleared(conn[h]) ELSE conn[h]]
         /\ \E op \in args.ops :
              ip' = [id \in Ids |->
                IF id \in ToSet(b)
                THEN [st |-> "start", cmd |-> op, wait |-> FALSE]
                ELSE ip[id]]
  /\ batch' = batch + 1
  /\ counts' = {}
  /\ UNCHANGED <<args, adding, itr, executing, net, power, aim, said, did, exit>>

\* _process_ipmi_packets() for the command the iterator is at.
ProcessPackets ==
  /\ itr \in DOMAIN pending
  /\ LET id == pending[itr] IN
       \/ GiveUp(id) \/ RetryPackets(id) \/ CloseTimeout(id)
       \/ Start(id) \/ StartLater(id) \/ NoPacket(id)
       \/ SetupFailed(id) \/ SetupDone(id) \/ Refused(id) \/ PrivilegeDone(id)
       \/ StillWaiting(id) \/ WaitOver(id) \/ StatusDone(id)
       \/ IdentifyStatusDone(id) \/ OnIfOffChecked(id) \/ SensorChecked(id)
       \/ SensorFailed(id) \/ ControlDone(id) \/ IdentifyDone(id) \/ Closed(id)
  /\ UNCHANGED <<args, batch, power, aim, did, exit>>

\* The chained commands whose turn it is go to the end of pending.
EndWalk ==
  /\ itr > Len(pending) /\ (itr > 1 \/ adding # <<>>)
  /\ itr' = 1
  /\ pending' = pending \o adding
  /\ adding' = <<>>
  /\ conn' = [h \in Hosts |->
       IF \E i \in DOMAIN adding : HostOf[adding[i]] = h
       THEN Cleared(conn[h]) ELSE conn[h]]
  /\ UNCHANGED <<args, batch, next, ip, executing, net, power, aim, history,
                 did, exit>>

\* _sendto()
Transmit(h) ==
  /\ BetweenWalks /\ conn[h].out # <<>> /\ Cardinality(net[h]) < Capacity
  /\ net' = [net EXCEPT ![h] =
       IF Len(conn[h].out) = 1 THEN @ \cup {conn[h].out[1]} ELSE @]
  /\ conn' = [conn EXCEPT ![h].out = <<>>]
  /\ UNCHANGED <<args, batch, lists, ip, executing, power, aim, history, did, exit>>

\* _recvfrom(): a packet left in ipmi_in is thrown away.
Receive(h) ==
  /\ BetweenWalks
  /\ \E p \in net[h] :
       /\ p.kind = "rs"
       /\ net' = [net EXCEPT ![h] = @ \ {p}]
       /\ conn' = [conn EXCEPT ![h].in = <<p>>]
  /\ UNCHANGED <<args, batch, lists, ip, executing, power, aim, history, did, exit>>

\* What makes the exit status a failure: a message from ERROR_MIN ("unknown") up
\* to, but not including, ERROR_MAX ("BMC error").
ErrorCounted == {"unknown", "error"}

\* The program ends when all is done.
Exit ==
  /\ exit = None /\ BetweenWalks /\ pending = <<>> /\ batch = Len(args.batches)
  /\ exit' = IF counts \cap ErrorCounted = {} THEN "success" ELSE "failure"
  /\ UNCHANGED <<args, batch, lists, ip, executing, conn, net, power, aim,
                 history, did>>

-----------------------------------------------------------------------------
(* The network and the BMC.  What they do during a walk of the list is not     *)
(* seen before its end, so they act between two walks.                         *)

Lose(h) ==
  /\ BetweenWalks
  /\ \E p \in net[h] : net' = [net EXCEPT ![h] = @ \ {p}]
  /\ UNCHANGED <<args, batch, lists, ip, executing, conn, power, aim, history,
                 did, exit>>

\* Where an operation takes the power state.
AimOf(op, now) ==
  IF op \in {"on", "cycle", "reset"} THEN "on"
  ELSE IF op \in {"off", "soft"} THEN "off" ELSE now

\* The BMC carries a request out and answers, or refuses it.
Serve(h) ==
  \E p \in net[h], result \in {"ok", "refused", "unfit"} :
    LET t == TargetOf(p.id)
        acts == p.type \in {"control", "slot", "identify"} /\ result = "ok"
        reports == p.type \in {"status", "sensor"} /\ result = "ok"
    IN
    /\ BetweenWalks /\ p.kind = "rq"
    /\ p.type \notin Operation => result = "ok"
    /\ result = "unfit" => p.type = "sensor"
    /\ net' = [net EXCEPT ![h] = (@ \ {p}) \cup
         {[p EXCEPT !.kind = "rs", !.result = result, 
                   !.power = IF reports THEN power[t] ELSE "off"]}]
    /\ aim' = IF acts /\ p.type # "identify"
              THEN [aim EXCEPT ![t] = AimOf(p.op, @)] ELSE aim
    /\ did' = [did EXCEPT ![p.id] =
         [exec |-> IF acts THEN @.exec \cup {p.op} ELSE @.exec,
          before |-> IF reports /\ @.exec = {}
                     THEN @.before \cup {power[t]} ELSE @.before,
          after |-> IF reports /\ @.exec # {}
                    THEN @.after \cup {power[t]} ELSE @.after]]
    /\ UNCHANGED <<args, batch, lists, ip, executing, conn, power, history, exit>>

Settle(t) ==
  /\ BetweenWalks /\ power[t] # aim[t]
  /\ power' = [power EXCEPT ![t] = aim[t]]
  /\ UNCHANGED <<args, batch, lists, ip, executing, conn, net, aim, history,
                 did, exit>>

-----------------------------------------------------------------------------
Init ==
  /\ args \in Args
  /\ batch = 0 /\ pending = <<>> /\ adding = <<>> /\ itr = 1
  /\ next = [id \in Ids |-> None]
  /\ ip = [id \in Ids |->
       [st |-> "start", cmd |-> "on", wait |-> FALSE]]
  /\ executing = 0
  /\ conn = [h \in Hosts |-> [in |-> <<>>, out |-> <<>>]]
  /\ net = [h \in Hosts |-> {}]
  /\ power \in [Targets -> args.initial] /\ aim = power
  /\ counts = {}
  /\ said = [id \in Ids |-> <<>>]
  /\ did = [id \in Ids |-> [exec |-> {}, before |-> {}, after |-> {}]]
  /\ exit = None

Walk == ProcessPackets \/ EndWalk

Next ==
  \/ Queue \/ Walk \/ Exit
  \/ \E h \in Hosts : Transmit(h) \/ Receive(h) \/ Lose(h) \/ Serve(h)
  \/ \E t \in Targets : Settle(t)

Spec == Init /\ [][Next]_vars

\* The poll loop never blocks for longer than the session timeout, so the list
\* is walked again and again, and one of these times the clock shows that the
\* session timeout is over.  Nothing is assumed of the network or the BMC.
TimeOut(id) ==
  /\ itr \in DOMAIN pending /\ pending[itr] = id
  /\ GiveUp(id)
  /\ UNCHANGED <<args, batch, power, aim, did, exit>>

FairSpec ==
  Spec /\ WF_vars(Walk) /\ \A id \in Ids : SF_vars(TimeOut(id))

-----------------------------------------------------------------------------
(* Properties *)

\* The commands that have begun and are not done.
Running == {id \in ToSet(pending) : ip[id].st # "start"}

\* Every command of a batch that is over.
Over(id) ==
  /\ \E b \in 1 .. batch : id \in ToSet(args.batches[b])
  /\ id \notin ToSet(pending) \cup ToSet(adding)
  /\ \A other \in Ids : next[other] # id

TypeOK ==
  /\ args \in Args /\ batch \in 0 .. Len(args.batches)
  /\ pending \in Seq(Ids) /\ adding \in Seq(Ids)
  /\ itr \in 1 .. Len(pending) + 1
  /\ next \in [Ids -> Ids \cup {None}]
  /\ ip \in [Ids -> [st: Sent \cup {"start", "end"}, cmd: AllOps,
                     wait: BOOLEAN]]
  /\ executing \in Nat
  /\ conn \in [Hosts -> [in: Seq(Packet), out: Seq(Packet)]]
  /\ \A h \in Hosts : Len(conn[h].in) <= 1 /\ Len(conn[h].out) <= 2
  /\ net \in [Hosts -> SUBSET Packet]
  /\ power \in [Targets -> PowerStates] /\ aim \in [Targets -> PowerStates]
  /\ counts \subseteq Messages /\ said \in [Ids -> Seq(Messages)]
  /\ did \in [Ids -> [exec: SUBSET AllOps, before: SUBSET PowerStates,
                      after: SUBSET PowerStates]]
  /\ exit \in {None, "success", "failure"}

\* A command prints one line and no more, whatever is lost, late, refused or
\* repeated; when it is over it has printed it, unless the BMC refused it in an
\* IPMI 2.0 session (ipmipower_output() in ipmipower_powercmd.c).
OneLine ==
  \A id \in Ids :
    /\ Len(said[id]) <= 1
    /\ Over(id) /\ args.version = 15 => said[id] # <<>>

\* No more commands run at once than the fanout allows, and executing_count is
\* their number, so that no place is lost (ipmipower_powercmd.c, fanout).
FanoutKept ==
  /\ executing = Cardinality(Running)
  /\ args.fanout > 0 => executing <= args.fanout

\* Two commands to the same host never run at the same time
\* (ipmipower_powercmd_queue() and process_pending()).
HostSerialized ==
  \A a, b \in Running : HostOf[a] = HostOf[b] => a = b

\* The line is true: "ok" is printed for what the BMC executed and, if the
\* command waits, after it has reported that power state; "on" and "off" are
\* what it reported; a cycle or reset with on-if-off never reaches a chassis
\* whose only report was "off" (the state machine of _process_ipmi_packets()).
LineTrue ==
  \A id \in Ids :
    /\ said[id] = <<"ok">> =>
         \/ ip[id].cmd \in did[id].exec
            /\ (WaitsFor(ip[id].cmd) => ip[id].cmd \in did[id].after)
         \/ args.c410x /\ ip[id].cmd \in did[id].before
    /\ ip[id].cmd = "status" /\ said[id] # <<>> /\ said[id][1] \in PowerStates =>
         said[id][1] \in did[id].before
    /\ args.onIfOff /\ did[id].exec \cap {"cycle", "reset"} # {} =>
         "on" \in did[id].before

\* Every command ends, even if the BMC never answers or never reaches the power
\* state that is waited for (_has_timed_out()).
BatchEnds == pending # <<>> ~> pending = <<>> /\ BetweenWalks
=============================================================================
