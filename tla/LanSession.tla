------------------------------ MODULE LanSession ------------------------------
(***************************************************************************)
(* libfreeipmi's own IPMI-over-LAN client                                  *)
(* (libfreeipmi/api/ipmi-lan-session-common.c): a session of IPMI 1.5 or   *)
(* 2.0 is opened, commands are sent over it, some of them bridged to       *)
(* another controller through the BMC, and the session is closed.  Every   *)
(* command is a request that is retransmitted with growing timeouts under  *)
(* a new requester sequence number (or message tag) until an answer with   *)
(* that number arrives or the session timeout has passed since the last    *)
(* good answer.                                                            *)
(*                                                                         *)
(* Time is counted in units of the retransmission timeout.  The network    *)
(* loses and delays packets, up to Lifetime transmissions, and keeps order.*)
(* The BMC is external: it executes what it gets and answers each request  *)
(* once; it gives the right answer to a right password.  Damaged packets,  *)
(* which the checksum and the authentication code reject, count as lost.   *)
(* Contexts opened with IPMI_FLAGS_NOSESSION, which have no session and    *)
(* send every command unauthenticated, are left out.                       *)
(***************************************************************************)
EXTENDS Integers, Sequences, FiniteSets

CONSTANTS
  RqMod,            \* IPMI_LAN_REQUESTER_SEQUENCE_NUMBER_MAX + 1 (64)
  TagMod,           \* message tags are 8 bits wide (256)
  SessionTimeout,   \* session_timeout, in retransmission timeouts (20)
  BackoffCount,     \* IPMI_LAN_BACKOFF_COUNT (2)
  SequenceMax, Window, ListBits,  \* of SequenceWindow
  Capacity,         \* packets in flight in each direction
  Lifetime,         \* transmissions a packet may survive in the network
  MaxCommands       \* bound: commands the caller gives in a session

ASSUME LanAssumption ==
  /\ {RqMod, TagMod, SessionTimeout, BackoffCount, Capacity} \subseteq Nat \ {0}
  /\ {Lifetime, MaxCommands} \subseteq Nat
  /\ {SequenceMax, Window, ListBits} \subseteq Nat \ {0} /\ Window <= ListBits
  \* no number comes round while a packet with it is under way
  /\ Lifetime + SessionTimeout < RqMod /\ Lifetime < TagMod

VARIABLES
  version,   \* 15 or 20: ctx->type
  pc,        \* "ready", "wait", "bridge", "failed" or "closed"
  cl,        \* ctx->io.outofband and the locals of the wrappers
  toBmc, toClient,   \* packets in flight
  bmc,       \* the BMC's side (external)
  last       \* history: the answer the last command accepted, or None

vars == <<version, pc, cl, toBmc, toClient, bmc, last>>

None == <<>>

W15 == INSTANCE SequenceWindow WITH Ipmi20 <- FALSE
W20 == INSTANCE SequenceWindow WITH Ipmi20 <- TRUE

-----------------------------------------------------------------------------
(* The network *)

\* A request, a bridged request that waits at the other controller, or an
\* answer.  own and age are history: whether it belongs to the command under
\* way, and how many transmissions ago its request was sent; ipmb is the number
\* for the other controller, if any.
Packet(name, num, sid, ipmb, val, ok, sseq, own, age) ==
  [name |-> name, num |-> num, sid |-> sid, ipmb |-> ipmb, val |-> val,
   ok |-> ok, sseq |-> sseq, own |-> own, age |-> age]

Sent(ch, p) == {ch} \cup (IF Len(ch) < Capacity THEN {Append(ch, p)} ELSE {})

\* A packet one transmission, and maybe one command, later.
Aged(p, new) == [p EXCEPT !.age = @ + 1, !.own = @ /\ ~ new]

\* The members of a set of numbers, from the least to the greatest.
Ascending(S) ==
  CHOOSE f \in [1 .. Cardinality(S) -> S] :
    \A i, j \in 1 .. Cardinality(S) : i < j => f[i] < f[j]

\* What is left of ch by then, in its order.
Later(ch, new) ==
  LET kept == {i \in 1 .. Len(ch) : ch[i].age < Lifetime}
  IN  [k \in 1 .. Cardinality(kept) |-> Aged(ch[Ascending(kept)[k]], new)]

-----------------------------------------------------------------------------
(* api_lan_cmd_wrapper(), api_lan_2_0_cmd_wrapper() *)

\* The RMCP+ payloads of the handshake carry message tags, everything else
\* requester sequence numbers.
Tagged(name) == name \in {"open", "rakp1", "rakp3"}
Number(c) == IF Tagged(c.name) THEN c.tag ELSE c.rq

\* What unassembling and the payload type tell apart: the formats of 1.5 and
\* of 2.0, and each payload of the handshake.
Format(name) ==
  IF Tagged(name) THEN name
  ELSE IF version = 20 /\ name # "authcap" THEN "ipmi" ELSE "lan"

\* A session header is all zero before the session.
Sid(c) == IF c.name \in {"authcap", "challenge"} THEN 0 ELSE c.sid

\* The numbers of the next transmission: session_sequence_number, which only
\* the BMC looks at, is left out.
NextNumberTag(c) == IF Tagged(c.name) THEN [c EXCEPT !.tag = (@ + 1) % TagMod] ELSE c

NextNumberRq(c) == IF Tagged(c.name) THEN c ELSE [c EXCEPT !.rq = (@ + 1) % RqMod]

NextNumber(c) ==
  IF Tagged(c.name) THEN [c EXCEPT !.tag = (@ + 1) % TagMod]
  ELSE [c EXCEPT !.rq = (@ + 1) % RqMod]

\* _api_lan_cmd_send(), _api_lan_2_0_cmd_send().
Transmit(c, new) ==
  /\ toBmc' \in Sent(Later(toBmc, new),
       Packet(c.name, Number(c), Sid(c), c.ipmb, c.key, TRUE, 0,
              TRUE, 0))
  /\ toClient' = Later(toClient, new)
  /\ bmc' = [bmc EXCEPT !.pending = Later(@, new)]

\* _calculate_timeout(): how long a transmission waits for its answer.
Wait(retx) ==
  LET t == retx \div BackoffCount + 1
  IN  IF t < SessionTimeout THEN t ELSE SessionTimeout

\* _session_timed_out(), asked before every wait: a wait ends a little after
\* the time it was given, so that the session timeout is exceeded when the
\* waits add up to it.
TimedOut(c) == c.spent >= SessionTimeout

\* The wrapper returns: cleanup moves the numbers on.  A failure while the
\* session is opened leaves no session, a later one does.
Returned(c) == [NextNumber(c) EXCEPT !.retx = 0]
Opening == {"none", "authcap", "challenge", "activate", "open", "rakp1", "rakp3"}
Established(c) == c.name \notin Opening \cup {"setpriv"}
GiveUpCloseLater(c, why) ==
  /\ pc' = IF Established(c) THEN "ready" ELSE "failed"
  /\ cl' = [Returned(c) EXCEPT !.err = why, !.ipmb = None]

GiveUp(c, why) ==
  /\ pc' = IF c.name = "close" THEN "closed"
           ELSE IF Established(c) THEN "ready" ELSE "failed"
  /\ cl' = [Returned(c) EXCEPT !.err = why, !.ipmb = None]

\* A command is sent for the first time; the time since the last good answer
\* includes what the caller idled.
SendCommand(c, new) ==
  /\ Transmit(c, new)
  /\ IF TimedOut(c) THEN GiveUp(c, "timeout")
     ELSE pc' = "wait" /\ cl' = [c EXCEPT !.err = "none"]

\* _api_lan_cmd_recv() came back empty: the command is sent again, under new
\* numbers, and then the session may have timed out.  Closing does not insist.
NoAnswer ==
  /\ pc = "wait" /\ UNCHANGED <<version, last>>
  /\ IF cl.name = "close"
     THEN /\ pc' = "closed" /\ cl' = Returned(cl)
          /\ UNCHANGED <<toBmc, toClient, bmc>>
     ELSE LET c == [NextNumber(cl) EXCEPT !.retx = @ + 1,
                                          !.spent = @ + Wait(cl.retx)]
          IN  /\ Transmit(c, FALSE)
              /\ IF TimedOut(c) THEN GiveUp(c, "timeout")
                 ELSE pc' = "wait" /\ cl' = c

-----------------------------------------------------------------------------
(* _api_lan_cmd_wrapper_verify_packet() and its 2.0 sibling *)

\* A packet with another session id passes if it reports an error.  In a 2.0
\* session the BMC addresses remote_console_session_id, of which there is one.
SidFits(p, sid) == version = 20 \/ p.sid = sid \/ ~ p.ok

\* [good, highest, list] for a packet that was waited for under number num.
Verify(p, num, u) ==
  LET drop == [good |-> FALSE, highest |-> cl.highest, list |-> cl.list]
      r == IF version = 15 THEN W15!Check(p.sseq, cl.highest, cl.list, u)
           ELSE W20!Check(p.sseq, cl.highest, cl.list, u)
  IN  IF Format(p.name) # Format(cl.name) \/ ~ SidFits(p, Sid(cl)) THEN drop
      ELSE IF ~ cl.up THEN [drop EXCEPT !.good = p.num = num]
      ELSE [good |-> r.rv = 1 /\ p.num = num,
            highest |-> r.highest, list |-> r.list]
\* A packet that is not the answer leaves the wait as it is, unless the
\* session timed out meanwhile.
Ignore(c, wait) ==
  /\ UNCHANGED last
  /\ \/ pc' = pc /\ cl' = c
     \/ c.spent + wait >= SessionTimeout /\ GiveUp(c, "timeout")

\* A good answer ends the wrapper; last_received is now.
Done(c, p, l) ==
  /\ pc' = l
  /\ cl' = [Returned(c) EXCEPT !.spent = 0, !.err = "none"]
  /\ last' = [name |-> p.name, of |-> c.name, own |-> p.own]

Refused(c, p, why) ==
  /\ GiveUp([c EXCEPT !.spent = 0], why)
  /\ last' = [name |-> p.name, of |-> c.name, own |-> p.own]

\* The key exchange authentication code of RAKP 2: with the right password it
\* is right when it is made for the session id of this handshake.
Rakp2Fits(c, p) == p.sid = c.sid

\* What api_lan_open_session(), api_lan_2_0_open_session() and the callers of
\* a command do with its answer.
Use(c, p) ==
  \/ /\ ~ p.ok /\ c.name # "close"
     /\ Refused(c, p, IF c.name = "rakp3" THEN "password" ELSE "refused")
  \/ /\ p.ok /\ c.name \in {"authcap", "setpriv", "user"}
     /\ Done(c, p, "ready")
  \/ /\ p.ok /\ c.name \in {"challenge", "open"}
     /\ Done([c EXCEPT !.sid = p.val], p, "ready")
  \/ /\ p.ok /\ c.name = "activate"
     /\ Done([c EXCEPT !.sid = p.val, !.up = TRUE, !.highest = p.sseq], p, "ready")
  \/ /\ p.ok /\ c.name = "rakp1"
     /\ IF Rakp2Fits(c, p) THEN Done([c EXCEPT !.key = p.val], p, "ready")
        ELSE Refused(c, p, "password")
  \/ /\ p.ok /\ c.name = "rakp3"
     /\ IF p.val = c.key THEN Done([c EXCEPT !.up = TRUE], p, "ready")
        ELSE Refused(c, p, "k_g")
  \/ /\ p.ok /\ c.name = "sendmsg"
     /\ Done(c, p, "bridge")
  \/ /\ c.name = "close"
     /\ Done(c, p, "closed")

\* A packet arrives while the wrapper waits.
Receive ==
  /\ pc = "wait" /\ toClient # <<>>
  /\ toClient' = Tail(toClient)
  /\ LET p == Head(toClient)
     IN  \E u \in W15!UndefinedBits :
           LET v == Verify(p, Number(cl), u)
               c == [cl EXCEPT !.highest = v.highest, !.list = v.list]
           IN  IF v.good THEN Use(c, p) ELSE Ignore(c, Wait(c.retx))
  /\ UNCHANGED <<version, toBmc, bmc>>

-----------------------------------------------------------------------------
(* The callers *)

\* The command that follows name while a session is opened.
NextName(name) ==
  CASE name = "none" -> "authcap"
    [] name = "authcap" -> IF version = 15 THEN "challenge" ELSE "open"
    [] name = "challenge" -> "activate"
    [] name = "activate" -> "setpriv"
    [] name = "open" -> "rakp1"
    [] name = "rakp1" -> "rakp3"
    [] OTHER -> "setpriv"

\* api_lan_open_session(), api_lan_2_0_open_session(): one command after the
\* other.
OpenStep ==
  /\ pc = "ready" /\ cl.name \in Opening
  /\ SendCommand([cl EXCEPT !.name = NextName(cl.name)], TRUE)
  /\ last' = None /\ UNCHANGED version

InSession == pc = "ready" /\ cl.name \notin Opening

\* A command of the caller's, after idling not at all or too long.
Command ==
  /\ InSession /\ cl.cmds < MaxCommands
  /\ \E idle \in {0, SessionTimeout} :
       SendCommand([cl EXCEPT !.name = "user", !.spent = @ + idle, !.cmds = @ + 1],
                   TRUE)
  /\ last' = None /\ UNCHANGED version

\* api_lan_close_session(), api_lan_2_0_close_session()
CloseSession ==
  /\ InSession
  /\ \E idle \in {0, SessionTimeout} :
       SendCommand([cl EXCEPT !.name = "close", !.spent = @ + idle], TRUE)
  /\ last' = None /\ UNCHANGED version

\* api_lan_cmd_wrapper_ipmb(): rq_seq_orig is the number the message to the
\* other controller carries, also when Send Message itself is retransmitted.
Embedded(c) == [c EXCEPT !.name = "sendmsg", !.ipmb = <<c.rq>>]

CommandIpmb ==
  /\ InSession /\ cl.cmds < MaxCommands
  /\ SendCommand([Embedded(cl) EXCEPT !.bretx = 0, !.cmds = @ + 1], TRUE)
  /\ last' = None /\ UNCHANGED version

BridgeNoAnswerNoCount ==
  /\ pc = "bridge"
  /\ SendCommand([Embedded(cl) EXCEPT !.spent = @ + Wait(cl.bretx)], FALSE)
  /\ UNCHANGED <<version, last>>

BridgeNoAnswer ==
  /\ pc = "bridge"
  /\ SendCommand([Embedded(cl) EXCEPT !.bretx = @ + 1,
                                      !.spent = @ + Wait(cl.bretx)], FALSE)
  /\ UNCHANGED <<version, last>>

BridgeReceive ==
  /\ pc = "bridge" /\ toClient # <<>>
  /\ toClient' = Tail(toClient)
  /\ LET p == Head(toClient)
     IN  \E u \in W15!UndefinedBits :
           LET v == Verify(p, cl.ipmb[1], u)
               c == [cl EXCEPT !.highest = v.highest, !.list = v.list]
           IN  IF v.good
               THEN /\ pc' = "ready"
                    /\ cl' = [c EXCEPT !.spent = 0, !.ipmb = None,
                                !.err = IF p.ok THEN "none" ELSE "refused"]
                    /\ last' = [name |-> p.name, of |-> "bridged",
                                own |-> p.own]
               ELSE /\ UNCHANGED last
                    /\ \/ pc' = pc /\ cl' = c
                       \/ /\ c.spent + Wait(c.bretx) >= SessionTimeout
                          /\ pc' = "ready"
                          /\ cl' = [c EXCEPT !.err = "timeout", !.ipmb = None]
  /\ UNCHANGED <<version, toBmc, bmc>>

-----------------------------------------------------------------------------
(* The BMC (external) *)

OutNext(n) ==
  IF version = 15 THEN (n + 1) % (SequenceMax + 1) ELSE (n % SequenceMax) + 1

\* The answer to p, in a session numbered.
Answer(p, b, ok, val, sid) ==
  toClient' \in Sent(toClient,
    Packet(p.name, p.num, sid, None, val, ok, b.out, p.own, p.age))

Numbered(b) == [b EXCEPT !.out = OutNext(@)]

\* What happens after the client is done with the session is left out.
Interested == pc \notin {"failed", "closed"}

BmcReceive ==
  /\ Interested /\ toBmc # <<>>
  /\ toBmc' = Tail(toBmc)
  /\ LET p == Head(toBmc)
         here == p.sid \in bmc.active
     IN  \/ /\ p.name = "authcap"
            /\ bmc' = bmc /\ Answer(p, bmc, TRUE, 0, 0)
         \/ /\ p.name \in {"challenge", "open"}
            /\ \/ /\ bmc' = [bmc EXCEPT !.ids = @ + 1]
                  /\ Answer(p, bmc, TRUE, bmc'.ids, 0)
               \/ bmc' = bmc /\ Answer(p, bmc, FALSE, 0, 0)
         \/ /\ p.name = "activate"
            /\ \/ /\ bmc' = [Numbered(bmc) EXCEPT !.active = @ \cup {p.sid}]
                  /\ Answer(p, bmc', TRUE, p.sid, p.sid)
               \/ bmc' = bmc /\ Answer(p, bmc, FALSE, 0, p.sid)
         \/ /\ p.name = "rakp1"
            /\ bmc' = [bmc EXCEPT !.rnd = @ + 1, !.key[p.sid] = bmc.rnd + 1]
            /\ Answer(p, bmc, TRUE, bmc'.rnd, p.sid)
         \/ /\ p.name = "rakp3"
            /\ IF p.val = bmc.key[p.sid]
               THEN /\ bmc' = [bmc EXCEPT !.active = @ \cup {p.sid}]
                    /\ Answer(p, bmc, TRUE, p.val, 0)
               ELSE bmc' = bmc /\ Answer(p, bmc, FALSE, 0, 0)
         \/ /\ p.name \in {"setpriv", "user", "close"} /\ here
            /\ bmc' = [Numbered(bmc) EXCEPT
                         !.active = IF p.name = "close" THEN @ \ {p.sid} ELSE @]
            /\ \E ok \in BOOLEAN : Answer(p, bmc', ok, 0, p.sid)
         \/ /\ p.name = "sendmsg" /\ here
            /\ \E ok \in BOOLEAN, pending \in Sent(bmc.pending, p) :
                 /\ bmc' = [Numbered(bmc) EXCEPT
                              !.pending = IF ok THEN pending ELSE @]
                 /\ Answer(p, bmc', ok, 0, p.sid)
  /\ UNCHANGED <<version, pc, cl, last>>

\* The other controller answered: the BMC forwards it.
BmcForward ==
  /\ Interested /\ bmc.pending # <<>>
  /\ LET p == Head(bmc.pending)
     IN  /\ bmc' = [Numbered(bmc) EXCEPT !.pending = Tail(@)]
         /\ toClient' \in Sent(toClient,
              Packet("bridged", p.ipmb[1], p.sid, None, 0, TRUE, bmc'.out,
                     p.own, p.age))
  /\ UNCHANGED <<version, pc, cl, toBmc, last>>

-----------------------------------------------------------------------------

MaxIds == 2 * SessionTimeout

Init ==
  /\ version \in {15, 20}
  /\ pc = "ready"
  /\ cl = [name |-> "none", rq |-> 0, tag |-> 0, sid |-> 0, key |-> 0,
           ipmb |-> None, retx |-> 0, bretx |-> 0, spent |-> 0, up |-> FALSE,
           highest |-> 0, list |-> 0 .. Window - 1, err |-> "none", cmds |-> 0]
  /\ toBmc = <<>> /\ toClient = <<>>
  /\ bmc = [ids |-> 0, rnd |-> 0, key |-> [i \in 1 .. MaxIds |-> 0],
            active |-> {}, out |-> 0, pending |-> <<>>]
  /\ last = None

Client ==
  \/ NoAnswer \/ Receive \/ BridgeNoAnswer \/ BridgeReceive

Next ==
  \/ OpenStep \/ Command \/ CommandIpmb \/ CloseSession
  \/ Client \/ BmcReceive \/ BmcForward

Spec == Init /\ [][Next]_vars

\* select() returns when a packet is there or the time is over; nothing is
\* assumed of the network and the BMC.
FairSpec == Spec /\ WF_vars(Client)

-----------------------------------------------------------------------------
(* Properties. *)

\* Every variable keeps its type.
TypeOK ==
  /\ version \in {15, 20}
  /\ pc \in {"ready", "wait", "bridge", "failed", "closed"}
  /\ cl.rq \in 0 .. RqMod - 1 /\ cl.tag \in 0 .. TagMod - 1
  /\ cl.highest \in 0 .. SequenceMax /\ cl.list \subseteq 0 .. ListBits - 1
  /\ Len(toBmc) <= Capacity /\ Len(toClient) <= Capacity
  /\ bmc.ids <= MaxIds /\ bmc.out \in 0 .. SequenceMax

\* An answer is taken for the command under way only if it answers one of its
\* transmissions, and for a bridged command only if it comes from the other
\* controller.  What the code does not look at is the command in the answer,
\* so that the other controller's answer may pass for that of Send Message
\* when the latter is lost (_api_lan_cmd_wrapper_verify_packet,
\* api_lan_cmd_wrapper_ipmb).
AnswerOwn ==
  last # None =>
    /\ last.own
    /\ last.name = last.of \/ <<last.name, last.of>> = <<"bridged", "sendmsg">>

\* A session the client holds open is one the BMC has, under the same id and
\* the same key, whichever retransmissions of the handshake were answered
\* (api_lan_open_session, api_lan_2_0_open_session).
SessionAgreed ==
  cl.up /\ pc \in {"ready", "wait", "bridge"} /\ cl.name # "close" =>
    /\ cl.sid \in bmc.active
    /\ version = 20 => bmc.key[cl.sid] = cl.key

\* A key exchange code of RAKP 2 that does not fit, and the BMC's "invalid
\* integrity check value" in answer to RAKP 3, are reported as a wrong
\* password: with the right one neither happens, however the handshake is
\* retransmitted (ipmi-lan-session-common.c:3967, 4107).
NoFalsePassword == cl.err \notin {"password", "k_g"}

\* Every call returns, whatever is lost: the waits between retransmissions add
\* up to the session timeout, and although each Send Message that the BMC
\* answers starts that anew, the growing retransmission timeout of a bridged
\* command reaches it in the end (api_lan_cmd_wrapper,
\* api_lan_cmd_wrapper_ipmb, _calculate_timeout).
CallReturns == pc \in {"wait", "bridge"} ~> pc \in {"ready", "failed", "closed"}
=============================================================================
