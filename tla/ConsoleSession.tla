--------------------------- MODULE ConsoleSession ---------------------------
(***************************************************************************)
(* The protocol state machine of one console context of libipmiconsole     *)
(* (_process_ctx, ipmiconsole_processing.c) against a BMC: it opens an     *)
(* IPMI 2.0 session, frees and activates the SOL payload, starts over on   *)
(* another port, and deactivates and closes in the end, whatever is lost,  *)
(* refused, raced by another user, or asked for by this one.               *)
(*                                                                         *)
(* A protocol state is named after the request it waits for an answer to.  *)
(* The exchange of characters while SOL is up is the module SolTransfer;   *)
(* here it is only how it ends.  Time is a choice: in every turn a timer   *)
(* may or may not have expired.                                            *)
(***************************************************************************)
EXTENDS Naturals, Sequences

CONSTANTS
  Configs,             \* the combinations of flags the user may configure
  MaxRetransmission,   \* maximum_retransmission_count
  AcceptableErrors,    \* acceptable_packet_errors_count
  Instances,           \* the SOL payload instances of the BMC
  NetMax               \* bound on the packets under way in each direction

Config == [only : BOOLEAN,          \* BEHAVIOR_DEACTIVATE_ONLY
           all : BOOLEAN,           \* BEHAVIOR_DEACTIVATE_ALL_INSTANCES
           errorInUse : BOOLEAN,    \* BEHAVIOR_ERROR_ON_SOL_INUSE
           skipSupport : BOOLEAN,   \* WORKAROUND_SKIP_CHANNEL_PAYLOAD_SUPPORT
           skipStatus : BOOLEAN,    \* WORKAROUND_SKIP_SOL_ACTIVATION_STATUS
           otherPort : BOOLEAN]     \* config.port is not RMCP_PRIMARY_RMCP_PORT

ASSUME SessionAssumption ==
  /\ Configs \subseteq Config
  /\ MaxRetransmission \in Nat /\ AcceptableErrors \in Nat
  /\ Instances \in Nat \ {0} /\ NetMax \in Nat \ {0}

VARIABLES
  config,      \* c->config
  s,           \* c->session, errnum, and whether _process_ctx() gave up on it
  userClosed,  \* the user, not the session itself, asked for the end
  toBmc, toConsole,   \* the packets under way
  bmc          \* the sessions open at the BMC and who holds the payload

vars == <<config, s, userClosed, toBmc, toConsole, bmc>>

Requests == {"getauth", "open", "rakp1", "rakp3", "setpriv", "support",
             "status", "activate", "deactivate", "close"}

\* The requests of an established session, which a BMC answers only in it.
InSession == {"setpriv", "support", "status", "activate", "deactivate", "close"}

\* ipmiconsole_ctx_session_setup(), and what it does not touch.
FreshSession(r) ==
  [state |-> "start", primary |-> ~ config.otherPort, addr |-> TRUE, close |-> FALSE, closeTimeout |-> FALSE,
   newPort |-> FALSE, instances |-> FALSE, again |-> FALSE,
   succeeded |-> FALSE, retx |-> 0, errors |-> 0, activates |-> 0,
   deactivates |-> 0, active |-> 0, deactivated |-> 0,
   err |-> r.err, ended |-> r.ended, established |-> r.established,
   fault |-> r.fault]

\* The session starts over on the port the BMC named: the address is cleared
\* for the new port, and sin_addr stays 0.
OnNewPort(r) == [FreshSession(r) EXCEPT !.primary = FALSE, !.addr = FALSE]

-----------------------------------------------------------------------------
(* The outcome of a turn: the session, and the request sent in it if any. *)

Stay(r) == [s |-> r, sends |-> FALSE]

\* A request is sent and the session waits in the state of that name.
Send(r, request) == [s |-> [r EXCEPT !.state = request], sends |-> TRUE]

\* "goto close_session": the context leaves the engine.
Quit(r) == Stay([r EXCEPT !.ended = TRUE])

\* An assertion fails, or a line that cannot be reached is.
Fault(r) == Quit([r EXCEPT !.fault = TRUE, !.err = TRUE])

ClosingUnflagged(r) == [r EXCEPT !.err = TRUE]

ClosingUnexplained(r) == [r EXCEPT !.close = TRUE]

\* An error: errnum is set and the session is to be closed cleanly.
Closing(r) == [r EXCEPT !.close = TRUE, !.err = TRUE]

Upto(n, max) == IF n < max THEN n + 1 ELSE max

-----------------------------------------------------------------------------
(* The handlers, one for every state that waits for a response m. *)

HandleGetAuth(r, m) ==
  IF m.code = "unsupported" THEN Quit([r EXCEPT !.err = TRUE])
  ELSE Send(r, "open")

HandleRakp3(r) == IF r.close THEN Quit(r) ELSE Send(r, "setpriv")

HandleSetPrivilege(r) ==
  Send(r, IF config.skipSupport THEN "status" ELSE "support")

HandleSupport(r, m) ==
  IF m.code = "unsupported" THEN Send(Closing(r), "close")
  ELSE Send(r, IF config.skipStatus THEN "activate" ELSE "status")

\* _check_sol_activated(): the active instances this session is about.
Active(m) == IF (config.only /\ config.all) \/ m.n = 0 THEN m.n ELSE 1

HandleStatus(r, m) ==
  LET n == Active(m)
      q == [r EXCEPT !.active = n, !.deactivated = 0]
  IN  IF r.instances \/ r.again THEN Fault(r)
      ELSE IF m.code = "bad" \/ (config.errorInUse /\ n > 0)
      THEN Send(Closing(q), "close")
      ELSE IF n > 0
      THEN Send([q EXCEPT !.instances = TRUE, !.again = ~ config.only],
                "deactivate")
      ELSE IF config.only
      THEN Send([q EXCEPT !.close = TRUE, !.succeeded = TRUE], "close")
      ELSE Send(q, "activate")

ActivateRaceUnlimited(q) == Send(q, "status")

ActivateRaceUncounted(q) == Send([q EXCEPT !.activates = 0], "status")

\* "activate payload race": the payload was activated since its status was
\* asked for, or the BMC contradicts itself; q has counted the attempt.
ActivateRace(q) ==
  IF q.activates > AcceptableErrors + 1 THEN Send(Closing(q), "close")
  ELSE Send(q, "status")

HandleActivatedUnchecked(r, m) ==
  IF m.code = "already" THEN ActivateRace([r EXCEPT !.activates = @ + 1])
  ELSE Stay([r EXCEPT !.state = "sol", !.established = TRUE])

HandleActivatedTakeOver(r, m) ==
  IF m.code \in {"refused", "already", "bad", "newport"}
  THEN Send(Closing(r), "deactivate")
  ELSE Stay([r EXCEPT !.state = "sol", !.established = TRUE])

\* What the response to Activate Payload leads to when nobody closes.
HandleActivated(r, m) ==
  CASE m.code = "refused" \/ (m.code = "already" /\ config.errorInUse) ->
         Send(Closing(r), "close")
    [] m.code = "already" /\ ~ config.errorInUse ->
         ActivateRace([r EXCEPT !.activates = @ + 1])
    [] m.code = "bad" \/ (m.code = "newport" /\ ~ r.primary) ->
         Send(Closing(r), "deactivate")
    [] m.code = "newport" /\ r.primary ->
         Send([r EXCEPT !.newPort = TRUE], "deactivate")
    [] OTHER -> Stay([r EXCEPT !.state = "sol", !.established = TRUE])

HandleActivate(r, m) ==
  IF r.close THEN Send(r, "deactivate") ELSE HandleActivated(r, m)

HandleDeactivate(r) ==
  LET q == [r EXCEPT !.deactivated = Upto(@, Instances + 1)]
      done == q.active = q.deactivated
      a == [q EXCEPT !.instances = FALSE, !.again = FALSE,
                     !.deactivates = @ + 1]
  IN  IF config.only
      THEN IF done THEN Send([q EXCEPT !.succeeded = TRUE, !.close = TRUE], "close")
           ELSE Send(q, "deactivate")
      ELSE IF r.close \/ r.newPort THEN Send(r, "close")
      ELSE IF ~ r.again THEN Fault(r)
      ELSE IF ~ done THEN Send(q, "deactivate")
      ELSE IF a.deactivates > AcceptableErrors + 1 THEN Send(Closing(a), "close")
      ELSE Send(a, "activate")

HandleClose(r) ==
  IF r.close \/ r.closeTimeout THEN Quit(r)
  ELSE IF r.newPort THEN Send(OnNewPort(r), "getauth")
  ELSE Fault(r)

\* The part of _process_ctx() below state_machine.
Handle(r, m) ==
  CASE r.state = "getauth" -> HandleGetAuth(r, m)
    [] r.state = "open" -> Send(r, "rakp1")
    [] r.state = "rakp1" -> Send(r, "rakp3")
    [] r.state = "rakp3" -> HandleRakp3(r)
    [] r.state = "setpriv" -> HandleSetPrivilege(r)
    [] r.state = "support" -> HandleSupport(r, m)
    [] r.state = "status" -> HandleStatus(r, m)
    [] r.state = "activate" -> HandleActivate(r, m)
    [] r.state = "deactivate" -> HandleDeactivate(r)
    [] OTHER -> HandleClose(r)

\* No packet: the handlers that a closing session reaches ignore it.
NoPacket == [request |-> "none", code |-> "none", n |-> 0, last |-> FALSE]

\* _close_session(), and the handler if it leaves the matter to it.
CloseSession(r) ==
  CASE r.state \in {"start", "getauth", "open", "rakp1"} -> Quit(r)
    [] r.state \in {"setpriv", "support", "status"} -> Send(r, "close")
    [] r.state = "sol" -> Send(r, "deactivate")
    [] OTHER -> Handle(r, NoPacket)

-----------------------------------------------------------------------------
(* The network: packets get lost, and do not overtake each other. *)

\* A request carries a new requester sequence number or message tag, which
\* the packets under way do not; Set Session Privilege Level keeps the old one.
Aged(net, request) ==
  [i \in DOMAIN net |-> [net[i] EXCEPT !.last = @ /\ request = "setpriv"]]

\* The request of a turn gets lost or is under way, to the BMC if the session
\* still has its address.
Transmit(o, responses) ==
  /\ s' = o.s
  /\ \/ /\ ~ o.sends
        /\ toConsole' = responses /\ UNCHANGED toBmc
     \/ /\ o.sends /\ toConsole' = Aged(responses, o.s.state)
        /\ \/ toBmc' = Aged(toBmc, o.s.state)
           \/ /\ Len(toBmc) < NetMax /\ o.s.addr
              /\ toBmc' = Append(Aged(toBmc, o.s.state),
                                 [request |-> o.s.state, last |-> TRUE])

LoseRequest ==
  /\ toBmc # <<>> /\ toBmc' = Tail(toBmc)
  /\ UNCHANGED <<config, s, userClosed, toConsole, bmc>>

LoseResponse ==
  /\ toConsole # <<>> /\ toConsole' = Tail(toConsole)
  /\ UNCHANGED <<config, s, userClosed, toBmc, bmc>>

-----------------------------------------------------------------------------
(* A turn of the engine: _process_ctx(). *)

\* _check_close_session() alone moves a closing session on.
ClosesFirst ==
  s.close /\ s.state \notin {"rakp3", "activate", "deactivate", "close"}

Running == ~ s.ended /\ ~ ClosesFirst

CheckCloseSession ==
  /\ ~ s.ended /\ ClosesFirst
  /\ Transmit(CloseSession(s), toConsole)
  /\ UNCHANGED <<config, userClosed, bmc>>

Start ==
  /\ Running /\ s.state = "start"
  /\ Transmit(Send(s, "getauth"), toConsole)
  /\ UNCHANGED <<config, userClosed, bmc>>

SessionTimeout ==
  /\ Running /\ s.state # "start"
  /\ Transmit(Quit([s EXCEPT !.err = TRUE]), toConsole)
  /\ UNCHANGED <<config, userClosed, bmc>>

\* _ipmi_retransmission_timeout() gives up.
ExcessRetransmissions ==
  /\ Running /\ s.state \notin {"start", "sol"}
  /\ s.retx >= MaxRetransmission \/ (s.state = "rakp3" /\ s.close)
  /\ Transmit(CloseSession([s EXCEPT !.retx = MaxRetransmission + 1,
                !.close = TRUE, !.err = @ \/ s.retx >= MaxRetransmission]),
              toConsole)
  /\ UNCHANGED <<config, userClosed, bmc>>

\* It sends again, closes, or only remembers that it timed out.
Retransmit ==
  LET r == [s EXCEPT !.retx = @ + 1]
      o == CASE s.state = "activate" /\ s.close -> Send(r, "close")
             [] s.state = "close" ->
                  Stay([r EXCEPT !.closeTimeout = @ \/ s.close])
             [] OTHER -> Send(r, s.state)
  IN  /\ Running /\ s.state \notin {"start", "sol"}
      /\ s.retx < MaxRetransmission /\ ~ (s.state = "rakp3" /\ s.close)
      /\ Transmit(o, toConsole)
      /\ UNCHANGED <<config, userClosed, bmc>>

\* The timer no longer expired (it backs off): the close is given up.
CloseTimeout ==
  /\ Running /\ s.closeTimeout
  /\ Transmit(Handle(s, NoPacket), toConsole)
  /\ UNCHANGED <<config, userClosed, bmc>>

\* _ipmi_recvfrom() passes packets from the session's address on.
Arrived == toConsole # <<>> /\ s.addr

\* _receive_packet() takes a packet that answers the last request; it is not
\* strict when the session is being closed.
Accepts(m) ==
  /\ m.request = s.state
  /\ m.last \/ s.state \in {"sol", "close"} \/ (s.state = "deactivate" /\ s.close)

Received(r) == [r EXCEPT !.retx = 0, !.errors = 0]

\* A response, or one that reports an error.
ReceiveResponse ==
  LET m == Head(toConsole)
      bad == m.code = "error" /\ ~ (s.state = "deactivate" /\ s.newPort)
  IN  /\ Running /\ s.state \notin {"start", "sol"} /\ ~ s.closeTimeout
      /\ Arrived /\ Accepts(m)
      /\ Transmit(IF bad THEN CloseSession(Closing(Received(s)))
                  ELSE Handle(Received(s), m), Tail(toConsole))
      /\ UNCHANGED <<config, userClosed, bmc>>

\* A packet that is not accepted counts as an error.
ReceiveOther ==
  LET r == [s EXCEPT !.errors = Upto(@, AcceptableErrors + 1)]
      excess == r.errors > AcceptableErrors /\ ~ s.close
  IN  /\ Running /\ s.state # "start" /\ ~ s.closeTimeout
      /\ Arrived /\ ~ Accepts(Head(toConsole))
      /\ Transmit(IF excess THEN CloseSession(Closing(r)) ELSE Stay(r),
                  Tail(toConsole))
      /\ UNCHANGED <<config, userClosed, bmc>>

\* SOL ends: the BMC reports "SOL deactivating", after which a stranger's
\* payload must not be deactivated ...
SolDeactivating ==
  /\ Running /\ s.state = "sol" /\ Arrived /\ Accepts(Head(toConsole))
  /\ Transmit(Send(Closing(Received(s)), "close"), Tail(toConsole))
  /\ UNCHANGED <<config, userClosed, bmc>>

\* ... or characters stay unacknowledged ("close"), or another step fails.
SolFails ==
  /\ Running /\ s.state = "sol"
  /\ \E request \in {"close", "deactivate"} :
       Transmit(Send(Closing(s), request), toConsole)
  /\ UNCHANGED <<config, userClosed, bmc>>

\* The user closes the descriptor, or the engine is torn down.
UserCloses ==
  /\ ~ s.ended /\ ~ s.close
  /\ s' = [s EXCEPT !.close = TRUE] /\ userClosed' = TRUE
  /\ UNCHANGED <<config, toBmc, toConsole, bmc>>

-----------------------------------------------------------------------------
(* The BMC, as the console code expects it and as its workarounds fear it:  *)
(* it may report any payload as active or inactive, refuse anything, say    *)
(* that it deactivated a payload and not do it, and forget a session.       *)

Codes(request) ==
  CASE request \in {"getauth", "support"} -> {"ok", "unsupported", "error"}
    [] request = "status" -> {"ok", "bad", "error"}
    [] request = "activate" -> {"ok", "newport", "bad", "refused", "already", "error"}
    [] request = "close" -> {"ok"}
    [] OTHER -> {"ok", "error"}

Activating == {"ok", "newport", "bad"}

\* Who may hold the payload after a request was answered with code.
HoldersAfter(request, code) ==
  CASE request = "activate" /\ code \in Activating -> {"ours"}
    [] request = "deactivate" /\ code = "ok" -> {"none", bmc.sol}
    [] request = "close" /\ bmc.sol = "ours" -> {"none"}
    [] OTHER -> {bmc.sol}

OpenAfter(request, code) ==
  (request = "rakp3" /\ code = "ok") \/ (bmc.open /\ request # "close")

BmcAnswers ==
  LET q == Head(toBmc)
  IN  /\ toBmc # <<>> /\ toBmc' = Tail(toBmc)
      /\ q.request \in InSession => bmc.open
      /\ \E code \in Codes(q.request), n \in 0 .. Instances :
           /\ n > 0 => q.request = "status" /\ code = "ok"
           /\ q.request = "activate" /\ bmc.sol = "other" => code \notin Activating
           /\ \E holder \in HoldersAfter(q.request, code) :
                bmc' = [open |-> OpenAfter(q.request, code),
                        sol |-> holder,
                        lost |-> bmc.lost /\ ~ (q.request = "activate" /\ code \in Activating)]
           /\ toConsole' = IF Len(toConsole) < NetMax
                           THEN Append(toConsole, [request |-> q.request, code |-> code,
                                                     n |-> n, last |-> q.last])
                           ELSE toConsole
      /\ UNCHANGED <<config, s, userClosed>>

BmcIgnores ==
  /\ toBmc # <<>> /\ toBmc' = Tail(toBmc)
  /\ Head(toBmc).request \in InSession /\ ~ bmc.open
  /\ UNCHANGED <<config, s, userClosed, toConsole, bmc>>

\* A session that was silent for too long is forgotten.
BmcExpires ==
  /\ bmc.open
  /\ bmc' = [open |-> FALSE, lost |-> bmc.lost \/ bmc.sol = "ours",
             sol |-> IF bmc.sol = "ours" THEN "none" ELSE bmc.sol]
  /\ UNCHANGED <<config, s, userClosed, toBmc, toConsole>>

\* Another user takes the payload; if it was ours we are told.
OtherActivates ==
  /\ bmc.sol # "other"
  /\ bmc' = [bmc EXCEPT !.sol = "other", !.lost = @ \/ bmc.sol = "ours"]
  /\ toConsole' = IF bmc.sol = "ours" /\ Len(toConsole) < NetMax
                  THEN Append(toConsole, [request |-> "sol", code |-> "deactivating",
                              n |-> 0, last |-> FALSE])
                  ELSE toConsole
  /\ UNCHANGED <<config, s, userClosed, toBmc>>

OtherLeaves ==
  /\ bmc.sol = "other" /\ bmc' = [bmc EXCEPT !.sol = "none"]
  /\ UNCHANGED <<config, s, userClosed, toBmc, toConsole>>

-----------------------------------------------------------------------------

Init ==
  /\ config \in Configs
  /\ s = FreshSession([err |-> FALSE, ended |-> FALSE,
                       established |-> FALSE, fault |-> FALSE])
  /\ userClosed = FALSE
  /\ toBmc = <<>> /\ toConsole = <<>>
  /\ \E holder \in {"none", "other"} :
       bmc = [open |-> FALSE, sol |-> holder, lost |-> FALSE]

\* What moves a session on, other than a failure that may never come.
Turn ==
  \/ CheckCloseSession \/ Start \/ ExcessRetransmissions \/ Retransmit
  \/ CloseTimeout \/ ReceiveResponse \/ ReceiveOther \/ SolDeactivating

Environment ==
  \/ LoseRequest \/ LoseResponse \/ BmcAnswers \/ BmcIgnores \/ BmcExpires
  \/ OtherActivates \/ OtherLeaves

Next == Turn \/ SessionTimeout \/ SolFails \/ UserCloses \/ Environment

Spec == Init /\ [][Next]_vars

\* The engine thread processes the context again and again; in the end it
\* finds a packet or an expired timer.  Nothing is assumed of the network,
\* the BMC or the other user.
FairSpec == Spec /\ WF_vars(Turn)

-----------------------------------------------------------------------------
(* Properties. *)

\* The fields of a session; the counters that end its loops stay within
\* their limits.
Session ==
  [state : Requests \cup {"start", "sol"}, primary : BOOLEAN, addr : BOOLEAN,
   close : BOOLEAN, closeTimeout : BOOLEAN, newPort : BOOLEAN,
   instances : BOOLEAN, again : BOOLEAN, succeeded : BOOLEAN,
   retx : 0 .. MaxRetransmission + 1, errors : 0 .. AcceptableErrors + 1,
   activates : 0 .. AcceptableErrors + 2, deactivates : 0 .. AcceptableErrors + 2,
   active : 0 .. Instances, deactivated : 0 .. Instances + 1,
   err : BOOLEAN, ended : BOOLEAN, established : BOOLEAN, fault : BOOLEAN]

Request == [request : Requests, last : BOOLEAN]

Response == [request : Requests \cup {"sol"}, n : 0 .. Instances, last : BOOLEAN,
             code : {"ok", "unsupported", "bad", "newport", "refused", "already",
                     "error", "deactivating"}]

\* Every variable keeps its type.
TypeOK ==
  /\ config \in Config /\ userClosed \in BOOLEAN /\ s \in Session
  /\ toBmc \in Seq(Request)
  /\ toConsole \in Seq(Response)
  /\ Len(toBmc) <= NetMax /\ Len(toConsole) <= NetMax
  /\ bmc \in [open : BOOLEAN, sol : {"none", "ours", "other"}, lost : BOOLEAN]

\* "Shouldn't be possible to reach this point" (ipmiconsole_processing.c:3899
\* and :3957), and no assertion on the instances to deactivate fails
\* (_check_sol_activated): every way into a state sets the flags it needs.
NoLogicBug == ~ s.fault

\* A session that ends, and not because the user closed it, has set an error
\* number or has deactivated what it was asked to (BEHAVIOR_DEACTIVATE_ONLY).
FailureExplained == s.ended /\ ~ userClosed => s.err \/ s.succeeded

\* The console takes SOL for established only if the BMC has activated the
\* payload for it, and it still has unless the BMC forgot the session or
\* another user took it since (_process_protocol_state_activate_payload_sent).
SolGranted == s.state = "sol" => bmc.sol = "ours" \/ bmc.lost

\* A session gets to SOL or ends, and one that is to close ends: no endless
\* loop, whatever the BMC answers or does not, also when it says of a payload
\* that it is active when asked to activate it and that it is not when asked
\* for its status ("just so we don't loop forever", ipmiconsole_processing.c:3384).
\* Only for sessions that do not combine DEACTIVATE_ONLY with
\* SKIP_SOL_ACTIVATION_STATUS.  Such a session counted no active instance, the
\* count of deactivated ones has passed that number when the two are compared
\* (_process_protocol_state_deactivate_payload_sent), and it sends Deactivate
\* Payload for as long as the BMC answers.
ServesOrEnds ==
  ~ (config.only /\ config.skipStatus)
    => []<>(s.ended \/ (s.state = "sol" /\ ~ s.close))

\* A session that was told, in answer to Activate Payload, that the payload is
\* active on another session deactivates it.
DeactivatesInUse ==
  /\ s.state = "activate" /\ s'.state = "deactivate"
  /\ Len(toConsole') < Len(toConsole)
  /\ Accepts(Head(toConsole)) /\ Head(toConsole).code = "already"

\* "return an error if SOL is already detected as being in use"
\* (ipmiconsole.h.in:368): a session configured so, which is not closing, does
\* not deactivate a payload when the BMC's answer to its request to activate it
\* says that it is active on another session.  (A packet that is dropped tells
\* the session nothing, and too many of them make it close and deactivate.)
InUseRespected ==
  [][config.errorInUse /\ ~ s.close => ~ DeactivatesInUse]_vars
=============================================================================
