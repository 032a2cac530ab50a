------------------------ MODULE ConsoleSessionProofs ------------------------
(***************************************************************************)
(* Proofs about ConsoleSession, for every set of configurations and every  *)
(* limit.                                                                  *)
(*                                                                         *)
(* A handler is a function of the session and an answer, so most of the    *)
(* argument is about records: Sound(r) is what every session satisfies     *)
(* between two turns, and each handler takes a sound session to one.       *)
(***************************************************************************)
EXTENDS ConsoleSession, TLAPS

\* The flags a session needs to leave the state it is in: one of the reasons
\* to deactivate or to close is still known, nothing is left of an earlier
\* deactivation, and a counter beyond its limit has closed the session.
Sound(r) ==
  /\ ~ r.fault
  /\ r.state = "deactivate" =>
       config.only \/ r.close \/ r.newPort \/ r.again
  /\ r.state = "close" => r.close \/ r.newPort
  /\ r.closeTimeout => r.state = "close" /\ r.close
  /\ r.instances \/ r.again => r.state \in {"deactivate", "close"}
  /\ r.activates > AcceptableErrors + 1 \/ r.deactivates > AcceptableErrors + 1
       => r.state = "close" /\ r.close

\* Why a session is closing or has ended is known.
Explained(r) ==
  r.close \/ r.ended => userClosed \/ r.err \/ r.succeeded

Good(r) == r \in Session /\ Sound(r) /\ Explained(r)

GoodOutcome(o) ==
  /\ Good(o.s) /\ o.sends \in BOOLEAN
  /\ o.sends => o.s.state \in Requests

\* A turn that sends nothing leaves the session as good as it is.
LEMMA StayGood ==
  ASSUME NEW r, Good(r) PROVE GoodOutcome(Stay(r))
  BY DEF GoodOutcome, Stay, Good

\* A session may end once it is closing or has an error number.
LEMMA QuitGood ==
  ASSUME NEW r, Good(r), r.close \/ r.err
  PROVE  GoodOutcome(Quit(r))
<1>1. [r EXCEPT !.ended = TRUE] \in Session
  BY DEF Good, Session
<1>2. Sound([r EXCEPT !.ended = TRUE])
  BY DEF Good, Session, Sound
<1>3. Explained([r EXCEPT !.ended = TRUE])
  BY DEF Good, Session, Explained
<1> QED BY <1>1, <1>2, <1>3 DEF GoodOutcome, Good, Quit, Stay

\* What a session must satisfy when it sends a request and waits for it.
MaySend(r, t) ==
  /\ r \in Session /\ t \in Requests /\ ~ r.fault
  /\ t = "deactivate" => config.only \/ r.close \/ r.newPort \/ r.again
  /\ t = "close" => r.close \/ r.newPort
  /\ r.closeTimeout => t = "close" /\ r.close
  /\ r.instances \/ r.again => t \in {"deactivate", "close"}
  /\ r.activates > AcceptableErrors + 1 \/ r.deactivates > AcceptableErrors + 1
       => t = "close" /\ r.close
  /\ Explained(r)

\* A session that may send a request is good while it waits for the answer.
LEMMA SendGood ==
  ASSUME NEW r, NEW t, MaySend(r, t)
  PROVE  GoodOutcome(Send(r, t))
  BY DEF GoodOutcome, Good, Send, Session, Sound, Explained, MaySend

-----------------------------------------------------------------------------
(* The handlers. *)

\* The answer to Get Channel Authentication Capabilities: an error ends the
\* session, which is not yet one for the BMC.
LEMMA GetAuthGood ==
  ASSUME NEW r, Good(r), NEW m, r.state = "getauth"
  PROVE  GoodOutcome(HandleGetAuth(r, m))
  BY SessionAssumption
  DEF GoodOutcome, Good, HandleGetAuth, Quit, Stay, Send, Session, Sound,
      Explained, Requests

\* The session is established: it ends if it is closing, and goes on otherwise.
LEMMA Rakp3Good ==
  ASSUME NEW r, Good(r), r.state = "rakp3"
  PROVE  GoodOutcome(HandleRakp3(r))
  BY SessionAssumption
  DEF GoodOutcome, Good, HandleRakp3, Quit, Stay, Send, Session, Sound,
      Explained, Requests

\* Privilege is raised: the next request depends on the workaround only.
LEMMA SetPrivilegeGood ==
  ASSUME NEW r, Good(r), r.state = "setpriv"
  PROVE  GoodOutcome(HandleSetPrivilege(r))
  BY SessionAssumption
  DEF GoodOutcome, Good, HandleSetPrivilege, Send, Session, Sound,
      Explained, Requests

\* A payload that is not supported closes the session with an error.
LEMMA SupportGood ==
  ASSUME NEW r, Good(r), NEW m, r.state = "support"
  PROVE  GoodOutcome(HandleSupport(r, m))
  BY SessionAssumption
  DEF GoodOutcome, Good, HandleSupport, Closing, Send, Session, Sound,
      Explained, Requests

\* A counter of the loops that activate and deactivate is beyond its limit.
Counted(r) ==
  r.activates > AcceptableErrors + 1 \/ r.deactivates > AcceptableErrors + 1

\* A session with an error may close, or deactivate first.
LEMMA ClosingMaySend ==
  ASSUME NEW r \in Session, ~ r.fault, ~ r.closeTimeout,
         NEW t \in {"deactivate", "close"}, Counted(r) => t = "close"
  PROVE  MaySend(Closing(r), t)
<1> DEFINE c == Closing(r)
<1>1. c \in Session
  BY DEF Closing, Session
<1>2. /\ c.fault = r.fault /\ c.closeTimeout = r.closeTimeout
      /\ c.activates = r.activates /\ c.deactivates = r.deactivates
      /\ c.close /\ c.err
  BY DEF Closing, Session
<1> HIDE DEF c
<1>3. MaySend(c, t)
  BY <1>1, <1>2 DEF MaySend, Counted, Explained, Requests
<1> QED BY <1>3 DEF c

\* The answer to Get Payload Activation Status: nothing is left of an earlier
\* deactivation, so the assertions of _check_sol_activated() hold.
LEMMA StatusGood ==
  ASSUME NEW r, Good(r), NEW m, m.n \in 0 .. Instances, r.state = "status"
  PROVE  GoodOutcome(HandleStatus(r, m))
<1> DEFINE n == Active(m)
           q == [r EXCEPT !.active = n, !.deactivated = 0]
           c == [q EXCEPT !.close = TRUE, !.succeeded = TRUE]
           d == [q EXCEPT !.instances = TRUE, !.again = ~ config.only]
<1>1. n \in 0 .. Instances
  BY SessionAssumption DEF Active
<1>2. ~ r.instances /\ ~ r.again /\ ~ r.closeTimeout /\ ~ Counted(r) /\ ~ r.fault
  BY DEF Good, Sound, Counted
<1> HIDE DEF n
<1>3. q \in Session
  <2>1. 0 \in 0 .. Instances + 1
    BY SessionAssumption
  <2> QED BY <2>1, <1>1 DEF Good, Session
<1>4. /\ q.fault = r.fault /\ q.closeTimeout = r.closeTimeout
      /\ q.activates = r.activates /\ q.deactivates = r.deactivates
      /\ q.close = r.close /\ q.ended = r.ended /\ q.err = r.err
      /\ q.succeeded = r.succeeded /\ q.instances = r.instances
      /\ q.again = r.again
  BY DEF Good, Session
<1>5. Explained(q)
  BY <1>4 DEF Good, Explained
<1>6. \/ HandleStatus(r, m) = Send(Closing(q), "close")
      \/ HandleStatus(r, m) = Send(c, "close")
      \/ HandleStatus(r, m) = Send(d, "deactivate")
      \/ HandleStatus(r, m) = Send(q, "activate")
  BY <1>2 DEF HandleStatus, n
<1> HIDE DEF q
<1>7. MaySend(Closing(q), "close")
  BY <1>2, <1>3, <1>4, ClosingMaySend DEF Counted
<1>8. MaySend(c, "close")
  <2>1. c \in Session
    BY <1>3 DEF Session
  <2>2. /\ c.fault = q.fault /\ c.close /\ c.succeeded
    BY <1>3 DEF Session
  <2> HIDE DEF c
  <2> QED BY <2>1, <2>2, <1>2, <1>4 DEF MaySend, Explained, Requests
<1>9. MaySend(d, "deactivate")
  <2>1. d \in Session
    BY <1>3 DEF Session
  <2>2. /\ d.fault = q.fault /\ d.closeTimeout = q.closeTimeout
        /\ d.activates = q.activates /\ d.deactivates = q.deactivates
        /\ d.close = q.close /\ d.ended = q.ended /\ d.err = q.err
        /\ d.succeeded = q.succeeded /\ (config.only \/ d.again)
    BY <1>3 DEF Session
  <2> HIDE DEF d
  <2> QED BY <2>1, <2>2, <1>2, <1>4, <1>5
          DEF MaySend, Explained, Requests, Counted
<1>10. MaySend(q, "activate")
  BY <1>2, <1>3, <1>4, <1>5 DEF MaySend, Requests, Counted
<1> HIDE DEF c, d
<1> QED BY <1>6, <1>7, <1>8, <1>9, <1>10, SendGood

\* The answer to Activate Payload: the attempts are counted up to one beyond
\* the limit, and there the session closes.
LEMMA ActivateGood ==
  ASSUME NEW r, Good(r), NEW m, r.state = "activate"
  PROVE  GoodOutcome(HandleActivate(r, m))
<1> DEFINE q == [r EXCEPT !.activates = @ + 1]
           p == [r EXCEPT !.newPort = TRUE]
           u == [r EXCEPT !.state = "sol", !.established = TRUE]
<1>1. ~ r.instances /\ ~ r.again /\ ~ r.closeTimeout /\ ~ Counted(r)
      /\ ~ r.fault /\ r \in Session /\ Explained(r)
  BY DEF Good, Sound, Counted
<1>2. r.close => MaySend(r, "deactivate")
  BY <1>1 DEF MaySend, Requests, Counted
<1>3. MaySend(Closing(r), "close") /\ MaySend(Closing(r), "deactivate")
  BY <1>1, ClosingMaySend
<1>4. q \in Session
  <2>1. r.activates + 1 \in 0 .. AcceptableErrors + 2
    BY SessionAssumption, <1>1 DEF Session, Counted
  <2> QED BY <2>1, <1>1 DEF Session
<1>5. /\ q.fault = r.fault /\ q.closeTimeout = r.closeTimeout
      /\ q.deactivates = r.deactivates
      /\ q.close = r.close /\ q.ended = r.ended /\ q.err = r.err
      /\ q.succeeded = r.succeeded /\ q.instances = r.instances
      /\ q.again = r.again
  BY <1>1 DEF Session
<1>6. MaySend(p, "deactivate")
  BY SessionAssumption, <1>1
  DEF MaySend, Session, Explained, Requests, Counted
<1>7. Good(u)
  BY SessionAssumption, <1>1 DEF Good, Session, Sound, Explained, Counted
<1>8. \/ r.close /\ HandleActivate(r, m) = Send(r, "deactivate")
      \/ HandleActivate(r, m) = Send(Closing(r), "close")
      \/ HandleActivate(r, m) = Send(Closing(q), "close")
      \/ /\ ~ (q.activates > AcceptableErrors + 1)
         /\ HandleActivate(r, m) = Send(q, "status")
      \/ HandleActivate(r, m) = Send(Closing(r), "deactivate")
      \/ HandleActivate(r, m) = Send(p, "deactivate")
      \/ HandleActivate(r, m) = Stay(u)
  <2>1. \/ r.close /\ HandleActivate(r, m) = Send(r, "deactivate")
        \/ HandleActivate(r, m) = Send(Closing(r), "close")
        \/ HandleActivate(r, m) = ActivateRace(q)
        \/ HandleActivate(r, m) = Send(Closing(r), "deactivate")
        \/ HandleActivate(r, m) = Send(p, "deactivate")
        \/ HandleActivate(r, m) = Stay(u)
    BY DEF HandleActivate, HandleActivated
  <2> HIDE DEF q, p, u
  <2> QED BY <2>1 DEF ActivateRace
<1> HIDE DEF q, p, u
<1>9. MaySend(Closing(q), "close")
  BY <1>1, <1>4, <1>5, ClosingMaySend
<1>10. ~ (q.activates > AcceptableErrors + 1) => MaySend(q, "status")
  BY <1>1, <1>4, <1>5 DEF MaySend, Explained, Requests, Counted
<1> QED BY <1>2, <1>3, <1>6, <1>7, <1>8, <1>9, <1>10, SendGood, StayGood

\* The answer to Deactivate Payload: one of the reasons to deactivate is known,
\* so the end of the handler is not reached.
LEMMA DeactivateGood ==
  ASSUME NEW r, Good(r), r.state = "deactivate"
  PROVE  GoodOutcome(HandleDeactivate(r))
<1> DEFINE q == [r EXCEPT !.deactivated = Upto(@, Instances + 1)]
           c == [q EXCEPT !.succeeded = TRUE, !.close = TRUE]
           a == [q EXCEPT !.instances = FALSE, !.again = FALSE,
                          !.deactivates = @ + 1]
<1>1. /\ ~ r.closeTimeout /\ ~ Counted(r)
      /\ config.only \/ r.close \/ r.newPort \/ r.again
      /\ ~ r.fault /\ r \in Session /\ Explained(r)
  BY DEF Good, Sound, Counted
<1>2. q \in Session
  <2>1. Upto(r.deactivated, Instances + 1) \in 0 .. Instances + 1
    BY SessionAssumption, <1>1 DEF Session, Upto
  <2> QED BY <2>1, <1>1 DEF Session
<1>3. /\ q.fault = r.fault /\ q.closeTimeout = r.closeTimeout
      /\ q.activates = r.activates /\ q.deactivates = r.deactivates
      /\ q.close = r.close /\ q.ended = r.ended /\ q.err = r.err
      /\ q.succeeded = r.succeeded /\ q.newPort = r.newPort
      /\ q.again = r.again
  BY <1>1 DEF Session
<1>4. r.close \/ r.newPort => MaySend(r, "close")
  BY <1>1 DEF MaySend, Requests, Counted
<1>5. \/ HandleDeactivate(r) = Send(c, "close")
      \/ (config.only \/ r.again) /\ HandleDeactivate(r) = Send(q, "deactivate")
      \/ (r.close \/ r.newPort) /\ HandleDeactivate(r) = Send(r, "close")
      \/ HandleDeactivate(r) = Send(Closing(a), "close")
      \/ /\ ~ (a.deactivates > AcceptableErrors + 1)
         /\ HandleDeactivate(r) = Send(a, "activate")
  BY <1>1 DEF HandleDeactivate
<1> HIDE DEF q
<1>6. MaySend(c, "close")
  <2>1. c \in Session
    BY <1>2 DEF Session
  <2>2. /\ c.fault = q.fault /\ c.close /\ c.succeeded
    BY <1>2 DEF Session
  <2> HIDE DEF c
  <2> QED BY <2>1, <2>2, <1>1, <1>3 DEF MaySend, Explained, Requests
<1>7. config.only \/ r.again => MaySend(q, "deactivate")
  BY <1>1, <1>2, <1>3 DEF MaySend, Explained, Requests, Counted
<1>8. a \in Session
  <2>1. q.deactivates + 1 \in 0 .. AcceptableErrors + 2
    BY SessionAssumption, <1>1, <1>2, <1>3 DEF Session, Counted
  <2> QED BY <2>1, <1>2 DEF Session
<1>9. /\ a.fault = q.fault /\ a.closeTimeout = q.closeTimeout
      /\ a.activates = q.activates /\ a.close = q.close /\ a.ended = q.ended
      /\ a.err = q.err /\ a.succeeded = q.succeeded
      /\ ~ a.again /\ ~ a.instances
  BY <1>2 DEF Session
<1> HIDE DEF c, a
<1>10. MaySend(Closing(a), "close")
  BY <1>1, <1>3, <1>8, <1>9, ClosingMaySend
<1>11. ~ (a.deactivates > AcceptableErrors + 1) => MaySend(a, "activate")
  BY <1>1, <1>3, <1>8, <1>9 DEF MaySend, Explained, Requests, Counted
<1> QED BY <1>4, <1>5, <1>6, <1>7, <1>10, <1>11, SendGood

\* Starting over on a new port leaves nothing of the old session.
LEMMA NewPortMaySend ==
  ASSUME NEW r, Good(r), ~ r.ended, config \in Config
  PROVE  MaySend(OnNewPort(r), "getauth")
<1> DEFINE f == FreshSession(r)
           p == OnNewPort(r)
<1>1. f \in Session
  BY SessionAssumption DEF Good, FreshSession, Session, Config
<1>2. /\ f.fault = r.fault /\ f.ended = r.ended
      /\ ~ f.close /\ ~ f.closeTimeout /\ ~ f.instances /\ ~ f.again
      /\ f.activates = 0 /\ f.deactivates = 0
  BY DEF FreshSession
<1>3. p = [f EXCEPT !.primary = FALSE, !.addr = FALSE]
  BY DEF OnNewPort
<1> HIDE DEF f, p
<1>4. p \in Session
  BY <1>1, <1>3 DEF Session
<1>5. /\ p.fault = r.fault /\ p.ended = r.ended
      /\ ~ p.close /\ ~ p.closeTimeout /\ ~ p.instances /\ ~ p.again
      /\ p.activates = 0 /\ p.deactivates = 0
  BY <1>1, <1>2, <1>3 DEF Session
<1>6. ~ r.fault
  BY DEF Good, Sound
<1>7. MaySend(p, "getauth")
  BY SessionAssumption, <1>4, <1>5, <1>6 DEF MaySend, Explained, Requests
<1> QED BY <1>7 DEF p

\* The answer to Close Session: the session ends or starts over.
LEMMA CloseGood ==
  ASSUME NEW r, Good(r), r.state = "close", ~ r.ended, config \in Config
  PROVE  GoodOutcome(HandleClose(r))
<1>1. r.closeTimeout => r.close
  BY DEF Good, Sound
<1>2. r.close \/ r.newPort
  BY DEF Good, Sound
<1>3. \/ r.close /\ HandleClose(r) = Quit(r)
      \/ HandleClose(r) = Send(OnNewPort(r), "getauth")
  BY <1>1, <1>2 DEF HandleClose
<1> QED BY <1>3, NewPortMaySend, QuitGood, SendGood

-----------------------------------------------------------------------------
(* A turn. *)

LEMMA HandleGood ==
  ASSUME NEW r, Good(r), r.state \in Requests, ~ r.ended, config \in Config,
         NEW m, m.n \in 0 .. Instances
  PROVE  GoodOutcome(Handle(r, m))
<1>1. CASE r.state = "getauth"
  BY <1>1, GetAuthGood DEF Handle
<1>2. CASE r.state \in {"open", "rakp1"}
  <2> DEFINE t == IF r.state = "open" THEN "rakp1" ELSE "rakp3"
  <2>1. MaySend(r, t)
    BY <1>2 DEF Good, MaySend, Sound, Requests
  <2>2. Handle(r, m) = Send(r, t)
    BY <1>2 DEF Handle
  <2> HIDE DEF t
  <2> QED BY <2>1, <2>2, SendGood
<1>3. CASE r.state = "rakp3"
  BY <1>3, Rakp3Good DEF Handle
<1>4. CASE r.state = "setpriv"
  BY <1>4, SetPrivilegeGood DEF Handle
<1>5. CASE r.state = "support"
  BY <1>5, SupportGood DEF Handle
<1>6. CASE r.state = "status"
  BY <1>6, StatusGood DEF Handle
<1>7. CASE r.state = "activate"
  BY <1>7, ActivateGood DEF Handle
<1>8. CASE r.state = "deactivate"
  BY <1>8, DeactivateGood DEF Handle
<1>9. CASE r.state = "close"
  BY <1>9, CloseGood DEF Handle
<1> QED BY <1>1, <1>2, <1>3, <1>4, <1>5, <1>6, <1>7, <1>8, <1>9 DEF Requests

\* From every state a closing session goes on towards its end.
LEMMA CloseSessionGood ==
  ASSUME NEW r, Good(r), ~ r.ended, r.close, config \in Config
  PROVE  GoodOutcome(CloseSession(r))
<1>1. r.state \in Requests \cup {"start", "sol"}
  BY DEF Good, Session
<1>2. CASE r.state \in {"start", "getauth", "open", "rakp1"}
  BY <1>2, QuitGood DEF CloseSession
<1>3. CASE r.state \in {"setpriv", "support", "status", "sol"}
  <2> DEFINE t == IF r.state = "sol" THEN "deactivate" ELSE "close"
  <2>1. MaySend(r, t)
    BY <1>3 DEF Good, MaySend, Sound, Requests
  <2>2. CloseSession(r) = Send(r, t)
    BY <1>3 DEF CloseSession
  <2> HIDE DEF t
  <2> QED BY <2>1, <2>2, SendGood
<1>4. CASE r.state \in {"rakp3", "activate", "deactivate", "close"}
  <2>1. NoPacket.n \in 0 .. Instances
    BY SessionAssumption DEF NoPacket
  <2>2. CloseSession(r) = Handle(r, NoPacket)
    BY <1>4 DEF CloseSession
  <2> QED BY <1>4, <2>1, <2>2, HandleGood DEF Requests
<1> QED BY <1>1, <1>2, <1>3, <1>4 DEF Requests

\* An error in any state leaves a good session that is closing.
LEMMA ClosingGood ==
  ASSUME NEW r, Good(r)
  PROVE  Good(Closing(r)) /\ Closing(r).close /\ Closing(r).ended = r.ended
<1> DEFINE c == Closing(r)
<1>1. c \in Session
  BY DEF Good, Closing, Session
<1>2. /\ c.state = r.state /\ c.fault = r.fault /\ c.ended = r.ended
      /\ c.closeTimeout = r.closeTimeout /\ c.newPort = r.newPort
      /\ c.again = r.again /\ c.instances = r.instances
      /\ c.activates = r.activates /\ c.deactivates = r.deactivates
      /\ c.close /\ c.err
  BY DEF Good, Closing, Session
<1> HIDE DEF c
<1>3. Good(c) /\ c.close /\ c.ended = r.ended
  BY <1>1, <1>2 DEF Good, Sound, Explained
<1> QED BY <1>3 DEF c

\* Two sessions that differ in none of the flags.
Alike(c, r) ==
  /\ c.state = r.state /\ c.fault = r.fault /\ c.ended = r.ended
  /\ c.closeTimeout = r.closeTimeout /\ c.newPort = r.newPort
  /\ c.again = r.again /\ c.instances = r.instances
  /\ c.activates = r.activates /\ c.deactivates = r.deactivates
  /\ c.close = r.close /\ c.err = r.err /\ c.succeeded = r.succeeded

\* A change of anything but the flags keeps a session good.
LEMMA AlikeGood ==
  ASSUME NEW r, Good(r), NEW c \in Session, Alike(c, r)
  PROVE  Good(c)
  BY DEF Good, Sound, Explained, Alike

\* The counters of retransmissions and of packet errors are not among the
\* flags.
LEMMA RetransmissionGood ==
  ASSUME NEW r, Good(r), NEW x \in 0 .. MaxRetransmission + 1
  PROVE  Good([r EXCEPT !.retx = x]) /\ Alike([r EXCEPT !.retx = x], r)
<1>1. [r EXCEPT !.retx = x] \in Session
  BY DEF Good, Session
<1>2. Alike([r EXCEPT !.retx = x], r)
  BY DEF Good, Session, Alike
<1> QED BY <1>1, <1>2, AlikeGood

\* The same of the packet errors.
LEMMA ErrorsGood ==
  ASSUME NEW r, Good(r), NEW e \in 0 .. AcceptableErrors + 1
  PROVE  Good([r EXCEPT !.errors = e]) /\ Alike([r EXCEPT !.errors = e], r)
<1>1. [r EXCEPT !.errors = e] \in Session
  BY DEF Good, Session
<1>2. Alike([r EXCEPT !.errors = e], r)
  BY DEF Good, Session, Alike
<1> QED BY <1>1, <1>2, AlikeGood

\* Both counters are reset by a packet that is accepted.
LEMMA ReceivedGood ==
  ASSUME NEW r, Good(r)
  PROVE  Good(Received(r)) /\ Alike(Received(r), r)
<1>1. 0 \in 0 .. MaxRetransmission + 1 /\ 0 \in 0 .. AcceptableErrors + 1
  BY SessionAssumption
<1>2. Received(r) \in Session
  BY <1>1 DEF Good, Session, Received
<1>3. Alike(Received(r), r)
  BY DEF Good, Session, Alike, Received
<1> QED BY <1>2, <1>3, AlikeGood

-----------------------------------------------------------------------------
(* The network. *)

\* Packets that age keep their type and number.
LEMMA AgedRequests ==
  ASSUME NEW request, NEW net \in Seq(Request)
  PROVE  /\ Aged(net, request) \in Seq(Request)
         /\ Len(Aged(net, request)) = Len(net)
<1>1. Len(net) \in Nat /\ DOMAIN net = 1 .. Len(net)
  OBVIOUS
<1>2. \A i \in 1 .. Len(net) :
        [net[i] EXCEPT !.last = @ /\ request = "setpriv"] \in Request
  <2>1. \A p \in Request : [p EXCEPT !.last = @ /\ request = "setpriv"] \in Request
    BY DEF Request
  <2> QED BY <2>1
<1>3. Aged(net, request) \in [1 .. Len(net) -> Request]
  BY <1>1, <1>2, Zenon DEF Aged
<1> QED BY <1>1, <1>3

\* The same of the responses.
LEMMA AgedResponses ==
  ASSUME NEW request, NEW net \in Seq(Response)
  PROVE  /\ Aged(net, request) \in Seq(Response)
         /\ Len(Aged(net, request)) = Len(net)
<1>1. Len(net) \in Nat /\ DOMAIN net = 1 .. Len(net)
  OBVIOUS
<1>2. \A i \in 1 .. Len(net) :
        [net[i] EXCEPT !.last = @ /\ request = "setpriv"] \in Response
  <2>1. \A p \in Response : [p EXCEPT !.last = @ /\ request = "setpriv"] \in Response
    BY DEF Response
  <2> QED BY <2>1
<1>3. Aged(net, request) \in [1 .. Len(net) -> Response]
  BY <1>1, <1>2, Zenon DEF Aged
<1> QED BY <1>1, <1>3

\* What is left of the packets under way when one is taken or lost.
LEMMA TailType ==
  ASSUME NEW S, NEW net \in Seq(S), net # <<>>
  PROVE  /\ Tail(net) \in Seq(S) /\ Len(Tail(net)) = Len(net) - 1
         /\ Head(net) \in S
  OBVIOUS

\* One more packet under way.
LEMMA AppendType ==
  ASSUME NEW S, NEW net \in Seq(S), NEW p \in S
  PROVE  Append(net, p) \in Seq(S) /\ Len(Append(net, p)) = Len(net) + 1
  OBVIOUS

-----------------------------------------------------------------------------
(* The invariant, and the actions that preserve it. *)

IInv == TypeOK /\ Good(s)

\* A turn with a good outcome preserves the invariant, whether its request is
\* lost or not.
LEMMA TransmitInv ==
  ASSUME IInv, NEW o, GoodOutcome(o),
         NEW responses \in Seq(Response), Len(responses) <= NetMax,
         Transmit(o, responses), UNCHANGED <<config, userClosed, bmc>>
  PROVE  IInv'
<1>1. Good(s)' /\ (s \in Session)'
  BY DEF Transmit, GoodOutcome, Good, Sound, Explained
<1>2. (config \in Config /\ userClosed \in BOOLEAN)'
      /\ (bmc \in [open : BOOLEAN, sol : {"none", "ours", "other"}, lost : BOOLEAN])'
  BY DEF IInv, TypeOK
<1>3. (toConsole \in Seq(Response) /\ Len(toConsole) <= NetMax)'
  BY AgedResponses DEF Transmit
<1>4. (toBmc \in Seq(Request) /\ Len(toBmc) <= NetMax)'
  <2>1. CASE toBmc' = toBmc
    BY <2>1 DEF IInv, TypeOK
  <2>2. CASE toBmc' = Aged(toBmc, o.s.state)
    BY <2>2, AgedRequests DEF IInv, TypeOK
  <2>3. CASE /\ o.sends /\ Len(toBmc) < NetMax
             /\ toBmc' = Append(Aged(toBmc, o.s.state),
                                [request |-> o.s.state, last |-> TRUE])
    <3> DEFINE net == Aged(toBmc, o.s.state)
               p == [request |-> o.s.state, last |-> TRUE]
    <3>1. net \in Seq(Request) /\ Len(net) = Len(toBmc)
      BY AgedRequests DEF IInv, TypeOK
    <3>2. p \in Request
      BY <2>3 DEF GoodOutcome, Request
    <3>3. toBmc' = Append(net, p)
      BY <2>3
    <3> HIDE DEF net, p
    <3>4. toBmc' \in Seq(Request) /\ Len(toBmc') = Len(toBmc) + 1
      BY <3>1, <3>2, <3>3, AppendType
    <3>5. Len(toBmc) \in Nat /\ NetMax \in Nat
      BY SessionAssumption DEF IInv, TypeOK
    <3> QED BY <2>3, <3>4, <3>5
  <2> QED BY <2>1, <2>2, <2>3 DEF Transmit
<1> QED BY <1>1, <1>2, <1>3, <1>4 DEF IInv, TypeOK

\* A session on which nothing but the network or the BMC acts stays good.
LEMMA UnchangedGood ==
  ASSUME Good(s), UNCHANGED <<config, s, userClosed>>
  PROVE  Good(s)'
  BY DEF Good, Sound, Explained

\* Losing a packet.
LEMMA NetworkInv ==
  ASSUME IInv, LoseRequest \/ LoseResponse PROVE IInv'
<1>1. CASE LoseRequest
  <2>1. (toBmc \in Seq(Request) /\ Len(toBmc) <= NetMax)'
    BY <1>1, TailType, SessionAssumption DEF IInv, TypeOK, LoseRequest
  <2> QED BY <1>1, <2>1, UnchangedGood DEF IInv, TypeOK, LoseRequest
<1>2. CASE LoseResponse
  <2>1. (toConsole \in Seq(Response) /\ Len(toConsole) <= NetMax)'
    BY <1>2, TailType, SessionAssumption DEF IInv, TypeOK, LoseResponse
  <2> QED BY <1>2, <2>1, UnchangedGood DEF IInv, TypeOK, LoseResponse
<1> QED BY <1>1, <1>2

\* The BMC and the other user.
LEMMA BmcInv ==
  ASSUME IInv, BmcAnswers \/ BmcIgnores \/ BmcExpires
               \/ OtherActivates \/ OtherLeaves
  PROVE  IInv'
<1>1. CASE BmcAnswers
  <2> DEFINE q == Head(toBmc)
  <2>1. q \in Request /\ (toBmc \in Seq(Request) /\ Len(toBmc) <= NetMax)'
    BY <1>1, TailType, SessionAssumption DEF BmcAnswers, IInv, TypeOK
  <2>2. PICK code \in Codes(q.request), n \in 0 .. Instances :
          /\ \E holder \in HoldersAfter(q.request, code) :
               bmc' = [open |-> OpenAfter(q.request, code), sol |-> holder,
                       lost |-> bmc.lost /\ ~ (q.request = "activate" /\ code \in Activating)]
          /\ toConsole' = IF Len(toConsole) < NetMax
                          THEN Append(toConsole, [request |-> q.request, code |-> code,
                                                    n |-> n, last |-> q.last])
                          ELSE toConsole
    BY <1>1 DEF BmcAnswers
  <2> DEFINE p == [request |-> q.request, code |-> code, n |-> n, last |-> q.last]
  <2>3. p \in Response
    <3>1. code \in {"ok", "unsupported", "bad", "newport", "refused",
                  "already", "error"}
      BY <2>2 DEF Codes
    <3> HIDE DEF q
    <3> QED BY <2>1, <3>1 DEF Request, Response
  <2> HIDE DEF p
  <2>4. (toConsole \in Seq(Response) /\ Len(toConsole) <= NetMax)'
    <3>1. toConsole' = IF Len(toConsole) < NetMax THEN Append(toConsole, p)
                       ELSE toConsole
      BY <2>2 DEF p
    <3>2. Len(toConsole) \in Nat /\ NetMax \in Nat
      BY SessionAssumption DEF IInv, TypeOK
    <3> QED BY <2>3, <3>1, <3>2, AppendType DEF IInv, TypeOK
  <2>5. (bmc \in [open : BOOLEAN, sol : {"none", "ours", "other"}, lost : BOOLEAN])'
    BY <2>2 DEF HoldersAfter, OpenAfter, IInv, TypeOK
  <2> QED BY <1>1, <2>1, <2>4, <2>5, UnchangedGood DEF IInv, TypeOK, BmcAnswers
<1>2. CASE BmcIgnores
  <2>1. (toBmc \in Seq(Request) /\ Len(toBmc) <= NetMax)'
    BY <1>2, TailType, SessionAssumption DEF BmcIgnores, IInv, TypeOK
  <2> QED BY <1>2, <2>1, UnchangedGood DEF IInv, TypeOK, BmcIgnores
<1>3. CASE BmcExpires
  BY <1>3, UnchangedGood DEF IInv, TypeOK, BmcExpires
<1>4. CASE OtherActivates
  <2> DEFINE p == [request |-> "sol", code |-> "deactivating", n |-> 0, last |-> FALSE]
  <2>1. p \in Response
    BY SessionAssumption DEF Response
  <2>2. toConsole' = IF bmc.sol = "ours" /\ Len(toConsole) < NetMax
                     THEN Append(toConsole, p) ELSE toConsole
    BY <1>4, Zenon DEF OtherActivates
  <2> HIDE DEF p
  <2>3. Len(toConsole) \in Nat /\ NetMax \in Nat
    BY SessionAssumption DEF IInv, TypeOK
  <2>4. (toConsole \in Seq(Response) /\ Len(toConsole) <= NetMax)'
    BY <2>1, <2>2, <2>3, AppendType DEF IInv, TypeOK
  <2>5. (bmc \in [open : BOOLEAN, sol : {"none", "ours", "other"}, lost : BOOLEAN])'
    BY <1>4 DEF OtherActivates, IInv, TypeOK
  <2> QED BY <1>4, <2>4, <2>5, UnchangedGood DEF IInv, TypeOK, OtherActivates
<1>5. CASE OtherLeaves
  BY <1>5, UnchangedGood DEF IInv, TypeOK, OtherLeaves
<1> QED BY <1>1, <1>2, <1>3, <1>4, <1>5

\* The session itself, one step for each action.
LEMMA SessionInv ==
  ASSUME IInv, Turn \/ SessionTimeout \/ SolFails \/ UserCloses
  PROVE  IInv'
<1> USE DEF IInv
<1>1. /\ config \in Config /\ Good(s) /\ s \in Session
      /\ toConsole \in Seq(Response) /\ Len(toConsole) <= NetMax
  BY DEF TypeOK
<1>2. toConsole # <<>> =>
        /\ Tail(toConsole) \in Seq(Response) /\ Len(Tail(toConsole)) <= NetMax
        /\ Head(toConsole) \in Response
  BY <1>1, TailType, SessionAssumption
<1>3. CASE CheckCloseSession
  <2>1. GoodOutcome(CloseSession(s))
    BY <1>1, <1>3, CloseSessionGood DEF CheckCloseSession, ClosesFirst
  <2> QED BY <1>1, <1>3, <2>1, TransmitInv DEF CheckCloseSession
<1>4. CASE Start
  <2>1. MaySend(s, "getauth")
    BY <1>1, <1>4 DEF Start, Good, Sound, MaySend, Requests
  <2> QED BY <1>1, <1>4, <2>1, SendGood, TransmitInv DEF Start
<1>5. CASE SessionTimeout
  <2> DEFINE c == [s EXCEPT !.err = TRUE]
  <2>1. c \in Session /\ c.err
    BY <1>1 DEF Session
  <2>2. /\ c.state = s.state /\ c.fault = s.fault
        /\ c.closeTimeout = s.closeTimeout /\ c.newPort = s.newPort
        /\ c.again = s.again /\ c.instances = s.instances /\ c.close = s.close
        /\ c.activates = s.activates /\ c.deactivates = s.deactivates
    BY <1>1 DEF Session
  <2>3. Transmit(Quit(c), toConsole) /\ UNCHANGED <<config, userClosed, bmc>>
    BY <1>5 DEF SessionTimeout
  <2> HIDE DEF c
  <2>4. Good(c)
    BY <1>1, <2>1, <2>2 DEF Good, Sound, Explained
  <2> QED BY <1>1, <2>1, <2>3, <2>4, QuitGood, TransmitInv
<1>6. CASE ExcessRetransmissions
  <2> DEFINE c == [s EXCEPT !.retx = MaxRetransmission + 1, !.close = TRUE,
                            !.err = @ \/ s.retx >= MaxRetransmission]
  <2>1. MaxRetransmission + 1 \in 0 .. MaxRetransmission + 1
        /\ (s.err \/ s.retx >= MaxRetransmission) \in BOOLEAN
    BY SessionAssumption
  <2>2. c \in Session
    BY <1>1, <2>1 DEF Session
  <2>3. /\ c.state = s.state /\ c.fault = s.fault /\ c.ended = s.ended
        /\ c.closeTimeout = s.closeTimeout /\ c.newPort = s.newPort
        /\ c.again = s.again /\ c.instances = s.instances
        /\ c.activates = s.activates /\ c.deactivates = s.deactivates
        /\ c.close /\ c.succeeded = s.succeeded
        /\ s.err \/ s.retx >= MaxRetransmission => c.err
    BY <1>1 DEF Session
  <2>4. /\ Transmit(CloseSession(c), toConsole)
        /\ UNCHANGED <<config, userClosed, bmc>>
    BY <1>6 DEF ExcessRetransmissions
  <2>5. s.close \/ s.retx >= MaxRetransmission
    BY <1>6 DEF ExcessRetransmissions
  <2>6. ~ s.ended
    BY <1>6 DEF ExcessRetransmissions, Running
  <2> HIDE DEF c
  <2>7. Good(c)
    BY <1>1, <2>2, <2>3, <2>5 DEF Good, Sound, Explained
  <2> QED BY <1>1, <2>3, <2>4, <2>6, <2>7, CloseSessionGood, TransmitInv
<1>7. CASE Retransmit
  <2> DEFINE r == [s EXCEPT !.retx = @ + 1]
             k == [r EXCEPT !.closeTimeout = @ \/ s.close]
             o == CASE s.state = "activate" /\ s.close -> Send(r, "close")
                    [] s.state = "close" -> Stay(k)
                    [] OTHER -> Send(r, s.state)
  <2>1. /\ Transmit(o, toConsole) /\ UNCHANGED <<config, userClosed, bmc>>
        /\ s.state \notin {"start", "sol"} /\ s.retx < MaxRetransmission
    BY <1>7 DEF Retransmit
  <2>2. s.retx + 1 \in 0 .. MaxRetransmission + 1
    BY <1>1, <2>1, SessionAssumption, SMTT(30) DEF Session
  <2>3. Good(r) /\ Alike(r, s)
    BY <1>1, <2>2, RetransmissionGood
  <2>4. s.state \in Requests
    BY <1>1, <2>1 DEF Session
  <2> HIDE DEF r
  <2>5. CASE s.state = "activate" /\ s.close
    <3>1. MaySend(r, "close")
      BY <2>3, <2>5 DEF Good, Sound, Alike, MaySend, Requests
    <3>2. o = Send(r, "close")
      BY <2>5
    <3> HIDE DEF o
    <3> QED BY <1>1, <2>1, <3>1, <3>2, SendGood, TransmitInv
  <2>6. CASE s.state = "close"
    <3>1. k \in Session
      BY <2>3 DEF Good, Session
    <3>2. /\ k.state = r.state /\ k.fault = r.fault /\ k.ended = r.ended
          /\ k.newPort = r.newPort
          /\ k.again = r.again /\ k.instances = r.instances
          /\ k.activates = r.activates /\ k.deactivates = r.deactivates
          /\ k.close = r.close /\ k.err = r.err /\ k.succeeded = r.succeeded
          /\ k.closeTimeout => r.closeTimeout \/ s.close
      BY <2>3 DEF Good, Session
    <3>3. o = Stay(k)
      BY <2>6
    <3> HIDE DEF k, o
    <3>4. Good(k)
      BY <2>3, <2>6, <3>1, <3>2 DEF Good, Sound, Explained, Alike
    <3> QED BY <1>1, <2>1, <3>3, <3>4, StayGood, TransmitInv
  <2>7. CASE ~ (s.state = "activate" /\ s.close) /\ s.state # "close"
    <3>1. MaySend(r, s.state)
      BY <2>3, <2>4 DEF Good, Sound, Alike, MaySend
    <3>2. o = Send(r, s.state)
      BY <2>7
    <3> HIDE DEF o
    <3> QED BY <1>1, <2>1, <3>1, <3>2, SendGood, TransmitInv
  <2> QED BY <2>5, <2>6, <2>7
<1>8. CASE CloseTimeout
  <2>1. s.state = "close" /\ ~ s.ended
    BY <1>1, <1>8 DEF CloseTimeout, Running, Good, Sound
  <2>2. NoPacket.n \in 0 .. Instances
    BY SessionAssumption DEF NoPacket
  <2>3. GoodOutcome(Handle(s, NoPacket))
    BY <1>1, <2>1, <2>2, HandleGood DEF Requests
  <2> QED BY <1>1, <1>8, <2>3, TransmitInv DEF CloseTimeout
<1>9. CASE ReceiveResponse
  <2> DEFINE r == Received(s)
             m == Head(toConsole)
  <2>1. /\ toConsole # <<>> /\ ~ s.ended
        /\ s.state \notin {"start", "sol"}
    BY <1>9 DEF ReceiveResponse, Running, Arrived
  <2>2. /\ \/ Transmit(CloseSession(Closing(r)), Tail(toConsole))
           \/ Transmit(Handle(r, m), Tail(toConsole))
        /\ UNCHANGED <<config, userClosed, bmc>>
    BY <1>9 DEF ReceiveResponse
  <2>3. Good(r) /\ r.ended = s.ended /\ r.state = s.state
    BY <1>1, ReceivedGood DEF Alike
  <2>4. m.n \in 0 .. Instances
    BY <1>2, <2>1 DEF Response
  <2>5. r.state \in Requests
    BY <1>1, <2>1, <2>3 DEF Session
  <2> HIDE DEF r, m
  <2>6. GoodOutcome(Handle(r, m))
    BY <1>1, <2>1, <2>3, <2>4, <2>5, HandleGood
  <2>7. GoodOutcome(CloseSession(Closing(r)))
    BY <1>1, <2>1, <2>3, ClosingGood, CloseSessionGood
  <2> QED BY <1>2, <2>1, <2>2, <2>6, <2>7, TransmitInv
<1>10. CASE ReceiveOther
  <2> DEFINE r == [s EXCEPT !.errors = Upto(@, AcceptableErrors + 1)]
  <2>1. toConsole # <<>> /\ ~ s.ended
    BY <1>10 DEF ReceiveOther, Running, Arrived
  <2>2. /\ \/ Transmit(CloseSession(Closing(r)), Tail(toConsole))
           \/ Transmit(Stay(r), Tail(toConsole))
        /\ UNCHANGED <<config, userClosed, bmc>>
    BY <1>10 DEF ReceiveOther
  <2>3. Upto(s.errors, AcceptableErrors + 1) \in 0 .. AcceptableErrors + 1
    BY <1>1, SessionAssumption DEF Session, Upto
  <2>4. Good(r) /\ r.ended = s.ended
    BY <1>1, <2>3, ErrorsGood DEF Alike
  <2> HIDE DEF r
  <2>5. GoodOutcome(CloseSession(Closing(r)))
    BY <1>1, <2>1, <2>4, ClosingGood, CloseSessionGood
  <2> QED BY <1>2, <2>1, <2>2, <2>4, <2>5, StayGood, TransmitInv
<1>11. CASE SolDeactivating
  <2> DEFINE r == Received(s)
  <2>1. /\ toConsole # <<>> /\ s.state = "sol"
        /\ Transmit(Send(Closing(r), "close"), Tail(toConsole))
        /\ UNCHANGED <<config, userClosed, bmc>>
    BY <1>11 DEF SolDeactivating, Arrived
  <2>2. Good(r) /\ r.state = s.state
    BY <1>1, ReceivedGood DEF Alike
  <2> HIDE DEF r
  <2>3. MaySend(Closing(r), "close")
    BY <2>1, <2>2, ClosingMaySend DEF Good, Sound
  <2> QED BY <1>2, <2>1, <2>3, SendGood, TransmitInv
<1>12. CASE SolFails
  <2>1. PICK t \in {"close", "deactivate"} :
          Transmit(Send(Closing(s), t), toConsole)
    BY <1>12 DEF SolFails
  <2>2. s.state = "sol" /\ UNCHANGED <<config, userClosed, bmc>>
    BY <1>12 DEF SolFails
  <2>3. MaySend(Closing(s), t)
    BY <1>1, <2>2, ClosingMaySend DEF Good, Sound, Counted
  <2> QED BY <1>1, <2>1, <2>2, <2>3, SendGood, TransmitInv
<1>13. CASE UserCloses
  <2> DEFINE c == [s EXCEPT !.close = TRUE]
  <2>1. /\ s' = c /\ userClosed' = TRUE
        /\ UNCHANGED <<config, toBmc, toConsole, bmc>>
    BY <1>13 DEF UserCloses
  <2>2. c \in Session
    BY <1>1 DEF Session
  <2>3. /\ c.state = s.state /\ c.fault = s.fault
        /\ c.closeTimeout = s.closeTimeout /\ c.newPort = s.newPort
        /\ c.again = s.again /\ c.instances = s.instances /\ c.close
        /\ c.activates = s.activates /\ c.deactivates = s.deactivates
    BY <1>1 DEF Session
  <2> HIDE DEF c
  <2>4. Good(s)'
    BY <1>1, <2>1, <2>2, <2>3 DEF Good, Sound, Explained
  <2> QED BY <2>1, <2>2, <2>4 DEF TypeOK
<1> QED BY <1>3, <1>4, <1>5, <1>6, <1>7, <1>8, <1>9, <1>10, <1>11, <1>12, <1>13
        DEF Turn

-----------------------------------------------------------------------------
(* SOL is granted.                                                         *)
(*                                                                         *)
(* While the session waits for the answer to Activate Payload, the only    *)
(* packet that carries its number is the last request to activate, or the  *)
(* answer to it; packets do not overtake each other, so by the time of the *)
(* answer the BMC has nothing of this session left to process that would   *)
(* take the payload away again.                                            *)

\* The payload is the console's, or was and the BMC or another user took it,
\* and nothing the console sent before is still on its way.
Granted == toBmc = <<>> /\ (bmc.sol = "ours" \/ bmc.lost)

GrantInv ==
  /\ s.state = "activate" =>
       /\ \A i \in DOMAIN toBmc :
            toBmc[i].last => i = Len(toBmc) /\ toBmc[i].request = "activate"
       /\ \A i \in DOMAIN toConsole :
            toConsole[i].last =>
              /\ toBmc = <<>>
              /\ toConsole[i].code = "ok" => bmc.sol = "ours" \/ bmc.lost
  /\ s.state = "sol" => Granted
  /\ \A i \in DOMAIN toConsole :
       toConsole[i].request = "activate" => toConsole[i].code \in Codes("activate")

\* A turn that does not lead to SOL, and to the wait for the answer to Activate
\* Payload only with a new request for it.
Plain(o) ==
  /\ o.s.state # "sol"
  /\ o.s.state = "activate" => o.sends \/ s.state = "activate"

\* Only the answer to Activate Payload leads to SOL, when it reports no error
\* and nobody closes; every way to the wait for it sends the request.
LEMMA HandleLeads ==
  ASSUME NEW r \in Session, r.state \in Requests, NEW m
  PROVE  LET o == Handle(r, m)
         IN  \/ /\ o.s.state # "sol"
                /\ o.s.state = "activate" => o.sends
             \/ /\ r.state = "activate" /\ ~ r.close
                /\ m.code \notin {"refused", "already", "bad", "newport"}
                /\ o.s.state = "sol" /\ ~ o.sends
<1> DEFINE P(o) == o.s.state # "sol" /\ (o.s.state = "activate" => o.sends)
<1>1. \A t : \A q \in Session : Send(q, t).s.state = t /\ Send(q, t).sends
  BY DEF Send, Session
<1>2. \A q \in Session : Quit(q).s.state = q.state /\ Fault(q).s.state = q.state
  BY DEF Quit, Fault, Stay, Session
<1>3. \A q \in Session : Closing(q) \in Session
  BY DEF Closing, Session
<1>4. \A t : \A q \in Session : t # "sol" => P(Send(q, t))
  BY <1>1
<1>5. \A q \in Session : q.state \notin {"sol", "activate"} => P(Quit(q)) /\ P(Fault(q))
  BY <1>2
<1> HIDE DEF P
<1> SUFFICES \/ P(Handle(r, m))
             \/ /\ r.state = "activate" /\ ~ r.close
                /\ m.code \notin {"refused", "already", "bad", "newport"}
                /\ Handle(r, m).s.state = "sol" /\ ~ Handle(r, m).sends
  BY DEF P
<1>6. CASE r.state = "getauth"
  <2>1. [r EXCEPT !.err = TRUE] \in Session /\ [r EXCEPT !.err = TRUE].state = r.state
    BY DEF Session
  <2> QED BY <1>4, <1>5, <1>6, <2>1 DEF Handle, HandleGetAuth
<1>7. CASE r.state \in {"open", "rakp1"}
  BY <1>4, <1>7 DEF Handle
<1>8. CASE r.state = "rakp3"
  BY <1>4, <1>5, <1>8 DEF Handle, HandleRakp3
<1>9. CASE r.state = "setpriv"
  BY <1>4, <1>9 DEF Handle, HandleSetPrivilege
<1>10. CASE r.state = "support"
  BY <1>3, <1>4, <1>10 DEF Handle, HandleSupport
<1>11. CASE r.state = "status"
  <2> DEFINE q == [r EXCEPT !.active = Active(m), !.deactivated = 0]
             c == [q EXCEPT !.close = TRUE, !.succeeded = TRUE]
             d == [q EXCEPT !.instances = TRUE, !.again = ~ config.only]
  <2>1. \/ Handle(r, m) = Fault(r)
        \/ Handle(r, m) = Send(Closing(q), "close")
        \/ Handle(r, m) = Send(c, "close")
        \/ Handle(r, m) = Send(d, "deactivate")
        \/ Handle(r, m) = Send(q, "activate")
    BY <1>11 DEF Handle, HandleStatus
  <2>2. P(Send(Closing(q), "close"))
    BY DEF P, Send, Closing, Session
  <2>3. P(Send(c, "close"))
    BY DEF P, Send, Session
  <2>4. P(Send(d, "deactivate"))
    BY DEF P, Send, Session
  <2>5. P(Send(q, "activate"))
    BY DEF P, Send, Session
  <2> HIDE DEF q, c, d
  <2> QED BY <1>5, <1>11, <2>1, <2>2, <2>3, <2>4, <2>5
<1>12. CASE r.state = "activate"
  <2> DEFINE q == [r EXCEPT !.activates = @ + 1]
             p == [r EXCEPT !.newPort = TRUE]
             u == [r EXCEPT !.state = "sol", !.established = TRUE]
  <2>1. \/ Handle(r, m) = Send(r, "deactivate")
        \/ Handle(r, m) = Send(Closing(r), "close")
        \/ Handle(r, m) = ActivateRace(q)
        \/ Handle(r, m) = Send(Closing(r), "deactivate")
        \/ Handle(r, m) = Send(p, "deactivate")
        \/ /\ ~ r.close /\ Handle(r, m) = Stay(u)
           /\ m.code \notin {"refused", "already", "bad", "newport"}
    BY <1>12 DEF Handle, HandleActivate, HandleActivated
  <2>2. P(ActivateRace(q))
    BY DEF P, ActivateRace, Send, Closing, Session
  <2>3. P(Send(p, "deactivate"))
    BY DEF P, Send, Session
  <2>4. Stay(u).s.state = "sol" /\ ~ Stay(u).sends
    BY DEF Stay, Session
  <2> HIDE DEF q, p, u
  <2> QED BY <1>3, <1>4, <1>12, <2>1, <2>2, <2>3, <2>4
<1>13. CASE r.state = "deactivate"
  <2> DEFINE q == [r EXCEPT !.deactivated = Upto(@, Instances + 1)]
             c == [q EXCEPT !.succeeded = TRUE, !.close = TRUE]
             a == [q EXCEPT !.instances = FALSE, !.again = FALSE,
                            !.deactivates = @ + 1]
  <2>1. \/ Handle(r, m) = Send(c, "close")
        \/ Handle(r, m) = Send(q, "deactivate")
        \/ Handle(r, m) = Send(r, "close")
        \/ Handle(r, m) = Send(Closing(a), "close")
        \/ Handle(r, m) = Send(a, "activate")
        \/ Handle(r, m) = Fault(r)
    BY <1>13 DEF Handle, HandleDeactivate
  <2>2. P(Send(c, "close"))
    BY DEF P, Send, Session
  <2>3. P(Send(q, "deactivate"))
    BY DEF P, Send, Session
  <2>4. P(Send(Closing(a), "close"))
    BY DEF P, Send, Closing, Session
  <2>5. P(Send(a, "activate"))
    BY DEF P, Send, Session
  <2> HIDE DEF q, c, a
  <2> QED BY <1>4, <1>5, <1>13, <2>1, <2>2, <2>3, <2>4, <2>5
<1>14. CASE r.state = "close"
  <2>1. P(Send(OnNewPort(r), "getauth"))
    BY DEF P, Send, OnNewPort, FreshSession
  <2> QED BY <1>5, <1>14, <2>1 DEF Handle, HandleClose
<1> QED BY <1>6, <1>7, <1>8, <1>9, <1>10, <1>11, <1>12, <1>13, <1>14 DEF Requests

\* A session that is closing does not get to SOL.
LEMMA CloseSessionLeads ==
  ASSUME NEW r \in Session, r.close
  PROVE  LET o == CloseSession(r)
         IN  o.s.state # "sol" /\ (o.s.state = "activate" => o.sends)
<1>1. CASE r.state \in {"start", "getauth", "open", "rakp1"}
  BY <1>1 DEF CloseSession, Quit, Stay, Session
<1>2. CASE r.state \in {"setpriv", "support", "status", "sol"}
  BY <1>2 DEF CloseSession, Send, Session
<1>3. CASE r.state \in {"rakp3", "activate", "deactivate", "close"}
  <2>1. CloseSession(r) = Handle(r, NoPacket)
    BY <1>3 DEF CloseSession
  <2> QED BY <1>3, <2>1, HandleLeads DEF Requests
<1> QED BY <1>1, <1>2, <1>3 DEF Session, Requests

\* A turn preserves the grant: it leads elsewhere, or stays, or leads to SOL
\* with a grant.
LEMMA TransmitGrant ==
  ASSUME IInv, GrantInv, IInv', NEW o, NEW responses \in Seq(Response),
         responses = toConsole \/ (toConsole # <<>> /\ responses = Tail(toConsole)),
         Transmit(o, responses), UNCHANGED bmc,
         \/ Plain(o)
         \/ ~ o.sends /\ o.s.state = "sol" /\ (s.state = "sol" \/ Granted)
  PROVE  GrantInv'
<1>1. s' = o.s /\ toBmc \in Seq(Request) /\ toConsole \in Seq(Response)
      /\ toBmc' \in Seq(Request) /\ toConsole' \in Seq(Response)
  BY DEF Transmit, IInv, TypeOK
<1>2. \A i \in DOMAIN responses : \E j \in DOMAIN toConsole : responses[i] = toConsole[j]
  <2>1. CASE responses = toConsole
    BY <2>1
  <2>2. CASE toConsole # <<>> /\ responses = Tail(toConsole)
    <3>1. ASSUME NEW i \in DOMAIN responses
          PROVE  i + 1 \in DOMAIN toConsole /\ responses[i] = toConsole[i + 1]
      BY <1>1, <2>2
    <3> QED BY <3>1
  <2> QED BY <2>1, <2>2
<1>3. CASE ~ o.sends
  <2>1. toConsole' = responses /\ toBmc' = toBmc
    BY <1>3 DEF Transmit
  <2>2. s'.state = "activate" => s.state = "activate"
    BY <1>1, <1>3 DEF Plain
  <2>3. s'.state = "sol" => Granted
    BY <1>1, <1>3 DEF Plain, GrantInv
  <2> QED BY <1>2, <2>1, <2>2, <2>3 DEF GrantInv, Granted
<1>4. CASE o.sends
  <2>1. s'.state # "sol"
    BY <1>1, <1>4 DEF Plain
  <2>2. toConsole' = Aged(responses, s'.state)
    BY <1>1, <1>4 DEF Transmit
  <2>3. /\ DOMAIN toConsole' = DOMAIN responses
        /\ \A i \in DOMAIN responses :
             /\ toConsole'[i].request = responses[i].request
             /\ toConsole'[i].code = responses[i].code
             /\ s'.state = "activate" => toConsole'[i].last = FALSE
    <3>1. DOMAIN toConsole' = DOMAIN responses
      BY <2>2 DEF Aged
    <3>2. ASSUME NEW i \in DOMAIN responses
          PROVE  /\ toConsole'[i].request = responses[i].request
                 /\ toConsole'[i].code = responses[i].code
                 /\ s'.state = "activate" => toConsole'[i].last = FALSE
      <4> DEFINE p == responses[i]
                 a == [p EXCEPT !.last = p.last /\ s'.state = "setpriv"]
      <4>1. p \in Response
        OBVIOUS
      <4>2. toConsole'[i] = a
        BY <2>2 DEF Aged
      <4> HIDE DEF p
      <4>3. /\ a.request = p.request /\ a.code = p.code
            /\ s'.state = "activate" => a.last = FALSE
        BY <4>1 DEF Response
      <4> HIDE DEF a
      <4> QED BY <4>2, <4>3 DEF p
    <3> QED BY <3>1, <3>2
  <2>4. \A i \in DOMAIN toConsole' :
          toConsole'[i].request = "activate" => toConsole'[i].code \in Codes("activate")
    BY <1>2, <2>3 DEF GrantInv
  <2>5. ASSUME s'.state = "activate"
        PROVE  \A i \in DOMAIN toBmc' :
                 toBmc'[i].last => i = Len(toBmc') /\ toBmc'[i].request = "activate"
    <3> DEFINE net == Aged(toBmc, s'.state)
    <3>1. net \in Seq(Request) /\ Len(net) = Len(toBmc)
      BY <1>1, AgedRequests
    <3>2. \A i \in DOMAIN net : net[i].last = FALSE
      <4> SUFFICES ASSUME NEW i \in DOMAIN toBmc PROVE net[i].last = FALSE
        BY DEF Aged
      <4> DEFINE q == toBmc[i]
                 a == [q EXCEPT !.last = q.last /\ s'.state = "setpriv"]
      <4>1. q \in Request
        BY <1>1
      <4>2. net[i] = a
        BY DEF Aged
      <4> HIDE DEF q, net
      <4>3. a.last = FALSE
        BY <2>5, <4>1 DEF Request
      <4> QED BY <4>2, <4>3
    <3>3. \/ toBmc' = net
          \/ toBmc' = Append(net, [request |-> s'.state, last |-> TRUE])
      BY <1>1, <1>4 DEF Transmit
    <3> DEFINE p == [request |-> s'.state, last |-> TRUE]
    <3>4. p \in Request /\ p.request = "activate"
      BY <2>5 DEF Request, Requests
    <3> HIDE DEF net, p
    <3>5. CASE toBmc' = net
      BY <3>2, <3>5
    <3>6. CASE toBmc' = Append(net, p)
      <4>1. /\ Len(toBmc') = Len(net) + 1
            /\ \A i \in DOMAIN net : toBmc'[i] = net[i]
            /\ toBmc'[Len(net) + 1] = p
            /\ DOMAIN toBmc' = 1 .. Len(net) + 1 /\ DOMAIN net = 1 .. Len(net)
            /\ Len(net) \in Nat
        BY <3>1, <3>4, <3>6
      <4> QED BY <3>2, <3>4, <4>1
    <3> QED BY <3>3, <3>5, <3>6 DEF p
  <2> QED BY <2>1, <2>3, <2>4, <2>5 DEF GrantInv
<1> QED BY <1>3, <1>4

\* Every turn of the session preserves the grant.
LEMMA SessionGrant ==
  ASSUME IInv, GrantInv, IInv', Turn \/ SessionTimeout \/ SolFails \/ UserCloses
  PROVE  GrantInv'
<1>1. /\ config \in Config /\ Good(s) /\ s \in Session
      /\ toConsole \in Seq(Response)
  BY DEF IInv, TypeOK
<1>2. toConsole # <<>> => Tail(toConsole) \in Seq(Response) /\ Head(toConsole) \in Response
  BY <1>1, TailType
<1>3. CASE CheckCloseSession
  <2>1. Plain(CloseSession(s))
    BY <1>1, <1>3, CloseSessionLeads DEF CheckCloseSession, ClosesFirst, Plain
  <2> QED BY <1>1, <1>3, <2>1, TransmitGrant DEF CheckCloseSession
<1>4. CASE Start
  <2>1. Plain(Send(s, "getauth"))
    BY <1>1 DEF Plain, Send, Session
  <2> QED BY <1>1, <1>4, <2>1, TransmitGrant DEF Start
<1>5. CASE SessionTimeout
  <2> DEFINE o == Quit([s EXCEPT !.err = TRUE])
  <2>1. o.s.state = s.state /\ ~ o.sends
    BY <1>1 DEF Quit, Stay, Session
  <2>2. Transmit(o, toConsole) /\ UNCHANGED bmc
    BY <1>5 DEF SessionTimeout
  <2> HIDE DEF o
  <2> QED BY <1>1, <2>1, <2>2, TransmitGrant DEF Plain
<1>6. CASE ExcessRetransmissions
  <2> DEFINE c == [s EXCEPT !.retx = MaxRetransmission + 1, !.close = TRUE,
                            !.err = @ \/ s.retx >= MaxRetransmission]
  <2>1. MaxRetransmission + 1 \in 0 .. MaxRetransmission + 1
        /\ (s.err \/ s.retx >= MaxRetransmission) \in BOOLEAN
    BY SessionAssumption
  <2>2. c \in Session /\ c.close
    BY <1>1, <2>1 DEF Session
  <2>3. Transmit(CloseSession(c), toConsole) /\ UNCHANGED bmc
    BY <1>6 DEF ExcessRetransmissions
  <2> HIDE DEF c
  <2>4. Plain(CloseSession(c))
    BY <2>2, CloseSessionLeads DEF Plain
  <2> QED BY <1>1, <2>3, <2>4, TransmitGrant
<1>7. CASE Retransmit
  <2> DEFINE r == [s EXCEPT !.retx = @ + 1]
             k == [r EXCEPT !.closeTimeout = @ \/ s.close]
             o == CASE s.state = "activate" /\ s.close -> Send(r, "close")
                    [] s.state = "close" -> Stay(k)
                    [] OTHER -> Send(r, s.state)
  <2>1. Transmit(o, toConsole) /\ UNCHANGED bmc /\ s.state \notin {"start", "sol"}
    BY <1>7 DEF Retransmit
  <2>2. Plain(Send(r, "close")) /\ Plain(Send(r, s.state))
    BY <1>1, <2>1 DEF Plain, Send, Session
  <2>3. s.state = "close" => Plain(Stay(k))
    BY <1>1 DEF Plain, Stay, Session
  <2>4. o = Send(r, "close") \/ o = Send(r, s.state) \/ (s.state = "close" /\ o = Stay(k))
    OBVIOUS
  <2> HIDE DEF r, k, o
  <2> QED BY <1>1, <2>1, <2>2, <2>3, <2>4, TransmitGrant
<1>8. CASE CloseTimeout
  <2>1. s.state = "close"
    BY <1>1, <1>8 DEF CloseTimeout, Good, Sound
  <2>2. Plain(Handle(s, NoPacket))
    BY <1>1, <2>1, HandleLeads DEF Requests, Plain
  <2> QED BY <1>1, <1>8, <2>2, TransmitGrant DEF CloseTimeout
<1>9. CASE ReceiveResponse
  <2> DEFINE r == Received(s)
             m == Head(toConsole)
             bad == m.code = "error" /\ ~ (s.state = "deactivate" /\ s.newPort)
  <2>1. /\ toConsole # <<>> /\ Accepts(m) /\ s.state \notin {"start", "sol"}
        /\ UNCHANGED bmc
        /\ Transmit(IF bad THEN CloseSession(Closing(r)) ELSE Handle(r, m), Tail(toConsole))
    BY <1>9 DEF ReceiveResponse, Arrived
  <2>2. Good(r) /\ r \in Session /\ r.state = s.state
    BY <1>1, ReceivedGood DEF Alike, Good
  <2>3. m \in Response /\ Tail(toConsole) \in Seq(Response)
    BY <1>2, <2>1
  <2>4. CASE bad
    <3>1. Closing(r) \in Session /\ Closing(r).close
      BY <2>2, ClosingGood DEF Good
    <3>2. Plain(CloseSession(Closing(r)))
      BY <3>1, CloseSessionLeads DEF Plain
    <3>3. Transmit(CloseSession(Closing(r)), Tail(toConsole))
      BY <2>1, <2>4
    <3> HIDE DEF r, m
    <3> QED BY <2>1, <2>3, <3>2, <3>3, TransmitGrant
  <2>5. CASE ~ bad
    <3>1. r.state \in Requests
      BY <1>1, <2>1, <2>2 DEF Session
    <3>2. Transmit(Handle(r, m), Tail(toConsole))
      BY <2>1, <2>5
    <3>3. \/ Plain(Handle(r, m))
          \/ /\ s.state = "activate"
             /\ m.code \notin {"refused", "already", "bad", "newport"}
             /\ Handle(r, m).s.state = "sol" /\ ~ Handle(r, m).sends
      <4> HIDE DEF r, m
      <4> QED BY <2>2, <3>1, HandleLeads DEF Plain
    <3>4. ASSUME s.state = "activate",
                 m.code \notin {"refused", "already", "bad", "newport"}
          PROVE  Granted
      <4>1. m.request = "activate" /\ m.last
        BY <2>1, <3>4 DEF Accepts
      <4>2. 1 \in DOMAIN toConsole /\ m = toConsole[1]
        BY <1>1, <2>1
      <4>3. m.code \in Codes("activate")
        BY <4>1, <4>2 DEF GrantInv
      <4>4. m.code # "error"
        BY <2>5, <3>4
      <4>5. m.code = "ok"
        BY <3>4, <4>3, <4>4 DEF Codes
      <4> HIDE DEF m
      <4> QED BY <3>4, <4>1, <4>2, <4>5 DEF GrantInv, Granted
    <3> HIDE DEF r, m
    <3> QED BY <2>1, <2>3, <3>2, <3>3, <3>4, TransmitGrant
  <2> QED BY <2>4, <2>5
<1>10. CASE ReceiveOther
  <2> DEFINE r == [s EXCEPT !.errors = Upto(@, AcceptableErrors + 1)]
  <2>1. /\ toConsole # <<>> /\ UNCHANGED bmc
        /\ \/ Transmit(CloseSession(Closing(r)), Tail(toConsole))
           \/ Transmit(Stay(r), Tail(toConsole))
    BY <1>10 DEF ReceiveOther, Arrived
  <2>2. Upto(s.errors, AcceptableErrors + 1) \in 0 .. AcceptableErrors + 1
    BY <1>1, SessionAssumption DEF Session, Upto
  <2>3. Good(r) /\ r.state = s.state
    BY <1>1, <2>2, ErrorsGood DEF Alike
  <2> HIDE DEF r
  <2>4. Plain(CloseSession(Closing(r)))
    <3>1. Closing(r) \in Session /\ Closing(r).close
      BY <2>3, ClosingGood DEF Good
    <3> QED BY <3>1, CloseSessionLeads DEF Plain
  <2>5. Stay(r).s.state = s.state /\ ~ Stay(r).sends
    BY <2>3 DEF Stay
  <2>6. CASE Transmit(CloseSession(Closing(r)), Tail(toConsole))
    BY <1>2, <2>1, <2>4, <2>6, TransmitGrant
  <2>7. CASE Transmit(Stay(r), Tail(toConsole))
    BY <1>2, <2>1, <2>5, <2>7, TransmitGrant DEF Plain
  <2> QED BY <2>1, <2>6, <2>7
<1>11. CASE SolDeactivating
  <2>1. /\ toConsole # <<>> /\ UNCHANGED bmc
        /\ Transmit(Send(Closing(Received(s)), "close"), Tail(toConsole))
    BY <1>11 DEF SolDeactivating, Arrived
  <2>2. Closing(Received(s)) \in Session
    BY <1>1, ReceivedGood, ClosingGood DEF Good
  <2>3. Plain(Send(Closing(Received(s)), "close"))
    BY <2>2 DEF Plain, Send, Session
  <2> QED BY <1>2, <2>1, <2>3, TransmitGrant
<1>12. CASE SolFails
  <2>1. PICK t \in {"close", "deactivate"} :
          Transmit(Send(Closing(s), t), toConsole)
    BY <1>12 DEF SolFails
  <2>2. UNCHANGED bmc
    BY <1>12 DEF SolFails
  <2>3. Closing(s) \in Session
    BY <1>1, ClosingGood DEF Good
  <2>4. Plain(Send(Closing(s), t))
    BY <2>3 DEF Plain, Send, Session
  <2> QED BY <1>1, <2>1, <2>2, <2>4, TransmitGrant
<1>13. CASE UserCloses
  <2>1. s'.state = s.state /\ UNCHANGED <<toBmc, toConsole, bmc>>
    BY <1>1, <1>13 DEF UserCloses, Session
  <2> QED BY <2>1 DEF GrantInv, Granted
<1> QED BY <1>3, <1>4, <1>5, <1>6, <1>7, <1>8, <1>9, <1>10, <1>11, <1>12, <1>13
        DEF Turn

\* So do the network, the BMC and the other user.
LEMMA EnvironmentGrant ==
  ASSUME IInv, GrantInv, Environment PROVE GrantInv'
<1>1. /\ toBmc \in Seq(Request) /\ toConsole \in Seq(Response) /\ Len(toBmc) \in Nat
      /\ bmc \in [open : BOOLEAN, sol : {"none", "ours", "other"}, lost : BOOLEAN]
  BY DEF IInv, TypeOK
\* A request is taken from the network.
<1>2. ASSUME toBmc # <<>>, toBmc' = Tail(toBmc)
      PROVE  /\ s.state # "sol"
             /\ s.state = "activate" =>
                  /\ \A i \in DOMAIN toBmc' : toBmc'[i].last =>
                       i = Len(toBmc') /\ toBmc'[i].request = "activate"
                  /\ Head(toBmc).last =>
                       toBmc' = <<>> /\ Head(toBmc).request = "activate"
                  /\ \A i \in DOMAIN toConsole : ~ toConsole[i].last
  <2>1. /\ Len(toBmc') = Len(toBmc) - 1 /\ Head(toBmc) = toBmc[1]
        /\ \A i \in DOMAIN toBmc' : i + 1 \in DOMAIN toBmc /\ toBmc'[i] = toBmc[i + 1]
        /\ 1 \in DOMAIN toBmc /\ toBmc' \in Seq(Request)
        /\ DOMAIN toBmc' \subseteq Nat
    BY <1>1, <1>2
  <2>2. ASSUME s.state = "activate", Head(toBmc).last
        PROVE  toBmc' = <<>> /\ Head(toBmc).request = "activate"
    <3>1. Len(toBmc) = 1 /\ Head(toBmc).request = "activate"
      BY <2>1, <2>2 DEF GrantInv
    <3> QED BY <1>1, <1>2, <2>1, <3>1
  <2> QED BY <1>1, <1>2, <2>1, <2>2 DEF GrantInv, Granted
<1>3. CASE LoseRequest
  BY <1>2, <1>3 DEF LoseRequest, GrantInv
<1>4. CASE BmcIgnores
  BY <1>2, <1>4 DEF BmcIgnores, GrantInv
<1>5. CASE LoseResponse
  <2>1. /\ toConsole # <<>> /\ toConsole' = Tail(toConsole)
        /\ UNCHANGED <<s, toBmc, bmc>>
    BY <1>5 DEF LoseResponse
  <2>2. \A i \in DOMAIN toConsole' : i + 1 \in DOMAIN toConsole
          /\ toConsole'[i] = toConsole[i + 1]
    BY <1>1, <2>1
  <2> QED BY <2>1, <2>2 DEF GrantInv, Granted
<1>6. CASE BmcAnswers
  <2> DEFINE q == Head(toBmc)
  <2>1. toBmc # <<>> /\ toBmc' = Tail(toBmc) /\ UNCHANGED <<config, s, userClosed>>
    BY <1>6 DEF BmcAnswers
  <2>2. PICK code \in Codes(q.request), n \in 0 .. Instances :
          /\ \E holder \in HoldersAfter(q.request, code) :
               bmc' = [open |-> OpenAfter(q.request, code), sol |-> holder,
                       lost |-> bmc.lost /\ ~ (q.request = "activate" /\ code \in Activating)]
          /\ toConsole' = IF Len(toConsole) < NetMax
                          THEN Append(toConsole, [request |-> q.request, code |-> code,
                                                    n |-> n, last |-> q.last])
                          ELSE toConsole
    BY <1>6 DEF BmcAnswers
  <2> DEFINE p == [request |-> q.request, code |-> code, n |-> n, last |-> q.last]
  <2>3. /\ p.request = q.request /\ p.code = code /\ p.last = q.last
    OBVIOUS
  <2>4. q.request = "activate" /\ code = "ok" => bmc'.sol = "ours"
    BY <2>2 DEF HoldersAfter, Activating
  <2>5. toConsole' = toConsole \/ toConsole' = Append(toConsole, p)
    BY <2>2
  <2> HIDE DEF p
  <2>6. \A i \in DOMAIN toConsole' :
          toConsole'[i] = p \/ (i \in DOMAIN toConsole /\ toConsole'[i] = toConsole[i])
    BY <1>1, <2>5, SMTT(30)
  <2>7. \A i \in DOMAIN toConsole' : toConsole'[i].request = "activate"
          => toConsole'[i].code \in Codes("activate")
    BY <2>2, <2>3, <2>6 DEF GrantInv
  <2> HIDE DEF q
  <2>8. s.state = "activate" =>
          \A i \in DOMAIN toConsole' : toConsole'[i].last =>
            toBmc' = <<>> /\ (toConsole'[i].code = "ok" => bmc'.sol = "ours")
    BY <1>2, <2>1, <2>3, <2>4, <2>6 DEF q
  <2> QED BY <1>2, <2>1, <2>7, <2>8 DEF GrantInv
<1>7. ASSUME UNCHANGED <<s, toBmc>>,
             bmc.sol = "ours" \/ bmc.lost => bmc'.sol = "ours" \/ bmc'.lost,
             NEW p, p.request = "sol", p.last = FALSE,
             toConsole' = toConsole \/ toConsole' = Append(toConsole, p)
      PROVE  GrantInv'
  <2>1. \A i \in DOMAIN toConsole' :
          toConsole'[i] = p \/ (i \in DOMAIN toConsole /\ toConsole'[i] = toConsole[i])
    BY <1>1, <1>7
  <2> QED BY <1>7, <2>1 DEF GrantInv, Granted
<1> DEFINE z == [request |-> "sol", code |-> "deactivating", n |-> 0, last |-> FALSE]
<1>8. z.request = "sol" /\ z.last = FALSE
  OBVIOUS
<1>9. CASE BmcExpires
  <2>1. UNCHANGED <<s, toBmc, toConsole>>
        /\ (bmc.sol = "ours" \/ bmc.lost => bmc'.sol = "ours" \/ bmc'.lost)
    BY <1>9 DEF BmcExpires
  <2> HIDE DEF z
  <2> QED BY <1>7, <1>8, <2>1
<1>10. CASE OtherActivates
  <2>1. UNCHANGED <<s, toBmc>>
        /\ (bmc.sol = "ours" \/ bmc.lost => bmc'.sol = "ours" \/ bmc'.lost)
    BY <1>1, <1>10 DEF OtherActivates
  <2>2. toConsole' = toConsole \/ toConsole' = Append(toConsole, z)
    BY <1>10 DEF OtherActivates
  <2> HIDE DEF z
  <2> QED BY <1>7, <1>8, <2>1, <2>2
<1>11. CASE OtherLeaves
  <2>1. UNCHANGED <<s, toBmc, toConsole>>
        /\ (bmc.sol = "ours" \/ bmc.lost => bmc'.sol = "ours" \/ bmc'.lost)
    BY <1>1, <1>11 DEF OtherLeaves
  <2> HIDE DEF z
  <2> QED BY <1>7, <1>8, <2>1
<1> QED BY <1>3, <1>4, <1>5, <1>6, <1>9, <1>10, <1>11 DEF Environment

-----------------------------------------------------------------------------
(* The theorems. *)

\* A session just submitted.
LEMMA InitInv ==
  ASSUME Init PROVE IInv
<1> DEFINE z == [err |-> FALSE, ended |-> FALSE, established |-> FALSE,
                 fault |-> FALSE]
<1>1. config \in Config
  BY SessionAssumption DEF Init
<1>2. s = FreshSession(z) /\ userClosed = FALSE
  BY DEF Init
<1>3. s \in Session
  BY SessionAssumption, <1>1, <1>2 DEF FreshSession, Session, Config
<1>4. /\ s.state = "start" /\ ~ s.fault /\ ~ s.ended
      /\ ~ s.close /\ ~ s.closeTimeout /\ ~ s.instances /\ ~ s.again
      /\ s.activates = 0 /\ s.deactivates = 0
  BY <1>2 DEF FreshSession
<1>5. Good(s)
  BY SessionAssumption, <1>3, <1>4 DEF Good, Sound, Explained
<1>6. /\ toBmc \in Seq(Request) /\ toConsole \in Seq(Response)
      /\ Len(toBmc) <= NetMax /\ Len(toConsole) <= NetMax
  BY SessionAssumption DEF Init
<1>7. bmc \in [open : BOOLEAN, sol : {"none", "ours", "other"}, lost : BOOLEAN]
  BY DEF Init
<1> QED BY <1>1, <1>2, <1>3, <1>5, <1>6, <1>7 DEF IInv, TypeOK

\* Nothing happens.
LEMMA StutterInv ==
  ASSUME IInv, UNCHANGED vars PROVE IInv'
  BY UnchangedGood DEF IInv, TypeOK, vars

\* The invariant of every behaviour.
THEOREM SessionInvariant == Spec => []IInv
<1>1. Init => IInv
  BY InitInv
<1>2. IInv /\ [Next]_vars => IInv'
  BY SessionInv, NetworkInv, BmcInv, StutterInv DEF Next, Environment
<1> QED BY <1>1, <1>2, PTL DEF Spec

\* Every variable keeps its type: the counters that end the activation and
\* deactivation loops never pass their limits, whatever the BMC answers.
THEOREM SessionTypeCorrect == Spec => []TypeOK
<1>1. IInv => TypeOK
  BY DEF IInv
<1> QED BY <1>1, SessionInvariant, PTL

\* No line of _process_ctx() that "shouldn't be possible to reach" is reached
\* and no assertion on the instances to deactivate fails, for every
\* configuration, every limit, any BMC and any loss.
THEOREM SessionNoLogicBug == Spec => []NoLogicBug
<1>1. IInv => NoLogicBug
  BY DEF IInv, Good, Sound, NoLogicBug
<1> QED BY <1>1, SessionInvariant, PTL

\* A session never ends on its own without an error number or the success it
\* was configured for.
THEOREM SessionFailureExplained == Spec => []FailureExplained
<1>1. IInv => FailureExplained
  BY DEF IInv, Good, Explained, FailureExplained
<1> QED BY <1>1, SessionInvariant, PTL

\* While SOL is up the BMC has granted it, for every configuration and every
\* limit: an answer that is late, repeated or meant for an earlier request
\* never takes the session to SOL.
THEOREM SessionSolGranted == Spec => []SolGranted
<1>1. Init => GrantInv
  BY DEF Init, GrantInv, FreshSession
<1>2. IInv /\ IInv' /\ GrantInv /\ [Next]_vars => GrantInv'
  <2>1. ASSUME GrantInv, UNCHANGED vars PROVE GrantInv'
    BY <2>1 DEF GrantInv, Granted, vars
  <2> QED BY <2>1, SessionGrant, EnvironmentGrant DEF Next
<1>3. GrantInv => SolGranted
  BY DEF GrantInv, Granted, SolGranted
<1> QED BY <1>1, <1>2, <1>3, SessionInvariant, PTL DEF Spec

\* A session that must not take SOL over deactivates nothing when it is told
\* that the payload is active elsewhere, for every configuration and limit.
THEOREM SessionInUseRespected == Spec => InUseRespected
<1>1. IInv /\ [Next]_vars =>
        [config.errorInUse /\ ~ s.close => ~ DeactivatesInUse]_vars
  <2> SUFFICES ASSUME IInv, Next, config.errorInUse, ~ s.close,
                      s.state = "activate", s'.state = "deactivate",
                      Len(toConsole') < Len(toConsole),
                      Accepts(Head(toConsole)), Head(toConsole).code = "already"
               PROVE  FALSE
    BY DEF DeactivatesInUse
  <2>1. /\ Good(s) /\ s \in Session /\ toConsole \in Seq(Response)
        /\ Len(toConsole) \in Nat
    BY DEF IInv, TypeOK
  <2>2. ASSUME NEW o, Transmit(o, toConsole) PROVE FALSE
    <3>1. Len(toConsole') = Len(toConsole)
      BY <2>1, <2>2, AgedResponses DEF Transmit
    <3> QED BY <2>1, <3>1
  <2>3. ASSUME s' = s PROVE FALSE
    BY <2>3
  <2>4. ASSUME toConsole' = toConsole PROVE FALSE
    BY <2>1, <2>4
  <2>5. CASE ReceiveResponse
    <3> DEFINE r == Received(s)
               m == Head(toConsole)
    <3>1. s' = Handle(r, m).s
      BY <2>5 DEF ReceiveResponse, Transmit
    <3>2. r \in Session /\ r.state = "activate" /\ ~ r.close
      BY <2>1, ReceivedGood DEF Alike, Good
    <3>3. m.code = "already"
      OBVIOUS
    <3> HIDE DEF r, m
    <3>4. Handle(r, m) = Send(Closing(r), "close")
      <4>1. Handle(r, m) = HandleActivated(r, m)
        BY <3>2 DEF Handle, HandleActivate
      <4>2. "already" # "refused"
        OBVIOUS
      <4> QED BY <3>3, <4>1, <4>2 DEF HandleActivated
    <3>5. Send(Closing(r), "close").s.state = "close"
      BY <3>2 DEF Send, Closing, Session
    <3> QED BY <3>1, <3>4, <3>5
  <2>6. CASE Turn
    <3>1. ~ ReceiveOther /\ ~ SolDeactivating
      BY DEF ReceiveOther, SolDeactivating
    <3> QED BY <2>2, <2>5, <2>6, <3>1
            DEF Turn, CheckCloseSession, Start, ExcessRetransmissions, Retransmit,
                CloseTimeout
  <2>7. CASE SessionTimeout \/ SolFails \/ UserCloses
    BY <2>2, <2>4, <2>7 DEF SessionTimeout, SolFails, UserCloses
  <2>8. CASE Environment
    BY <2>3, <2>8
    DEF Environment, LoseRequest, LoseResponse, BmcAnswers, BmcIgnores, BmcExpires,
        OtherActivates, OtherLeaves
  <2> QED BY <2>6, <2>7, <2>8 DEF Next
<1> QED BY <1>1, SessionInvariant, PTL DEF Spec, InUseRespected
=============================================================================
