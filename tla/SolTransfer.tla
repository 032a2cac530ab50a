----------------------------- MODULE SolTransfer -----------------------------
(***************************************************************************)
(* The data plane of an established serial-over-LAN session of             *)
(* libipmiconsole (ipmiconsole_processing.c, with the console and          *)
(* asynccomm handlers of ipmiconsole_engine.c): what happens to the        *)
(* characters and breaks a user sends and to the output of the BMC, in     *)
(* protocol state SOL_SESSION.                                             *)
(*                                                                         *)
(* The console sends one packet at a time and waits for its acknowledgement*)
(* (sol_input_waiting_for_ack), retransmitting on a timer; a packet of the *)
(* BMC may acknowledge, carry output, or both.  The network keeps order    *)
(* unless Reordering, and loses packets; packets it repeats are dropped by *)
(* the filter that SessionSequence models.  The BMC is external.           *)
(***************************************************************************)
EXTENDS Integers, Sequences, FiniteSets, SequencesExt

CONSTANTS
  SeqMax,               \* IPMI_SOL_PACKET_SEQUENCE_NUMBER_MAX (15)
  MaxSend,              \* max_sol_character_send_size
  BufMax,               \* CONSOLE_REMOTE_CONSOLE_TO_BMC_BUF_MAX
  OutMax,               \* CONSOLE_BMC_TO_REMOTE_CONSOLE_BUF_MAX
  MaxRetransmission,    \* maximum_retransmission_count
  IncrementWorkaround,  \* WORKAROUND_INCREMENT_SOL_PACKET_SEQUENCE
  SerialKeepalive,      \* "off", "nul" or "empty": the SERIAL_KEEPALIVE flags
  Break,                \* the item a serial break is in the input stream
  Reordering,           \* whether the network may reorder packets
  Capacity,             \* packets in flight in each direction
  MinAccept,            \* fewest characters the BMC accepts of a data packet
  MaxTyped,             \* bound on the items the user sends
  MaxBreaks,            \* bound on the breaks among them
  MaxOutput,            \* bound on the characters the BMC outputs
  MaxAccepted           \* bound on the items the BMC accepts

ASSUME SolAssumption ==
  /\ {SeqMax, MaxSend, BufMax, OutMax, Capacity} \subseteq Nat \ {0}
  /\ {MaxRetransmission, MaxTyped, MaxBreaks, MaxOutput,
      MaxAccepted} \subseteq Nat
  /\ MinAccept \in {0, 1}
  /\ IncrementWorkaround \in BOOLEAN /\ Reordering \in BOOLEAN
  /\ SerialKeepalive \in {"off", "nul", "empty"}
  /\ Break \notin Nat

VARIABLES
  snd,      \* the input half of c->session: buffer, packet and ack state
  rcv,      \* the output half: last packet, its length, and the out buffer
  open,     \* protocol_state is SOL_SESSION (FALSE once it is being closed)
  rx,       \* ipmi_from_bmc: at most one packet waits to be processed
  toBmc, toConsole,  \* packets in flight
  bmc,      \* the BMC's side (external)
  typed,    \* history: what the engine read from the user, in order
  userOut   \* history: what the engine wrote to the user

vars == <<snd, rcv, open, rx, toBmc, toConsole, bmc, typed, userOut>>

None == <<>>

\* A SOL packet, in either direction; seq 0 and ack 0 mean "none", and op is
\* "generate break" to the BMC and "SOL deactivating" from it.
Packet(seq, ack, count, op, data) ==
  [seq |-> seq, ack |-> ack, count |-> count, op |-> op, data |-> data]

\* Channels after p was sent: it is lost, or in flight.
Sent(ch, p) ==
  {ch} \cup (IF Len(ch) < Capacity THEN {Append(ch, p)} ELSE {})

\* Sequence number 0 is special, so the numbers run from 1 to SeqMax.
NextSeq(n) == IF n + 1 > SeqMax THEN 1 ELSE n + 1

\* The breaks in a stream of input.
Breaks(s) == Cardinality({i \in DOMAIN s : s[i] = Break})

-----------------------------------------------------------------------------
(* Sending. *)

PeekAll(s) == s.buf

\* What _send_sol_packet_with_character_data() peeks from the buffer: at most
\* max_sol_character_send_size, or the bytes before a requested break.
Peek(s) ==
  LET max == IF s.before = 0 THEN MaxSend ELSE s.before
  IN  SubSeq(s.buf, 1, IF Len(s.buf) < max THEN Len(s.buf) ELSE max)

\* A packet with character data: the sender's state, and the packet.
WithData(s) ==
  [s EXCEPT !.seq = NextSeq(@), !.data = Peek(s), !.waiting = TRUE]
DataPacket(s, ack, count) == Packet(s.seq, ack, count, FALSE, s.data)

\* _send_sol_packet_generate_break(): no data goes along with a break.
WithBreak(s) ==
  [s EXCEPT !.seq = NextSeq(@), !.data = <<>>, !.waiting = TRUE,
            !.waitingBreak = TRUE]
BreakPacket(s) == Packet(s.seq, 0, 0, TRUE, s.data)

\* A sender's current packet once more, without the ack it may have carried.
SameAgain(s) == IF s.waitingBreak THEN BreakPacket(s) ELSE DataPacket(s, 0, 0)

CanSendData(s) == s.buf # <<>> /\ (~ s.breakReq \/ s.before > 0)

-----------------------------------------------------------------------------
(* The user's side of the engine. *)

\* _console_read(): one character more.  A full buffer overwrites its oldest
\* byte, reports it dropped, and the session is closed.
ConsoleRead ==
  /\ open /\ Len(typed) < MaxTyped
  /\ LET item == Len(typed) + 1
         all == Append(snd.buf, item)
     IN  /\ typed' = Append(typed, item)
         /\ IF Len(all) > BufMax
            THEN /\ snd' = [snd EXCEPT !.buf = Tail(all)]
                 /\ open' = FALSE
            ELSE /\ snd' = [snd EXCEPT !.buf = all]
                 /\ UNCHANGED open
  /\ UNCHANGED <<rcv, rx, toBmc, toConsole, bmc, userOut>>

\* _asynccomm(): a break requested while one is pending means just one.
AsyncBreak ==
  /\ open /\ Len(typed) < MaxTyped
  /\ Breaks(typed) < MaxBreaks
  /\ ~ snd.breakReq
  /\ snd' = [snd EXCEPT !.breakReq = TRUE, !.before = Len(snd.buf)]
  /\ typed' = Append(typed, Break)
  /\ UNCHANGED <<rcv, open, rx, toBmc, toConsole, bmc, userOut>>

\* _console_write(): all of the buffer at once; a session being closed no
\* longer polls the user's descriptor.
ConsoleWrite ==
  /\ open /\ rcv.out # <<>>
  /\ userOut' = userOut \o rcv.out
  /\ rcv' = [rcv EXCEPT !.out = <<>>]
  /\ UNCHANGED <<snd, open, rx, toBmc, toConsole, bmc, typed>>

\* _ipmi_recvfrom(): a packet still waiting in the buffer is drained.
RecvFrom ==
  \E i \in 1 .. Len(toConsole) :
    /\ open /\ (i = 1 \/ Reordering)
    /\ rx' = <<toConsole[i]>>
    /\ toConsole' = RemoveAt(toConsole, i)
    /\ UNCHANGED <<snd, rcv, open, toBmc, bmc, typed, userOut>>

-----------------------------------------------------------------------------
(* _process_ctx() in protocol state SOL_SESSION: first the send half ...   *)

\* Nothing is in flight: data goes first, then a requested break.
SendPending ==
  /\ open /\ ~ snd.waiting
  /\ \/ /\ CanSendData(snd)
        /\ snd' = WithData(snd)
        /\ toBmc' \in Sent(toBmc, DataPacket(snd', 0, 0))
     \/ /\ ~ CanSendData(snd) /\ snd.breakReq
        /\ snd' = WithBreak(snd)
        /\ toBmc' \in Sent(toBmc, BreakPacket(snd'))
  /\ UNCHANGED <<rcv, open, rx, toConsole, bmc, typed, userOut>>

RetransmitUncounted ==
  /\ open /\ snd.waiting
  /\ toBmc' \in Sent(toBmc, SameAgain(snd))
  /\ UNCHANGED <<snd, rcv, open, rx, toConsole, bmc, typed, userOut>>

\* _sol_retransmission_timeout(): the same packet again; too many give up,
\* unless the workaround first tries the next sequence number (the count,
\* which then runs on, is kept at its maximum).
Retransmit ==
  LET n == snd.retx + 1
      w == snd.wretx + 1
      counted == [snd EXCEPT !.retx = n]
      worked == [counted EXCEPT !.wretx = w,
                                !.seq = IF w = 1 THEN NextSeq(@) ELSE @]
  IN  /\ open /\ snd.waiting
      /\ \/ /\ n <= MaxRetransmission
            /\ snd' = counted
            /\ toBmc' \in Sent(toBmc, SameAgain(snd'))
            /\ UNCHANGED open
         \/ /\ n > MaxRetransmission
            /\ IncrementWorkaround /\ w < MaxRetransmission
            /\ snd' = [worked EXCEPT !.retx = MaxRetransmission]
            /\ toBmc' \in Sent(toBmc, SameAgain(snd'))
            /\ UNCHANGED open
         \/ /\ n > MaxRetransmission
            /\ ~ (IncrementWorkaround /\ w < MaxRetransmission)
            /\ snd' = snd /\ open' = FALSE /\ UNCHANGED toBmc
      /\ UNCHANGED <<rcv, rx, toConsole, bmc, typed, userOut>>

\* _serial_keepalive_timeout(): with nothing to send, a NUL or an empty
\* packet goes to the BMC.  While a packet is in flight the timer it asks is
\* the one Retransmit just found not expired, and the two reads of the clock
\* are taken to agree.
SendSerialKeepalive ==
  /\ open /\ SerialKeepalive # "off" /\ ~ snd.waiting
  /\ snd.buf = <<>> /\ ~ snd.breakReq /\ snd.before = 0
  /\ IF SerialKeepalive = "nul"
     THEN /\ Len(typed) < MaxTyped
          /\ typed' = Append(typed, 0)
          /\ snd' = WithData([snd EXCEPT !.buf = <<0>>])
     ELSE /\ UNCHANGED typed
          /\ snd' = WithData(snd)
  /\ toBmc' \in Sent(toBmc, DataPacket(snd', 0, 0))
  /\ UNCHANGED <<rcv, open, rx, toConsole, bmc, userOut>>

-----------------------------------------------------------------------------
(* ... and then the receive half, when nothing was sent.                   *)

\* The packet acknowledges the one in flight: the accepted characters leave
\* the buffer, or the break is done.
IsAck(s, p) == p.ack # 0 /\ s.waiting /\ s.seq = p.ack

AckedAll(s, p) ==
  IF ~ IsAck(s, p) THEN s
  ELSE [s EXCEPT !.buf = SubSeq(@, Len(s.data) + 1, Len(@)),
                 !.waiting = FALSE, !.waitingBreak = FALSE,
                 !.breakReq = FALSE, !.data = <<>>]

Acked(s, p) ==
  LET len == Len(s.data)
      count == IF p.count > len THEN len ELSE p.count
  IN  IF ~ IsAck(s, p) THEN s
      ELSE IF s.waitingBreak
      THEN [s EXCEPT !.breakReq = FALSE, !.waiting = FALSE,
                     !.waitingBreak = FALSE, !.data = <<>>]
      ELSE [s EXCEPT !.buf = SubSeq(@, count + 1, Len(@)),
                     !.before = IF count > @ THEN 0 ELSE @ - count,
                     !.waiting = FALSE, !.data = <<>>]

FreshAll(p) == p.data

\* The output characters of a packet that are new: a retransmission repeats
\* the last packet's sequence number and may have grown.
Fresh(p) ==
  IF p.seq # rcv.last THEN p.data
  ELSE SubSeq(p.data, rcv.count + 1, Len(p.data))

\* _receive_packet() resets the counters, then
\* _sol_bmc_to_remote_console_packet().
SolReceive ==
  /\ open /\ rx # None
  /\ snd.waiting \/ (~ CanSendData(snd) /\ ~ snd.breakReq)
  /\ rx' = None
  /\ LET p == rx[1]
         s == Acked([snd EXCEPT !.retx = 0, !.wretx = 0], p)
         all == rcv.out \o Fresh(p)
     IN  \/ /\ p.op
            /\ snd' = [snd EXCEPT !.retx = 0, !.wretx = 0]
            /\ open' = FALSE /\ UNCHANGED <<rcv, toBmc>>
         \/ /\ ~ p.op /\ p.seq # 0 /\ Len(all) > OutMax
            /\ rcv' = [rcv EXCEPT !.out =
                         SubSeq(all, Len(all) - OutMax + 1, Len(all))]
            /\ snd' = s /\ open' = FALSE /\ UNCHANGED toBmc
         \/ /\ ~ p.op /\ p.seq # 0 /\ Len(all) <= OutMax
            /\ rcv' = [last |-> p.seq, count |-> Len(p.data), out |-> all]
            /\ IF ~ s.waiting /\ s.buf # <<>>
               THEN /\ snd' = WithData(s)
                    /\ toBmc' \in
                         Sent(toBmc, DataPacket(snd', p.seq, Len(p.data)))
               ELSE /\ snd' = s
                    /\ toBmc' \in
                         Sent(toBmc, Packet(0, p.seq, Len(p.data), FALSE, <<>>))
            /\ UNCHANGED open
         \/ /\ ~ p.op /\ p.seq = 0
            /\ CASE CanSendData(s) /\ ~ s.waiting ->
                      /\ snd' = WithData(s)
                      /\ toBmc' \in Sent(toBmc, DataPacket(snd', 0, 0))
                 [] ~ (CanSendData(s) /\ ~ s.waiting) /\ s.breakReq ->
                      /\ snd' = WithBreak(s)
                      /\ toBmc' \in Sent(toBmc, BreakPacket(snd'))
                 [] OTHER -> snd' = s /\ UNCHANGED toBmc
            /\ UNCHANGED <<rcv, open>>
  /\ UNCHANGED <<toConsole, bmc, typed, userOut>>

-----------------------------------------------------------------------------
(* The BMC (external): it acknowledges every packet, repeats the answer to *)
(* a packet it has seen, and retransmits its own until acknowledged.       *)

\* The output the BMC has not had acknowledged, as one packet with an ack.
BmcPacket(b, ack, count) == Packet(b.seq, ack, count, FALSE, b.data)

\* b after an acknowledgement in p of its own packet.
BmcAcked(b, p) ==
  IF p.ack # 0 /\ p.ack = b.seq /\ p.count = Len(b.data)
  THEN [b EXCEPT !.seq = 0, !.data = <<>>] ELSE b

BmcReceive ==
  \E i \in 1 .. Len(toBmc) :
    LET p == toBmc[i]
        b == BmcAcked(bmc, p)
        new == p.seq # b.last
    IN  /\ open /\ (i = 1 \/ Reordering)
        /\ Len(b.in) <= MaxAccepted
        /\ toBmc' = RemoveAt(toBmc, i)
        /\ IF p.seq = 0 THEN bmc' = b /\ UNCHANGED toConsole
           ELSE \E k \in (IF p.data = <<>> THEN 0 ELSE MinAccept) .. Len(p.data),
                   piggyback \in BOOLEAN :
                  /\ bmc' = IF ~ new THEN b ELSE
                       [b EXCEPT !.last = p.seq, !.accepted = k,
                                 !.in = @ \o SubSeq(p.data, 1, k)
                                          \o (IF p.op THEN <<Break>> ELSE <<>>)]
                  /\ toConsole' \in Sent(toConsole,
                       IF piggyback THEN BmcPacket(bmc', p.seq, bmc'.accepted)
                       ELSE Packet(0, p.seq, bmc'.accepted, FALSE, <<>>))
        /\ UNCHANGED <<snd, rcv, open, rx, typed, userOut>>

\* New output: a packet of its own, or more data in the pending one.
BmcOutput ==
  /\ open /\ bmc.out < MaxOutput
  /\ LET data == Append(bmc.data, bmc.out + 1)
     IN  bmc' = [bmc EXCEPT !.out = @ + 1, !.data = data,
                   !.seq = IF @ = 0 THEN NextSeq(bmc.lastSeq) ELSE @,
                   !.lastSeq = IF bmc.seq = 0 THEN NextSeq(@) ELSE @]
  /\ toConsole' \in Sent(toConsole, BmcPacket(bmc', 0, 0))
  /\ UNCHANGED <<snd, rcv, open, rx, toBmc, typed, userOut>>

BmcRetransmit ==
  /\ open /\ bmc.seq # 0
  /\ toConsole' \in Sent(toConsole, BmcPacket(bmc, 0, 0))
  /\ UNCHANGED <<snd, rcv, open, rx, toBmc, bmc, typed, userOut>>

\* Another client takes the console: the BMC says it deactivates this one.
BmcDeactivate ==
  /\ open
  /\ toConsole' \in Sent(toConsole, Packet(0, 0, 0, TRUE, <<>>))
  /\ UNCHANGED <<snd, rcv, open, rx, toBmc, bmc, typed, userOut>>

-----------------------------------------------------------------------------

Init ==
  /\ snd = [buf |-> <<>>, seq |-> 0, data |-> <<>>, waiting |-> FALSE,
            waitingBreak |-> FALSE, breakReq |-> FALSE, before |-> 0,
            retx |-> 0, wretx |-> 0]
  /\ rcv = [last |-> 0, count |-> 0, out |-> <<>>]
  /\ open = TRUE /\ rx = None /\ toBmc = <<>> /\ toConsole = <<>>
  /\ bmc = [last |-> 0, accepted |-> 0, in |-> <<>>,
            seq |-> 0, lastSeq |-> 0, data |-> <<>>, out |-> 0]
  /\ typed = <<>> /\ userOut = <<>>

Next ==
  \/ ConsoleRead \/ AsyncBreak \/ ConsoleWrite \/ RecvFrom
  \/ SendPending \/ Retransmit \/ SendSerialKeepalive \/ SolReceive
  \/ BmcReceive \/ BmcOutput \/ BmcRetransmit \/ BmcDeactivate

Spec == Init /\ [][Next]_vars

\* The engine's poll loop runs on, its retransmission timer fires, and the
\* BMC answers; nothing is assumed of the network.
FairSpec ==
  /\ Spec
  /\ WF_vars(SendPending) /\ WF_vars(Retransmit) /\ WF_vars(SolReceive)
  /\ WF_vars(RecvFrom) /\ WF_vars(ConsoleWrite) /\ WF_vars(BmcReceive)

-----------------------------------------------------------------------------
(* Properties. *)

Items == 0 .. MaxTyped \cup {Break}

Sender == [buf : Seq(Items), seq : 0 .. SeqMax, data : Seq(Items),
           waiting : BOOLEAN, waitingBreak : BOOLEAN, breakReq : BOOLEAN,
           before : Nat, retx : 0 .. MaxRetransmission, wretx : Nat]

Packets(data) == [seq : 0 .. SeqMax, ack : 0 .. SeqMax, count : Nat,
                  op : BOOLEAN, data : Seq(data)]

\* Every variable keeps its type, and the buffers their size.
TypeOK ==
  /\ snd \in Sender
  /\ rcv \in [last : 0 .. SeqMax, count : Nat, out : Seq(1 .. MaxOutput)]
  /\ open \in BOOLEAN
  /\ rx \in Seq(Packets(1 .. MaxOutput)) /\ Len(rx) <= 1
  /\ toConsole \in Seq(Packets(1 .. MaxOutput)) /\ Len(toConsole) <= Capacity
  /\ toBmc \in Seq(Packets(Items)) /\ Len(toBmc) <= Capacity
  /\ bmc \in [last : 0 .. SeqMax, accepted : Nat, in : Seq(Items),
               seq : 0 .. SeqMax, lastSeq : 0 .. SeqMax,
               data : Seq(1 .. MaxOutput), out : 0 .. MaxOutput]
  /\ Len(snd.buf) <= BufMax /\ Len(rcv.out) <= OutMax
  /\ typed \in Seq(Items) /\ userOut \in Seq(1 .. MaxOutput)

\* The BMC gets the characters the user sends in order, nothing lost and
\* nothing twice, across lost packets, lost acknowledgements, retransmissions
\* and partial acceptance (_send_sol_packet_with_character_data,
\* _sol_bmc_to_remote_console_packet).  This is about a user who sends
\* characters only, over a network that keeps order, without
\* INCREMENT_SOL_PACKET_SEQUENCE: a break may lose its place, since the
\* packet that acknowledges output of the BMC takes the characters after a
\* pending break along (_sol_bmc_to_remote_console_packet), and, sent again
\* over a packet in flight, it makes characters repeat.
Input == INSTANCE ByteStream
         WITH Item <- 0 .. MaxTyped, written <- typed, delivered <- bmc.in
InputSpec == Input!Spec

\* The user gets the BMC's output in order, nothing lost and nothing twice,
\* also when the BMC retransmits a packet with more data in it, and when the
\* output buffer overflows and drops its oldest bytes: the overflow closes the
\* session before the gap can be written (_sol_bmc_to_remote_console_packet,
\* _console_write).  The network keeps order: an older packet of the BMC that
\* arrives after a newer one would be taken for new output.
Output == INSTANCE ByteStream
          WITH Item <- 1 .. MaxOutput,
               written <- [i \in 1 .. bmc.out |-> i],
               delivered <- userOut
OutputSpec == Output!Spec

\* The characters of a stream of input, in their order, without the breaks.
Chars(s) ==
  LET at == {i \in DOMAIN s : s[i] # Break}
      place(k) == CHOOSE i \in at : Cardinality({j \in at : j <= i}) = k
  IN  [k \in 1 .. Cardinality(at) |-> s[place(k)]]

\* The buffer holds exactly what the BMC has not accepted, except for the
\* packet in flight, whose acceptance the console may not know of yet: a
\* retransmission is the same packet, and no character leaves the buffer
\* before it was accepted.  For users and networks as in InputSpec.
BufferIsRest ==
  open => LET chars == Chars(typed)
              got == Chars(bmc.in)
              kept == Len(chars) - Len(snd.buf)
          IN  /\ snd.buf = SubSeq(chars, kept + 1, Len(chars))
              /\ Len(got) >= kept
              /\ Len(got) > kept => snd.waiting /\ Len(got) - kept <= Len(snd.data)

\* A break is not forgotten: until a packet that carries it was accepted by
\* the BMC, the console still has it pending, whatever acknowledgements of
\* earlier packets arrive late.
BreakNotLost ==
  open => Breaks(bmc.in) >= Breaks(typed) - (IF snd.breakReq THEN 1 ELSE 0)

\* "assert (character_data_len <= c->session.max_sol_character_send_size)"
\* (ipmiconsole_packet.c:1358): no packet carries more characters than the
\* BMC's inbound payload size allows, also while a break is pending.
PacketFits == \A i \in 1 .. Len(toBmc) : Len(toBmc[i].data) <= MaxSend

\* Everything the user sends to a BMC with no output of its own reaches it,
\* or the session is closed (_sol_retransmission_timeout counts to its limit).
InputDelivered ==
  \A n \in 1 .. MaxTyped :
    (Len(typed) >= n) ~> (Len(bmc.in) >= n \/ ~ open)
=============================================================================
