-------------------------- MODULE SolTransferProofs --------------------------
(***************************************************************************)
(* Proofs about SolTransfer, for every sequence number range, buffer size, *)
(* packet size, channel capacity and number of retransmissions.            *)
(*                                                                         *)
(* Each direction is an alternating-bit protocol over a channel that loses *)
(* packets and keeps their order: a number that differs from the one before *)
(* it (NextSeqDiffers) is all that is needed, because the packets in a     *)
(* channel that carry the current number form its end.  The invariants say *)
(* so for data and acknowledgements of both directions (InCh, AckCh,       *)
(* OutCh, AckOut), and both ByteStream refinements follow.                 *)
(*                                                                         *)
(* A break needs more.  It is sent again, with a new number, for every     *)
(* acknowledgement that is not the one waited for, so that several numbers *)
(* are under way at once; none may come round to a new packet's number     *)
(* while an older packet still carries it.  Lags bounds how far behind     *)
(* every number under way is, by what is ahead of it to be acknowledged.   *)
(***************************************************************************)
EXTENDS SolTransfer, SequenceTheorems, FiniteSetTheorems, TLAPS

-----------------------------------------------------------------------------
(* Sequences. *)

\* A sequence of which t is what is left when the first k elements are gone.
Suffix(t, s, k) ==
  /\ Len(s) = Len(t) + k
  /\ \A i \in 1 .. Len(t) : t[i] = s[i + k]

LEMMA RemoveType ==
  ASSUME NEW S, NEW s \in Seq(S), NEW i \in 1 .. Len(s)
  PROVE  RemoveAt(s, i) \in Seq(S) /\ Len(RemoveAt(s, i)) = Len(s) - 1
<1> DEFINE a == SubSeq(s, 1, i - 1)
           b == SubSeq(s, i + 1, Len(s))
<1>0. Len(s) \in Nat
  OBVIOUS
<1>1. a \in Seq(S) /\ Len(a) = i - 1
  <2>1. \A k \in 1 .. i - 1 : s[k] \in S
    OBVIOUS
  <2> QED BY <1>0, <2>1, SubSeqProperties
<1>2. b \in Seq(S) /\ Len(b) = Len(s) - i
  <2>1. \A k \in i + 1 .. Len(s) : s[k] \in S
    OBVIOUS
  <2> QED BY <1>0, <2>1, SubSeqProperties
<1> HIDE DEF a, b
<1>3. a \o b \in Seq(S) /\ Len(a \o b) = Len(a) + Len(b)
  BY <1>1, <1>2, ConcatProperties
<1>4. RemoveAt(s, i) = a \o b
  BY DEF RemoveAt, a, b
<1>5. ASSUME NEW n \in Nat, NEW x, NEW y, x = i - 1, y = n - i
      PROVE  x + y = n - 1
  BY <1>5
<1> QED BY <1>0, <1>1, <1>2, <1>3, <1>4, <1>5

\* Taking the first element away.
LEMMA RemoveHead ==
  ASSUME NEW S, NEW s \in Seq(S), Len(s) > 0
  PROVE  RemoveAt(s, 1) \in Seq(S) /\ Suffix(RemoveAt(s, 1), s, 1)
<1> DEFINE a == SubSeq(s, 1, 0)
           b == SubSeq(s, 2, Len(s))
<1>0. Len(s) \in Nat
  OBVIOUS
<1>1. a = <<>>
  BY SubSeqEmpty
<1>2. /\ b \in Seq(S) /\ Len(b) = Len(s) - 1
      /\ \A i \in 1 .. Len(s) - 1 : b[i] = s[i + 1]
  <2>1. \A k \in 2 .. Len(s) : s[k] \in S
    OBVIOUS
  <2>2. /\ b \in Seq(S) /\ Len(b) = IF 2 <= Len(s) THEN Len(s) - 2 + 1 ELSE 0
        /\ \A i \in 1 .. Len(s) - 2 + 1 : b[i] = s[2 + i - 1]
    BY <1>0, <2>1, SubSeqProperties
  <2> HIDE DEF b
  <2>3. \A i \in 1 .. Len(s) - 1 : 2 + i - 1 = i + 1
    OBVIOUS
  <2>4. ASSUME NEW n \in Nat, n > 0
        PROVE  (IF 2 <= n THEN n - 2 + 1 ELSE 0) = n - 1 /\ n - 2 + 1 = n - 1
    BY <2>4
  <2>5. /\ (IF 2 <= Len(s) THEN Len(s) - 2 + 1 ELSE 0) = Len(s) - 1
        /\ Len(s) - 2 + 1 = Len(s) - 1
    BY <1>0, <2>4
  <2> QED BY <2>2, <2>3, <2>4, <2>5
<1> HIDE DEF a, b
<1>3. RemoveAt(s, 1) = b
  <2>1. RemoveAt(s, 1) = a \o b
    BY DEF RemoveAt, a, b
  <2>2. <<>> \o b = b
    BY <1>2, ConcatEmptySeq
  <2> QED BY <1>1, <2>1, <2>2
<1> QED BY <1>0, <1>2, <1>3 DEF Suffix

LEMMA SentCases ==
  ASSUME NEW S, NEW ch \in Seq(S), Len(ch) <= Capacity, NEW p \in S,
         NEW c \in Sent(ch, p)
  PROVE  /\ c \in Seq(S) /\ Len(c) <= Capacity
         /\ c = ch \/ c = Append(ch, p)
<1>1. c = ch \/ (Len(ch) < Capacity /\ c = Append(ch, p))
  BY DEF Sent
<1>2. Append(ch, p) \in Seq(S) /\ Len(Append(ch, p)) = Len(ch) + 1
  BY AppendProperties
<1>3. Len(ch) \in Nat /\ Capacity \in Nat
  BY SolAssumption
<1> QED BY <1>1, <1>2, <1>3

LEMMA NextSeqType ==
  ASSUME NEW n \in 0 .. SeqMax
  PROVE  NextSeq(n) \in 1 .. SeqMax
  BY SolAssumption DEF NextSeq

\* With two numbers or more, the next number is another one.
LEMMA NextSeqDiffers ==
  ASSUME NEW n \in 0 .. SeqMax, SeqMax >= 2
  PROVE  NextSeq(n) # n
  BY SolAssumption DEF NextSeq

LEMMA SubSeqType ==
  ASSUME NEW S, NEW s \in Seq(S), NEW m \in Nat \ {0}, NEW n \in Nat,
         n <= Len(s)
  PROVE  /\ SubSeq(s, m, n) \in Seq(S)
         /\ Len(SubSeq(s, m, n)) = IF m <= n THEN n - m + 1 ELSE 0
         /\ \A i \in 1 .. n - m + 1 : SubSeq(s, m, n)[i] = s[m + i - 1]
<1>1. \A i \in m .. n : s[i] \in S
  OBVIOUS
<1> QED BY <1>1, SubSeqProperties

-----------------------------------------------------------------------------
(* Types. *)

Out == 1 .. MaxOutput

SenderOK(s) == s \in Sender /\ Len(s.buf) <= BufMax

LEMMA PacketType ==
  ASSUME NEW D, NEW seq \in 0 .. SeqMax, NEW ack \in 0 .. SeqMax,
         NEW count \in Nat, NEW op \in BOOLEAN, NEW data \in Seq(D)
  PROVE  Packet(seq, ack, count, op, data) \in Packets(D)
  BY DEF Packet, Packets

LEMMA PeekType ==
  ASSUME NEW s \in Sender
  PROVE  /\ Peek(s) \in Seq(Items) /\ Len(Peek(s)) <= Len(s.buf)
         /\ \A i \in 1 .. Len(Peek(s)) : Peek(s)[i] = s.buf[i]
<1> DEFINE max == IF s.before = 0 THEN MaxSend ELSE s.before
           n == IF Len(s.buf) < max THEN Len(s.buf) ELSE max
<1>1. s.buf \in Seq(Items) /\ s.before \in Nat
  BY DEF Sender
<1>2. n \in Nat /\ n <= Len(s.buf)
  BY <1>1, SolAssumption
<1>3. Peek(s) = SubSeq(s.buf, 1, n)
  BY DEF Peek
<1> HIDE DEF n
<1> QED BY <1>1, <1>2, <1>3, SubSeqType

\* A sender that has put data in a packet.
LEMMA WithDataType ==
  ASSUME NEW s, SenderOK(s)
  PROVE  /\ SenderOK(WithData(s))
         /\ WithData(s).seq = NextSeq(s.seq) /\ WithData(s).data = Peek(s)
         /\ WithData(s).waiting /\ WithData(s).buf = s.buf
         /\ WithData(s).breakReq = s.breakReq
         /\ WithData(s).waitingBreak = s.waitingBreak
         /\ WithData(s).before = s.before
<1>1. s \in Sender /\ Peek(s) \in Seq(Items) /\ NextSeq(s.seq) \in 0 .. SeqMax
  <2>1. s.seq \in 0 .. SeqMax /\ s \in Sender
    BY DEF SenderOK, Sender
  <2> QED BY <2>1, PeekType, NextSeqType
<1> DEFINE d == Peek(s)
           q == NextSeq(s.seq)
<1>2. WithData(s) = [s EXCEPT !.seq = q, !.data = d, !.waiting = TRUE]
  BY DEF WithData
<1>3. d \in Seq(Items) /\ q \in 0 .. SeqMax
  BY <1>1
<1> HIDE DEF d, q
<1>4. [s EXCEPT !.seq = q, !.data = d, !.waiting = TRUE] \in Sender
  BY <1>1, <1>3 DEF Sender
<1>5. WithData(s).buf = s.buf
  BY <1>1, <1>2 DEF Sender
<1> QED BY <1>1, <1>2, <1>4, <1>5 DEF Sender, SenderOK, d, q

LEMMA WithBreakType ==
  ASSUME NEW s, SenderOK(s)
  PROVE  SenderOK(WithBreak(s))
<1>1. s \in Sender /\ NextSeq(s.seq) \in 0 .. SeqMax
  BY NextSeqType DEF SenderOK, Sender
<1>2. <<>> \in Seq(Items)
  BY EmptySeq
<1> DEFINE q == NextSeq(s.seq)
<1>3. WithBreak(s) = [s EXCEPT !.seq = q, !.data = <<>>, !.waiting = TRUE,
                               !.waitingBreak = TRUE]
  BY DEF WithBreak
<1>4. q \in 0 .. SeqMax
  BY <1>1
<1> HIDE DEF q
<1> QED BY <1>1, <1>2, <1>3, <1>4 DEF Sender, SenderOK

\* The packets a sender makes.
LEMMA SenderPackets ==
  ASSUME NEW s \in Sender, NEW ack \in 0 .. SeqMax, NEW count \in Nat
  PROVE  /\ DataPacket(s, ack, count) \in Packets(Items)
         /\ BreakPacket(s) \in Packets(Items)
         /\ SameAgain(s) \in Packets(Items)
<1>1. s.seq \in 0 .. SeqMax /\ s.data \in Seq(Items)
  BY DEF Sender
<1>2. 0 \in 0 .. SeqMax
  BY SolAssumption
<1> QED BY <1>1, <1>2, PacketType DEF DataPacket, BreakPacket, SameAgain

\* A sender whose packet may have been acknowledged.
LEMMA AckedType ==
  ASSUME NEW s, SenderOK(s), NEW p \in Packets(Out)
  PROVE  SenderOK(Acked(s, p))
<1> DEFINE len == Len(s.data)
           count == IF p.count > len THEN len ELSE p.count
           rest == SubSeq(s.buf, count + 1, Len(s.buf))
           left == IF count > s.before THEN 0 ELSE s.before - count
<1>1. /\ s \in Sender /\ s.buf \in Seq(Items) /\ s.data \in Seq(Items)
      /\ s.before \in Nat /\ p.count \in Nat /\ Len(s.buf) \in Nat /\ BufMax \in Nat
  BY SolAssumption DEF Sender, SenderOK, Packets
<1>2. count \in Nat /\ left \in Nat
  BY <1>1
<1>3. rest \in Seq(Items) /\ Len(rest) <= BufMax
  <2>1. rest \in Seq(Items) /\ Len(rest) <= Len(s.buf)
    BY <1>1, <1>2, SubSeqType
  <2> QED BY <1>1, <2>1, SMTT(30) DEF SenderOK
<1>4. CASE ~ IsAck(s, p)
  BY <1>4 DEF Acked
<1>5. CASE IsAck(s, p) /\ s.waitingBreak
  <2>1. Acked(s, p) = [s EXCEPT !.breakReq = FALSE, !.waiting = FALSE,
                                !.waitingBreak = FALSE, !.data = <<>>]
    BY <1>5 DEF Acked
  <2>2. <<>> \in Seq(Items)
    BY EmptySeq
  <2> QED BY <1>1, <2>1, <2>2 DEF SenderOK, Sender
<1>6. CASE IsAck(s, p) /\ ~ s.waitingBreak
  <2>1. Acked(s, p) = [s EXCEPT !.buf = rest, !.before = left,
                                !.waiting = FALSE, !.data = <<>>]
    BY <1>6 DEF Acked
  <2>2. <<>> \in Seq(Items)
    BY EmptySeq
  <2> HIDE DEF rest, left
  <2> QED BY <1>1, <1>2, <1>3, <2>1, <2>2 DEF SenderOK, Sender
<1> QED BY <1>4, <1>5, <1>6

Receiver == [last : 0 .. SeqMax, count : Nat, out : Seq(Out)]

Bmc == [last : 0 .. SeqMax, accepted : Nat, in : Seq(Items),
        seq : 0 .. SeqMax, lastSeq : 0 .. SeqMax,
        data : Seq(Out), out : 0 .. MaxOutput]

\* TypeOK in the proof's own names.
TypeInv ==
  /\ SenderOK(snd) /\ rcv \in Receiver /\ Len(rcv.out) <= OutMax
  /\ open \in BOOLEAN
  /\ rx \in Seq(Packets(Out)) /\ Len(rx) <= 1
  /\ toConsole \in Seq(Packets(Out)) /\ Len(toConsole) <= Capacity
  /\ toBmc \in Seq(Packets(Items)) /\ Len(toBmc) <= Capacity
  /\ bmc \in Bmc
  /\ typed \in Seq(Items) /\ userOut \in Seq(Out)

LEMMA InitType == Init => TypeInv
<1> SUFFICES ASSUME Init PROVE TypeInv
  OBVIOUS
<1>1. <<>> \in Seq(Items) /\ <<>> \in Seq(Out)
      /\ <<>> \in Seq(Packets(Out)) /\ <<>> \in Seq(Packets(Items))
  BY EmptySeq
<1>2. Len(<<>>) = 0
  OBVIOUS
<1>3. 0 \in 0 .. SeqMax /\ 0 \in 0 .. MaxOutput /\ 0 \in 0 .. MaxRetransmission
      /\ 0 <= BufMax /\ 0 <= OutMax /\ 0 <= Capacity
  BY SolAssumption
<1>4. SenderOK(snd)
  BY <1>1, <1>2, <1>3 DEF Init, SenderOK, Sender
<1>5. rcv \in Receiver /\ Len(rcv.out) <= OutMax
  BY <1>1, <1>2, <1>3 DEF Init, Receiver
<1>6. bmc \in Bmc
  BY <1>1, <1>3 DEF Init, Bmc
<1> QED BY <1>1, <1>2, <1>3, <1>4, <1>5, <1>6 DEF TypeInv, Init, None

\* The sender's packet once more.
LEMMA ResendType ==
  ASSUME NEW s, SenderOK(s), toBmc \in Seq(Packets(Items)),
         Len(toBmc) <= Capacity, NEW c \in Sent(toBmc, SameAgain(s))
  PROVE  c \in Seq(Packets(Items)) /\ Len(c) <= Capacity
<1>1. SameAgain(s) \in Packets(Items)
  BY SenderPackets, SolAssumption DEF SenderOK
<1> QED BY <1>1, SentCases

\* The number of a sender's retransmissions.
LEMMA CountedType ==
  ASSUME NEW s, SenderOK(s), NEW n \in 0 .. MaxRetransmission, NEW w \in Nat,
         NEW q \in 0 .. SeqMax
  PROVE  /\ SenderOK([s EXCEPT !.retx = n])
         /\ SenderOK([s EXCEPT !.retx = n, !.wretx = w])
         /\ SenderOK([s EXCEPT !.retx = n, !.wretx = w, !.seq = q])
  BY DEF SenderOK, Sender

LEMMA ConsoleReadType == TypeInv /\ ConsoleRead => TypeInv'
<1> SUFFICES ASSUME TypeInv, ConsoleRead PROVE TypeInv'
  OBVIOUS
<1> USE DEF TypeInv
<1> DEFINE item == Len(typed) + 1
           all == Append(snd.buf, item)
<1>1. Len(typed) \in Nat /\ Len(typed) < MaxTyped /\ typed \in Seq(Items)
  BY DEF ConsoleRead
<1>2. item \in Items
  BY <1>1, SolAssumption, SMTT(30) DEF Items
<1>3. snd \in Sender /\ snd.buf \in Seq(Items) /\ Len(snd.buf) \in Nat
      /\ Len(snd.buf) <= BufMax /\ BufMax \in Nat
  BY SolAssumption DEF SenderOK, Sender
<1>4. all \in Seq(Items) /\ Len(all) = Len(snd.buf) + 1 /\ all # <<>>
  <2> HIDE DEF item, TypeInv
  <2> QED BY <1>2, <1>3, AppendProperties
<1>5. Tail(all) \in Seq(Items) /\ Len(Tail(all)) = Len(snd.buf)
  BY <1>3, <1>4, HeadTailProperties
<1>6. typed' = Append(typed, item) /\ UNCHANGED <<rcv, rx, toBmc, toConsole, bmc, userOut>>
  BY DEF ConsoleRead
<1>7. typed' \in Seq(Items)
  BY <1>1, <1>2, <1>6, AppendProperties
<1>8. \/ Len(all) > BufMax /\ snd' = [snd EXCEPT !.buf = Tail(all)] /\ open' = FALSE
      \/ ~ (Len(all) > BufMax) /\ snd' = [snd EXCEPT !.buf = all] /\ UNCHANGED open
  BY DEF ConsoleRead
<1> HIDE DEF all, item
<1>9. SenderOK(snd')
  <2>1. CASE snd' = [snd EXCEPT !.buf = Tail(all)]
    BY <1>3, <1>5, <2>1 DEF SenderOK, Sender
  <2>2. CASE ~ (Len(all) > BufMax) /\ snd' = [snd EXCEPT !.buf = all]
    <3>1. Len(all) <= BufMax
      BY <1>3, <1>4, <2>2
    <3> QED BY <1>3, <1>4, <2>2, <3>1 DEF SenderOK, Sender
  <2> QED BY <1>8, <2>1, <2>2
<1> QED BY <1>6, <1>7, <1>8, <1>9

LEMMA AsyncBreakType == TypeInv /\ AsyncBreak => TypeInv'
<1> SUFFICES ASSUME TypeInv, AsyncBreak PROVE TypeInv'
  OBVIOUS
<1> USE DEF TypeInv
<1>1. snd \in Sender /\ snd.buf \in Seq(Items) /\ Len(snd.buf) \in Nat
  BY DEF SenderOK, Sender
<1>2. snd' = [snd EXCEPT !.breakReq = TRUE, !.before = Len(snd.buf)]
      /\ typed' = Append(typed, Break) /\ Break \in Items
      /\ UNCHANGED <<rcv, open, rx, toBmc, toConsole, bmc, userOut>>
  BY DEF AsyncBreak, Items
<1>3. SenderOK(snd')
  BY <1>1, <1>2 DEF SenderOK, Sender
<1>4. typed' \in Seq(Items)
  BY <1>2, AppendProperties
<1> QED BY <1>2, <1>3, <1>4

LEMMA ConsoleWriteType == TypeInv /\ ConsoleWrite => TypeInv'
<1> SUFFICES ASSUME TypeInv, ConsoleWrite PROVE TypeInv'
  OBVIOUS
<1> USE DEF TypeInv
<1>1. rcv.out \in Seq(Out) /\ <<>> \in Seq(Out) /\ Len(<<>>) = 0 /\ 0 <= OutMax
  BY EmptySeq, SolAssumption DEF Receiver
<1>2. userOut' \in Seq(Out)
  BY <1>1, ConcatProperties DEF ConsoleWrite
<1>3. rcv' \in Receiver /\ Len(rcv'.out) <= OutMax
  BY <1>1 DEF ConsoleWrite, Receiver
<1> QED BY <1>2, <1>3 DEF ConsoleWrite

LEMMA RecvFromType == TypeInv /\ RecvFrom => TypeInv'
<1> SUFFICES ASSUME TypeInv, RecvFrom PROVE TypeInv'
  OBVIOUS
<1> USE DEF TypeInv
<1>1. PICK i \in 1 .. Len(toConsole) :
        /\ rx' = <<toConsole[i]>> /\ toConsole' = RemoveAt(toConsole, i)
        /\ UNCHANGED <<snd, rcv, open, toBmc, bmc, typed, userOut>>
  BY DEF RecvFrom
<1>2. toConsole[i] \in Packets(Out) /\ Len(toConsole) \in Nat /\ Capacity \in Nat
  BY SolAssumption, SMTT(30)
<1>3. rx' \in Seq(Packets(Out)) /\ Len(rx') <= 1
  BY <1>1, <1>2
<1>4. toConsole' \in Seq(Packets(Out)) /\ Len(toConsole') <= Capacity
  BY <1>1, <1>2, RemoveType
<1> QED BY <1>1, <1>3, <1>4

\* The sender puts its data, or a break, into a packet and sends it.
LEMMA SendDataType ==
  ASSUME NEW s, SenderOK(s), toBmc \in Seq(Packets(Items)),
         Len(toBmc) <= Capacity, NEW ack \in 0 .. SeqMax, NEW count \in Nat,
         NEW c \in Sent(toBmc, DataPacket(WithData(s), ack, count))
  PROVE  /\ SenderOK(WithData(s))
         /\ c \in Seq(Packets(Items)) /\ Len(c) <= Capacity
<1>1. SenderOK(WithData(s))
  BY WithDataType
<1>2. DataPacket(WithData(s), ack, count) \in Packets(Items)
  BY <1>1, SenderPackets DEF SenderOK
<1> QED BY <1>1, <1>2, SentCases

LEMMA SendBreakType ==
  ASSUME NEW s, SenderOK(s), toBmc \in Seq(Packets(Items)),
         Len(toBmc) <= Capacity, NEW c \in Sent(toBmc, BreakPacket(WithBreak(s)))
  PROVE  /\ SenderOK(WithBreak(s))
         /\ c \in Seq(Packets(Items)) /\ Len(c) <= Capacity
<1>1. SenderOK(WithBreak(s))
  BY WithBreakType
<1>2. 0 \in 0 .. SeqMax
  BY SolAssumption
<1>3. BreakPacket(WithBreak(s)) \in Packets(Items)
  BY <1>1, <1>2, SenderPackets DEF SenderOK
<1> QED BY <1>1, <1>3, SentCases

LEMMA SendPendingType == TypeInv /\ SendPending => TypeInv'
<1> SUFFICES ASSUME TypeInv, SendPending PROVE TypeInv'
  OBVIOUS
<1>0. 0 \in 0 .. SeqMax
  BY SolAssumption
<1>1. \/ /\ snd' = WithData(snd)
         /\ toBmc' \in Sent(toBmc, DataPacket(WithData(snd), 0, 0))
      \/ /\ snd' = WithBreak(snd)
         /\ toBmc' \in Sent(toBmc, BreakPacket(WithBreak(snd)))
  BY DEF SendPending
<1>2. SenderOK(snd') /\ toBmc' \in Seq(Packets(Items)) /\ Len(toBmc') <= Capacity
  BY <1>0, <1>1, SendDataType, SendBreakType DEF TypeInv
<1> QED BY <1>2 DEF TypeInv, SendPending

\* What a retransmission does to the sender: another count and perhaps, with
\* the workaround, another number; or nothing, and the session is closed.
LEMMA RetransmitCases ==
  ASSUME TypeInv, Retransmit
  PROVE  /\ SenderOK(snd')
         /\ \/ /\ toBmc' \in Sent(toBmc, SameAgain(snd')) /\ open' = open
               /\ \/ snd' = [snd EXCEPT !.retx = snd.retx + 1]
                  \/ IncrementWorkaround
            \/ snd' = snd /\ open' = FALSE /\ toBmc' = toBmc
<1> DEFINE n == snd.retx + 1
           w == snd.wretx + 1
           q == IF w = 1 THEN NextSeq(snd.seq) ELSE snd.seq
<1>0. SenderOK(snd) /\ snd \in Sender /\ snd.retx \in 0 .. MaxRetransmission
      /\ snd.wretx \in Nat /\ snd.seq \in 0 .. SeqMax
  BY DEF TypeInv, SenderOK, Sender
<1>1. n \in Nat /\ w \in Nat /\ q \in 0 .. SeqMax /\ MaxRetransmission \in Nat
  BY <1>0, NextSeqType, SolAssumption
<1>2. CASE /\ n <= MaxRetransmission
           /\ snd' = [snd EXCEPT !.retx = n]
           /\ toBmc' \in Sent(toBmc, SameAgain(snd')) /\ UNCHANGED open
  <2>1. n \in 0 .. MaxRetransmission
    BY <1>1, <1>2
  <2>2. SenderOK([snd EXCEPT !.retx = n])
    BY <1>0, <1>1, <2>1, CountedType
  <2> QED BY <1>2, <2>2
<1>3. CASE /\ IncrementWorkaround
           /\ snd' = [[[snd EXCEPT !.retx = n] EXCEPT !.wretx = w,
                         !.seq = IF w = 1 THEN NextSeq(@) ELSE @]
                        EXCEPT !.retx = MaxRetransmission]
           /\ toBmc' \in Sent(toBmc, SameAgain(snd')) /\ UNCHANGED open
  <2>1. snd' = [snd EXCEPT !.retx = MaxRetransmission, !.wretx = w, !.seq = q]
    <3>1. snd' = [[[snd EXCEPT !.retx = n] EXCEPT !.wretx = w, !.seq = q]
                   EXCEPT !.retx = MaxRetransmission]
      BY <1>0, <1>3 DEF Sender
    <3> HIDE DEF n, w, q
    <3> QED BY <1>0, <3>1 DEF Sender
  <2> HIDE DEF w, q
  <2>2. SenderOK([snd EXCEPT !.retx = MaxRetransmission, !.wretx = w, !.seq = q])
    <3>1. MaxRetransmission \in 0 .. MaxRetransmission
      BY <1>1
    <3> QED BY <1>0, <1>1, <3>1, CountedType
  <2> QED BY <1>3, <2>1, <2>2
<1>4. CASE snd' = snd /\ open' = FALSE /\ UNCHANGED toBmc
  BY <1>0, <1>4
<1> QED BY <1>2, <1>3, <1>4 DEF Retransmit

LEMMA RetransmitType == TypeInv /\ Retransmit => TypeInv'
<1> SUFFICES ASSUME TypeInv, Retransmit PROVE TypeInv'
  OBVIOUS
<1>1. SenderOK(snd') /\ open' \in BOOLEAN
      /\ toBmc' \in Seq(Packets(Items)) /\ Len(toBmc') <= Capacity
  BY RetransmitCases, ResendType DEF TypeInv
<1> QED BY <1>1 DEF TypeInv, Retransmit

\* A keepalive is a packet like any other: of an empty buffer, or of a NUL
\* that was written into it.
LEMMA KeepaliveCases ==
  ASSUME TypeInv, SendSerialKeepalive
  PROVE  \E s : /\ SenderOK(s) /\ snd' = WithData(s)
                /\ toBmc' \in Sent(toBmc, DataPacket(WithData(s), 0, 0))
                /\ \/ s = snd /\ typed' = typed
                   \/ /\ s = [snd EXCEPT !.buf = <<0>>]
                      /\ Len(typed) < MaxTyped /\ typed' = Append(typed, 0)
<1>1. CASE SerialKeepalive = "nul"
  <2>1. <<0>> \in Seq(Items) /\ Len(<<0>>) = 1 /\ 1 <= BufMax
    <3>1. 0 \in Items
      BY SolAssumption DEF Items
    <3> QED BY <3>1, SolAssumption
  <2>2. SenderOK([snd EXCEPT !.buf = <<0>>])
    BY <2>1 DEF TypeInv, SenderOK, Sender
  <2> WITNESS [snd EXCEPT !.buf = <<0>>]
  <2> QED BY <1>1, <2>2 DEF SendSerialKeepalive
<1>2. CASE SerialKeepalive # "nul"
  <2> WITNESS snd
  <2> QED BY <1>2 DEF SendSerialKeepalive, TypeInv
<1> QED BY <1>1, <1>2

LEMMA KeepaliveType == TypeInv /\ SendSerialKeepalive => TypeInv'
<1> SUFFICES ASSUME TypeInv, SendSerialKeepalive PROVE TypeInv'
  OBVIOUS
<1>1. PICK s : /\ SenderOK(s) /\ snd' = WithData(s)
               /\ toBmc' \in Sent(toBmc, DataPacket(WithData(s), 0, 0))
               /\ typed' = typed \/ typed' = Append(typed, 0)
  BY KeepaliveCases
<1>2. 0 \in 0 .. SeqMax /\ 0 \in Items
  BY SolAssumption DEF Items
<1>3. SenderOK(snd') /\ toBmc' \in Seq(Packets(Items)) /\ Len(toBmc') <= Capacity
  BY <1>1, <1>2, SendDataType DEF TypeInv
<1>4. typed' \in Seq(Items)
  <2>1. typed \in Seq(Items)
    BY DEF TypeInv
  <2>2. Append(typed, 0) \in Seq(Items)
    BY <2>1, <1>2, AppendProperties
  <2> QED BY <1>1, <2>1, <2>2
<1> QED BY <1>3, <1>4 DEF TypeInv, SendSerialKeepalive

\* The packet SolReceive processes, and its sender once the packet's
\* acknowledgement is handled.
Taken == rx[1]
Settled == Acked([snd EXCEPT !.retx = 0, !.wretx = 0], Taken)
AllOut == rcv.out \o Fresh(Taken)

LEMMA TakenType ==
  ASSUME TypeInv, SolReceive
  PROVE  /\ Taken \in Packets(Out) /\ SenderOK(Settled)
         /\ SenderOK([snd EXCEPT !.retx = 0, !.wretx = 0])
         /\ Fresh(Taken) \in Seq(Out) /\ AllOut \in Seq(Out)
         /\ Len(rx) = 1
<1>1. rx # <<>> /\ rx \in Seq(Packets(Out)) /\ Len(rx) <= 1
  BY DEF TypeInv, SolReceive, None
<1>2. Len(rx) = 1 /\ Taken \in Packets(Out)
  <2>1. Len(rx) = 1
    BY <1>1, EmptySeq
  <2> QED BY <1>1, <2>1 DEF Taken
<1>3. 0 \in 0 .. MaxRetransmission /\ SenderOK(snd) /\ 0 \in 0 .. SeqMax
  BY SolAssumption DEF TypeInv
<1>4. SenderOK([snd EXCEPT !.retx = 0, !.wretx = 0])
  BY <1>3, CountedType
<1>5. SenderOK(Settled)
  BY <1>2, <1>4, AckedType DEF Settled
<1>6. Taken.data \in Seq(Out) /\ rcv.count \in Nat /\ rcv.out \in Seq(Out)
  BY <1>2 DEF Packets, TypeInv, Receiver
<1>7. Fresh(Taken) \in Seq(Out)
  <2>1. SubSeq(Taken.data, rcv.count + 1, Len(Taken.data)) \in Seq(Out)
    BY <1>6, SubSeqType
  <2> QED BY <1>6, <2>1 DEF Fresh
<1>8. AllOut \in Seq(Out)
  BY <1>6, <1>7, ConcatProperties DEF AllOut
<1> QED BY <1>2, <1>4, <1>5, <1>7, <1>8

\* What _sol_bmc_to_remote_console_packet() does, case by case: the session is
\* closed; a packet with output is acknowledged, with data of the sender's own
\* or without; a packet without output lets the sender go on.
LEMMA ReceiveCases ==
  ASSUME TypeInv, SolReceive
  PROVE  /\ open /\ rx' = <<>> /\ UNCHANGED <<toConsole, bmc, typed, userOut>>
         /\ \/ /\ open' = FALSE /\ toBmc' = toBmc
               /\ snd' \in {[snd EXCEPT !.retx = 0, !.wretx = 0], Settled}
               /\ rcv' \in {rcv, [rcv EXCEPT !.out = SubSeq(AllOut,
                                   Len(AllOut) - OutMax + 1, Len(AllOut))]}
               /\ rcv' = rcv \/ Len(AllOut) > OutMax
            \/ /\ open' = open /\ Taken.seq # 0 /\ Len(AllOut) <= OutMax
               /\ rcv' = [last |-> Taken.seq, count |-> Len(Taken.data),
                          out |-> AllOut]
               /\ \/ /\ ~ Settled.waiting /\ Settled.buf # <<>>
                     /\ snd' = WithData(Settled)
                     /\ toBmc' \in Sent(toBmc, DataPacket(WithData(Settled),
                                          Taken.seq, Len(Taken.data)))
                  \/ /\ snd' = Settled
                     /\ toBmc' \in Sent(toBmc,
                          Packet(0, Taken.seq, Len(Taken.data), FALSE, <<>>))
            \/ /\ open' = open /\ Taken.seq = 0 /\ rcv' = rcv
               /\ \/ /\ CanSendData(Settled) /\ ~ Settled.waiting
                     /\ snd' = WithData(Settled)
                     /\ toBmc' \in Sent(toBmc, DataPacket(WithData(Settled), 0, 0))
                  \/ /\ Settled.breakReq
                     /\ snd' = WithBreak(Settled)
                     /\ toBmc' \in Sent(toBmc, BreakPacket(WithBreak(Settled)))
                  \/ snd' = Settled /\ toBmc' = toBmc
  BY DEF SolReceive, Taken, Settled, AllOut, None

LEMMA SolReceiveType == TypeInv /\ SolReceive => TypeInv'
<1> SUFFICES ASSUME TypeInv, SolReceive PROVE TypeInv'
  OBVIOUS
<1>0. /\ Taken \in Packets(Out) /\ SenderOK(Settled)
      /\ SenderOK([snd EXCEPT !.retx = 0, !.wretx = 0])
      /\ AllOut \in Seq(Out) /\ 0 \in 0 .. SeqMax
      /\ Taken.seq \in 0 .. SeqMax /\ Taken.data \in Seq(Out)
      /\ Len(AllOut) \in Nat /\ OutMax \in Nat
  BY TakenType, SolAssumption DEF Packets
<1>a. /\ toBmc \in Seq(Packets(Items)) /\ Len(toBmc) <= Capacity
      /\ rcv \in Receiver /\ Len(rcv.out) <= OutMax
  BY DEF TypeInv
<1>1. rx' \in Seq(Packets(Out)) /\ Len(rx') <= 1
      /\ UNCHANGED <<toConsole, bmc, typed, userOut>>
  <2>1. <<>> \in Seq(Packets(Out)) /\ Len(<<>>) <= 1
    BY EmptySeq
  <2> QED BY <2>1, ReceiveCases
<1>2. open' \in BOOLEAN
  BY ReceiveCases DEF TypeInv
<1>3. SenderOK(snd') /\ toBmc' \in Seq(Packets(Items)) /\ Len(toBmc') <= Capacity
  <2>1. Len(Taken.data) \in Nat
    BY <1>0
  <2>2. Packet(0, Taken.seq, Len(Taken.data), FALSE, <<>>) \in Packets(Items)
    <3>1. <<>> \in Seq(Items)
      BY EmptySeq
    <3> QED BY <1>0, <2>1, <3>1, PacketType
  <2>3. ASSUME NEW ack \in 0 .. SeqMax, NEW n \in Nat, snd' = WithData(Settled),
               toBmc' \in Sent(toBmc, DataPacket(WithData(Settled), ack, n))
        PROVE  SenderOK(snd') /\ toBmc' \in Seq(Packets(Items)) /\ Len(toBmc') <= Capacity
    BY <1>0, <1>a, <2>3, SendDataType
  <2>4. ASSUME snd' = WithBreak(Settled),
               toBmc' \in Sent(toBmc, BreakPacket(WithBreak(Settled)))
        PROVE  SenderOK(snd') /\ toBmc' \in Seq(Packets(Items)) /\ Len(toBmc') <= Capacity
    BY <1>0, <1>a, <2>4, SendBreakType
  <2>5. ASSUME toBmc' \in Sent(toBmc, Packet(0, Taken.seq, Len(Taken.data), FALSE, <<>>))
        PROVE  toBmc' \in Seq(Packets(Items)) /\ Len(toBmc') <= Capacity
    <3> DEFINE ans == Packet(0, Taken.seq, Len(Taken.data), FALSE, <<>>)
    <3>1. ans \in Packets(Items) /\ toBmc' \in Sent(toBmc, ans)
      BY <2>2, <2>5
    <3> HIDE DEF ans
    <3> QED BY <1>a, <3>1, SentCases
  <2> QED BY <1>0, <1>a, <2>1, <2>3, <2>4, <2>5, ReceiveCases
<1>4. rcv' \in Receiver /\ Len(rcv'.out) <= OutMax
  <2>1. CASE rcv' = rcv
    BY <1>a, <2>1
  <2>2. CASE rcv' = [rcv EXCEPT !.out = SubSeq(AllOut, Len(AllOut) - OutMax + 1, Len(AllOut))]
             /\ Len(AllOut) > OutMax
    <3> DEFINE kept == SubSeq(AllOut, Len(AllOut) - OutMax + 1, Len(AllOut))
    <3>1. kept \in Seq(Out) /\ Len(kept) = OutMax
      <4>1. ASSUME NEW n \in Nat, n > OutMax
            PROVE  /\ n - OutMax + 1 \in Nat \ {0}
                   /\ (IF n - OutMax + 1 <= n THEN n - (n - OutMax + 1) + 1 ELSE 0) = OutMax
        BY <4>1, SolAssumption
      <4> QED BY <1>0, <2>2, <4>1, SubSeqType
    <3>2. rcv' = [rcv EXCEPT !.out = kept]
      BY <2>2
    <3> HIDE DEF kept
    <3>3. rcv' \in Receiver /\ rcv'.out = kept
      BY <1>a, <3>1, <3>2 DEF Receiver
    <3> QED BY <1>0, <3>1, <3>3
  <2>3. CASE rcv' = [last |-> Taken.seq, count |-> Len(Taken.data), out |-> AllOut]
             /\ Len(AllOut) <= OutMax
    BY <1>0, <2>3 DEF Receiver
  <2> QED BY <2>1, <2>2, <2>3, ReceiveCases
<1> QED BY <1>1, <1>2, <1>3, <1>4 DEF TypeInv

\* The BMC after an acknowledgement in p of its own packet.
LEMMA BmcAckedType ==
  ASSUME NEW p
  PROVE  /\ bmc \in Bmc => BmcAcked(bmc, p) \in Bmc
         /\ bmc \in Bmc => /\ BmcAcked(bmc, p).last = bmc.last
                           /\ BmcAcked(bmc, p).accepted = bmc.accepted
                           /\ BmcAcked(bmc, p).in = bmc.in
                           /\ BmcAcked(bmc, p).lastSeq = bmc.lastSeq
                           /\ BmcAcked(bmc, p).out = bmc.out
<1> SUFFICES ASSUME bmc \in Bmc
             PROVE  /\ BmcAcked(bmc, p) \in Bmc
                    /\ BmcAcked(bmc, p).last = bmc.last
                    /\ BmcAcked(bmc, p).accepted = bmc.accepted
                    /\ BmcAcked(bmc, p).in = bmc.in
                    /\ BmcAcked(bmc, p).lastSeq = bmc.lastSeq
                    /\ BmcAcked(bmc, p).out = bmc.out
  OBVIOUS
<1>1. <<>> \in Seq(Out) /\ 0 \in 0 .. SeqMax
  BY EmptySeq, SolAssumption
<1>2. BmcAcked(bmc, p) = bmc \/ BmcAcked(bmc, p) = [bmc EXCEPT !.seq = 0, !.data = <<>>]
  BY DEF BmcAcked
<1> QED BY <1>1, <1>2 DEF Bmc

\* The BMC b after k characters of a packet p it had not seen.
Accepting(b, p, k) ==
  [b EXCEPT !.last = p.seq, !.accepted = k,
            !.in = @ \o SubSeq(p.data, 1, k)
                     \o (IF p.op THEN <<Break>> ELSE <<>>)]

LEMMA AcceptingType ==
  ASSUME NEW b \in Bmc, NEW p \in Packets(Items), NEW k \in 0 .. Len(p.data)
  PROVE  /\ Accepting(b, p, k) \in Bmc
         /\ Accepting(b, p, k).last = p.seq /\ Accepting(b, p, k).accepted = k
         /\ Accepting(b, p, k).in = b.in \o SubSeq(p.data, 1, k)
                                      \o (IF p.op THEN <<Break>> ELSE <<>>)
         /\ Accepting(b, p, k).seq = b.seq /\ Accepting(b, p, k).data = b.data
         /\ Accepting(b, p, k).lastSeq = b.lastSeq
         /\ Accepting(b, p, k).out = b.out
<1> DEFINE got == SubSeq(p.data, 1, k)
           brk == IF p.op THEN <<Break>> ELSE <<>>
           in2 == b.in \o got \o brk
<1>1. p.data \in Seq(Items) /\ p.seq \in 0 .. SeqMax /\ b.in \in Seq(Items)
      /\ k \in Nat /\ k <= Len(p.data)
  BY DEF Packets, Bmc
<1>2. got \in Seq(Items)
  BY <1>1, SubSeqType
<1>3. brk \in Seq(Items)
  <2>1. Break \in Items
    BY DEF Items
  <2>2. <<Break>> \in Seq(Items) /\ <<>> \in Seq(Items)
    BY <2>1, EmptySeq
  <2> QED BY <2>2
<1>4. Accepting(b, p, k) = [b EXCEPT !.last = p.seq, !.accepted = k, !.in = in2]
  BY DEF Accepting
<1>5. in2 \in Seq(Items)
  <2> HIDE DEF got, brk
  <2>1. b.in \o got \in Seq(Items)
    BY <1>1, <1>2, ConcatProperties
  <2> QED BY <1>3, <2>1, ConcatProperties
<1>6. in2 = b.in \o SubSeq(p.data, 1, k) \o (IF p.op THEN <<Break>> ELSE <<>>)
  OBVIOUS
<1> HIDE DEF in2
<1>7. [b EXCEPT !.last = p.seq, !.accepted = k, !.in = in2] \in Bmc
  BY <1>1, <1>5 DEF Bmc
<1> QED BY <1>1, <1>4, <1>6, <1>7 DEF Bmc

LEMMA BmcPacketType ==
  ASSUME NEW b \in Bmc, NEW ack \in 0 .. SeqMax, NEW n \in Nat
  PROVE  /\ BmcPacket(b, ack, n) \in Packets(Out)
         /\ Packet(0, ack, n, FALSE, <<>>) \in Packets(Out)
<1>1. b.seq \in 0 .. SeqMax /\ b.data \in Seq(Out)
  BY DEF Bmc
<1>2. <<>> \in Seq(Out) /\ 0 \in 0 .. SeqMax
  BY EmptySeq, SolAssumption
<1> QED BY <1>1, <1>2, PacketType DEF BmcPacket

\* What the BMC does with packet i: a packet without a number is only an
\* acknowledgement; any other is answered, and its data accepted once.
Receives(i) ==
  LET p == toBmc[i]
      b == BmcAcked(bmc, p)
  IN  /\ open /\ (i = 1 \/ Reordering) /\ toBmc' = RemoveAt(toBmc, i)
      /\ \/ p.seq = 0 /\ bmc' = b /\ toConsole' = toConsole
         \/ /\ p.seq # 0
            /\ \/ p.seq = b.last /\ bmc' = b
               \/ /\ p.seq # b.last
                  /\ \E k \in 0 .. Len(p.data) : bmc' = Accepting(b, p, k)
            /\ \/ toConsole' \in Sent(toConsole,
                    BmcPacket(bmc', p.seq, bmc'.accepted))
               \/ toConsole' \in Sent(toConsole,
                    Packet(0, p.seq, bmc'.accepted, FALSE, <<>>))
      /\ UNCHANGED <<snd, rcv, open, rx, typed, userOut>>

LEMMA BmcReceiveCases ==
  ASSUME TypeInv, BmcReceive
  PROVE  \E i \in 1 .. Len(toBmc) : Receives(i)
<1>1. PICK i \in 1 .. Len(toBmc) :
        LET p == toBmc[i]
            b == BmcAcked(bmc, p)
            new == p.seq # b.last
        IN  /\ open /\ (i = 1 \/ Reordering)
            /\ toBmc' = RemoveAt(toBmc, i)
            /\ IF p.seq = 0 THEN bmc' = b /\ UNCHANGED toConsole
               ELSE \E k \in (IF p.data = <<>> THEN 0 ELSE MinAccept) .. Len(p.data),
                       piggyback \in BOOLEAN :
                      /\ bmc' = IF ~ new THEN b ELSE Accepting(b, p, k)
                      /\ toConsole' \in Sent(toConsole,
                           IF piggyback THEN BmcPacket(bmc', p.seq, bmc'.accepted)
                           ELSE Packet(0, p.seq, bmc'.accepted, FALSE, <<>>))
            /\ UNCHANGED <<snd, rcv, open, rx, typed, userOut>>
  BY DEF BmcReceive, Accepting
<1> DEFINE p == toBmc[i]
           b == BmcAcked(bmc, p)
<1>2. CASE p.seq = 0
  BY <1>1, <1>2 DEF Receives
<1>3. CASE p.seq # 0
  <2>1. PICK k \in (IF p.data = <<>> THEN 0 ELSE MinAccept) .. Len(p.data),
             piggyback \in BOOLEAN :
          /\ bmc' = IF ~ (p.seq # b.last) THEN b ELSE Accepting(b, p, k)
          /\ toConsole' \in Sent(toConsole,
               IF piggyback THEN BmcPacket(bmc', p.seq, bmc'.accepted)
               ELSE Packet(0, p.seq, bmc'.accepted, FALSE, <<>>))
    BY <1>1, <1>3
  <2>2. k \in 0 .. Len(p.data)
    BY SolAssumption
  <2> HIDE DEF p, b
  <2>3. \/ p.seq = b.last /\ bmc' = b
        \/ p.seq # b.last /\ \E n \in 0 .. Len(p.data) : bmc' = Accepting(b, p, n)
    BY <2>1, <2>2
  <2>4. \/ toConsole' \in Sent(toConsole, BmcPacket(bmc', p.seq, bmc'.accepted))
        \/ toConsole' \in Sent(toConsole, Packet(0, p.seq, bmc'.accepted, FALSE, <<>>))
    BY <2>1
  <2> QED BY <1>1, <1>3, <2>3, <2>4 DEF p, b, Receives
<1> QED BY <1>2, <1>3

LEMMA BmcReceiveType == TypeInv /\ BmcReceive => TypeInv'
<1> SUFFICES ASSUME TypeInv, BmcReceive PROVE TypeInv'
  OBVIOUS
<1>0. /\ toBmc \in Seq(Packets(Items)) /\ Len(toBmc) <= Capacity /\ bmc \in Bmc
      /\ toConsole \in Seq(Packets(Out)) /\ Len(toConsole) <= Capacity
      /\ Capacity \in Nat
  BY SolAssumption DEF TypeInv
<1>1. PICK i \in 1 .. Len(toBmc) : Receives(i)
  BY BmcReceiveCases
<1> DEFINE p == toBmc[i]
           b == BmcAcked(bmc, p)
<1>2. p \in Packets(Items) /\ p.seq \in 0 .. SeqMax
  <2>1. p \in Packets(Items)
    BY <1>0
  <2> QED BY <2>1 DEF Packets
<1>3. toBmc' \in Seq(Packets(Items)) /\ Len(toBmc') <= Capacity
  <2>1. RemoveAt(toBmc, i) \in Seq(Packets(Items)) /\ Len(RemoveAt(toBmc, i)) = Len(toBmc) - 1
    BY <1>0, RemoveType
  <2>2. Len(toBmc) \in Nat
    BY <1>0
  <2>3. toBmc' = RemoveAt(toBmc, i)
    BY <1>1 DEF Receives
  <2> QED BY <1>0, <2>1, <2>2, <2>3
<1>4. b \in Bmc
  BY <1>0, BmcAckedType
<1>5. bmc' \in Bmc
  <2>1. bmc' = b \/ \E k \in 0 .. Len(p.data) : bmc' = Accepting(b, p, k)
    BY <1>1 DEF Receives
  <2> HIDE DEF b, p
  <2>2. ASSUME NEW k \in 0 .. Len(p.data) PROVE Accepting(b, p, k) \in Bmc
    BY <1>2, <1>4, AcceptingType
  <2> QED BY <1>4, <2>1, <2>2
<1>6. toConsole' \in Seq(Packets(Out)) /\ Len(toConsole') <= Capacity
  <2>1. bmc'.accepted \in Nat
    BY <1>5 DEF Bmc
  <2>2. BmcPacket(bmc', p.seq, bmc'.accepted) \in Packets(Out)
        /\ Packet(0, p.seq, bmc'.accepted, FALSE, <<>>) \in Packets(Out)
    BY <1>2, <1>5, <2>1, BmcPacketType
  <2> DEFINE full == BmcPacket(bmc', p.seq, bmc'.accepted)
             bare == Packet(0, p.seq, bmc'.accepted, FALSE, <<>>)
  <2>3. toConsole' = toConsole \/ toConsole' \in Sent(toConsole, full)
        \/ toConsole' \in Sent(toConsole, bare)
    BY <1>1 DEF Receives
  <2>4. full \in Packets(Out) /\ bare \in Packets(Out)
    BY <2>2
  <2> HIDE DEF full, bare
  <2> QED BY <1>0, <2>3, <2>4, SentCases
<1> QED BY <1>1, <1>3, <1>5, <1>6 DEF TypeInv, Receives

\* New output of the BMC.
LEMMA BmcOutputStep ==
  ASSUME TypeInv, BmcOutput
  PROVE  /\ bmc' \in Bmc
         /\ bmc'.out = bmc.out + 1 /\ bmc'.data = Append(bmc.data, bmc.out + 1)
         /\ bmc'.seq = IF bmc.seq = 0 THEN NextSeq(bmc.lastSeq) ELSE bmc.seq
         /\ bmc'.lastSeq = IF bmc.seq = 0 THEN NextSeq(bmc.lastSeq) ELSE bmc.lastSeq
         /\ bmc'.last = bmc.last /\ bmc'.accepted = bmc.accepted
         /\ bmc'.in = bmc.in
<1> DEFINE x == bmc.out + 1
           d == Append(bmc.data, x)
           q == IF bmc.seq = 0 THEN NextSeq(bmc.lastSeq) ELSE bmc.seq
           l == IF bmc.seq = 0 THEN NextSeq(bmc.lastSeq) ELSE bmc.lastSeq
<1>1. /\ bmc \in Bmc /\ bmc.out \in 0 .. MaxOutput /\ bmc.data \in Seq(Out)
      /\ bmc.seq \in 0 .. SeqMax /\ bmc.lastSeq \in 0 .. SeqMax
      /\ bmc.out < MaxOutput /\ MaxOutput \in Nat
  BY SolAssumption DEF TypeInv, Bmc, BmcOutput
<1>2. x \in Out /\ x \in 0 .. MaxOutput
  BY <1>1 DEF Out
<1>3. d \in Seq(Out)
  <2> HIDE DEF x
  <2> QED BY <1>1, <1>2, AppendProperties
<1>4. q \in 0 .. SeqMax /\ l \in 0 .. SeqMax
  BY <1>1, NextSeqType
<1>5. bmc' = [bmc EXCEPT !.out = x, !.data = d, !.seq = q, !.lastSeq = l]
  BY <1>1 DEF BmcOutput, Bmc
<1>6. /\ x = bmc.out + 1 /\ d = Append(bmc.data, bmc.out + 1)
      /\ q = IF bmc.seq = 0 THEN NextSeq(bmc.lastSeq) ELSE bmc.seq
      /\ l = IF bmc.seq = 0 THEN NextSeq(bmc.lastSeq) ELSE bmc.lastSeq
  OBVIOUS
<1> HIDE DEF x, d, q, l
<1>7. bmc' \in Bmc
  BY <1>1, <1>2, <1>3, <1>4, <1>5 DEF Bmc
<1>8. /\ bmc'.out = x /\ bmc'.data = d /\ bmc'.seq = q /\ bmc'.lastSeq = l
      /\ bmc'.last = bmc.last /\ bmc'.accepted = bmc.accepted /\ bmc'.in = bmc.in
  BY <1>1, <1>5 DEF Bmc
<1> QED BY <1>6, <1>7, <1>8

LEMMA DeactivateType ==
  Packet(0, 0, 0, TRUE, <<>>) \in Packets(Out)
<1>1. <<>> \in Seq(Out) /\ 0 \in 0 .. SeqMax
  BY EmptySeq, SolAssumption
<1> QED BY <1>1, PacketType

LEMMA BmcSendsType ==
  TypeInv /\ (BmcOutput \/ BmcRetransmit \/ BmcDeactivate) => TypeInv'
<1> SUFFICES ASSUME TypeInv, BmcOutput \/ BmcRetransmit \/ BmcDeactivate
             PROVE  TypeInv'
  OBVIOUS
<1>0. toConsole \in Seq(Packets(Out)) /\ Len(toConsole) <= Capacity /\ bmc \in Bmc
      /\ 0 \in 0 .. SeqMax
  BY SolAssumption DEF TypeInv
<1>1. bmc' \in Bmc
  BY <1>0, BmcOutputStep DEF BmcRetransmit, BmcDeactivate
<1>2. PICK p \in Packets(Out) : toConsole' \in Sent(toConsole, p)
  BY <1>0, <1>1, BmcPacketType, DeactivateType
     DEF BmcOutput, BmcRetransmit, BmcDeactivate
<1>3. toConsole' \in Seq(Packets(Out)) /\ Len(toConsole') <= Capacity
  BY <1>0, <1>2, SentCases
<1> QED BY <1>1, <1>3 DEF TypeInv, BmcOutput, BmcRetransmit, BmcDeactivate

LEMMA TypeStep == TypeInv /\ [Next]_vars => TypeInv'
<1> SUFFICES ASSUME TypeInv, [Next]_vars PROVE TypeInv'
  OBVIOUS
<1>1. CASE UNCHANGED vars
  BY <1>1 DEF vars, TypeInv
<1> QED BY <1>1, ConsoleReadType, AsyncBreakType, ConsoleWriteType, RecvFromType,
           SendPendingType, RetransmitType, KeepaliveType, SolReceiveType,
           BmcReceiveType, BmcSendsType DEF Next

\* The types, for every instance.
LEMMA SolTypeInv == Spec => []TypeInv
  BY InitType, TypeStep, PTL DEF Spec

\* Every variable keeps its type and every buffer its size: the sender's
\* buffer never holds more than CONSOLE_REMOTE_CONSOLE_TO_BMC_BUF_MAX bytes,
\* nor the output buffer more than its own limit, whatever is typed, lost or
\* retransmitted, and a channel never more than its capacity.
THEOREM SolTypeCorrect == Spec => []TypeOK
<1>1. TypeInv => TypeOK
  BY DEF TypeInv, TypeOK, SenderOK, Receiver, Bmc, Out
<1> QED BY <1>1, SolTypeInv, PTL

-----------------------------------------------------------------------------
(* The channels. *)

\* What is under way to the console: the packet it has read and not processed
\* yet, and the ones in flight.
Back == rx \o toConsole

LEMMA BackType == TypeInv => Back \in Seq(Packets(Out))
  BY ConcatProperties DEF TypeInv, Back

\* A packet read from the socket takes the place of one not yet processed.
LEMMA BackRecv ==
  ASSUME TypeInv, ~ Reordering, RecvFrom
  PROVE  Len(rx) \in Nat /\ Suffix(Back', Back, Len(rx))
<1> DEFINE P == Packets(Out)
<1>0. rx \in Seq(P) /\ toConsole \in Seq(P) /\ Len(rx) \in Nat /\ Len(toConsole) \in Nat
  BY DEF TypeInv
<1>1. Len(toConsole) > 0 /\ rx' = <<toConsole[1]>> /\ toConsole' = RemoveAt(toConsole, 1)
  BY <1>0 DEF RecvFrom
<1>2. toConsole' \in Seq(P) /\ Suffix(toConsole', toConsole, 1)
  BY <1>0, <1>1, RemoveHead
<1>3. rx' \in Seq(P) /\ Len(rx') = 1 /\ rx'[1] = toConsole[1]
  BY <1>0, <1>1
<1> HIDE DEF P
<1>4. /\ Len(Back) = Len(rx) + Len(toConsole)
      /\ \A i \in 1 .. Len(toConsole) : Back[i + Len(rx)] = toConsole[i]
  <2>1. /\ Len(Back) = Len(rx) + Len(toConsole)
        /\ \A i \in 1 .. Len(rx) + Len(toConsole) : Back[i] =
             IF i <= Len(rx) THEN rx[i] ELSE toConsole[i - Len(rx)]
    BY <1>0, ConcatProperties DEF Back
  <2>2. ASSUME NEW i \in 1 .. Len(toConsole)
        PROVE  Back[i + Len(rx)] = toConsole[i]
    <3>1. i + Len(rx) \in 1 .. Len(rx) + Len(toConsole) /\ ~ (i + Len(rx) <= Len(rx))
          /\ i + Len(rx) - Len(rx) = i
      BY <1>0
    <3> QED BY <2>1, <3>1
  <2> QED BY <2>1, <2>2
<1>5. /\ Len(Back') = Len(toConsole)
      /\ \A i \in 1 .. Len(toConsole) : Back'[i] = toConsole[i]
  <2>1. /\ Len(Back') = 1 + Len(toConsole')
        /\ \A i \in 1 .. 1 + Len(toConsole') : Back'[i] =
             IF i <= 1 THEN rx'[i] ELSE toConsole'[i - 1]
    BY <1>2, <1>3, ConcatProperties DEF Back
  <2>2. Len(toConsole') \in Nat /\ Len(toConsole) = Len(toConsole') + 1
        /\ \A i \in 1 .. Len(toConsole') : toConsole'[i] = toConsole[i + 1]
    BY <1>2 DEF Suffix
  <2>3. ASSUME NEW i \in 1 .. Len(toConsole) PROVE Back'[i] = toConsole[i]
    <3>1. CASE i = 1
      BY <1>3, <2>1, <2>2, <3>1
    <3>2. CASE i # 1
      <4>1. i - 1 \in 1 .. Len(toConsole') /\ (i - 1) + 1 = i /\ ~ (i <= 1)
            /\ i \in 1 .. 1 + Len(toConsole')
        BY <2>2, <3>2
      <4> QED BY <2>1, <2>2, <4>1
    <3> QED BY <3>1, <3>2
  <2> QED BY <2>1, <2>2, <2>3
<1> QED BY <1>0, <1>4, <1>5 DEF Suffix

\* The packet that is processed is the first one of Back.
LEMMA BackTake ==
  ASSUME TypeInv, SolReceive
  PROVE  /\ Suffix(Back', Back, 1) /\ Len(Back) > 0 /\ Back[1] = Taken
<1> DEFINE P == Packets(Out)
<1>0. rx \in Seq(P) /\ toConsole \in Seq(P) /\ Len(rx) = 1 /\ Len(toConsole) \in Nat
  BY TakenType DEF TypeInv
<1>1. rx' = <<>> /\ toConsole' = toConsole
  BY DEF SolReceive, None
<1> HIDE DEF P
<1>2. Back' = toConsole
  BY <1>0, <1>1, ConcatEmptySeq DEF Back
<1>3. /\ Len(Back) = 1 + Len(toConsole)
      /\ \A i \in 1 .. 1 + Len(toConsole) : Back[i] =
           IF i <= 1 THEN rx[i] ELSE toConsole[i - 1]
  <2>1. /\ Len(Back) = Len(rx) + Len(toConsole)
        /\ \A i \in 1 .. Len(rx) + Len(toConsole) : Back[i] =
             IF i <= Len(rx) THEN rx[i] ELSE toConsole[i - Len(rx)]
    BY <1>0, ConcatProperties DEF Back
  <2> QED BY <1>0, <2>1
<1>4. Back[1] = Taken
  BY <1>0, <1>3 DEF Taken
<1>5. ASSUME NEW i \in 1 .. Len(toConsole) PROVE Back[i + 1] = toConsole[i]
  <2>1. i + 1 \in 1 .. 1 + Len(toConsole) /\ ~ (i + 1 <= 1) /\ (i + 1) - 1 = i
    BY <1>0
  <2> QED BY <1>3, <2>1
<1> QED BY <1>0, <1>2, <1>3, <1>4, <1>5 DEF Suffix

\* A packet the BMC sends is lost, or the last one of Back.
LEMMA BackSend ==
  ASSUME TypeInv, NEW p \in Packets(Out), toConsole' \in Sent(toConsole, p),
         rx' = rx
  PROVE  Back' = Back \/ Back' = Append(Back, p)
<1>1. rx \in Seq(Packets(Out)) /\ toConsole \in Seq(Packets(Out))
  BY DEF TypeInv
<1>2. toConsole' = toConsole \/ toConsole' = Append(toConsole, p)
  BY DEF Sent
<1>3. rx \o Append(toConsole, p) = Append(rx \o toConsole, p)
  <2>1. Append(toConsole, p) = toConsole \o <<p>>
    BY <1>1, AppendIsConcat
  <2>2. rx \o toConsole \in Seq(Packets(Out))
    BY <1>1, ConcatProperties
  <2>3. Append(rx \o toConsole, p) = (rx \o toConsole) \o <<p>>
    BY <2>2, AppendIsConcat
  <2>4. <<p>> \in Seq(Packets(Out))
    OBVIOUS
  <2> QED BY <1>1, <2>1, <2>3, <2>4, ConcatAssociative
<1> QED BY <1>2, <1>3 DEF Back

-----------------------------------------------------------------------------
(* Output: what the BMC has written reaches the user once and in order.    *)

\* The output packets in ch, when the console has count characters of packet
\* number last, and the BMC is at packet number cur, which is pending unless
\* pend is 0 and which starts after character base: a packet is of the last
\* number or the current one, and the packets of the current number are the
\* end of the channel and only grow.
OutCh(ch, last, count, cur, pend, base, n) ==
  \A i \in 1 .. Len(ch) : ch[i].seq # 0 =>
    /\ ch[i].seq \in {last, cur}
    /\ ch[i].seq = last /\ (last # cur \/ pend = 0) => Len(ch[i].data) = count
    /\ ch[i].seq = cur /\ pend # 0 =>
         /\ Len(ch[i].data) <= n
         /\ last = cur => Len(ch[i].data) >= count
         /\ \A k \in 1 .. Len(ch[i].data) : ch[i].data[k] = base + k
    /\ ch[i].seq = cur => \A j \in i .. Len(ch) : ch[j].seq # 0 =>
         ch[j].seq = cur /\ Len(ch[i].data) <= Len(ch[j].data)

\* The acknowledgements on their way to the BMC: none of a packet the console
\* has not processed, and none of more than it has.
AckOut(ch, last, count, cur, pend) ==
  \A i \in 1 .. Len(ch) : ch[i].ack # 0 =>
    /\ last # cur => ch[i].ack # cur
    /\ pend = 0 => ch[i].ack = cur
    /\ ch[i].ack = cur /\ pend # 0 =>
         ch[i].count <= count /\ \A j \in i .. Len(ch) : ch[j].ack \in {0, cur}

LEMMA OutChSuffix ==
  ASSUME NEW P, NEW ch \in Seq(P), NEW c \in Seq(P), NEW k \in Nat,
         Suffix(c, ch, k),
         NEW last, NEW count, NEW cur, NEW pend, NEW base, NEW n,
         OutCh(ch, last, count, cur, pend, base, n)
  PROVE  OutCh(c, last, count, cur, pend, base, n)
<1> SUFFICES ASSUME NEW i \in 1 .. Len(c), c[i].seq # 0
    PROVE  /\ c[i].seq \in {last, cur}
           /\ c[i].seq = last /\ (last # cur \/ pend = 0) => Len(c[i].data) = count
           /\ c[i].seq = cur /\ pend # 0 =>
                /\ Len(c[i].data) <= n
                /\ last = cur => Len(c[i].data) >= count
                /\ \A x \in 1 .. Len(c[i].data) : c[i].data[x] = base + x
           /\ c[i].seq = cur => \A j \in i .. Len(c) : c[j].seq # 0 =>
                c[j].seq = cur /\ Len(c[i].data) <= Len(c[j].data)
  BY DEF OutCh
<1>1. \A j \in i .. Len(c) : j + k \in i + k .. Len(ch) /\ j \in 1 .. Len(c)
  BY DEF Suffix
<1>2. i + k \in 1 .. Len(ch) /\ c[i] = ch[i + k]
  BY DEF Suffix
<1>3. \A j \in i .. Len(c) : c[j] = ch[j + k]
  BY <1>1 DEF Suffix
<1> DEFINE y == i + k
<1>4. y \in 1 .. Len(ch) /\ c[i] = ch[y] /\ ch[y].seq # 0
  BY <1>2
<1>5. \A j \in i .. Len(c) : j + k \in y .. Len(ch)
  BY <1>1
<1> HIDE DEF y
<1>6. ASSUME c[i].seq = cur, NEW j \in i .. Len(c), c[j].seq # 0
      PROVE  c[j].seq = cur /\ Len(c[i].data) <= Len(c[j].data)
  BY <1>3, <1>4, <1>5, <1>6 DEF OutCh
<1> QED BY <1>4, <1>6 DEF OutCh

LEMMA AckOutSuffix ==
  ASSUME NEW P, NEW ch \in Seq(P), NEW c \in Seq(P), NEW k \in Nat,
         Suffix(c, ch, k), NEW last, NEW count, NEW cur, NEW pend,
         AckOut(ch, last, count, cur, pend)
  PROVE  AckOut(c, last, count, cur, pend)
<1> SUFFICES ASSUME NEW i \in 1 .. Len(c), c[i].ack # 0
    PROVE  /\ last # cur => c[i].ack # cur
           /\ pend = 0 => c[i].ack = cur
           /\ c[i].ack = cur /\ pend # 0 =>
                c[i].count <= count /\ \A j \in i .. Len(c) : c[j].ack \in {0, cur}
  BY DEF AckOut
<1>1. \A j \in i .. Len(c) : j + k \in i + k .. Len(ch) /\ j \in 1 .. Len(c)
  BY DEF Suffix
<1>2. i + k \in 1 .. Len(ch) /\ c[i] = ch[i + k]
  BY DEF Suffix
<1>3. \A j \in i .. Len(c) : c[j] = ch[j + k]
  BY <1>1 DEF Suffix
<1> QED BY <1>1, <1>2, <1>3 DEF AckOut

\* A new packet: none of the numbered kind, or the pending packet as it is.
LEMMA OutChAppend ==
  ASSUME NEW ch \in Seq(Packets(Out)), NEW p \in Packets(Out),
         NEW last \in 0 .. SeqMax, NEW count \in Nat, NEW cur \in 0 .. SeqMax,
         NEW pend \in 0 .. SeqMax, NEW base \in Int, NEW n \in Nat,
         OutCh(ch, last, count, cur, pend, base, n),
         \/ p.seq = 0
         \/ /\ p.seq = cur /\ pend # 0 /\ Len(p.data) = n
            /\ last = cur => count <= n
            /\ \A k \in 1 .. Len(p.data) : p.data[k] = base + k
  PROVE  OutCh(Append(ch, p), last, count, cur, pend, base, n)
<1> DEFINE c == Append(ch, p)
           m == Len(ch)
<1>0. m \in Nat /\ Len(c) = m + 1 /\ c[m + 1] = p /\ \A i \in 1 .. m : c[i] = ch[i]
  BY AppendProperties
<1> HIDE DEF c
<1> SUFFICES ASSUME NEW i \in 1 .. m + 1, c[i].seq # 0
    PROVE  /\ c[i].seq \in {last, cur}
           /\ c[i].seq = last /\ (last # cur \/ pend = 0) => Len(c[i].data) = count
           /\ c[i].seq = cur /\ pend # 0 =>
                /\ Len(c[i].data) <= n
                /\ last = cur => Len(c[i].data) >= count
                /\ \A x \in 1 .. Len(c[i].data) : c[i].data[x] = base + x
           /\ c[i].seq = cur => \A j \in i .. m + 1 : c[j].seq # 0 =>
                c[j].seq = cur /\ Len(c[i].data) <= Len(c[j].data)
  BY <1>0 DEF OutCh, c
<1>1. CASE i = m + 1
  <2>1. c[i] = p /\ Len(p.data) \in Nat /\ \A j \in i .. m + 1 : j = i
    BY <1>0, <1>1 DEF Packets
  <2> QED BY <2>1, SMTT(30)
<1>2. CASE i # m + 1
  <2>1. i \in 1 .. m /\ c[i] = ch[i]
    BY <1>0, <1>2
  <2>2. ASSUME ch[i].seq = cur, NEW j \in i .. m + 1, c[j].seq # 0
        PROVE  c[j].seq = cur /\ Len(ch[i].data) <= Len(c[j].data)
    <3>1. CASE j = m + 1
      <4>1. c[j] = p
        BY <1>0, <3>1
      <4>2. p.seq = cur /\ pend # 0 /\ Len(p.data) = n
        BY <2>2, <4>1
      <4>3. Len(ch[i].data) <= n
        BY <2>1, <2>2, <4>2 DEF OutCh
      <4> QED BY <4>1, <4>2, <4>3
    <3>2. CASE j # m + 1
      <4>1. j \in i .. m /\ c[j] = ch[j]
        BY <1>0, <3>2
      <4> QED BY <2>1, <2>2, <4>1 DEF OutCh
    <3> QED BY <3>1, <3>2
  <2> QED BY <2>1, <2>2 DEF OutCh
<1> QED BY <1>1, <1>2

\* An acknowledgement of what the console has, or none.
LEMMA AckOutAppend ==
  ASSUME NEW P, NEW ch \in Seq(P), NEW p \in P,
         NEW last, NEW count \in Nat, NEW cur, NEW pend,
         AckOut(ch, last, count, cur, pend), pend = 0 => last = cur,
         p.ack = 0 \/ (p.ack = last /\ p.count = count)
  PROVE  AckOut(Append(ch, p), last, count, cur, pend)
<1> DEFINE c == Append(ch, p)
           m == Len(ch)
<1>0. m \in Nat /\ Len(c) = m + 1 /\ c[m + 1] = p /\ \A i \in 1 .. m : c[i] = ch[i]
  BY AppendProperties
<1> HIDE DEF c
<1> SUFFICES ASSUME NEW i \in 1 .. m + 1, c[i].ack # 0
    PROVE  /\ last # cur => c[i].ack # cur
           /\ pend = 0 => c[i].ack = cur
           /\ c[i].ack = cur /\ pend # 0 =>
                c[i].count <= count /\ \A j \in i .. m + 1 : c[j].ack \in {0, cur}
  BY <1>0 DEF AckOut, c
<1>1. CASE i = m + 1
  <2>1. c[i] = p /\ \A j \in i .. m + 1 : j = i
    BY <1>0, <1>1
  <2> QED BY <2>1
<1>2. CASE i # m + 1
  <2>1. i \in 1 .. m /\ c[i] = ch[i]
    BY <1>0, <1>2
  <2>2. ASSUME ch[i].ack = cur, pend # 0, NEW j \in i .. m + 1
        PROVE  c[j].ack \in {0, cur}
    <3>1. CASE j = m + 1
      <4>1. c[j] = p /\ last = cur
        BY <1>0, <2>1, <2>2, <3>1 DEF AckOut
      <4> QED BY <4>1
    <3>2. CASE j # m + 1
      <4>1. j \in i .. m /\ c[j] = ch[j]
        BY <1>0, <3>2
      <4> QED BY <2>1, <2>2, <4>1 DEF AckOut
    <3> QED BY <3>1, <3>2
  <2> QED BY <2>1, <2>2 DEF AckOut
<1> QED BY <1>1, <1>2

\* The BMC starts a packet: what is in the channels is of the number before.
LEMMA OutChNew ==
  ASSUME NEW ch, NEW cur, NEW count, NEW base, NEW n, NEW base2, NEW n2, NEW q,
         OutCh(ch, cur, count, cur, 0, base, n), q # cur
  PROVE  OutCh(ch, cur, count, q, q, base2, n2)
<1> SUFFICES ASSUME NEW i \in 1 .. Len(ch), ch[i].seq # 0
             PROVE  ch[i].seq = cur /\ Len(ch[i].data) = count
  BY DEF OutCh
<1> QED BY DEF OutCh

LEMMA AckOutNew ==
  ASSUME NEW ch, NEW cur, NEW count, NEW q,
         AckOut(ch, cur, count, cur, 0), q # cur, q # 0
  PROVE  AckOut(ch, cur, count, q, q)
<1> SUFFICES ASSUME NEW i \in 1 .. Len(ch), ch[i].ack # 0 PROVE ch[i].ack = cur
  BY DEF AckOut
<1> QED BY DEF AckOut

\* The pending packet grows.
LEMMA OutChGrow ==
  ASSUME NEW ch \in Seq(Packets(Out)), NEW last, NEW count, NEW cur, NEW pend,
         NEW base, NEW n \in Nat, OutCh(ch, last, count, cur, pend, base, n)
  PROVE  OutCh(ch, last, count, cur, pend, base, n + 1)
<1>1. ASSUME NEW i \in 1 .. Len(ch), Len(ch[i].data) <= n
      PROVE  Len(ch[i].data) <= n + 1
  <2>1. ch[i] \in Packets(Out)
    OBVIOUS
  <2>2. ch[i].data \in Seq(Out)
    BY <2>1 DEF Packets
  <2>3. Len(ch[i].data) \in Nat
    BY <2>2
  <2> QED BY <1>1, <2>3
<1> SUFFICES ASSUME NEW i \in 1 .. Len(ch), ch[i].seq = cur, ch[i].seq # 0, pend # 0
             PROVE  Len(ch[i].data) <= n + 1
  BY DEF OutCh
<1> QED BY <1>1 DEF OutCh

\* The pending packet is acknowledged: the console has all of it, and so has
\* every copy of it under way.
LEMMA OutChDone ==
  ASSUME NEW ch \in Seq(Packets(Out)), NEW cur, NEW pend, NEW base, NEW n \in Nat,
         NEW base2, NEW n2, OutCh(ch, cur, n, cur, pend, base, n), pend # 0
  PROVE  OutCh(ch, cur, n, cur, 0, base2, n2)
<1>1. ASSUME NEW i \in 1 .. Len(ch), ch[i].seq # 0 PROVE Len(ch[i].data) = n
  <2>1. ch[i] \in Packets(Out)
    OBVIOUS
  <2>2. ch[i].data \in Seq(Out)
    BY <2>1 DEF Packets
  <2>3. Len(ch[i].data) \in Nat
    BY <2>2
  <2>4. Len(ch[i].data) <= n /\ Len(ch[i].data) >= n
    BY <1>1 DEF OutCh
  <2> QED BY <2>3, <2>4
<1> QED BY <1>1 DEF OutCh

LEMMA AckOutDone ==
  ASSUME NEW P, NEW ch \in Seq(P), NEW cur, NEW n, NEW pend,
         AckOut(ch, cur, n, cur, pend), pend # 0,
         Len(ch) > 0, ch[1].ack = cur, cur # 0
  PROVE  AckOut(ch, cur, n, cur, 0)
<1>1. 1 \in 1 .. Len(ch)
  OBVIOUS
<1>2. \A j \in 1 .. Len(ch) : ch[j].ack \in {0, cur}
  BY <1>1 DEF AckOut
<1> QED BY <1>2 DEF AckOut

\* The console processes the first packet, which has output.
LEMMA OutChTake ==
  ASSUME NEW ch \in Seq(Packets(Out)), NEW last \in 0 .. SeqMax, NEW count \in Nat,
         NEW cur \in 0 .. SeqMax, NEW pend \in 0 .. SeqMax, NEW base, NEW n \in Nat,
         OutCh(ch, last, count, cur, pend, base, n), pend = 0 => last = cur,
         Len(ch) > 0, ch[1].seq # 0
  PROVE  OutCh(ch, ch[1].seq, Len(ch[1].data), cur, pend, base, n)
<1> DEFINE p == ch[1]
<1>1. 1 \in 1 .. Len(ch)
  OBVIOUS
<1>2. CASE p.seq = cur
  <2>1. ASSUME NEW j \in 1 .. Len(ch), ch[j].seq # 0
        PROVE  ch[j].seq = cur /\ Len(p.data) <= Len(ch[j].data)
    BY <1>1, <1>2, <2>1 DEF OutCh
  <2>2. ASSUME pend = 0, NEW j \in 1 .. Len(ch), ch[j].seq # 0
        PROVE  Len(ch[j].data) = Len(p.data)
    BY <1>1, <1>2, <2>1, <2>2 DEF OutCh
  <2>3. ASSUME NEW j \in 1 .. Len(ch) PROVE Len(ch[j].data) \in Nat
    <3>1. ch[j] \in Packets(Out)
      OBVIOUS
    <3>2. ch[j].data \in Seq(Out)
      BY <3>1 DEF Packets
    <3> QED BY <3>2
  <2>4. ASSUME NEW j \in 1 .. Len(ch), ch[j].seq # 0
        PROVE  Len(ch[j].data) >= Len(p.data)
    BY <1>1, <2>1, <2>3, <2>4
  <2> HIDE DEF p
  <2> SUFFICES OutCh(ch, p.seq, Len(p.data), cur, pend, base, n)
    BY DEF p
  <2>5. ASSUME NEW i \in 1 .. Len(ch), ch[i].seq # 0
        PROVE  /\ pend # 0 => /\ Len(ch[i].data) <= n
                              /\ \A k \in 1 .. Len(ch[i].data) : ch[i].data[k] = base + k
               /\ \A j \in i .. Len(ch) : ch[j].seq # 0 =>
                    ch[j].seq = cur /\ Len(ch[i].data) <= Len(ch[j].data)
    BY <2>1, <2>5 DEF OutCh
  <2> QED BY <1>2, <2>1, <2>2, <2>4, <2>5 DEF OutCh
<1>3. CASE p.seq # cur
  <2>1. p.seq = last /\ Len(p.data) = count
    BY <1>1, <1>3 DEF OutCh
  <2> QED BY <2>1
<1> QED BY <1>2, <1>3

LEMMA AckOutTake ==
  ASSUME NEW ch \in Seq(Packets(Out)), NEW last \in 0 .. SeqMax, NEW count \in Nat,
         NEW cur \in 0 .. SeqMax, NEW pend \in 0 .. SeqMax, NEW base, NEW n \in Nat,
         OutCh(ch, last, count, cur, pend, base, n), pend = 0 => last = cur,
         Len(ch) > 0, ch[1].seq # 0,
         NEW t \in Seq(Packets(Items)), AckOut(t, last, count, cur, pend)
  PROVE  AckOut(t, ch[1].seq, Len(ch[1].data), cur, pend)
<1> DEFINE p == ch[1]
<1>1. 1 \in 1 .. Len(ch)
  OBVIOUS
<1>2. CASE p.seq = cur /\ pend # 0 /\ last = cur
  <2>1. Len(p.data) >= count /\ Len(p.data) \in Nat
    <3>1. p \in Packets(Out)
      BY <1>1
    <3>2. p.data \in Seq(Out)
      BY <3>1 DEF Packets
    <3> QED BY <1>1, <1>2, <3>2 DEF OutCh
  <2> HIDE DEF p
  <2> SUFFICES ASSUME NEW i \in 1 .. Len(t), t[i].ack = cur, t[i].ack # 0
               PROVE  t[i].count <= Len(p.data) /\ \A j \in i .. Len(t) : t[j].ack \in {0, cur}
    BY <1>2 DEF AckOut, p
  <2>2. t[i].count <= count /\ \A j \in i .. Len(t) : t[j].ack \in {0, cur}
    BY <1>2 DEF AckOut
  <2>3. t[i].count \in Nat
    <3>1. t[i] \in Packets(Items)
      OBVIOUS
    <3> QED BY <3>1 DEF Packets
  <2> QED BY <2>1, <2>2, <2>3
<1>3. CASE p.seq = cur /\ pend # 0 /\ last # cur
  <2> HIDE DEF p
  <2>1. \A i \in 1 .. Len(t) : t[i].ack # 0 => t[i].ack # cur
    BY <1>3 DEF AckOut
  <2> QED BY <1>3, <2>1 DEF AckOut, p
<1>4. CASE p.seq # cur \/ pend = 0
  <2>1. p.seq = last /\ Len(p.data) = count
    BY <1>1, <1>4 DEF OutCh
  <2> QED BY <2>1
<1> QED BY <1>2, <1>3, <1>4

\* Where the pending packet of the BMC starts in its output.
Base(b) == b.out - Len(b.data)

\* What the user has been given (u) and what the console holds for it, when
\* the console is in state r and the BMC in state b, is all output before the
\* pending packet, and of that packet what the console has processed.
OutState(u, r, b) ==
  /\ b.seq \in {0, b.lastSeq}
  /\ b.seq = 0 => b.data = <<>> /\ r.last = b.lastSeq
  /\ Base(b) >= 0
  /\ \A i \in 1 .. Len(b.data) : b.data[i] = Base(b) + i
  /\ Len(u) + Len(r.out) =
       IF b.seq # 0 /\ r.last = b.lastSeq THEN Base(b) + r.count ELSE Base(b)
  /\ b.seq # 0 /\ r.last = b.lastSeq => r.count <= Len(b.data)
  /\ \A i \in 1 .. Len(r.out) : r.out[i] = Len(u) + i

OutBack(ch, r, b) ==
  OutCh(ch, r.last, r.count, b.lastSeq, b.seq, Base(b), Len(b.data))

OutAcks(ch, r, b) == AckOut(ch, r.last, r.count, b.lastSeq, b.seq)

OutInv ==
  open => /\ OutState(userOut, rcv, bmc)
          /\ OutBack(Back, rcv, bmc)
          /\ OutAcks(toBmc, rcv, bmc)

\* The user has a prefix of the output.
OutPrefix ==
  /\ Len(userOut) <= bmc.out
  /\ \A i \in 1 .. Len(userOut) : userOut[i] = i

\* Only these fields of the BMC matter to its output.
LEMMA OutSame ==
  ASSUME NEW u, NEW r, NEW b, NEW b2, NEW back, NEW fwd,
         OutState(u, r, b), OutBack(back, r, b), OutAcks(fwd, r, b),
         b2.seq = b.seq, b2.lastSeq = b.lastSeq, b2.data = b.data, b2.out = b.out
  PROVE  OutState(u, r, b2) /\ OutBack(back, r, b2) /\ OutAcks(fwd, r, b2)
<1>1. Base(b2) = Base(b)
  BY DEF Base
<1> QED BY <1>1 DEF OutState, OutBack, OutAcks

LEMMA OutTypes ==
  ASSUME NEW r \in Receiver, NEW b \in Bmc
  PROVE  /\ r.last \in 0 .. SeqMax /\ r.count \in Nat /\ r.out \in Seq(Out)
         /\ Len(r.out) \in Nat
         /\ b.seq \in 0 .. SeqMax /\ b.lastSeq \in 0 .. SeqMax
         /\ b.data \in Seq(Out) /\ Len(b.data) \in Nat /\ b.out \in Nat
         /\ Base(b) \in Int
<1>1. b.data \in Seq(Out) /\ b.out \in Nat
  BY SolAssumption DEF Bmc
<1>2. r.out \in Seq(Out)
  BY DEF Receiver
<1> QED BY <1>1, <1>2 DEF Receiver, Bmc, Base

\* The engine writes its output buffer to the user.
LEMMA StateWrite ==
  ASSUME NEW u \in Seq(Out), NEW r \in Receiver, NEW b \in Bmc, OutState(u, r, b)
  PROVE  /\ OutState(u \o r.out, [r EXCEPT !.out = <<>>], b)
         /\ Len(u \o r.out) = Len(u) + Len(r.out)
         /\ \A i \in 1 .. Len(u) + Len(r.out) :
              (u \o r.out)[i] = IF i <= Len(u) THEN u[i] ELSE i
<1> DEFINE r2 == [r EXCEPT !.out = <<>>]
           u2 == u \o r.out
<1>1. r.out \in Seq(Out) /\ r2.last = r.last /\ r2.count = r.count /\ r2.out = <<>>
  BY DEF Receiver
<1>2. /\ Len(u2) = Len(u) + Len(r.out) /\ Len(u) \in Nat /\ Len(r.out) \in Nat
      /\ \A i \in 1 .. Len(u) + Len(r.out) :
           u2[i] = IF i <= Len(u) THEN u[i] ELSE r.out[i - Len(u)]
  BY <1>1, ConcatProperties
<1> HIDE DEF r2, u2
<1>3. Len(u2) + Len(r2.out) = Len(u) + Len(r.out) /\ Len(r2.out) = 0
  BY <1>1, <1>2
<1>4. OutState(u2, r2, b)
  <2>1. \A i \in 1 .. Len(r2.out) : r2.out[i] = Len(u2) + i
    BY <1>3
  <2> QED BY <1>1, <1>3, <2>1 DEF OutState
<1>5. ASSUME NEW i \in 1 .. Len(u) + Len(r.out)
      PROVE  u2[i] = IF i <= Len(u) THEN u[i] ELSE i
  <2>1. CASE i <= Len(u)
    BY <1>2, <2>1
  <2>2. CASE ~ (i <= Len(u))
    <3>1. i - Len(u) \in 1 .. Len(r.out) /\ Len(u) + (i - Len(u)) = i
      BY <1>2, <2>2
    <3>2. r.out[i - Len(u)] = Len(u) + (i - Len(u))
      BY <3>1 DEF OutState
    <3> QED BY <1>2, <2>2, <3>1, <3>2
  <2> QED BY <2>1, <2>2
<1> QED BY <1>2, <1>4, <1>5 DEF u2, r2

\* The BMC writes a character: into the pending packet, or a new one.
LEMMA StateOutput ==
  ASSUME NEW u \in Seq(Out), NEW r \in Receiver, NEW b \in Bmc, NEW b2 \in Bmc,
         OutState(u, r, b), SeqMax >= 2,
         b2.out = b.out + 1, b2.data = Append(b.data, b.out + 1),
         b2.seq = IF b.seq = 0 THEN NextSeq(b.lastSeq) ELSE b.seq,
         b2.lastSeq = IF b.seq = 0 THEN NextSeq(b.lastSeq) ELSE b.lastSeq,
         b.out + 1 \in Out
  PROVE  /\ OutState(u, r, b2) /\ Base(b2) = Base(b)
         /\ Len(b2.data) = Len(b.data) + 1
<1>0. /\ r.count \in Nat /\ Len(r.out) \in Nat /\ Base(b) \in Int /\ Len(b.data) \in Nat
      /\ b.out \in Nat /\ b.data \in Seq(Out) /\ b.lastSeq \in 0 .. SeqMax
      /\ r.last \in 0 .. SeqMax /\ Len(u) \in Nat
  BY OutTypes
<1> DEFINE x == b.out + 1
<1>1. /\ Len(b2.data) = Len(b.data) + 1 /\ b2.data[Len(b.data) + 1] = x
      /\ \A i \in 1 .. Len(b.data) : b2.data[i] = b.data[i]
  <2>1. x \in Out /\ b2.data = Append(b.data, x)
    OBVIOUS
  <2> HIDE DEF x
  <2> QED BY <1>0, <2>1, AppendProperties
<1>2. Base(b2) = Base(b) /\ x = Base(b) + (Len(b.data) + 1)
  BY <1>0, <1>1, SMTT(30) DEF Base
<1> HIDE DEF x
<1>3. \A i \in 1 .. Len(b2.data) : b2.data[i] = Base(b) + i
  <2> SUFFICES ASSUME NEW i \in 1 .. Len(b.data) + 1 PROVE b2.data[i] = Base(b) + i
    BY <1>1
  <2>1. CASE i = Len(b.data) + 1
    BY <1>1, <1>2, <2>1
  <2>2. CASE i # Len(b.data) + 1
    <3>1. i \in 1 .. Len(b.data)
      BY <1>0, <2>2, SMTT(30)
    <3> QED BY <1>1, <3>1, SMTT(30) DEF OutState
  <2> QED BY <2>1, <2>2
<1>4. b2.seq \in {0, b2.lastSeq} /\ b2.seq # 0
  <2>1. NextSeq(b.lastSeq) # 0
    BY <1>0, NextSeqType
  <2> QED BY <2>1 DEF OutState
<1>5. /\ Len(u) + Len(r.out) =
           IF b2.seq # 0 /\ r.last = b2.lastSeq THEN Base(b) + r.count ELSE Base(b)
      /\ b2.seq # 0 /\ r.last = b2.lastSeq => r.count <= Len(b.data) + 1
  <2>1. CASE b.seq = 0
    <3>1. r.last = b.lastSeq /\ NextSeq(b.lastSeq) # b.lastSeq
      BY <1>0, <2>1, NextSeqDiffers DEF OutState
    <3> QED BY <2>1, <3>1 DEF OutState
  <2>2. CASE b.seq # 0
    BY <1>0, <2>2 DEF OutState
  <2> QED BY <2>1, <2>2
<1> QED BY <1>1, <1>2, <1>3, <1>4, <1>5 DEF OutState

\* The BMC's pending packet is acknowledged.
LEMMA StateDone ==
  ASSUME NEW u \in Seq(Out), NEW r \in Receiver, NEW b \in Bmc, NEW b2 \in Bmc,
         OutState(u, r, b), b.seq # 0, r.last = b.lastSeq,
         r.count = Len(b.data),
         b2.out = b.out, b2.data = <<>>, b2.seq = 0, b2.lastSeq = b.lastSeq
  PROVE  OutState(u, r, b2)
<1>0. /\ r.count \in Nat /\ Len(b.data) \in Nat /\ b.out \in Nat
  BY OutTypes
<1>1. Len(b2.data) = 0 /\ Base(b2) = b.out /\ Base(b) + r.count = b.out
  BY <1>0 DEF Base
<1> QED BY <1>0, <1>1 DEF OutState

\* The end of a run of consecutive characters, and two runs joined.
LEMMA RunSuffix ==
  ASSUME NEW d \in Seq(Out), NEW c \in Nat, c <= Len(d), NEW base \in Int,
         \A k \in 1 .. Len(d) : d[k] = base + k
  PROVE  /\ SubSeq(d, c + 1, Len(d)) \in Seq(Out)
         /\ Len(SubSeq(d, c + 1, Len(d))) = Len(d) - c
         /\ \A k \in 1 .. Len(d) - c : SubSeq(d, c + 1, Len(d))[k] = base + c + k
<1> DEFINE n == Len(d)
           m == c + 1
           f == SubSeq(d, m, n)
<1>1. n \in Nat /\ m \in Nat \ {0} /\ n <= Len(d)
  OBVIOUS
<1>2. n - m + 1 = n - c /\ (IF m <= n THEN n - m + 1 ELSE 0) = n - c
  BY <1>1
<1>3. \A k \in 1 .. n - c : m + k - 1 = c + k /\ c + k \in 1 .. n
                           /\ base + (c + k) = base + c + k
  BY <1>1
<1> HIDE DEF m, n
<1>4. /\ f \in Seq(Out)
      /\ Len(f) = IF m <= n THEN n - m + 1 ELSE 0
      /\ \A k \in 1 .. n - m + 1 : f[k] = d[m + k - 1]
  BY <1>1, SubSeqType
<1> HIDE DEF f
<1>5. ASSUME NEW k \in 1 .. n - c PROVE f[k] = base + c + k
  <2>1. f[k] = d[m + k - 1]
    BY <1>2, <1>4
  <2>2. d[c + k] = base + (c + k)
    BY <1>3 DEF n
  <2> QED BY <1>3, <2>1, <2>2
<1> QED BY <1>2, <1>4, <1>5 DEF f, m, n

LEMMA RunJoin ==
  ASSUME NEW a \in Seq(Out), NEW f \in Seq(Out), NEW m \in Nat, NEW base \in Int,
         m + Len(a) = base,
         \A i \in 1 .. Len(a) : a[i] = m + i,
         \A k \in 1 .. Len(f) : f[k] = base + k
  PROVE  /\ Len(a \o f) = Len(a) + Len(f)
         /\ \A i \in 1 .. Len(a) + Len(f) : (a \o f)[i] = m + i
<1> DEFINE o == a \o f
<1>0. Len(a) \in Nat /\ Len(f) \in Nat
  OBVIOUS
<1>1. /\ Len(o) = Len(a) + Len(f)
      /\ \A i \in 1 .. Len(a) + Len(f) : o[i] =
           IF i <= Len(a) THEN a[i] ELSE f[i - Len(a)]
  BY ConcatProperties
<1> HIDE DEF o
<1>2. ASSUME NEW i \in 1 .. Len(a) + Len(f) PROVE o[i] = m + i
  <2>1. CASE i <= Len(a)
    BY <1>0, <1>1, <2>1
  <2>2. CASE ~ (i <= Len(a))
    <3>0. ASSUME NEW x \in Nat, NEW y \in Nat, i \in 1 .. x + y, ~ (i <= x), m + x = base
          PROVE  i - x \in 1 .. y /\ base + (i - x) = m + i
      BY <3>0
    <3>1. i - Len(a) \in 1 .. Len(f) /\ base + (i - Len(a)) = m + i
      BY <1>0, <2>2, <3>0
    <3> QED BY <1>1, <2>2, <3>1
  <2> QED BY <2>1, <2>2
<1> QED BY <1>1, <1>2 DEF o

\* The console takes the characters of a packet that are new to it.
LEMMA StateTake ==
  ASSUME TypeInv, NEW p \in Packets(Out),
         OutState(userOut, rcv, bmc),
         NEW ch \in Seq(Packets(Out)), Len(ch) > 0, ch[1] = p, p.seq # 0,
         OutBack(ch, rcv, bmc)
  PROVE  OutState(userOut, [last |-> p.seq, count |-> Len(p.data),
                            out |-> rcv.out \o Fresh(p)], bmc)
<1> DEFINE fr == Fresh(p)
           o == rcv.out \o fr
           r2 == [last |-> p.seq, count |-> Len(p.data), out |-> o]
<1>0. /\ rcv \in Receiver /\ bmc \in Bmc /\ userOut \in Seq(Out)
      /\ rcv.count \in Nat /\ rcv.out \in Seq(Out) /\ Len(rcv.out) \in Nat
      /\ Base(bmc) \in Int /\ Len(bmc.data) \in Nat /\ Len(userOut) \in Nat
      /\ p.data \in Seq(Out) /\ Len(p.data) \in Nat
  <2>1. rcv \in Receiver /\ bmc \in Bmc /\ userOut \in Seq(Out)
    BY DEF TypeInv
  <2>2. p.data \in Seq(Out)
    BY DEF Packets
  <2> QED BY <2>1, <2>2, OutTypes
<1>1. r2.last = p.seq /\ r2.count = Len(p.data) /\ r2.out = o
  OBVIOUS
<1>2. 1 \in 1 .. Len(ch)
  OBVIOUS
<1>3. CASE p.seq # bmc.lastSeq \/ bmc.seq = 0
  <2>1. p.seq = rcv.last /\ Len(p.data) = rcv.count
    BY <1>2, <1>3 DEF OutBack, OutCh, OutState
  <2>2. fr = <<>>
    <3>1. fr = SubSeq(p.data, rcv.count + 1, Len(p.data))
      BY <2>1 DEF Fresh
    <3>2. Len(p.data) < rcv.count + 1 /\ rcv.count + 1 \in Int /\ Len(p.data) \in Int
      BY <1>0, <2>1
    <3> QED BY <3>1, <3>2, SubSeqEmpty
  <2>3. o = rcv.out
    <3> HIDE DEF fr
    <3> QED BY <1>0, <2>2, ConcatEmptySeq
  <2> HIDE DEF r2, o
  <2>4. OutState(userOut, r2, bmc)
    BY <1>1, <2>1, <2>3 DEF OutState
  <2> QED BY <2>4 DEF r2, o
<1>4. CASE p.seq = bmc.lastSeq /\ bmc.seq # 0
  <2>0. /\ Len(p.data) <= Len(bmc.data)
        /\ rcv.last = bmc.lastSeq => rcv.count <= Len(p.data)
        /\ \A k \in 1 .. Len(p.data) : p.data[k] = Base(bmc) + k
    BY <1>0, <1>2, <1>4 DEF OutBack, OutCh
  <2>1. PICK skip \in Nat : /\ skip <= Len(p.data) /\ fr = SubSeq(p.data, skip + 1, Len(p.data))
                            /\ Len(userOut) + Len(rcv.out) = Base(bmc) + skip
    <3>1. CASE rcv.last = bmc.lastSeq
      <4>1. fr = SubSeq(p.data, rcv.count + 1, Len(p.data))
        BY <1>4, <3>1 DEF Fresh
      <4>2. Len(userOut) + Len(rcv.out) = Base(bmc) + rcv.count
        BY <1>4, <3>1 DEF OutState
      <4> QED BY <1>0, <2>0, <3>1, <4>1, <4>2
    <3>2. CASE rcv.last # bmc.lastSeq
      <4>1. fr = p.data /\ Len(userOut) + Len(rcv.out) = Base(bmc)
        BY <1>4, <3>2 DEF Fresh, OutState
      <4>2. SubSeq(p.data, 0 + 1, Len(p.data)) = p.data
        BY <1>0, SubSeqFull
      <4>3. 0 \in Nat /\ 0 <= Len(p.data) /\ Base(bmc) = Base(bmc) + 0
        BY <1>0
      <4> QED BY <4>1, <4>2, <4>3
    <3> QED BY <3>1, <3>2
  <2> DEFINE base == Base(bmc) + skip
             u == Len(userOut)
  <2>2. /\ fr \in Seq(Out) /\ Len(fr) = Len(p.data) - skip
        /\ \A k \in 1 .. Len(p.data) - skip : fr[k] = base + k
    <3> DEFINE d == p.data
               z == Base(bmc)
    <3>1. d \in Seq(Out) /\ skip \in Nat /\ skip <= Len(d) /\ z \in Int
          /\ \A k \in 1 .. Len(d) : d[k] = z + k
      BY <1>0, <2>0, <2>1
    <3>2. fr = SubSeq(d, skip + 1, Len(d))
      BY <2>1
    <3> HIDE DEF d, z, fr
    <3>3. /\ fr \in Seq(Out) /\ Len(fr) = Len(d) - skip
          /\ \A k \in 1 .. Len(d) - skip : fr[k] = z + skip + k
      BY <3>1, <3>2, RunSuffix
    <3> QED BY <3>3 DEF d, z
  <2> HIDE DEF fr
  <2>3. base \in Int /\ u \in Nat /\ u + Len(rcv.out) = base
    BY <1>0, <2>1
  <2>4. \A i \in 1 .. Len(rcv.out) : rcv.out[i] = u + i
    BY DEF OutState
  <2> HIDE DEF base, u
  <2>5. Len(o) = Len(rcv.out) + Len(fr) /\ \A i \in 1 .. Len(rcv.out) + Len(fr) : o[i] = u + i
    <3> DEFINE a == rcv.out
    <3>1. a \in Seq(Out) /\ \A i \in 1 .. Len(a) : a[i] = u + i
      BY <1>0, <2>4
    <3>2. u + Len(a) = base /\ u \in Nat /\ base \in Int
      BY <2>3
    <3>3. \A k \in 1 .. Len(fr) : fr[k] = base + k
      BY <2>2
    <3>4. fr \in Seq(Out) /\ o = a \o fr
      BY <2>2
    <3> HIDE DEF a, o
    <3>5. Len(o) = Len(a) + Len(fr) /\ \A i \in 1 .. Len(a) + Len(fr) : o[i] = u + i
      BY <3>1, <3>2, <3>3, <3>4, RunJoin
    <3> QED BY <3>5 DEF a
  <2>6. u + (Len(rcv.out) + (Len(p.data) - skip)) = Base(bmc) + Len(p.data)
    <3> DEFINE x == Len(rcv.out)
               y == Len(p.data)
               z == Base(bmc)
    <3>1. u + x = z + skip /\ u \in Nat
      BY <2>3 DEF base
    <3>2. x \in Nat /\ y \in Nat /\ z \in Int /\ skip \in Nat
      BY <1>0, <2>1
    <3> HIDE DEF x, y, z
    <3>3. u + (x + (y - skip)) = z + y
      BY <3>1, <3>2
    <3> QED BY <3>3 DEF x, y, z
  <2> HIDE DEF o, r2
  <2>7. Len(userOut) + Len(o) = Base(bmc) + Len(p.data)
        /\ \A i \in 1 .. Len(o) : o[i] = Len(userOut) + i
    BY <2>2, <2>5, <2>6 DEF u
  <2>8. OutState(userOut, r2, bmc)
    BY <1>1, <1>4, <2>0, <2>7 DEF OutState
  <2> QED BY <2>8 DEF r2, o, fr
<1> QED BY <1>3, <1>4

LEMMA OutInit == Init => OutInv /\ OutPrefix
<1> SUFFICES ASSUME Init PROVE OutInv /\ OutPrefix
  OBVIOUS
<1>1. Len(<<>>) = 0 /\ Len(<<>> \o <<>>) = 0
  OBVIOUS
<1>2. Base(bmc) = 0
  BY <1>1 DEF Init, Base
<1>3. OutState(userOut, rcv, bmc)
  BY <1>1, <1>2 DEF Init, OutState
<1>4. OutBack(Back, rcv, bmc)
  BY <1>1 DEF Init, OutBack, OutCh, Back, None
<1>5. OutAcks(toBmc, rcv, bmc)
  BY <1>1 DEF Init, OutAcks, AckOut
<1> QED BY <1>1, <1>3, <1>4, <1>5 DEF OutInv, OutPrefix, Init

\* What the console sends outside SolReceive acknowledges nothing.
LEMMA OutForward ==
  ASSUME TypeInv, OutInv, open, NEW p \in Packets(Items), p.ack = 0,
         toBmc' \in Sent(toBmc, p), UNCHANGED <<rcv, rx, toConsole, bmc, userOut>>
  PROVE  OutInv'
<1>1. toBmc' = toBmc \/ toBmc' = Append(toBmc, p)
  BY DEF Sent
<1>2. OutAcks(toBmc', rcv, bmc)
  <2>1. toBmc \in Seq(Packets(Items)) /\ rcv.count \in Nat
        /\ AckOut(toBmc, rcv.last, rcv.count, bmc.lastSeq, bmc.seq)
        /\ (bmc.seq = 0 => rcv.last = bmc.lastSeq)
    BY DEF TypeInv, Receiver, OutInv, OutAcks, OutState
  <2>2. AckOut(Append(toBmc, p), rcv.last, rcv.count, bmc.lastSeq, bmc.seq)
    BY <2>1, AckOutAppend
  <2> QED BY <1>1, <2>1, <2>2 DEF OutAcks
<1> QED BY <1>2 DEF OutInv, Back

LEMMA OutConsole ==
  TypeInv /\ OutInv /\ OutPrefix
    /\ (ConsoleRead \/ AsyncBreak \/ SendPending \/ Retransmit \/ SendSerialKeepalive)
    => OutInv' /\ OutPrefix'
<1> SUFFICES ASSUME TypeInv, OutInv, OutPrefix,
                    ConsoleRead \/ AsyncBreak \/ SendPending \/ Retransmit
                      \/ SendSerialKeepalive
             PROVE  OutInv' /\ OutPrefix'
  OBVIOUS
<1>1. open /\ UNCHANGED <<rcv, rx, toConsole, bmc, userOut>>
  BY DEF ConsoleRead, AsyncBreak, SendPending, Retransmit, SendSerialKeepalive
<1>2. OutPrefix'
  BY <1>1 DEF OutPrefix
<1>3. CASE toBmc' = toBmc
  BY <1>1, <1>2, <1>3 DEF OutInv, Back
<1>4. CASE \E p \in Packets(Items) : p.ack = 0 /\ toBmc' \in Sent(toBmc, p)
  BY <1>1, <1>2, <1>4, OutForward
<1>0. 0 \in 0 .. SeqMax
  BY SolAssumption
<1>a. \A s : DataPacket(s, 0, 0).ack = 0 /\ BreakPacket(s).ack = 0 /\ SameAgain(s).ack = 0
  BY DEF DataPacket, BreakPacket, SameAgain, Packet
<1>5. CASE ConsoleRead \/ AsyncBreak
  BY <1>2, <1>3, <1>5 DEF ConsoleRead, AsyncBreak
<1>6. CASE SendPending
  <2>1. \/ toBmc' \in Sent(toBmc, DataPacket(WithData(snd), 0, 0))
        \/ toBmc' \in Sent(toBmc, BreakPacket(WithBreak(snd)))
    BY <1>6 DEF SendPending
  <2>2. SenderOK(WithData(snd)) /\ SenderOK(WithBreak(snd))
    BY WithDataType, WithBreakType DEF TypeInv
  <2>3. DataPacket(WithData(snd), 0, 0) \in Packets(Items)
        /\ BreakPacket(WithBreak(snd)) \in Packets(Items)
    BY <1>0, <2>2, SenderPackets DEF SenderOK
  <2> QED BY <1>a, <1>2, <1>4, <2>1, <2>3
<1>7. CASE Retransmit
  <2>1. SenderOK(snd') /\ (toBmc' = toBmc \/ toBmc' \in Sent(toBmc, SameAgain(snd')))
    BY <1>7, RetransmitCases
  <2>2. SameAgain(snd') \in Packets(Items)
    BY <1>0, <2>1, SenderPackets DEF SenderOK
  <2> QED BY <1>a, <1>2, <1>3, <1>4, <2>1, <2>2
<1>8. CASE SendSerialKeepalive
  <2>1. PICK s : SenderOK(s) /\ toBmc' \in Sent(toBmc, DataPacket(WithData(s), 0, 0))
    BY <1>8, KeepaliveCases
  <2>2. SenderOK(WithData(s))
    BY <2>1, WithDataType
  <2>3. DataPacket(WithData(s), 0, 0) \in Packets(Items)
    BY <1>0, <2>2, SenderPackets DEF SenderOK
  <2> QED BY <1>a, <1>2, <1>4, <2>1, <2>3
<1> QED BY <1>5, <1>6, <1>7, <1>8

LEMMA OutWrite ==
  TypeInv /\ OutInv /\ OutPrefix /\ ConsoleWrite => OutInv' /\ OutPrefix'
<1> SUFFICES ASSUME TypeInv, OutInv, OutPrefix, ConsoleWrite
             PROVE  OutInv' /\ OutPrefix'
  OBVIOUS
<1>1. /\ open /\ rcv \in Receiver /\ bmc \in Bmc /\ userOut \in Seq(Out)
      /\ OutState(userOut, rcv, bmc)
      /\ OutBack(Back, rcv, bmc) /\ OutAcks(toBmc, rcv, bmc)
  BY DEF TypeInv, OutInv, ConsoleWrite
<1>2. /\ userOut' = userOut \o rcv.out /\ rcv' = [rcv EXCEPT !.out = <<>>]
      /\ UNCHANGED <<snd, open, rx, toBmc, toConsole, bmc, typed>>
  BY DEF ConsoleWrite
<1>3. /\ OutState(userOut', rcv', bmc)
      /\ Len(userOut') = Len(userOut) + Len(rcv.out)
      /\ \A i \in 1 .. Len(userOut) + Len(rcv.out) :
           userOut'[i] = IF i <= Len(userOut) THEN userOut[i] ELSE i
  BY <1>1, <1>2, StateWrite
<1>4. rcv'.last = rcv.last /\ rcv'.count = rcv.count
  BY <1>1, <1>2 DEF Receiver
<1>5. OutInv'
  BY <1>1, <1>2, <1>3, <1>4 DEF OutInv, OutBack, OutAcks, Back
<1>6. Len(userOut) \in Nat /\ Len(rcv.out) \in Nat
  BY <1>1, OutTypes
<1>7. Len(userOut) + Len(rcv.out) <= bmc.out
  <2>1. Len(userOut) + Len(rcv.out) <= Base(bmc) + Len(bmc.data)
    <3>1. rcv.count \in Nat /\ Base(bmc) \in Int /\ Len(bmc.data) \in Nat
      BY <1>1, OutTypes
    <3> QED BY <1>1, <3>1 DEF OutState
  <2> QED BY <1>1, <1>6, <2>1, OutTypes DEF Base
<1>8. ASSUME NEW i \in 1 .. Len(userOut) + Len(rcv.out) PROVE userOut'[i] = i
  <2>1. CASE i <= Len(userOut)
    <3>1. i \in 1 .. Len(userOut)
      BY <1>6, <2>1
    <3> QED BY <1>3, <2>1, <3>1 DEF OutPrefix
  <2>2. CASE ~ (i <= Len(userOut))
    BY <1>3, <2>2
  <2> QED BY <2>1, <2>2
<1> QED BY <1>2, <1>3, <1>5, <1>7, <1>8 DEF OutPrefix

LEMMA OutRecv ==
  ~ Reordering /\ TypeInv /\ TypeInv' /\ OutInv /\ OutPrefix /\ RecvFrom
    => OutInv' /\ OutPrefix'
<1> SUFFICES ASSUME ~ Reordering, TypeInv, TypeInv', OutInv, OutPrefix, RecvFrom
             PROVE  OutInv' /\ OutPrefix'
  OBVIOUS
<1>1. open /\ UNCHANGED <<rcv, bmc, toBmc, userOut>>
  BY DEF RecvFrom
<1>2. Len(rx) \in Nat /\ Suffix(Back', Back, Len(rx))
  BY BackRecv
<1>3. Back \in Seq(Packets(Out)) /\ Back' \in Seq(Packets(Out))
  <2>1. rx' \in Seq(Packets(Out)) /\ toConsole' \in Seq(Packets(Out))
    BY DEF TypeInv
  <2> QED BY <2>1, BackType, ConcatProperties DEF Back
<1>4. OutBack(Back', rcv, bmc)
  BY <1>1, <1>2, <1>3, OutChSuffix DEF OutInv, OutBack
<1> QED BY <1>1, <1>4 DEF OutInv, OutPrefix

LEMMA OutReceive ==
  TypeInv /\ TypeInv' /\ OutInv /\ OutPrefix /\ SolReceive => OutInv' /\ OutPrefix'
<1> SUFFICES ASSUME TypeInv, TypeInv', OutInv, OutPrefix, SolReceive
             PROVE  OutInv' /\ OutPrefix'
  OBVIOUS
<1>0. open /\ UNCHANGED <<toConsole, bmc, typed, userOut>>
  BY ReceiveCases
<1>p. OutPrefix'
  BY <1>0 DEF OutPrefix
<1>1. /\ OutState(userOut, rcv, bmc) /\ OutBack(Back, rcv, bmc)
      /\ OutAcks(toBmc, rcv, bmc)
  BY <1>0 DEF OutInv
<1>2. /\ Suffix(Back', Back, 1) /\ Len(Back) > 0 /\ Back[1] = Taken
      /\ Back \in Seq(Packets(Out)) /\ Back' \in Seq(Packets(Out))
  <2>1. rx' \in Seq(Packets(Out)) /\ toConsole' \in Seq(Packets(Out))
    BY DEF TypeInv
  <2> QED BY <2>1, BackTake, BackType, ConcatProperties DEF Back
<1>3. /\ Taken \in Packets(Out) /\ SenderOK(Settled) /\ 0 \in 0 .. SeqMax
      /\ rcv \in Receiver /\ bmc \in Bmc /\ toBmc \in Seq(Packets(Items))
      /\ Taken.seq \in 0 .. SeqMax /\ Len(Taken.data) \in Nat
  <2>1. Taken \in Packets(Out) /\ SenderOK(Settled)
    BY TakenType
  <2>2. Taken.data \in Seq(Out)
    BY <2>1 DEF Packets
  <2> QED BY <2>1, <2>2, SolAssumption DEF TypeInv, Packets
<1>4. /\ rcv.last \in 0 .. SeqMax /\ rcv.count \in Nat
      /\ bmc.seq \in 0 .. SeqMax /\ bmc.lastSeq \in 0 .. SeqMax
      /\ Len(bmc.data) \in Nat /\ Base(bmc) \in Int
      /\ (bmc.seq = 0 => rcv.last = bmc.lastSeq)
  BY <1>1, <1>3, OutTypes DEF OutState
<1>5. CASE open' = FALSE
  BY <1>5, <1>p DEF OutInv
<1>6. CASE /\ Taken.seq # 0 /\ open' = open
           /\ rcv' = [last |-> Taken.seq, count |-> Len(Taken.data), out |-> AllOut]
           /\ \/ toBmc' \in Sent(toBmc, DataPacket(WithData(Settled),
                                          Taken.seq, Len(Taken.data)))
              \/ toBmc' \in Sent(toBmc,
                          Packet(0, Taken.seq, Len(Taken.data), FALSE, <<>>))
  <2>1. rcv'.last = Taken.seq /\ rcv'.count = Len(Taken.data)
    BY <1>6
  <2>2. OutState(userOut', rcv', bmc')
    BY <1>0, <1>1, <1>2, <1>3, <1>6, StateTake DEF AllOut
  <2>3. OutBack(Back', rcv', bmc')
    <3>1. OutCh(Back, rcv'.last, rcv'.count, bmc.lastSeq, bmc.seq, Base(bmc), Len(bmc.data))
      BY <1>1, <1>2, <1>4, <1>6, <2>1, OutChTake DEF OutBack
    <3>2. OutCh(Back', rcv'.last, rcv'.count, bmc.lastSeq, bmc.seq, Base(bmc), Len(bmc.data))
      BY <1>2, <3>1, OutChSuffix
    <3> QED BY <1>0, <3>2 DEF OutBack
  <2>4. AckOut(toBmc, rcv'.last, rcv'.count, bmc.lastSeq, bmc.seq)
    BY <1>1, <1>2, <1>3, <1>4, <1>6, <2>1, AckOutTake DEF OutBack, OutAcks
  <2>5. PICK p \in Packets(Items) : /\ p.ack = rcv'.last /\ p.count = rcv'.count
                                    /\ toBmc' \in Sent(toBmc, p)
    <3>1. SenderOK(WithData(Settled)) /\ <<>> \in Seq(Items)
      BY <1>3, WithDataType, EmptySeq
    <3>2. DataPacket(WithData(Settled), Taken.seq, Len(Taken.data)) \in Packets(Items)
          /\ Packet(0, Taken.seq, Len(Taken.data), FALSE, <<>>) \in Packets(Items)
      BY <1>3, <3>1, SenderPackets, PacketType DEF SenderOK
    <3>3. /\ DataPacket(WithData(Settled), Taken.seq, Len(Taken.data)).ack = Taken.seq
          /\ DataPacket(WithData(Settled), Taken.seq, Len(Taken.data)).count = Len(Taken.data)
          /\ Packet(0, Taken.seq, Len(Taken.data), FALSE, <<>>).ack = Taken.seq
          /\ Packet(0, Taken.seq, Len(Taken.data), FALSE, <<>>).count = Len(Taken.data)
      BY DEF DataPacket, Packet
    <3> QED BY <1>6, <2>1, <3>2, <3>3
  <2>6. bmc.seq = 0 => rcv'.last = bmc.lastSeq
    BY <1>0, <2>2 DEF OutState
  <2>7. AckOut(Append(toBmc, p), rcv'.last, rcv'.count, bmc.lastSeq, bmc.seq)
    BY <1>3, <2>1, <2>4, <2>5, <2>6, AckOutAppend
  <2>8. OutAcks(toBmc', rcv', bmc')
    BY <1>0, <2>4, <2>5, <2>7 DEF OutAcks, Sent
  <2> QED BY <1>p, <2>2, <2>3, <2>8 DEF OutInv
<1>7. CASE /\ rcv' = rcv /\ open' = open
           /\ \/ toBmc' \in Sent(toBmc, DataPacket(WithData(Settled), 0, 0))
              \/ toBmc' \in Sent(toBmc, BreakPacket(WithBreak(Settled)))
              \/ toBmc' = toBmc
  <2>1. OutBack(Back', rcv', bmc')
    BY <1>0, <1>1, <1>2, <1>7, OutChSuffix DEF OutBack
  <2>2. SenderOK(WithData(Settled)) /\ SenderOK(WithBreak(Settled))
    BY <1>3, WithDataType, WithBreakType
  <2>3. DataPacket(WithData(Settled), 0, 0) \in Packets(Items)
        /\ BreakPacket(WithBreak(Settled)) \in Packets(Items)
    BY <1>3, <2>2, SenderPackets DEF SenderOK
  <2>4. DataPacket(WithData(Settled), 0, 0).ack = 0 /\ BreakPacket(WithBreak(Settled)).ack = 0
    BY DEF DataPacket, BreakPacket, Packet
  <2>5. toBmc' = toBmc
        \/ \E p \in Packets(Items) : p.ack = 0 /\ toBmc' = Append(toBmc, p)
    BY <1>7, <2>3, <2>4 DEF Sent
  <2>6. OutAcks(toBmc', rcv', bmc')
    BY <1>0, <1>1, <1>3, <1>4, <1>7, <2>5, AckOutAppend DEF OutAcks
  <2> QED BY <1>0, <1>1, <1>p, <1>7, <2>1, <2>6 DEF OutInv
<1> QED BY <1>5, <1>6, <1>7, ReceiveCases

\* The BMC handles the acknowledgement in the first packet it gets.
LEMMA OutHeard ==
  ASSUME TypeInv, NEW p, Len(toBmc) > 0, p = toBmc[1],
         OutState(userOut, rcv, bmc), OutBack(Back, rcv, bmc),
         OutAcks(toBmc, rcv, bmc)
  PROVE  LET b == BmcAcked(bmc, p)
         IN  /\ OutState(userOut, rcv, b) /\ OutBack(Back, rcv, b)
             /\ OutAcks(toBmc, rcv, b)
<1> DEFINE b == BmcAcked(bmc, p)
<1>0. /\ bmc \in Bmc /\ rcv \in Receiver /\ userOut \in Seq(Out)
      /\ toBmc \in Seq(Packets(Items)) /\ b \in Bmc
      /\ Back \in Seq(Packets(Out))
  BY BmcAckedType, BackType DEF TypeInv
<1>1. /\ rcv.count \in Nat /\ Len(bmc.data) \in Nat
  BY <1>0, OutTypes
<1>2. CASE p.ack # 0 /\ p.ack = bmc.seq /\ p.count = Len(bmc.data)
  <2>1. b = [bmc EXCEPT !.seq = 0, !.data = <<>>]
    BY <1>2 DEF BmcAcked
  <2>2. b.seq = 0 /\ b.data = <<>> /\ b.lastSeq = bmc.lastSeq /\ b.out = bmc.out
    BY <1>0, <2>1 DEF Bmc
  <2>3. bmc.seq # 0 /\ bmc.seq = bmc.lastSeq /\ p.ack = bmc.lastSeq
    BY <1>2 DEF OutState
  <2>4. 1 \in 1 .. Len(toBmc) /\ p.count \in Nat
    BY <1>2, <1>1
  <2>5. rcv.last = bmc.lastSeq /\ p.count <= rcv.count
    BY <1>2, <2>3, <2>4 DEF OutAcks, AckOut
  <2>6. rcv.count = Len(bmc.data)
    BY <1>1, <1>2, <2>3, <2>5 DEF OutState
  <2> HIDE DEF b
  <2>7. OutState(userOut, rcv, b)
    BY <1>0, <2>2, <2>3, <2>5, <2>6, StateDone
  <2>8. OutBack(Back, rcv, b)
    <3>1. OutCh(Back, bmc.lastSeq, Len(bmc.data), bmc.lastSeq, bmc.seq,
                Base(bmc), Len(bmc.data))
      BY <2>5, <2>6 DEF OutBack
    <3>2. OutCh(Back, bmc.lastSeq, Len(bmc.data), bmc.lastSeq, 0,
                Base(b), Len(b.data))
      BY <1>0, <1>1, <2>3, <3>1, OutChDone
    <3> QED BY <2>2, <2>5, <2>6, <3>2 DEF OutBack
  <2>9. OutAcks(toBmc, rcv, b)
    <3>1. AckOut(toBmc, bmc.lastSeq, rcv.count, bmc.lastSeq, bmc.seq)
      BY <2>5 DEF OutAcks
    <3>2. AckOut(toBmc, bmc.lastSeq, rcv.count, bmc.lastSeq, 0)
      BY <1>0, <1>2, <2>3, <3>1, AckOutDone
    <3> QED BY <2>2, <2>5, <3>2 DEF OutAcks
  <2> QED BY <2>7, <2>8, <2>9 DEF b
<1>3. CASE ~ (p.ack # 0 /\ p.ack = bmc.seq /\ p.count = Len(bmc.data))
  BY <1>3 DEF BmcAcked
<1> QED BY <1>2, <1>3

\* A packet of the BMC is added to what is under way: one without output, or
\* the pending packet.
LEMMA OutSend ==
  ASSUME TypeInv, NEW r \in Receiver, NEW b \in Bmc, NEW u,
         OutState(u, r, b), OutBack(Back, r, b),
         NEW ack \in 0 .. SeqMax, NEW count \in Nat, NEW p \in Packets(Out),
         p.seq = 0 \/ p = BmcPacket(b, ack, count),
         NEW c, c = Back \/ c = Append(Back, p)
  PROVE  OutBack(c, r, b)
<1>1. /\ r.last \in 0 .. SeqMax /\ r.count \in Nat
      /\ b.seq \in 0 .. SeqMax /\ b.lastSeq \in 0 .. SeqMax
      /\ Len(b.data) \in Nat /\ Base(b) \in Int /\ Back \in Seq(Packets(Out))
  BY OutTypes, BackType
<1>2. \/ p.seq = 0
      \/ /\ p.seq = b.lastSeq /\ b.seq # 0 /\ Len(p.data) = Len(b.data)
         /\ r.last = b.lastSeq => r.count <= Len(b.data)
         /\ \A k \in 1 .. Len(p.data) : p.data[k] = Base(b) + k
  <2>1. CASE p.seq # 0
    <3>1. p.seq = b.seq /\ p.data = b.data
      BY <2>1 DEF BmcPacket, Packet
    <3> QED BY <2>1, <3>1 DEF OutState
  <2> QED BY <2>1
<1>3. OutCh(Append(Back, p), r.last, r.count, b.lastSeq, b.seq, Base(b), Len(b.data))
  BY <1>1, <1>2, OutChAppend DEF OutBack
<1> QED BY <1>3 DEF OutBack

LEMMA OutBmcReceive ==
  ~ Reordering /\ TypeInv /\ TypeInv' /\ OutInv /\ OutPrefix /\ BmcReceive
    => OutInv' /\ OutPrefix'
<1> SUFFICES ASSUME ~ Reordering, TypeInv, TypeInv', OutInv, OutPrefix, BmcReceive
             PROVE  OutInv' /\ OutPrefix'
  OBVIOUS
<1>0. toBmc \in Seq(Packets(Items)) /\ bmc \in Bmc /\ bmc' \in Bmc /\ rcv \in Receiver
  BY DEF TypeInv
<1>1. Len(toBmc) > 0 /\ Receives(1)
  <2>1. PICK i \in 1 .. Len(toBmc) : Receives(i)
    BY BmcReceiveCases
  <2>2. i = 1
    BY <2>1 DEF Receives
  <2> QED BY <1>0, <2>1, <2>2
<1> DEFINE p == toBmc[1]
           b == BmcAcked(bmc, p)
<1>2. open /\ toBmc' = RemoveAt(toBmc, 1) /\ UNCHANGED <<snd, rcv, open, rx, typed, userOut>>
  BY <1>1 DEF Receives
<1>3. OutState(userOut, rcv, b) /\ OutBack(Back, rcv, b) /\ OutAcks(toBmc, rcv, b)
  BY <1>1, <1>2, OutHeard DEF OutInv
<1>4. p \in Packets(Items) /\ p.seq \in 0 .. SeqMax /\ b \in Bmc
  <2>1. p \in Packets(Items)
    BY <1>0, <1>1
  <2> QED BY <1>0, <2>1, BmcAckedType DEF Packets
<1>5. OutAcks(toBmc', rcv, b)
  <2>1. toBmc' \in Seq(Packets(Items)) /\ Suffix(toBmc', toBmc, 1)
    BY <1>0, <1>1, <1>2, RemoveHead
  <2> QED BY <1>0, <1>3, <2>1, AckOutSuffix DEF OutAcks
<1>6. bmc'.seq = b.seq /\ bmc'.lastSeq = b.lastSeq /\ bmc'.data = b.data /\ bmc'.out = b.out
  <2>1. bmc' = b \/ \E k \in 0 .. Len(p.data) : bmc' = Accepting(b, p, k)
    BY <1>1 DEF Receives
  <2> HIDE DEF b, p
  <2>2. ASSUME NEW k \in 0 .. Len(p.data), bmc' = Accepting(b, p, k)
        PROVE  bmc'.seq = b.seq /\ bmc'.lastSeq = b.lastSeq
               /\ bmc'.data = b.data /\ bmc'.out = b.out
    BY <1>4, <2>2, AcceptingType
  <2> QED BY <2>1, <2>2
<1>7. OutState(userOut, rcv, bmc') /\ OutBack(Back, rcv, bmc') /\ OutAcks(toBmc', rcv, bmc')
  <2> HIDE DEF b, p
  <2> QED BY <1>3, <1>5, <1>6, OutSame
<1>8. OutBack(Back', rcv, bmc')
  <2>1. CASE toConsole' = toConsole
    BY <1>2, <1>7, <2>1 DEF Back
  <2>2. CASE toConsole' # toConsole
    <3>1. bmc'.accepted \in Nat /\ 0 \in 0 .. SeqMax
      BY <1>0, SolAssumption DEF Bmc
    <3> DEFINE full == BmcPacket(bmc', p.seq, bmc'.accepted)
               bare == Packet(0, p.seq, bmc'.accepted, FALSE, <<>>)
    <3>2. full \in Packets(Out) /\ bare \in Packets(Out) /\ bare.seq = 0
      BY <1>0, <1>4, <3>1, BmcPacketType DEF Packet
    <3>3. toConsole' \in Sent(toConsole, full) \/ toConsole' \in Sent(toConsole, bare)
      BY <1>1, <2>2 DEF Receives
    <3>4. PICK q \in Packets(Out) : /\ q.seq = 0 \/ q = BmcPacket(bmc', p.seq, bmc'.accepted)
                                    /\ toConsole' \in Sent(toConsole, q)
      BY <3>2, <3>3
    <3>5. Back' = Back \/ Back' = Append(Back, q)
      BY <1>2, <3>4, BackSend
    <3> HIDE DEF p
    <3> QED BY <1>0, <1>4, <1>7, <3>1, <3>4, <3>5, OutSend
  <2> QED BY <2>1, <2>2
<1>9. OutPrefix'
  <2>1. bmc'.out = bmc.out
    BY <1>0, <1>6, BmcAckedType
  <2> QED BY <1>2, <2>1 DEF OutPrefix
<1> QED BY <1>2, <1>7, <1>8, <1>9 DEF OutInv

LEMMA OutBmcOutput ==
  SeqMax >= 2 /\ TypeInv /\ OutInv /\ OutPrefix /\ BmcOutput => OutInv' /\ OutPrefix'
<1> SUFFICES ASSUME SeqMax >= 2, TypeInv, OutInv, OutPrefix, BmcOutput
             PROVE  OutInv' /\ OutPrefix'
  OBVIOUS
<1>0. /\ bmc \in Bmc /\ rcv \in Receiver /\ userOut \in Seq(Out) /\ open
      /\ Back \in Seq(Packets(Out)) /\ 0 \in 0 .. SeqMax
      /\ UNCHANGED <<snd, rcv, open, rx, toBmc, typed, userOut>>
  BY BackType, SolAssumption DEF TypeInv, BmcOutput
<1>1. /\ OutState(userOut, rcv, bmc) /\ OutBack(Back, rcv, bmc)
      /\ OutAcks(toBmc, rcv, bmc)
  BY <1>0 DEF OutInv
<1>2. /\ bmc' \in Bmc
      /\ bmc'.out = bmc.out + 1 /\ bmc'.data = Append(bmc.data, bmc.out + 1)
      /\ bmc'.seq = IF bmc.seq = 0 THEN NextSeq(bmc.lastSeq) ELSE bmc.seq
      /\ bmc'.lastSeq = IF bmc.seq = 0 THEN NextSeq(bmc.lastSeq) ELSE bmc.lastSeq
  BY BmcOutputStep
<1>3. bmc.out + 1 \in Out
  <2>1. bmc.out \in 0 .. MaxOutput /\ bmc.out < MaxOutput /\ MaxOutput \in Nat
    BY <1>0, SolAssumption DEF Bmc, BmcOutput
  <2> QED BY <2>1 DEF Out
<1>4. OutState(userOut, rcv, bmc') /\ Base(bmc') = Base(bmc)
      /\ Len(bmc'.data) = Len(bmc.data) + 1
  BY <1>0, <1>1, <1>2, <1>3, StateOutput
<1>5. OutBack(Back, rcv, bmc') /\ OutAcks(toBmc, rcv, bmc')
  <2>1. CASE bmc.seq = 0
    <3>1. rcv.last = bmc.lastSeq /\ bmc.lastSeq \in 0 .. SeqMax
      BY <1>0, <1>1, <2>1 DEF OutState, Bmc
    <3> DEFINE q == NextSeq(bmc.lastSeq)
    <3>2. q # bmc.lastSeq /\ q # 0
      BY <3>1, NextSeqDiffers, NextSeqType
    <3>3. bmc'.seq = q /\ bmc'.lastSeq = q
      BY <1>2, <2>1
    <3> HIDE DEF q
    <3>4. OutCh(Back, rcv.last, rcv.count, q, q, Base(bmc'), Len(bmc'.data))
      BY <1>1, <2>1, <3>1, <3>2, OutChNew DEF OutBack
    <3>5. AckOut(toBmc, rcv.last, rcv.count, q, q)
      BY <1>1, <2>1, <3>1, <3>2, AckOutNew DEF OutAcks
    <3> QED BY <3>3, <3>4, <3>5 DEF OutBack, OutAcks
  <2>2. CASE bmc.seq # 0
    <3>1. bmc'.seq = bmc.seq /\ bmc'.lastSeq = bmc.lastSeq
      BY <1>2, <2>2
    <3>2. Len(bmc.data) \in Nat
      BY <1>0, OutTypes
    <3>3. OutCh(Back, rcv.last, rcv.count, bmc.lastSeq, bmc.seq, Base(bmc),
                Len(bmc.data) + 1)
      BY <1>0, <1>1, <3>2, OutChGrow DEF OutBack
    <3> QED BY <1>1, <1>4, <3>1, <3>3 DEF OutBack, OutAcks
  <2> QED BY <2>1, <2>2
<1>6. OutBack(Back', rcv, bmc')
  <2>1. BmcPacket(bmc', 0, 0) \in Packets(Out)
    BY <1>0, <1>2, BmcPacketType
  <2>2. toConsole' \in Sent(toConsole, BmcPacket(bmc', 0, 0))
    BY DEF BmcOutput
  <2>3. Back' = Back \/ Back' = Append(Back, BmcPacket(bmc', 0, 0))
    BY <1>0, <2>1, <2>2, BackSend
  <2> QED BY <1>0, <1>2, <1>4, <1>5, <2>1, <2>3, OutSend
<1>7. OutPrefix'
  <2>1. bmc.out \in Nat /\ Len(userOut) \in Nat
    BY <1>0, OutTypes
  <2> QED BY <1>0, <1>2, <2>1 DEF OutPrefix
<1> QED BY <1>0, <1>4, <1>5, <1>6, <1>7 DEF OutInv

LEMMA OutBmcSends ==
  TypeInv /\ OutInv /\ OutPrefix /\ (BmcRetransmit \/ BmcDeactivate)
    => OutInv' /\ OutPrefix'
<1> SUFFICES ASSUME TypeInv, OutInv, OutPrefix, BmcRetransmit \/ BmcDeactivate
             PROVE  OutInv' /\ OutPrefix'
  OBVIOUS
<1>0. /\ bmc \in Bmc /\ rcv \in Receiver /\ open /\ 0 \in 0 .. SeqMax
      /\ UNCHANGED <<snd, rcv, open, rx, toBmc, bmc, typed, userOut>>
  <2>1. open /\ UNCHANGED <<snd, rcv, open, rx, toBmc, bmc, typed, userOut>>
    BY DEF BmcRetransmit, BmcDeactivate
  <2> QED BY <2>1, SolAssumption DEF TypeInv
<1>1. /\ OutState(userOut, rcv, bmc) /\ OutBack(Back, rcv, bmc)
      /\ OutAcks(toBmc, rcv, bmc)
  BY <1>0 DEF OutInv
<1>2. PICK p \in Packets(Out) : /\ p.seq = 0 \/ p = BmcPacket(bmc, 0, 0)
                                /\ toConsole' \in Sent(toConsole, p)
  <2>1. Packet(0, 0, 0, TRUE, <<>>).seq = 0
    BY DEF Packet
  <2> QED BY <1>0, <2>1, BmcPacketType, DeactivateType DEF BmcRetransmit, BmcDeactivate
<1>3. Back' = Back \/ Back' = Append(Back, p)
  BY <1>0, <1>2, BackSend
<1>4. OutBack(Back', rcv, bmc)
  BY <1>0, <1>1, <1>2, <1>3, OutSend
<1> QED BY <1>0, <1>1, <1>4 DEF OutInv, OutPrefix

LEMMA OutStep ==
  ASSUME ~ Reordering, SeqMax >= 2
  PROVE  TypeInv /\ TypeInv' /\ OutInv /\ OutPrefix /\ [Next]_vars => OutInv' /\ OutPrefix'
<1> SUFFICES ASSUME TypeInv, TypeInv', OutInv, OutPrefix, [Next]_vars
             PROVE  OutInv' /\ OutPrefix'
  OBVIOUS
<1>1. CASE UNCHANGED vars
  BY <1>1 DEF vars, OutInv, OutPrefix, Back
<1> QED BY <1>1, OutConsole, OutWrite, OutRecv, OutReceive, OutBmcReceive,
           OutBmcOutput, OutBmcSends DEF Next

LEMMA OutInvariant ==
  ASSUME ~ Reordering, SeqMax >= 2
  PROVE  Spec => [](TypeInv /\ OutInv /\ OutPrefix)
<1>1. Init => TypeInv /\ OutInv /\ OutPrefix
  BY InitType, OutInit
<1>2. TypeInv /\ OutInv /\ OutPrefix /\ [Next]_vars => (TypeInv /\ OutInv /\ OutPrefix)'
  BY TypeStep, OutStep
<1> QED BY <1>1, <1>2, PTL DEF Spec

\* The first n characters of the output.
Written(n) == [i \in 1 .. n |-> i]

LEMMA WrittenProps ==
  ASSUME NEW n \in Nat
  PROVE  Written(n) \in Seq(Nat) /\ Len(Written(n)) = n
         /\ \A i \in 1 .. n : Written(n)[i] = i
  BY DEF Written

\* One character more.
LEMMA WrittenAppend ==
  ASSUME NEW n \in Nat
  PROVE  Written(n + 1) = Append(Written(n), n + 1)
<1> DEFINE a == Append(Written(n), n + 1)
           w == Written(n + 1)
<1>1. w \in Seq(Nat) /\ Len(w) = n + 1 /\ \A i \in 1 .. n + 1 : w[i] = i
  BY WrittenProps
<1>2. /\ a \in Seq(Nat) /\ Len(a) = n + 1 /\ a[n + 1] = n + 1
      /\ \A i \in 1 .. n : a[i] = i
  BY WrittenProps, AppendProperties
<1> HIDE DEF a, w
<1>3. \A i \in 1 .. n + 1 : a[i] = w[i]
  BY <1>1, <1>2
<1>4. a = w
  BY <1>1, <1>2, <1>3, SeqEqual
<1> QED BY <1>4 DEF a, w

\* A sequence that counts from 1 is a prefix of the output.
LEMMA WrittenPrefix ==
  ASSUME NEW n \in Nat, NEW u \in Seq(Nat), Len(u) <= n,
         \A i \in 1 .. Len(u) : u[i] = i
  PROVE  u = SubSeq(Written(n), 1, Len(u))
<1> DEFINE m == Len(u)
           v == SubSeq(Written(n), 1, m)
<1>0. m \in Nat /\ m <= n
  OBVIOUS
<1>1. Written(n) \in Seq(Nat) /\ Len(Written(n)) = n /\ \A i \in 1 .. n : Written(n)[i] = i
  BY WrittenProps
<1> HIDE DEF m
<1>2. /\ v \in Seq(Nat) /\ Len(v) = IF 1 <= m THEN m - 1 + 1 ELSE 0
      /\ \A i \in 1 .. m - 1 + 1 : v[i] = Written(n)[1 + i - 1]
  <2> HIDE DEF v
  <2> QED BY <1>0, <1>1, SubSeqType DEF v
<1> HIDE DEF v
<1>3. Len(v) = m
  BY <1>0, <1>2
<1>4. ASSUME NEW i \in 1 .. m PROVE v[i] = i
  <2>1. i \in 1 .. m - 1 + 1 /\ 1 + i - 1 = i /\ i \in 1 .. n
    BY <1>0
  <2> QED BY <1>1, <1>2, <2>1
<1>5. u = v
  BY <1>2, <1>3, <1>4, SeqEqual DEF m
<1> QED BY <1>5 DEF v, m

\* Each step of the console and the BMC is a step of the output stream.
LEMMA OutSimulates ==
  ASSUME TypeInv, TypeInv', OutPrefix', [Next]_vars
  PROVE  [Output!Next]_<<Written(bmc.out), userOut>>
<1>0. /\ bmc.out \in Nat /\ userOut \in Seq(Out) /\ userOut' \in Seq(Out) /\ bmc \in Bmc
      /\ rcv.out \in Seq(Out) /\ bmc'.out \in Nat
  BY SolAssumption DEF TypeInv, Bmc, Receiver
<1>1. CASE bmc'.out = bmc.out /\ userOut' = userOut
  BY <1>1
<1>2. CASE ConsoleWrite
  <2>1. userOut' = userOut \o rcv.out /\ rcv.out # <<>> /\ bmc' = bmc
    BY <1>2 DEF ConsoleWrite
  <2>2. Len(userOut) \in Nat /\ Len(rcv.out) \in Nat /\ Len(rcv.out) > 0
        /\ Len(userOut') = Len(userOut) + Len(rcv.out)
    <3>1. Len(rcv.out) \in Nat /\ Len(rcv.out) # 0 /\ Len(userOut) \in Nat
      BY <1>0, <2>1, EmptySeq
    <3>2. Len(userOut \o rcv.out) = Len(userOut) + Len(rcv.out)
      BY <1>0, ConcatProperties
    <3> QED BY <2>1, <3>1, <3>2
  <2>3. Len(userOut') <= bmc.out /\ \A i \in 1 .. Len(userOut') : userOut'[i] = i
    BY <2>1 DEF OutPrefix
  <2>4. userOut' \in Seq(Nat)
    <3>1. Out \subseteq Nat
      BY SolAssumption DEF Out
    <3> QED BY <1>0, <3>1, SeqMonotonic
  <2>5. userOut' = SubSeq(Written(bmc.out), 1, Len(userOut'))
    BY <1>0, <2>3, <2>4, WrittenPrefix
  <2>6. Len(userOut') \in Len(userOut) + 1 .. Len(Written(bmc.out))
    <3>1. Len(Written(bmc.out)) = bmc.out
      BY <1>0, WrittenProps
    <3> QED BY <1>0, <2>2, <2>3, <3>1
  <2>7. Written(bmc.out)' = Written(bmc.out)
    BY <2>1
  <2> QED BY <2>5, <2>6, <2>7 DEF Output!Next, Output!Deliver, Written
<1>3. CASE BmcOutput
  <2>1. bmc'.out = bmc.out + 1 /\ userOut' = userOut
    BY <1>3, BmcOutputStep DEF BmcOutput
  <2>2. bmc.out + 1 \in 1 .. MaxOutput
    <3>1. bmc.out \in 0 .. MaxOutput /\ bmc.out < MaxOutput /\ MaxOutput \in Nat
      BY <1>0, <1>3, SolAssumption DEF Bmc, BmcOutput
    <3> QED BY <3>1
  <2>3. Written(bmc'.out) = Append(Written(bmc.out), bmc.out + 1)
    BY <1>0, <2>1, WrittenAppend
  <2> QED BY <2>1, <2>2, <2>3 DEF Output!Next, Output!Write, Written
<1>4. CASE BmcReceive
  <2>1. PICK i \in 1 .. Len(toBmc) : Receives(i)
    BY <1>4, BmcReceiveCases
  <2> DEFINE p == toBmc[i]
             b == BmcAcked(bmc, p)
  <2>2. b \in Bmc /\ b.out = bmc.out
    BY <1>0, BmcAckedType
  <2>3. p \in Packets(Items)
    <3>1. toBmc \in Seq(Packets(Items))
      BY DEF TypeInv
    <3> QED BY <3>1
  <2>4. userOut' = userOut /\ (bmc' = b \/ \E k \in 0 .. Len(p.data) : bmc' = Accepting(b, p, k))
    BY <2>1 DEF Receives
  <2> HIDE DEF p, b
  <2>5. bmc'.out = bmc.out
    <3>1. ASSUME NEW k \in 0 .. Len(p.data), bmc' = Accepting(b, p, k)
          PROVE  bmc'.out = b.out
      BY <2>2, <2>3, <3>1, AcceptingType
    <3> QED BY <2>2, <2>4, <3>1
  <2> QED BY <1>1, <2>4, <2>5
<1>5. CASE ConsoleRead \/ AsyncBreak \/ RecvFrom \/ SendPending \/ Retransmit
           \/ SendSerialKeepalive \/ SolReceive \/ BmcRetransmit \/ BmcDeactivate
           \/ UNCHANGED vars
  BY <1>1, <1>5 DEF ConsoleRead, AsyncBreak, RecvFrom, SendPending, Retransmit,
     SendSerialKeepalive, SolReceive, BmcRetransmit, BmcDeactivate, vars
<1> QED BY <1>2, <1>3, <1>4, <1>5 DEF Next

\* The user gets the BMC's output once, in order and without a gap, for every
\* buffer size, packet size and number of retransmissions, however packets and
\* acknowledgements are lost, and however often the BMC sends a packet again
\* with more in it, as long as the network keeps their order and two packets
\* in a row have different numbers
\* (_sol_bmc_to_remote_console_packet, _console_write).
THEOREM SolOutput ==
  ASSUME ~ Reordering, SeqMax >= 2
  PROVE  Spec => OutputSpec
<1>1. Init => Output!Init
  BY DEF Init, Output!Init
<1>2. TypeInv /\ TypeInv' /\ (TypeInv /\ OutInv /\ OutPrefix)' /\ [Next]_vars
        => [Output!Next]_<<[i \in 1 .. bmc.out |-> i], userOut>>
  BY OutSimulates DEF Written
<1> QED BY <1>1, <1>2, OutInvariant, PTL DEF Spec, OutputSpec, Output!Spec

-----------------------------------------------------------------------------
(* Input: what the user types reaches the BMC once and in order, when no   *)
(* break is sent and the workaround is off.                                *)

\* The packets in ch, when the sender is at number seq, with data, and the BMC
\* has last seen number last: every packet is of one of the two, the ones of
\* the sender's number are the end of the channel, and as long as the BMC has
\* not seen it they are that very packet.
InCh(ch, seq, last, data) ==
  \A i \in 1 .. Len(ch) : ch[i].seq # 0 =>
    /\ ch[i].seq \in {seq, last}
    /\ ch[i].seq = seq /\ last # seq => ch[i].data = data /\ ~ ch[i].op
    /\ ch[i].seq = seq => \A j \in i .. Len(ch) : ch[j].seq \in {0, seq}

\* The acknowledgements in ch: none of a packet the BMC has not seen, and of
\* the one in flight only with the number of characters it accepted.
AckCh(ch, seq, last, accepted, waiting) ==
  \A i \in 1 .. Len(ch) : ch[i].ack # 0 =>
    /\ ~ waiting => ch[i].ack = seq
    /\ waiting /\ last # seq => ch[i].ack # seq
    /\ waiting /\ last = seq /\ ch[i].ack = seq =>
         ch[i].count = accepted /\ \A j \in i .. Len(ch) : ch[j].ack \in {0, seq}

LEMMA InChSuffix ==
  ASSUME NEW P, NEW ch \in Seq(P), NEW c \in Seq(P), NEW k \in Nat,
         Suffix(c, ch, k), NEW seq, NEW last, NEW data, InCh(ch, seq, last, data)
  PROVE  InCh(c, seq, last, data)
<1> SUFFICES ASSUME NEW i \in 1 .. Len(c), c[i].seq # 0
    PROVE  /\ c[i].seq \in {seq, last}
           /\ c[i].seq = seq /\ last # seq => c[i].data = data /\ ~ c[i].op
           /\ c[i].seq = seq => \A j \in i .. Len(c) : c[j].seq \in {0, seq}
  BY DEF InCh
<1>1. \A j \in i .. Len(c) : j + k \in i + k .. Len(ch) /\ j \in 1 .. Len(c)
  BY DEF Suffix
<1>2. i + k \in 1 .. Len(ch) /\ c[i] = ch[i + k]
  BY DEF Suffix
<1>3. \A j \in i .. Len(c) : c[j] = ch[j + k]
  BY <1>1 DEF Suffix
<1> QED BY <1>1, <1>2, <1>3 DEF InCh

LEMMA AckChSuffix ==
  ASSUME NEW P, NEW ch \in Seq(P), NEW c \in Seq(P), NEW k \in Nat,
         Suffix(c, ch, k), NEW seq, NEW last, NEW accepted, NEW waiting,
         AckCh(ch, seq, last, accepted, waiting)
  PROVE  AckCh(c, seq, last, accepted, waiting)
<1> SUFFICES ASSUME NEW i \in 1 .. Len(c), c[i].ack # 0
    PROVE  /\ ~ waiting => c[i].ack = seq
           /\ waiting /\ last # seq => c[i].ack # seq
           /\ waiting /\ last = seq /\ c[i].ack = seq =>
                c[i].count = accepted /\ \A j \in i .. Len(c) : c[j].ack \in {0, seq}
  BY DEF AckCh
<1>1. \A j \in i .. Len(c) : j + k \in i + k .. Len(ch) /\ j \in 1 .. Len(c)
  BY DEF Suffix
<1>2. i + k \in 1 .. Len(ch) /\ c[i] = ch[i + k]
  BY DEF Suffix
<1>3. \A j \in i .. Len(c) : c[j] = ch[j + k]
  BY <1>1 DEF Suffix
<1> QED BY <1>1, <1>2, <1>3 DEF AckCh

\* A new packet: an acknowledgement only, or the sender's packet as it is.
LEMMA InChAppend ==
  ASSUME NEW P, NEW ch \in Seq(P), NEW p \in P, NEW seq, NEW last, NEW data,
         InCh(ch, seq, last, data),
         p.seq = 0 \/ (p.seq = seq /\ p.data = data /\ ~ p.op)
  PROVE  InCh(Append(ch, p), seq, last, data)
<1> DEFINE c == Append(ch, p)
           m == Len(ch)
<1>0. m \in Nat /\ Len(c) = m + 1 /\ c[m + 1] = p /\ \A i \in 1 .. m : c[i] = ch[i]
  BY AppendProperties
<1> HIDE DEF c
<1> SUFFICES ASSUME NEW i \in 1 .. m + 1, c[i].seq # 0
    PROVE  /\ c[i].seq \in {seq, last}
           /\ c[i].seq = seq /\ last # seq => c[i].data = data /\ ~ c[i].op
           /\ c[i].seq = seq => \A j \in i .. m + 1 : c[j].seq \in {0, seq}
  BY <1>0 DEF InCh, c
<1>1. CASE i = m + 1
  <2>1. c[i] = p /\ \A j \in i .. m + 1 : j = i
    BY <1>0, <1>1
  <2> QED BY <2>1
<1>2. CASE i # m + 1
  <2>1. i \in 1 .. m /\ c[i] = ch[i]
    BY <1>0, <1>2
  <2>2. ASSUME ch[i].seq = seq, NEW j \in i .. m + 1
        PROVE  c[j].seq \in {0, seq}
    <3>1. CASE j = m + 1
      BY <1>0, <3>1
    <3>2. CASE j # m + 1
      <4>1. j \in i .. m /\ c[j] = ch[j]
        BY <1>0, <3>2
      <4> QED BY <2>1, <2>2, <4>1 DEF InCh
    <3> QED BY <3>1, <3>2
  <2> QED BY <2>1, <2>2 DEF InCh
<1> QED BY <1>1, <1>2

\* An answer of the BMC: no acknowledgement, or one of what it saw last.
LEMMA AckChAppend ==
  ASSUME NEW P, NEW ch \in Seq(P), NEW p \in P,
         NEW seq, NEW last, NEW accepted, NEW waiting,
         AckCh(ch, seq, last, accepted, waiting), ~ waiting => last = seq,
         p.ack = 0 \/ (p.ack = last /\ p.count = accepted)
  PROVE  AckCh(Append(ch, p), seq, last, accepted, waiting)
<1> DEFINE c == Append(ch, p)
           m == Len(ch)
<1>0. m \in Nat /\ Len(c) = m + 1 /\ c[m + 1] = p /\ \A i \in 1 .. m : c[i] = ch[i]
  BY AppendProperties
<1> HIDE DEF c
<1> SUFFICES ASSUME NEW i \in 1 .. m + 1, c[i].ack # 0
    PROVE  /\ ~ waiting => c[i].ack = seq
           /\ waiting /\ last # seq => c[i].ack # seq
           /\ waiting /\ last = seq /\ c[i].ack = seq =>
                c[i].count = accepted /\ \A j \in i .. m + 1 : c[j].ack \in {0, seq}
  BY <1>0 DEF AckCh, c
<1>1. CASE i = m + 1
  <2>1. c[i] = p /\ \A j \in i .. m + 1 : j = i
    BY <1>0, <1>1
  <2> QED BY <2>1
<1>2. CASE i # m + 1
  <2>1. i \in 1 .. m /\ c[i] = ch[i]
    BY <1>0, <1>2
  <2>2. ASSUME waiting, last = seq, ch[i].ack = seq, NEW j \in i .. m + 1
        PROVE  c[j].ack \in {0, seq}
    <3>1. CASE j = m + 1
      BY <1>0, <2>2, <3>1
    <3>2. CASE j # m + 1
      <4>1. j \in i .. m /\ c[j] = ch[j]
        BY <1>0, <3>2
      <4> QED BY <2>1, <2>2, <4>1 DEF AckCh
    <3> QED BY <3>1, <3>2
  <2> QED BY <2>1, <2>2 DEF AckCh
<1> QED BY <1>1, <1>2

\* The sender starts a packet.
LEMMA InChNew ==
  ASSUME NEW ch, NEW seq, NEW data, NEW data2, NEW q,
         InCh(ch, seq, seq, data), q # seq
  PROVE  InCh(ch, q, seq, data2)
<1> SUFFICES ASSUME NEW i \in 1 .. Len(ch), ch[i].seq # 0 PROVE ch[i].seq = seq
  BY DEF InCh
<1> QED BY DEF InCh

LEMMA AckChNew ==
  ASSUME NEW ch, NEW seq, NEW accepted, NEW q,
         AckCh(ch, seq, seq, accepted, FALSE), q # seq
  PROVE  AckCh(ch, q, seq, accepted, TRUE)
<1> SUFFICES ASSUME NEW i \in 1 .. Len(ch), ch[i].ack # 0 PROVE ch[i].ack = seq
  BY DEF AckCh
<1> QED BY DEF AckCh

\* The BMC sees the sender's packet, the first of the channel.
LEMMA InChSeen ==
  ASSUME NEW P, NEW ch \in Seq(P), NEW seq, NEW last, NEW data,
         InCh(ch, seq, last, data), Len(ch) > 0, ch[1].seq = seq, seq # 0
  PROVE  InCh(ch, seq, seq, data)
<1>1. 1 \in 1 .. Len(ch)
  OBVIOUS
<1>2. \A j \in 1 .. Len(ch) : ch[j].seq \in {0, seq}
  BY <1>1 DEF InCh
<1> QED BY <1>2 DEF InCh

LEMMA AckChSeen ==
  ASSUME NEW ch, NEW seq, NEW last, NEW accepted, NEW k,
         AckCh(ch, seq, last, accepted, TRUE), last # seq
  PROVE  AckCh(ch, seq, seq, k, TRUE)
<1> SUFFICES ASSUME NEW i \in 1 .. Len(ch), ch[i].ack # 0 PROVE ch[i].ack # seq
  BY DEF AckCh
<1> QED BY DEF AckCh

\* The sender gets the acknowledgement of its packet, the first under way.
LEMMA AckChDone ==
  ASSUME NEW P, NEW ch \in Seq(P), NEW seq, NEW accepted,
         AckCh(ch, seq, seq, accepted, TRUE), Len(ch) > 0, ch[1].ack = seq, seq # 0
  PROVE  AckCh(ch, seq, seq, accepted, FALSE)
<1>1. 1 \in 1 .. Len(ch)
  OBVIOUS
<1>2. \A j \in 1 .. Len(ch) : ch[j].ack \in {0, seq}
  BY <1>1 DEF AckCh
<1> QED BY <1>2 DEF AckCh

\* b is the end of t.
EndOf(b, t) ==
  /\ Len(b) <= Len(t)
  /\ \A i \in 1 .. Len(b) : b[i] = t[(Len(t) - Len(b)) + i]

LEMMA EndAppend ==
  ASSUME NEW b \in Seq(Items), NEW t \in Seq(Items), NEW x \in Items, EndOf(b, t)
  PROVE  /\ EndOf(Append(b, x), Append(t, x))
         /\ Len(Append(b, x)) = Len(b) + 1 /\ Len(Append(t, x)) = Len(t) + 1
<1> DEFINE b2 == Append(b, x)
           t2 == Append(t, x)
           n == Len(b)
           m == Len(t)
<1>0. n \in Nat /\ m \in Nat /\ n <= m
  BY DEF EndOf
<1>1. Len(b2) = n + 1 /\ b2[n + 1] = x /\ \A i \in 1 .. n : b2[i] = b[i]
  BY AppendProperties
<1>2. Len(t2) = m + 1 /\ t2[m + 1] = x /\ \A i \in 1 .. m : t2[i] = t[i]
  BY AppendProperties
<1> HIDE DEF b2, t2
<1>3. ASSUME NEW i \in 1 .. n + 1 PROVE b2[i] = t2[((m + 1) - (n + 1)) + i]
  <2>1. CASE i = n + 1
    <3>1. ((m + 1) - (n + 1)) + i = m + 1
      BY <1>0, <2>1
    <3> QED BY <1>1, <1>2, <2>1, <3>1
  <2>2. CASE i # n + 1
    <3>1. i \in 1 .. n /\ ((m + 1) - (n + 1)) + i = (m - n) + i /\ (m - n) + i \in 1 .. m
      BY <1>0, <2>2
    <3>2. b[i] = t[(m - n) + i]
      BY <3>1 DEF EndOf
    <3> QED BY <1>1, <1>2, <3>1, <3>2
  <2> QED BY <2>1, <2>2
<1>4. n + 1 <= m + 1
  BY <1>0
<1> QED BY <1>1, <1>2, <1>3, <1>4 DEF EndOf, b2, t2

LEMMA EndRest ==
  ASSUME NEW b \in Seq(Items), NEW t \in Seq(Items), NEW c \in Nat, c <= Len(b),
         EndOf(b, t)
  PROVE  /\ EndOf(SubSeq(b, c + 1, Len(b)), t)
         /\ Len(SubSeq(b, c + 1, Len(b))) = Len(b) - c
<1> DEFINE n == Len(b)
           m == Len(t)
           k == c + 1
           r == SubSeq(b, k, n)
<1>0. n \in Nat /\ m \in Nat /\ n <= m /\ k \in Nat \ {0} /\ c <= n
  BY DEF EndOf
<1>1. n - k + 1 = n - c /\ (IF k <= n THEN n - k + 1 ELSE 0) = n - c
  BY <1>0
<1>2. \A i \in 1 .. n - c : /\ k + i - 1 = c + i /\ c + i \in 1 .. n
                           /\ (m - (n - c)) + i = (m - n) + (c + i)
  BY <1>0
<1>3. n - c <= m
  BY <1>0
<1> HIDE DEF k
<1>4. /\ Len(r) = IF k <= n THEN n - k + 1 ELSE 0
      /\ \A i \in 1 .. n - k + 1 : r[i] = b[k + i - 1]
  BY <1>0, SubSeqType
<1> HIDE DEF r
<1>5. ASSUME NEW i \in 1 .. n - c PROVE r[i] = t[(m - (n - c)) + i]
  <2>1. r[i] = b[k + i - 1] /\ k + i - 1 = c + i
    BY <1>1, <1>2, <1>4
  <2>2. b[c + i] = t[(m - n) + (c + i)]
    BY <1>2 DEF EndOf
  <2> QED BY <1>2, <2>1, <2>2
<1> QED BY <1>1, <1>3, <1>4, <1>5 DEF EndOf, r, k

\* The buffer is the end of what was typed, the BMC has what is before it and,
\* when it has seen the packet in flight, what it accepted of that packet,
\* which holds the front of the buffer.
InState(s, b, t) ==
  /\ ~ s.breakReq /\ ~ s.waitingBreak /\ s.before = 0
  /\ ~ s.waiting => b.last = s.seq
  /\ EndOf(s.buf, t)
  /\ Len(b.in) = (Len(t) - Len(s.buf))
                 + (IF s.waiting /\ b.last = s.seq THEN b.accepted ELSE 0)
  /\ s.waiting => /\ Len(s.data) <= Len(s.buf)
                  /\ \A i \in 1 .. Len(s.data) : s.data[i] = s.buf[i]
  /\ s.waiting /\ b.last = s.seq => b.accepted <= Len(s.data)

InFwd(ch, s, b) == InCh(ch, s.seq, b.last, s.data)
InAcks(ch, s, b) == AckCh(ch, s.seq, b.last, b.accepted, s.waiting)

InAll(s, b, t, fwd, back) == InState(s, b, t) /\ InFwd(fwd, s, b) /\ InAcks(back, s, b)

InputInv == open => InAll(snd, bmc, typed, toBmc, Back)

\* The BMC has a prefix of what was typed.
InPrefix ==
  /\ Len(bmc.in) <= Len(typed)
  /\ \A i \in 1 .. Len(bmc.in) : bmc.in[i] = typed[i]

\* Only these fields of the sender and of the BMC matter to the input.
LEMMA InSame ==
  ASSUME NEW s, NEW s2, NEW b, NEW b2, NEW t, NEW fwd, NEW back,
         InAll(s, b, t, fwd, back),
         s2.breakReq = s.breakReq, s2.waitingBreak = s.waitingBreak,
         s2.before = s.before, s2.waiting = s.waiting, s2.seq = s.seq,
         s2.buf = s.buf, s2.data = s.data,
         b2.last = b.last, b2.accepted = b.accepted, b2.in = b.in
  PROVE  InAll(s2, b2, t, fwd, back)
  BY DEF InAll, InState, InFwd, InAcks

LEMMA InTypes ==
  ASSUME NEW s \in Sender, NEW b \in Bmc
  PROVE  /\ s.buf \in Seq(Items) /\ Len(s.buf) \in Nat
         /\ s.data \in Seq(Items) /\ Len(s.data) \in Nat
         /\ s.seq \in 0 .. SeqMax /\ s.waiting \in BOOLEAN
         /\ b.in \in Seq(Items) /\ Len(b.in) \in Nat
         /\ b.accepted \in Nat /\ b.last \in 0 .. SeqMax
<1>1. s.buf \in Seq(Items) /\ s.data \in Seq(Items) /\ b.in \in Seq(Items)
  BY DEF Sender, Bmc
<1> QED BY <1>1 DEF Sender, Bmc

\* One more item of input.
LEMMA InRead ==
  ASSUME NEW s \in Sender, NEW b \in Bmc, NEW t \in Seq(Items), NEW fwd, NEW back,
         InAll(s, b, t, fwd, back), NEW x \in Items
  PROVE  InAll([s EXCEPT !.buf = Append(s.buf, x)], b, Append(t, x), fwd, back)
<1> DEFINE s2 == [s EXCEPT !.buf = Append(s.buf, x)]
           t2 == Append(t, x)
<1>0. s.buf \in Seq(Items) /\ Len(s.buf) \in Nat /\ Len(t) \in Nat
      /\ Len(s.data) \in Nat
  BY InTypes
<1>1. /\ EndOf(Append(s.buf, x), t2)
      /\ Len(Append(s.buf, x)) = Len(s.buf) + 1 /\ Len(t2) = Len(t) + 1
  BY <1>0, EndAppend DEF InAll, InState
<1>2. \A i \in 1 .. Len(s.buf) : Append(s.buf, x)[i] = s.buf[i]
  BY <1>0, AppendProperties
<1>3. /\ s2.breakReq = s.breakReq /\ s2.waitingBreak = s.waitingBreak
      /\ s2.before = s.before /\ s2.waiting = s.waiting /\ s2.seq = s.seq
      /\ s2.data = s.data /\ s2.buf = Append(s.buf, x)
  BY DEF Sender
<1>4. Len(t2) - Len(s2.buf) = Len(t) - Len(s.buf)
  <2> HIDE DEF s2, t2
  <2>1. \A x1, x2 \in Nat : (x1 + 1) - (x2 + 1) = x1 - x2
    OBVIOUS
  <2> QED BY <1>0, <1>1, <1>3, <2>1, ZenonT(60)
<1> HIDE DEF s2, t2
<1>5. s2.waiting => /\ Len(s2.data) <= Len(s2.buf)
                    /\ \A i \in 1 .. Len(s2.data) : s2.data[i] = s2.buf[i]
  <2> SUFFICES ASSUME s2.waiting
               PROVE  /\ Len(s.data) <= Len(s.buf) + 1
                      /\ \A i \in 1 .. Len(s.data) : s.data[i] = Append(s.buf, x)[i]
    BY <1>1, <1>3
  <2>1. Len(s.data) <= Len(s.buf) /\ \A i \in 1 .. Len(s.data) : s.data[i] = s.buf[i]
    BY <1>3 DEF InAll, InState
  <2>2. \A i \in 1 .. Len(s.data) : i \in 1 .. Len(s.buf)
    BY <1>0, <2>1
  <2> QED BY <1>0, <1>2, <2>1, <2>2
<1>6. InState(s2, b, t2)
  BY <1>1, <1>3, <1>4, <1>5 DEF InAll, InState
<1>7. InAll(s2, b, t2, fwd, back)
  BY <1>3, <1>6 DEF InAll, InFwd, InAcks
<1> QED BY <1>7 DEF s2, t2

\* A sender with nothing in flight puts the front of its buffer in a packet.
LEMMA InSendData ==
  ASSUME NEW s, SenderOK(s), NEW b \in Bmc, NEW t \in Seq(Items),
         NEW fwd \in Seq(Packets(Items)), NEW back, SeqMax >= 2,
         InAll(s, b, t, fwd, back), ~ s.waiting,
         NEW ack \in 0 .. SeqMax, NEW count \in Nat,
         NEW c \in Sent(fwd, DataPacket(WithData(s), ack, count))
  PROVE  InAll(WithData(s), b, t, c, back)
<1> DEFINE s2 == WithData(s)
           p == DataPacket(s2, ack, count)
<1>0. /\ SenderOK(s2) /\ s2.seq = NextSeq(s.seq) /\ s2.data = Peek(s)
      /\ s2.waiting /\ s2.buf = s.buf /\ s2.breakReq = s.breakReq
      /\ s2.waitingBreak = s.waitingBreak /\ s2.before = s.before
  BY WithDataType
<1>1. s \in Sender /\ s2 \in Sender
  BY <1>0 DEF SenderOK
<1>2. Len(Peek(s)) <= Len(s.buf) /\ \A i \in 1 .. Len(Peek(s)) : Peek(s)[i] = s.buf[i]
  BY <1>1, PeekType
<1>3. s.seq \in 0 .. SeqMax /\ s.waiting \in BOOLEAN
  BY <1>1 DEF Sender
<1>4. NextSeq(s.seq) # s.seq /\ s.waiting = FALSE /\ s2.waiting = TRUE
  BY <1>0, <1>1, <1>3, NextSeqDiffers DEF Sender
<1>5. p \in Packets(Items) /\ p.seq = s2.seq /\ p.data = s2.data /\ ~ p.op
  BY <1>1, SenderPackets DEF DataPacket, Packet
<1> HIDE DEF s2, p
<1>6. b.last = s.seq
  BY DEF InAll, InState
<1>7. InState(s2, b, t)
  BY <1>0, <1>2, <1>4, <1>6 DEF InAll, InState
<1>8. InCh(fwd, s2.seq, b.last, s2.data)
  BY <1>0, <1>4, <1>6, InChNew DEF InAll, InFwd
<1>9. InCh(Append(fwd, p), s2.seq, b.last, s2.data)
  BY <1>5, <1>8, InChAppend
<1>10. InFwd(c, s2, b)
  <2>1. c = fwd \/ c = Append(fwd, p)
    BY DEF Sent, s2, p
  <2> QED BY <1>8, <1>9, <2>1 DEF InFwd
<1>11. InAcks(back, s2, b)
  <2>1. AckCh(back, s.seq, s.seq, b.accepted, FALSE)
    BY <1>4, <1>6 DEF InAll, InAcks
  <2>2. AckCh(back, s2.seq, s.seq, b.accepted, TRUE)
    BY <1>0, <1>4, <2>1, AckChNew
  <2> QED BY <1>4, <1>6, <2>2 DEF InAcks
<1>12. InAll(s2, b, t, c, back)
  BY <1>7, <1>10, <1>11 DEF InAll
<1> QED BY <1>12 DEF s2

\* The sender's own packet again.
LEMMA InResend ==
  ASSUME NEW s \in Sender, NEW b \in Bmc, NEW t, NEW fwd \in Seq(Packets(Items)),
         NEW back, InAll(s, b, t, fwd, back), NEW c \in Sent(fwd, SameAgain(s))
  PROVE  InAll(s, b, t, c, back)
<1>1. ~ s.waitingBreak
  BY DEF InAll, InState
<1> DEFINE p == DataPacket(s, 0, 0)
<1>2. 0 \in 0 .. SeqMax
  BY SolAssumption
<1>3. p \in Packets(Items) /\ p.seq = s.seq /\ p.data = s.data /\ ~ p.op
  BY <1>2, SenderPackets DEF DataPacket, Packet
<1>4. c = fwd \/ c = Append(fwd, p)
  BY <1>1 DEF Sent, SameAgain
<1> HIDE DEF p
<1>5. InCh(Append(fwd, p), s.seq, b.last, s.data)
  BY <1>3, InChAppend DEF InAll, InFwd
<1> QED BY <1>4, <1>5 DEF InAll, InFwd

\* The sender handles the acknowledgement in the first packet under way.
LEMMA InAcked ==
  ASSUME NEW s \in Sender, NEW b \in Bmc, NEW t \in Seq(Items), NEW fwd,
         NEW back \in Seq(Packets(Out)), InAll(s, b, t, fwd, back),
         Len(back) > 0, NEW p, back[1] = p
  PROVE  InAll(Acked(s, p), b, t, fwd, back)
<1>1. CASE ~ IsAck(s, p)
  BY <1>1 DEF Acked
<1>2. CASE IsAck(s, p)
  <2>0. /\ s.buf \in Seq(Items) /\ Len(s.buf) \in Nat /\ Len(s.data) \in Nat
        /\ b.accepted \in Nat /\ Len(t) \in Nat /\ Len(b.in) \in Nat
    BY InTypes
  <2>1. p.ack # 0 /\ s.waiting /\ s.seq = p.ack /\ s.waiting = TRUE
    BY <1>2 DEF IsAck, Sender
  <2>2. /\ ~ s.waitingBreak /\ s.before = 0 /\ EndOf(s.buf, t)
        /\ ~ s.breakReq /\ Len(s.data) <= Len(s.buf)
    BY <2>1 DEF InAll, InState
  <2>3. 1 \in 1 .. Len(back)
    OBVIOUS
  <2>4. b.last = s.seq /\ p.count = b.accepted
    BY <2>1, <2>3 DEF InAll, InAcks, AckCh
  <2>5. b.accepted <= Len(s.data) /\ Len(b.in) = (Len(t) - Len(s.buf)) + b.accepted
    BY <2>1, <2>4 DEF InAll, InState
  <2> DEFINE n == b.accepted
             rest == SubSeq(s.buf, n + 1, Len(s.buf))
             s2 == [s EXCEPT !.buf = rest, !.before = 0, !.waiting = FALSE,
                             !.data = <<>>]
  <2>6. Acked(s, p) = s2
    <3>1. (IF p.count > Len(s.data) THEN Len(s.data) ELSE p.count) = n
      BY <2>0, <2>4, <2>5
    <3>2. (IF n > s.before THEN 0 ELSE s.before - n) = 0
      BY <2>0, <2>2
    <3> QED BY <1>2, <2>2, <3>1, <3>2 DEF Acked
  <2>7. n \in Nat /\ n <= Len(s.buf)
    BY <2>0, <2>2, <2>5
  <2>8. EndOf(rest, t) /\ Len(rest) = Len(s.buf) - n
    BY <2>0, <2>2, <2>7, EndRest
  <2>a. Len(b.in) = (Len(t) - Len(rest)) + 0
    <3>1. \A x, y, z \in Nat : (x - y) + z = (x - (y - z)) + 0
      OBVIOUS
    <3> QED BY <2>0, <2>5, <2>7, <2>8, <3>1
  <2> HIDE DEF rest, n
  <2>9. /\ s2.buf = rest /\ s2.before = 0 /\ s2.waiting = FALSE /\ s2.data = <<>>
        /\ s2.breakReq = s.breakReq /\ s2.waitingBreak = s.waitingBreak
        /\ s2.seq = s.seq
    BY DEF Sender
  <2> HIDE DEF s2
  <2>10. InState(s2, b, t)
    BY <2>2, <2>4, <2>8, <2>9, <2>a DEF InState
  <2>11. InFwd(fwd, s2, b)
    BY <2>4, <2>9 DEF InAll, InFwd, InCh
  <2>12. InAcks(back, s2, b)
    <3>1. AckCh(back, s.seq, s.seq, b.accepted, TRUE)
      BY <2>1, <2>4 DEF InAll, InAcks
    <3>2. AckCh(back, s.seq, s.seq, b.accepted, FALSE)
      BY <2>1, <3>1, AckChDone
    <3> QED BY <2>4, <2>9, <3>2 DEF InAcks
  <2> QED BY <2>6, <2>10, <2>11, <2>12 DEF InAll
<1> QED BY <1>1, <1>2

\* Packets gone from the front of either channel.
LEMMA InDropped ==
  ASSUME NEW s, NEW b, NEW t, NEW fwd \in Seq(Packets(Items)),
         NEW back \in Seq(Packets(Out)), NEW fwd2 \in Seq(Packets(Items)),
         NEW back2 \in Seq(Packets(Out)), NEW k \in Nat, NEW m \in Nat,
         Suffix(fwd2, fwd, k), Suffix(back2, back, m), InAll(s, b, t, fwd, back)
  PROVE  InAll(s, b, t, fwd2, back2)
  BY InChSuffix, AckChSuffix DEF InAll, InFwd, InAcks

LEMMA SuffixSelf ==
  ASSUME NEW S, NEW s \in Seq(S)
  PROVE  Suffix(s, s, 0)
  BY DEF Suffix

\* An acknowledgement without data is sent.
LEMMA InBare ==
  ASSUME NEW s, NEW b, NEW t, NEW fwd \in Seq(Packets(Items)), NEW back,
         InAll(s, b, t, fwd, back), NEW p \in Packets(Items), p.seq = 0,
         NEW c \in Sent(fwd, p)
  PROVE  InAll(s, b, t, c, back)
<1>1. c = fwd \/ c = Append(fwd, p)
  BY DEF Sent
<1>2. InCh(Append(fwd, p), s.seq, b.last, s.data)
  BY InChAppend DEF InAll, InFwd
<1> QED BY <1>1, <1>2 DEF InAll, InFwd

\* The BMC answers with what it saw last, or sends without acknowledging.
LEMMA InAnswer ==
  ASSUME NEW s, NEW b, NEW t, NEW fwd, NEW back \in Seq(Packets(Out)),
         InAll(s, b, t, fwd, back), NEW p \in Packets(Out),
         p.ack = 0 \/ (p.ack = b.last /\ p.count = b.accepted),
         NEW c, c = back \/ c = Append(back, p)
  PROVE  InAll(s, b, t, fwd, c)
<1>1. ~ s.waiting => b.last = s.seq
  BY DEF InAll, InState
<1>2. AckCh(Append(back, p), s.seq, b.last, b.accepted, s.waiting)
  BY <1>1, AckChAppend DEF InAll, InAcks
<1> QED BY <1>2 DEF InAll, InAcks

\* d continued with what follows in t.
Continued(d, e, t) ==
  /\ Len(e) <= Len(t)
  /\ \A i \in 1 .. Len(e) : e[i] = IF i <= Len(d) THEN d[i] ELSE t[i]

\* The BMC sees the sender's packet and accepts k characters of it.
LEMMA InAccept ==
  ASSUME NEW s \in Sender, NEW b \in Bmc, NEW t \in Seq(Items),
         NEW fwd \in Seq(Packets(Items)), NEW back, InAll(s, b, t, fwd, back),
         Len(fwd) > 0, NEW p \in Packets(Items), fwd[1] = p, p.seq # 0, p.seq # b.last,
         NEW k \in 0 .. Len(p.data)
  PROVE  /\ InAll(s, Accepting(b, p, k), t, fwd, back)
         /\ Continued(b.in, Accepting(b, p, k).in, t)
<1> DEFINE b2 == Accepting(b, p, k)
           got == SubSeq(p.data, 1, k)
<1>0. /\ s.buf \in Seq(Items) /\ Len(s.buf) \in Nat /\ Len(s.data) \in Nat
      /\ b.in \in Seq(Items) /\ Len(b.in) \in Nat /\ Len(t) \in Nat
      /\ k \in Nat /\ s.data \in Seq(Items)
  BY InTypes
<1>1. 1 \in 1 .. Len(fwd)
  OBVIOUS
<1>2. p.seq = s.seq /\ b.last # s.seq /\ p.data = s.data /\ ~ p.op
  BY <1>1 DEF InAll, InFwd, InCh
<1>3. s.waiting = TRUE
  BY <1>2 DEF InAll, InState, Sender
<1>4. /\ Len(s.data) <= Len(s.buf) /\ \A i \in 1 .. Len(s.data) : s.data[i] = s.buf[i]
      /\ EndOf(s.buf, t) /\ Len(b.in) = (Len(t) - Len(s.buf)) + 0
  BY <1>2, <1>3 DEF InAll, InState
<1>5. /\ b2 \in Bmc /\ b2.last = s.seq /\ b2.accepted = k
      /\ b2.in = b.in \o got \o <<>>
  BY <1>2, AcceptingType
<1>6. /\ got \in Seq(Items) /\ Len(got) = k
      /\ \A i \in 1 .. k : got[i] = s.data[i]
  <2>1. k <= Len(s.data)
    BY <1>2
  <2>2. /\ got \in Seq(Items) /\ Len(got) = IF 1 <= k THEN k - 1 + 1 ELSE 0
        /\ \A i \in 1 .. k - 1 + 1 : got[i] = s.data[1 + i - 1]
    <3>1. got = SubSeq(s.data, 1, k)
      BY <1>2
    <3> HIDE DEF got
    <3> QED BY <1>0, <2>1, <3>1, SubSeqType
  <2> HIDE DEF got
  <2>3. k - 1 + 1 = k /\ (IF 1 <= k THEN k - 1 + 1 ELSE 0) = k
        /\ \A i \in 1 .. k : 1 + i - 1 = i
    BY <1>0
  <2> QED BY <2>2, <2>3
<1> HIDE DEF b2, got
<1>7. b2.in = b.in \o got
  <2>1. b.in \o got \in Seq(Items)
    BY <1>0, <1>6, ConcatProperties
  <2> QED BY <1>5, <2>1, ConcatEmptySeq
<1>8. /\ Len(b.in \o got) = Len(b.in) + k
      /\ \A i \in 1 .. Len(b.in) + k : (b.in \o got)[i] =
           IF i <= Len(b.in) THEN b.in[i] ELSE got[i - Len(b.in)]
  <2> DEFINE d == b.in
  <2>1. d \in Seq(Items) /\ got \in Seq(Items) /\ Len(got) = k
    BY <1>0, <1>6
  <2> HIDE DEF d
  <2>2. /\ Len(d \o got) = Len(d) + Len(got)
        /\ \A i \in 1 .. Len(d) + Len(got) : (d \o got)[i] =
             IF i <= Len(d) THEN d[i] ELSE got[i - Len(d)]
    BY <2>1, ConcatProperties
  <2>3. /\ Len(d \o got) = Len(d) + k
        /\ \A i \in 1 .. Len(d) + k : (d \o got)[i] =
             IF i <= Len(d) THEN d[i] ELSE got[i - Len(d)]
    BY <2>1, <2>2
  <2> QED BY <2>3 DEF d
<1>9. k <= Len(s.data) /\ k <= Len(s.buf)
  BY <1>0, <1>2, <1>4
<1>10. Len(b.in) + k <= Len(t) /\ Len(s.buf) <= Len(t)
  <2>1. Len(s.buf) <= Len(t)
    BY <1>4 DEF EndOf
  <2> QED BY <1>0, <1>4, <1>9, <2>1
<1>11. ASSUME NEW i \in 1 .. Len(b.in) + k
       PROVE  (b.in \o got)[i] = IF i <= Len(b.in) THEN b.in[i] ELSE t[i]
  <2>1. CASE i <= Len(b.in)
    BY <1>8, <2>1
  <2>2. CASE ~ (i <= Len(b.in))
    <3> DEFINE j == i - Len(b.in)
    <3>1. j \in 1 .. k /\ j \in 1 .. Len(s.data) /\ j \in 1 .. Len(s.buf)
          /\ (Len(t) - Len(s.buf)) + j = i
      <4>1. \A x, y, z, d \in Nat :
              /\ x = (y - z) + 0 /\ i \in 1 .. x + k /\ ~ (i <= x) /\ k <= d /\ k <= z
              => /\ i - x \in 1 .. k /\ i - x \in 1 .. d /\ i - x \in 1 .. z
                 /\ (y - z) + (i - x) = i
        BY <1>0
      <4> QED BY <1>0, <1>4, <1>9, <2>2, <4>1
    <3> HIDE DEF j
    <3>2. got[j] = s.buf[j] /\ s.buf[j] = t[(Len(t) - Len(s.buf)) + j]
      BY <1>4, <1>6, <3>1 DEF EndOf
    <3> QED BY <1>8, <2>2, <3>1, <3>2 DEF j
  <2> QED BY <2>1, <2>2
<1>12. InState(s, b2, t)
  <2>1. Len(b2.in) = (Len(t) - Len(s.buf)) + k
    BY <1>0, <1>4, <1>7, <1>8
  <2> QED BY <1>3, <1>4, <1>5, <1>9, <2>1 DEF InAll, InState
<1>13. InFwd(fwd, s, b2)
  BY <1>2, <1>5, InChSeen DEF InAll, InFwd
<1>14. InAcks(back, s, b2)
  BY <1>2, <1>3, <1>5, AckChSeen DEF InAll, InAcks
<1>15. Continued(b.in, b2.in, t)
  BY <1>7, <1>8, <1>10, <1>11 DEF Continued
<1> QED BY <1>12, <1>13, <1>14, <1>15 DEF InAll, b2

LEMMA InInit == Init => InputInv /\ InPrefix
<1> SUFFICES ASSUME Init PROVE InputInv /\ InPrefix
  OBVIOUS
<1>1. Len(<<>>) = 0 /\ Len(<<>> \o <<>>) = 0
  OBVIOUS
<1>2. InState(snd, bmc, typed)
  BY <1>1 DEF Init, InState, EndOf
<1>3. InFwd(toBmc, snd, bmc)
  BY <1>1 DEF Init, InFwd, InCh
<1>4. InAcks(Back, snd, bmc)
  BY <1>1 DEF Init, InAcks, AckCh, Back, None
<1> QED BY <1>1, <1>2, <1>3, <1>4 DEF InputInv, InAll, InPrefix, Init

\* More input leaves what the BMC has a prefix of it.
LEMMA PrefixRead ==
  ASSUME TypeInv, InPrefix, NEW x \in Items, typed' = Append(typed, x), bmc' = bmc
  PROVE  InPrefix'
<1>0. typed \in Seq(Items) /\ Len(typed) \in Nat /\ Len(bmc.in) \in Nat
  <2>1. bmc.in \in Seq(Items) /\ typed \in Seq(Items)
    BY DEF TypeInv, Bmc
  <2> QED BY <2>1
<1>1. Len(typed') = Len(typed) + 1 /\ \A i \in 1 .. Len(typed) : typed'[i] = typed[i]
  BY <1>0, AppendProperties
<1>2. \A i \in 1 .. Len(bmc.in) : i \in 1 .. Len(typed)
  BY <1>0 DEF InPrefix
<1> QED BY <1>0, <1>1, <1>2 DEF InPrefix

LEMMA InConsoleRead ==
  TypeInv /\ InputInv /\ InPrefix /\ ConsoleRead => InputInv' /\ InPrefix'
<1> SUFFICES ASSUME TypeInv, InputInv, InPrefix, ConsoleRead
             PROVE  InputInv' /\ InPrefix'
  OBVIOUS
<1> DEFINE x == Len(typed) + 1
<1>0. /\ typed \in Seq(Items) /\ snd \in Sender /\ bmc \in Bmc /\ open
      /\ Len(typed) < MaxTyped /\ typed' = Append(typed, x)
      /\ UNCHANGED <<rcv, rx, toBmc, toConsole, bmc, userOut>>
  BY DEF TypeInv, SenderOK, ConsoleRead
<1>1. x \in Items
  BY <1>0, SolAssumption DEF Items
<1>2. open' = FALSE \/ (open' = open /\ snd' = [snd EXCEPT !.buf = Append(snd.buf, x)])
  BY DEF ConsoleRead
<1> HIDE DEF x
<1>3. InPrefix'
  BY <1>0, <1>1, PrefixRead
<1>4. InAll([snd EXCEPT !.buf = Append(snd.buf, x)], bmc, typed', toBmc, Back)
  BY <1>0, <1>1, InRead DEF InputInv
<1>5. Back' = Back
  BY <1>0 DEF Back
<1> QED BY <1>0, <1>2, <1>3, <1>4, <1>5 DEF InputInv

\* With no break allowed none is requested.
LEMMA NoAsyncBreak ==
  ASSUME TypeInv, MaxBreaks = 0
  PROVE  ~ AsyncBreak
<1>1. typed \in Seq(Items)
  BY DEF TypeInv
<1> DEFINE S == {i \in DOMAIN typed : typed[i] = Break}
<1>2. DOMAIN typed = 1 .. Len(typed) /\ Len(typed) \in Nat
  BY <1>1, LenProperties
<1>3. IsFiniteSet(1 .. Len(typed))
  BY <1>2, FS_Interval
<1>4. IsFiniteSet(S)
  BY <1>2, <1>3, FS_Subset
<1>5. Cardinality(S) \in Nat
  BY <1>4, FS_CardinalityType
<1> QED BY <1>5 DEF AsyncBreak, Breaks

LEMMA InSendPending ==
  SeqMax >= 2 /\ TypeInv /\ InputInv /\ InPrefix /\ SendPending => InputInv' /\ InPrefix'
<1> SUFFICES ASSUME SeqMax >= 2, TypeInv, InputInv, InPrefix, SendPending
             PROVE  InputInv' /\ InPrefix'
  OBVIOUS
<1>0. /\ typed \in Seq(Items) /\ SenderOK(snd) /\ bmc \in Bmc /\ open /\ ~ snd.waiting
      /\ toBmc \in Seq(Packets(Items)) /\ 0 \in 0 .. SeqMax
      /\ UNCHANGED <<rcv, open, rx, toConsole, bmc, typed, userOut>>
  BY SolAssumption DEF TypeInv, SendPending
<1>1. InAll(snd, bmc, typed, toBmc, Back) /\ ~ snd.breakReq
  BY <1>0 DEF InputInv, InAll, InState
<1>2. snd' = WithData(snd) /\ toBmc' \in Sent(toBmc, DataPacket(WithData(snd), 0, 0))
  BY <1>1 DEF SendPending
<1>3. InAll(snd', bmc, typed, toBmc', Back)
  BY <1>0, <1>1, <1>2, InSendData
<1> QED BY <1>0, <1>3 DEF InputInv, InPrefix, Back

LEMMA InRetransmit ==
  ~ IncrementWorkaround /\ TypeInv /\ InputInv /\ InPrefix /\ Retransmit
    => InputInv' /\ InPrefix'
<1> SUFFICES ASSUME ~ IncrementWorkaround, TypeInv, InputInv, InPrefix, Retransmit
             PROVE  InputInv' /\ InPrefix'
  OBVIOUS
<1>0. /\ SenderOK(snd) /\ snd \in Sender /\ bmc \in Bmc /\ open
      /\ toBmc \in Seq(Packets(Items))
      /\ UNCHANGED <<rcv, rx, toConsole, bmc, typed, userOut>>
  BY DEF TypeInv, SenderOK, Retransmit
<1>1. InPrefix'
  BY <1>0 DEF InPrefix
<1>2. CASE open' = FALSE
  BY <1>1, <1>2 DEF InputInv
<1>3. CASE /\ toBmc' \in Sent(toBmc, SameAgain(snd')) /\ open' = open
           /\ snd' = [snd EXCEPT !.retx = snd.retx + 1] /\ SenderOK(snd')
  <2>1. /\ snd'.breakReq = snd.breakReq /\ snd'.waitingBreak = snd.waitingBreak
        /\ snd'.before = snd.before /\ snd'.waiting = snd.waiting
        /\ snd'.seq = snd.seq /\ snd'.buf = snd.buf /\ snd'.data = snd.data
    BY <1>0, <1>3 DEF Sender
  <2>2. InAll(snd, bmc, typed, toBmc, Back)
    BY <1>0 DEF InputInv
  <2>3. InAll(snd', bmc, typed, toBmc, Back)
    BY <2>1, <2>2, InSame
  <2>4. InAll(snd', bmc, typed, toBmc', Back)
    BY <1>0, <1>3, <2>3, InResend DEF SenderOK
  <2> QED BY <1>0, <1>1, <2>4 DEF InputInv, Back
<1> QED BY <1>2, <1>3, RetransmitCases

LEMMA InKeepalive ==
  SeqMax >= 2 /\ TypeInv /\ InputInv /\ InPrefix /\ SendSerialKeepalive
    => InputInv' /\ InPrefix'
<1> SUFFICES ASSUME SeqMax >= 2, TypeInv, InputInv, InPrefix, SendSerialKeepalive
             PROVE  InputInv' /\ InPrefix'
  OBVIOUS
<1>0. /\ typed \in Seq(Items) /\ SenderOK(snd) /\ snd \in Sender /\ bmc \in Bmc /\ open
      /\ ~ snd.waiting /\ snd.buf = <<>> /\ toBmc \in Seq(Packets(Items))
      /\ 0 \in 0 .. SeqMax /\ 0 \in Items
      /\ UNCHANGED <<rcv, open, rx, toConsole, bmc, userOut>>
  <2>1. /\ open /\ ~ snd.waiting /\ snd.buf = <<>>
        /\ UNCHANGED <<rcv, open, rx, toConsole, bmc, userOut>>
    BY DEF SendSerialKeepalive
  <2> QED BY <2>1, SolAssumption DEF TypeInv, SenderOK, Items
<1>1. InAll(snd, bmc, typed, toBmc, Back)
  BY <1>0 DEF InputInv
<1>2. PICK s : /\ SenderOK(s) /\ snd' = WithData(s)
               /\ toBmc' \in Sent(toBmc, DataPacket(WithData(s), 0, 0))
               /\ \/ s = snd /\ typed' = typed
                  \/ /\ s = [snd EXCEPT !.buf = <<0>>]
                     /\ Len(typed) < MaxTyped /\ typed' = Append(typed, 0)
  BY KeepaliveCases
<1>3. InAll(s, bmc, typed', toBmc, Back) /\ ~ s.waiting /\ typed' \in Seq(Items)
  <2>1. CASE s = snd /\ typed' = typed
    BY <1>0, <1>1, <2>1
  <2>2. CASE s = [snd EXCEPT !.buf = <<0>>] /\ typed' = Append(typed, 0)
    <3>1. Append(snd.buf, 0) = <<0>>
      BY <1>0
    <3>2. InAll([snd EXCEPT !.buf = Append(snd.buf, 0)], bmc, Append(typed, 0), toBmc, Back)
      BY <1>0, <1>1, InRead
    <3>3. ~ s.waiting
      BY <1>0, <2>2 DEF Sender
    <3>4. Append(typed, 0) \in Seq(Items)
      BY <1>0, AppendProperties
    <3> QED BY <2>2, <3>1, <3>2, <3>3, <3>4
  <2> QED BY <1>2, <2>1, <2>2
<1>4. InAll(snd', bmc, typed', toBmc', Back)
  BY <1>0, <1>2, <1>3, InSendData
<1>5. InPrefix'
  BY <1>0, <1>2, PrefixRead DEF InPrefix
<1> QED BY <1>0, <1>4, <1>5 DEF InputInv, Back

LEMMA InRecv ==
  ~ Reordering /\ TypeInv /\ TypeInv' /\ InputInv /\ InPrefix /\ RecvFrom
    => InputInv' /\ InPrefix'
<1> SUFFICES ASSUME ~ Reordering, TypeInv, TypeInv', InputInv, InPrefix, RecvFrom
             PROVE  InputInv' /\ InPrefix'
  OBVIOUS
<1>1. open /\ UNCHANGED <<snd, rcv, open, toBmc, bmc, typed, userOut>>
  BY DEF RecvFrom
<1>2. Len(rx) \in Nat /\ Suffix(Back', Back, Len(rx))
  BY BackRecv
<1>3. /\ Back \in Seq(Packets(Out)) /\ Back' \in Seq(Packets(Out))
      /\ toBmc \in Seq(Packets(Items))
  <2>1. rx' \in Seq(Packets(Out)) /\ toConsole' \in Seq(Packets(Out))
    BY DEF TypeInv
  <2> QED BY <2>1, BackType, ConcatProperties DEF Back, TypeInv
<1>4. Suffix(toBmc, toBmc, 0) /\ 0 \in Nat
  BY <1>3, SuffixSelf
<1>5. InAll(snd, bmc, typed, toBmc, Back')
  BY <1>1, <1>2, <1>3, <1>4, InDropped DEF InputInv
<1> QED BY <1>1, <1>5 DEF InputInv, InPrefix

LEMMA InReceive ==
  SeqMax >= 2 /\ TypeInv /\ TypeInv' /\ InputInv /\ InPrefix /\ SolReceive
    => InputInv' /\ InPrefix'
<1> SUFFICES ASSUME SeqMax >= 2, TypeInv, TypeInv', InputInv, InPrefix, SolReceive
             PROVE  InputInv' /\ InPrefix'
  OBVIOUS
<1>0. open /\ UNCHANGED <<toConsole, bmc, typed, userOut>>
  BY ReceiveCases
<1>p. InPrefix'
  BY <1>0 DEF InPrefix
<1>1. /\ snd \in Sender /\ bmc \in Bmc /\ typed \in Seq(Items)
      /\ toBmc \in Seq(Packets(Items)) /\ 0 \in 0 .. SeqMax
  BY SolAssumption DEF TypeInv, SenderOK
<1>2. /\ Suffix(Back', Back, 1) /\ Len(Back) > 0 /\ Back[1] = Taken
      /\ Back \in Seq(Packets(Out)) /\ Back' \in Seq(Packets(Out))
  <2>1. rx' \in Seq(Packets(Out)) /\ toConsole' \in Seq(Packets(Out))
    BY DEF TypeInv
  <2> QED BY <2>1, BackTake, BackType, ConcatProperties DEF Back
<1>3. /\ Taken \in Packets(Out) /\ SenderOK(Settled)
      /\ SenderOK([snd EXCEPT !.retx = 0, !.wretx = 0])
      /\ Taken.seq \in 0 .. SeqMax /\ Len(Taken.data) \in Nat
  <2>1. Taken \in Packets(Out) /\ SenderOK(Settled)
        /\ SenderOK([snd EXCEPT !.retx = 0, !.wretx = 0])
    BY TakenType
  <2>2. Taken.data \in Seq(Out)
    BY <2>1 DEF Packets
  <2> QED BY <2>1, <2>2 DEF Packets
<1>4. InAll(Settled, bmc, typed, toBmc, Back')
  <2> DEFINE s == [snd EXCEPT !.retx = 0, !.wretx = 0]
  <2>1. /\ s.breakReq = snd.breakReq /\ s.waitingBreak = snd.waitingBreak
        /\ s.before = snd.before /\ s.waiting = snd.waiting
        /\ s.seq = snd.seq /\ s.buf = snd.buf /\ s.data = snd.data
    BY <1>1 DEF Sender
  <2>2. s \in Sender /\ Settled = Acked(s, Taken)
    BY <1>3 DEF Settled, SenderOK
  <2> HIDE DEF s
  <2>3. InAll(snd, bmc, typed, toBmc, Back)
    BY <1>0 DEF InputInv
  <2>4. InAll(s, bmc, typed, toBmc, Back)
    BY <2>1, <2>3, InSame
  <2>5. InAll(Settled, bmc, typed, toBmc, Back)
    BY <1>1, <1>2, <2>2, <2>4, InAcked
  <2>6. Suffix(toBmc, toBmc, 0) /\ 0 \in Nat /\ 1 \in Nat
    BY <1>1, SuffixSelf
  <2> QED BY <1>1, <1>2, <2>5, <2>6, InDropped
<1>5. CASE open' = FALSE
  BY <1>p, <1>5 DEF InputInv
<1>6. ASSUME NEW ack \in 0 .. SeqMax, NEW n \in Nat, ~ Settled.waiting,
             snd' = WithData(Settled),
             toBmc' \in Sent(toBmc, DataPacket(WithData(Settled), ack, n))
      PROVE  InputInv' /\ InPrefix'
  <2>1. InAll(snd', bmc, typed, toBmc', Back')
    BY <1>1, <1>3, <1>4, <1>6, InSendData
  <2> QED BY <1>0, <1>p, <2>1 DEF InputInv
<1>7. ASSUME snd' = Settled, \/ toBmc' = toBmc
                             \/ toBmc' \in Sent(toBmc,
                                  Packet(0, Taken.seq, Len(Taken.data), FALSE, <<>>))
      PROVE  InputInv' /\ InPrefix'
  <2> DEFINE q == Packet(0, Taken.seq, Len(Taken.data), FALSE, <<>>)
  <2>1. q \in Packets(Items) /\ q.seq = 0
    <3>1. <<>> \in Seq(Items)
      BY EmptySeq
    <3> QED BY <1>1, <1>3, <3>1, PacketType DEF Packet
  <2>2. toBmc' = toBmc \/ toBmc' \in Sent(toBmc, q)
    BY <1>7
  <2> HIDE DEF q
  <2>3. InAll(snd', bmc, typed, toBmc', Back')
    BY <1>1, <1>4, <1>7, <2>1, <2>2, InBare
  <2> QED BY <1>0, <1>p, <2>3 DEF InputInv
<1>8. ~ Settled.breakReq
  BY <1>4 DEF InAll, InState
<1> QED BY <1>1, <1>3, <1>5, <1>6, <1>7, <1>8, ReceiveCases

LEMMA InBmcReceive ==
  ~ Reordering /\ TypeInv /\ TypeInv' /\ InputInv /\ InPrefix /\ BmcReceive
    => InputInv' /\ InPrefix'
<1> SUFFICES ASSUME ~ Reordering, TypeInv, TypeInv', InputInv, InPrefix, BmcReceive
             PROVE  InputInv' /\ InPrefix'
  OBVIOUS
<1>0. /\ toBmc \in Seq(Packets(Items)) /\ bmc \in Bmc /\ bmc' \in Bmc /\ snd \in Sender
      /\ typed \in Seq(Items) /\ Back \in Seq(Packets(Out))
  BY BackType DEF TypeInv, SenderOK
<1>1. Len(toBmc) > 0 /\ Receives(1)
  <2>1. PICK i \in 1 .. Len(toBmc) : Receives(i)
    BY BmcReceiveCases
  <2>2. i = 1
    BY <2>1 DEF Receives
  <2> QED BY <1>0, <2>1, <2>2
<1> DEFINE p == toBmc[1]
           b == BmcAcked(bmc, p)
<1>2. open /\ toBmc' = RemoveAt(toBmc, 1) /\ UNCHANGED <<snd, rcv, open, rx, typed, userOut>>
  BY <1>1 DEF Receives
<1>3. p \in Packets(Items) /\ p.seq \in 0 .. SeqMax /\ b \in Bmc
      /\ b.last = bmc.last /\ b.accepted = bmc.accepted /\ b.in = bmc.in
  <2>1. p \in Packets(Items)
    BY <1>0, <1>1
  <2> QED BY <1>0, <2>1, BmcAckedType DEF Packets
<1>4. InAll(snd, b, typed, toBmc, Back)
  <2> HIDE DEF b
  <2> QED BY <1>2, <1>3, InSame DEF InputInv
<1>5. InAll(snd, bmc', typed, toBmc, Back) /\ InPrefix'
  <2>1. CASE bmc' = b
    BY <1>2, <1>3, <1>4, <2>1 DEF InPrefix
  <2>2. CASE bmc' # b
    <3>1. PICK k \in 0 .. Len(p.data) : bmc' = Accepting(b, p, k)
      BY <1>1, <2>2 DEF Receives
    <3>2. p.seq # 0 /\ p.seq # b.last /\ toBmc[1] = p
      BY <1>1, <2>2 DEF Receives
    <3> HIDE DEF b, p
    <3>3. /\ snd \in Sender /\ b \in Bmc /\ typed \in Seq(Items)
          /\ toBmc \in Seq(Packets(Items)) /\ InAll(snd, b, typed, toBmc, Back)
          /\ Len(toBmc) > 0 /\ p \in Packets(Items) /\ toBmc[1] = p
          /\ p.seq # 0 /\ p.seq # b.last
      BY <1>0, <1>1, <1>3, <1>4, <3>2
    <3>4. InAll(snd, bmc', typed, toBmc, Back) /\ Continued(b.in, bmc'.in, typed)
      <4>1. /\ InAll(snd, Accepting(b, p, k), typed, toBmc, Back)
            /\ Continued(b.in, Accepting(b, p, k).in, typed)
        BY <3>3, InAccept
      <4> QED BY <3>1, <4>1
    <3>5. \A i \in 1 .. Len(bmc'.in) : bmc'.in[i] = typed[i]
      <4>1. Len(b.in) \in Nat /\ \A i \in 1 .. Len(b.in) : b.in[i] = typed[i]
        BY <1>0, <1>3, InTypes DEF InPrefix
      <4>2. \A i \in 1 .. Len(bmc'.in) : i <= Len(b.in) => i \in 1 .. Len(b.in)
        BY <4>1
      <4> QED BY <3>4, <4>1, <4>2 DEF Continued
    <3> QED BY <1>2, <3>4, <3>5 DEF InPrefix, Continued
  <2> QED BY <2>1, <2>2
<1>6. toBmc' \in Seq(Packets(Items)) /\ Suffix(toBmc', toBmc, 1)
  BY <1>0, <1>1, <1>2, RemoveHead
<1>7. InAll(snd, bmc', typed, toBmc', Back)
  <2>1. Suffix(Back, Back, 0) /\ 0 \in Nat /\ 1 \in Nat
    BY <1>0, SuffixSelf
  <2> QED BY <1>0, <1>5, <1>6, <2>1, InDropped
<1>8. InAll(snd, bmc', typed, toBmc', Back')
  <2>1. CASE toConsole' = toConsole
    BY <1>2, <1>7, <2>1 DEF Back
  <2>2. CASE toConsole' # toConsole
    <3>1. bmc'.accepted \in Nat /\ p.seq # 0 /\ bmc'.last = p.seq
      <4>1. bmc'.accepted \in Nat /\ p.seq # 0
        BY <1>0, <1>1, <2>2 DEF Bmc, Receives
      <4>2. \/ p.seq = b.last /\ bmc' = b
            \/ \E k \in 0 .. Len(p.data) : bmc' = Accepting(b, p, k)
        BY <1>1, <4>1 DEF Receives
      <4> HIDE DEF b, p
      <4>3. ASSUME NEW k \in 0 .. Len(p.data), bmc' = Accepting(b, p, k)
            PROVE  bmc'.last = p.seq
        BY <1>3, <4>3, AcceptingType
      <4> QED BY <4>1, <4>2, <4>3
    <3> DEFINE full == BmcPacket(bmc', p.seq, bmc'.accepted)
               bare == Packet(0, p.seq, bmc'.accepted, FALSE, <<>>)
    <3>2. /\ full \in Packets(Out) /\ bare \in Packets(Out)
          /\ full.ack = p.seq /\ full.count = bmc'.accepted
          /\ bare.ack = p.seq /\ bare.count = bmc'.accepted
      <4>1. full \in Packets(Out) /\ bare \in Packets(Out)
        BY <1>0, <1>3, <3>1, BmcPacketType
      <4> HIDE DEF p
      <4> QED BY <4>1 DEF BmcPacket, Packet
    <3>3. toConsole' \in Sent(toConsole, full) \/ toConsole' \in Sent(toConsole, bare)
      BY <1>1, <2>2 DEF Receives
    <3> HIDE DEF full, bare
    <3>4. PICK q \in Packets(Out) : /\ q.ack = p.seq /\ q.count = bmc'.accepted
                                    /\ toConsole' \in Sent(toConsole, q)
      BY <3>2, <3>3
    <3>5. Back' = Back \/ Back' = Append(Back, q)
      BY <1>2, <3>4, BackSend
    <3> HIDE DEF p
    <3> QED BY <1>0, <1>7, <3>1, <3>4, <3>5, InAnswer
  <2> QED BY <2>1, <2>2
<1> QED BY <1>2, <1>5, <1>8 DEF InputInv

LEMMA InBmcSends ==
  TypeInv /\ InputInv /\ InPrefix /\ (BmcOutput \/ BmcRetransmit \/ BmcDeactivate)
    => InputInv' /\ InPrefix'
<1> SUFFICES ASSUME TypeInv, InputInv, InPrefix,
                    BmcOutput \/ BmcRetransmit \/ BmcDeactivate
             PROVE  InputInv' /\ InPrefix'
  OBVIOUS
<1>0. open /\ UNCHANGED <<snd, rcv, open, rx, toBmc, typed, userOut>>
  BY DEF BmcOutput, BmcRetransmit, BmcDeactivate
<1>1. bmc \in Bmc /\ Back \in Seq(Packets(Out)) /\ 0 \in 0 .. SeqMax
  BY BackType, SolAssumption DEF TypeInv
<1>2. /\ bmc' \in Bmc /\ bmc'.last = bmc.last /\ bmc'.accepted = bmc.accepted
      /\ bmc'.in = bmc.in
  BY <1>1, BmcOutputStep DEF BmcRetransmit, BmcDeactivate
<1>3. PICK p \in Packets(Out) : p.ack = 0 /\ toConsole' \in Sent(toConsole, p)
  <2>1. Packet(0, 0, 0, TRUE, <<>>).ack = 0 /\ BmcPacket(bmc, 0, 0).ack = 0
        /\ BmcPacket(bmc', 0, 0).ack = 0
    BY DEF Packet, BmcPacket
  <2>2. BmcPacket(bmc, 0, 0) \in Packets(Out) /\ BmcPacket(bmc', 0, 0) \in Packets(Out)
    BY <1>1, <1>2, BmcPacketType
  <2> QED BY <2>1, <2>2, DeactivateType DEF BmcOutput, BmcRetransmit, BmcDeactivate
<1>4. Back' = Back \/ Back' = Append(Back, p)
  BY <1>0, <1>3, BackSend
<1>5. InAll(snd, bmc', typed, toBmc, Back)
  BY <1>0, <1>2, InSame DEF InputInv
<1>6. InAll(snd, bmc', typed, toBmc, Back')
  BY <1>1, <1>3, <1>4, <1>5, InAnswer
<1> QED BY <1>0, <1>2, <1>6 DEF InputInv, InPrefix

LEMMA InStep ==
  ASSUME ~ Reordering, SeqMax >= 2, ~ IncrementWorkaround, MaxBreaks = 0
  PROVE  TypeInv /\ TypeInv' /\ InputInv /\ InPrefix /\ [Next]_vars
           => InputInv' /\ InPrefix'
<1> SUFFICES ASSUME TypeInv, TypeInv', InputInv, InPrefix, [Next]_vars
             PROVE  InputInv' /\ InPrefix'
  OBVIOUS
<1>1. CASE UNCHANGED vars
  BY <1>1 DEF vars, InputInv, InPrefix, Back
<1>2. CASE ConsoleWrite
  BY <1>2 DEF ConsoleWrite, InputInv, InPrefix, Back
<1> QED BY <1>1, <1>2, InConsoleRead, NoAsyncBreak, InSendPending, InRetransmit,
           InKeepalive, InRecv, InReceive, InBmcReceive, InBmcSends DEF Next

LEMMA InInvariant ==
  ASSUME ~ Reordering, SeqMax >= 2, ~ IncrementWorkaround, MaxBreaks = 0
  PROVE  Spec => [](TypeInv /\ InputInv /\ InPrefix)
<1>1. Init => TypeInv /\ InputInv /\ InPrefix
  BY InitType, InInit
<1>2. TypeInv /\ InputInv /\ InPrefix /\ [Next]_vars => (TypeInv /\ InputInv /\ InPrefix)'
  BY TypeStep, InStep
<1> QED BY <1>1, <1>2, PTL DEF Spec

\* A prefix of a sequence is a subsequence from 1.
LEMMA PrefixIsSubSeq ==
  ASSUME NEW S, NEW t \in Seq(S), NEW d \in Seq(S), Len(d) <= Len(t),
         \A i \in 1 .. Len(d) : d[i] = t[i]
  PROVE  d = SubSeq(t, 1, Len(d))
<1> DEFINE m == Len(d)
           v == SubSeq(t, 1, m)
<1>0. m \in Nat /\ m <= Len(t) /\ \A i \in 1 .. m : d[i] = t[i]
  OBVIOUS
<1> HIDE DEF m
<1>1. /\ v \in Seq(S) /\ Len(v) = IF 1 <= m THEN m - 1 + 1 ELSE 0
      /\ \A i \in 1 .. m - 1 + 1 : v[i] = t[1 + i - 1]
  BY <1>0, SubSeqType
<1> HIDE DEF v
<1>2. Len(v) = m
  BY <1>0, <1>1
<1>3. ASSUME NEW i \in 1 .. m PROVE v[i] = d[i]
  <2>1. i \in 1 .. m - 1 + 1 /\ 1 + i - 1 = i
    BY <1>0
  <2> QED BY <1>0, <1>1, <2>1
<1>4. d = v
  BY <1>1, <1>2, <1>3, SeqEqual DEF m
<1> QED BY <1>4 DEF v, m

\* The BMC's input only grows.
LEMMA InGrows ==
  ASSUME TypeInv, BmcReceive
  PROVE  bmc'.in = bmc.in \/ Len(bmc'.in) > Len(bmc.in)
<1>0. bmc \in Bmc /\ toBmc \in Seq(Packets(Items))
  BY DEF TypeInv
<1>1. PICK i \in 1 .. Len(toBmc) : Receives(i)
  BY BmcReceiveCases
<1> DEFINE p == toBmc[i]
           b == BmcAcked(bmc, p)
<1>2. b \in Bmc /\ b.in = bmc.in /\ p \in Packets(Items)
  BY <1>0, BmcAckedType
<1>3. CASE bmc' = b
  BY <1>2, <1>3
<1>4. CASE bmc' # b
  <2>1. PICK k \in 0 .. Len(p.data) : bmc' = Accepting(b, p, k)
    BY <1>1, <1>4 DEF Receives
  <2> HIDE DEF b, p
  <2> DEFINE got == SubSeq(p.data, 1, k)
             brk == IF p.op THEN <<Break>> ELSE <<>>
  <2>2. bmc'.in = b.in \o got \o brk
    BY <1>2, <2>1, AcceptingType
  <2>3. b.in \in Seq(Items) /\ p.data \in Seq(Items) /\ k \in Nat /\ k <= Len(p.data)
    BY <1>2 DEF Bmc, Packets
  <2>4. got \in Seq(Items)
    BY <2>3, SubSeqType
  <2>5. brk \in Seq(Items)
    <3>1. Break \in Items
      BY DEF Items
    <3>2. <<Break>> \in Seq(Items) /\ <<>> \in Seq(Items)
      BY <3>1, EmptySeq
    <3> QED BY <3>2
  <2> HIDE DEF got, brk
  <2>6. /\ b.in \o got \in Seq(Items) /\ Len(b.in \o got) = Len(b.in) + Len(got)
    BY <2>3, <2>4, ConcatProperties
  <2>7. Len(b.in \o got \o brk) = Len(b.in) + Len(got) + Len(brk)
    BY <2>5, <2>6, ConcatProperties
  <2>8. Len(b.in) \in Nat /\ Len(got) \in Nat /\ Len(brk) \in Nat
    BY <2>3, <2>4, <2>5
  <2>9. CASE got = <<>> /\ brk = <<>>
    <3>1. b.in \o <<>> = b.in
      BY <2>3, ConcatEmptySeq
    <3> QED BY <1>2, <2>2, <2>9, <3>1
  <2>10. CASE got # <<>> \/ brk # <<>>
    <3>1. Len(got) + Len(brk) > 0
      BY <2>4, <2>5, <2>8, <2>10, EmptySeq
    <3> QED BY <1>2, <2>2, <2>7, <2>8, <3>1
  <2> QED BY <2>9, <2>10
<1> QED BY <1>3, <1>4

\* Each step of the console and the BMC is a step of the input stream.
LEMMA InSimulates ==
  ASSUME TypeInv, TypeInv', InPrefix', MaxBreaks = 0, [Next]_vars
  PROVE  [Input!Next]_<<typed, bmc.in>>
<1>0. /\ bmc.in \in Seq(Items) /\ bmc'.in \in Seq(Items) /\ typed \in Seq(Items)
      /\ Len(bmc.in) \in Nat /\ Len(bmc'.in) \in Nat /\ Len(typed) \in Nat
  <2>1. bmc.in \in Seq(Items) /\ bmc'.in \in Seq(Items) /\ typed \in Seq(Items)
    BY DEF TypeInv, Bmc
  <2> QED BY <2>1
<1>1. CASE bmc'.in = bmc.in /\ typed' = typed
  BY <1>1
<1>2. CASE ConsoleRead
  <2>1. typed' = Append(typed, Len(typed) + 1) /\ bmc' = bmc /\ Len(typed) < MaxTyped
    BY <1>2 DEF ConsoleRead
  <2>2. Len(typed) + 1 \in 0 .. MaxTyped
    BY <1>0, <2>1, SolAssumption
  <2> QED BY <2>1, <2>2 DEF Input!Next, Input!Write
<1>3. CASE SendSerialKeepalive
  <2>1. bmc' = bmc /\ (typed' = typed \/ typed' = Append(typed, 0))
    BY <1>3 DEF SendSerialKeepalive
  <2>2. 0 \in 0 .. MaxTyped
    BY SolAssumption
  <2> QED BY <1>1, <2>1, <2>2 DEF Input!Next, Input!Write
<1>4. CASE BmcReceive
  <2>1. typed' = typed
    BY <1>4, BmcReceiveCases DEF Receives
  <2>2. CASE bmc'.in = bmc.in
    BY <1>1, <2>1, <2>2
  <2>3. CASE Len(bmc'.in) > Len(bmc.in)
    <3>1. Len(bmc'.in) <= Len(typed) /\ \A i \in 1 .. Len(bmc'.in) : bmc'.in[i] = typed[i]
      BY <2>1 DEF InPrefix
    <3>2. bmc'.in = SubSeq(typed, 1, Len(bmc'.in))
      BY <1>0, <3>1, PrefixIsSubSeq
    <3>3. Len(bmc'.in) \in Len(bmc.in) + 1 .. Len(typed)
      BY <1>0, <2>3, <3>1
    <3> QED BY <2>1, <3>2, <3>3 DEF Input!Next, Input!Deliver
  <2> QED BY <1>4, <2>2, <2>3, InGrows
<1>5. CASE BmcOutput
  BY <1>1, <1>5, BmcOutputStep DEF BmcOutput
<1>6. CASE ConsoleWrite \/ RecvFrom \/ SendPending \/ Retransmit \/ SolReceive
           \/ BmcRetransmit \/ BmcDeactivate \/ UNCHANGED vars
  BY <1>1, <1>6 DEF ConsoleWrite, RecvFrom, SendPending, Retransmit, SolReceive,
     BmcRetransmit, BmcDeactivate, vars
<1> QED BY <1>2, <1>3, <1>4, <1>5, <1>6, NoAsyncBreak DEF Next

\* The BMC gets what the user types, and the NULs of the serial keepalive,
\* once, in order and without a gap, for every buffer size, packet size and
\* number of retransmissions, however packets and acknowledgements are lost
\* and however few characters the BMC accepts of a packet, as long as the
\* network keeps their order, no break is sent and the workaround that skips
\* a number is off (_send_sol_packet_with_character_data,
\* _sol_retransmission_timeout, _sol_bmc_to_remote_console_packet).
THEOREM SolInput ==
  ASSUME ~ Reordering, SeqMax >= 2, ~ IncrementWorkaround, MaxBreaks = 0
  PROVE  Spec => InputSpec
<1>1. Init => Input!Init
  BY DEF Init, Input!Init
<1>2. TypeInv /\ TypeInv' /\ (TypeInv /\ InputInv /\ InPrefix)' /\ [Next]_vars
        => [Input!Next]_<<typed, bmc.in>>
  BY InSimulates
<1> QED BY <1>1, <1>2, InInvariant, PTL DEF Spec, InputSpec, Input!Spec

-----------------------------------------------------------------------------
(* What the sender keeps. *)

\* A stream without a break is its characters.
LEMMA CharsAll ==
  ASSUME NEW s \in Seq(Items), \A i \in 1 .. Len(s) : s[i] # Break
  PROVE  Chars(s) = s
<1> DEFINE n == Len(s)
           at == {i \in DOMAIN s : s[i] # Break}
           place(k) == CHOOSE i \in at : Cardinality({j \in at : j <= i}) = k
<1>1. n \in Nat /\ DOMAIN s = 1 .. n
  BY LenProperties
<1>2. at = 1 .. n
  BY <1>1
<1>3. Cardinality(1 .. n) = n
  BY <1>1, FS_Interval, SMTT(30)
<1>4. Chars(s) = [k \in 1 .. Cardinality(at) |-> s[place(k)]]
  BY DEF Chars
<1> HIDE DEF at
<1>5. ASSUME NEW i \in 1 .. n PROVE Cardinality({j \in at : j <= i}) = i
  <2>1. {j \in at : j <= i} = 1 .. i
    BY <1>1, <1>2
  <2>2. i \in Nat
    BY <1>1
  <2>3. Cardinality(1 .. i) = i
    BY <2>2, FS_Interval, SMTT(30)
  <2> QED BY <2>1, <2>3
<1>6. ASSUME NEW k \in 1 .. n PROVE place(k) = k
  <2>1. k \in at /\ Cardinality({j \in at : j <= k}) = k
    BY <1>2, <1>5
  <2>2. place(k) \in at /\ Cardinality({j \in at : j <= place(k)}) = k
    BY <2>1
  <2> HIDE DEF place
  <2> QED BY <1>2, <1>5, <2>2
<1> HIDE DEF place
<1>7. Chars(s) = [k \in 1 .. n |-> s[k]]
  BY <1>2, <1>3, <1>4, <1>6
<1>8. s = [k \in 1 .. n |-> s[k]]
  BY <1>1
<1> QED BY <1>7, <1>8

\* What was typed, when no break may be.
Typed == \A i \in 1 .. Len(typed) : typed[i] # Break

LEMMA TypedMore ==
  ASSUME TypeInv, Typed, NEW x \in Items, x # Break, typed' = Append(typed, x)
  PROVE  Typed'
<1>1. typed \in Seq(Items) /\ Len(typed) \in Nat
  BY DEF TypeInv
<1>2. /\ Len(typed') = Len(typed) + 1 /\ typed'[Len(typed) + 1] = x
      /\ \A i \in 1 .. Len(typed) : typed'[i] = typed[i]
  BY <1>1, AppendProperties
<1>3. \A i \in 1 .. Len(typed') : i = Len(typed) + 1 \/ i \in 1 .. Len(typed)
  BY <1>1, <1>2
<1> QED BY <1>2, <1>3 DEF Typed

LEMMA TypedStep ==
  ASSUME MaxBreaks = 0, TypeInv, Typed, [Next]_vars
  PROVE  Typed'
<1>1. CASE ConsoleRead
  <2> DEFINE x == Len(typed) + 1
  <2>1. typed' = Append(typed, x) /\ Len(typed) < MaxTyped /\ typed \in Seq(Items)
    BY <1>1 DEF ConsoleRead, TypeInv
  <2>2. x \in Nat /\ x \in Items
    BY <2>1, SolAssumption DEF Items
  <2>3. x # Break
    BY <2>2, SolAssumption
  <2> HIDE DEF x
  <2> QED BY <2>1, <2>2, <2>3, TypedMore
<1>2. CASE SendSerialKeepalive
  <2>1. typed' = typed \/ typed' = Append(typed, 0)
    BY <1>2 DEF SendSerialKeepalive
  <2>2. 0 \in Items /\ 0 # Break
    BY SolAssumption DEF Items
  <2>3. typed' = typed => Typed'
    BY DEF Typed
  <2> QED BY <2>1, <2>2, <2>3, TypedMore
<1>3. ~ AsyncBreak
  BY NoAsyncBreak
<1>4. CASE typed' = typed
  BY <1>4 DEF Typed
<1> QED BY <1>1, <1>2, <1>3, <1>4 DEF Next, vars, ConsoleWrite, RecvFrom, SendPending,
     Retransmit, SolReceive, BmcReceive, BmcOutput, BmcRetransmit, BmcDeactivate

LEMMA RestIs ==
  ASSUME TypeInv, InputInv, InPrefix, Typed
  PROVE  BufferIsRest
<1> SUFFICES ASSUME open PROVE BufferIsRest
  BY DEF BufferIsRest
<1>1. /\ snd.buf \in Seq(Items) /\ bmc.in \in Seq(Items) /\ typed \in Seq(Items)
      /\ Len(snd.buf) \in Nat /\ Len(bmc.in) \in Nat /\ Len(typed) \in Nat
      /\ Len(snd.data) \in Nat /\ bmc.accepted \in Nat
  BY InTypes DEF TypeInv, SenderOK
<1>2. Chars(typed) = typed
  BY <1>1, CharsAll DEF Typed
<1>3. Chars(bmc.in) = bmc.in
  <2>1. \A i \in 1 .. Len(bmc.in) : i \in 1 .. Len(typed)
    BY <1>1 DEF InPrefix
  <2>2. \A i \in 1 .. Len(bmc.in) : bmc.in[i] # Break
    BY <2>1 DEF InPrefix, Typed
  <2> QED BY <1>1, <2>2, CharsAll
<1> DEFINE kept == Len(typed) - Len(snd.buf)
           rest == SubSeq(typed, kept + 1, Len(typed))
<1>4. InState(snd, bmc, typed)
  BY DEF InputInv, InAll
<1>5. kept \in Nat /\ kept + Len(snd.buf) = Len(typed)
  BY <1>1, <1>4 DEF InState, EndOf
<1>6. snd.buf = rest
  <2> DEFINE m == Len(typed)
             k == kept + 1
  <2>1. /\ rest \in Seq(Items) /\ Len(rest) = IF k <= m THEN m - k + 1 ELSE 0
        /\ \A i \in 1 .. m - k + 1 : rest[i] = typed[k + i - 1]
    <3>1. k \in Nat \ {0} /\ m \in Nat /\ m <= Len(typed)
      BY <1>1, <1>5
    <3> HIDE DEF k, m
    <3>2. rest = SubSeq(typed, k, m)
      BY DEF k, m
    <3> HIDE DEF rest
    <3> QED BY <1>1, <3>1, <3>2, SubSeqType
  <2>2. Len(rest) = Len(snd.buf) /\ m - k + 1 = Len(snd.buf)
    <3> HIDE DEF rest
    <3> QED BY <1>1, <1>5, <2>1
  <2> HIDE DEF rest
  <2>3. ASSUME NEW i \in 1 .. Len(snd.buf) PROVE rest[i] = snd.buf[i]
    <3>1. snd.buf[i] = typed[kept + i]
      BY <1>4 DEF InState, EndOf
    <3>2. k + i - 1 = kept + i
      BY <1>5
    <3> QED BY <2>1, <2>2, <3>1, <3>2
  <2> QED BY <1>1, <2>1, <2>2, <2>3, SeqEqual
<1>7. Len(bmc.in) >= kept
  BY <1>1, <1>4, <1>5 DEF InState
<1>8. Len(bmc.in) > kept => snd.waiting /\ Len(bmc.in) - kept <= Len(snd.data)
  <2>1. Len(bmc.in) = kept + (IF snd.waiting /\ bmc.last = snd.seq THEN bmc.accepted ELSE 0)
    BY <1>4 DEF InState
  <2>2. snd.waiting /\ bmc.last = snd.seq => bmc.accepted <= Len(snd.data)
    BY <1>4 DEF InState
  <2> HIDE DEF kept
  <2> QED BY <1>1, <1>5, <2>1, <2>2
<1> QED BY <1>2, <1>3, <1>6, <1>7, <1>8 DEF BufferIsRest

\* A character stays in the buffer until the BMC has accepted it, and nothing
\* else stays there, under the hypotheses of SolInput: what the sender drops on
\* an acknowledgement (_sol_bmc_to_remote_console_packet) is what that very
\* packet's acceptance covered, however late the acknowledgement comes.
THEOREM SolBufferIsRest ==
  ASSUME ~ Reordering, SeqMax >= 2, ~ IncrementWorkaround, MaxBreaks = 0
  PROVE  Spec => []BufferIsRest
<1>1. Init => Typed
  BY DEF Init, Typed
<1>2. TypeInv /\ Typed /\ [Next]_vars => Typed'
  BY TypedStep
<1>3. TypeInv /\ InputInv /\ InPrefix /\ Typed => BufferIsRest
  BY RestIs
<1> QED BY <1>1, <1>2, <1>3, InInvariant, PTL DEF Spec

-----------------------------------------------------------------------------
(* The size of packets. *)

\* What is left when one element is gone was there before.
LEMMA RemoveIn ==
  ASSUME NEW S, NEW s \in Seq(S), NEW i \in 1 .. Len(s)
  PROVE  \A j \in 1 .. Len(RemoveAt(s, i)) :
           \E k \in 1 .. Len(s) : RemoveAt(s, i)[j] = s[k]
<1> DEFINE a == SubSeq(s, 1, i - 1)
           b == SubSeq(s, i + 1, Len(s))
<1>0. Len(s) \in Nat /\ i \in Nat /\ 1 <= i /\ i <= Len(s)
  OBVIOUS
<1>1. /\ a \in Seq(S) /\ Len(a) = i - 1
      /\ \A j \in 1 .. i - 1 : a[j] = s[j]
  <2>1. \A k \in 1 .. i - 1 : s[k] \in S
    OBVIOUS
  <2> QED BY <1>0, <2>1, SubSeqProperties
<1>2. /\ b \in Seq(S) /\ Len(b) = Len(s) - i
      /\ \A j \in 1 .. Len(s) - i : b[j] = s[i + j]
  <2>1. \A k \in i + 1 .. Len(s) : s[k] \in S
    OBVIOUS
  <2>2. /\ b \in Seq(S)
        /\ Len(b) = IF i + 1 <= Len(s) THEN Len(s) - (i + 1) + 1 ELSE 0
        /\ \A j \in 1 .. Len(s) - (i + 1) + 1 : b[j] = s[(i + 1) + j - 1]
    BY <1>0, <2>1, SubSeqProperties
  <2> HIDE DEF b
  <2>3. \A j \in 1 .. Len(s) - i : (i + 1) + j - 1 = i + j
    BY <1>0
  <2>4. Len(s) - (i + 1) + 1 = Len(s) - i
    BY <1>0
  <2>5. Len(b) = Len(s) - i
    BY <1>0, <2>2
  <2> QED BY <2>2, <2>3, <2>4, <2>5
<1>3. RemoveAt(s, i) = a \o b
  BY DEF RemoveAt
<1> HIDE DEF a, b
<1>4. /\ Len(a \o b) = Len(a) + Len(b)
      /\ \A j \in 1 .. Len(a) + Len(b) :
           (a \o b)[j] = IF j <= Len(a) THEN a[j] ELSE b[j - Len(a)]
  BY <1>1, <1>2, ConcatProperties
<1>5. ASSUME NEW j \in 1 .. Len(a \o b)
      PROVE  \E k \in 1 .. Len(s) : (a \o b)[j] = s[k]
  <2>1. j \in 1 .. Len(a) + Len(b)
    BY <1>4
  <2>2. CASE j <= Len(a)
    <3>1. j \in 1 .. i - 1 /\ j \in 1 .. Len(s)
      BY <1>0, <1>1, <2>1, <2>2
    <3> QED BY <1>1, <1>4, <2>1, <2>2, <3>1
  <2>3. CASE ~ (j <= Len(a))
    <3>1. j - Len(a) \in 1 .. Len(s) - i /\ i + (j - Len(a)) \in 1 .. Len(s)
      BY <1>0, <1>1, <1>2, <2>1, <2>3
    <3>2. (a \o b)[j] = s[i + (j - Len(a))]
      BY <1>2, <1>4, <2>1, <2>3, <3>1
    <3> QED BY <3>1, <3>2
  <2> QED BY <2>2, <2>3
<1> QED BY <1>3, <1>5

\* Without a break nothing bounds a packet but the size the BMC named.
Fits(s, ch) ==
  /\ ~ s.breakReq /\ s.before = 0 /\ Len(s.data) <= MaxSend
  /\ \A i \in 1 .. Len(ch) : Len(ch[i].data) <= MaxSend

FitInv == Fits(snd, toBmc)

LEMMA FitsSame ==
  ASSUME NEW s, NEW s2, NEW ch, Fits(s, ch), s2.breakReq = s.breakReq,
         s2.before = s.before, s2.data = s.data
  PROVE  Fits(s2, ch)
  BY DEF Fits

LEMMA FitsSent ==
  ASSUME NEW s, NEW ch \in Seq(Packets(Items)), Fits(s, ch), NEW p \in Packets(Items),
         Len(p.data) <= MaxSend, NEW c \in Sent(ch, p)
  PROVE  Fits(s, c)
<1>1. CASE c = ch
  BY <1>1
<1>2. CASE c = Append(ch, p)
  <2>1. /\ Len(c) = Len(ch) + 1 /\ c[Len(ch) + 1] = p
        /\ \A i \in 1 .. Len(ch) : c[i] = ch[i]
    BY <1>2, AppendProperties
  <2>2. Len(ch) \in Nat
    OBVIOUS
  <2>3. \A i \in 1 .. Len(c) : i = Len(ch) + 1 \/ i \in 1 .. Len(ch)
    BY <2>1, <2>2
  <2> QED BY <2>1, <2>3 DEF Fits
<1> QED BY <1>1, <1>2 DEF Sent

LEMMA FitsData ==
  ASSUME NEW s, SenderOK(s), NEW ch \in Seq(Packets(Items)), Fits(s, ch),
         NEW ack \in 0 .. SeqMax, NEW count \in Nat,
         NEW c \in Sent(ch, DataPacket(WithData(s), ack, count))
  PROVE  Fits(WithData(s), c)
<1> DEFINE s2 == WithData(s)
           p == DataPacket(s2, ack, count)
<1>1. /\ SenderOK(s2) /\ s2.data = Peek(s) /\ s2.breakReq = s.breakReq
      /\ s2.before = s.before
  BY WithDataType
<1>2. Len(Peek(s)) <= MaxSend
  <2> DEFINE n == IF Len(s.buf) < MaxSend THEN Len(s.buf) ELSE MaxSend
  <2>1. s.buf \in Seq(Items) /\ s.before = 0
    BY DEF SenderOK, Sender, Fits
  <2>2. n \in Nat /\ n <= Len(s.buf) /\ n <= MaxSend
    BY <2>1, SolAssumption
  <2>3. Peek(s) = SubSeq(s.buf, 1, n)
    BY <2>1 DEF Peek
  <2> HIDE DEF n
  <2>4. Len(Peek(s)) = IF 1 <= n THEN n - 1 + 1 ELSE 0
    BY <2>1, <2>2, <2>3, SubSeqType
  <2> QED BY <2>2, <2>4, SolAssumption
<1>3. p \in Packets(Items) /\ p.data = s2.data
  BY <1>1, SenderPackets DEF SenderOK, DataPacket, Packet
<1> HIDE DEF s2
<1>4. Fits(s2, ch)
  BY <1>1, <1>2 DEF Fits
<1> HIDE DEF p
<1>5. c \in Sent(ch, p)
  BY DEF s2, p
<1>6. Fits(s2, c)
  BY <1>1, <1>2, <1>3, <1>4, <1>5, FitsSent
<1> QED BY <1>6 DEF s2

LEMMA FitsAgain ==
  ASSUME NEW s \in Sender, NEW ch \in Seq(Packets(Items)), Fits(s, ch),
         NEW c \in Sent(ch, SameAgain(s))
  PROVE  Fits(s, c)
<1>1. SameAgain(s).data = s.data
  BY DEF SameAgain, BreakPacket, DataPacket, Packet
<1>2. SameAgain(s) \in Packets(Items)
  BY SenderPackets, SolAssumption
<1>3. Len(SameAgain(s).data) <= MaxSend
  BY <1>1 DEF Fits
<1> QED BY <1>2, <1>3, FitsSent

LEMMA FitsAcked ==
  ASSUME NEW s, SenderOK(s), NEW p \in Packets(Out), NEW ch, Fits(s, ch)
  PROVE  Fits(Acked(s, p), ch)
<1> DEFINE len == Len(s.data)
           count == IF p.count > len THEN len ELSE p.count
           rest == SubSeq(s.buf, count + 1, Len(s.buf))
<1>1. s \in Sender /\ s.before = 0 /\ ~ s.breakReq /\ count \in Nat
  BY DEF SenderOK, Sender, Packets, Fits
<1>2. Len(<<>>) <= MaxSend
  BY SolAssumption
<1>3. CASE ~ IsAck(s, p)
  BY <1>3 DEF Acked
<1>4. CASE IsAck(s, p) /\ s.waitingBreak
  <2>1. Acked(s, p) = [s EXCEPT !.breakReq = FALSE, !.waiting = FALSE,
                                !.waitingBreak = FALSE, !.data = <<>>]
    BY <1>4 DEF Acked
  <2> QED BY <1>1, <1>2, <2>1 DEF Fits, Sender
<1>5. CASE IsAck(s, p) /\ ~ s.waitingBreak
  <2> DEFINE left == IF count > s.before THEN 0 ELSE s.before - count
  <2>1. Acked(s, p) = [s EXCEPT !.buf = rest, !.before = left, !.waiting = FALSE,
                                !.data = <<>>]
    BY <1>5 DEF Acked
  <2>2. left = 0
    BY <1>1
  <2> HIDE DEF rest, left
  <2> QED BY <1>1, <1>2, <2>1, <2>2 DEF Fits, Sender
<1> QED BY <1>3, <1>4, <1>5

LEMMA FitStep ==
  ASSUME MaxBreaks = 0, TypeInv, FitInv, [Next]_vars
  PROVE  FitInv'
<1>0. /\ SenderOK(snd) /\ snd \in Sender /\ toBmc \in Seq(Packets(Items))
      /\ 0 \in 0 .. SeqMax /\ 0 \in Nat /\ Fits(snd, toBmc)
  BY SolAssumption DEF TypeInv, SenderOK, FitInv
<1>1. CASE ConsoleRead
  <2>1. toBmc' = toBmc /\ \E x : snd' = [snd EXCEPT !.buf = x]
    BY <1>1 DEF ConsoleRead
  <2>2. snd'.breakReq = snd.breakReq /\ snd'.before = snd.before /\ snd'.data = snd.data
    BY <1>0, <2>1 DEF Sender
  <2> QED BY <1>0, <2>1, <2>2, FitsSame DEF FitInv
<1>2. CASE SendPending
  <2>1. snd' = WithData(snd) /\ toBmc' \in Sent(toBmc, DataPacket(WithData(snd), 0, 0))
    BY <1>0, <1>2 DEF SendPending, Fits
  <2>2. Fits(WithData(snd), toBmc')
    BY <1>0, <2>1, FitsData
  <2> QED BY <2>1, <2>2 DEF FitInv
<1>3. CASE Retransmit
  <2>1. SenderOK(snd')
    BY <1>3, RetransmitCases
  <2>2. snd'.breakReq = snd.breakReq /\ snd'.before = snd.before /\ snd'.data = snd.data
    BY <1>0, <1>3 DEF Retransmit, Sender
  <2>3. Fits(snd', toBmc)
    BY <1>0, <2>2, FitsSame
  <2>4. toBmc' = toBmc \/ toBmc' \in Sent(toBmc, SameAgain(snd'))
    BY <1>3 DEF Retransmit
  <2> QED BY <1>0, <2>1, <2>3, <2>4, FitsAgain DEF FitInv, SenderOK
<1>4. CASE SendSerialKeepalive
  <2>1. PICK s : /\ SenderOK(s) /\ snd' = WithData(s)
                 /\ toBmc' \in Sent(toBmc, DataPacket(WithData(s), 0, 0))
                 /\ s = snd \/ s = [snd EXCEPT !.buf = <<0>>]
    BY <1>4, KeepaliveCases
  <2>2. s.breakReq = snd.breakReq /\ s.before = snd.before /\ s.data = snd.data
    BY <1>0, <2>1 DEF Sender
  <2>3. Fits(s, toBmc)
    BY <1>0, <2>2, FitsSame
  <2>4. Fits(WithData(s), toBmc')
    BY <1>0, <2>1, <2>3, FitsData
  <2> QED BY <2>1, <2>4 DEF FitInv
<1>5. CASE SolReceive
  <2> DEFINE s == [snd EXCEPT !.retx = 0, !.wretx = 0]
             q == Packet(0, Taken.seq, Len(Taken.data), FALSE, <<>>)
  <2>1. SenderOK(s) /\ SenderOK(Settled) /\ Taken \in Packets(Out)
    BY <1>5, TakenType
  <2>2. Taken.seq \in 0 .. SeqMax /\ Taken.data \in Seq(Out) /\ Len(Taken.data) \in Nat
    BY <2>1 DEF Packets
  <2>3. Fits(s, toBmc)
    <3>1. s.breakReq = snd.breakReq /\ s.before = snd.before /\ s.data = snd.data
      BY <1>0 DEF Sender
    <3> HIDE DEF s
    <3> QED BY <1>0, <3>1, FitsSame
  <2>4. Fits(Settled, toBmc)
    BY <2>1, <2>3, FitsAcked DEF Settled
  <2>5. q \in Packets(Items) /\ q.data = <<>>
    <3>1. <<>> \in Seq(Items)
      BY EmptySeq
    <3> QED BY <1>0, <2>2, <3>1, PacketType DEF Packet
  <2>6. Len(q.data) <= MaxSend
    <3>1. Len(<<>>) <= MaxSend
      BY SolAssumption
    <3> QED BY <2>5, <3>1, Zenon
  <2>7. \/ snd' \in {s, Settled} /\ (toBmc' = toBmc \/ toBmc' \in Sent(toBmc, q))
        \/ /\ snd' = WithData(Settled)
           /\ \E ack \in 0 .. SeqMax, n \in Nat :
                toBmc' \in Sent(toBmc, DataPacket(WithData(Settled), ack, n))
    <3>1. ~ Settled.breakReq
      BY <2>4 DEF Fits
    <3> QED BY <1>0, <1>5, <2>2, <3>1, ReceiveCases
  <2> HIDE DEF s, q
  <2>8. CASE snd' \in {s, Settled} /\ (toBmc' = toBmc \/ toBmc' \in Sent(toBmc, q))
    BY <1>0, <2>3, <2>4, <2>5, <2>6, <2>8, FitsSent DEF FitInv
  <2>9. ASSUME NEW ack \in 0 .. SeqMax, NEW n \in Nat, snd' = WithData(Settled),
               toBmc' \in Sent(toBmc, DataPacket(WithData(Settled), ack, n))
        PROVE  FitInv'
    <3>1. Fits(WithData(Settled), toBmc')
      BY <1>0, <2>1, <2>4, <2>9, FitsData
    <3> QED BY <2>9, <3>1 DEF FitInv
  <2> QED BY <2>7, <2>8, <2>9
<1>6. CASE BmcReceive
  <2>1. PICK i \in 1 .. Len(toBmc) : toBmc' = RemoveAt(toBmc, i) /\ snd' = snd
    BY <1>0, <1>6, BmcReceiveCases DEF Receives
  <2>2. \A j \in 1 .. Len(toBmc') : \E k \in 1 .. Len(toBmc) : toBmc'[j] = toBmc[k]
    BY <1>0, <2>1, RemoveIn
  <2> QED BY <1>0, <2>1, <2>2 DEF FitInv, Fits
<1>7. ~ AsyncBreak
  BY NoAsyncBreak
<1>8. CASE UNCHANGED <<snd, toBmc>>
  BY <1>8 DEF FitInv
<1> QED BY <1>1, <1>2, <1>3, <1>4, <1>5, <1>6, <1>7, <1>8 DEF Next, vars, ConsoleWrite,
     RecvFrom, BmcOutput, BmcRetransmit, BmcDeactivate

\* The assertion of ipmiconsole_packet.c:1358 holds for every instance in which
\* no break is sent: the size the BMC named bounds every packet, the
\* retransmitted ones and the keepalives included.  (With a break it does not:
\* the run sol_packet shows the counterexample.)
THEOREM SolPacketFits ==
  ASSUME MaxBreaks = 0
  PROVE  Spec => []PacketFits
<1>1. Init => FitInv
  BY SolAssumption DEF Init, FitInv, Fits
<1>2. TypeInv /\ FitInv /\ [Next]_vars => FitInv'
  BY FitStep
<1>3. FitInv => PacketFits
  BY DEF FitInv, Fits, PacketFits
<1> QED BY <1>1, <1>2, <1>3, SolTypeInv, PTL DEF Spec

-----------------------------------------------------------------------------
(* Counting. *)

\* A break more, or an acknowledgement, at the end of a sequence.
LEMMA CountUpTo ==
  ASSUME NEW n \in Nat, NEW S, S \subseteq 1 .. n
  PROVE  IsFiniteSet(S) /\ Cardinality(S) \in Nat /\ Cardinality(S) <= n
<1>1. IsFiniteSet(1 .. n) /\ Cardinality(1 .. n) = n
  BY FS_Interval, SMTT(30)
<1>2. IsFiniteSet(S) /\ Cardinality(S) <= Cardinality(1 .. n)
  BY <1>1, FS_Subset
<1> QED BY <1>1, <1>2, FS_CardinalityType

LEMMA CountMore ==
  ASSUME NEW n \in Nat, NEW S, S \subseteq 1 .. n, NEW T, T = S \cup {n + 1}
  PROVE  Cardinality(T) = Cardinality(S) + 1
<1>1. IsFiniteSet(S)
  BY CountUpTo
<1>2. n + 1 \notin S
  OBVIOUS
<1> QED BY <1>1, <1>2, FS_AddElement

LEMMA BreaksType ==
  ASSUME NEW s \in Seq(Items)
  PROVE  Breaks(s) \in Nat
<1>1. DOMAIN s = 1 .. Len(s) /\ Len(s) \in Nat
  BY LenProperties
<1>2. {i \in DOMAIN s : s[i] = Break} \subseteq 1 .. Len(s)
  BY <1>1
<1> QED BY <1>1, <1>2, CountUpTo DEF Breaks

LEMMA BreaksAppend ==
  ASSUME NEW s \in Seq(Items), NEW x \in Items
  PROVE  Breaks(Append(s, x)) = Breaks(s) + (IF x = Break THEN 1 ELSE 0)
<1> DEFINE n == Len(s)
           s2 == Append(s, x)
           S == {i \in DOMAIN s : s[i] = Break}
           T == {i \in DOMAIN s2 : s2[i] = Break}
<1>1. DOMAIN s = 1 .. n /\ n \in Nat
  BY LenProperties
<1>2. /\ s2 \in Seq(Items) /\ Len(s2) = n + 1 /\ s2[n + 1] = x
      /\ \A i \in 1 .. n : s2[i] = s[i]
  BY AppendProperties
<1>3. DOMAIN s2 = 1 .. n + 1
  BY <1>2, LenProperties
<1>4. S \subseteq 1 .. n /\ Cardinality(S) \in Nat
  <2>1. S \subseteq 1 .. n
    BY <1>1
  <2> QED BY <1>1, <2>1, CountUpTo
<1>5. \A i \in 1 .. n + 1 : i \in 1 .. n \/ i = n + 1
  BY <1>1
<1>6. \A i \in 1 .. n : i \in 1 .. n + 1 /\ i # n + 1
  BY <1>1
<1>7. n + 1 \in 1 .. n + 1
  BY <1>1
<1> HIDE DEF n, s2
<1>8. CASE x = Break
  <2>1. T = S \cup {n + 1}
    BY <1>1, <1>2, <1>3, <1>5, <1>6, <1>7, <1>8
  <2> HIDE DEF S, T
  <2>2. Cardinality(T) = Cardinality(S) + 1
    BY <1>1, <1>4, <2>1, CountMore
  <2> QED BY <1>8, <2>2 DEF Breaks, S, T, s2
<1>9. CASE x # Break
  <2>1. T = S
    BY <1>1, <1>2, <1>3, <1>5, <1>6, <1>9
  <2> HIDE DEF S, T
  <2>2. Cardinality(T) = Cardinality(S) + 0
    BY <1>4, <2>1
  <2> QED BY <1>9, <2>2 DEF Breaks, S, T, s2
<1> QED BY <1>8, <1>9

LEMMA BreaksConcat ==
  ASSUME NEW s \in Seq(Items), NEW t \in Seq(Items)
  PROVE  Breaks(s \o t) \in Nat /\ Breaks(s) \in Nat /\ Breaks(s) <= Breaks(s \o t)
<1> DEFINE u == s \o t
           S == {i \in DOMAIN s : s[i] = Break}
           T == {i \in DOMAIN u : u[i] = Break}
<1>1. DOMAIN s = 1 .. Len(s) /\ Len(s) \in Nat /\ Len(t) \in Nat
  BY LenProperties
<1>2. /\ u \in Seq(Items) /\ Len(u) = Len(s) + Len(t)
      /\ \A i \in 1 .. Len(s) + Len(t) : u[i] = IF i <= Len(s) THEN s[i] ELSE t[i - Len(s)]
  BY ConcatProperties
<1>3. DOMAIN u = 1 .. Len(u) /\ Len(u) \in Nat
  BY <1>2, LenProperties
<1>4. \A i \in 1 .. Len(s) : i \in 1 .. Len(u) /\ i \in 1 .. Len(s) + Len(t) /\ i <= Len(s)
  BY <1>1, <1>2
<1>5. Breaks(u) = Cardinality(T) /\ Breaks(s) = Cardinality(S)
  BY DEF Breaks
<1> HIDE DEF u
<1>6. S \subseteq T /\ T \subseteq 1 .. Len(u)
  BY <1>1, <1>2, <1>3, <1>4
<1> HIDE DEF S, T
<1>7. IsFiniteSet(T) /\ Cardinality(T) \in Nat
  BY <1>3, <1>6, CountUpTo
<1>8. Cardinality(S) <= Cardinality(T) /\ IsFiniteSet(S)
  BY <1>6, <1>7, FS_Subset
<1>9. Cardinality(S) \in Nat
  BY <1>8, FS_CardinalityType
<1> QED BY <1>5, <1>7, <1>8, <1>9 DEF u

\* The acknowledgements among the first packets of a channel, up to the one
\* before i, and all of them.
Ahead(ch, i) == Cardinality({j \in 1 .. i - 1 : ch[j].ack # 0})
Acks(ch) == Ahead(ch, Len(ch) + 1)

LEMMA AheadType ==
  ASSUME NEW ch, NEW i \in Nat \ {0}
  PROVE  /\ IsFiniteSet({j \in 1 .. i - 1 : ch[j].ack # 0})
         /\ Ahead(ch, i) \in Nat /\ Ahead(ch, i) <= i - 1
<1> DEFINE S == {j \in 1 .. i - 1 : ch[j].ack # 0}
<1>1. i - 1 \in Nat /\ S \subseteq 1 .. i - 1
  OBVIOUS
<1> HIDE DEF S
<1>2. IsFiniteSet(S) /\ Cardinality(S) \in Nat /\ Cardinality(S) <= i - 1
  BY <1>1, CountUpTo
<1> QED BY <1>2 DEF Ahead, S

LEMMA AcksType ==
  ASSUME NEW P, NEW ch \in Seq(P)
  PROVE  Acks(ch) \in Nat /\ Acks(ch) <= Len(ch)
<1>1. Len(ch) \in Nat /\ Len(ch) + 1 \in Nat \ {0} /\ (Len(ch) + 1) - 1 = Len(ch)
  OBVIOUS
<1> QED BY <1>1, AheadType DEF Acks

LEMMA AheadAppend ==
  ASSUME NEW P, NEW ch \in Seq(P), NEW p \in P, NEW i \in 1 .. Len(ch) + 1
  PROVE  Ahead(Append(ch, p), i) = Ahead(ch, i)
<1>1. \A j \in 1 .. Len(ch) : Append(ch, p)[j] = ch[j]
  BY AppendProperties
<1>2. \A j \in 1 .. i - 1 : j \in 1 .. Len(ch)
  OBVIOUS
<1>3. {j \in 1 .. i - 1 : Append(ch, p)[j].ack # 0} = {j \in 1 .. i - 1 : ch[j].ack # 0}
  BY <1>1, <1>2
<1> QED BY <1>3 DEF Ahead

LEMMA AcksAppend ==
  ASSUME NEW P, NEW ch \in Seq(P), NEW p \in P
  PROVE  Acks(Append(ch, p)) = Acks(ch) + (IF p.ack # 0 THEN 1 ELSE 0)
<1> DEFINE n == Len(ch)
           c == Append(ch, p)
           S == {j \in 1 .. n : ch[j].ack # 0}
           T == {j \in 1 .. n + 1 : c[j].ack # 0}
<1>0. n \in Nat
  OBVIOUS
<1>1. Len(c) = n + 1 /\ c[n + 1] = p /\ \A j \in 1 .. n : c[j] = ch[j]
  BY AppendProperties
<1>2. Acks(ch) = Cardinality(S)
  <2>1. (n + 1) - 1 = n
    BY <1>0
  <2> QED BY <2>1 DEF Acks, Ahead
<1>3. Acks(c) = Cardinality(T)
  <2>1. ((n + 1) + 1) - 1 = n + 1
    BY <1>0
  <2> QED BY <1>1, <2>1 DEF Acks, Ahead
<1>4. /\ \A i \in 1 .. n + 1 : i \in 1 .. n \/ i = n + 1
      /\ \A i \in 1 .. n : i \in 1 .. n + 1
      /\ n + 1 \in 1 .. n + 1
  BY <1>0
<1> HIDE DEF n, c
<1>5. S \subseteq 1 .. n
  OBVIOUS
<1>6. Cardinality(S) \in Nat
  BY <1>0, <1>5, CountUpTo
<1>7. CASE p.ack # 0
  <2>1. T = S \cup {n + 1}
    BY <1>1, <1>4, <1>7
  <2> HIDE DEF S, T
  <2>2. Cardinality(T) = Cardinality(S) + 1
    BY <1>0, <1>5, <2>1, CountMore
  <2> QED BY <1>2, <1>3, <1>7, <2>2 DEF c
<1>8. CASE p.ack = 0
  <2>1. T = S
    BY <1>1, <1>4, <1>8
  <2> HIDE DEF S, T
  <2>2. Cardinality(T) = Cardinality(S) + 0
    BY <1>6, <2>1
  <2> QED BY <1>2, <1>3, <1>8, <2>2 DEF c
<1> QED BY <1>7, <1>8

\* Fewer are ahead when the first k packets are gone, and one less when the
\* only one gone was an acknowledgement.
LEMMA AheadSuffix ==
  ASSUME NEW P, NEW ch \in Seq(P), NEW c \in Seq(P), NEW k \in Nat, Suffix(c, ch, k),
         NEW i \in 1 .. Len(c) + 1
  PROVE  /\ Ahead(c, i) \in Nat /\ Ahead(ch, i + k) \in Nat
         /\ Ahead(c, i) <= Ahead(ch, i + k)
         /\ k = 1 /\ ch[1].ack # 0 => Ahead(c, i) + 1 <= Ahead(ch, i + k)
<1> DEFINE S == {j \in 1 .. i - 1 : c[j].ack # 0}
           T == {j \in 1 .. (i + k) - 1 : ch[j].ack # 0}
           f == [j \in S |-> j + k]
<1>0. Len(c) \in Nat /\ Len(ch) \in Nat /\ Len(ch) = Len(c) + k /\ i \in Nat \ {0}
      /\ i + k \in Nat \ {0}
  BY DEF Suffix
<1>1. /\ Ahead(c, i) = Cardinality(S) /\ Ahead(ch, i + k) = Cardinality(T)
      /\ IsFiniteSet(S) /\ IsFiniteSet(T)
      /\ Cardinality(S) \in Nat /\ Cardinality(T) \in Nat
  BY <1>0, AheadType DEF Ahead
<1>2. ASSUME NEW j \in S PROVE j + k \in T /\ j + k > k
  <2>1. j \in 1 .. Len(c) /\ j + k \in 1 .. (i + k) - 1 /\ j + k > k
    BY <1>0
  <2>2. c[j] = ch[j + k]
    BY <2>1 DEF Suffix
  <2> QED BY <2>1, <2>2
<1>3. ASSUME NEW U, U \subseteq T, IsFiniteSet(U), \A j \in S : j + k \in U
      PROVE  Cardinality(S) <= Cardinality(U)
  <2>1. f \in [S -> U]
    BY <1>3
  <2>2. \A a, b \in S : f[a] = f[b] => a = b
    <3>1. \A a, b \in S : a \in Nat /\ b \in Nat
      BY <1>0
    <3> HIDE DEF S
    <3> QED BY <3>1
  <2>3. f \in Injection(S, U)
    <3> HIDE DEF f, S, T
    <3> QED BY <2>1, <2>2 DEF Injection, IsInjective
  <2> HIDE DEF f, S, T
  <2> QED BY <1>3, <2>3, FS_Injection
<1> HIDE DEF S, T
<1>4. Cardinality(S) <= Cardinality(T)
  BY <1>1, <1>2, <1>3
<1>5. ASSUME k = 1, ch[1].ack # 0 PROVE Cardinality(S) + 1 <= Cardinality(T)
  <2>1. CASE S = {}
    <3>1. Cardinality(S) = 0
      BY <2>1, FS_EmptySet
    <3>2. 1 \in T
      BY <1>0, <1>5 DEF T
    <3>3. Cardinality(T) # 0
      BY <1>1, <3>2, FS_EmptySet
    <3> QED BY <1>1, <3>1, <3>3
  <2>2. CASE S # {}
    <3>1. 1 \in T
      BY <1>0, <1>5 DEF T
    <3>2. IsFiniteSet(T \ {1}) /\ Cardinality(T \ {1}) = Cardinality(T) - 1
      BY <1>1, <3>1, FS_RemoveElement
    <3>3. \A j \in S : j + k \in T \ {1}
      BY <1>2, <1>5
    <3>4. Cardinality(S) <= Cardinality(T \ {1})
      BY <1>3, <3>2, <3>3
    <3> QED BY <1>1, <3>2, <3>4
  <2> QED BY <2>1, <2>2
<1> QED BY <1>1, <1>4, <1>5

LEMMA AcksSuffix ==
  ASSUME NEW P, NEW ch \in Seq(P), NEW c \in Seq(P), NEW k \in Nat, Suffix(c, ch, k)
  PROVE  /\ Acks(c) \in Nat /\ Acks(ch) \in Nat /\ Acks(c) <= Acks(ch)
         /\ k = 1 /\ ch[1].ack # 0 => Acks(c) + 1 <= Acks(ch)
<1>1. Len(c) \in Nat /\ Len(ch) = Len(c) + k
  BY DEF Suffix
<1>2. Len(c) + 1 \in 1 .. Len(c) + 1 /\ (Len(c) + 1) + k = Len(ch) + 1
  BY <1>1
<1> QED BY <1>2, AheadSuffix DEF Acks

-----------------------------------------------------------------------------
(* Breaks. *)

\* How many numbers n is behind seq.
Behind(n, seq) == IF n <= seq THEN seq - n ELSE (seq - n) + SeqMax

\* A break may be sent again, with a new number, for every acknowledgement
\* that is not the one waited for; with the workaround the number grows once
\* more for every packet received, and once more without any.
Cost(n) == IF IncrementWorkaround THEN 2 * n ELSE n
Spare(s) == IF IncrementWorkaround /\ s.wretx = 0 THEN 1 ELSE 0
Limit == Cost(2 * Capacity + 2)

\* A number under way with so many acknowledgements ahead of it is still told
\* from the sender's own when it arrives (and after e increments more).
Lag(n, s, ahead, e) ==
  n # 0 => Behind(n, s.seq) + Cost(ahead) + Spare(s) + e <= Limit

Lags(s, b, fwd, back, e) ==
  /\ \A i \in 1 .. Len(back) : Lag(back[i].ack, s, Ahead(back, i), e)
  /\ Lag(b.last, s, Acks(back), e)
  /\ \A i \in 1 .. Len(fwd) : Lag(fwd[i].seq, s, Acks(back) + i, e)

\* Behind a packet with the sender's number, on its way round, there is none
\* with another number; a sender that does not wait finds no other anywhere.
Current(s, b, fwd, back) ==
  /\ \A i \in 1 .. Len(back) : back[i].ack = s.seq /\ back[i].ack # 0 =>
       b.last = s.seq /\ \A j \in i .. Len(back) : back[j].ack \in {0, s.seq}
  /\ b.last = s.seq => \A i \in 1 .. Len(fwd) : fwd[i].seq \in {0, s.seq}
  /\ \A i \in 1 .. Len(fwd) : fwd[i].seq = s.seq /\ fwd[i].seq # 0 =>
       \A j \in i .. Len(fwd) : fwd[j].seq \in {0, s.seq}
  /\ ~ s.waiting =>
       b.last = s.seq /\ \A i \in 1 .. Len(back) : back[i].ack \in {0, s.seq}
  /\ s.waiting => s.seq # 0

\* The packet in flight is a break or is not; when the BMC has seen one, it
\* has every break typed.
Owed(s, b, t) ==
  /\ s.waitingBreak => s.waiting /\ s.breakReq
  /\ s.waitingBreak /\ b.last = s.seq => Breaks(b.in) >= Breaks(t)
  /\ Breaks(b.in) >= Breaks(t) - (IF s.breakReq THEN 1 ELSE 0)

Kinds(s, fwd) ==
  s.waiting => \A i \in 1 .. Len(fwd) : fwd[i].seq = s.seq => fwd[i].op = s.waitingBreak

\* A packet to the console without output acknowledges; with the workaround
\* there is no output.
Answers(b, back) ==
  /\ \A i \in 1 .. Len(back) :
       /\ back[i].op \/ back[i].ack # 0 \/ back[i].seq # 0
       /\ IncrementWorkaround => back[i].seq = 0
  /\ IncrementWorkaround => b.seq = 0

Rounds(s, b, t, fwd, back) ==
  Current(s, b, fwd, back) /\ Owed(s, b, t) /\ Kinds(s, fwd)

BreakAll(s, b, t, fwd, back) ==
  Lags(s, b, fwd, back, 0) /\ Rounds(s, b, t, fwd, back)

BreakInv == open => BreakAll(snd, bmc, typed, toBmc, Back) /\ Answers(bmc, Back)

\* The next number is one that is not under way.
LEMMA BehindNext ==
  ASSUME NEW n \in 1 .. SeqMax, NEW q \in 0 .. SeqMax, Behind(n, q) + 1 < SeqMax
  PROVE  n # NextSeq(q) /\ Behind(n, NextSeq(q)) = Behind(n, q) + 1
  BY SolAssumption DEF Behind, NextSeq

LEMMA CostType ==
  ASSUME NEW n \in Nat
  PROVE  Cost(n) \in Nat /\ \A m \in Nat : m <= n => Cost(m) <= Cost(n)
  BY SolAssumption DEF Cost

LEMMA LagTypes ==
  ASSUME NEW s \in Sender
  PROVE  /\ s.seq \in 0 .. SeqMax /\ SeqMax \in Nat /\ Capacity \in Nat
         /\ Spare(s) \in {0, 1} /\ (~ IncrementWorkaround => Spare(s) = 0)
         /\ Limit \in Nat
<1>1. s.seq \in 0 .. SeqMax
  BY DEF Sender
<1>2. SeqMax \in Nat /\ Capacity \in Nat
  BY SolAssumption
<1>3. 2 * Capacity + 2 \in Nat
  BY <1>2
<1>4. Limit \in Nat
  BY <1>3, CostType DEF Limit
<1> QED BY <1>1, <1>2, <1>4 DEF Spare

LEMMA LagLess ==
  ASSUME NEW n \in 0 .. SeqMax, NEW s \in Sender, NEW a \in Nat, NEW a2 \in Nat, a2 <= a,
         NEW e \in {0, 1}, Lag(n, s, a, e)
  PROVE  Lag(n, s, a2, e)
<1> SUFFICES ASSUME n # 0 PROVE Lag(n, s, a2, e)
  BY DEF Lag
<1>1. Behind(n, s.seq) + Cost(a) + Spare(s) + e <= Limit
  BY DEF Lag
<1>2. Behind(n, s.seq) \in Int
  BY LagTypes DEF Behind
<1>3. Cost(a) \in Nat /\ Cost(a2) \in Nat /\ Cost(a2) <= Cost(a)
  BY CostType
<1>4. Spare(s) \in Nat /\ Limit \in Nat /\ e \in Nat
  BY LagTypes
<1>5. Behind(n, s.seq) + Cost(a2) + Spare(s) + e <= Limit
  BY <1>1, <1>2, <1>3, <1>4
<1> QED BY <1>5 DEF Lag

\* An increment uses up what was spared for it.
LEMMA LagNext ==
  ASSUME NEW n \in 0 .. SeqMax, NEW s \in Sender, NEW s2 \in Sender, NEW a \in Nat,
         Lag(n, s, a, 1), s2.seq = NextSeq(s.seq), s2.wretx = s.wretx, SeqMax > Limit
  PROVE  /\ Lag(n, s2, a, 0)
         /\ n # 0 => n # s2.seq
<1> SUFFICES ASSUME n # 0 PROVE Lag(n, s2, a, 0) /\ n # s2.seq
  BY DEF Lag
<1>1. Behind(n, s.seq) + Cost(a) + Spare(s) + 1 <= Limit
  BY DEF Lag
<1>2. Cost(a) \in Nat /\ Spare(s) \in Nat /\ Limit \in Nat /\ SeqMax \in Nat
      /\ s.seq \in 0 .. SeqMax /\ n \in 1 .. SeqMax
  BY LagTypes, CostType
<1>3. Behind(n, s.seq) \in Nat
  BY <1>2 DEF Behind
<1>4. Behind(n, s.seq) + 1 < SeqMax
  BY <1>1, <1>2, <1>3
<1>5. n # NextSeq(s.seq) /\ Behind(n, NextSeq(s.seq)) = Behind(n, s.seq) + 1
  BY <1>2, <1>4, BehindNext
<1>6. Spare(s2) = Spare(s)
  BY DEF Spare
<1>7. Behind(n, s2.seq) + Cost(a) + Spare(s2) + 0 <= Limit
  BY <1>1, <1>2, <1>3, <1>5, <1>6
<1> QED BY <1>5, <1>7 DEF Lag

\* A number equal to the sender's own, wherever it is.
LEMMA LagOwn ==
  ASSUME NEW s \in Sender, NEW a \in Nat, a <= 2 * Capacity + 1
  PROVE  Lag(s.seq, s, a, 0) /\ Lag(s.seq, s, a, 1)
<1>1. /\ s.seq \in Nat /\ Capacity \in Nat /\ Spare(s) \in {0, 1}
      /\ (~ IncrementWorkaround => Spare(s) = 0)
  BY LagTypes
<1>2. Behind(s.seq, s.seq) = 0
  BY <1>1 DEF Behind
<1>3. Cost(a) + Spare(s) + 1 <= Limit
  BY <1>1 DEF Cost, Limit
<1>4. Cost(a) \in Nat /\ Limit \in Nat
  BY CostType, LagTypes
<1>5. 0 + Cost(a) + Spare(s) + 1 <= Limit /\ 0 + Cost(a) + Spare(s) + 0 <= Limit
  BY <1>1, <1>3, <1>4
<1> QED BY <1>2, <1>5 DEF Lag

\* Only these fields of the sender and of the BMC matter to the breaks.
LEMMA BreakSame ==
  ASSUME NEW s, NEW s2, NEW b, NEW b2, NEW t, NEW fwd, NEW back,
         BreakAll(s, b, t, fwd, back),
         s2.breakReq = s.breakReq, s2.waitingBreak = s.waitingBreak,
         s2.waiting = s.waiting, s2.seq = s.seq, s2.wretx = s.wretx,
         b2.last = b.last, b2.in = b.in
  PROVE  BreakAll(s2, b2, t, fwd, back)
<1>1. Spare(s2) = Spare(s)
  BY DEF Spare
<1>2. Lags(s2, b2, fwd, back, 0)
  BY <1>1 DEF BreakAll, Lags, Lag
<1> QED BY <1>2 DEF BreakAll, Rounds, Current, Owed, Kinds

\* A sender that does not wait can afford an increment.
LEMMA IdleLags ==
  ASSUME NEW s \in Sender, NEW b \in Bmc, NEW fwd \in Seq(Packets(Items)),
         NEW back \in Seq(Packets(Out)), Len(fwd) <= Capacity, Len(back) <= Capacity + 1,
         Current(s, b, fwd, back), ~ s.waiting
  PROVE  Lags(s, b, fwd, back, 1)
<1>0. Len(fwd) \in Nat /\ Len(back) \in Nat /\ Capacity \in Nat \ {0}
      /\ Acks(back) \in Nat /\ Acks(back) <= Len(back)
  BY AcksType, SolAssumption
<1>z. \A a : Lag(0, s, a, 1)
  BY DEF Lag
<1>1. ASSUME NEW i \in 1 .. Len(back) PROVE Lag(back[i].ack, s, Ahead(back, i), 1)
  <2>1. i \in Nat \ {0} /\ i - 1 <= 2 * Capacity + 1
    BY <1>0
  <2>2. Ahead(back, i) \in Nat /\ Ahead(back, i) <= i - 1
    BY <2>1, AheadType
  <2>3. Ahead(back, i) <= 2 * Capacity + 1
    BY <1>0, <2>1, <2>2
  <2>4. back[i].ack = 0 \/ back[i].ack = s.seq
    BY DEF Current
  <2> QED BY <1>z, <2>2, <2>3, <2>4, LagOwn
<1>2. Lag(b.last, s, Acks(back), 1)
  <2>1. Acks(back) <= 2 * Capacity + 1
    BY <1>0
  <2>2. b.last = s.seq
    BY DEF Current
  <2> QED BY <1>0, <2>1, <2>2, LagOwn
<1>3. ASSUME NEW i \in 1 .. Len(fwd) PROVE Lag(fwd[i].seq, s, Acks(back) + i, 1)
  <2>1. Acks(back) + i \in Nat /\ Acks(back) + i <= 2 * Capacity + 1
    BY <1>0
  <2>2. fwd[i].seq = 0 \/ fwd[i].seq = s.seq
    BY DEF Current
  <2> QED BY <1>z, <2>1, <2>2, LagOwn
<1> QED BY <1>1, <1>2, <1>3 DEF Lags

\* The sender takes a new number, for data when it was not waiting, or for a
\* break.
LEMMA Renumber ==
  ASSUME NEW s \in Sender, NEW s2 \in Sender, NEW b \in Bmc, NEW t,
         NEW fwd \in Seq(Packets(Items)), NEW back \in Seq(Packets(Out)),
         Rounds(s, b, t, fwd, back), Lags(s, b, fwd, back, 1), SeqMax > Limit,
         s2.seq = NextSeq(s.seq), s2.wretx = s.wretx, s2.waiting,
         s2.breakReq = s.breakReq, s2.waitingBreak => s2.breakReq
  PROVE  BreakAll(s2, b, t, fwd, back)
<1>0. s2.seq # 0
  <2>1. s.seq \in 0 .. SeqMax
    BY LagTypes
  <2> QED BY <2>1, NextSeqType
<1>t. /\ Len(fwd) \in Nat /\ Len(back) \in Nat /\ Acks(back) \in Nat
      /\ b.last \in 0 .. SeqMax
  BY AcksType DEF Bmc
<1>1. ASSUME NEW i \in 1 .. Len(back)
      PROVE  /\ Lag(back[i].ack, s2, Ahead(back, i), 0)
             /\ back[i].ack # 0 => back[i].ack # s2.seq
  <2>1. i \in Nat \ {0} /\ back[i] \in Packets(Out)
    BY <1>t
  <2>2. Ahead(back, i) \in Nat /\ back[i].ack \in 0 .. SeqMax
    BY <2>1, AheadType DEF Packets
  <2>3. Lag(back[i].ack, s, Ahead(back, i), 1)
    BY DEF Lags
  <2> QED BY <2>2, <2>3, LagNext
<1>2. Lag(b.last, s2, Acks(back), 0) /\ b.last # s2.seq
  <2>1. Lag(b.last, s, Acks(back), 1)
    BY DEF Lags
  <2> QED BY <1>0, <1>t, <2>1, LagNext
<1>3. ASSUME NEW i \in 1 .. Len(fwd)
      PROVE  /\ Lag(fwd[i].seq, s2, Acks(back) + i, 0)
             /\ fwd[i].seq # 0 => fwd[i].seq # s2.seq
  <2>1. fwd[i] \in Packets(Items) /\ Acks(back) + i \in Nat
    BY <1>t
  <2>2. fwd[i].seq \in 0 .. SeqMax
    BY <2>1 DEF Packets
  <2>3. Lag(fwd[i].seq, s, Acks(back) + i, 1)
    BY DEF Lags
  <2> QED BY <2>1, <2>2, <2>3, LagNext
<1>4. Lags(s2, b, fwd, back, 0)
  BY <1>1, <1>2, <1>3 DEF Lags
<1>5. Current(s2, b, fwd, back)
  BY <1>0, <1>1, <1>2, <1>3 DEF Current
<1>6. Owed(s2, b, t)
  BY <1>2 DEF Owed, Rounds
<1>7. Kinds(s2, fwd)
  BY <1>0, <1>3 DEF Kinds
<1> QED BY <1>4, <1>5, <1>6, <1>7 DEF BreakAll, Rounds

\* The sender's packet, or one without a number, is sent or lost.
LEMMA BreakSend ==
  ASSUME NEW s \in Sender, NEW b \in Bmc, NEW t,
         NEW fwd \in Seq(Packets(Items)), NEW back \in Seq(Packets(Out)),
         Len(back) <= Capacity + 1, BreakAll(s, b, t, fwd, back),
         NEW p \in Packets(Items),
         p.seq = 0 \/ (s.waiting /\ p.seq = s.seq /\ p.op = s.waitingBreak),
         NEW c \in Sent(fwd, p)
  PROVE  BreakAll(s, b, t, c, back)
<1>1. CASE c = fwd
  BY <1>1
<1>2. CASE Len(fwd) < Capacity /\ c = Append(fwd, p)
  <2>0. Len(fwd) \in Nat /\ Len(back) \in Nat /\ Capacity \in Nat
        /\ Acks(back) \in Nat /\ Acks(back) <= Len(back)
    BY AcksType, SolAssumption
  <2> DEFINE n == Len(fwd)
  <2>1. Len(c) = n + 1 /\ c[n + 1] = p /\ \A i \in 1 .. n : c[i] = fwd[i]
    BY <1>2, AppendProperties
  <2>2. \A i \in 1 .. Len(c) : i = n + 1 \/ i \in 1 .. n
    BY <2>0, <2>1
  <2>3. p.seq \in {0, s.seq}
    OBVIOUS
  <2>4. Lag(p.seq, s, Acks(back) + (n + 1), 0)
    <3>1. Acks(back) + (n + 1) \in Nat /\ Acks(back) + (n + 1) <= 2 * Capacity + 1
      BY <1>2, <2>0
    <3>2. CASE p.seq = 0
      BY <3>2 DEF Lag
    <3>3. CASE p.seq = s.seq
      BY <3>1, <3>3, LagOwn
    <3> QED BY <2>3, <3>2, <3>3
  <2>5. Lags(s, b, c, back, 0)
    BY <2>1, <2>2, <2>4 DEF BreakAll, Lags
  <2>6. Current(s, b, c, back)
    <3>1. Current(s, b, fwd, back)
      BY DEF BreakAll, Rounds
    <3>2. b.last = s.seq => \A i \in 1 .. Len(c) : c[i].seq \in {0, s.seq}
      BY <2>1, <2>2, <2>3, <3>1 DEF Current
    <3>3. ASSUME NEW i \in 1 .. Len(c), c[i].seq = s.seq, c[i].seq # 0,
                 NEW j \in i .. Len(c)
          PROVE  c[j].seq \in {0, s.seq}
      <4>1. CASE j = n + 1
        BY <2>1, <2>3, <4>1
      <4>2. CASE j # n + 1
        <5>1. i \in 1 .. n /\ j \in i .. n /\ j \in 1 .. n
          BY <2>0, <2>1, <4>2
        <5> QED BY <2>1, <3>1, <3>3, <5>1 DEF Current
      <4> QED BY <4>1, <4>2
    <3> QED BY <3>1, <3>2, <3>3 DEF Current
  <2>7. Kinds(s, c)
    <3>1. Kinds(s, fwd) /\ (s.waiting => s.seq # 0)
      BY DEF BreakAll, Rounds, Current
    <3> QED BY <2>1, <2>2, <3>1 DEF Kinds
  <2> QED BY <2>5, <2>6, <2>7 DEF BreakAll, Rounds
<1> QED BY <1>1, <1>2 DEF Sent

\* Packets at the front of either channel are gone.
LEMMA LagsDrop ==
  ASSUME NEW s \in Sender, NEW b \in Bmc, NEW e \in {0, 1},
         NEW fwd \in Seq(Packets(Items)), NEW fwd2 \in Seq(Packets(Items)),
         NEW m \in Nat, Suffix(fwd2, fwd, m),
         NEW back \in Seq(Packets(Out)), NEW back2 \in Seq(Packets(Out)),
         NEW k \in Nat, Suffix(back2, back, k), Lags(s, b, fwd, back, e)
  PROVE  Lags(s, b, fwd2, back2, e)
<1>0. /\ Len(fwd2) \in Nat /\ Len(back2) \in Nat
      /\ Len(fwd) = Len(fwd2) + m /\ Len(back) = Len(back2) + k
      /\ Acks(back2) \in Nat /\ Acks(back) \in Nat /\ Acks(back2) <= Acks(back)
      /\ b.last \in 0 .. SeqMax
  <2>1. Acks(back2) \in Nat /\ Acks(back) \in Nat /\ Acks(back2) <= Acks(back)
    BY AcksSuffix
  <2>2. b.last \in 0 .. SeqMax
    BY DEF Bmc
  <2> QED BY <2>1, <2>2 DEF Suffix
<1>1. ASSUME NEW i \in 1 .. Len(back2) PROVE Lag(back2[i].ack, s, Ahead(back2, i), e)
  <2>1. i + k \in 1 .. Len(back) /\ i \in 1 .. Len(back2) + 1 /\ back2[i] \in Packets(Out)
    BY <1>0
  <2>2. back2[i] = back[i + k] /\ back2[i].ack \in 0 .. SeqMax
    BY <2>1 DEF Suffix, Packets
  <2>3. Lag(back[i + k].ack, s, Ahead(back, i + k), e)
    BY <2>1 DEF Lags
  <2>4. /\ Ahead(back2, i) \in Nat /\ Ahead(back, i + k) \in Nat
        /\ Ahead(back2, i) <= Ahead(back, i + k)
    BY <2>1, AheadSuffix
  <2> QED BY <2>2, <2>3, <2>4, LagLess
<1>2. Lag(b.last, s, Acks(back2), e)
  <2>1. Lag(b.last, s, Acks(back), e)
    BY DEF Lags
  <2> QED BY <1>0, <2>1, LagLess
<1>3. ASSUME NEW i \in 1 .. Len(fwd2) PROVE Lag(fwd2[i].seq, s, Acks(back2) + i, e)
  <2>1. i + m \in 1 .. Len(fwd) /\ fwd2[i] \in Packets(Items)
    BY <1>0
  <2>2. fwd2[i] = fwd[i + m] /\ fwd2[i].seq \in 0 .. SeqMax
    BY <2>1 DEF Suffix, Packets
  <2>3. Lag(fwd[i + m].seq, s, Acks(back) + (i + m), e)
    BY <2>1 DEF Lags
  <2>4. /\ Acks(back2) + i \in Nat /\ Acks(back) + (i + m) \in Nat
        /\ Acks(back2) + i <= Acks(back) + (i + m)
    BY <1>0, SMTT(30)
  <2> QED BY <2>2, <2>3, <2>4, LagLess, SMTT(30)
<1> QED BY <1>1, <1>2, <1>3 DEF Lags

LEMMA RoundsDrop ==
  ASSUME NEW s \in Sender, NEW b \in Bmc, NEW t,
         NEW fwd \in Seq(Packets(Items)), NEW fwd2 \in Seq(Packets(Items)),
         NEW m \in Nat, Suffix(fwd2, fwd, m),
         NEW back \in Seq(Packets(Out)), NEW back2 \in Seq(Packets(Out)),
         NEW k \in Nat, Suffix(back2, back, k), Rounds(s, b, t, fwd, back)
  PROVE  Rounds(s, b, t, fwd2, back2)
<1>0. /\ Len(fwd2) \in Nat /\ Len(back2) \in Nat
      /\ Len(fwd) = Len(fwd2) + m /\ Len(back) = Len(back2) + k
      /\ Current(s, b, fwd, back) /\ Owed(s, b, t) /\ Kinds(s, fwd)
  BY DEF Suffix, Rounds
<1>1. \A i \in 1 .. Len(back2) : i + k \in 1 .. Len(back) /\ back2[i] = back[i + k]
  BY <1>0 DEF Suffix
<1>2. \A i \in 1 .. Len(fwd2) : i + m \in 1 .. Len(fwd) /\ fwd2[i] = fwd[i + m]
  BY <1>0 DEF Suffix
<1>3. ASSUME NEW i \in 1 .. Len(back2), back2[i].ack = s.seq, back2[i].ack # 0
      PROVE  b.last = s.seq /\ \A j \in i .. Len(back2) : back2[j].ack \in {0, s.seq}
  <2>1. b.last = s.seq /\ \A j \in i + k .. Len(back) : back[j].ack \in {0, s.seq}
    BY <1>0, <1>1, <1>3 DEF Current
  <2>2. \A j \in i .. Len(back2) : j \in 1 .. Len(back2) /\ j + k \in i + k .. Len(back)
    BY <1>0
  <2> QED BY <1>1, <2>1, <2>2
<1>4. ASSUME NEW i \in 1 .. Len(fwd2), fwd2[i].seq = s.seq, fwd2[i].seq # 0
      PROVE  \A j \in i .. Len(fwd2) : fwd2[j].seq \in {0, s.seq}
  <2>1. \A j \in i + m .. Len(fwd) : fwd[j].seq \in {0, s.seq}
    BY <1>0, <1>2, <1>4 DEF Current
  <2>2. \A j \in i .. Len(fwd2) : j \in 1 .. Len(fwd2) /\ j + m \in i + m .. Len(fwd)
    BY <1>0
  <2> QED BY <1>2, <2>1, <2>2
<1>5. b.last = s.seq => \A i \in 1 .. Len(fwd2) : fwd2[i].seq \in {0, s.seq}
  BY <1>0, <1>2 DEF Current
<1>6. ~ s.waiting =>
        b.last = s.seq /\ \A i \in 1 .. Len(back2) : back2[i].ack \in {0, s.seq}
  BY <1>0, <1>1 DEF Current
<1>7. Current(s, b, fwd2, back2)
  <2>1. s.waiting => s.seq # 0
    BY <1>0 DEF Current
  <2> QED BY <1>3, <1>4, <1>5, <1>6, <2>1 DEF Current
<1>8. Kinds(s, fwd2)
  BY <1>0, <1>2 DEF Kinds
<1> QED BY <1>0, <1>7, <1>8 DEF Rounds

\* An acknowledgement received pays for an increment, and for the workaround's.
LEMMA LagTaken ==
  ASSUME NEW n \in 0 .. SeqMax, NEW s \in Sender, NEW s2 \in Sender, s2.seq = s.seq,
         NEW a \in Nat, NEW a2 \in Nat, a2 + 1 <= a, Lag(n, s, a, 0)
  PROVE  Lag(n, s2, a2, 1)
<1> SUFFICES ASSUME n # 0 PROVE Lag(n, s2, a2, 1)
  BY DEF Lag
<1>1. Behind(n, s.seq) + Cost(a) + Spare(s) + 0 <= Limit
  BY DEF Lag
<1>2. Behind(n, s.seq) \in Int
  BY LagTypes DEF Behind
<1>3. /\ Spare(s) \in {0, 1} /\ Spare(s2) \in {0, 1} /\ Limit \in Nat
      /\ (~ IncrementWorkaround => Spare(s2) = 0)
  BY LagTypes
<1>4. Cost(a) \in Nat /\ Cost(a2) \in Nat
  BY CostType
<1>5. Cost(a2) + Spare(s2) + 1 <= Cost(a)
  BY <1>3 DEF Cost
<1>6. Behind(n, s.seq) + Cost(a2) + Spare(s2) + 1 <= Limit
  BY <1>1, <1>2, <1>3, <1>4, <1>5
<1> QED BY <1>6 DEF Lag

LEMMA LagsTaken ==
  ASSUME NEW s \in Sender, NEW s2 \in Sender, s2.seq = s.seq, NEW b \in Bmc,
         NEW fwd \in Seq(Packets(Items)),
         NEW back \in Seq(Packets(Out)), NEW back2 \in Seq(Packets(Out)),
         Suffix(back2, back, 1), back[1].ack # 0, Lags(s, b, fwd, back, 0)
  PROVE  Lags(s2, b, fwd, back2, 1)
<1>0. /\ Len(fwd) \in Nat /\ Len(back2) \in Nat /\ Len(back) = Len(back2) + 1
      /\ Acks(back2) \in Nat /\ Acks(back) \in Nat /\ Acks(back2) + 1 <= Acks(back)
      /\ b.last \in 0 .. SeqMax /\ 1 \in Nat
  <2>1. 1 \in Nat
    OBVIOUS
  <2>2. Acks(back2) \in Nat /\ Acks(back) \in Nat /\ Acks(back2) + 1 <= Acks(back)
    BY <2>1, AcksSuffix
  <2> QED BY <2>1, <2>2 DEF Suffix, Bmc
<1>1. ASSUME NEW i \in 1 .. Len(back2) PROVE Lag(back2[i].ack, s2, Ahead(back2, i), 1)
  <2>1. i + 1 \in 1 .. Len(back) /\ i \in 1 .. Len(back2) + 1 /\ back2[i] \in Packets(Out)
    BY <1>0
  <2>2. back2[i] = back[i + 1] /\ back2[i].ack \in 0 .. SeqMax
    BY <2>1 DEF Suffix, Packets
  <2>3. Lag(back[i + 1].ack, s, Ahead(back, i + 1), 0)
    BY <2>1 DEF Lags
  <2>4. /\ Ahead(back2, i) \in Nat /\ Ahead(back, i + 1) \in Nat
        /\ Ahead(back2, i) + 1 <= Ahead(back, i + 1)
    BY <1>0, <2>1, AheadSuffix
  <2> QED BY <2>2, <2>3, <2>4, LagTaken
<1>2. Lag(b.last, s2, Acks(back2), 1)
  <2>1. Lag(b.last, s, Acks(back), 0)
    BY DEF Lags
  <2> QED BY <1>0, <2>1, LagTaken
<1>3. ASSUME NEW i \in 1 .. Len(fwd) PROVE Lag(fwd[i].seq, s2, Acks(back2) + i, 1)
  <2>1. fwd[i] \in Packets(Items)
    BY <1>0
  <2>2. fwd[i].seq \in 0 .. SeqMax
    BY <2>1 DEF Packets
  <2>3. Lag(fwd[i].seq, s, Acks(back) + i, 0)
    BY DEF Lags
  <2>4. /\ Acks(back2) + i \in Nat /\ Acks(back) + i \in Nat
        /\ (Acks(back2) + i) + 1 <= Acks(back) + i
    BY <1>0
  <2> QED BY <2>2, <2>3, <2>4, LagTaken
<1> QED BY <1>1, <1>2, <1>3 DEF Lags

LEMMA LagsWeaker ==
  ASSUME NEW s \in Sender, NEW b \in Bmc, NEW fwd \in Seq(Packets(Items)),
         NEW back \in Seq(Packets(Out)), Lags(s, b, fwd, back, 1)
  PROVE  Lags(s, b, fwd, back, 0)
<1>1. ASSUME NEW n \in 0 .. SeqMax, NEW a \in Nat, Lag(n, s, a, 1) PROVE Lag(n, s, a, 0)
  <2> SUFFICES ASSUME n # 0 PROVE Lag(n, s, a, 0)
    BY DEF Lag
  <2>1. Behind(n, s.seq) + Cost(a) + Spare(s) + 1 <= Limit
    BY <1>1 DEF Lag
  <2>2. Behind(n, s.seq) \in Int
    BY LagTypes DEF Behind
  <2>3. Cost(a) \in Nat /\ Spare(s) \in Nat /\ Limit \in Nat
    <3>1. Cost(a) \in Nat
      BY CostType
    <3> QED BY <3>1, LagTypes
  <2>4. Behind(n, s.seq) + Cost(a) + Spare(s) + 0 <= Limit
    BY <2>1, <2>2, <2>3
  <2> QED BY <2>4 DEF Lag
<1>2. /\ Len(fwd) \in Nat /\ Len(back) \in Nat /\ Acks(back) \in Nat
      /\ b.last \in 0 .. SeqMax
  BY AcksType DEF Bmc
<1>3. ASSUME NEW i \in 1 .. Len(back)
      PROVE  back[i].ack \in 0 .. SeqMax /\ Ahead(back, i) \in Nat
  <2>1. back[i] \in Packets(Out) /\ i \in Nat \ {0}
    BY <1>2
  <2> QED BY <2>1, AheadType DEF Packets
<1>4. ASSUME NEW i \in 1 .. Len(fwd)
      PROVE  fwd[i].seq \in 0 .. SeqMax /\ Acks(back) + i \in Nat
  <2>1. fwd[i] \in Packets(Items) /\ Acks(back) + i \in Nat
    BY <1>2
  <2> QED BY <2>1 DEF Packets
<1> QED BY <1>1, <1>2, <1>3, <1>4 DEF Lags

\* What an acknowledgement changes of the fields that matter.
LEMMA AckedFields ==
  ASSUME NEW s \in Sender, NEW p \in Packets(Out)
  PROVE  /\ Acked(s, p).seq = s.seq /\ Acked(s, p).wretx = s.wretx
         /\ IF IsAck(s, p)
            THEN /\ ~ Acked(s, p).waiting /\ ~ Acked(s, p).waitingBreak
                 /\ Acked(s, p).breakReq = (s.breakReq /\ ~ s.waitingBreak)
            ELSE Acked(s, p) = s
<1> DEFINE len == Len(s.data)
           count == IF p.count > len THEN len ELSE p.count
           rest == SubSeq(s.buf, count + 1, Len(s.buf))
           left == IF count > s.before THEN 0 ELSE s.before - count
<1>0. s.waitingBreak \in BOOLEAN /\ s.breakReq \in BOOLEAN
  BY DEF Sender
<1>1. CASE ~ IsAck(s, p)
  BY <1>1 DEF Acked
<1>2. CASE IsAck(s, p) /\ s.waitingBreak
  <2>1. Acked(s, p) = [s EXCEPT !.breakReq = FALSE, !.waiting = FALSE,
                                !.waitingBreak = FALSE, !.data = <<>>]
    BY <1>2 DEF Acked
  <2> QED BY <1>0, <1>2, <2>1 DEF Sender
<1>3. CASE IsAck(s, p) /\ ~ s.waitingBreak
  <2>1. Acked(s, p) = [s EXCEPT !.buf = rest, !.before = left,
                                !.waiting = FALSE, !.data = <<>>]
    BY <1>3 DEF Acked
  <2> HIDE DEF rest, left
  <2> QED BY <1>0, <1>3, <2>1 DEF Sender
<1> QED BY <1>1, <1>2, <1>3

\* The first packet of back is processed: if it acknowledges a break, the BMC
\* has it.
LEMMA RoundsAcked ==
  ASSUME NEW s \in Sender, NEW b \in Bmc, NEW t \in Seq(Items), NEW fwd,
         NEW back \in Seq(Packets(Out)), Len(back) > 0, NEW p \in Packets(Out),
         back[1] = p, Rounds(s, b, t, fwd, back)
  PROVE  Rounds(Acked(s, p), b, t, fwd, back)
<1> DEFINE s2 == Acked(s, p)
<1>1. /\ s2.seq = s.seq
      /\ IF IsAck(s, p) THEN /\ ~ s2.waiting /\ ~ s2.waitingBreak
                             /\ s2.breakReq = (s.breakReq /\ ~ s.waitingBreak)
         ELSE s2 = s
  BY AckedFields
<1> HIDE DEF s2
<1>2. CASE ~ IsAck(s, p)
  BY <1>1, <1>2 DEF s2
<1>3. CASE IsAck(s, p)
  <2>0. Current(s, b, fwd, back) /\ Owed(s, b, t)
    BY DEF Rounds
  <2>1. 1 \in 1 .. Len(back) /\ p.ack = s.seq /\ p.ack # 0
    BY <1>3 DEF IsAck
  <2>2. b.last = s.seq /\ \A j \in 1 .. Len(back) : back[j].ack \in {0, s.seq}
    BY <2>0, <2>1 DEF Current
  <2>3. Current(s2, b, fwd, back)
    BY <1>1, <1>3, <2>0, <2>2 DEF Current
  <2>4. Owed(s2, b, t)
    <3>1. CASE s.waitingBreak
      <4>1. Breaks(b.in) >= Breaks(t) /\ ~ s2.breakReq /\ ~ s2.waitingBreak
        BY <1>1, <1>3, <2>0, <2>2, <3>1 DEF Owed
      <4>2. Breaks(b.in) >= Breaks(t) - 0
        <5>1. b.in \in Seq(Items)
          BY DEF Bmc
        <5>2. Breaks(b.in) \in Nat /\ Breaks(t) \in Nat
          BY <5>1, BreaksType
        <5> QED BY <4>1, <5>2
      <4> QED BY <4>1, <4>2 DEF Owed
    <3>2. CASE ~ s.waitingBreak
      <4>1. (IF s2.breakReq THEN 1 ELSE 0) = (IF s.breakReq THEN 1 ELSE 0)
            /\ ~ s2.waitingBreak
        BY <1>1, <1>3, <3>2
      <4> QED BY <2>0, <4>1 DEF Owed
    <3> QED BY <3>1, <3>2
  <2>5. Kinds(s2, fwd)
    BY <1>1, <1>3 DEF Kinds
  <2> QED BY <2>3, <2>4, <2>5 DEF Rounds, s2
<1> QED BY <1>2, <1>3

\* The BMC reads the first packet of fwd, which has a number, and its answer
\* is lost or under way; more breaks are in, the one of a new packet included.
LEMMA BreakTake ==
  ASSUME NEW s \in Sender, NEW b \in Bmc, NEW b2 \in Bmc, NEW t \in Seq(Items),
         NEW fwd \in Seq(Packets(Items)), NEW fwd2 \in Seq(Packets(Items)),
         Suffix(fwd2, fwd, 1), Len(fwd) > 0,
         NEW back \in Seq(Packets(Out)), NEW q \in Packets(Out), NEW back2,
         back2 = back \/ back2 = Append(back, q),
         fwd[1].seq # 0, q.ack = fwd[1].seq, b2.last = fwd[1].seq,
         BreakAll(s, b, t, fwd, back),
         Breaks(b2.in) >= Breaks(b.in),
         fwd[1].op /\ fwd[1].seq # b.last => Breaks(b2.in) >= Breaks(b.in) + 1
  PROVE  BreakAll(s, b2, t, fwd2, back2)
<1> DEFINE p == fwd[1]
           n == Len(back)
<1>0. /\ Len(fwd) \in Nat /\ Len(fwd2) \in Nat /\ Len(fwd) = Len(fwd2) + 1
      /\ n \in Nat /\ Acks(back) \in Nat /\ p.seq \in 0 .. SeqMax /\ p \in Packets(Items)
      /\ s.waiting \in BOOLEAN
  <2>1. p \in Packets(Items) /\ Len(fwd) \in Nat /\ Len(fwd2) \in Nat /\ n \in Nat
    OBVIOUS
  <2>2. Len(fwd) = Len(fwd2) + 1
    BY DEF Suffix
  <2> QED BY <2>1, <2>2, AcksType DEF Packets, Sender
<1>1. back2 \in Seq(Packets(Out)) /\ Len(back2) \in Nat
  <2>1. Append(back, q) \in Seq(Packets(Out))
    BY AppendProperties
  <2>2. back2 \in Seq(Packets(Out))
    BY <2>1
  <2> HIDE DEF n
  <2> QED BY <2>2, LenProperties
<1>2. Acks(back2) \in Nat /\ Acks(back2) <= Acks(back) + 1
  <2>1. CASE back2 = back
    BY <1>0, <2>1
  <2>2. CASE back2 = Append(back, q)
    <3>1. Acks(back2) = Acks(back) + (IF q.ack # 0 THEN 1 ELSE 0)
      BY <2>2, AcksAppend
    <3> QED BY <1>0, <3>1
  <2> QED BY <2>1, <2>2
<1>3. \A i \in 1 .. Len(back2) :
        \/ i \in 1 .. n /\ back2[i] = back[i] /\ Ahead(back2, i) = Ahead(back, i)
        \/ i = n + 1 /\ back2[i] = q /\ Ahead(back2, i) = Acks(back)
  <2>1. CASE back2 = back
    BY <2>1
  <2>2. CASE back2 = Append(back, q)
    <3>1. /\ Len(back2) = n + 1 /\ back2[n + 1] = q
          /\ \A i \in 1 .. n : back2[i] = back[i]
      BY <2>2, AppendProperties
    <3>2. \A i \in 1 .. n + 1 : Ahead(back2, i) = Ahead(back, i)
      BY <2>2, AheadAppend
    <3>3. \A i \in 1 .. Len(back2) : (i \in 1 .. n \/ i = n + 1) /\ i \in 1 .. n + 1
      BY <1>0, <3>1
    <3> QED BY <3>1, <3>2, <3>3 DEF Acks
  <2> QED BY <2>1, <2>2
<1>4. \A i \in 1 .. Len(fwd2) : i + 1 \in 1 .. Len(fwd) /\ fwd2[i] = fwd[i + 1]
  BY <1>0 DEF Suffix
<1>5. 1 \in 1 .. Len(fwd)
  BY <1>0
<1>6. /\ Lags(s, b, fwd, back, 0) /\ Current(s, b, fwd, back) /\ Owed(s, b, t)
      /\ Kinds(s, fwd)
  BY DEF BreakAll, Rounds
<1>7. Lags(s, b2, fwd2, back2, 0)
  <2>1. Lag(p.seq, s, Acks(back) + 1, 0) /\ Acks(back) + 1 \in Nat
    BY <1>0, <1>5, <1>6 DEF Lags
  <2>2. Lag(p.seq, s, Acks(back), 0) /\ Lag(p.seq, s, Acks(back2), 0)
    <3>1. Acks(back) <= Acks(back) + 1
      BY <1>0
    <3> QED BY <1>0, <1>2, <2>1, <3>1, LagLess
  <2>3. \A i \in 1 .. Len(back2) : Lag(back2[i].ack, s, Ahead(back2, i), 0)
    BY <1>3, <1>6, <2>2 DEF Lags
  <2>4. ASSUME NEW i \in 1 .. Len(fwd2) PROVE Lag(fwd2[i].seq, s, Acks(back2) + i, 0)
    <3>1. Lag(fwd[i + 1].seq, s, Acks(back) + (i + 1), 0)
      BY <1>4, <1>6 DEF Lags
    <3>2. /\ Acks(back2) + i \in Nat /\ Acks(back) + (i + 1) \in Nat
          /\ Acks(back2) + i <= Acks(back) + (i + 1)
      BY <1>0, <1>2
    <3>3. fwd2[i] \in Packets(Items)
      BY <1>0
    <3>4. fwd2[i].seq \in 0 .. SeqMax /\ fwd2[i] = fwd[i + 1]
      BY <1>4, <3>3 DEF Packets
    <3> QED BY <3>1, <3>2, <3>4, LagLess
  <2> QED BY <2>2, <2>3, <2>4 DEF Lags
<1>8. CASE p.seq = s.seq
  <2>1. \A j \in 1 .. Len(fwd) : fwd[j].seq \in {0, s.seq}
    BY <1>5, <1>6, <1>8 DEF Current
  <2>2. \A j \in 1 .. Len(fwd2) : fwd2[j].seq \in {0, s.seq}
    BY <1>4, <2>1
  <2>3. Current(s, b2, fwd2, back2)
    <3>1. ASSUME NEW i \in 1 .. Len(back2), back2[i].ack = s.seq, back2[i].ack # 0,
                 NEW j \in i .. Len(back2)
          PROVE  back2[j].ack \in {0, s.seq}
      <4>1. j \in 1 .. Len(back2)
        BY <1>1
      <4>2. CASE j = n + 1 /\ back2[j] = q
        BY <1>8, <4>2
      <4>3. CASE j \in 1 .. n /\ back2[j] = back[j]
        <5>1. i \in 1 .. n /\ j \in i .. n
          BY <1>0, <1>1, <4>3
        <5>2. i # n + 1
          BY <1>0, <5>1
        <5>3. back2[i] = back[i]
          BY <1>3, <5>2
        <5> QED BY <1>6, <3>1, <4>3, <5>1, <5>3 DEF Current
      <4> QED BY <1>3, <4>1, <4>2, <4>3
    <3>2. \A j \in 1 .. Len(fwd2) : \A k \in j .. Len(fwd2) : k \in 1 .. Len(fwd2)
      BY <1>0
    <3>3. ~ s.waiting => \A i \in 1 .. Len(back2) : back2[i].ack \in {0, s.seq}
      BY <1>3, <1>6, <1>8 DEF Current
    <3>4. s.waiting => s.seq # 0
      BY <1>6 DEF Current
    <3> QED BY <1>8, <2>2, <3>1, <3>2, <3>3, <3>4 DEF Current
  <2>4. Kinds(s, fwd2)
    BY <1>4, <1>6 DEF Kinds
  <2>5. Owed(s, b2, t)
    <3>0. /\ Breaks(b.in) \in Nat /\ Breaks(b2.in) \in Nat /\ Breaks(t) \in Nat
          /\ s.waitingBreak \in BOOLEAN
      <4>1. b.in \in Seq(Items) /\ b2.in \in Seq(Items)
        BY DEF Bmc
      <4> QED BY <4>1, BreaksType DEF Sender
    <3>1. Breaks(b2.in) >= Breaks(t) - (IF s.breakReq THEN 1 ELSE 0)
      BY <1>6, <3>0 DEF Owed
    <3>2. ASSUME s.waitingBreak PROVE Breaks(b2.in) >= Breaks(t)
      <4>1. CASE b.last = s.seq
        BY <1>6, <3>0, <3>2, <4>1 DEF Owed
      <4>2. CASE b.last # s.seq
        <5>1. p.op
          BY <1>5, <1>6, <1>8, <3>2 DEF Kinds, Owed
        <5>2. Breaks(b2.in) >= Breaks(b.in) + 1
          BY <1>8, <4>2, <5>1
        <5>3. Breaks(b.in) >= Breaks(t) - 1
          BY <1>6, <3>2 DEF Owed
        <5> QED BY <3>0, <5>2, <5>3
      <4> QED BY <4>1, <4>2
    <3> QED BY <1>6, <3>1, <3>2 DEF Owed
  <2> QED BY <1>7, <2>3, <2>4, <2>5 DEF BreakAll, Rounds
<1>9. CASE p.seq # s.seq
  <2>1. b.last # s.seq /\ s.waiting
    BY <1>5, <1>6, <1>9 DEF Current
  <2>2. \A i \in 1 .. Len(back2) : back2[i].ack # 0 => back2[i].ack # s.seq
    BY <1>3, <1>6, <1>9, <2>1 DEF Current
  <2>3. ASSUME NEW i \in 1 .. Len(fwd2), fwd2[i].seq = s.seq, fwd2[i].seq # 0
        PROVE  \A j \in i .. Len(fwd2) : fwd2[j].seq \in {0, s.seq}
    <3>1. \A j \in i + 1 .. Len(fwd) : fwd[j].seq \in {0, s.seq}
      BY <1>4, <1>6, <2>3 DEF Current
    <3>2. \A j \in i .. Len(fwd2) : j \in 1 .. Len(fwd2) /\ j + 1 \in i + 1 .. Len(fwd)
      BY <1>0
    <3> QED BY <1>4, <3>1, <3>2
  <2>4. Current(s, b2, fwd2, back2)
    <3>1. s.seq # 0
      BY <1>6, <2>1 DEF Current
    <3> QED BY <1>9, <2>1, <2>2, <2>3, <3>1 DEF Current
  <2>5. Kinds(s, fwd2)
    BY <1>4, <1>6 DEF Kinds
  <2>6. Owed(s, b2, t)
    <3>0. Breaks(b.in) \in Nat /\ Breaks(b2.in) \in Nat /\ Breaks(t) \in Nat
      <4>1. b.in \in Seq(Items) /\ b2.in \in Seq(Items)
        BY DEF Bmc
      <4> QED BY <4>1, BreaksType
    <3>1. Breaks(b2.in) >= Breaks(t) - (IF s.breakReq THEN 1 ELSE 0)
      BY <1>6, <3>0 DEF Owed
    <3> QED BY <1>6, <1>9, <3>1 DEF Owed
  <2> QED BY <1>7, <2>4, <2>5, <2>6 DEF BreakAll, Rounds
<1> QED BY <1>8, <1>9

\* The fields of a sender that takes a new number.
LEMMA WithFields ==
  ASSUME NEW s \in Sender
  PROVE  /\ WithData(s).seq = NextSeq(s.seq) /\ WithData(s).wretx = s.wretx
         /\ WithData(s).waiting /\ WithData(s).breakReq = s.breakReq
         /\ WithData(s).waitingBreak = s.waitingBreak
         /\ WithBreak(s).seq = NextSeq(s.seq) /\ WithBreak(s).wretx = s.wretx
         /\ WithBreak(s).waiting /\ WithBreak(s).breakReq = s.breakReq
         /\ WithBreak(s).waitingBreak
<1> DEFINE d == Peek(s)
           q == NextSeq(s.seq)
<1>1. /\ WithData(s) = [s EXCEPT !.seq = q, !.data = d, !.waiting = TRUE]
      /\ WithBreak(s) = [s EXCEPT !.seq = q, !.data = <<>>, !.waiting = TRUE,
                                  !.waitingBreak = TRUE]
  BY DEF WithData, WithBreak
<1>2. q = NextSeq(s.seq)
  OBVIOUS
<1> HIDE DEF d, q
<1> QED BY <1>1, <1>2 DEF Sender

\* A sender that does not wait sends data.
LEMMA BreakData ==
  ASSUME NEW s, SenderOK(s), NEW b \in Bmc, NEW t, NEW fwd \in Seq(Packets(Items)),
         NEW back \in Seq(Packets(Out)), Len(fwd) <= Capacity, Len(back) <= Capacity + 1,
         SeqMax > Limit, Rounds(s, b, t, fwd, back), ~ s.waiting,
         NEW ack \in 0 .. SeqMax, NEW n \in Nat,
         NEW c \in Sent(fwd, DataPacket(WithData(s), ack, n))
  PROVE  BreakAll(WithData(s), b, t, c, back)
<1> DEFINE s2 == WithData(s)
           p == DataPacket(s2, ack, n)
<1>1. s \in Sender /\ s2 \in Sender
  BY WithDataType DEF SenderOK
<1>2. Current(s, b, fwd, back) /\ ~ s.waitingBreak
  BY DEF Rounds, Owed
<1>3. Lags(s, b, fwd, back, 1)
  BY <1>1, <1>2, IdleLags
<1>4. /\ s2.seq = NextSeq(s.seq) /\ s2.wretx = s.wretx /\ s2.waiting
      /\ s2.breakReq = s.breakReq /\ s2.waitingBreak = s.waitingBreak
  BY <1>1, WithFields
<1>5. p \in Packets(Items)
  BY <1>1, SenderPackets
<1>6. p.seq = s2.seq /\ p.op = FALSE
  BY DEF DataPacket, Packet
<1>7. s2.waitingBreak = FALSE
  BY <1>1, <1>2, <1>4 DEF Sender
<1>8. c \in Sent(fwd, p)
  OBVIOUS
<1> HIDE DEF s2, p
<1>9. BreakAll(s2, b, t, fwd, back)
  BY <1>1, <1>3, <1>4, <1>7, Renumber
<1>10. BreakAll(s2, b, t, c, back)
  BY <1>1, <1>4, <1>5, <1>6, <1>7, <1>8, <1>9, BreakSend
<1> QED BY <1>10 DEF s2

\* A sender that can afford a number sends a break.
LEMMA BreakBreak ==
  ASSUME NEW s, SenderOK(s), NEW b \in Bmc, NEW t, NEW fwd \in Seq(Packets(Items)),
         NEW back \in Seq(Packets(Out)), Len(back) <= Capacity + 1,
         SeqMax > Limit, Rounds(s, b, t, fwd, back), Lags(s, b, fwd, back, 1),
         s.breakReq, NEW c \in Sent(fwd, BreakPacket(WithBreak(s)))
  PROVE  BreakAll(WithBreak(s), b, t, c, back)
<1> DEFINE s2 == WithBreak(s)
           p == BreakPacket(s2)
<1>1. s \in Sender /\ s2 \in Sender /\ 0 \in 0 .. SeqMax /\ 0 \in Nat
  BY WithBreakType, SolAssumption DEF SenderOK
<1>2. /\ s2.seq = NextSeq(s.seq) /\ s2.wretx = s.wretx /\ s2.waiting
      /\ s2.breakReq = s.breakReq /\ s2.waitingBreak
  BY <1>1, WithFields
<1>3. p \in Packets(Items)
  BY <1>1, SenderPackets
<1>4. p.seq = s2.seq /\ p.op = TRUE
  BY DEF BreakPacket, Packet
<1>5. s2.waitingBreak = TRUE
  BY <1>1, <1>2 DEF Sender
<1>6. c \in Sent(fwd, p)
  OBVIOUS
<1> HIDE DEF s2, p
<1>7. BreakAll(s2, b, t, fwd, back)
  BY <1>1, <1>2, Renumber
<1>8. BreakAll(s2, b, t, c, back)
  BY <1>1, <1>2, <1>3, <1>4, <1>5, <1>6, <1>7, BreakSend
<1> QED BY <1>8 DEF s2

\* A retransmission repeats the sender's packet.
LEMMA BreakAgain ==
  ASSUME NEW s \in Sender, NEW b \in Bmc, NEW t, NEW fwd \in Seq(Packets(Items)),
         NEW back \in Seq(Packets(Out)), Len(back) <= Capacity + 1,
         BreakAll(s, b, t, fwd, back), s.waiting, NEW c \in Sent(fwd, SameAgain(s))
  PROVE  BreakAll(s, b, t, c, back)
<1> DEFINE p == SameAgain(s)
<1>1. p \in Packets(Items)
  BY SenderPackets, SolAssumption
<1>2. p.seq = s.seq /\ p.op = s.waitingBreak
  <2>1. s.waitingBreak \in BOOLEAN
    BY DEF Sender
  <2>2. CASE s.waitingBreak
    BY <2>1, <2>2 DEF SameAgain, BreakPacket, Packet
  <2>3. CASE ~ s.waitingBreak
    BY <2>1, <2>3 DEF SameAgain, DataPacket, Packet
  <2> QED BY <2>2, <2>3
<1> HIDE DEF p
<1>3. c \in Sent(fwd, p)
  BY DEF p
<1> QED BY <1>1, <1>2, <1>3, BreakSend

\* Only the number of breaks typed matters.
LEMMA BreakTyped ==
  ASSUME NEW s, NEW b, NEW t, NEW t2, NEW fwd, NEW back,
         BreakAll(s, b, t, fwd, back), Breaks(t2) = Breaks(t)
  PROVE  BreakAll(s, b, t2, fwd, back)
  BY DEF BreakAll, Rounds, Owed

\* The BMC sends a packet that acknowledges nothing.
LEMMA BreakQuiet ==
  ASSUME NEW s, NEW b, NEW t, NEW fwd, NEW back \in Seq(Packets(Out)),
         NEW p \in Packets(Out), p.ack = 0, BreakAll(s, b, t, fwd, back)
  PROVE  BreakAll(s, b, t, fwd, Append(back, p))
<1> DEFINE n == Len(back)
           c == Append(back, p)
<1>0. n \in Nat
  OBVIOUS
<1>1. Len(c) = n + 1 /\ c[n + 1] = p /\ \A i \in 1 .. n : c[i] = back[i]
  BY AppendProperties
<1>2. /\ \A i \in 1 .. Len(c) : i \in 1 .. n \/ i = n + 1
      /\ \A i \in 1 .. n : i \in 1 .. n + 1
      /\ \A i \in 1 .. n : \A j \in i .. Len(c) : j \in i .. n \/ j = n + 1
      /\ \A i \in 1 .. n : \A j \in i .. n : j \in 1 .. n
  BY <1>0, <1>1
<1>3. \A i \in 1 .. n : Ahead(c, i) = Ahead(back, i)
  BY <1>2, AheadAppend
<1>4. Acks(c) = Acks(back)
  <2>1. Acks(back) \in Nat
    BY AcksType
  <2>2. Acks(c) = Acks(back) + (IF p.ack # 0 THEN 1 ELSE 0)
    BY AcksAppend
  <2> HIDE DEF c
  <2> QED BY <2>1, <2>2
<1> HIDE DEF n, c
<1>5. Lags(s, b, fwd, back, 0) /\ Current(s, b, fwd, back)
  BY DEF BreakAll, Rounds
<1>6. Lags(s, b, fwd, c, 0)
  <2>1. \A i \in 1 .. Len(c) : Lag(c[i].ack, s, Ahead(c, i), 0)
    <3>1. \A a : Lag(0, s, a, 0)
      BY DEF Lag
    <3> QED BY <1>1, <1>2, <1>3, <1>5, <3>1 DEF Lags, n
  <2> QED BY <1>4, <1>5, <2>1 DEF Lags
<1>7. Current(s, b, fwd, c)
  <2>1. ASSUME NEW i \in 1 .. Len(c), c[i].ack = s.seq, c[i].ack # 0
        PROVE  b.last = s.seq /\ \A j \in i .. Len(c) : c[j].ack \in {0, s.seq}
    <3>1. i \in 1 .. n /\ c[i] = back[i]
      BY <1>1, <1>2, <2>1
    <3>2. b.last = s.seq /\ \A j \in i .. n : back[j].ack \in {0, s.seq}
      BY <1>5, <2>1, <3>1 DEF Current, n
    <3> QED BY <1>1, <1>2, <3>1, <3>2
  <2>2. ~ s.waiting => b.last = s.seq /\ \A i \in 1 .. Len(c) : c[i].ack \in {0, s.seq}
    BY <1>1, <1>2, <1>5 DEF Current, n
  <2> QED BY <1>5, <2>1, <2>2 DEF Current
<1>8. BreakAll(s, b, t, fwd, c)
  BY <1>6, <1>7 DEF BreakAll, Rounds
<1> QED BY <1>8 DEF c

\* Packets to the console that are gone, or one more.
LEMMA AnswersDrop ==
  ASSUME NEW b, NEW back \in Seq(Packets(Out)), NEW back2 \in Seq(Packets(Out)),
         NEW k \in Nat, Suffix(back2, back, k), Answers(b, back)
  PROVE  Answers(b, back2)
<1>1. Len(back2) \in Nat /\ Len(back) = Len(back2) + k
  BY DEF Suffix
<1>2. \A i \in 1 .. Len(back2) : i + k \in 1 .. Len(back) /\ back2[i] = back[i + k]
  BY <1>1 DEF Suffix
<1> QED BY <1>2 DEF Answers

LEMMA AnswersMore ==
  ASSUME NEW b, NEW b2, NEW back \in Seq(Packets(Out)), NEW p \in Packets(Out),
         NEW back2, back2 = back \/ back2 = Append(back, p), Answers(b, back),
         IncrementWorkaround => p.seq = 0 /\ b2.seq = 0,
         p.op \/ p.ack # 0 \/ p.seq # 0
  PROVE  Answers(b2, back2)
<1>1. CASE back2 = back
  BY <1>1 DEF Answers
<1>2. CASE back2 = Append(back, p)
  <2> DEFINE n == Len(back)
  <2>1. Len(back2) = n + 1 /\ back2[n + 1] = p /\ \A i \in 1 .. n : back2[i] = back[i]
    BY <1>2, AppendProperties
  <2>2. n \in Nat
    OBVIOUS
  <2>3. \A i \in 1 .. Len(back2) : i \in 1 .. n \/ i = n + 1
    BY <2>1, <2>2
  <2> QED BY <2>1, <2>3 DEF Answers
<1> QED BY <1>1, <1>2

LEMMA BackLen ==
  TypeInv => Back \in Seq(Packets(Out)) /\ Len(Back) <= Capacity + 1
<1> SUFFICES ASSUME TypeInv
             PROVE  Back \in Seq(Packets(Out)) /\ Len(Back) <= Capacity + 1
  OBVIOUS
<1>1. rx \in Seq(Packets(Out)) /\ toConsole \in Seq(Packets(Out))
      /\ Len(rx) <= 1 /\ Len(toConsole) <= Capacity /\ Capacity \in Nat
  BY SolAssumption DEF TypeInv
<1>2. Len(rx) \in Nat /\ Len(toConsole) \in Nat
  BY <1>1, LenProperties
<1>3. Back \in Seq(Packets(Out)) /\ Len(Back) = Len(rx) + Len(toConsole)
  BY <1>1, ConcatProperties DEF Back
<1> QED BY <1>1, <1>2, <1>3

LEMMA BackLenNext ==
  TypeInv' => Back' \in Seq(Packets(Out)) /\ Len(Back') <= Capacity + 1
<1> SUFFICES ASSUME TypeInv'
             PROVE  Back' \in Seq(Packets(Out)) /\ Len(Back') <= Capacity + 1
  OBVIOUS
<1>1. rx' \in Seq(Packets(Out)) /\ toConsole' \in Seq(Packets(Out))
      /\ Len(rx') <= 1 /\ Len(toConsole') <= Capacity /\ Capacity \in Nat
  BY SolAssumption DEF TypeInv
<1>2. Len(rx') \in Nat /\ Len(toConsole') \in Nat
  BY <1>1, LenProperties
<1>3. Back' \in Seq(Packets(Out)) /\ Len(Back') = Len(rx') + Len(toConsole')
  BY <1>1, ConcatProperties DEF Back
<1> QED BY <1>1, <1>2, <1>3

LEMMA BreakInit == Init => BreakInv
<1> SUFFICES ASSUME Init PROVE BreakInv
  OBVIOUS
<1>1. /\ snd.seq = 0 /\ ~ snd.waiting /\ ~ snd.waitingBreak /\ ~ snd.breakReq
      /\ bmc.last = 0 /\ bmc.in = <<>> /\ bmc.seq = 0 /\ typed = <<>> /\ toBmc = <<>>
      /\ rx = <<>> /\ toConsole = <<>>
  BY DEF Init, None
<1>2. Back = <<>>
  BY <1>1 DEF Back
<1>3. Len(<<>>) = 0 /\ \A i \in 1 .. 0 : FALSE
  OBVIOUS
<1>4. Breaks(<<>>) \in Nat
  <2>1. <<>> \in Seq(Items)
    BY EmptySeq
  <2> QED BY <2>1, BreaksType
<1>5. Lags(snd, bmc, toBmc, Back, 0)
  BY <1>1, <1>2, <1>3 DEF Lags, Lag
<1>6. Current(snd, bmc, toBmc, Back)
  BY <1>1, <1>2, <1>3 DEF Current
<1>7. Owed(snd, bmc, typed)
  BY <1>1, <1>4 DEF Owed
<1>8. Kinds(snd, toBmc)
  BY <1>1 DEF Kinds
<1>9. Answers(bmc, Back)
  BY <1>1, <1>2, <1>3 DEF Answers
<1> QED BY <1>5, <1>6, <1>7, <1>8, <1>9 DEF BreakInv, BreakAll, Rounds

LEMMA BreakRead == TypeInv /\ BreakInv /\ ConsoleRead => BreakInv'
<1> SUFFICES ASSUME TypeInv, BreakInv, ConsoleRead, open' PROVE BreakInv'
  BY DEF BreakInv
<1> DEFINE x == Len(typed) + 1
           all == Append(snd.buf, x)
<1>1. /\ open /\ typed' = Append(typed, x) /\ snd' = [snd EXCEPT !.buf = all]
      /\ UNCHANGED <<rcv, rx, toBmc, toConsole, bmc, userOut>>
      /\ Len(typed) < MaxTyped
  BY DEF ConsoleRead
<1>2. typed \in Seq(Items) /\ Len(typed) \in Nat /\ snd \in Sender
  BY DEF TypeInv, SenderOK
<1>3. x \in Items /\ x # Break
  BY <1>1, <1>2, SolAssumption DEF Items
<1> HIDE DEF x, all
<1>4. Breaks(typed') = Breaks(typed)
  <2>1. Breaks(typed) \in Nat
    BY <1>2, BreaksType
  <2>2. Breaks(typed') = Breaks(typed) + 0
    BY <1>1, <1>2, <1>3, BreaksAppend
  <2> QED BY <2>1, <2>2
<1>5. /\ snd'.breakReq = snd.breakReq /\ snd'.waitingBreak = snd.waitingBreak
      /\ snd'.waiting = snd.waiting /\ snd'.seq = snd.seq /\ snd'.wretx = snd.wretx
  BY <1>1, <1>2 DEF Sender
<1>6. BreakAll(snd, bmc, typed, toBmc, Back) /\ Answers(bmc, Back) /\ Back' = Back
  BY <1>1 DEF BreakInv, Back
<1>7. BreakAll(snd', bmc, typed, toBmc, Back)
  BY <1>5, <1>6, BreakSame
<1>8. BreakAll(snd', bmc, typed', toBmc, Back)
  BY <1>4, <1>7, BreakTyped
<1> QED BY <1>1, <1>6, <1>8 DEF BreakInv

\* A break requested is owed until it was received.
LEMMA BreakAsync == TypeInv /\ BreakInv /\ AsyncBreak => BreakInv'
<1> SUFFICES ASSUME TypeInv, BreakInv, AsyncBreak, open' PROVE BreakInv'
  BY DEF BreakInv
<1> DEFINE n == Len(snd.buf)
<1>1. /\ open /\ ~ snd.breakReq /\ typed' = Append(typed, Break)
      /\ snd' = [snd EXCEPT !.breakReq = TRUE, !.before = n]
      /\ UNCHANGED <<rcv, open, rx, toBmc, toConsole, bmc, userOut>>
  BY DEF AsyncBreak
<1>2. typed \in Seq(Items) /\ snd \in Sender /\ bmc.in \in Seq(Items) /\ Break \in Items
  BY DEF TypeInv, SenderOK, Bmc, Items
<1> HIDE DEF n
<1>3. Breaks(typed') = Breaks(typed) + 1 /\ Breaks(typed) \in Nat /\ Breaks(bmc.in) \in Nat
  BY <1>1, <1>2, BreaksAppend, BreaksType
<1>4. /\ snd'.breakReq /\ snd'.waitingBreak = snd.waitingBreak
      /\ snd'.waiting = snd.waiting /\ snd'.seq = snd.seq /\ snd'.wretx = snd.wretx
  BY <1>1, <1>2 DEF Sender
<1>5. BreakAll(snd, bmc, typed, toBmc, Back) /\ Answers(bmc, Back) /\ Back' = Back
  BY <1>1 DEF BreakInv, Back
<1>6. /\ Lags(snd, bmc, toBmc, Back, 0) /\ Current(snd, bmc, toBmc, Back)
      /\ Owed(snd, bmc, typed) /\ Kinds(snd, toBmc)
  BY <1>5 DEF BreakAll, Rounds
<1>7. Lags(snd', bmc, toBmc, Back, 0)
  <2>1. Spare(snd') = Spare(snd)
    BY <1>4 DEF Spare
  <2> QED BY <1>4, <1>6, <2>1 DEF Lags, Lag
<1>8. Current(snd', bmc, toBmc, Back) /\ Kinds(snd', toBmc)
  BY <1>4, <1>6 DEF Current, Kinds
<1>9. Owed(snd', bmc, typed')
  <2>1. ~ snd'.waitingBreak
    BY <1>1, <1>4, <1>6 DEF Owed
  <2>2. Breaks(bmc.in) >= Breaks(typed) - 0
    BY <1>1, <1>6 DEF Owed
  <2>3. Breaks(bmc.in) >= Breaks(typed') - 1
    BY <1>3, <2>2
  <2> QED BY <1>4, <2>1, <2>3 DEF Owed
<1>10. BreakAll(snd', bmc, typed', toBmc, Back)
  BY <1>7, <1>8, <1>9 DEF BreakAll, Rounds
<1> QED BY <1>1, <1>5, <1>10 DEF BreakInv

LEMMA BreakRecv ==
  ~ Reordering /\ TypeInv /\ TypeInv' /\ BreakInv /\ RecvFrom => BreakInv'
<1> SUFFICES ASSUME ~ Reordering, TypeInv, TypeInv', BreakInv, RecvFrom
             PROVE  BreakInv'
  OBVIOUS
<1>1. open /\ UNCHANGED <<snd, rcv, open, toBmc, bmc, typed, userOut>>
  BY DEF RecvFrom
<1>2. Len(rx) \in Nat /\ Suffix(Back', Back, Len(rx))
  BY BackRecv
<1>3. /\ Back \in Seq(Packets(Out)) /\ Back' \in Seq(Packets(Out))
      /\ toBmc \in Seq(Packets(Items)) /\ snd \in Sender /\ bmc \in Bmc
  BY BackLen, BackLenNext DEF TypeInv, SenderOK
<1>4. Suffix(toBmc, toBmc, 0) /\ 0 \in Nat /\ 0 \in {0, 1}
  BY <1>3, SuffixSelf
<1>5. BreakAll(snd, bmc, typed, toBmc, Back) /\ Answers(bmc, Back)
  BY <1>1 DEF BreakInv
<1>6. Lags(snd, bmc, toBmc, Back', 0)
  BY <1>2, <1>3, <1>4, <1>5, LagsDrop DEF BreakAll
<1>7. Rounds(snd, bmc, typed, toBmc, Back')
  BY <1>2, <1>3, <1>4, <1>5, RoundsDrop DEF BreakAll
<1>8. Answers(bmc, Back')
  BY <1>2, <1>3, <1>5, AnswersDrop
<1> QED BY <1>1, <1>6, <1>7, <1>8 DEF BreakInv, BreakAll

LEMMA BreakPending ==
  SeqMax > Limit /\ TypeInv /\ BreakInv /\ SendPending => BreakInv'
<1> SUFFICES ASSUME SeqMax > Limit, TypeInv, BreakInv, SendPending PROVE BreakInv'
  OBVIOUS
<1>0. /\ typed \in Seq(Items) /\ SenderOK(snd) /\ snd \in Sender /\ bmc \in Bmc
      /\ toBmc \in Seq(Packets(Items)) /\ Len(toBmc) <= Capacity
      /\ Back \in Seq(Packets(Out)) /\ Len(Back) <= Capacity + 1
      /\ 0 \in 0 .. SeqMax /\ 0 \in Nat
  BY BackLen, SolAssumption DEF TypeInv, SenderOK
<1>1. open /\ ~ snd.waiting /\ UNCHANGED <<rcv, open, rx, toConsole, bmc, typed, userOut>>
  BY DEF SendPending
<1>2. /\ Rounds(snd, bmc, typed, toBmc, Back) /\ Answers(bmc, Back) /\ Back' = Back
      /\ Current(snd, bmc, toBmc, Back)
  BY <1>1 DEF BreakInv, BreakAll, Rounds, Back
<1>3. CASE /\ snd' = WithData(snd)
           /\ toBmc' \in Sent(toBmc, DataPacket(WithData(snd), 0, 0))
  <2>1. BreakAll(snd', bmc, typed, toBmc', Back)
    BY <1>0, <1>1, <1>2, <1>3, BreakData
  <2> QED BY <1>1, <1>2, <2>1 DEF BreakInv
<1>4. CASE /\ snd.breakReq /\ snd' = WithBreak(snd)
           /\ toBmc' \in Sent(toBmc, BreakPacket(WithBreak(snd)))
  <2>1. Lags(snd, bmc, toBmc, Back, 1)
    BY <1>0, <1>1, <1>2, IdleLags
  <2>2. BreakAll(snd', bmc, typed, toBmc', Back)
    BY <1>0, <1>2, <1>4, <2>1, BreakBreak
  <2> QED BY <1>1, <1>2, <2>2 DEF BreakInv
<1> QED BY <1>3, <1>4 DEF SendPending

LEMMA BreakKeepalive ==
  SeqMax > Limit /\ TypeInv /\ BreakInv /\ SendSerialKeepalive => BreakInv'
<1> SUFFICES ASSUME SeqMax > Limit, TypeInv, BreakInv, SendSerialKeepalive PROVE BreakInv'
  OBVIOUS
<1>0. /\ typed \in Seq(Items) /\ snd \in Sender /\ bmc \in Bmc
      /\ toBmc \in Seq(Packets(Items)) /\ Len(toBmc) <= Capacity
      /\ Back \in Seq(Packets(Out)) /\ Len(Back) <= Capacity + 1
      /\ 0 \in 0 .. SeqMax /\ 0 \in Nat /\ 0 \in Items /\ 0 # Break
  BY BackLen, SolAssumption, SMTT(30) DEF TypeInv, SenderOK, Items
<1>1. open /\ ~ snd.waiting /\ UNCHANGED <<rcv, open, rx, toConsole, bmc, userOut>>
  BY DEF SendSerialKeepalive
<1>2. BreakAll(snd, bmc, typed, toBmc, Back) /\ Answers(bmc, Back) /\ Back' = Back
  BY <1>1 DEF BreakInv, Back
<1>3. PICK s : /\ SenderOK(s) /\ snd' = WithData(s)
               /\ toBmc' \in Sent(toBmc, DataPacket(WithData(s), 0, 0))
               /\ \/ s = snd /\ typed' = typed
                  \/ /\ s = [snd EXCEPT !.buf = <<0>>]
                     /\ Len(typed) < MaxTyped /\ typed' = Append(typed, 0)
  BY KeepaliveCases
<1>4. /\ s.breakReq = snd.breakReq /\ s.waitingBreak = snd.waitingBreak
      /\ s.waiting = snd.waiting /\ s.seq = snd.seq /\ s.wretx = snd.wretx
  BY <1>0, <1>3 DEF Sender
<1>5. Breaks(typed') = Breaks(typed)
  <2>1. Breaks(typed) \in Nat
    BY <1>0, BreaksType
  <2>2. Breaks(Append(typed, 0)) = Breaks(typed) + 0
    BY <1>0, BreaksAppend
  <2>3. Breaks(Append(typed, 0)) = Breaks(typed)
    BY <2>1, <2>2
  <2>4. typed' = typed \/ typed' = Append(typed, 0)
    BY <1>3
  <2> QED BY <2>3, <2>4
<1>6. BreakAll(s, bmc, typed, toBmc, Back)
  BY <1>2, <1>4, BreakSame
<1>7. BreakAll(s, bmc, typed', toBmc, Back)
  BY <1>5, <1>6, BreakTyped
<1>8. Rounds(s, bmc, typed', toBmc, Back) /\ ~ s.waiting
  BY <1>1, <1>4, <1>7 DEF BreakAll
<1>9. BreakAll(snd', bmc, typed', toBmc', Back)
  BY <1>0, <1>3, <1>8, BreakData
<1> QED BY <1>1, <1>2, <1>9 DEF BreakInv

\* The workaround's number was spared for it.
LEMMA LagsWorked ==
  ASSUME NEW s \in Sender, NEW s2 \in Sender, NEW b \in Bmc,
         NEW fwd \in Seq(Packets(Items)), NEW back \in Seq(Packets(Out)),
         IncrementWorkaround, s.wretx = 0, s2.wretx # 0, s2.seq = s.seq,
         Lags(s, b, fwd, back, 0)
  PROVE  Lags(s2, b, fwd, back, 1)
<1>1. Spare(s) = 1 /\ Spare(s2) = 0
  BY DEF Spare
<1>2. ASSUME NEW n \in 0 .. SeqMax, NEW a \in Nat, Lag(n, s, a, 0) PROVE Lag(n, s2, a, 1)
  <2> SUFFICES ASSUME n # 0 PROVE Lag(n, s2, a, 1)
    BY DEF Lag
  <2>1. Behind(n, s.seq) + Cost(a) + 1 + 0 <= Limit
    BY <1>1, <1>2 DEF Lag
  <2>2. Behind(n, s.seq) \in Int
    BY LagTypes DEF Behind
  <2>3. Cost(a) \in Nat /\ Limit \in Nat
    <3>1. Cost(a) \in Nat
      BY CostType
    <3> QED BY <3>1, LagTypes
  <2>4. Behind(n, s.seq) + Cost(a) + 0 + 1 <= Limit
    BY <2>1, <2>2, <2>3
  <2> QED BY <1>1, <2>4 DEF Lag
<1>3. /\ Len(fwd) \in Nat /\ Len(back) \in Nat /\ Acks(back) \in Nat
      /\ b.last \in 0 .. SeqMax
  BY AcksType DEF Bmc
<1>4. ASSUME NEW i \in 1 .. Len(back)
      PROVE  back[i].ack \in 0 .. SeqMax /\ Ahead(back, i) \in Nat
  <2>1. back[i] \in Packets(Out) /\ i \in Nat \ {0}
    BY <1>3
  <2> QED BY <2>1, AheadType DEF Packets
<1>5. ASSUME NEW i \in 1 .. Len(fwd)
      PROVE  fwd[i].seq \in 0 .. SeqMax /\ Acks(back) + i \in Nat
  <2>1. fwd[i] \in Packets(Items) /\ Acks(back) + i \in Nat
    BY <1>3
  <2> QED BY <2>1 DEF Packets
<1> QED BY <1>2, <1>3, <1>4, <1>5 DEF Lags

LEMMA LagsSame ==
  ASSUME NEW s, NEW s2, s2.seq = s.seq, Spare(s2) = Spare(s), NEW b, NEW fwd, NEW back,
         NEW e, Lags(s, b, fwd, back, e)
  PROVE  Lags(s2, b, fwd, back, e)
  BY DEF Lags, Lag

LEMMA RoundsSame ==
  ASSUME NEW s, NEW s2, s2.seq = s.seq, s2.waiting = s.waiting, s2.breakReq = s.breakReq,
         s2.waitingBreak = s.waitingBreak,
         NEW b, NEW t, NEW fwd, NEW back, Rounds(s, b, t, fwd, back)
  PROVE  Rounds(s2, b, t, fwd, back)
  BY DEF Rounds, Current, Owed, Kinds

LEMMA BreakRetransmit ==
  SeqMax > Limit /\ TypeInv /\ TypeInv' /\ BreakInv /\ Retransmit => BreakInv'
<1> SUFFICES ASSUME SeqMax > Limit, TypeInv, TypeInv', BreakInv, Retransmit, open'
             PROVE  BreakInv'
  BY DEF BreakInv
<1> DEFINE n == snd.retx + 1
           w == snd.wretx + 1
           q == IF w = 1 THEN NextSeq(snd.seq) ELSE snd.seq
<1>0. /\ snd \in Sender /\ snd' \in Sender /\ bmc \in Bmc /\ typed \in Seq(Items)
      /\ toBmc \in Seq(Packets(Items))
      /\ Back \in Seq(Packets(Out)) /\ Len(Back) <= Capacity + 1
      /\ snd.wretx \in Nat
  BY BackLen DEF TypeInv, SenderOK, Sender
<1>1. /\ open /\ snd.waiting
      /\ UNCHANGED <<rcv, rx, toConsole, bmc, typed, userOut>>
  BY DEF Retransmit
<1>2. BreakAll(snd, bmc, typed, toBmc, Back) /\ Answers(bmc, Back) /\ Back' = Back
  BY <1>1 DEF BreakInv, Back
<1>3. ASSUME toBmc' \in Sent(toBmc, SameAgain(snd')), snd'.waiting,
             BreakAll(snd', bmc, typed, toBmc, Back)
      PROVE  BreakInv'
  <2>1. BreakAll(snd', bmc, typed, toBmc', Back)
    BY <1>0, <1>3, BreakAgain
  <2> QED BY <1>1, <1>2, <2>1 DEF BreakInv
<1>4. CASE /\ snd' = [snd EXCEPT !.retx = n]
           /\ toBmc' \in Sent(toBmc, SameAgain(snd'))
  <2> HIDE DEF n
  <2>1. /\ snd'.breakReq = snd.breakReq /\ snd'.waitingBreak = snd.waitingBreak
        /\ snd'.waiting = snd.waiting /\ snd'.seq = snd.seq /\ snd'.wretx = snd.wretx
    BY <1>0, <1>4 DEF Sender
  <2>2. BreakAll(snd', bmc, typed, toBmc, Back)
    BY <1>2, <2>1, BreakSame
  <2> QED BY <1>1, <1>3, <1>4, <2>1, <2>2
<1>5. CASE /\ IncrementWorkaround
           /\ snd' = [[[snd EXCEPT !.retx = n] EXCEPT !.wretx = w,
                         !.seq = IF w = 1 THEN NextSeq(@) ELSE @]
                        EXCEPT !.retx = MaxRetransmission]
           /\ toBmc' \in Sent(toBmc, SameAgain(snd'))
  <2>1. snd' = [snd EXCEPT !.retx = MaxRetransmission, !.wretx = w, !.seq = q]
    <3>1. snd' = [[[snd EXCEPT !.retx = n] EXCEPT !.wretx = w, !.seq = q]
                   EXCEPT !.retx = MaxRetransmission]
      BY <1>0, <1>5 DEF Sender
    <3> HIDE DEF n, w, q
    <3> QED BY <1>0, <3>1 DEF Sender
  <2>2. /\ snd'.breakReq = snd.breakReq /\ snd'.waitingBreak = snd.waitingBreak
        /\ snd'.waiting = snd.waiting /\ snd'.seq = q /\ snd'.wretx = w
    <3> HIDE DEF w, q
    <3> QED BY <1>0, <2>1 DEF Sender
  <2>3. w # 0
    BY <1>0
  <2>4. CASE snd.wretx = 0
    <3> DEFINE s == [snd EXCEPT !.wretx = w]
    <3>1. w = 1 /\ q = NextSeq(snd.seq) /\ w \in Nat
      BY <1>0, <2>4
    <3> HIDE DEF w, q
    <3>2. /\ s \in Sender /\ s.wretx = w /\ s.seq = snd.seq /\ s.waiting = snd.waiting
          /\ s.breakReq = snd.breakReq /\ s.waitingBreak = snd.waitingBreak
      BY <1>0, <3>1 DEF Sender
    <3> HIDE DEF s
    <3>3. Lags(s, bmc, toBmc, Back, 1)
      BY <1>0, <1>2, <1>5, <2>3, <2>4, <3>2, LagsWorked DEF BreakAll
    <3>4. Rounds(s, bmc, typed, toBmc, Back)
      BY <1>2, <3>2, RoundsSame DEF BreakAll
    <3>5. snd.waitingBreak => snd.breakReq
      BY <1>2 DEF BreakAll, Rounds, Owed
    <3>6. /\ snd'.seq = NextSeq(s.seq) /\ snd'.wretx = s.wretx /\ snd'.waiting
          /\ snd'.breakReq = s.breakReq /\ (snd'.waitingBreak => snd'.breakReq)
      BY <1>1, <2>2, <3>1, <3>2, <3>5
    <3>7. BreakAll(snd', bmc, typed, toBmc, Back)
      BY <1>0, <3>2, <3>3, <3>4, <3>6, Renumber
    <3> QED BY <1>3, <1>5, <3>6, <3>7
  <2>5. CASE snd.wretx # 0
    <3>1. w # 1 /\ q = snd.seq
      BY <1>0, <2>5
    <3>2. Spare(snd') = Spare(snd)
      BY <2>2, <2>3, <2>5 DEF Spare
    <3> HIDE DEF w, q
    <3>3. Lags(snd', bmc, toBmc, Back, 0)
      BY <1>2, <2>2, <3>1, <3>2, LagsSame DEF BreakAll
    <3>4. Rounds(snd', bmc, typed, toBmc, Back)
      BY <1>2, <2>2, <3>1, RoundsSame DEF BreakAll
    <3>5. BreakAll(snd', bmc, typed, toBmc, Back)
      BY <3>3, <3>4 DEF BreakAll
    <3> QED BY <1>1, <1>3, <1>5, <2>2, <3>5
  <2> QED BY <2>4, <2>5
<1> QED BY <1>4, <1>5 DEF Retransmit

LEMMA NotDeactivated ==
  ASSUME SolReceive, open'
  PROVE  ~ Taken.op
  BY DEF SolReceive, Taken

LEMMA BreakReceive ==
  SeqMax > Limit /\ TypeInv /\ TypeInv' /\ BreakInv /\ SolReceive => BreakInv'
<1> SUFFICES ASSUME SeqMax > Limit, TypeInv, TypeInv', BreakInv, SolReceive, open'
             PROVE  BreakInv'
  BY DEF BreakInv
<1>0. open /\ UNCHANGED <<toConsole, bmc, typed, userOut>>
  BY ReceiveCases
<1>1. /\ snd \in Sender /\ bmc \in Bmc /\ typed \in Seq(Items)
      /\ toBmc \in Seq(Packets(Items)) /\ Len(toBmc) <= Capacity /\ 0 \in 0 .. SeqMax
      /\ 0 \in Nat /\ 1 \in Nat /\ 0 \in {0, 1}
  BY SolAssumption DEF TypeInv, SenderOK
<1>2. /\ Suffix(Back', Back, 1) /\ Len(Back) > 0 /\ Back[1] = Taken
      /\ Back \in Seq(Packets(Out)) /\ Back' \in Seq(Packets(Out))
      /\ Len(Back') <= Capacity + 1
  BY BackTake, BackLen, BackLenNext
<1>3. /\ Taken \in Packets(Out) /\ SenderOK(Settled) /\ Settled \in Sender
      /\ Taken.seq \in 0 .. SeqMax /\ Len(Taken.data) \in Nat
  <2>1. Taken \in Packets(Out) /\ SenderOK(Settled)
    BY TakenType
  <2>2. Taken.data \in Seq(Out)
    BY <2>1 DEF Packets
  <2> QED BY <2>1, <2>2 DEF Packets, SenderOK
<1>4. BreakAll(snd, bmc, typed, toBmc, Back) /\ Answers(bmc, Back)
  BY <1>0 DEF BreakInv
<1>5. Suffix(toBmc, toBmc, 0)
  BY <1>1, SuffixSelf
<1>6. Rounds(Settled, bmc, typed, toBmc, Back') /\ Settled.seq = snd.seq
  <2> DEFINE s == [snd EXCEPT !.retx = 0, !.wretx = 0]
  <2>1. /\ s.breakReq = snd.breakReq /\ s.waitingBreak = snd.waitingBreak
        /\ s.waiting = snd.waiting /\ s.seq = snd.seq
    BY <1>1 DEF Sender
  <2>2. s \in Sender /\ Settled = Acked(s, Taken)
    BY TakenType DEF Settled, SenderOK
  <2> HIDE DEF s
  <2>3. Rounds(s, bmc, typed, toBmc, Back)
    BY <1>4, <2>1, RoundsSame DEF BreakAll
  <2>4. Rounds(Settled, bmc, typed, toBmc, Back)
    BY <1>1, <1>2, <1>3, <2>2, <2>3, RoundsAcked
  <2>5. Rounds(Settled, bmc, typed, toBmc, Back')
    BY <1>1, <1>2, <1>3, <1>5, <2>4, RoundsDrop
  <2>6. Settled.seq = snd.seq
    BY <1>3, <2>1, <2>2, AckedFields
  <2> QED BY <2>5, <2>6
<1>7. Taken.ack # 0 => Lags(Settled, bmc, toBmc, Back', 1)
  BY <1>1, <1>2, <1>3, <1>4, <1>6, LagsTaken DEF BreakAll
<1>8. Taken.ack = 0 => Taken.seq # 0 /\ ~ IncrementWorkaround
  <2>1. 1 \in 1 .. Len(Back)
    BY <1>2
  <2>2. ~ Taken.op
    BY NotDeactivated
  <2> QED BY <1>2, <1>4, <2>1, <2>2 DEF Answers
<1>9. BreakAll(Settled, bmc, typed, toBmc, Back')
  <2>1. CASE Taken.ack # 0
    <3>1. Lags(Settled, bmc, toBmc, Back', 0)
      BY <1>1, <1>2, <1>3, <1>7, <2>1, LagsWeaker
    <3> QED BY <1>6, <3>1 DEF BreakAll
  <2>2. CASE Taken.ack = 0
    <3>1. Spare(Settled) = Spare(snd)
      BY <1>8, <2>2 DEF Spare
    <3>2. Lags(Settled, bmc, toBmc, Back, 0)
      BY <1>4, <1>6, <3>1, LagsSame DEF BreakAll
    <3>3. Lags(Settled, bmc, toBmc, Back', 0)
      BY <1>1, <1>2, <1>3, <1>5, <3>2, LagsDrop
    <3> QED BY <1>6, <3>3 DEF BreakAll
  <2> QED BY <2>1, <2>2
<1>10. Answers(bmc, Back')
  BY <1>1, <1>2, <1>4, AnswersDrop
<1>11. ASSUME BreakAll(snd', bmc, typed, toBmc', Back') PROVE BreakInv'
  BY <1>0, <1>10, <1>11 DEF BreakInv
<1>12. ASSUME NEW ack \in 0 .. SeqMax, NEW n \in Nat, ~ Settled.waiting,
              snd' = WithData(Settled),
              toBmc' \in Sent(toBmc, DataPacket(WithData(Settled), ack, n))
       PROVE  BreakInv'
  <2>1. BreakAll(snd', bmc, typed, toBmc', Back')
    BY <1>1, <1>2, <1>3, <1>6, <1>12, BreakData
  <2> QED BY <1>11, <2>1
<1>13. ASSUME Settled.breakReq, Taken.seq = 0, snd' = WithBreak(Settled),
              toBmc' \in Sent(toBmc, BreakPacket(WithBreak(Settled)))
       PROVE  BreakInv'
  <2>1. Lags(Settled, bmc, toBmc, Back', 1)
    BY <1>7, <1>8, <1>13
  <2>2. BreakAll(snd', bmc, typed, toBmc', Back')
    BY <1>1, <1>2, <1>3, <1>6, <1>13, <2>1, BreakBreak
  <2> QED BY <1>11, <2>2
<1>14. ASSUME snd' = Settled, \/ toBmc' = toBmc
                              \/ toBmc' \in Sent(toBmc,
                                   Packet(0, Taken.seq, Len(Taken.data), FALSE, <<>>))
       PROVE  BreakInv'
  <2> DEFINE q == Packet(0, Taken.seq, Len(Taken.data), FALSE, <<>>)
  <2>1. q \in Packets(Items) /\ q.seq = 0
    <3>1. <<>> \in Seq(Items)
      BY EmptySeq
    <3> QED BY <1>1, <1>3, <3>1, PacketType DEF Packet
  <2>2. toBmc' = toBmc \/ toBmc' \in Sent(toBmc, q)
    BY <1>14
  <2> HIDE DEF q
  <2>3. BreakAll(snd', bmc, typed, toBmc', Back')
    BY <1>1, <1>2, <1>3, <1>9, <1>14, <2>1, <2>2, BreakSend
  <2> QED BY <1>11, <2>3
<1> QED BY <1>1, <1>3, <1>12, <1>13, <1>14, ReceiveCases

\* The breaks in after a packet: none less, and one more when it carries one.
LEMMA AcceptingBreaks ==
  ASSUME NEW b \in Bmc, NEW p \in Packets(Items), NEW k \in 0 .. Len(p.data)
  PROVE  /\ Breaks(Accepting(b, p, k).in) >= Breaks(b.in)
         /\ p.op => Breaks(Accepting(b, p, k).in) >= Breaks(b.in) + 1
<1> DEFINE got == SubSeq(p.data, 1, k)
           in2 == b.in \o got
<1>1. p.data \in Seq(Items) /\ b.in \in Seq(Items) /\ p.op \in BOOLEAN
      /\ k \in Nat /\ k <= Len(p.data) /\ Break \in Items
  BY DEF Packets, Bmc, Items
<1>2. got \in Seq(Items)
  BY <1>1, SubSeqType
<1>3. Accepting(b, p, k).in = in2 \o (IF p.op THEN <<Break>> ELSE <<>>)
  BY AcceptingType
<1> HIDE DEF got
<1>4. /\ in2 \in Seq(Items) /\ Breaks(in2) \in Nat /\ Breaks(b.in) \in Nat
      /\ Breaks(b.in) <= Breaks(in2)
  BY <1>1, <1>2, BreaksConcat, ConcatProperties
<1> HIDE DEF in2
<1>5. CASE p.op
  <2>1. in2 \o <<Break>> = Append(in2, Break)
    BY <1>1, <1>4, AppendIsConcat
  <2>2. Breaks(Accepting(b, p, k).in) = Breaks(in2) + 1
    BY <1>1, <1>3, <1>4, <1>5, <2>1, BreaksAppend
  <2> QED BY <1>4, <2>2
<1>6. CASE ~ p.op
  <2>1. in2 \o <<>> = in2
    BY <1>4, ConcatEmptySeq
  <2>2. Accepting(b, p, k).in = in2
    BY <1>3, <1>6, <2>1
  <2> QED BY <1>4, <1>6, <2>2
<1> QED BY <1>5, <1>6

LEMMA BreakBmcReceive ==
  ~ Reordering /\ TypeInv /\ TypeInv' /\ BreakInv /\ BmcReceive => BreakInv'
<1> SUFFICES ASSUME ~ Reordering, TypeInv, TypeInv', BreakInv, BmcReceive
             PROVE  BreakInv'
  OBVIOUS
<1>0. /\ toBmc \in Seq(Packets(Items)) /\ bmc \in Bmc /\ bmc' \in Bmc /\ snd \in Sender
      /\ typed \in Seq(Items) /\ Back \in Seq(Packets(Out)) /\ Back' \in Seq(Packets(Out))
      /\ 0 \in Nat /\ 1 \in Nat /\ 0 \in {0, 1}
  BY BackLen, BackLenNext DEF TypeInv, SenderOK
<1>1. Len(toBmc) > 0 /\ Receives(1)
  <2>1. PICK i \in 1 .. Len(toBmc) : Receives(i)
    BY BmcReceiveCases
  <2>2. i = 1
    BY <2>1 DEF Receives
  <2> QED BY <1>0, <2>1, <2>2
<1> DEFINE p == toBmc[1]
           b == BmcAcked(bmc, p)
<1>2. open /\ toBmc' = RemoveAt(toBmc, 1) /\ UNCHANGED <<snd, rcv, open, rx, typed, userOut>>
  BY <1>1 DEF Receives
<1>3. p \in Packets(Items) /\ p.seq \in 0 .. SeqMax /\ b \in Bmc
      /\ b.last = bmc.last /\ b.in = bmc.in
  <2>1. p \in Packets(Items)
    BY <1>0, <1>1
  <2> QED BY <1>0, <2>1, BmcAckedType DEF Packets
<1>4. toBmc' \in Seq(Packets(Items)) /\ Suffix(toBmc', toBmc, 1)
  BY <1>0, <1>1, <1>2, RemoveHead
<1>5. BreakAll(snd, b, typed, toBmc, Back) /\ Answers(bmc, Back)
  <2>1. BreakAll(snd, bmc, typed, toBmc, Back) /\ Answers(bmc, Back)
    BY <1>2 DEF BreakInv
  <2> HIDE DEF b
  <2> QED BY <1>3, <2>1, BreakSame
<1>6. IncrementWorkaround => b.seq = 0
  <2>1. IncrementWorkaround => bmc.seq = 0
    BY <1>5 DEF Answers
  <2>2. b = bmc \/ b = [bmc EXCEPT !.seq = 0, !.data = <<>>]
    BY DEF BmcAcked
  <2> HIDE DEF b
  <2> QED BY <1>0, <2>1, <2>2 DEF Bmc
<1>7. CASE p.seq = 0
  <2>1. bmc' = b /\ toConsole' = toConsole
    BY <1>1, <1>7 DEF Receives
  <2>2. Back' = Back /\ Suffix(Back, Back, 0)
    BY <1>0, <1>2, <2>1, SuffixSelf DEF Back
  <2> HIDE DEF b, p
  <2>3. Lags(snd, b, toBmc', Back, 0)
    BY <1>0, <1>3, <1>4, <1>5, <2>2, LagsDrop DEF BreakAll
  <2>4. Rounds(snd, b, typed, toBmc', Back)
    BY <1>0, <1>3, <1>4, <1>5, <2>2, RoundsDrop DEF BreakAll
  <2>5. Answers(b, Back)
    BY <1>5, <1>6 DEF Answers
  <2> QED BY <1>2, <2>1, <2>2, <2>3, <2>4, <2>5 DEF BreakInv, BreakAll
<1>8. CASE p.seq # 0
  <2>1. \/ p.seq = b.last /\ bmc' = b
        \/ p.seq # b.last /\ \E k \in 0 .. Len(p.data) : bmc' = Accepting(b, p, k)
    BY <1>1, <1>8 DEF Receives
  <2>2. /\ bmc'.last = p.seq /\ bmc'.seq = b.seq
        /\ Breaks(bmc'.in) >= Breaks(b.in)
        /\ p.op /\ p.seq # b.last => Breaks(bmc'.in) >= Breaks(b.in) + 1
    <3> HIDE DEF b, p
    <3>1. CASE p.seq = b.last /\ bmc' = b
      <4>1. b.in \in Seq(Items)
        BY <1>3 DEF Bmc
      <4>2. Breaks(b.in) \in Nat
        BY <4>1, BreaksType
      <4> QED BY <3>1, <4>2
    <3>2. ASSUME NEW k \in 0 .. Len(p.data), bmc' = Accepting(b, p, k)
          PROVE  /\ bmc'.last = p.seq /\ bmc'.seq = b.seq
                 /\ Breaks(bmc'.in) >= Breaks(b.in)
                 /\ p.op => Breaks(bmc'.in) >= Breaks(b.in) + 1
      <4>1. /\ Accepting(b, p, k).last = p.seq /\ Accepting(b, p, k).seq = b.seq
        BY <1>3, AcceptingType
      <4>2. /\ Breaks(Accepting(b, p, k).in) >= Breaks(b.in)
            /\ p.op => Breaks(Accepting(b, p, k).in) >= Breaks(b.in) + 1
        BY <1>3, AcceptingBreaks
      <4> QED BY <3>2, <4>1, <4>2
    <3> QED BY <2>1, <3>1, <3>2
  <2> DEFINE full == BmcPacket(bmc', p.seq, bmc'.accepted)
             bare == Packet(0, p.seq, bmc'.accepted, FALSE, <<>>)
  <2>3. /\ full \in Packets(Out) /\ bare \in Packets(Out)
        /\ full.ack = p.seq /\ full.seq = bmc'.seq
        /\ bare.ack = p.seq /\ bare.seq = 0
    <3>1. bmc'.accepted \in Nat
      BY <1>0 DEF Bmc
    <3>2. full \in Packets(Out) /\ bare \in Packets(Out)
      BY <1>0, <1>3, <3>1, BmcPacketType
    <3> HIDE DEF p
    <3> QED BY <3>2 DEF BmcPacket, Packet
  <2>4. toConsole' \in Sent(toConsole, full) \/ toConsole' \in Sent(toConsole, bare)
    BY <1>1, <1>8 DEF Receives
  <2> HIDE DEF full, bare
  <2>5. PICK q \in Packets(Out) : /\ q.ack = p.seq /\ toConsole' \in Sent(toConsole, q)
                                  /\ (IncrementWorkaround => q.seq = 0)
    BY <1>6, <2>2, <2>3, <2>4
  <2>6. Back' = Back \/ Back' = Append(Back, q)
    BY <1>2, <2>5, BackSend
  <2>7. toBmc[1] = p
    OBVIOUS
  <2> HIDE DEF b, p
  <2>8. BreakAll(snd, bmc', typed, toBmc', Back')
    BY <1>0, <1>1, <1>3, <1>4, <1>5, <1>8, <2>2, <2>5, <2>6, <2>7, BreakTake
  <2>9. Answers(bmc', Back')
    <3>1. IncrementWorkaround => q.seq = 0 /\ bmc'.seq = 0
      BY <1>6, <2>2, <2>5
    <3>2. q.op \/ q.ack # 0 \/ q.seq # 0
      BY <1>8, <2>5
    <3> QED BY <1>0, <1>5, <2>6, <3>1, <3>2, AnswersMore
  <2> QED BY <1>2, <2>8, <2>9 DEF BreakInv
<1> QED BY <1>7, <1>8

LEMMA BreakBmcSends ==
  (IncrementWorkaround => MaxOutput = 0) /\ TypeInv /\ BreakInv
    /\ (BmcOutput \/ BmcRetransmit \/ BmcDeactivate) => BreakInv'
<1> SUFFICES ASSUME IncrementWorkaround => MaxOutput = 0, TypeInv, BreakInv,
                    BmcOutput \/ BmcRetransmit \/ BmcDeactivate
             PROVE  BreakInv'
  OBVIOUS
<1>0. open /\ UNCHANGED <<snd, rcv, open, rx, toBmc, typed, userOut>>
  BY DEF BmcOutput, BmcRetransmit, BmcDeactivate
<1>1. /\ bmc \in Bmc /\ Back \in Seq(Packets(Out)) /\ 0 \in 0 .. SeqMax /\ 0 \in Nat
      /\ bmc.seq \in 0 .. SeqMax /\ bmc.lastSeq \in 0 .. SeqMax /\ bmc.out \in 0 .. MaxOutput
  BY BackLen, SolAssumption DEF TypeInv, Bmc
<1>2. BreakAll(snd, bmc, typed, toBmc, Back) /\ Answers(bmc, Back)
  BY <1>0 DEF BreakInv
<1>3. bmc' \in Bmc /\ bmc'.last = bmc.last /\ bmc'.in = bmc.in
  BY <1>1, BmcOutputStep DEF BmcRetransmit, BmcDeactivate
<1>4. PICK p \in Packets(Out) : /\ p.ack = 0 /\ toConsole' \in Sent(toConsole, p)
                                /\ p.op \/ p.seq # 0
                                /\ (IncrementWorkaround => p.seq = 0 /\ bmc'.seq = 0)
  <2>1. CASE BmcOutput
    <3> DEFINE q == BmcPacket(bmc', 0, 0)
    <3>1. q \in Packets(Out) /\ q.ack = 0 /\ q.seq = bmc'.seq
      <4>1. q \in Packets(Out)
        BY <1>1, <1>3, BmcPacketType
      <4> QED BY <4>1 DEF BmcPacket, Packet
    <3>2. bmc'.seq # 0
      <4>1. bmc'.seq = IF bmc.seq = 0 THEN NextSeq(bmc.lastSeq) ELSE bmc.seq
        BY <2>1, BmcOutputStep
      <4>2. NextSeq(bmc.lastSeq) # 0
        BY <1>1, NextSeqType
      <4> QED BY <4>1, <4>2
    <3>3. ~ IncrementWorkaround
      <4>1. bmc.out < MaxOutput
        BY <2>1 DEF BmcOutput
      <4> QED BY <1>1, <4>1
    <3>4. toConsole' \in Sent(toConsole, q)
      BY <2>1 DEF BmcOutput
    <3> HIDE DEF q
    <3> QED BY <3>1, <3>2, <3>3, <3>4
  <2>2. CASE BmcRetransmit
    <3> DEFINE q == BmcPacket(bmc, 0, 0)
    <3>1. q \in Packets(Out) /\ q.ack = 0 /\ q.seq = bmc.seq
      <4>1. q \in Packets(Out)
        BY <1>1, BmcPacketType
      <4> QED BY <4>1 DEF BmcPacket, Packet
    <3>2. bmc.seq # 0 /\ toConsole' \in Sent(toConsole, q)
      BY <2>2 DEF BmcRetransmit
    <3>3. ~ IncrementWorkaround
      BY <1>2, <3>2 DEF Answers
    <3> HIDE DEF q
    <3> QED BY <3>1, <3>2, <3>3
  <2>3. CASE BmcDeactivate
    <3> DEFINE q == Packet(0, 0, 0, TRUE, <<>>)
    <3>1. q \in Packets(Out) /\ q.ack = 0 /\ q.seq = 0 /\ q.op
      <4>1. q \in Packets(Out)
        BY DeactivateType
      <4> QED BY <4>1 DEF Packet
    <3>2. toConsole' \in Sent(toConsole, q) /\ bmc' = bmc
      BY <2>3 DEF BmcDeactivate
    <3>3. IncrementWorkaround => bmc.seq = 0
      BY <1>2 DEF Answers
    <3> HIDE DEF q
    <3> QED BY <3>1, <3>2, <3>3
  <2> QED BY <2>1, <2>2, <2>3
<1>5. Back' = Back \/ Back' = Append(Back, p)
  BY <1>0, <1>4, BackSend
<1>6. BreakAll(snd, bmc', typed, toBmc, Back)
  BY <1>2, <1>3, BreakSame
<1>7. BreakAll(snd, bmc', typed, toBmc, Back')
  BY <1>1, <1>4, <1>5, <1>6, BreakQuiet
<1>8. Answers(bmc', Back')
  BY <1>1, <1>2, <1>4, <1>5, AnswersMore
<1> QED BY <1>0, <1>7, <1>8 DEF BreakInv

LEMMA BreakStep ==
  ASSUME ~ Reordering, SeqMax > Limit, IncrementWorkaround => MaxOutput = 0
  PROVE  TypeInv /\ TypeInv' /\ BreakInv /\ [Next]_vars => BreakInv'
<1> SUFFICES ASSUME TypeInv, TypeInv', BreakInv, [Next]_vars PROVE BreakInv'
  OBVIOUS
<1>1. CASE UNCHANGED vars
  BY <1>1 DEF vars, BreakInv, Back
<1>2. CASE ConsoleWrite
  BY <1>2 DEF ConsoleWrite, BreakInv, Back
<1> QED BY <1>1, <1>2, BreakRead, BreakAsync, BreakRecv, BreakPending, BreakRetransmit,
           BreakKeepalive, BreakReceive, BreakBmcReceive, BreakBmcSends DEF Next

\* A break is not forgotten, for every buffer size, packet size and number of
\* retransmissions, however packets and acknowledgements are lost, when the
\* network keeps their order and there are more numbers than Limit, twice the
\* packets that may be in flight each way and two (with the workaround, twice
\* as many, and for a BMC without output): the console takes an acknowledgement
\* for its break's (_sol_bmc_to_remote_console_packet) only when the BMC has
\* the break, also when the break was sent again with new numbers before.
\* With the 15 numbers of the protocol that is up to six packets in flight.
THEOREM SolBreakNotLost ==
  ASSUME ~ Reordering, SeqMax > Limit, IncrementWorkaround => MaxOutput = 0
  PROVE  Spec => []BreakNotLost
<1>1. Init => TypeInv /\ BreakInv
  BY InitType, BreakInit
<1>2. TypeInv /\ BreakInv /\ [Next]_vars => (TypeInv /\ BreakInv)'
  BY TypeStep, BreakStep
<1>3. TypeInv /\ BreakInv => BreakNotLost
  BY DEF BreakInv, BreakNotLost, BreakAll, Rounds, Owed
<1> QED BY <1>1, <1>2, <1>3, PTL DEF Spec
=============================================================================
