--------------------------- MODULE SequenceWindow ---------------------------
(***************************************************************************)
(* The check of a session sequence number: _check_session_sequence_number()*)
(* of libfreeipmi/util/ipmi-outofband-util.c, which every IPMI-over-LAN     *)
(* client of the repository uses.  It keeps the highest number it accepted *)
(* and a bit list: bit i says that the number i+1 places behind the highest*)
(* one was received.  Numbers wrap at SequenceMax; IPMI 1.5 uses           *)
(* 0..SequenceMax, IPMI 2.0 skips 0.                                       *)
(***************************************************************************)
EXTENDS Integers

CONSTANTS
  SequenceMax,      \* IPMI_SEQUENCE_NUMBER_MAX (0xFFFFFFFF)
  Window,           \* IPMI_SEQUENCE_NUMBER_WINDOW_DEFAULT (8)
  ListBits,         \* width of previously_received_list (32)
  Ipmi20            \* the ipmi_2_0_flag argument

\* The bit 0x1 << k of a 32 bit integer; a shift by -1 or by 32 and more is
\* undefined in C, and u is what the build makes of it.
Bit(k, u) == IF k \in 0 .. ListBits - 1 THEN {k} ELSE u

\* What 0x1 << (shift_num - 1) yields for shift_num = 0: the masked shift of
\* one processor, or nothing on another.
UndefinedBits == {{}, {ListBits - 1}}

\* Numbers past the wrap that are still ahead of h.
AheadWrap(h) == Window - (SequenceMax - h) - 1 + (IF Ipmi20 THEN 1 ELSE 0)

IsAheadShort(s, h) ==
  IF h > SequenceMax - Window
  THEN s > h \/ s < AheadWrap(h)
  ELSE s > h /\ s - h <= Window

\* "greater than highest received and is within range"
IsAhead(s, h) ==
  IF h > SequenceMax - Window
  THEN s > h \/ s <= AheadWrap(h)
  ELSE s > h /\ s - h <= Window

AheadShift(s, h) ==
  IF s > h THEN s - h
  ELSE s + (SequenceMax - h) + (IF Ipmi20 THEN 0 ELSE 1)

\* Numbers before the wrap that are still behind h.
BehindWrap(h) == SequenceMax - (Window - h) + 1 - (IF Ipmi20 THEN 1 ELSE 0)

\* "lower than highest received, is within range"
IsBehind(s, h) ==
  IF h < Window
  THEN s < h \/ s >= BehindWrap(h)
  ELSE s < h /\ s >= h - Window

BehindShift(s, h) ==
  IF s > h THEN h + (SequenceMax - s) + (IF Ipmi20 THEN 0 ELSE 1)
  ELSE h - s

AdvanceNoMark(l, k, u) == {i \in 0 .. ListBits - 1 : i - k \in l}

\* list <<= k, then the bit of the old highest number is set.
Advance(l, k, u) ==
  {i \in 0 .. ListBits - 1 : i - k \in l} \cup Bit(k - 1, u)

\* _check_session_sequence_number(): [rv, highest, list].
\* sequence_number_window is checked against its limit and then not used.
Check(s, h, l, u) ==
  LET drop == [rv |-> 0, highest |-> h, list |-> l]
  IN  IF s = h \/ (Ipmi20 /\ s = 0) THEN drop
      ELSE IF IsAhead(s, h)
      THEN [rv |-> 1, highest |-> s, list |-> Advance(l, AheadShift(s, h), u)]
      ELSE IF IsBehind(s, h) /\ Bit(BehindShift(s, h) - 1, u) \cap l = {}
      THEN [rv |-> 1, highest |-> h,
            list |-> l \cup Bit(BehindShift(s, h) - 1, u)]
      ELSE drop
=============================================================================
