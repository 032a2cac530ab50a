----------------------------- MODULE ByteStream -----------------------------
(***************************************************************************)
(* What each direction of a serial-over-LAN console promises: a writer     *)
(* appends items to a stream, and the reader gets the items of the stream  *)
(* in order, none lost, repeated or invented, possibly several at a time.  *)
(***************************************************************************)
EXTENDS Sequences, Naturals

CONSTANT Item

VARIABLES written, delivered

Init == written = <<>> /\ delivered = <<>>

Write == \E x \in Item : written' = Append(written, x) /\ UNCHANGED delivered

Deliver ==
  \E n \in Len(delivered) + 1 .. Len(written) :
    delivered' = SubSeq(written, 1, n) /\ UNCHANGED written

Next == Write \/ Deliver

Spec == Init /\ [][Next]_<<written, delivered>>
=============================================================================
