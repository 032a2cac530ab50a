--------------------------- MODULE SessionSequence ---------------------------
(***************************************************************************)
(* The duplicate filter of an IPMI-over-LAN session: the sliding window    *)
(* that ipmi_check_session_sequence_number_1_5() and _2_0() keep over the  *)
(* session sequence numbers of the packets a BMC sends                     *)
(* (libfreeipmi/util/ipmi-outofband-util.c).                               *)
(*                                                                         *)
(* The check is SequenceWindow's.  The BMC numbers its packets             *)
(* consecutively, and the network between them loses, duplicates, reorders *)
(* and delays packets.                                                     *)
(***************************************************************************)
EXTENDS SequenceWindow

CONSTANT
  Horizon           \* how far (in packets) the network may delay or lose

\* The length of one cycle of legal sequence numbers.
Cycle == IF Ipmi20 THEN SequenceMax ELSE SequenceMax + 1

ASSUME SequenceAssumption ==
  /\ Ipmi20 \in BOOLEAN
  /\ SequenceMax \in Nat /\ Window \in Nat \ {0} /\ ListBits \in Nat
  /\ Horizon \in Nat \ {0}
  /\ Window < ListBits /\ Window < Horizon
  /\ Horizon + Window < Cycle

VARIABLES
  highest,   \* highest_received_sequence_number
  list,      \* previously_received_list, as the set of its one bits
  sent,      \* index of the BMC's last packet; packet n carries Wire(n)
  top,       \* index of the highest accepted packet (0 before the first)
  accepted,  \* indices accepted, as far back as the network can repeat them
  origin,    \* the number the session starts from
  verdict    \* what the last check returned, whether the packet had been
             \* accepted before, and its place relative to top

vars == <<highest, list, sent, top, accepted, origin, verdict>>

-----------------------------------------------------------------------------
(* The session. *)

\* The sequence number of the BMC's n-th packet (the BMC is external).
Wire(n) ==
  IF Ipmi20 THEN ((n - 1) % Cycle) + 1 ELSE (origin + n) % Cycle

\* ipmi_check_session_sequence_number_*_init().  A 1.5 session then takes
\* the number of the Activate Session response for its highest number; a 2.0
\* session leaves it 0, the number before the BMC's first.
Init ==
  /\ origin \in IF Ipmi20 THEN {0} ELSE 0 .. SequenceMax
  /\ highest = origin
  /\ list = 0 .. Window - 1
  /\ sent = 0 /\ top = 0 /\ accepted = {}
  /\ verdict = [rv |-> 0, dup |-> TRUE, above |-> 0]

BmcSend ==
  /\ sent < top + Horizon
  /\ sent' = sent + 1
  /\ UNCHANGED <<highest, list, top, accepted, origin, verdict>>

\* One packet arrives, for the first time or again.
Receive(n) ==
  \E u \in UndefinedBits :
    LET r == Check(Wire(n), highest, list, u)
        now == IF r.rv = 1 THEN accepted \cup {n} ELSE accepted
    IN  /\ highest' = r.highest /\ list' = r.list
        /\ top' = IF r.rv = 1 /\ n > top THEN n ELSE top
        /\ accepted' = {m \in now : m > top' - Horizon}
        /\ verdict' = [rv |-> r.rv, dup |-> n \in accepted,
                       above |-> n - top]
        /\ UNCHANGED <<sent, origin>>

Next ==
  \/ BmcSend
  \/ \E n \in 1 .. sent : n > top - Horizon /\ Receive(n)

Spec == Init /\ [][Next]_vars

-----------------------------------------------------------------------------
(* Properties. *)

\* Every variable keeps its type.
TypeOK ==
  /\ highest \in 0 .. SequenceMax /\ origin \in 0 .. SequenceMax
  /\ list \in SUBSET (0 .. ListBits - 1)
  /\ sent \in Nat /\ top \in Nat /\ top <= sent /\ sent <= top + Horizon
  /\ accepted \in SUBSET (1 .. top)
  /\ verdict \in [rv : {0, 1}, dup : BOOLEAN, above : Int]

\* The two words the code keeps describe the packets accepted so far: highest
\* is the number of the newest one, and bit i - 1 of the list is set exactly
\* when the packet i places before it was accepted (packets from before the
\* session count as received, the 0xFF of the init function).
ListTracksWindow ==
  /\ highest = IF top = 0 THEN origin ELSE Wire(top)
  /\ top = 0 \/ top \in accepted
  /\ \A i \in 1 .. Window :
       (i - 1 \in list) <=> (top - i <= 0 \/ top - i \in accepted)

\* _check_session_sequence_number() never returns 1 for a packet it returned
\* 1 for before, however the network repeats and reorders packets and
\* wherever the numbers wrap.
NoReplay == ~ (verdict.rv = 1 /\ verdict.dup)

\* "returns 1 if sequence number in range" (ipmi-outofband-util.h:41): a
\* packet not seen before that is at most Window places from the newest one
\* is accepted.
InRangeAccepted ==
  ~ verdict.dup /\ verdict.above \in - Window .. Window => verdict.rv = 1

\* A packet more than Window places from the newest one is dropped.
OutOfRangeDropped ==
  verdict.rv = 1 => verdict.above \in - Window .. Window
=============================================================================
