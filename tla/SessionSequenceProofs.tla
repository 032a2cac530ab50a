------------------------ MODULE SessionSequenceProofs ------------------------
(***************************************************************************)
(* Proofs about SessionSequence, for every cycle length, window, list      *)
(* width and horizon that satisfy SequenceAssumption.                      *)
(*                                                                         *)
(* The argument: Wire is a counter modulo Cycle (WireShift), so for two    *)
(* packets less than a cycle apart the comparisons of the code decide      *)
(* exactly which is newer and by how much (AheadMeans, BehindMeans).  With *)
(* that, ListTracksWindow is inductive, and NoReplay follows from it.      *)
(* The one place where the comparisons miss a packet within the window is  *)
(* BlindSpot, which only IPMI 2.0 numbers have.                            *)
(***************************************************************************)
EXTENDS SessionSequence, TLAPS

\* Division with remainder: the range of %, and its uniqueness.
LEMMA ModDef ==
  ASSUME NEW C \in Nat \ {0}, NEW a \in Int
  PROVE  /\ a % C \in 0 .. C - 1
         /\ a \div C \in Int
         /\ a = C * (a \div C) + (a % C)
  BY SMT

\* A remainder is determined by its range.
LEMMA ModUnique ==
  ASSUME NEW C \in Nat \ {0}, NEW q1 \in Int, NEW r1 \in 0 .. C - 1,
         NEW q2 \in Int, NEW r2 \in 0 .. C - 1,
         C * q1 + r1 = C * q2 + r2
  PROVE  r1 = r2
  BY SMT

\* Adding less than a cycle wraps at most once.
LEMMA ModShift ==
  ASSUME NEW C \in Nat \ {0}, NEW a \in Int, NEW d \in 0 .. C - 1
  PROVE  (a + d) % C = IF (a % C) + d < C THEN (a % C) + d
                       ELSE (a % C) + d - C
<1> DEFINE q == a \div C
           r == a % C
           q2 == (a + d) \div C
           r2 == (a + d) % C
<1>1. r \in 0 .. C - 1 /\ q \in Int /\ a = C * q + r
  BY ModDef
<1>2. a + d \in Int
  OBVIOUS
<1>3. r2 \in 0 .. C - 1 /\ q2 \in Int /\ a + d = C * q2 + r2
  BY <1>2, ModDef
<1> HIDE DEF q, r, q2, r2
<1>4. CASE r + d < C
  <2>1. r + d \in 0 .. C - 1 /\ C * q + (r + d) = C * q2 + r2
    BY <1>1, <1>3, <1>4
  <2>2. r + d = r2
    BY <2>1, <1>1, <1>3, ModUnique
  <2> QED BY <2>2, <1>4 DEF r, r2
<1>5. CASE ~ (r + d < C)
  <2>1. r + d - C \in 0 .. C - 1 /\ q + 1 \in Int
    BY <1>1, <1>5
  <2>2. C * (q + 1) + (r + d - C) = C * q2 + r2
    BY <1>1, <1>3
  <2>3. r + d - C = r2
    BY <2>1, <2>2, <1>3, ModUnique
  <2> QED BY <2>3, <1>5 DEF r, r2
<1> QED BY <1>4, <1>5

-----------------------------------------------------------------------------
(* Sequence numbers. *)

LEMMA CycleType ==
  /\ Cycle \in Nat \ {0}
  /\ Horizon + Window < Cycle
  /\ Cycle = IF Ipmi20 THEN SequenceMax ELSE SequenceMax + 1
  BY SequenceAssumption DEF Cycle

\* The lowest legal number.
First == IF Ipmi20 THEN 1 ELSE 0

\* Wire numbers are a counter modulo the cycle.
LEMMA WireShift ==
  ASSUME origin \in 0 .. SequenceMax, NEW n \in Int, NEW d \in 0 .. Cycle - 1
  PROVE  /\ Wire(n) \in First .. SequenceMax
         /\ Wire(n + d) = IF Wire(n) + d <= SequenceMax THEN Wire(n) + d
                          ELSE Wire(n) + d - Cycle
<1> DEFINE a == IF Ipmi20 THEN n - 1 ELSE origin + n
           b == IF Ipmi20 THEN (n + d) - 1 ELSE origin + (n + d)
<1>1. a \in Int /\ b = a + d
  BY SequenceAssumption, CycleType
<1>2. /\ Wire(n) = (a % Cycle) + First
      /\ Wire(n + d) = (b % Cycle) + First
  <2>1. CASE Ipmi20
    BY <2>1 DEF Wire, First
  <2>2. CASE ~ Ipmi20
    <3>1. (origin + n) % Cycle \in Int /\ (origin + (n + d)) % Cycle \in Int
      BY CycleType, SequenceAssumption, ModDef
    <3> QED BY <2>2, <3>1 DEF Wire, First
  <2> QED BY <2>1, <2>2
<1> HIDE DEF a, b
<1>3. a % Cycle \in 0 .. Cycle - 1
  BY <1>1, CycleType, ModDef
<1>4. (a + d) % Cycle = IF (a % Cycle) + d < Cycle THEN (a % Cycle) + d
                        ELSE (a % Cycle) + d - Cycle
  BY <1>1, CycleType, ModShift
<1> QED BY <1>1, <1>2, <1>3, <1>4, CycleType, SequenceAssumption DEF First

-----------------------------------------------------------------------------
(* The comparisons of the code, for packets less than a cycle apart. *)

\* highest is the number of packet top; only before the first packet of a 2.0
\* session it is 0, which no packet carries.
HighestOK == highest = IF top = 0 THEN origin ELSE Wire(top)

\* The comparisons on two numbers that are d places apart on the cycle.
LEMMA AheadArith ==
  ASSUME NEW h \in First .. SequenceMax, NEW d \in 1 .. Horizon,
         NEW s \in First .. SequenceMax,
         s = IF h + d <= SequenceMax THEN h + d ELSE h + d - Cycle
  PROVE  /\ s # h
         /\ IsAhead(s, h) <=> d <= Window
         /\ IsAhead(s, h) => AheadShift(s, h) = d
         /\ ~ IsAhead(s, h) => ~ IsBehind(s, h)
<1> USE SequenceAssumption, CycleType
<1>1. CASE Ipmi20
  BY <1>1 DEF First, IsAhead, AheadShift, IsBehind, AheadWrap, BehindWrap
<1>2. CASE ~ Ipmi20
  BY <1>2 DEF First, IsAhead, AheadShift, IsBehind, AheadWrap, BehindWrap
<1> QED BY <1>1, <1>2

\* The number Window places back from Window itself: an IPMI 2.0 session skips
\* 0, so it is SequenceMax, and the code looks past the wrap only for a highest
\* number below Window.
BlindSpot(h, d) == Ipmi20 /\ h = Window /\ d = Window

\* The code's comparisons and distance for a number d places back.
LEMMA BehindArith ==
  ASSUME NEW h \in First .. SequenceMax, NEW d \in 1 .. Horizon - 1,
         NEW s \in First .. SequenceMax,
         h = IF s + d <= SequenceMax THEN s + d ELSE s + d - Cycle
  PROVE  /\ s # h
         /\ ~ IsAhead(s, h)
         /\ IsBehind(s, h) => d <= Window /\ BehindShift(s, h) = d
         /\ d <= Window => IsBehind(s, h) \/ BlindSpot(h, d)
<1> USE SequenceAssumption, CycleType
<1>1. CASE Ipmi20
  BY <1>1 DEF First, IsAhead, IsBehind, BehindShift, AheadWrap, BehindWrap,
                BlindSpot
<1>2. CASE ~ Ipmi20
  BY <1>2 DEF First, IsAhead, IsBehind, BehindShift, AheadWrap, BehindWrap,
                BlindSpot
<1> QED BY <1>1, <1>2

\* A newer packet is ahead exactly when it is within the window, never seems
\* to be behind when it is not, and the shift is its distance.
LEMMA AheadMeans ==
  ASSUME TypeOK, HighestOK, Ipmi20 => origin = 0,
         NEW d \in 1 .. Horizon
  PROVE  LET s == Wire(top + d)
         IN  /\ s # highest /\ s \in First .. SequenceMax
             /\ IsAhead(s, highest) <=> d <= Window
             /\ IsAhead(s, highest) => AheadShift(s, highest) = d
             /\ ~ IsAhead(s, highest) => ~ IsBehind(s, highest)
<1> USE SequenceAssumption, CycleType
<1> DEFINE s == Wire(top + d)
<1>0. /\ d \in 0 .. Cycle - 1 /\ top \in Int /\ top + d \in Int
      /\ 0 \in 0 .. Cycle - 1
  BY DEF TypeOK
<1>1. CASE Ipmi20 /\ top = 0
  <2>0. d - 1 \in 0 .. Cycle - 1 /\ 1 \in Int /\ top + d = 1 + (d - 1)
    BY <1>1
  <2>1. Wire(1) = 1
    <3>1. 0 \in Int /\ 0 % Cycle \in 0 .. Cycle - 1
      BY ModDef
    <3>2. 0 % Cycle = 0
      BY CycleType, SMT
    <3> QED BY <3>2, <1>1 DEF Wire
  <2>2. s = d
    <3>1. Wire(1 + (d - 1)) = IF Wire(1) + (d - 1) <= SequenceMax
                              THEN Wire(1) + (d - 1)
                              ELSE Wire(1) + (d - 1) - Cycle
      BY <2>0, WireShift DEF TypeOK
    <3> QED BY <2>0, <2>1, <3>1, <1>1
  <2>3. highest = 0
    BY <1>1 DEF HighestOK
  <2> HIDE DEF s
  <2> QED BY <2>2, <2>3, <1>1
          DEF First, IsAhead, AheadShift, IsBehind, AheadWrap, BehindWrap, s
<1>2. CASE ~ (Ipmi20 /\ top = 0)
  <2>1. highest = Wire(top)
    <3>1. CASE top # 0
      BY <3>1 DEF HighestOK
    <3>2. CASE top = 0 /\ ~ Ipmi20
      <4>1. origin % Cycle = origin
        <5>1. origin \in 0 .. Cycle - 1
          BY <3>2 DEF TypeOK
        <5>2. 0 % Cycle = 0
          BY CycleType, SMT
        <5>3. (0 + origin) % Cycle = origin
          <6>1. (0 % Cycle) + origin < Cycle
            BY <5>1, <5>2
          <6> QED BY <5>1, <5>2, <6>1, ModShift
        <5> QED BY <5>1, <5>3
      <4>2. origin + top = origin
        BY <3>2 DEF TypeOK
      <4> QED BY <3>2, <4>1, <4>2 DEF HighestOK, Wire
    <3> QED BY <1>2, <3>1, <3>2
  <2>2. /\ highest \in First .. SequenceMax
        /\ s = IF highest + d <= SequenceMax THEN highest + d
               ELSE highest + d - Cycle
    BY <1>0, <2>1, WireShift DEF TypeOK
  <2>3. s \in First .. SequenceMax
    BY <2>2, <1>0 DEF First
  <2>4. /\ s # highest
        /\ IsAhead(s, highest) <=> d <= Window
        /\ IsAhead(s, highest) => AheadShift(s, highest) = d
        /\ ~ IsAhead(s, highest) => ~ IsBehind(s, highest)
    <3> HIDE DEF s
    <3> QED BY <2>2, <2>3, AheadArith
  <2> QED BY <2>3, <2>4
<1> QED BY <1>1, <1>2

\* An older packet is never ahead, and when it is within the window the bit
\* that the code consults is the one for its distance.
LEMMA BehindMeans ==
  ASSUME TypeOK, HighestOK,
         NEW d \in 1 .. Horizon - 1, top - d \in Nat \ {0}
  PROVE  LET s == Wire(top - d)
         IN  /\ s # highest /\ s \in First .. SequenceMax
             /\ ~ IsAhead(s, highest)
             /\ IsBehind(s, highest) =>
                  d <= Window /\ BehindShift(s, highest) = d
             /\ d <= Window => IsBehind(s, highest) \/ BlindSpot(highest, d)
<1> USE SequenceAssumption, CycleType
<1> DEFINE s == Wire(top - d)
<1>1. d \in 0 .. Cycle - 1 /\ top - d \in Int /\ top = (top - d) + d
  BY DEF TypeOK
<1>2. highest = Wire((top - d) + d)
  BY <1>1 DEF HighestOK, TypeOK
<1>3. /\ s \in First .. SequenceMax
      /\ highest = IF s + d <= SequenceMax THEN s + d ELSE s + d - Cycle
  BY <1>1, <1>2, WireShift DEF TypeOK
<1>4. highest \in First .. SequenceMax
  BY <1>1, <1>3 DEF First
<1>5. /\ s # highest
      /\ ~ IsAhead(s, highest)
      /\ IsBehind(s, highest) => d <= Window /\ BehindShift(s, highest) = d
      /\ d <= Window => IsBehind(s, highest) \/ BlindSpot(highest, d)
  <2> HIDE DEF s
  <2> QED BY <1>3, <1>4, BehindArith
<1> QED BY <1>3, <1>5

-----------------------------------------------------------------------------
(* The inductive invariant. *)

SequenceInv ==
  /\ TypeOK
  /\ ListTracksWindow
  /\ Ipmi20 => origin = 0
  /\ NoReplay
  /\ OutOfRangeDropped
  /\ InRangeAccepted \/ BlindSpot(highest, - verdict.above)

\* No packet was sent yet.
LEMMA InitInv == Init => SequenceInv
<1> SUFFICES ASSUME Init PROVE SequenceInv
  OBVIOUS
<1> USE SequenceAssumption, CycleType
<1>1. TypeOK
  BY DEF Init, TypeOK
<1>2. ListTracksWindow
  BY DEF Init, ListTracksWindow
<1> QED BY <1>1, <1>2
        DEF Init, SequenceInv, NoReplay, OutOfRangeDropped, InRangeAccepted

\* The BMC sends one more packet.
LEMMA SendInv == SequenceInv /\ BmcSend => SequenceInv'
<1> SUFFICES ASSUME SequenceInv, BmcSend PROVE SequenceInv'
  OBVIOUS
<1> USE SequenceAssumption
<1>1. TypeOK'
  BY DEF SequenceInv, BmcSend, TypeOK
<1>2. Wire(top)' = Wire(top)
  BY DEF BmcSend, Wire
<1>3. ListTracksWindow'
  BY <1>2 DEF SequenceInv, BmcSend, ListTracksWindow
<1> QED BY <1>1, <1>3
        DEF SequenceInv, BmcSend, NoReplay, OutOfRangeDropped, InRangeAccepted,
            BlindSpot

\* What Check returns for a packet d places ahead of, at, or d places behind
\* the highest one.
LEMMA CheckAhead ==
  ASSUME SequenceInv, NEW u \in UndefinedBits, NEW d \in 1 .. Horizon
  PROVE  Check(Wire(top + d), highest, list, u) =
           IF d <= Window
           THEN [rv |-> 1, highest |-> Wire(top + d),
                 list |-> {i \in 0 .. ListBits - 1 : i - d \in list}
                            \cup {d - 1}]
           ELSE [rv |-> 0, highest |-> highest, list |-> list]
<1> USE SequenceAssumption
<1> DEFINE s == Wire(top + d)
<1>1. /\ s # highest /\ s \in First .. SequenceMax
      /\ IsAhead(s, highest) <=> d <= Window
      /\ IsAhead(s, highest) => AheadShift(s, highest) = d
      /\ ~ IsAhead(s, highest) => ~ IsBehind(s, highest)
  BY AheadMeans DEF SequenceInv, ListTracksWindow, HighestOK
<1>2. d <= Window => Bit(d - 1, u) = {d - 1}
  BY DEF Bit
<1>3. ~ (s = highest \/ (Ipmi20 /\ s = 0))
  BY <1>1 DEF First
<1> HIDE DEF s
<1>4. d <= Window =>
        Check(s, highest, list, u) =
          [rv |-> 1, highest |-> s,
           list |-> {i \in 0 .. ListBits - 1 : i - d \in list} \cup {d - 1}]
  BY <1>1, <1>2, <1>3 DEF Check, Advance
<1>5. ~ (d <= Window) =>
        Check(s, highest, list, u) =
          [rv |-> 0, highest |-> highest, list |-> list]
  BY <1>1, <1>3 DEF Check
<1> QED BY <1>4, <1>5 DEF s

\* A repetition of the newest packet is dropped and changes nothing.
LEMMA CheckSame ==
  ASSUME SequenceInv, top # 0, NEW u
  PROVE  Check(Wire(top), highest, list, u) =
           [rv |-> 0, highest |-> highest, list |-> list]
  BY DEF Check, SequenceInv, ListTracksWindow

\* A packet behind the newest is dropped, which happens to one in the window
\* only if it was accepted before or is in the blind spot; or it is in the
\* window and was not accepted before, and then its bit is set.
LEMMA CheckBehind ==
  ASSUME SequenceInv, NEW u \in UndefinedBits, NEW d \in 1 .. Horizon - 1,
         top - d \in Nat \ {0}
  PROVE  LET r == Check(Wire(top - d), highest, list, u)
         IN  \/ /\ r = [rv |-> 0, highest |-> highest, list |-> list]
                /\ d <= Window => top - d \in accepted \/ BlindSpot(highest, d)
             \/ /\ d <= Window /\ top - d \notin accepted
                /\ r = [rv |-> 1, highest |-> highest,
                        list |-> list \cup {d - 1}]
<1> USE SequenceAssumption
<1> DEFINE s == Wire(top - d)
<1>1. /\ s # highest /\ s \in First .. SequenceMax
      /\ ~ IsAhead(s, highest)
      /\ IsBehind(s, highest) => d <= Window /\ BehindShift(s, highest) = d
      /\ d <= Window => IsBehind(s, highest) \/ BlindSpot(highest, d)
  BY BehindMeans DEF SequenceInv, ListTracksWindow, HighestOK
<1>2. d <= Window => Bit(d - 1, u) = {d - 1}
  BY DEF Bit
<1>3. ~ (s = highest \/ (Ipmi20 /\ s = 0))
  BY <1>1 DEF First
<1>4. d <= Window /\ top - d \in accepted => d - 1 \in list
  BY DEF SequenceInv, ListTracksWindow
<1> HIDE DEF s
<1>5. CASE IsBehind(s, highest) /\ {d - 1} \cap list = {}
  <2>1. Check(s, highest, list, u) =
          [rv |-> 1, highest |-> highest, list |-> list \cup {d - 1}]
    BY <1>1, <1>2, <1>3, <1>5 DEF Check
  <2>2. d <= Window /\ top - d \notin accepted
    BY <1>1, <1>4, <1>5
  <2> QED BY <2>1, <2>2 DEF s
<1>6. CASE ~ (IsBehind(s, highest) /\ {d - 1} \cap list = {})
  <2>1. Check(s, highest, list, u) =
          [rv |-> 0, highest |-> highest, list |-> list]
    BY <1>1, <1>2, <1>3, <1>6 DEF Check
  <2>2. d <= Window => top - d \in accepted \/ BlindSpot(highest, d)
    <3>1. d <= Window => (d - 1 \in list <=> top - d \in accepted)
      BY DEF SequenceInv, ListTracksWindow
    <3> QED BY <1>1, <1>6, <3>1
  <2> QED BY <2>1, <2>2 DEF s
<1> QED BY <1>5, <1>6

\* The type of a verdict.
LEMMA VerdictType ==
  ASSUME NEW rv \in {0, 1}, NEW dup \in BOOLEAN, NEW above \in Int
  PROVE  [rv |-> rv, dup |-> dup, above |-> above]
           \in [rv : {0, 1}, dup : BOOLEAN, above : Int]
  BY Zenon

\* A packet arrives, ahead of the newest, behind it, or the same again.
LEMMA ReceiveInv ==
  ASSUME SequenceInv, NEW n \in 1 .. sent, n > top - Horizon, Receive(n)
  PROVE  SequenceInv'
<1> USE SequenceAssumption
<1>0. PICK u \in UndefinedBits :
        LET r == Check(Wire(n), highest, list, u)
            now == IF r.rv = 1 THEN accepted \cup {n} ELSE accepted
        IN  /\ highest' = r.highest /\ list' = r.list
            /\ top' = IF r.rv = 1 /\ n > top THEN n ELSE top
            /\ accepted' = {m \in now : m > top' - Horizon}
            /\ verdict' = [rv |-> r.rv, dup |-> n \in accepted,
                           above |-> n - top]
            /\ UNCHANGED <<sent, origin>>
  BY DEF Receive
<1> DEFINE r == Check(Wire(n), highest, list, u)
<1>t. TypeOK /\ n \in Int /\ top \in Nat
  BY DEF SequenceInv, TypeOK
<1>b. (n \in accepted) \in BOOLEAN /\ n - top \in Int /\ 0 \in {0, 1}
      /\ 1 \in {0, 1}
  BY <1>t
<1>w. \A m : Wire(m)' = Wire(m)
  BY <1>0 DEF Wire
<1>o. (Ipmi20 => origin = 0)'
  BY <1>0 DEF SequenceInv
\* A packet that is dropped.
<1>1. ASSUME r = [rv |-> 0, highest |-> highest, list |-> list],
             \/ n - top \notin - Window .. Window \/ n \in accepted
             \/ BlindSpot(highest, top - n)
      PROVE  SequenceInv'
  <2> HIDE DEF r
  <2>1. /\ highest' = highest /\ list' = list /\ top' = top
        /\ accepted' = {m \in accepted : m > top - Horizon}
        /\ verdict' = [rv |-> 0, dup |-> n \in accepted, above |-> n - top]
        /\ sent' = sent /\ origin' = origin
    BY <1>0, <1>1 DEF r
  <2>v. verdict' \in [rv : {0, 1}, dup : BOOLEAN, above : Int]
    BY <2>1, <1>b, VerdictType, Zenon
  <2>2. TypeOK'
    BY <2>1, <2>v, <1>t DEF TypeOK
  <2>3. ListTracksWindow'
    BY <2>1, <1>w, <1>t DEF SequenceInv, ListTracksWindow, TypeOK
  <2>4. InRangeAccepted' \/ BlindSpot(highest, - verdict.above)'
    <3>1. verdict'.above = n - top /\ verdict'.dup = (n \in accepted)
      BY <2>1
    <3>2. - (n - top) = top - n
      BY <1>t
    <3> QED BY <1>1, <2>1, <3>1, <3>2 DEF InRangeAccepted, BlindSpot
  <2> QED BY <2>1, <2>2, <2>3, <2>4, <1>o
          DEF SequenceInv, NoReplay, OutOfRangeDropped
<1>2. CASE n > top
  <2> DEFINE d == n - top
  <2>1. d \in 1 .. Horizon /\ top + d = n
    BY <1>2, <1>t DEF TypeOK
  <2>2. r = IF d <= Window
            THEN [rv |-> 1, highest |-> Wire(n),
                  list |-> {i \in 0 .. ListBits - 1 : i - d \in list}
                             \cup {d - 1}]
            ELSE [rv |-> 0, highest |-> highest, list |-> list]
    <3> HIDE DEF d
    <3>1. Check(Wire(top + d), highest, list, u) =
            IF d <= Window
            THEN [rv |-> 1, highest |-> Wire(top + d),
                  list |-> {i \in 0 .. ListBits - 1 : i - d \in list}
                             \cup {d - 1}]
            ELSE [rv |-> 0, highest |-> highest, list |-> list]
      BY <2>1, CheckAhead
    <3> QED BY <2>1, <3>1
  <2>3. CASE d <= Window
    <3> HIDE DEF r
    <3>1. /\ highest' = Wire(n) /\ top' = n
          /\ list' = {i \in 0 .. ListBits - 1 : i - d \in list} \cup {d - 1}
          /\ accepted' = {m \in accepted \cup {n} : m > n - Horizon}
          /\ verdict' = [rv |-> 1, dup |-> n \in accepted, above |-> n - top]
          /\ sent' = sent /\ origin' = origin
      BY <1>0, <1>2, <2>2, <2>3 DEF r
    <3>2. Wire(n) \in 0 .. SequenceMax
      <4>1. 0 \in 0 .. Cycle - 1
        BY CycleType
      <4> QED BY <4>1, WireShift, <1>t DEF TypeOK, First
    <3>v. verdict' \in [rv : {0, 1}, dup : BOOLEAN, above : Int]
      BY <3>1, <1>b, VerdictType, Zenon
    <3>l. list' \in SUBSET (0 .. ListBits - 1)
      BY <3>1, <2>1, <2>3
    <3>c. accepted' \in SUBSET (1 .. n)
      <4>1. accepted' \subseteq accepted \cup {n}
        BY <3>1, Zenon
      <4>2. accepted \subseteq 1 .. top
        BY <1>t DEF TypeOK
      <4>3. 1 .. top \subseteq 1 .. n /\ n \in 1 .. n
        BY <1>2, <1>t
      <4> QED BY <4>1, <4>2, <4>3, Zenon
    <3>n. top' \in Nat /\ top' <= sent' /\ sent' <= top' + Horizon
      BY <3>1, <1>2, <1>t DEF TypeOK
    <3>3. TypeOK'
      BY <3>1, <3>v, <3>2, <3>l, <3>c, <3>n, <1>t, Zenon DEF TypeOK
    <3>4. n \notin accepted
      BY <1>t, <1>2 DEF TypeOK
    <3>5. \A i \in 1 .. Window :
            (i - 1 \in list') <=> (n - i <= 0 \/ n - i \in accepted')
      <4> SUFFICES ASSUME NEW i \in 1 .. Window
                   PROVE (i - 1 \in list') <=>
                           (n - i <= 0 \/ n - i \in accepted')
        OBVIOUS
      <4>1. /\ i - 1 \in 0 .. ListBits - 1
            /\ n - i \in accepted' <=> n - i \in accepted
            /\ i - 1 \in list' <=> (i - 1 - d \in list \/ i = d)
        BY <3>1, <2>1, <1>t
      <4>2. CASE i < d
        BY <4>1, <4>2, <2>1, <1>t DEF TypeOK
      <4>3. CASE i = d
        BY <4>1, <4>3, <2>1, <1>t DEF SequenceInv, ListTracksWindow
      <4>4. CASE i > d
        <5>1. i - d \in 1 .. Window
          BY <4>4, <2>1
        <5>2. (i - d) - 1 \in list <=>
                (top - (i - d) <= 0 \/ top - (i - d) \in accepted)
          BY <5>1 DEF SequenceInv, ListTracksWindow
        <5>3. (i - d) - 1 = i - 1 - d /\ top - (i - d) = n - i
          BY <2>1, <1>t
        <5> QED BY <4>1, <4>4, <5>2, <5>3, <2>1
      <4> QED BY <4>2, <4>3, <4>4, <2>1
    <3>6. ListTracksWindow'
      <4>1. n # 0 /\ n \in accepted'
        BY <3>1, <1>t
      <4> QED BY <3>1, <3>5, <4>1, <1>w DEF ListTracksWindow
    <3>7. NoReplay'
      BY <3>1, <3>4, Zenon DEF NoReplay
    <3>8. OutOfRangeDropped'
      <4>1. verdict'.above = n - top
        BY <3>1
      <4> QED BY <4>1, <2>1, <2>3, <1>t DEF OutOfRangeDropped
    <3>9. InRangeAccepted'
      BY <3>1 DEF InRangeAccepted
    <3> QED BY <3>1, <3>3, <3>6, <3>7, <3>8, <3>9, <1>o DEF SequenceInv
  <2>4. ~ (d <= Window) => n - top \notin - Window .. Window
    BY <2>1, <1>t
  <2> QED BY <2>2, <2>3, <2>4, <1>1
<1>3. CASE n = top
  <2>1. top # 0
    BY <1>3
  <2>2. n \in accepted
    BY <2>1, <1>3 DEF SequenceInv, ListTracksWindow
  <2> QED BY <2>1, <2>2, <1>3, <1>1, CheckSame
<1>4. CASE n < top
  <2> DEFINE d == top - n
  <2>1. d \in 1 .. Horizon - 1 /\ top - d = n /\ top - d \in Nat \ {0}
    BY <1>4, <1>t
  <2>2. \/ /\ r = [rv |-> 0, highest |-> highest, list |-> list]
           /\ d <= Window => n \in accepted \/ BlindSpot(highest, d)
        \/ /\ d <= Window /\ n \notin accepted
           /\ r = [rv |-> 1, highest |-> highest, list |-> list \cup {d - 1}]
    <3> HIDE DEF d
    <3> QED BY <2>1, CheckBehind
  <2>3. ASSUME d <= Window, n \notin accepted,
               r = [rv |-> 1, highest |-> highest, list |-> list \cup {d - 1}]
        PROVE  SequenceInv'
    <3> HIDE DEF r
    <3>1. /\ highest' = highest /\ list' = list \cup {d - 1} /\ top' = top
          /\ accepted' = {m \in accepted \cup {n} : m > top - Horizon}
          /\ verdict' = [rv |-> 1, dup |-> n \in accepted, above |-> n - top]
          /\ sent' = sent /\ origin' = origin
      BY <1>0, <1>4, <2>3, <1>t DEF r
    <3>v. verdict' \in [rv : {0, 1}, dup : BOOLEAN, above : Int]
      BY <3>1, <1>b, VerdictType, Zenon
    <3>l. list' \in SUBSET (0 .. ListBits - 1)
      BY <3>1, <2>1, <2>3, <1>t DEF TypeOK
    <3>c. accepted' \in SUBSET (1 .. top)
      <4>1. accepted' \subseteq accepted \cup {n}
        BY <3>1, Zenon
      <4>2. accepted \subseteq 1 .. top
        BY <1>t DEF TypeOK
      <4>3. n \in 1 .. top
        BY <1>4, <1>t
      <4> QED BY <4>1, <4>2, <4>3, Zenon
    <3>2. TypeOK'
      BY <3>1, <3>v, <3>l, <3>c, <1>t, Zenon DEF TypeOK
    <3>3. ListTracksWindow'
      <4>1. \A i \in 1 .. Window :
              (i - 1 \in list') <=> (top - i <= 0 \/ top - i \in accepted')
        BY <3>1, <2>1, <1>t DEF SequenceInv, ListTracksWindow
      <4>2. top # 0 /\ top \in accepted'
        BY <3>1, <1>4, <1>t DEF SequenceInv, ListTracksWindow
      <4> QED BY <3>1, <4>1, <4>2, <1>w
              DEF SequenceInv, ListTracksWindow
    <3>4. NoReplay'
      BY <3>1, <2>3, Zenon DEF NoReplay
    <3>5. OutOfRangeDropped'
      <4>1. verdict'.above = n - top
        BY <3>1
      <4> QED BY <4>1, <2>1, <2>3, <1>t DEF OutOfRangeDropped
    <3>6. InRangeAccepted'
      BY <3>1 DEF InRangeAccepted
    <3> QED BY <3>1, <3>2, <3>3, <3>4, <3>5, <3>6, <1>o DEF SequenceInv
  <2>4. ~ (d <= Window) => n - top \notin - Window .. Window
    BY <2>1, <1>t
  <2> QED BY <2>2, <2>3, <2>4, <1>1
<1> QED BY <1>2, <1>3, <1>4, <1>t

-----------------------------------------------------------------------------
(* The theorems. *)

\* The invariant holds in every state of every session.
LEMMA SequenceInvariant == Spec => []SequenceInv
<1>1. SequenceInv /\ [Next]_vars => SequenceInv'
  <2> SUFFICES ASSUME SequenceInv, [Next]_vars PROVE SequenceInv'
    OBVIOUS
  <2>1. CASE BmcSend
    BY <2>1, SendInv
  <2>2. ASSUME NEW n \in 1 .. sent, n > top - Horizon, Receive(n)
        PROVE  SequenceInv'
    BY <2>2, ReceiveInv
  <2>3. CASE UNCHANGED vars
    BY <2>3 DEF vars, SequenceInv, TypeOK, ListTracksWindow, Wire, NoReplay,
                OutOfRangeDropped, InRangeAccepted, BlindSpot
  <2> QED BY <2>1, <2>2, <2>3 DEF Next
<1> QED BY InitInv, <1>1, PTL DEF Spec

\* Every variable keeps its type, for every window, list width and cycle of
\* numbers: the two words of _check_session_sequence_number() stay in range
\* (no bit is shifted out of the 32, no number leaves the cycle).
THEOREM SequenceType == Spec => []TypeOK
  BY SequenceInvariant, PTL DEF SequenceInv

\* No packet is accepted twice, for every cycle length and every window, as
\* long as the network's delay plus the window is less than one cycle.
THEOREM SequenceNoReplay == Spec => []NoReplay
  BY SequenceInvariant, PTL DEF SequenceInv

\* The bit list records exactly which of the last Window packets arrived.
THEOREM SequenceListTracks == Spec => []ListTracksWindow
  BY SequenceInvariant, PTL DEF SequenceInv

\* Nothing further than the window from the newest packet is accepted.
THEOREM SequenceOutOfRange == Spec => []OutOfRangeDropped
  BY SequenceInvariant, PTL DEF SequenceInv

\* An IPMI 1.5 session accepts every packet it has not seen that is at most
\* Window places from the newest one, for every window and cycle.
THEOREM SequenceInRange == ~ Ipmi20 => (Spec => []InRangeAccepted)
<1> SUFFICES ASSUME ~ Ipmi20 PROVE Spec => []InRangeAccepted
  OBVIOUS
<1>1. SequenceInv => InRangeAccepted
  BY DEF SequenceInv, BlindSpot
<1> QED BY <1>1, SequenceInvariant, PTL

\* What an IPMI 2.0 session may lose, for every window and cycle: the packet
\* Window places back when the newest one carries the number Window, and no
\* other packet in the range.
THEOREM SequenceInRangeOrBlind ==
  Spec => [](InRangeAccepted \/ BlindSpot(highest, - verdict.above))
<1>1. SequenceInv => InRangeAccepted \/ BlindSpot(highest, - verdict.above)
  BY DEF SequenceInv
<1> QED BY <1>1, SequenceInvariant, PTL
=============================================================================
