--------------------------- MODULE LanSessionProofs ---------------------------
(***************************************************************************)
(* Proofs about LanSession, for every modulus, timeout, capacity and       *)
(* lifetime that satisfy LanAssumption: an answer belongs to the command   *)
(* it is taken for, client and BMC agree on the session, and a right       *)
(* password is never reported as wrong.                                    *)
(*                                                                         *)
(* The argument: a packet of an earlier transmission carries a number that *)
(* lies 1 .. Lifetime places behind the current one (a bridged one, up to  *)
(* SessionTimeout more), so it differs from it, and what is accepted has   *)
(* age 0.  Packets do not overtake each other, so nothing of the client's  *)
(* is left behind an accepted answer, and every command of the handshake   *)
(* starts with an empty network.                                           *)
(***************************************************************************)
EXTENDS LanSession, FiniteSetTheorems, SequenceTheorems, WellFoundedInduction, TLAPS

-----------------------------------------------------------------------------
(* The inductive invariant. *)

Session == {"user", "sendmsg", "close"}
Requests == (Opening \ {"none"}) \cup {"setpriv"} \cup Session
Numbers == 0 .. RqMod - 1

Packets ==
  [name : Requests \cup {"bridged"}, num : Nat, sid : Nat, ipmb : Seq(Numbers),
   val : Nat, ok : BOOLEAN, sseq : 0 .. SequenceMax, own : BOOLEAN,
   age : 0 .. Lifetime]

Clients ==
  [name : Requests \cup {"none"}, rq : Numbers, tag : 0 .. TagMod - 1, sid : Nat,
   key : Nat, ipmb : Seq(Numbers), retx : Nat, bretx : Nat, spent : Nat,
   up : BOOLEAN, highest : 0 .. SequenceMax, list : SUBSET (0 .. ListBits - 1),
   err : {"none", "timeout", "refused", "password", "k_g"}, cmds : Nat]

Bmcs ==
  [ids : Nat, rnd : Nat, key : [1 .. MaxIds -> Nat], active : SUBSET Nat,
   out : 0 .. SequenceMax, pending : Seq(Packets)]

\* The packets of a channel, and of all three.
In(ch) == {ch[i] : i \in 1 .. Len(ch)}
All(b, t, m) == In(b) \cup In(t) \cup In(m.pending)

\* Only Send Message carries a message for another controller.
Formed(p) == IF p.name = "sendmsg" THEN Len(p.ipmb) = 1 ELSE p.ipmb = <<>>

\* Packets do not overtake each other: what the BMC has still to read is
\* younger than what it has answered, and an answer is younger than all before
\* it, except one that another controller took its time for.
Order(b, t, q) ==
  /\ \A i, j \in 1 .. Len(b) : i < j => b[j].age < b[i].age
  /\ \A i, j \in 1 .. Len(t) : i < j /\ t[j].name # "bridged" => t[j].age < t[i].age
  /\ \A i \in 1 .. Len(t), j \in 1 .. Len(b) : b[j].age < t[i].age
  /\ \A i \in 1 .. Len(q), j \in 1 .. Len(b) : b[j].age < q[i].age

Shape ==
  /\ version \in {15, 20} /\ cl \in Clients
  /\ pc \in {"ready", "wait", "bridge", "failed", "closed"}

\* What is under way, and the BMC.
Net(b, t, m) ==
  /\ m \in Bmcs /\ m.ids <= MaxIds
  /\ b \in Seq(Packets) /\ t \in Seq(Packets)
  /\ Len(b) <= Capacity /\ Len(t) <= Capacity
  /\ \A p \in In(b) : p.name # "bridged" /\ Formed(p)
  /\ \A p \in In(t) : p.ipmb = <<>>
  /\ \A p \in In(m.pending) : p.name = "sendmsg" /\ Formed(p)
  /\ Order(b, t, m.pending)

\* The number n is between lo and hi places behind cur, in a round of M.
Behind(n, M, cur, lo, hi) == \E d \in lo .. hi : (n + d) % M = cur

Round(c) == IF Tagged(c.name) THEN TagMod ELSE RqMod

\* The number of a packet for another controller, or from it.
Carries(p) == p.name = "bridged" \/ p.ipmb # <<>>
Carried(p) == IF p.name = "bridged" THEN p.num ELSE p.ipmb[1]

\* The packets there may be while the client c is at its command.
Named(p, c) ==
  p.name = c.name \/ (c.name \in Session /\ p.name \in {"user", "sendmsg", "bridged"})

\* A packet is of the last transmission, or has an older number; while c waits
\* for an answer ...
WaitNum(p, c) ==
  /\ p.age = 0 => p.own /\ (p.name = c.name \/ (p.name = "bridged" /\ c.name = "sendmsg"))
  /\ Carries(p) =>
       Behind(Carried(p), RqMod, c.rq, IF p.age = 0 THEN 0 ELSE 1, p.age + SessionTimeout)
  /\ p.name # "bridged" =>
       IF p.age = 0 THEN p.num = Number(c)
       ELSE Behind(p.num, Round(c), Number(c), 1, p.age)

\* ... and between commands of a session.
RestNum(p, c) ==
  /\ p.age = 0 => p.own
  /\ Carries(p) => Behind(Carried(p), RqMod, c.rq, 1, p.age + SessionTimeout + 1)
  /\ p.name # "bridged" => Behind(p.num, RqMod, c.rq, 1, p.age + 1)

\* A message of an earlier bridged command has a number before this one's.
OldNum(p, c) ==
  Carries(p) /\ ~ p.own => Behind(Carried(p), RqMod, c.ipmb[1], 1, p.age + SessionTimeout)

Agreed(c, m) == c.sid \in m.active /\ (version = 20 => m.key[c.sid] = c.key)

Versions(c) ==
  /\ c.name \in {"challenge", "activate"} => version = 15
  /\ c.name \in {"open", "rakp1", "rakp3"} => version = 20

\* What is under way of the handshake, and what the BMC has made of it.
Handshake(c, b, t, m) ==
  /\ c.name = "authcap" => m.ids = 0
  /\ c.name \in {"challenge", "open"} =>
       /\ m.ids + Len(b) <= c.retx + 1
       /\ \A p \in In(t) : p.ok => p.val \in 1 .. m.ids
  /\ c.name = "activate" => \A p \in In(t) : p.ok => p.val \in m.active
  /\ c.name \in {"rakp1", "rakp3"} =>
       c.sid \in 1 .. MaxIds /\ \A p \in In(b) : p.sid = c.sid
  /\ c.name = "rakp1" =>
       \A p \in In(t) : p.ok /\ p.sid = c.sid /\ (p.age = 0 => p.val = m.key[c.sid])
  /\ c.name = "rakp3" =>
       /\ m.key[c.sid] = c.key
       /\ \A p \in In(b) : p.val = c.key
       /\ \A p \in In(t) : p.ok /\ p.val = c.key /\ c.sid \in m.active

\* The client c waits for an answer.
WaitInv(c, b, t, m) ==
  /\ c.name # "none" /\ Versions(c) /\ Handshake(c, b, t, m)
  /\ c.name \in Opening => ~ c.up
  /\ c.up /\ c.name # "close" => Agreed(c, m)
  /\ IF c.name = "sendmsg"
     THEN Len(c.ipmb) = 1 /\ Behind(c.ipmb[1], RqMod, c.rq, 0, c.retx)
     ELSE c.ipmb = <<>>
  /\ \A p \in All(b, t, m) : Named(p, c) /\ WaitNum(p, c)
  /\ c.name = "sendmsg" => \A p \in All(b, t, m) : OldNum(p, c)
  /\ c.retx <= SessionTimeout

\* The client c is between two commands.
ReadyInv(c, b, t, m) ==
  /\ c.retx = 0 /\ c.ipmb = <<>> /\ c.name # "close" /\ Versions(c)
  /\ c.name \in Opening \ {"activate", "rakp3"} => ~ c.up
  /\ c.up => Agreed(c, m)
  /\ c.name \notin Session => b = <<>> /\ t = <<>> /\ m.pending = <<>>
  /\ c.name \in {"none", "authcap"} => m.ids = 0
  /\ c.name \in {"open", "rakp1"} => c.sid \in 1 .. MaxIds
  /\ c.name = "rakp1" => m.key[c.sid] = c.key
  /\ \A p \in All(b, t, m) : Named(p, c) /\ RestNum(p, c)

\* The client c waits for the other controller: nothing but answers from there
\* is under way.
BridgeInv(c, b, t, m) ==
  /\ c.retx = 0 /\ c.name = "sendmsg" /\ Len(c.ipmb) = 1 /\ b = <<>>
  /\ c.up => Agreed(c, m)
  /\ \A p \in In(t) : p.name = "bridged"
  /\ \A p \in All(b, t, m) : Named(p, c) /\ RestNum(p, c) /\ OldNum(p, c)

IInv ==
  /\ Shape /\ Net(toBmc, toClient, bmc) /\ AnswerOwn /\ NoFalsePassword
  /\ pc = "wait" => WaitInv(cl, toBmc, toClient, bmc)
                      /\ cl.retx <= cl.spent /\ cl.spent < SessionTimeout
  /\ pc = "ready" => ReadyInv(cl, toBmc, toClient, bmc)
  /\ pc = "bridge" => BridgeInv(cl, toBmc, toClient, bmc)

-----------------------------------------------------------------------------
(* What the network leaves of a channel, in its order. *)

\* A nonempty set of natural numbers has a least element.
LEMMA Least ==
  ASSUME NEW S, S \subseteq Nat, S # {}
  PROVE  \E x \in S : \A y \in S : x <= y
<1> DEFINE R == {ss \in Nat \X Nat : ss[1] < ss[2]}
<1>1. OpToRel(<, Nat) = R
  BY DEF OpToRel
<1>2. IsWellFoundedOn(R, Nat)
  BY <1>1, NatLessThanWellFounded
<1> HIDE DEF R
<1>3. PICK x \in S : \A y \in S : ~ (<<y, x>> \in R)
  BY <1>2, WFMin, Zenon
<1>4. ASSUME NEW y \in S
      PROVE  x <= y
  <2>1. x \in Nat /\ y \in Nat
    OBVIOUS
  <2>2. y < x => <<y, x>> \in R
    BY <2>1 DEF R
  <2> QED BY <1>3, <2>1, <2>2
<1> QED BY <1>4

\* f lists the members of S in ascending order.
Lists(f, S) ==
  /\ f \in [1 .. Cardinality(S) -> S]
  /\ \A i, j \in 1 .. Cardinality(S) : i < j => f[i] < f[j]

\* One more member at the end.
LEMMA ListsMore ==
  ASSUME NEW m \in Nat, NEW T \in SUBSET (1 .. m), m + 1 \notin T,
         NEW f, Lists(f, T)
  PROVE  \E g : Lists(g, T \cup {m + 1})
<1> DEFINE k == Cardinality(T)
           U == T \cup {m + 1}
           g == [i \in 1 .. k + 1 |-> IF i <= k THEN f[i] ELSE m + 1]
<1>1. IsFiniteSet(T)
  <2>1. IsFiniteSet(1 .. m)
    BY FS_Interval
  <2> QED BY <2>1, FS_Subset
<1>2. k \in Nat /\ Cardinality(U) = k + 1
  BY <1>1, FS_CardinalityType, FS_AddElement
<1>3. f \in [1 .. k -> T] /\ \A i, j \in 1 .. k : i < j => f[i] < f[j]
  BY DEF Lists
<1> HIDE DEF k
<1>4. g \in [1 .. k + 1 -> U]
  BY <1>2, <1>3
<1>5. ASSUME NEW i \in 1 .. k + 1, NEW j \in 1 .. k + 1, i < j
      PROVE  g[i] < g[j]
  <2>0. i \in 1 .. k /\ i <= k
    BY <1>2, <1>5
  <2>1. i \in 1 .. k /\ g[i] = f[i] /\ f[i] \in 1 .. m
    BY <1>3, <2>0
  <2>2. CASE j = k + 1
    BY <1>2, <2>1, <2>2
  <2>3. CASE j # k + 1
    BY <1>2, <1>3, <1>5, <2>1, <2>3
  <2> QED BY <2>2, <2>3
<1>6. Lists(g, U)
  BY <1>2, <1>4, <1>5 DEF Lists
<1> QED BY <1>6

\* Every finite set of positive numbers can be listed.
LEMMA ListsExists ==
  ASSUME NEW n \in Nat, NEW S \in SUBSET (1 .. n)
  PROVE  \E f : Lists(f, S)
<1> DEFINE Bad == {m \in Nat : \E T \in SUBSET (1 .. m) : ~ \E f : Lists(f, T)}
<1> SUFFICES ASSUME Bad # {} PROVE FALSE
  OBVIOUS
<1>1. PICK m \in Bad : \A y \in Bad : m <= y
  BY Least
<1>2. m \in Nat
  OBVIOUS
<1>3. PICK T \in SUBSET (1 .. m) : ~ \E f : Lists(f, T)
  OBVIOUS
<1>4. m # 0
  <2> SUFFICES ASSUME m = 0 PROVE FALSE
    OBVIOUS
  <2>1. T = {}
    BY <1>3
  <2>2. Cardinality(T) = 0
    BY <2>1, FS_EmptySet
  <2>3. [i \in 1 .. 0 |-> i] \in [1 .. 0 -> T]
    OBVIOUS
  <2>4. Lists([i \in 1 .. 0 |-> i], T)
    BY <2>2, <2>3 DEF Lists
  <2> QED BY <1>3, <2>4
<1>5. m - 1 \in Nat /\ m - 1 \notin Bad /\ (m - 1) + 1 = m
  BY <1>1, <1>2, <1>4
<1>6. \A U \in SUBSET (1 .. m - 1) : \E f : Lists(f, U)
  BY <1>5
<1> HIDE DEF Bad
<1>7. CASE m \notin T
  <2>1. T \in SUBSET (1 .. m - 1)
    BY <1>2, <1>3, <1>7
  <2> QED BY <1>3, <1>6, <2>1
<1>8. CASE m \in T
  <2> DEFINE U == T \ {m}
             l == m - 1
  <2>1. U \in SUBSET (1 .. l) /\ l + 1 \notin U /\ T = U \cup {l + 1}
    BY <1>2, <1>3, <1>5, <1>8
  <2>2. PICK f : Lists(f, U)
    BY <1>6, <2>1
  <2>3. l \in Nat
    BY <1>5
  <2> HIDE DEF U, l
  <2>4. \E g : Lists(g, U \cup {l + 1})
    BY <2>1, <2>2, <2>3, ListsMore
  <2> QED BY <1>3, <2>1, <2>4
<1> QED BY <1>7, <1>8

\* ch, one transmission later: some of its packets, aged, in their order.
Thinned(L, ch, new) ==
  \E f \in [1 .. Len(L) -> 1 .. Len(ch)] :
    /\ \A i, j \in 1 .. Len(L) : i < j => f[i] < f[j]
    /\ \A i \in 1 .. Len(L) : ch[f[i]].age < Lifetime /\ L[i] = Aged(ch[f[i]], new)

LEMMA AgedType ==
  ASSUME NEW p \in Packets, p.age < Lifetime, NEW new \in BOOLEAN
  PROVE  /\ Aged(p, new) \in Packets
         /\ Aged(p, new).age = p.age + 1 /\ Aged(p, new).own = (p.own /\ ~ new)
         /\ Aged(p, new).name = p.name /\ Aged(p, new).num = p.num
         /\ Aged(p, new).sid = p.sid /\ Aged(p, new).ipmb = p.ipmb
         /\ Aged(p, new).val = p.val /\ Aged(p, new).ok = p.ok
<1> DEFINE a == p.age + 1
           o == p.own /\ ~ new
           q == [p EXCEPT !.age = a, !.own = o]
<1>1. Aged(p, new) = q
  BY DEF Aged
<1>2. a \in 0 .. Lifetime /\ o \in BOOLEAN
  BY LanAssumption, SMTT(30) DEF Packets
<1> HIDE DEF a, o
<1>3. /\ q \in Packets /\ q.age = a /\ q.own = o
      /\ q.name = p.name /\ q.num = p.num /\ q.sid = p.sid /\ q.ipmb = p.ipmb
      /\ q.val = p.val /\ q.ok = p.ok
  BY <1>2 DEF Packets
<1> QED BY <1>1, <1>3 DEF a, o

LEMMA LaterThins ==
  ASSUME NEW ch \in Seq(Packets), NEW new \in BOOLEAN
  PROVE  /\ Later(ch, new) \in Seq(Packets) /\ Len(Later(ch, new)) <= Len(ch)
         /\ Thinned(Later(ch, new), ch, new)
<1> DEFINE kept == {i \in 1 .. Len(ch) : ch[i].age < Lifetime}
           k == Cardinality(kept)
           f == Ascending(kept)
           L == Later(ch, new)
<1>0. Len(ch) \in Nat /\ kept \in SUBSET (1 .. Len(ch))
  OBVIOUS
<1>1. IsFiniteSet(1 .. Len(ch)) /\ Cardinality(1 .. Len(ch)) = Len(ch)
  BY <1>0, FS_Interval, SMTT(30)
<1>2. k \in Nat /\ k <= Len(ch)
  <2>1. IsFiniteSet(kept) /\ Cardinality(kept) <= Len(ch)
    BY <1>0, <1>1, FS_Subset
  <2> QED BY <2>1, FS_CardinalityType
<1>3. f \in [1 .. k -> kept] /\ \A i, j \in 1 .. k : i < j => f[i] < f[j]
  <2>1. \E g \in [1 .. k -> kept] : \A i, j \in 1 .. k : i < j => g[i] < g[j]
    BY <1>0, ListsExists DEF Lists
  <2> HIDE DEF kept
  <2> QED BY <2>1 DEF Ascending
<1>4. L = [i \in 1 .. k |-> Aged(ch[f[i]], new)]
  BY DEF Later
<1> HIDE DEF f, k, L
<1>5. ASSUME NEW i \in 1 .. k
      PROVE  /\ f[i] \in 1 .. Len(ch) /\ ch[f[i]] \in Packets /\ ch[f[i]].age < Lifetime
             /\ Aged(ch[f[i]], new) \in Packets
  <2>1. f[i] \in kept
    BY <1>3
  <2>2. f[i] \in 1 .. Len(ch) /\ ch[f[i]] \in Packets /\ ch[f[i]].age < Lifetime
    BY <2>1
  <2> QED BY <2>2, AgedType
<1> HIDE DEF kept
<1>6. L \in Seq(Packets) /\ Len(L) = k
  BY <1>2, <1>4, <1>5
<1>7. /\ f \in [1 .. Len(L) -> 1 .. Len(ch)]
      /\ \A i, j \in 1 .. Len(L) : i < j => f[i] < f[j]
      /\ \A i \in 1 .. Len(L) : ch[f[i]].age < Lifetime /\ L[i] = Aged(ch[f[i]], new)
  <2>1. f \in [1 .. k -> 1 .. Len(ch)]
    BY <1>3, <1>5
  <2> QED BY <1>3, <1>4, <1>5, <1>6, <2>1
<1>8. Thinned(L, ch, new)
  BY <1>7 DEF Thinned
<1> QED BY <1>2, <1>6, <1>8 DEF L

-----------------------------------------------------------------------------
(* Numbers that come round. *)

LEMMA ModDef ==
  ASSUME NEW C \in Nat \ {0}, NEW a \in Int
  PROVE  /\ a % C \in 0 .. C - 1
         /\ a \div C \in Int
         /\ a = C * (a \div C) + (a % C)
  BY SMT

LEMMA ModUnique ==
  ASSUME NEW C \in Nat \ {0}, NEW q1 \in Int, NEW r1 \in 0 .. C - 1,
         NEW q2 \in Int, NEW r2 \in 0 .. C - 1,
         C * q1 + r1 = C * q2 + r2
  PROVE  r1 = r2
  BY SMT

\* One more is one more, and wraps at the end of the round.
LEMMA ModNext ==
  ASSUME NEW C \in Nat \ {0}, NEW a \in Int
  PROVE  (a + 1) % C = ((a % C) + 1) % C
<1> DEFINE q == a \div C
           r == a % C
           x == a + 1
           y == r + 1
<1>1. r \in 0 .. C - 1 /\ q \in Int /\ a = C * q + r
  BY ModDef
<1>0. x \in Int
  OBVIOUS
<1>2. x \in Int /\ x % C \in 0 .. C - 1 /\ x \div C \in Int /\ x = C * (x \div C) + (x % C)
  <2> HIDE DEF x
  <2> QED BY <1>0, ModDef
<1>3. y \in Int /\ y % C \in 0 .. C - 1 /\ y \div C \in Int /\ y = C * (y \div C) + (y % C)
  BY <1>1, ModDef
<1>4. x = C * q + y
  BY <1>1
<1> HIDE DEF q, r, x, y
<1> DEFINE u == x \div C
           v == y \div C
           s == x % C
           t == y % C
<1>5. C * u + s = C * (q + v) + t
  <2>1. C * u + s = C * q + (C * v + t)
    BY <1>2, <1>3, <1>4
  <2>2. C * (q + v) = C * q + C * v
    BY <1>1, <1>3
  <2> QED BY <1>1, <1>2, <1>3, <2>1, <2>2
<1>6. u \in Int /\ q + v \in Int /\ s \in 0 .. C - 1 /\ t \in 0 .. C - 1
  BY <1>1, <1>2, <1>3
<1> HIDE DEF u, v, s, t
<1>7. s = t
  BY <1>5, <1>6, ModUnique
<1> QED BY <1>7 DEF s, t, x, y, r

\* Less than a round further on is another number.
LEMMA ModOther ==
  ASSUME NEW C \in Nat \ {0}, NEW n \in 0 .. C - 1, NEW d \in 1 .. C - 1
  PROVE  (n + d) % C # n
<1> DEFINE x == n + d
           q == x \div C
           r == x % C
<1>0. x \in Int
  OBVIOUS
<1>1. x \in Int /\ r \in 0 .. C - 1 /\ q \in Int /\ x = C * q + r
  <2> HIDE DEF x
  <2> QED BY <1>0, ModDef
<1>2. CASE x < C
  <2>1. C * q + r = C * 0 + x
    BY <1>1
  <2>2. x = r
    BY <1>1, <1>2, <2>1, ModUnique
  <2> QED BY <2>2
<1>3. CASE x >= C
  <2>1. C * q + r = C * 1 + (x - C)
    BY <1>1
  <2>2. x - C \in 0 .. C - 1
    BY <1>3
  <2>3. x - C = r
    BY <1>1, <2>1, <2>2, ModUnique
  <2> QED BY <2>3
<1> QED BY <1>1, <1>2, <1>3

LEMMA ModSame ==
  ASSUME NEW C \in Nat \ {0}, NEW n \in 0 .. C - 1
  PROVE  n % C = n
<1>1. n \in Int /\ n % C \in 0 .. C - 1 /\ n \div C \in Int /\ C * (n \div C) + (n % C) = C * 0 + n
  BY ModDef
<1> QED BY <1>1, ModUnique

LEMMA BehindNext ==
  ASSUME NEW M \in Nat \ {0}, NEW n \in Nat, NEW cur \in 0 .. M - 1,
         NEW lo \in Nat, NEW hi \in Nat, Behind(n, M, cur, lo, hi)
  PROVE  Behind(n, M, (cur + 1) % M, lo + 1, hi + 1)
<1>1. PICK d \in lo .. hi : (n + d) % M = cur
  BY DEF Behind
<1>2. n + d \in Int /\ d \in Nat /\ d + 1 \in lo + 1 .. hi + 1
  OBVIOUS
<1>3. ((n + d) + 1) % M = (cur + 1) % M
  BY <1>1, <1>2, ModNext
<1>4. n + (d + 1) = (n + d) + 1
  BY <1>2
<1> QED BY <1>2, <1>3, <1>4 DEF Behind

LEMMA BehindWider ==
  ASSUME NEW M, NEW n, NEW cur, NEW lo \in Nat, NEW hi \in Nat, Behind(n, M, cur, lo, hi),
         NEW lo2 \in Nat, NEW hi2 \in Nat, lo2 <= lo, hi <= hi2
  PROVE  Behind(n, M, cur, lo2, hi2)
<1>1. PICK d \in lo .. hi : (n + d) % M = cur
  BY DEF Behind
<1>2. d \in lo2 .. hi2
  OBVIOUS
<1> QED BY <1>1, <1>2 DEF Behind

LEMMA BehindOther ==
  ASSUME NEW M \in Nat \ {0}, NEW n \in 0 .. M - 1, NEW hi \in Nat, hi < M
  PROVE  ~ Behind(n, M, n, 1, hi)
<1> SUFFICES ASSUME Behind(n, M, n, 1, hi) PROVE FALSE
  OBVIOUS
<1>1. PICK d \in 1 .. hi : (n + d) % M = n
  BY DEF Behind
<1>2. d \in 1 .. M - 1
  OBVIOUS
<1> QED BY <1>1, <1>2, ModOther

LEMMA BehindSelf ==
  ASSUME NEW M \in Nat \ {0}, NEW n \in 0 .. M - 1, NEW hi \in Nat
  PROVE  Behind(n, M, n, 0, hi)
<1>1. (n + 0) % M = n
  BY ModSame
<1>2. 0 \in 0 .. hi
  OBVIOUS
<1> QED BY <1>1, <1>2 DEF Behind

-----------------------------------------------------------------------------
(* One transmission. *)

LEMMA ThinnedIn ==
  ASSUME NEW ch, NEW L, NEW new, Thinned(L, ch, new), NEW p \in In(L)
  PROVE  \E q \in In(ch) : q.age < Lifetime /\ p = Aged(q, new)
<1>1. PICK f \in [1 .. Len(L) -> 1 .. Len(ch)] :
        \A i \in 1 .. Len(L) : ch[f[i]].age < Lifetime /\ L[i] = Aged(ch[f[i]], new)
  BY DEF Thinned
<1>2. PICK i \in 1 .. Len(L) : p = L[i]
  BY DEF In
<1>3. f[i] \in 1 .. Len(ch) /\ ch[f[i]].age < Lifetime /\ p = Aged(ch[f[i]], new)
  BY <1>1, <1>2
<1> QED BY <1>3 DEF In

LEMMA InPacket ==
  ASSUME NEW ch \in Seq(Packets), NEW p \in In(ch)
  PROVE  p \in Packets
  BY DEF In

LEMMA AgeType ==
  ASSUME NEW p \in Packets
  PROVE  p.age \in Nat /\ p.age <= Lifetime
  BY LanAssumption DEF Packets

\* What is younger stays younger, and is not of the last transmission.
LEMMA ThinnedYounger ==
  ASSUME NEW a \in Seq(Packets), NEW b \in Seq(Packets), NEW new \in BOOLEAN,
         NEW La, NEW Lb, Thinned(La, a, new), Thinned(Lb, b, new),
         \A i \in 1 .. Len(a), j \in 1 .. Len(b) : b[j].age < a[i].age
  PROVE  \A i \in 1 .. Len(La), j \in 1 .. Len(Lb) : Lb[j].age < La[i].age
<1> SUFFICES ASSUME NEW i \in 1 .. Len(La), NEW j \in 1 .. Len(Lb)
             PROVE  Lb[j].age < La[i].age
  OBVIOUS
<1>1. PICK x \in 1 .. Len(a) : a[x].age < Lifetime /\ La[i] = Aged(a[x], new)
  BY DEF Thinned
<1>2. PICK y \in 1 .. Len(b) : b[y].age < Lifetime /\ Lb[j] = Aged(b[y], new)
  BY DEF Thinned
<1>3. a[x] \in Packets /\ b[y] \in Packets /\ b[y].age < a[x].age
  BY <1>1, <1>2
<1>4. La[i].age = a[x].age + 1 /\ Lb[j].age = b[y].age + 1
  BY <1>1, <1>2, <1>3, AgedType
<1>5. a[x].age \in Nat /\ b[y].age \in Nat
  BY <1>3, AgeType
<1> QED BY <1>3, <1>4, <1>5, SMTT(30)

LEMMA ThinnedOrder ==
  ASSUME NEW a \in Seq(Packets), NEW new \in BOOLEAN, NEW L, Thinned(L, a, new), NEW N,
         \A i, j \in 1 .. Len(a) : i < j /\ a[j].name \notin N => a[j].age < a[i].age
  PROVE  \A i, j \in 1 .. Len(L) : i < j /\ L[j].name \notin N => L[j].age < L[i].age
<1> SUFFICES ASSUME NEW i \in 1 .. Len(L), NEW j \in 1 .. Len(L), i < j, L[j].name \notin N
             PROVE  L[j].age < L[i].age
  OBVIOUS
<1>1. PICK f \in [1 .. Len(L) -> 1 .. Len(a)] :
        /\ \A x, y \in 1 .. Len(L) : x < y => f[x] < f[y]
        /\ \A x \in 1 .. Len(L) : a[f[x]].age < Lifetime /\ L[x] = Aged(a[f[x]], new)
  BY DEF Thinned
<1> DEFINE p == a[f[i]]
           q == a[f[j]]
<1>2. /\ f[i] \in 1 .. Len(a) /\ f[j] \in 1 .. Len(a) /\ f[i] < f[j]
      /\ p.age < Lifetime /\ L[i] = Aged(p, new) /\ q.age < Lifetime /\ L[j] = Aged(q, new)
  BY <1>1
<1>3. p \in Packets /\ q \in Packets
  BY <1>2
<1>4. q.name \notin N => q.age < p.age
  BY <1>2
<1> HIDE DEF p, q
<1>5. L[i].age = p.age + 1 /\ L[j].age = q.age + 1 /\ L[j].name = q.name
  BY <1>2, <1>3, AgedType
<1>6. p.age \in Nat /\ q.age \in Nat
  BY <1>3 DEF Packets
<1> QED BY <1>4, <1>5, <1>6

LEMMA OrderThinned ==
  ASSUME NEW b \in Seq(Packets), NEW t \in Seq(Packets), NEW q \in Seq(Packets),
         NEW new \in BOOLEAN, NEW Lb, NEW Lt, NEW Lq, Order(b, t, q),
         Thinned(Lb, b, new), Thinned(Lt, t, new), Thinned(Lq, q, new)
  PROVE  Order(Lb, Lt, Lq)
<1>1. \A i, j \in 1 .. Len(Lb) : i < j /\ Lb[j].name \notin {} => Lb[j].age < Lb[i].age
  <2> DEFINE N == {}
  <2>1. \A i, j \in 1 .. Len(b) : i < j /\ b[j].name \notin N => b[j].age < b[i].age
    BY DEF Order
  <2> HIDE DEF N
  <2>2. \A i, j \in 1 .. Len(Lb) : i < j /\ Lb[j].name \notin N => Lb[j].age < Lb[i].age
    BY <2>1, ThinnedOrder
  <2> QED BY <2>2 DEF N
<1>2. \A i, j \in 1 .. Len(Lt) : i < j /\ Lt[j].name \notin {"bridged"} => Lt[j].age < Lt[i].age
  <2>1. \A i, j \in 1 .. Len(t) : i < j /\ t[j].name \notin {"bridged"} => t[j].age < t[i].age
    BY DEF Order
  <2> QED BY <2>1, ThinnedOrder
<1>3. \A i \in 1 .. Len(Lt), j \in 1 .. Len(Lb) : Lb[j].age < Lt[i].age
  BY ThinnedYounger DEF Order
<1>4. \A i \in 1 .. Len(Lq), j \in 1 .. Len(Lb) : Lb[j].age < Lq[i].age
  BY ThinnedYounger DEF Order
<1> QED BY <1>1, <1>2, <1>3, <1>4 DEF Order

\* A packet of age 0 at the end of the requests is younger than all.
LEMMA OrderNew ==
  ASSUME NEW b \in Seq(Packets), NEW t \in Seq(Packets), NEW q \in Seq(Packets),
         NEW p \in Packets, p.age = 0, Order(b, t, q),
         \A x \in In(b) \cup In(t) \cup In(q) : x.age > 0
  PROVE  Order(Append(b, p), t, q)
<1> DEFINE a == Append(b, p)
           n == Len(b)
<1>1. n \in Nat /\ Len(a) = n + 1 /\ a[n + 1] = p /\ \A i \in 1 .. n : a[i] = b[i]
  OBVIOUS
<1>2. \A i \in 1 .. n : b[i].age > 0
  BY DEF In
<1>3. (\A i \in 1 .. Len(t) : t[i].age > 0) /\ (\A i \in 1 .. Len(q) : q[i].age > 0)
  BY DEF In
<1> HIDE DEF a, n
<1>4. /\ \A i, j \in 1 .. n : i < j => b[j].age < b[i].age
      /\ \A i \in 1 .. Len(t), j \in 1 .. n : b[j].age < t[i].age
      /\ \A i \in 1 .. Len(q), j \in 1 .. n : b[j].age < q[i].age
  BY DEF Order, n
<1>5. \A i, j \in 1 .. Len(a) : i < j => a[j].age < a[i].age
  <2> SUFFICES ASSUME NEW i \in 1 .. n + 1, NEW j \in 1 .. n + 1, i < j
               PROVE  a[j].age < a[i].age
    BY <1>1
  <2>1. i \in 1 .. n /\ a[i] = b[i]
    BY <1>1
  <2>2. CASE j = n + 1
    BY <1>1, <1>2, <2>1, <2>2
  <2>3. CASE j # n + 1
    BY <1>1, <1>4, <2>1, <2>3
  <2> QED BY <2>2, <2>3
<1>6. \A i \in 1 .. Len(t), j \in 1 .. Len(a) : a[j].age < t[i].age
  <2> SUFFICES ASSUME NEW i \in 1 .. Len(t), NEW j \in 1 .. n + 1
               PROVE  a[j].age < t[i].age
    BY <1>1
  <2>2. CASE j = n + 1
    BY <1>1, <1>3, <2>2
  <2>3. CASE j # n + 1
    BY <1>1, <1>4, <2>3
  <2> QED BY <2>2, <2>3
<1>7. \A i \in 1 .. Len(q), j \in 1 .. Len(a) : a[j].age < q[i].age
  <2> SUFFICES ASSUME NEW i \in 1 .. Len(q), NEW j \in 1 .. n + 1
               PROVE  a[j].age < q[i].age
    BY <1>1
  <2>2. CASE j = n + 1
    BY <1>1, <1>3, <2>2
  <2>3. CASE j # n + 1
    BY <1>1, <1>4, <2>3
  <2> QED BY <2>2, <2>3
<1> QED BY <1>5, <1>6, <1>7 DEF Order, a

\* The packet of a transmission.
New(c) == Packet(c.name, Number(c), Sid(c), c.ipmb, c.key, TRUE, 0, TRUE, 0)

LEMMA NewType ==
  ASSUME NEW c \in Clients, c.name # "none"
  PROVE  /\ New(c) \in Packets /\ New(c).age = 0 /\ New(c).own = TRUE
         /\ New(c).name = c.name /\ New(c).num = Number(c) /\ New(c).ipmb = c.ipmb
         /\ New(c).sid = Sid(c) /\ New(c).val = c.key
<1>1. Number(c) \in Nat
  BY LanAssumption DEF Number, Clients, Numbers
<1>2. Sid(c) \in Nat
  BY DEF Sid, Clients
<1>3. c.name \in Requests /\ c.ipmb \in Seq(Numbers) /\ c.key \in Nat
  BY DEF Clients
<1>4. 0 \in 0 .. Lifetime /\ 0 \in 0 .. SequenceMax
  BY LanAssumption
<1> QED BY <1>1, <1>2, <1>3, <1>4 DEF New, Packet, Packets

LEMMA InAppend ==
  ASSUME NEW ch \in Seq(Packets), NEW p \in Packets
  PROVE  /\ Append(ch, p) \in Seq(Packets) /\ Len(Append(ch, p)) = Len(ch) + 1
         /\ In(Append(ch, p)) = In(ch) \cup {p}
<1>1. /\ Append(ch, p) \in Seq(Packets) /\ Len(Append(ch, p)) = Len(ch) + 1 /\ Len(ch) \in Nat
      /\ Append(ch, p)[Len(ch) + 1] = p
      /\ \A i \in 1 .. Len(ch) : Append(ch, p)[i] = ch[i]
  OBVIOUS
<1>2. 1 .. Len(ch) + 1 = (1 .. Len(ch)) \cup {Len(ch) + 1}
  BY <1>1
<1> QED BY <1>1, <1>2 DEF In

LEMMA InTail ==
  ASSUME NEW ch \in Seq(Packets), ch # <<>>
  PROVE  /\ Tail(ch) \in Seq(Packets) /\ Len(Tail(ch)) = Len(ch) - 1 /\ Len(ch) > 0
         /\ Head(ch) \in Packets /\ Head(ch) = ch[1] /\ Head(ch) \in In(ch)
         /\ In(Tail(ch)) \subseteq In(ch)
         /\ \A i \in 1 .. Len(Tail(ch)) : Tail(ch)[i] = ch[i + 1] /\ i + 1 \in 1 .. Len(ch)
<1>1. /\ Tail(ch) \in Seq(Packets) /\ Len(Tail(ch)) = Len(ch) - 1 /\ Len(ch) > 0
      /\ Head(ch) \in Packets /\ Head(ch) = ch[1] /\ 1 \in 1 .. Len(ch)
      /\ \A i \in 1 .. Len(Tail(ch)) : Tail(ch)[i] = ch[i + 1] /\ i + 1 \in 1 .. Len(ch)
  OBVIOUS
<1> QED BY <1>1 DEF In

\* What a transmission of c's makes of the channels b and t and of the BMC m.
Sends(c, new, b, t, m, b2, t2, m2) ==
  /\ Len(b2) <= Len(b) + 1 /\ m2.ids = m.ids /\ m2.key = m.key /\ m2.active = m.active
  /\ \A p \in In(b2) : p = New(c) \/ \E q \in In(b) : q.age < Lifetime /\ p = Aged(q, new)
  /\ \A p \in In(t2) : \E q \in In(t) : q.age < Lifetime /\ p = Aged(q, new)
  /\ \A p \in In(m2.pending) :
       \E q \in In(m.pending) : q.age < Lifetime /\ p = Aged(q, new)

LEMMA TransmitFacts ==
  ASSUME Net(toBmc, toClient, bmc), NEW c \in Clients, c.name # "none",
         Formed(New(c)), NEW new \in BOOLEAN, Transmit(c, new)
  PROVE  /\ Net(toBmc', toClient', bmc')
         /\ Sends(c, new, toBmc, toClient, bmc, toBmc', toClient', bmc')
<1> DEFINE b == Later(toBmc, new)
           t == Later(toClient, new)
           q == Later(bmc.pending, new)
<1>1. toBmc \in Seq(Packets) /\ toClient \in Seq(Packets) /\ bmc.pending \in Seq(Packets)
  BY DEF Net, Bmcs
<1>2. /\ b \in Seq(Packets) /\ Len(b) <= Len(toBmc) /\ Thinned(b, toBmc, new)
      /\ t \in Seq(Packets) /\ Len(t) <= Len(toClient) /\ Thinned(t, toClient, new)
      /\ q \in Seq(Packets) /\ Thinned(q, bmc.pending, new)
  BY <1>1, LaterThins
<1>3. /\ toBmc' = b \/ (toBmc' = Append(b, New(c)) /\ Len(b) < Capacity)
      /\ toClient' = t /\ bmc' = [bmc EXCEPT !.pending = q]
  BY DEF Transmit, Sent, New
<1> HIDE DEF b, t, q
<1>4. bmc' \in Bmcs /\ bmc'.pending = q /\ bmc'.ids = bmc.ids /\ bmc'.key = bmc.key
      /\ bmc'.active = bmc.active
  BY <1>2, <1>3 DEF Net, Bmcs
<1>5. /\ \A p \in In(b) : \E x \in In(toBmc) : x.age < Lifetime /\ p = Aged(x, new)
      /\ \A p \in In(t) : \E x \in In(toClient) : x.age < Lifetime /\ p = Aged(x, new)
      /\ \A p \in In(q) : \E x \in In(bmc.pending) : x.age < Lifetime /\ p = Aged(x, new)
  BY <1>2, ThinnedIn
<1>6. New(c) \in Packets /\ New(c).age = 0 /\ New(c).name = c.name /\ c.name # "bridged"
  BY NewType DEF Clients, Requests, Opening, Session
<1>7. ASSUME NEW ch \in Seq(Packets), NEW p, NEW x \in In(ch), x.age < Lifetime, p = Aged(x, new)
      PROVE  /\ p.age > 0 /\ p.name = x.name /\ p.ipmb = x.ipmb
             /\ Formed(x) => Formed(p)
  <2>1. x \in Packets
    BY <1>7, InPacket
  <2>2. p.age = x.age + 1 /\ p.name = x.name /\ p.ipmb = x.ipmb
    BY <1>7, <2>1, AgedType
  <2>3. x.age \in Nat
    BY <2>1 DEF Packets
  <2> QED BY <2>2, <2>3 DEF Formed
<1>8. /\ \A p \in In(b) : p.age > 0 /\ p.name # "bridged" /\ Formed(p)
      /\ \A p \in In(t) : p.age > 0 /\ p.ipmb = <<>>
      /\ \A p \in In(q) : p.age > 0 /\ p.name = "sendmsg" /\ Formed(p)
  <2>1. \A p \in In(b) : p.age > 0 /\ p.name # "bridged" /\ Formed(p)
    BY <1>1, <1>5, <1>7 DEF Net
  <2>2. \A p \in In(t) : p.age > 0 /\ p.ipmb = <<>>
    BY <1>1, <1>5, <1>7 DEF Net
  <2>3. \A p \in In(q) : p.age > 0 /\ p.name = "sendmsg" /\ Formed(p)
    BY <1>1, <1>5, <1>7 DEF Net
  <2> QED BY <2>1, <2>2, <2>3
<1>9. Order(b, t, q)
  BY <1>1, <1>2, OrderThinned DEF Net
<1>10. Order(Append(b, New(c)), t, q)
  BY <1>2, <1>6, <1>8, <1>9, OrderNew
<1>11. /\ toBmc' \in Seq(Packets) /\ Len(toBmc') <= Capacity /\ Len(toBmc') <= Len(toBmc) + 1
       /\ In(toBmc') \subseteq In(b) \cup {New(c)} /\ Order(toBmc', t, q)
  <2>1. CASE toBmc' = b
    BY <1>1, <1>2, <1>9, <2>1, LanAssumption, SMTT(30) DEF Net
  <2>2. CASE toBmc' = Append(b, New(c)) /\ Len(b) < Capacity
    <3>1. /\ Append(b, New(c)) \in Seq(Packets) /\ Len(Append(b, New(c))) = Len(b) + 1
          /\ In(Append(b, New(c))) = In(b) \cup {New(c)}
      BY <1>2, <1>6, InAppend
    <3>2. Len(b) \in Nat /\ Len(toBmc) \in Nat /\ Capacity \in Nat
      BY <1>1, <1>2, LanAssumption, SMTT(30)
    <3> QED BY <1>2, <1>10, <2>2, <3>1, <3>2
  <2> QED BY <1>3, <2>1, <2>2
<1>12. Len(toClient') <= Capacity
  BY <1>1, <1>2, <1>3, LanAssumption DEF Net
<1>13. Net(toBmc', toClient', bmc')
  BY <1>2, <1>3, <1>4, <1>6, <1>8, <1>11, <1>12 DEF Net
<1> QED BY <1>3, <1>4, <1>5, <1>11, <1>13 DEF Sends

-----------------------------------------------------------------------------
(* Numbers of packets, from one transmission to the next. *)

LEMMA NumberType ==
  ASSUME NEW c \in Clients
  PROVE  /\ Round(c) \in Nat \ {0} /\ Number(c) \in 0 .. Round(c) - 1
         /\ Lifetime < Round(c) /\ c.rq \in 0 .. RqMod - 1
<1>1. c.rq \in 0 .. RqMod - 1 /\ c.tag \in 0 .. TagMod - 1
  BY DEF Clients, Numbers
<1>2. /\ RqMod \in Nat \ {0} /\ TagMod \in Nat \ {0} /\ Lifetime \in Nat
      /\ SessionTimeout \in Nat /\ Lifetime + SessionTimeout < RqMod /\ Lifetime < TagMod
  BY LanAssumption
<1>3. CASE Tagged(c.name)
  BY <1>1, <1>2, <1>3 DEF Round, Number
<1>4. CASE ~ Tagged(c.name)
  BY <1>1, <1>2, <1>4 DEF Round, Number
<1> QED BY <1>3, <1>4

LEMMA RqModType ==
  RqMod \in Nat \ {0} /\ SessionTimeout \in Nat \ {0} /\ Lifetime \in Nat
    /\ Lifetime + SessionTimeout < RqMod
  BY LanAssumption

\* The number a packet has for the other controller.
LEMMA CarriedType ==
  ASSUME NEW p \in Packets, Carries(p), p.name = "bridged" \/ Formed(p)
  PROVE  Carried(p) \in Nat /\ (p.name # "bridged" => p.name = "sendmsg")
<1>1. CASE p.name = "bridged"
  BY <1>1 DEF Carried, Packets
<1>2. CASE p.name # "bridged"
  <2>1. p.name = "sendmsg" /\ Len(p.ipmb) = 1 /\ p.ipmb \in Seq(Numbers)
    BY <1>2 DEF Carries, Formed, Packets
  <2>2. p.ipmb[1] \in Numbers
    BY <2>1
  <2> QED BY <1>2, <2>1, <2>2, RqModType DEF Carried, Numbers
<1> QED BY <1>1, <1>2

\* Ages and messages do not change what a packet carries.
LEMMA AgedCarries ==
  ASSUME NEW p \in Packets, p.age < Lifetime, NEW new \in BOOLEAN
  PROVE  Carries(Aged(p, new)) = Carries(p) /\ Carried(Aged(p, new)) = Carried(p)
  BY AgedType DEF Carries, Carried

\* Bridged messages belong to sessions, whose commands carry no tags.
LEMMA CarriesUntagged ==
  ASSUME NEW p \in Packets, p.ipmb = <<>> \/ Formed(p), NEW c \in Clients, Named(p, c), Carries(p)
  PROVE  ~ Tagged(c.name) /\ c.name \in Session
<1>1. p.name \in {"bridged", "sendmsg"}
  BY DEF Carries, Formed
<1>2. c.name # "bridged"
  BY DEF Clients, Requests, Opening, Session
<1> QED BY <1>1, <1>2 DEF Named, Session, Tagged

\* From between two commands to the next one's first transmission.
LEMMA AgedRest ==
  ASSUME NEW p \in Packets, p.age < Lifetime, NEW new \in BOOLEAN, NEW d, NEW c,
         c.rq = d.rq, ~ Tagged(c.name), RestNum(p, d)
  PROVE  WaitNum(Aged(p, new), c)
<1> DEFINE q == Aged(p, new)
<1>1. /\ q.age = p.age + 1 /\ q.name = p.name /\ q.num = p.num
      /\ Carries(q) = Carries(p) /\ Carried(q) = Carried(p)
  BY AgedType, AgedCarries
<1>2. p.age \in Nat
  BY AgeType
<1> HIDE DEF q
<1>3. q.age # 0 /\ q.age = p.age + 1
  BY <1>1, <1>2
<1>4. Carries(q) => Behind(Carried(q), RqMod, c.rq, 1, q.age + SessionTimeout)
  <2>1. q.age + SessionTimeout = p.age + SessionTimeout + 1
    BY <1>2, <1>3, RqModType
  <2> QED BY <1>1, <2>1 DEF RestNum
<1>5. q.name # "bridged" => Behind(q.num, Round(c), Number(c), 1, q.age)
  BY <1>1, <1>3 DEF RestNum, Round, Number
<1> QED BY <1>3, <1>4, <1>5 DEF WaitNum, q

\* From one transmission to the next of the same command.
LEMMA AgedWait ==
  ASSUME NEW p \in Packets, p.age < Lifetime, p.name = "bridged" \/ Formed(p) \/ p.ipmb = <<>>,
         NEW d \in Clients, NEW c \in Clients, c.name = d.name,
         Number(c) = (Number(d) + 1) % Round(d),
         Carries(p) => ~ Tagged(c.name), WaitNum(p, d)
  PROVE  WaitNum(Aged(p, FALSE), c)
<1> DEFINE q == Aged(p, FALSE)
<1>1. /\ q.age = p.age + 1 /\ q.name = p.name /\ q.num = p.num
      /\ Carries(q) = Carries(p) /\ Carried(q) = Carried(p)
  BY AgedType, AgedCarries
<1>2. p.age \in Nat /\ p.num \in Nat
  BY AgeType DEF Packets
<1> HIDE DEF q
<1>3. q.age # 0 /\ q.age \in Nat
  BY <1>1, <1>2
<1>4. ASSUME Carries(q)
      PROVE  Behind(Carried(q), RqMod, c.rq, 1, q.age + SessionTimeout)
  <2> DEFINE n == Carried(p)
             hi == p.age + SessionTimeout
  <2>1. n \in Nat /\ Carries(p)
    BY <1>1, <1>4, CarriedType DEF Carries
  <2>2. Behind(n, RqMod, d.rq, IF p.age = 0 THEN 0 ELSE 1, hi) /\ hi \in Nat
    BY <1>2, <2>1, RqModType DEF WaitNum
  <2>3. d.rq \in 0 .. RqMod - 1 /\ c.rq = (d.rq + 1) % RqMod
    BY <2>1, NumberType DEF Number, Round
  <2> HIDE DEF n, hi
  <2>4. Behind(n, RqMod, d.rq, 0, hi)
    BY <2>2, BehindWider
  <2>5. Behind(n, RqMod, c.rq, 0 + 1, hi + 1)
    BY <2>1, <2>2, <2>3, <2>4, RqModType, BehindNext
  <2>6. hi + 1 = q.age + SessionTimeout /\ 0 + 1 = 1
    BY <1>1, <1>2, RqModType DEF hi
  <2> QED BY <1>1, <2>5, <2>6 DEF n
<1>5. ASSUME q.name # "bridged"
      PROVE  Behind(q.num, Round(c), Number(c), 1, q.age)
  <2>1. Round(c) = Round(d) /\ Round(d) \in Nat \ {0} /\ Number(d) \in 0 .. Round(d) - 1
    BY NumberType DEF Round
  <2>2. Behind(p.num, Round(d), Number(d), 0, p.age)
    <3>1. CASE p.age = 0
      BY <1>1, <1>2, <1>5, <2>1, <3>1, BehindSelf DEF WaitNum
    <3>2. CASE p.age # 0
      BY <1>1, <1>2, <1>5, <3>2, BehindWider DEF WaitNum
    <3> QED BY <3>1, <3>2
  <2>3. Behind(p.num, Round(d), (Number(d) + 1) % Round(d), 0 + 1, p.age + 1)
    BY <1>2, <2>1, <2>2, BehindNext
  <2> QED BY <1>1, <2>1, <2>3
<1> QED BY <1>3, <1>4, <1>5 DEF WaitNum, q

\* From the wait for an answer to the time after it.
LEMMA RestAfter ==
  ASSUME NEW p \in Packets, p.name = "bridged" \/ Formed(p) \/ p.ipmb = <<>>,
         NEW d \in Clients, NEW c, c.rq = (d.rq + 1) % RqMod, ~ Tagged(d.name), WaitNum(p, d)
  PROVE  RestNum(p, c)
<1>1. p.age \in Nat /\ p.num \in Nat
  BY AgeType DEF Packets
<1>2. d.rq \in 0 .. RqMod - 1 /\ Round(d) = RqMod /\ Number(d) = d.rq
  BY NumberType DEF Round, Number
<1>3. ASSUME Carries(p)
      PROVE  Behind(Carried(p), RqMod, c.rq, 1, p.age + SessionTimeout + 1)
  <2> DEFINE n == Carried(p)
             hi == p.age + SessionTimeout
  <2>1. n \in Nat
    BY <1>3, CarriedType DEF Carries
  <2>2. Behind(n, RqMod, d.rq, IF p.age = 0 THEN 0 ELSE 1, hi) /\ hi \in Nat
    BY <1>1, <1>3, RqModType DEF WaitNum
  <2> HIDE DEF n, hi
  <2>4. Behind(n, RqMod, d.rq, 0, hi)
    BY <2>2, BehindWider
  <2>5. Behind(n, RqMod, c.rq, 0 + 1, hi + 1)
    BY <1>2, <2>1, <2>2, <2>4, RqModType, BehindNext
  <2> QED BY <2>5 DEF n, hi
<1>4. ASSUME p.name # "bridged"
      PROVE  Behind(p.num, RqMod, c.rq, 1, p.age + 1)
  <2>2. Behind(p.num, RqMod, d.rq, 0, p.age)
    <3>1. CASE p.age = 0
      BY <1>1, <1>2, <1>4, <3>1, BehindSelf, RqModType DEF WaitNum
    <3>2. CASE p.age # 0
      BY <1>1, <1>2, <1>4, <3>2, BehindWider DEF WaitNum
    <3> QED BY <3>1, <3>2
  <2>3. Behind(p.num, RqMod, c.rq, 0 + 1, p.age + 1)
    BY <1>1, <1>2, <2>2, BehindNext, RqModType
  <2> QED BY <2>3
<1> QED BY <1>3, <1>4 DEF RestNum, WaitNum

\* Messages of earlier bridged commands.
LEMMA AgedOld ==
  ASSUME NEW p \in Packets, p.age < Lifetime, NEW d, NEW c, c.ipmb = d.ipmb, OldNum(p, d)
  PROVE  OldNum(Aged(p, FALSE), c)
<1> DEFINE q == Aged(p, FALSE)
<1>1. /\ q.age = p.age + 1 /\ q.own = p.own
      /\ Carries(q) = Carries(p) /\ Carried(q) = Carried(p)
  <2>1. q.own = (p.own /\ ~ FALSE)
    BY AgedType
  <2>2. q.own = p.own
    BY <2>1, AgedType DEF Packets
  <2> QED BY <2>2, AgedType, AgedCarries
<1>2. p.age \in Nat
  BY AgeType
<1> HIDE DEF q
<1>3. SUFFICES ASSUME Carries(q), ~ q.own
               PROVE  Behind(Carried(q), RqMod, c.ipmb[1], 1, q.age + SessionTimeout)
  BY DEF OldNum, q
<1>4. Behind(Carried(q), RqMod, c.ipmb[1], 1, p.age + SessionTimeout)
  BY <1>1, <1>3 DEF OldNum
<1>5. 1 \in Nat /\ p.age + SessionTimeout \in Nat /\ q.age + SessionTimeout \in Nat
      /\ p.age + SessionTimeout <= q.age + SessionTimeout /\ 1 <= 1
  BY <1>1, <1>2, RqModType
<1> QED BY <1>4, <1>5, BehindWider

LEMMA RestOld ==
  ASSUME NEW p \in Packets, p.age < Lifetime, NEW new \in BOOLEAN, NEW d, NEW c,
         c.ipmb[1] = d.rq, RestNum(p, d)
  PROVE  OldNum(Aged(p, new), c)
<1> DEFINE q == Aged(p, new)
<1>1. /\ q.age = p.age + 1 /\ Carries(q) = Carries(p) /\ Carried(q) = Carried(p)
  BY AgedType, AgedCarries
<1>2. p.age \in Nat
  BY AgeType
<1> HIDE DEF q
<1>3. q.age + SessionTimeout = p.age + SessionTimeout + 1
  BY <1>1, <1>2, RqModType
<1> QED BY <1>1, <1>3 DEF OldNum, RestNum, q

\* The packet of the transmission itself.
LEMMA NewNum ==
  ASSUME NEW c \in Clients, c.name # "none",
         IF c.name = "sendmsg"
         THEN Len(c.ipmb) = 1 /\ Behind(c.ipmb[1], RqMod, c.rq, 0, c.retx)
         ELSE c.ipmb = <<>>,
         c.retx <= SessionTimeout
  PROVE  /\ Formed(New(c)) /\ Named(New(c), c) /\ WaitNum(New(c), c) /\ OldNum(New(c), c)
<1> DEFINE p == New(c)
<1>1. /\ p.age = 0 /\ p.own = TRUE /\ p.name = c.name /\ p.num = Number(c) /\ p.ipmb = c.ipmb
  BY NewType
<1>2. c.retx \in Nat /\ c.name # "bridged"
  BY DEF Clients, Requests, Opening, Session
<1> HIDE DEF p
<1>3. Formed(p) /\ Named(p, c)
  BY <1>1 DEF Formed, Named
<1>4. ASSUME Carries(p)
      PROVE  Behind(Carried(p), RqMod, c.rq, 0, p.age + SessionTimeout)
  <2>1. c.name = "sendmsg" /\ Carried(p) = c.ipmb[1]
    BY <1>1, <1>2, <1>4 DEF Carries, Carried
  <2>2. Behind(c.ipmb[1], RqMod, c.rq, 0, c.retx)
    BY <2>1
  <2>3. Behind(c.ipmb[1], RqMod, c.rq, 0, SessionTimeout)
    BY <1>2, <2>2, RqModType, BehindWider
  <2> QED BY <1>1, <2>1, <2>3, RqModType
<1>5. WaitNum(p, c)
  BY <1>1, <1>4 DEF WaitNum
<1>6. OldNum(p, c)
  BY <1>1 DEF OldNum
<1> QED BY <1>3, <1>5, <1>6 DEF p

\* A packet that carries the number of the last transmission is of it.
LEMMA AcceptedNew ==
  ASSUME NEW p \in Packets, NEW c \in Clients, Carries(p) => ~ Tagged(c.name),
         WaitNum(p, c), p.num = Number(c)
  PROVE  p.age = 0 /\ p.own /\ (p.name = c.name \/ (p.name = "bridged" /\ c.name = "sendmsg"))
<1>1. /\ Round(c) \in Nat \ {0} /\ Number(c) \in 0 .. Round(c) - 1 /\ Lifetime < Round(c)
  BY NumberType
<1>2. p.age \in Nat /\ p.age <= Lifetime
  BY AgeType
<1>3. p.age = 0
  <2> SUFFICES ASSUME p.age # 0 PROVE FALSE
    OBVIOUS
  <2>1. CASE p.name = "bridged"
    <3>1. Number(c) = c.rq /\ Carries(p) /\ Carried(p) = c.rq
      BY <2>1 DEF Number, Carries, Carried
    <3>2. Behind(c.rq, RqMod, c.rq, 1, p.age + SessionTimeout)
      BY <3>1 DEF WaitNum
    <3>3. p.age + SessionTimeout \in Nat /\ p.age + SessionTimeout < RqMod
          /\ c.rq \in 0 .. RqMod - 1
      BY <1>2, RqModType, NumberType
    <3> QED BY <3>2, <3>3, BehindOther, RqModType
  <2>2. CASE p.name # "bridged"
    <3>1. Behind(Number(c), Round(c), Number(c), 1, p.age)
      BY <2>2 DEF WaitNum
    <3>2. p.age < Round(c)
      BY <1>1, <1>2, RqModType
    <3> QED BY <1>1, <1>2, <3>1, <3>2, BehindOther
  <2> QED BY <2>1, <2>2
<1> QED BY <1>3 DEF WaitNum

\* A bridged answer that carries the number of the bridged command is its own.
LEMMA BridgedOwn ==
  ASSUME NEW p \in Packets, NEW c \in Clients, Len(c.ipmb) = 1, p.name = "bridged",
         OldNum(p, c), p.num = c.ipmb[1]
  PROVE  p.own
<1> SUFFICES ASSUME ~ p.own PROVE FALSE
  OBVIOUS
<1> DEFINE n == c.ipmb[1]
<1>1. n \in 0 .. RqMod - 1
  <2>1. c.ipmb \in Seq(Numbers)
    BY DEF Clients
  <2>2. c.ipmb[1] \in Numbers
    BY <2>1
  <2> QED BY <2>2 DEF Numbers
<1>2. Behind(n, RqMod, n, 1, p.age + SessionTimeout)
  BY DEF OldNum, Carries, Carried
<1>3. p.age + SessionTimeout \in Nat /\ p.age + SessionTimeout < RqMod
  BY AgeType, RqModType
<1> HIDE DEF n
<1> QED BY <1>1, <1>2, <1>3, BehindOther, RqModType

-----------------------------------------------------------------------------
(* The client's record, step by step. *)

LEMMA Constants ==
  /\ RqMod \in Nat \ {0} /\ TagMod \in Nat \ {0} /\ SessionTimeout \in Nat \ {0}
  /\ BackoffCount \in Nat \ {0} /\ Capacity \in Nat \ {0} /\ Lifetime \in Nat
  /\ SequenceMax \in Nat \ {0} /\ Window \in Nat \ {0} /\ ListBits \in Nat \ {0}
  /\ Window <= ListBits
  BY LanAssumption

\* What the invariant reads of the client, the number of transmissions apart.
Alike(c, d) ==
  /\ d.name = c.name /\ d.rq = c.rq /\ d.tag = c.tag /\ d.sid = c.sid /\ d.key = c.key
  /\ d.ipmb = c.ipmb /\ d.up = c.up

\* The numbers of the next transmission are one further.
LEMMA NextType ==
  ASSUME NEW c \in Clients
  PROVE  /\ NextNumber(c) \in Clients
         /\ Number(NextNumber(c)) = (Number(c) + 1) % Round(c)
         /\ ~ Tagged(c.name) => NextNumber(c).rq = (c.rq + 1) % RqMod
         /\ NextNumber(c).name = c.name /\ NextNumber(c).sid = c.sid
         /\ NextNumber(c).key = c.key /\ NextNumber(c).ipmb = c.ipmb
         /\ NextNumber(c).up = c.up /\ NextNumber(c).retx = c.retx
         /\ NextNumber(c).spent = c.spent /\ NextNumber(c).err = c.err
<1>1. c.rq \in Nat /\ c.tag \in Nat
  BY Constants DEF Clients, Numbers
<1> DEFINE x == (c.tag + 1) % TagMod
           y == (c.rq + 1) % RqMod
<1>2. x \in 0 .. TagMod - 1 /\ y \in 0 .. RqMod - 1
  <2>1. c.tag + 1 \in Int /\ c.rq + 1 \in Int
    BY <1>1
  <2> DEFINE i == c.tag + 1
             j == c.rq + 1
  <2> HIDE DEF i, j
  <2>2. i % TagMod \in 0 .. TagMod - 1 /\ j % RqMod \in 0 .. RqMod - 1
    BY <2>1, Constants, ModDef DEF i, j
  <2> QED BY <2>2 DEF i, j
<1>3. NextNumber(c) = IF Tagged(c.name) THEN [c EXCEPT !.tag = x] ELSE [c EXCEPT !.rq = y]
  BY DEF NextNumber
<1>4. Number(c) = (IF Tagged(c.name) THEN c.tag ELSE c.rq)
  BY DEF Number
<1>5. CASE Tagged(c.name)
  <2>1. NextNumber(c) = [c EXCEPT !.tag = x]
    BY <1>3, <1>5
  <2> HIDE DEF x, y
  <2>2. [c EXCEPT !.tag = x] \in Clients
    BY <1>2 DEF Clients
  <2>3. /\ NextNumber(c).name = c.name /\ NextNumber(c).tag = x /\ NextNumber(c).sid = c.sid
        /\ NextNumber(c).key = c.key /\ NextNumber(c).ipmb = c.ipmb
        /\ NextNumber(c).up = c.up /\ NextNumber(c).retx = c.retx
        /\ NextNumber(c).spent = c.spent /\ NextNumber(c).err = c.err
    BY <2>1 DEF Clients
  <2>4. Number(NextNumber(c)) = x /\ Number(c) = c.tag /\ Round(c) = TagMod
    BY <1>5, <2>3 DEF Number, Round
  <2> QED BY <1>5, <2>1, <2>2, <2>3, <2>4 DEF x
<1>6. CASE ~ Tagged(c.name)
  <2>1. NextNumber(c) = [c EXCEPT !.rq = y]
    BY <1>3, <1>6
  <2> HIDE DEF x, y
  <2>2. [c EXCEPT !.rq = y] \in Clients
    BY <1>2 DEF Clients, Numbers
  <2>3. /\ NextNumber(c).name = c.name /\ NextNumber(c).rq = y /\ NextNumber(c).sid = c.sid
        /\ NextNumber(c).key = c.key /\ NextNumber(c).ipmb = c.ipmb
        /\ NextNumber(c).up = c.up /\ NextNumber(c).retx = c.retx
        /\ NextNumber(c).spent = c.spent /\ NextNumber(c).err = c.err
    BY <2>1 DEF Clients
  <2>4. Number(NextNumber(c)) = y /\ Number(c) = c.rq /\ Round(c) = RqMod
    BY <1>6, <2>3 DEF Number, Round
  <2> QED BY <1>6, <2>1, <2>2, <2>3, <2>4 DEF y
<1> QED BY <1>5, <1>6

LEMMA ReturnedType ==
  ASSUME NEW c \in Clients
  PROVE  /\ Returned(c) \in Clients /\ Returned(c).retx = 0
         /\ ~ Tagged(c.name) => Returned(c).rq = (c.rq + 1) % RqMod
         /\ Returned(c).name = c.name /\ Returned(c).sid = c.sid
         /\ Returned(c).key = c.key /\ Returned(c).ipmb = c.ipmb
         /\ Returned(c).up = c.up
<1> DEFINE n == NextNumber(c)
<1>1. /\ n \in Clients /\ (~ Tagged(c.name) => n.rq = (c.rq + 1) % RqMod)
      /\ n.name = c.name /\ n.sid = c.sid /\ n.key = c.key /\ n.ipmb = c.ipmb /\ n.up = c.up
  BY NextType
<1>2. Returned(c) = [n EXCEPT !.retx = 0]
  BY DEF Returned
<1> HIDE DEF n
<1>3. [n EXCEPT !.retx = 0] \in Clients
  BY <1>1 DEF Clients
<1>4. /\ Returned(c).name = n.name /\ Returned(c).rq = n.rq /\ Returned(c).sid = n.sid
      /\ Returned(c).key = n.key /\ Returned(c).ipmb = n.ipmb /\ Returned(c).up = n.up
      /\ Returned(c).retx = 0
  BY <1>1, <1>2 DEF Clients
<1> QED BY <1>1, <1>2, <1>3, <1>4

\* A wait takes time.
LEMMA WaitType ==
  ASSUME NEW r \in Nat
  PROVE  Wait(r) \in Nat \ {0}
<1>1. r \div BackoffCount \in Nat
  <2>1. /\ r \in Int /\ BackoffCount \in Nat \ {0} /\ r % BackoffCount \in 0 .. BackoffCount - 1
        /\ r \div BackoffCount \in Int
        /\ r = BackoffCount * (r \div BackoffCount) + (r % BackoffCount)
    BY Constants, ModDef
  <2> QED BY <2>1
<1> QED BY <1>1, Constants DEF Wait

-----------------------------------------------------------------------------
(* The parts of the invariant, for other clients and other channels. *)

LEMMA AllTyped ==
  ASSUME NEW b, NEW t, NEW m, Net(b, t, m), NEW p \in All(b, t, m)
  PROVE  p \in Packets /\ (Formed(p) \/ p.ipmb = <<>>)
<1>1. b \in Seq(Packets) /\ t \in Seq(Packets) /\ m.pending \in Seq(Packets)
  BY DEF Net, Bmcs
<1>2. p \in In(b) \/ p \in In(t) \/ p \in In(m.pending)
  BY DEF All
<1>3. p \in Packets
  BY <1>1, <1>2, InPacket
<1> QED BY <1>2, <1>3 DEF Net

LEMMA AlikeNum ==
  ASSUME NEW c, NEW d, Alike(c, d), NEW p
  PROVE  /\ Named(p, c) => Named(p, d)
         /\ WaitNum(p, c) => WaitNum(p, d)
         /\ RestNum(p, c) => RestNum(p, d)
         /\ OldNum(p, c) => OldNum(p, d)
<1>1. Number(c) = Number(d) /\ Round(c) = Round(d)
  BY DEF Number, Round, Alike
<1>2. Named(p, c) => Named(p, d)
  BY DEF Named, Alike
<1>3. WaitNum(p, c) => WaitNum(p, d)
  BY <1>1 DEF WaitNum, Alike
<1>4. RestNum(p, c) => RestNum(p, d)
  BY DEF RestNum, Alike
<1>5. OldNum(p, c) => OldNum(p, d)
  BY DEF OldNum, Alike
<1> QED BY <1>2, <1>3, <1>4, <1>5

\* A wait goes on when answers are taken away and the window moves.
LEMMA WaitLess ==
  ASSUME NEW c, NEW d, Alike(c, d), d.retx = c.retx, NEW b, NEW t, NEW s, NEW m,
         In(s) \subseteq In(t), WaitInv(c, b, t, m)
  PROVE  WaitInv(d, b, s, m)
<1>1. d.name # "none" /\ Versions(d)
  BY DEF WaitInv, Versions, Alike
<1>2. Handshake(d, b, s, m)
  BY DEF WaitInv, Handshake, Alike
<1>3. /\ d.name \in Opening => ~ d.up
      /\ d.up /\ d.name # "close" => Agreed(d, m)
  BY DEF WaitInv, Agreed, Alike
<1>4. IF d.name = "sendmsg"
      THEN Len(d.ipmb) = 1 /\ Behind(d.ipmb[1], RqMod, d.rq, 0, d.retx)
      ELSE d.ipmb = <<>>
  BY DEF WaitInv, Alike
<1>5. All(b, s, m) \subseteq All(b, t, m)
  BY DEF All
<1>6. \A p \in All(b, s, m) : Named(p, d) /\ WaitNum(p, d)
  BY <1>5, AlikeNum DEF WaitInv
<1>7. d.name = "sendmsg" => \A p \in All(b, s, m) : OldNum(p, d)
  BY <1>5, AlikeNum DEF WaitInv, Alike
<1> QED BY <1>1, <1>2, <1>3, <1>4, <1>6, <1>7 DEF WaitInv

LEMMA BridgeLess ==
  ASSUME NEW c, NEW d, Alike(c, d), d.retx = c.retx, NEW b, NEW t, NEW s, NEW m,
         In(s) \subseteq In(t), BridgeInv(c, b, t, m)
  PROVE  BridgeInv(d, b, s, m)
<1>1. d.retx = 0 /\ d.name = "sendmsg" /\ Len(d.ipmb) = 1 /\ b = <<>>
  BY DEF BridgeInv, Alike
<1>2. d.up => Agreed(d, m)
  BY DEF BridgeInv, Agreed, Alike
<1>3. All(b, s, m) \subseteq All(b, t, m)
  BY DEF All
<1>4. \A p \in All(b, s, m) : Named(p, d) /\ RestNum(p, d) /\ OldNum(p, d)
  BY <1>3, AlikeNum DEF BridgeInv
<1> QED BY <1>1, <1>2, <1>4 DEF BridgeInv

\* The order is that of every part of the answers.
LEMMA NetTail ==
  ASSUME NEW b, NEW t, NEW m, Net(b, t, m), t # <<>>
  PROVE  Net(b, Tail(t), m)
<1> DEFINE s == Tail(t)
<1>1. /\ s \in Seq(Packets) /\ Len(s) = Len(t) - 1 /\ In(s) \subseteq In(t)
      /\ \A i \in 1 .. Len(s) : s[i] = t[i + 1] /\ i + 1 \in 1 .. Len(t)
  BY InTail DEF Net
<1>2. Len(t) \in Nat /\ Len(s) <= Capacity /\ Len(s) \in Nat
  BY <1>1, Constants DEF Net
<1> HIDE DEF s
<1>3. \A i, j \in 1 .. Len(s) : i < j /\ s[j].name # "bridged" => s[j].age < s[i].age
  <2> SUFFICES ASSUME NEW i \in 1 .. Len(s), NEW j \in 1 .. Len(s), i < j, s[j].name # "bridged"
               PROVE  s[j].age < s[i].age
    OBVIOUS
  <2>1. /\ s[i] = t[i + 1] /\ s[j] = t[j + 1] /\ i + 1 < j + 1
        /\ i + 1 \in 1 .. Len(t) /\ j + 1 \in 1 .. Len(t)
    BY <1>1
  <2> QED BY <2>1 DEF Net, Order
<1>4. \A i \in 1 .. Len(s), j \in 1 .. Len(b) : b[j].age < s[i].age
  BY <1>1 DEF Net, Order
<1>5. Order(b, s, m.pending)
  BY <1>3, <1>4 DEF Net, Order
<1> QED BY <1>1, <1>2, <1>5 DEF Net, s

-----------------------------------------------------------------------------
(* The invariant after a step. *)

LEMMA IInvNext ==
  ASSUME version' = version, version \in {15, 20}, cl' \in Clients,
         pc' \in {"ready", "wait", "bridge", "failed", "closed"},
         Net(toBmc', toClient', bmc'), AnswerOwn', NoFalsePassword',
         pc' = "wait" => WaitInv(cl', toBmc', toClient', bmc')
                           /\ cl'.retx <= cl'.spent /\ cl'.spent < SessionTimeout,
         pc' = "ready" => ReadyInv(cl', toBmc', toClient', bmc'),
         pc' = "bridge" => BridgeInv(cl', toBmc', toClient', bmc')
  PROVE  IInv'
<1>1. Shape' /\ Net(toBmc, toClient, bmc)'
  BY DEF Shape, Net
<1>2. pc' = "wait" => WaitInv(cl, toBmc, toClient, bmc)'
  BY DEF WaitInv, Versions, Handshake, Agreed, Named, WaitNum, OldNum
<1>3. pc' = "ready" => ReadyInv(cl, toBmc, toClient, bmc)'
  BY DEF ReadyInv, Versions, Agreed, Named, RestNum
<1>4. pc' = "bridge" => BridgeInv(cl, toBmc, toClient, bmc)'
  BY DEF BridgeInv, Agreed, Named, RestNum, OldNum
<1> QED BY <1>1, <1>2, <1>3, <1>4 DEF IInv

-----------------------------------------------------------------------------
(* A command ends, or is sent. *)

\* A command that gives up leaves a session, or nothing.
LEMMA GiveUpInv ==
  ASSUME version' = version, version \in {15, 20}, NEW c \in Clients,
         NEW why \in {"timeout", "refused"}, GiveUp(c, why),
         Net(toBmc', toClient', bmc'), WaitInv(c, toBmc', toClient', bmc'), AnswerOwn'
  PROVE  IInv'
<1> DEFINE d == Returned(c)
<1>1. /\ d \in Clients /\ d.retx = 0 /\ (~ Tagged(c.name) => d.rq = (c.rq + 1) % RqMod)
      /\ d.name = c.name /\ d.sid = c.sid /\ d.key = c.key /\ d.up = c.up
  BY ReturnedType
<1>2. cl' = [d EXCEPT !.err = why, !.ipmb = <<>>]
  BY DEF GiveUp, None
<1> HIDE DEF d
<1>3. <<>> \in Seq(Numbers)
  OBVIOUS
<1>4. /\ cl' \in Clients /\ cl'.err = why /\ cl'.ipmb = <<>> /\ cl'.retx = 0 /\ cl'.name = c.name
      /\ cl'.sid = c.sid /\ cl'.key = c.key /\ cl'.up = c.up
      /\ ~ Tagged(c.name) => cl'.rq = (c.rq + 1) % RqMod
  <2>1. [d EXCEPT !.err = why, !.ipmb = <<>>] \in Clients
    BY <1>1, <1>3 DEF Clients
  <2>2. /\ cl'.err = why /\ cl'.ipmb = <<>> /\ cl'.retx = d.retx /\ cl'.name = d.name
        /\ cl'.sid = d.sid /\ cl'.key = d.key /\ cl'.up = d.up /\ cl'.rq = d.rq
    BY <1>1, <1>2 DEF Clients
  <2> QED BY <1>1, <1>2, <2>1, <2>2
<1>5. NoFalsePassword'
  BY <1>4 DEF NoFalsePassword
<1>6. pc' \in {"ready", "failed", "closed"}
  BY DEF GiveUp
<1>7. ASSUME pc' = "ready"
      PROVE  ReadyInv(cl', toBmc', toClient', bmc')
  <2>1. c.name \in {"user", "sendmsg"}
    <3>1. c.name # "close" /\ Established(c)
      BY <1>7 DEF GiveUp
    <3> QED BY <3>1 DEF Established, Clients, Requests, Opening, Session
  <2>2. ~ Tagged(c.name) /\ c.name \in Session /\ c.name \notin Opening
    BY <2>1 DEF Tagged, Session, Opening
  <2>3. cl'.up => Agreed(cl', bmc')
    BY <1>4, <2>1 DEF WaitInv, Agreed
  <2>4. ASSUME NEW p \in All(toBmc', toClient', bmc')
        PROVE  Named(p, cl') /\ RestNum(p, cl')
    <3>1. p \in Packets /\ (Formed(p) \/ p.ipmb = <<>>)
      BY AllTyped
    <3>2. Named(p, c) /\ WaitNum(p, c)
      BY DEF WaitInv
    <3>3. RestNum(p, cl')
      BY <1>4, <2>2, <3>1, <3>2, RestAfter
    <3> QED BY <1>4, <3>2, <3>3 DEF Named
  <2>5. Versions(cl')
    BY <1>4, <2>1 DEF Versions
  <2> QED BY <1>4, <2>1, <2>2, <2>3, <2>4, <2>5 DEF ReadyInv
<1> QED BY <1>4, <1>5, <1>6, <1>7, IInvNext

LEMMA SendInv ==
  ASSUME version' = version, version \in {15, 20}, NEW c \in Clients, NEW new,
         SendCommand(c, new), c.retx <= c.spent,
         Net(toBmc', toClient', bmc'), WaitInv(c, toBmc', toClient', bmc'), AnswerOwn'
  PROVE  IInv'
<1>1. CASE TimedOut(c)
  <2>1. GiveUp(c, "timeout")
    BY <1>1 DEF SendCommand
  <2> QED BY <2>1, GiveUpInv
<1>2. CASE ~ TimedOut(c)
  <2>1. pc' = "wait" /\ cl' = [c EXCEPT !.err = "none"]
    BY <1>2 DEF SendCommand
  <2>2. [c EXCEPT !.err = "none"] \in Clients
    BY DEF Clients
  <2>3. Alike(c, cl') /\ cl'.retx = c.retx /\ cl'.spent = c.spent /\ cl'.err = "none"
    BY <2>1 DEF Clients, Alike
  <2>4. cl'.retx <= cl'.spent /\ cl'.spent < SessionTimeout
    BY <1>2, <2>3, Constants DEF TimedOut, Clients
  <2>5. WaitInv(cl', toBmc', toClient', bmc')
    BY <2>3, WaitLess
  <2>6. NoFalsePassword'
    BY <2>3 DEF NoFalsePassword
  <2> QED BY <2>1, <2>2, <2>4, <2>5, <2>6, IInvNext
<1> QED BY <1>1, <1>2

\* The packets of a session that a command starts with, and its own.
LEMMA FirstWait ==
  ASSUME Net(toBmc, toClient, bmc), NEW d \in Clients, NEW c \in Clients, c.rq = d.rq,
         NEW new \in BOOLEAN, Transmit(c, new),
         c.name \in Session, d.name # "close", c.retx = 0,
         c.up /\ c.name # "close" => Agreed(c, bmc),
         c.ipmb = IF c.name = "sendmsg" THEN <<c.rq>> ELSE <<>>,
         \A p \in All(toBmc, toClient, bmc) : Named(p, d) /\ RestNum(p, d) /\ d.name \in Session
  PROVE  Net(toBmc', toClient', bmc') /\ WaitInv(c, toBmc', toClient', bmc')
<1>1. /\ c.name # "none" /\ c.name \notin Opening /\ ~ Tagged(c.name)
      /\ c.name \notin {"authcap", "challenge", "open", "activate", "rakp1", "rakp3"}
  BY DEF Session, Opening, Tagged
<1>2. c.rq \in 0 .. RqMod - 1 /\ c.retx \in Nat
  BY DEF Clients, Numbers
<1>3. IF c.name = "sendmsg"
      THEN Len(c.ipmb) = 1 /\ Behind(c.ipmb[1], RqMod, c.rq, 0, c.retx)
      ELSE c.ipmb = <<>>
  <2>1. Behind(c.rq, RqMod, c.rq, 0, c.retx)
    BY <1>2, Constants, BehindSelf
  <2> QED BY <2>1
<1>4. c.retx <= SessionTimeout
  BY Constants
<1>5. Formed(New(c)) /\ Named(New(c), c) /\ WaitNum(New(c), c) /\ OldNum(New(c), c)
  BY <1>1, <1>3, <1>4, NewNum
<1>6. /\ Net(toBmc', toClient', bmc')
      /\ Sends(c, new, toBmc, toClient, bmc, toBmc', toClient', bmc')
  BY <1>1, <1>5, TransmitFacts
<1>7. ASSUME NEW p \in All(toBmc', toClient', bmc')
      PROVE  Named(p, c) /\ WaitNum(p, c) /\ (c.name = "sendmsg" => OldNum(p, c))
  <2>1. p = New(c) \/ \E q \in All(toBmc, toClient, bmc) : q.age < Lifetime /\ p = Aged(q, new)
    BY <1>6 DEF All, Sends
  <2>2. CASE p = New(c)
    BY <1>5, <2>2
  <2>3. ASSUME NEW q \in All(toBmc, toClient, bmc), q.age < Lifetime, p = Aged(q, new)
        PROVE  Named(p, c) /\ WaitNum(p, c) /\ (c.name = "sendmsg" => OldNum(p, c))
    <3>1. q \in Packets /\ Named(q, d) /\ RestNum(q, d) /\ d.name \in Session
      BY AllTyped
    <3>2. p.name = q.name
      BY <2>3, <3>1, AgedType
    <3>3. Named(p, c)
      BY <3>1, <3>2 DEF Named, Session
    <3>4. WaitNum(p, c)
      BY <1>1, <2>3, <3>1, AgedRest
    <3>5. c.name = "sendmsg" => OldNum(p, c)
      <4>1. c.name = "sendmsg" => c.ipmb[1] = d.rq
        OBVIOUS
      <4> QED BY <2>3, <3>1, <4>1, RestOld
    <3> QED BY <3>3, <3>4, <3>5
  <2> QED BY <2>1, <2>2, <2>3
<1>8. Versions(c) /\ Handshake(c, toBmc', toClient', bmc')
  BY <1>1 DEF Versions, Handshake
<1>9. c.up /\ c.name # "close" => Agreed(c, bmc')
  BY <1>6 DEF Agreed, Sends
<1> QED BY <1>1, <1>3, <1>4, <1>6, <1>7, <1>8, <1>9 DEF WaitInv

\* A command of a session that is between two.
LEMMA SessionSend ==
  ASSUME IInv, InSession, NEW c \in Clients, c.rq = cl.rq, SendCommand(c, TRUE),
         c.name \in Session, c.retx = 0, c.up = cl.up, c.sid = cl.sid, c.key = cl.key,
         c.ipmb = IF c.name = "sendmsg" THEN <<c.rq>> ELSE <<>>,
         last' = None, version' = version
  PROVE  IInv'
<1>1. /\ Net(toBmc, toClient, bmc) /\ cl \in Clients /\ version \in {15, 20}
      /\ ReadyInv(cl, toBmc, toClient, bmc) /\ cl.name \notin Opening
  BY DEF IInv, Shape, InSession
<1>2. ASSUME NEW p \in All(toBmc, toClient, bmc)
      PROVE  Named(p, cl) /\ RestNum(p, cl) /\ cl.name \in Session
  <2>1. cl.name \in Session
    <3> SUFFICES ASSUME cl.name \notin Session PROVE FALSE
      OBVIOUS
    <3>1. toBmc = <<>> /\ toClient = <<>> /\ bmc.pending = <<>>
      BY <1>1 DEF ReadyInv
    <3> QED BY <3>1 DEF All, In
  <2> QED BY <1>1, <2>1 DEF ReadyInv
<1>3. Transmit(c, TRUE)
  BY DEF SendCommand
<1>4. c.up /\ c.name # "close" => Agreed(c, bmc)
  BY <1>1 DEF ReadyInv, Agreed
<1>5. cl.name # "close"
  BY <1>1 DEF ReadyInv
<1>6. Net(toBmc', toClient', bmc') /\ WaitInv(c, toBmc', toClient', bmc')
  BY <1>1, <1>2, <1>3, <1>4, <1>5, FirstWait
<1>7. c.retx <= c.spent
  BY DEF Clients
<1>8. AnswerOwn'
  BY DEF AnswerOwn
<1> QED BY <1>1, <1>6, <1>7, <1>8, SendInv

LEMMA CommandInv ==
  ASSUME IInv, Command
  PROVE  IInv'
<1>1. PICK idle \in {0, SessionTimeout} :
        SendCommand([cl EXCEPT !.name = "user", !.spent = @ + idle, !.cmds = @ + 1], TRUE)
  BY DEF Command
<1> DEFINE x == cl.spent + idle
           y == cl.cmds + 1
           c == [cl EXCEPT !.name = "user", !.spent = x, !.cmds = y]
<1>2. cl \in Clients /\ ReadyInv(cl, toBmc, toClient, bmc)
  BY DEF IInv, Shape, Command, InSession
<1>3. x \in Nat /\ y \in Nat
  BY <1>2, Constants, SMTT(30) DEF Clients
<1>4. SendCommand(c, TRUE)
  BY <1>1
<1> HIDE DEF x, y
<1>5. "user" \in Requests \cup {"none"} /\ "user" \in Session
  BY DEF Requests, Session
<1>6. c \in Clients
  BY <1>2, <1>3, <1>5 DEF Clients
<1>7. /\ c.name = "user" /\ c.rq = cl.rq /\ c.retx = cl.retx /\ c.up = cl.up /\ c.sid = cl.sid
      /\ c.key = cl.key /\ c.ipmb = cl.ipmb
  BY <1>2 DEF Clients
<1> HIDE DEF c
<1>8. c.retx = 0 /\ c.ipmb = <<>>
  BY <1>2, <1>7 DEF ReadyInv
<1> QED BY <1>4, <1>5, <1>6, <1>7, <1>8, SessionSend DEF Command

LEMMA CloseSessionInv ==
  ASSUME IInv, CloseSession
  PROVE  IInv'
<1>1. PICK idle \in {0, SessionTimeout} :
        SendCommand([cl EXCEPT !.name = "close", !.spent = @ + idle], TRUE)
  BY DEF CloseSession
<1> DEFINE x == cl.spent + idle
           c == [cl EXCEPT !.name = "close", !.spent = x]
<1>2. cl \in Clients /\ ReadyInv(cl, toBmc, toClient, bmc)
  BY DEF IInv, Shape, CloseSession, InSession
<1>3. x \in Nat
  BY <1>2, Constants DEF Clients
<1>4. SendCommand(c, TRUE)
  BY <1>1
<1> HIDE DEF x
<1>5. "close" \in Requests \cup {"none"} /\ "close" \in Session
  BY DEF Requests, Session
<1>6. c \in Clients
  BY <1>2, <1>3, <1>5 DEF Clients
<1>7. /\ c.name = "close" /\ c.rq = cl.rq /\ c.retx = cl.retx /\ c.up = cl.up /\ c.sid = cl.sid
      /\ c.key = cl.key /\ c.ipmb = cl.ipmb
  BY <1>2 DEF Clients
<1> HIDE DEF c
<1>8. c.retx = 0 /\ c.ipmb = <<>>
  BY <1>2, <1>7 DEF ReadyInv
<1> QED BY <1>4, <1>5, <1>6, <1>7, <1>8, SessionSend DEF CloseSession

\* The message for the other controller gets the number of Send Message.
Bridging(d, n, s, k) ==
  [d EXCEPT !.name = "sendmsg", !.ipmb = <<d.rq>>, !.bretx = n, !.spent = s, !.cmds = k]

LEMMA EmbeddedType ==
  ASSUME NEW d \in Clients
  PROVE  "sendmsg" \in Requests \cup {"none"} /\ <<d.rq>> \in Seq(Numbers)
<1>1. "sendmsg" \in Requests \cup {"none"}
  BY DEF Requests, Session
<1>2. <<d.rq>> \in Seq(Numbers)
  BY DEF Clients
<1> QED BY <1>1, <1>2

LEMMA CommandIpmbInv ==
  ASSUME IInv, CommandIpmb
  PROVE  IInv'
<1>2. cl \in Clients /\ ReadyInv(cl, toBmc, toClient, bmc)
  BY DEF IInv, Shape, CommandIpmb, InSession
<1> DEFINE s == cl.spent
           k == cl.cmds + 1
           c == Bridging(cl, 0, s, k)
<1>3. s \in Nat /\ k \in Nat
  BY <1>2 DEF Clients
<1>4. [Embedded(cl) EXCEPT !.bretx = 0, !.cmds = @ + 1] = c
  BY <1>2 DEF Bridging, Embedded, Clients
<1>5. SendCommand(c, TRUE)
  BY <1>4 DEF CommandIpmb
<1> HIDE DEF s, k
<1>6. /\ c \in Clients /\ c.name = "sendmsg" /\ c.ipmb = <<cl.rq>> /\ c.rq = cl.rq
      /\ c.retx = cl.retx /\ c.up = cl.up /\ c.sid = cl.sid /\ c.key = cl.key
  <2>1. "sendmsg" \in Requests \cup {"none"} /\ <<cl.rq>> \in Seq(Numbers)
    BY <1>2, EmbeddedType
  <2> QED BY <1>2, <1>3, <2>1 DEF Bridging, Clients
<1> HIDE DEF c
<1>7. c.retx = 0 /\ c.name \in Session
  BY <1>2, <1>6 DEF ReadyInv, Session
<1> QED BY <1>5, <1>6, <1>7, SessionSend DEF CommandIpmb

\* Send Message is repeated for an answer that did not come.
LEMMA BridgeNoAnswerInv ==
  ASSUME IInv, BridgeNoAnswer
  PROVE  IInv'
<1>2. /\ cl \in Clients /\ BridgeInv(cl, toBmc, toClient, bmc) /\ version \in {15, 20}
      /\ Net(toBmc, toClient, bmc) /\ AnswerOwn
  BY DEF IInv, Shape, BridgeNoAnswer
<1> DEFINE n == cl.bretx + 1
           s == cl.spent + Wait(cl.bretx)
           k == cl.cmds
           c == Bridging(cl, n, s, k)
<1>3. n \in Nat /\ s \in Nat /\ k \in Nat
  <2>1. cl.bretx \in Nat /\ cl.spent \in Nat /\ cl.cmds \in Nat
    BY <1>2 DEF Clients
  <2> QED BY <2>1, WaitType
<1>4. [Embedded(cl) EXCEPT !.bretx = @ + 1, !.spent = @ + Wait(cl.bretx)] = c
  BY <1>2 DEF Bridging, Embedded, Clients
<1>5. SendCommand(c, FALSE)
  BY <1>4 DEF BridgeNoAnswer
<1> HIDE DEF s, k, n
<1>6. /\ c \in Clients /\ c.name = "sendmsg" /\ c.ipmb = <<cl.rq>> /\ c.rq = cl.rq
      /\ c.retx = cl.retx /\ c.up = cl.up /\ c.sid = cl.sid /\ c.key = cl.key /\ c.spent = s
  <2>1. "sendmsg" \in Requests \cup {"none"} /\ <<cl.rq>> \in Seq(Numbers)
    BY <1>2, EmbeddedType
  <2> QED BY <1>2, <1>3, <2>1 DEF Bridging, Clients
<1> HIDE DEF c
<1>7. c.retx = 0 /\ c.name \in Session /\ cl.name \in Session /\ cl.name # "close"
  BY <1>2, <1>6 DEF BridgeInv, Session
<1>8. \A p \in All(toBmc, toClient, bmc) : Named(p, cl) /\ RestNum(p, cl) /\ cl.name \in Session
  BY <1>2, <1>7 DEF BridgeInv
<1>9. c.up /\ c.name # "close" => Agreed(c, bmc)
  BY <1>2, <1>6 DEF BridgeInv, Agreed
<1>10. Transmit(c, FALSE)
  BY <1>5 DEF SendCommand
<1>11. Net(toBmc', toClient', bmc') /\ WaitInv(c, toBmc', toClient', bmc')
  BY <1>2, <1>6, <1>7, <1>8, <1>9, <1>10, FirstWait
<1>12. AnswerOwn' /\ version' = version
  BY <1>2 DEF AnswerOwn, BridgeNoAnswer
<1>13. c.retx <= c.spent
  BY <1>3, <1>6, <1>7
<1> QED BY <1>2, <1>5, <1>6, <1>11, <1>12, <1>13, SendInv

-----------------------------------------------------------------------------
(* A command is sent again. *)

\* The handshake, one transmission later.
LEMMA HandshakeAgain ==
  ASSUME NEW d \in Clients, NEW c \in Clients, c.name = d.name, c.sid = d.sid, c.key = d.key,
         c.retx = d.retx + 1, c.name # "none",
         NEW b, NEW t, NEW m, NEW b2, NEW t2, NEW m2,
         Net(b, t, m), Net(b2, t2, m2), Handshake(d, b, t, m), Sends(c, FALSE, b, t, m, b2, t2, m2)
  PROVE  Handshake(c, b2, t2, m2)
<1> USE DEF Sends
<1>1. ASSUME NEW p \in In(t2)
      PROVE  \E q \in In(t) : p.ok = q.ok /\ p.val = q.val /\ p.sid = q.sid /\ p.age # 0
  <2>1. PICK q \in In(t) : q.age < Lifetime /\ p = Aged(q, FALSE)
    OBVIOUS
  <2>2. q \in Packets
    BY InPacket DEF Net
  <2>3. p.ok = q.ok /\ p.val = q.val /\ p.sid = q.sid /\ p.age = q.age + 1
    BY <2>1, <2>2, AgedType
  <2>4. q.age \in Nat
    BY <2>2, AgeType
  <2> QED BY <2>3, <2>4
<1>2. ASSUME NEW p \in In(b2)
      PROVE  \/ p.sid = Sid(c) /\ p.val = c.key
             \/ \E q \in In(b) : p.sid = q.sid /\ p.val = q.val
  <2>1. CASE p = New(c)
    BY <2>1, NewType
  <2>2. ASSUME NEW q \in In(b), q.age < Lifetime, p = Aged(q, FALSE)
        PROVE  p.sid = q.sid /\ p.val = q.val
    <3>1. q \in Packets
      BY InPacket DEF Net
    <3> QED BY <2>2, <3>1, AgedType
  <2> QED BY <2>1, <2>2
<1>3. c.name = "authcap" => m2.ids = 0
  BY DEF Handshake
<1>4. c.name \in {"challenge", "open"} =>
        /\ m2.ids + Len(b2) <= c.retx + 1
        /\ \A p \in In(t2) : p.ok => p.val \in 1 .. m2.ids
  <2> SUFFICES ASSUME c.name \in {"challenge", "open"}
               PROVE  /\ m2.ids + Len(b2) <= c.retx + 1
                      /\ \A p \in In(t2) : p.ok => p.val \in 1 .. m2.ids
    OBVIOUS
  <2>1. m.ids + Len(b) <= d.retx + 1 /\ \A p \in In(t) : p.ok => p.val \in 1 .. m.ids
    BY DEF Handshake
  <2>2. m.ids \in Nat /\ Len(b) \in Nat /\ Len(b2) \in Nat /\ d.retx \in Nat
    <3>1. b \in Seq(Packets) /\ b2 \in Seq(Packets) /\ m \in Bmcs
      BY DEF Net
    <3>2. m.ids \in Nat
      BY <3>1 DEF Bmcs
    <3>3. d.retx \in Nat
      BY DEF Clients
    <3>4. Len(b) \in Nat /\ Len(b2) \in Nat
      BY <3>1
    <3> QED BY <3>2, <3>3, <3>4
  <2>3. m2.ids + Len(b2) <= c.retx + 1
    BY <2>1, <2>2
  <2> QED BY <1>1, <2>1, <2>3
<1>5. c.name = "activate" => \A p \in In(t2) : p.ok => p.val \in m2.active
  BY <1>1 DEF Handshake
<1>6. c.name \in {"rakp1", "rakp3"} =>
        c.sid \in 1 .. MaxIds /\ \A p \in In(b2) : p.sid = c.sid
  BY <1>2 DEF Handshake, Sid
<1>7. c.name = "rakp1" =>
        \A p \in In(t2) : p.ok /\ p.sid = c.sid /\ (p.age = 0 => p.val = m2.key[c.sid])
  BY <1>1 DEF Handshake
<1>8. c.name = "rakp3" =>
        /\ m2.key[c.sid] = c.key
        /\ \A p \in In(b2) : p.val = c.key
        /\ \A p \in In(t2) : p.ok /\ p.val = c.key /\ c.sid \in m2.active
  BY <1>1, <1>2 DEF Handshake
<1> QED BY <1>3, <1>4, <1>5, <1>6, <1>7, <1>8 DEF Handshake

\* The wait for an answer, one transmission later.
LEMMA WaitAgain ==
  ASSUME Net(toBmc, toClient, bmc), NEW d \in Clients, WaitInv(d, toBmc, toClient, bmc),
         d.retx < SessionTimeout, NEW c \in Clients, c.name = d.name, c.sid = d.sid,
         c.key = d.key, c.ipmb = d.ipmb, c.up = d.up, c.retx = d.retx + 1,
         Number(c) = (Number(d) + 1) % Round(d), ~ Tagged(d.name) => c.rq = (d.rq + 1) % RqMod,
         Transmit(c, FALSE)
  PROVE  Net(toBmc', toClient', bmc') /\ WaitInv(c, toBmc', toClient', bmc')
<1>1. d.retx \in Nat /\ c.retx \in Nat /\ c.retx <= SessionTimeout
  BY Constants DEF Clients
<1>2. IF c.name = "sendmsg"
      THEN Len(c.ipmb) = 1 /\ Behind(c.ipmb[1], RqMod, c.rq, 0, c.retx)
      ELSE c.ipmb = <<>>
  <2>1. CASE c.name = "sendmsg"
    <3> DEFINE n == d.ipmb[1]
    <3>1. Len(d.ipmb) = 1 /\ Behind(n, RqMod, d.rq, 0, d.retx)
      BY <2>1 DEF WaitInv
    <3>2. n \in Nat
      <4>1. d.ipmb \in Seq(Numbers)
        BY DEF Clients
      <4>2. d.ipmb[1] \in Numbers
        BY <3>1, <4>1
      <4> QED BY <4>2, Constants DEF Numbers
    <3>3. d.rq \in 0 .. RqMod - 1 /\ c.rq = (d.rq + 1) % RqMod
      BY <2>1, NumberType DEF Tagged
    <3> HIDE DEF n
    <3>4. Behind(n, RqMod, c.rq, 0 + 1, d.retx + 1)
      BY <1>1, <3>1, <3>2, <3>3, Constants, BehindNext
    <3>5. Behind(n, RqMod, c.rq, 0, c.retx)
      BY <1>1, <3>4, BehindWider
    <3> QED BY <2>1, <3>1, <3>5 DEF n
  <2>2. CASE c.name # "sendmsg"
    BY <2>2 DEF WaitInv
  <2> QED BY <2>1, <2>2
<1>3. c.name # "none" /\ Versions(c)
  BY DEF WaitInv, Versions
<1>4. Formed(New(c)) /\ Named(New(c), c) /\ WaitNum(New(c), c) /\ OldNum(New(c), c)
  BY <1>1, <1>2, <1>3, NewNum
<1>5. /\ Net(toBmc', toClient', bmc')
      /\ Sends(c, FALSE, toBmc, toClient, bmc, toBmc', toClient', bmc')
  BY <1>3, <1>4, TransmitFacts
<1>6. ASSUME NEW p \in All(toBmc', toClient', bmc')
      PROVE  Named(p, c) /\ WaitNum(p, c) /\ (c.name = "sendmsg" => OldNum(p, c))
  <2>1. p = New(c) \/ \E q \in All(toBmc, toClient, bmc) : q.age < Lifetime /\ p = Aged(q, FALSE)
    BY <1>5 DEF All, Sends
  <2>2. CASE p = New(c)
    BY <1>4, <2>2
  <2>3. ASSUME NEW q \in All(toBmc, toClient, bmc), q.age < Lifetime, p = Aged(q, FALSE)
        PROVE  Named(p, c) /\ WaitNum(p, c) /\ (c.name = "sendmsg" => OldNum(p, c))
    <3>1. q \in Packets /\ (Formed(q) \/ q.ipmb = <<>>)
      BY AllTyped
    <3>2. Named(q, d) /\ WaitNum(q, d) /\ (d.name = "sendmsg" => OldNum(q, d))
      BY DEF WaitInv
    <3>3. p.name = q.name
      BY <2>3, <3>1, AgedType
    <3>4. Named(p, c)
      BY <3>2, <3>3 DEF Named
    <3>5. Carries(q) => ~ Tagged(c.name)
      BY <3>1, <3>2, CarriesUntagged
    <3>6. WaitNum(p, c)
      BY <2>3, <3>1, <3>2, <3>5, AgedWait
    <3>7. c.name = "sendmsg" => OldNum(p, c)
      BY <2>3, <3>1, <3>2, AgedOld
    <3> QED BY <3>4, <3>6, <3>7
  <2> QED BY <2>1, <2>2, <2>3
<1>7. Handshake(c, toBmc', toClient', bmc')
  <2>1. Handshake(d, toBmc, toClient, bmc)
    BY DEF WaitInv
  <2> QED BY <1>3, <1>5, <2>1, HandshakeAgain
<1>8. /\ c.name \in Opening => ~ c.up
      /\ c.up /\ c.name # "close" => Agreed(c, bmc')
  BY <1>5 DEF WaitInv, Agreed, Sends
<1> QED BY <1>1, <1>2, <1>3, <1>5, <1>6, <1>7, <1>8 DEF WaitInv

LEMMA NoAnswerInv ==
  ASSUME IInv, NoAnswer
  PROVE  IInv'
<1>1. /\ cl \in Clients /\ WaitInv(cl, toBmc, toClient, bmc) /\ version \in {15, 20}
      /\ Net(toBmc, toClient, bmc) /\ AnswerOwn /\ NoFalsePassword
      /\ cl.retx <= cl.spent /\ cl.spent < SessionTimeout
  BY DEF IInv, Shape, NoAnswer
<1>2. AnswerOwn' /\ version' = version
  BY <1>1 DEF AnswerOwn, NoAnswer
<1>3. CASE cl.name = "close"
  <2>1. /\ pc' = "closed" /\ cl' = Returned(cl)
        /\ toBmc' = toBmc /\ toClient' = toClient /\ bmc' = bmc
    BY <1>3 DEF NoAnswer
  <2>2. Returned(cl) \in Clients /\ Returned(cl).err = cl.err
    <3>1. NextNumber(cl) \in Clients /\ NextNumber(cl).err = cl.err
      BY <1>1, NextType
    <3> QED BY <1>1, <3>1, ReturnedType DEF Returned, Clients
  <2>3. NoFalsePassword'
    BY <1>1, <2>1, <2>2 DEF NoFalsePassword
  <2>4. Net(toBmc', toClient', bmc')
    BY <1>1, <2>1
  <2> QED BY <1>1, <1>2, <2>1, <2>2, <2>3, <2>4, IInvNext
<1>4. CASE cl.name # "close"
  <2> DEFINE n == NextNumber(cl)
             r == n.retx + 1
             s == n.spent + Wait(cl.retx)
             c == [n EXCEPT !.retx = r, !.spent = s]
  <2>1. /\ n \in Clients /\ Number(n) = (Number(cl) + 1) % Round(cl)
        /\ ~ Tagged(cl.name) => n.rq = (cl.rq + 1) % RqMod
        /\ n.name = cl.name /\ n.sid = cl.sid /\ n.key = cl.key /\ n.ipmb = cl.ipmb
        /\ n.up = cl.up /\ n.retx = cl.retx /\ n.spent = cl.spent /\ n.err = cl.err
    BY <1>1, NextType
  <2>2. /\ Transmit(c, FALSE)
        /\ IF TimedOut(c) THEN GiveUp(c, "timeout") ELSE pc' = "wait" /\ cl' = c
    BY <1>4 DEF NoAnswer
  <2>3. cl.retx \in Nat /\ cl.spent \in Nat /\ Wait(cl.retx) \in Nat \ {0}
    <3>1. cl.retx \in Nat /\ cl.spent \in Nat
      BY <1>1 DEF Clients
    <3> QED BY <3>1, WaitType
  <2>4. r \in Nat /\ s \in Nat /\ r = cl.retx + 1 /\ r <= s
    BY <1>1, <2>1, <2>3
  <2> HIDE DEF n, r, s
  <2>5. c \in Clients
    BY <2>1, <2>4 DEF Clients
  <2>6. /\ c.name = n.name /\ c.rq = n.rq /\ c.tag = n.tag /\ c.sid = n.sid /\ c.key = n.key
        /\ c.ipmb = n.ipmb /\ c.up = n.up /\ c.err = n.err /\ c.retx = r /\ c.spent = s
    BY <2>1 DEF Clients
  <2> HIDE DEF c
  <2>7. Number(c) = Number(n)
    BY <2>6 DEF Number
  <2>8. cl.retx < SessionTimeout
    BY <1>1, <2>3, Constants
  <2>9. Net(toBmc', toClient', bmc') /\ WaitInv(c, toBmc', toClient', bmc')
    BY <1>1, <2>1, <2>2, <2>4, <2>5, <2>6, <2>7, <2>8, WaitAgain
  <2>10. CASE TimedOut(c)
    BY <1>1, <1>2, <2>2, <2>5, <2>9, <2>10, GiveUpInv
  <2>11. CASE ~ TimedOut(c)
    <3>1. pc' = "wait" /\ cl' = c
      BY <2>2, <2>11
    <3>2. cl'.retx <= cl'.spent /\ cl'.spent < SessionTimeout
      BY <2>4, <2>6, <2>11, <3>1, Constants DEF TimedOut
    <3>3. NoFalsePassword'
      BY <1>1, <2>1, <2>6, <3>1 DEF NoFalsePassword
    <3> QED BY <1>1, <1>2, <2>5, <2>9, <3>1, <3>2, <3>3, IInvNext
  <2> QED BY <2>10, <2>11
<1> QED BY <1>3, <1>4

-----------------------------------------------------------------------------
(* The commands that open the session. *)

\* Nothing of the command before is under way when the next is sent.
LEMMA OpenStepInv ==
  ASSUME IInv, OpenStep
  PROVE  IInv'
<1>1. /\ cl \in Clients /\ ReadyInv(cl, toBmc, toClient, bmc) /\ version \in {15, 20}
      /\ Net(toBmc, toClient, bmc) /\ cl.name \in Opening
  BY DEF IInv, Shape, OpenStep
<1> DEFINE n == NextName(cl.name)
           c == [cl EXCEPT !.name = n]
<1>2. /\ cl.name = "none" => n = "authcap"
      /\ cl.name = "authcap" /\ version = 15 => n = "challenge"
      /\ cl.name = "authcap" /\ version = 20 => n = "open"
      /\ cl.name = "challenge" => n = "activate"
      /\ cl.name = "activate" => n = "setpriv"
      /\ cl.name = "open" => n = "rakp1"
      /\ cl.name = "rakp1" => n = "rakp3"
      /\ cl.name = "rakp3" => n = "setpriv"
  BY DEF NextName
<1>3. SendCommand(c, TRUE) /\ last' = None /\ version' = version
  BY DEF OpenStep
<1> HIDE DEF n
<1>4. n \in {"authcap", "challenge", "open", "activate", "rakp1", "rakp3", "setpriv"}
  BY <1>1, <1>2 DEF Opening
<1>5. n \in Requests \cup {"none"}
  BY <1>4 DEF Requests, Opening
<1>6. c \in Clients
  BY <1>1, <1>5 DEF Clients
<1>7. /\ c.name = n /\ c.retx = cl.retx /\ c.ipmb = cl.ipmb /\ c.up = cl.up /\ c.sid = cl.sid
      /\ c.key = cl.key /\ c.spent = cl.spent
  BY <1>1 DEF Clients
<1> HIDE DEF c
<1>8. c.retx = 0 /\ c.ipmb = <<>> /\ c.name # "none" /\ c.name # "sendmsg" /\ c.name # "close"
  BY <1>1, <1>4, <1>7 DEF ReadyInv
<1>9. c.retx <= SessionTimeout /\ c.retx <= c.spent
  BY <1>6, <1>8, Constants DEF Clients
<1>10. Formed(New(c)) /\ Named(New(c), c) /\ WaitNum(New(c), c) /\ OldNum(New(c), c)
  BY <1>6, <1>8, <1>9, NewNum
<1>11. toBmc = <<>> /\ toClient = <<>> /\ bmc.pending = <<>>
  <2>1. cl.name \notin Session
    BY <1>1 DEF Opening, Session
  <2> QED BY <1>1, <2>1 DEF ReadyInv
<1>12. In(toBmc) = {} /\ In(toClient) = {} /\ In(bmc.pending) = {} /\ Len(toBmc) = 0
  BY <1>11 DEF In
<1>13. /\ Net(toBmc', toClient', bmc')
       /\ Sends(c, TRUE, toBmc, toClient, bmc, toBmc', toClient', bmc')
  <2>1. Transmit(c, TRUE)
    BY <1>3 DEF SendCommand
  <2> QED BY <1>1, <1>6, <1>8, <1>10, <2>1, TransmitFacts
<1>14. /\ \A p \in In(toBmc') : p = New(c)
       /\ In(toClient') = {} /\ In(bmc'.pending) = {} /\ Len(toBmc') <= 1
       /\ bmc'.ids = bmc.ids /\ bmc'.key = bmc.key /\ bmc'.active = bmc.active
  BY <1>12, <1>13 DEF Sends
<1>15. \A p \in All(toBmc', toClient', bmc') : Named(p, c) /\ WaitNum(p, c)
  BY <1>10, <1>14 DEF All
<1>16. Versions(c)
  BY <1>1, <1>2, <1>7 DEF ReadyInv, Versions, Opening
<1>17. c.name \in Opening => ~ c.up
  BY <1>1, <1>2, <1>7 DEF ReadyInv, Opening
<1>18. c.up => Agreed(c, bmc')
  BY <1>1, <1>7, <1>14 DEF ReadyInv, Agreed
<1>19. Handshake(c, toBmc', toClient', bmc')
  <2>1. c.name \in {"authcap", "challenge", "open"} =>
          bmc'.ids = 0 /\ (c.name # "authcap" => bmc'.ids + Len(toBmc') <= c.retx + 1)
    <3>1. c.name \in {"authcap", "challenge", "open"} => cl.name \in {"none", "authcap"}
      BY <1>1, <1>2, <1>7 DEF Opening
    <3>2. Len(toBmc') \in Nat
      BY <1>13 DEF Net
    <3> QED BY <1>1, <1>8, <1>14, <3>1, <3>2 DEF ReadyInv
  <2>2. \A p \in In(toBmc') : p.sid = Sid(c) /\ p.val = c.key
    BY <1>6, <1>8, <1>14, NewType
  <2>3. c.name \in {"rakp1", "rakp3"} => c.sid \in 1 .. MaxIds /\ \A p \in In(toBmc') : p.sid = c.sid
    <3>1. c.name \in {"rakp1", "rakp3"} => cl.name \in {"open", "rakp1"}
      BY <1>1, <1>2, <1>7 DEF Opening
    <3> QED BY <1>1, <1>7, <2>2, <3>1 DEF ReadyInv, Sid
  <2>4. c.name = "rakp3" => bmc'.key[c.sid] = c.key /\ \A p \in In(toBmc') : p.val = c.key
    <3>1. c.name = "rakp3" => cl.name = "rakp1"
      BY <1>1, <1>2, <1>7 DEF Opening
    <3> QED BY <1>1, <1>7, <1>14, <2>2, <3>1 DEF ReadyInv
  <2> QED BY <1>14, <2>1, <2>3, <2>4 DEF Handshake
<1>20. WaitInv(c, toBmc', toClient', bmc')
  BY <1>8, <1>9, <1>15, <1>16, <1>17, <1>18, <1>19 DEF WaitInv
<1>21. AnswerOwn'
  BY <1>3 DEF AnswerOwn
<1> QED BY <1>1, <1>3, <1>6, <1>9, <1>13, <1>20, <1>21, SendInv

-----------------------------------------------------------------------------
(* What is received. *)

\* The window moves within its bounds.
LEMMA WindowType ==
  ASSUME NEW s \in 0 .. SequenceMax, NEW h \in 0 .. SequenceMax,
         NEW l \in SUBSET (0 .. ListBits - 1), NEW u \in W15!UndefinedBits
  PROVE  /\ W15!Check(s, h, l, u).highest \in 0 .. SequenceMax
         /\ W15!Check(s, h, l, u).list \in SUBSET (0 .. ListBits - 1)
         /\ W20!Check(s, h, l, u).highest \in 0 .. SequenceMax
         /\ W20!Check(s, h, l, u).list \in SUBSET (0 .. ListBits - 1)
<1>1. u \in SUBSET (0 .. ListBits - 1)
  BY Constants DEF W15!UndefinedBits
<1>2. \A k : W15!Bit(k, u) \in SUBSET (0 .. ListBits - 1)
  BY <1>1 DEF W15!Bit
<1>3. \A k : W20!Bit(k, u) \in SUBSET (0 .. ListBits - 1)
  BY <1>1 DEF W20!Bit
<1>4. \A k : W15!Advance(l, k, u) \in SUBSET (0 .. ListBits - 1)
  BY <1>2 DEF W15!Advance
<1>5. \A k : W20!Advance(l, k, u) \in SUBSET (0 .. ListBits - 1)
  BY <1>3 DEF W20!Advance
<1>6. /\ W15!Check(s, h, l, u).highest \in 0 .. SequenceMax
      /\ W15!Check(s, h, l, u).list \in SUBSET (0 .. ListBits - 1)
  BY <1>2, <1>4 DEF W15!Check
<1>7. /\ W20!Check(s, h, l, u).highest \in 0 .. SequenceMax
      /\ W20!Check(s, h, l, u).list \in SUBSET (0 .. ListBits - 1)
  BY <1>3, <1>5 DEF W20!Check
<1> QED BY <1>6, <1>7

\* Only a packet with the number waited for is good.
LEMMA VerifyType ==
  ASSUME cl \in Clients, version \in {15, 20}, NEW p \in Packets, NEW num,
         NEW u \in W15!UndefinedBits
  PROVE  /\ Verify(p, num, u).highest \in 0 .. SequenceMax
         /\ Verify(p, num, u).list \in SUBSET (0 .. ListBits - 1)
         /\ Verify(p, num, u).good => p.num = num
<1> DEFINE r == IF version = 15 THEN W15!Check(p.sseq, cl.highest, cl.list, u)
                ELSE W20!Check(p.sseq, cl.highest, cl.list, u)
           drop == [good |-> FALSE, highest |-> cl.highest, list |-> cl.list]
<1>1. p.sseq \in 0 .. SequenceMax /\ cl.highest \in 0 .. SequenceMax
      /\ cl.list \in SUBSET (0 .. ListBits - 1)
  BY DEF Clients, Packets
<1>2. r.highest \in 0 .. SequenceMax /\ r.list \in SUBSET (0 .. ListBits - 1)
  BY <1>1, WindowType
<1>3. \/ Verify(p, num, u) = drop
      \/ Verify(p, num, u) = [drop EXCEPT !.good = p.num = num]
      \/ Verify(p, num, u) = [good |-> r.rv = 1 /\ p.num = num,
                              highest |-> r.highest, list |-> r.list]
  BY DEF Verify
<1> HIDE DEF r
<1>4. CASE Verify(p, num, u) = drop
  BY <1>1, <1>4
<1>5. CASE Verify(p, num, u) = [drop EXCEPT !.good = p.num = num]
  BY <1>1, <1>5
<1>6. CASE Verify(p, num, u) = [good |-> r.rv = 1 /\ p.num = num,
                                highest |-> r.highest, list |-> r.list]
  <2> DEFINE g == r.rv = 1 /\ p.num = num
  <2>1. Verify(p, num, u) = [good |-> g, highest |-> r.highest, list |-> r.list]
    BY <1>6
  <2>2. g => p.num = num
    OBVIOUS
  <2> HIDE DEF g
  <2> QED BY <1>2, <2>1, <2>2
<1> QED BY <1>3, <1>4, <1>5, <1>6

\* Nothing is younger than an answer to the last transmission, and what
\* follows it comes from another controller.
LEMMA AcceptedLast ==
  ASSUME NEW b, NEW t, NEW m, Net(b, t, m), t # <<>>, Head(t).age = 0
  PROVE  b = <<>> /\ \A p \in In(Tail(t)) : p.name = "bridged"
<1>1. b \in Seq(Packets) /\ t \in Seq(Packets) /\ Order(b, t, m.pending)
  BY DEF Net
<1>2. /\ Head(t) = t[1] /\ Len(t) > 0
      /\ \A i \in 1 .. Len(Tail(t)) : Tail(t)[i] = t[i + 1] /\ i + 1 \in 1 .. Len(t)
  BY <1>1, InTail
<1>3. Len(t) \in Nat /\ 1 \in 1 .. Len(t)
  BY <1>1, <1>2
<1>4. b = <<>>
  <2> SUFFICES ASSUME b # <<>> PROVE FALSE
    OBVIOUS
  <2>1. 1 \in 1 .. Len(b) /\ b[1] \in Packets
    BY <1>1
  <2>2. b[1].age < t[1].age
    BY <1>1, <1>3, <2>1 DEF Order
  <2> QED BY <1>2, <2>1, <2>2, AgeType
<1>5. ASSUME NEW p \in In(Tail(t)), p.name # "bridged"
      PROVE  FALSE
  <2>1. PICK i \in 1 .. Len(Tail(t)) : p = Tail(t)[i]
    BY DEF In
  <2>2. i + 1 \in 1 .. Len(t) /\ p = t[i + 1] /\ 1 < i + 1
    BY <1>2, <2>1
  <2>3. p.age < t[1].age
    BY <1>1, <1>3, <1>5, <2>2 DEF Order
  <2>4. p \in Packets
    BY <1>1, <2>2
  <2> QED BY <1>2, <2>3, <2>4, AgeType
<1> QED BY <1>4, <1>5

\* The client after a good answer.
Ended(c) == [Returned(c) EXCEPT !.spent = 0, !.err = "none"]

LEMMA EndedType ==
  ASSUME NEW c \in Clients
  PROVE  /\ Ended(c) \in Clients /\ Ended(c).retx = 0 /\ Ended(c).err = "none"
         /\ ~ Tagged(c.name) => Ended(c).rq = (c.rq + 1) % RqMod
         /\ Ended(c).name = c.name /\ Ended(c).sid = c.sid /\ Ended(c).key = c.key
         /\ Ended(c).ipmb = c.ipmb /\ Ended(c).up = c.up
<1> DEFINE d == Returned(c)
<1>1. /\ d \in Clients /\ d.retx = 0 /\ (~ Tagged(c.name) => d.rq = (c.rq + 1) % RqMod)
      /\ d.name = c.name /\ d.sid = c.sid /\ d.key = c.key /\ d.ipmb = c.ipmb /\ d.up = c.up
  BY ReturnedType
<1>2. Ended(c) = [d EXCEPT !.spent = 0, !.err = "none"]
  BY DEF Ended
<1> HIDE DEF d
<1>3. [d EXCEPT !.spent = 0, !.err = "none"] \in Clients
  BY <1>1, ZenonT(60) DEF Clients
<1>4. /\ Ended(c).name = d.name /\ Ended(c).rq = d.rq /\ Ended(c).sid = d.sid
      /\ Ended(c).key = d.key /\ Ended(c).ipmb = d.ipmb /\ Ended(c).up = d.up
      /\ Ended(c).retx = d.retx /\ Ended(c).err = "none"
  BY <1>1, <1>2 DEF Clients
<1> QED BY <1>1, <1>2, <1>3, <1>4

\* A command of the handshake is done and leaves nothing under way.
LEMMA OpenDone ==
  ASSUME version' = version, version \in {15, 20}, NEW c \in Clients,
         pc' = "ready", cl' = Ended(c), AnswerOwn', Net(toBmc', toClient', bmc'),
         toBmc' = <<>>, toClient' = <<>>, bmc'.pending = <<>>,
         c.ipmb = <<>>, Versions(c),
         c.name \in {"authcap", "setpriv", "challenge", "open", "activate", "rakp1", "rakp3"},
         c.name \in Opening \ {"activate", "rakp3"} => ~ c.up,
         c.up => Agreed(c, bmc'),
         c.name = "authcap" => bmc'.ids = 0,
         c.name \in {"open", "rakp1"} => c.sid \in 1 .. MaxIds,
         c.name = "rakp1" => bmc'.key[c.sid] = c.key
  PROVE  IInv'
<1>1. /\ cl' \in Clients /\ cl'.retx = 0 /\ cl'.err = "none" /\ cl'.name = c.name
      /\ cl'.sid = c.sid /\ cl'.key = c.key /\ cl'.ipmb = c.ipmb /\ cl'.up = c.up
  BY EndedType
<1>2. Versions(cl') /\ (cl'.up => Agreed(cl', bmc'))
  BY <1>1 DEF Versions, Agreed
<1>3. All(toBmc', toClient', bmc') = {}
  BY DEF All, In
<1>4. ReadyInv(cl', toBmc', toClient', bmc')
  BY <1>1, <1>2, <1>3 DEF ReadyInv
<1>5. NoFalsePassword'
  BY <1>1 DEF NoFalsePassword
<1> QED BY <1>1, <1>4, <1>5, IInvNext

\* A command of a session is done.
LEMMA SessionDone ==
  ASSUME version' = version, version \in {15, 20}, NEW c \in Clients,
         cl' = Ended(c), AnswerOwn', Net(toBmc', toClient', bmc'), toBmc' = <<>>,
         WaitInv(c, toBmc', toClient', bmc'),
         \/ c.name = "user" /\ pc' = "ready"
         \/ c.name = "sendmsg" /\ pc' = "bridge" /\ \A p \in In(toClient') : p.name = "bridged"
         \/ c.name = "close" /\ pc' = "closed"
  PROVE  IInv'
<1>1. /\ cl' \in Clients /\ cl'.retx = 0 /\ cl'.err = "none" /\ cl'.name = c.name
      /\ cl'.sid = c.sid /\ cl'.key = c.key /\ cl'.ipmb = c.ipmb /\ cl'.up = c.up
      /\ ~ Tagged(c.name) => cl'.rq = (c.rq + 1) % RqMod
  BY EndedType
<1>2. c.name # "close" /\ cl'.up => Agreed(cl', bmc')
  BY <1>1 DEF WaitInv, Agreed
<1>3. c.name \in Session /\ ~ Tagged(c.name) /\ c.name \notin Opening
  BY DEF Session, Tagged, Opening
<1>4. ASSUME NEW p \in All(toBmc', toClient', bmc')
      PROVE  Named(p, cl') /\ RestNum(p, cl') /\ (c.name = "sendmsg" => OldNum(p, cl'))
  <2>1. p \in Packets /\ (Formed(p) \/ p.ipmb = <<>>)
    BY AllTyped
  <2>2. Named(p, c) /\ WaitNum(p, c) /\ (c.name = "sendmsg" => OldNum(p, c))
    BY DEF WaitInv
  <2>3. RestNum(p, cl')
    BY <1>1, <1>3, <2>1, <2>2, RestAfter
  <2>4. c.name = "sendmsg" => OldNum(p, cl')
    BY <1>1, <2>2 DEF OldNum
  <2> QED BY <1>1, <2>2, <2>3, <2>4 DEF Named
<1>5. pc' = "ready" => ReadyInv(cl', toBmc', toClient', bmc')
  <2> SUFFICES ASSUME pc' = "ready" PROVE ReadyInv(cl', toBmc', toClient', bmc')
    OBVIOUS
  <2>1. c.name = "user"
    OBVIOUS
  <2>2. c.ipmb = <<>>
    BY <2>1 DEF WaitInv
  <2>3. Versions(cl')
    BY <1>1, <2>1 DEF Versions
  <2> QED BY <1>1, <1>2, <1>3, <1>4, <2>1, <2>2, <2>3 DEF ReadyInv
<1>6. pc' = "bridge" => BridgeInv(cl', toBmc', toClient', bmc')
  <2> SUFFICES ASSUME pc' = "bridge" PROVE BridgeInv(cl', toBmc', toClient', bmc')
    OBVIOUS
  <2>1. c.name = "sendmsg" /\ \A p \in In(toClient') : p.name = "bridged"
    OBVIOUS
  <2>2. Len(c.ipmb) = 1
    BY <2>1 DEF WaitInv
  <2> QED BY <1>1, <1>2, <1>4, <2>1, <2>2 DEF BridgeInv
<1>7. NoFalsePassword'
  BY <1>1 DEF NoFalsePassword
<1> QED BY <1>1, <1>5, <1>6, <1>7, IInvNext

LEMMA InEmpty ==
  ASSUME NEW ch \in Seq(Packets), In(ch) = {}
  PROVE  ch = <<>>
<1> SUFFICES ASSUME ch # <<>> PROVE FALSE
  OBVIOUS
<1>1. 1 \in 1 .. Len(ch)
  OBVIOUS
<1> QED BY <1>1 DEF In

\* What the callers do with an answer they accept.
LEMMA UseInv ==
  ASSUME version' = version, version \in {15, 20}, Net(toBmc, toClient, bmc), toClient # <<>>,
         toClient' = Tail(toClient), toBmc' = toBmc, bmc' = bmc, NEW c \in Clients,
         WaitInv(c, toBmc, toClient, bmc), Head(toClient).num = Number(c),
         Use(c, Head(toClient))
  PROVE  IInv'
<1> DEFINE p == Head(toClient)
<1>1. toClient \in Seq(Packets) /\ bmc.pending \in Seq(Packets)
  BY DEF Net, Bmcs
<1>2. p \in Packets /\ p \in In(toClient) /\ In(Tail(toClient)) \subseteq In(toClient)
      /\ Tail(toClient) \in Seq(Packets)
  BY <1>1, InTail
<1>3. p \in All(toBmc, toClient, bmc)
  BY <1>2 DEF All
<1>4. Named(p, c) /\ WaitNum(p, c)
  BY <1>3 DEF WaitInv
<1>5. Carries(p) => ~ Tagged(c.name)
  <2>1. Formed(p) \/ p.ipmb = <<>>
    BY <1>3, AllTyped
  <2> QED BY <1>2, <1>4, <2>1, CarriesUntagged
<1>6. p.age = 0 /\ p.own /\ (p.name = c.name \/ (p.name = "bridged" /\ c.name = "sendmsg"))
  BY <1>2, <1>4, <1>5, AcceptedNew
<1>7. toBmc' = <<>> /\ \A q \in In(toClient') : q.name = "bridged"
  BY <1>6, AcceptedLast
<1>8. Net(toBmc', toClient', bmc')
  BY NetTail
<1>9. WaitInv(c, toBmc', toClient', bmc')
  <2>1. Alike(c, c)
    BY DEF Alike
  <2> QED BY <1>2, <2>1, WaitLess
<1>10. ASSUME last' = [name |-> p.name, of |-> c.name, own |-> p.own]
       PROVE  AnswerOwn'
  <2>1. last'.own = p.own /\ last'.name = p.name /\ last'.of = c.name
    BY <1>10
  <2> QED BY <1>6, <2>1 DEF AnswerOwn
<1>11. c.name \notin Session => toClient' = <<>> /\ bmc'.pending = <<>>
  <2> SUFFICES ASSUME c.name \notin Session PROVE toClient' = <<>> /\ bmc'.pending = <<>>
    OBVIOUS
  <2>1. c.name \notin {"bridged", "sendmsg"}
    BY DEF Clients, Requests, Opening, Session
  <2>2. \A q \in All(toBmc', toClient', bmc') : q.name = c.name
    BY <1>9 DEF WaitInv, Named
  <2>3. In(toClient') = {}
    BY <1>7, <2>1, <2>2 DEF All
  <2>4. In(bmc'.pending) = {}
    BY <1>8, <2>1, <2>2 DEF All, Net
  <2>5. toClient' = <<>>
    BY <1>2, <2>3, InEmpty
  <2>6. bmc'.pending = <<>>
    BY <1>1, <2>4, InEmpty
  <2> QED BY <2>5, <2>6
<1>12. Handshake(c, toBmc, toClient, bmc) /\ Versions(c) /\ (c.name # "sendmsg" => c.ipmb = <<>>)
       /\ (c.name \in Opening => ~ c.up) /\ (c.up /\ c.name # "close" => Agreed(c, bmc))
  BY DEF WaitInv
<1> HIDE DEF p
<1>13. CASE ~ p.ok /\ c.name # "close"
                  /\ Refused(c, p, IF c.name = "rakp3" THEN "password" ELSE "refused")
  <2>1. c.name # "rakp3"
    BY <1>2, <1>12, <1>13 DEF Handshake
  <2> DEFINE d == [c EXCEPT !.spent = 0]
  <2>2. GiveUp(d, "refused") /\ last' = [name |-> p.name, of |-> c.name, own |-> p.own]
    BY <1>13, <2>1 DEF Refused
  <2>3. d \in Clients
    BY DEF Clients
  <2>4. Alike(c, d) /\ d.retx = c.retx
    BY DEF Alike, Clients
  <2> HIDE DEF d
  <2>5. WaitInv(d, toBmc', toClient', bmc')
    BY <1>9, <2>4, WaitLess
  <2> QED BY <1>8, <1>10, <2>2, <2>3, <2>5, GiveUpInv
<1>14. CASE p.ok /\ c.name \in {"authcap", "setpriv", "user"} /\ Done(c, p, "ready")
  <2>1. pc' = "ready" /\ cl' = Ended(c) /\ AnswerOwn'
    BY <1>10, <1>14 DEF Done, Ended
  <2>2. CASE c.name = "user"
    BY <1>7, <1>8, <1>9, <2>1, <2>2, SessionDone
  <2>3. CASE c.name \in {"authcap", "setpriv"}
    <3>1. c.name \notin Session
      BY <2>3 DEF Session
    <3>2. c.name = "authcap" => bmc'.ids = 0
      BY <1>12 DEF Handshake
    <3>3. c.up => Agreed(c, bmc')
      BY <1>12, <2>3
    <3> QED BY <1>7, <1>8, <1>11, <1>12, <2>1, <2>3, <3>1, <3>2, <3>3, OpenDone
  <2> QED BY <1>14, <2>2, <2>3
<1>15. CASE p.ok /\ c.name \in {"challenge", "open"} /\ Done([c EXCEPT !.sid = p.val], p, "ready")
  <2> DEFINE d == [c EXCEPT !.sid = p.val]
  <2>1. p.val \in 1 .. MaxIds /\ p.val \in Nat
    <3>1. p.val \in 1 .. bmc.ids /\ bmc.ids <= MaxIds /\ bmc \in Bmcs
      BY <1>2, <1>12, <1>15 DEF Handshake, Net
    <3> QED BY <3>1, Constants DEF Bmcs, MaxIds
  <2>2. d \in Clients
    BY <2>1 DEF Clients
  <2>3. d.name = c.name /\ d.sid = p.val /\ d.up = c.up /\ d.ipmb = c.ipmb
    BY DEF Clients
  <2>4. /\ pc' = "ready" /\ cl' = Ended(d)
        /\ last' = [name |-> p.name, of |-> d.name, own |-> p.own]
    BY <1>15 DEF Done, Ended
  <2> HIDE DEF d
  <2>5. AnswerOwn'
    BY <1>10, <2>3, <2>4
  <2>6. ~ d.up /\ c.name \notin Session /\ d.ipmb = <<>> /\ Versions(d)
    BY <1>12, <1>15, <2>3 DEF Opening, Session, Versions
  <2> QED BY <1>7, <1>8, <1>11, <1>15, <2>1, <2>2, <2>3, <2>4, <2>5, <2>6, OpenDone
<1>16. CASE p.ok /\ c.name = "activate"
            /\ Done([c EXCEPT !.sid = p.val, !.up = TRUE, !.highest = p.sseq], p, "ready")
  <2> DEFINE d == [c EXCEPT !.sid = p.val, !.up = TRUE, !.highest = p.sseq]
  <2>1. p.val \in Nat /\ p.sseq \in 0 .. SequenceMax
    BY <1>2 DEF Packets
  <2>2. d \in Clients
    BY <2>1 DEF Clients
  <2>3. d.name = c.name /\ d.sid = p.val /\ d.ipmb = c.ipmb
    BY DEF Clients
  <2>4. /\ pc' = "ready" /\ cl' = Ended(d)
        /\ last' = [name |-> p.name, of |-> d.name, own |-> p.own]
    BY <1>16 DEF Done, Ended
  <2> HIDE DEF d
  <2>5. AnswerOwn'
    BY <1>10, <2>3, <2>4
  <2>6. c.name \notin Session /\ d.ipmb = <<>> /\ Versions(d) /\ version = 15
    BY <1>12, <1>16, <2>3 DEF Session, Versions
  <2>7. p.val \in bmc.active
    BY <1>2, <1>12, <1>16 DEF Handshake
  <2>8. Agreed(d, bmc')
    BY <2>3, <2>6, <2>7 DEF Agreed
  <2> QED BY <1>7, <1>8, <1>11, <1>16, <2>2, <2>3, <2>4, <2>5, <2>6, <2>8, OpenDone
<1>17. CASE p.ok /\ c.name = "rakp1"
            /\ IF Rakp2Fits(c, p) THEN Done([c EXCEPT !.key = p.val], p, "ready")
               ELSE Refused(c, p, "password")
  <2>0. Rakp2Fits(c, p)
    BY <1>2, <1>12, <1>17 DEF Handshake, Rakp2Fits
  <2> DEFINE d == [c EXCEPT !.key = p.val]
  <2>1. p.val \in Nat
    BY <1>2 DEF Packets
  <2>2. d \in Clients
    BY <2>1 DEF Clients
  <2>3. d.name = c.name /\ d.sid = c.sid /\ d.key = p.val /\ d.up = c.up /\ d.ipmb = c.ipmb
    BY DEF Clients
  <2>4. /\ pc' = "ready" /\ cl' = Ended(d)
        /\ last' = [name |-> p.name, of |-> d.name, own |-> p.own]
    BY <1>17, <2>0 DEF Done, Ended
  <2> HIDE DEF d
  <2>5. AnswerOwn'
    BY <1>10, <2>3, <2>4
  <2>6. c.name \notin Session /\ d.ipmb = <<>> /\ Versions(d) /\ ~ d.up
    BY <1>12, <1>17, <2>3 DEF Session, Versions, Opening
  <2>7. bmc'.key[d.sid] = d.key /\ d.sid \in 1 .. MaxIds
    BY <1>2, <1>6, <1>12, <1>17, <2>3 DEF Handshake
  <2> QED BY <1>7, <1>8, <1>11, <1>17, <2>2, <2>3, <2>4, <2>5, <2>6, <2>7, OpenDone
<1>18. CASE p.ok /\ c.name = "rakp3"
            /\ IF p.val = c.key THEN Done([c EXCEPT !.up = TRUE], p, "ready")
               ELSE Refused(c, p, "k_g")
  <2>1. p.val = c.key /\ c.sid \in bmc.active /\ bmc.key[c.sid] = c.key
    BY <1>2, <1>12, <1>18 DEF Handshake
  <2> DEFINE d == [c EXCEPT !.up = TRUE]
  <2>2. d \in Clients
    BY DEF Clients
  <2>3. d.name = c.name /\ d.sid = c.sid /\ d.key = c.key /\ d.ipmb = c.ipmb
    BY DEF Clients
  <2>4. /\ pc' = "ready" /\ cl' = Ended(d)
        /\ last' = [name |-> p.name, of |-> d.name, own |-> p.own]
    BY <1>18, <2>1 DEF Done, Ended
  <2> HIDE DEF d
  <2>5. AnswerOwn'
    BY <1>10, <2>3, <2>4
  <2>6. c.name \notin Session /\ d.ipmb = <<>> /\ Versions(d)
    BY <1>12, <1>18, <2>3 DEF Session, Versions
  <2>7. Agreed(d, bmc')
    BY <2>1, <2>3 DEF Agreed
  <2> QED BY <1>7, <1>8, <1>11, <1>18, <2>2, <2>3, <2>4, <2>5, <2>6, <2>7, OpenDone
<1>19. CASE p.ok /\ c.name = "sendmsg" /\ Done(c, p, "bridge")
  <2>1. pc' = "bridge" /\ cl' = Ended(c) /\ AnswerOwn'
    BY <1>10, <1>19 DEF Done, Ended
  <2> QED BY <1>7, <1>8, <1>9, <1>19, <2>1, SessionDone
<1>20. CASE c.name = "close" /\ Done(c, p, "closed")
  <2>1. pc' = "closed" /\ cl' = Ended(c) /\ AnswerOwn'
    BY <1>10, <1>20 DEF Done, Ended
  <2> QED BY <1>7, <1>8, <1>9, <1>20, <2>1, SessionDone
<1> QED BY <1>13, <1>14, <1>15, <1>16, <1>17, <1>18, <1>19, <1>20 DEF Use, p

\* The window moved.
LEMMA MovedType ==
  ASSUME NEW d \in Clients, NEW v, v.highest \in 0 .. SequenceMax,
         v.list \in SUBSET (0 .. ListBits - 1),
         NEW c, c = [d EXCEPT !.highest = v.highest, !.list = v.list]
  PROVE  /\ c \in Clients /\ Alike(d, c) /\ c.retx = d.retx /\ c.spent = d.spent
         /\ c.err = d.err
<1>1. c \in Clients
  BY DEF Clients
<1>2. Alike(d, c) /\ c.retx = d.retx /\ c.spent = d.spent /\ c.err = d.err
  BY DEF Clients, Alike
<1> QED BY <1>1, <1>2

LEMMA ReceiveInv ==
  ASSUME IInv, Receive
  PROVE  IInv'
<1>1. /\ cl \in Clients /\ WaitInv(cl, toBmc, toClient, bmc) /\ version \in {15, 20}
      /\ Net(toBmc, toClient, bmc) /\ AnswerOwn /\ NoFalsePassword
      /\ cl.retx <= cl.spent /\ cl.spent < SessionTimeout
  BY DEF IInv, Shape, Receive
<1>2. /\ version' = version /\ toBmc' = toBmc /\ bmc' = bmc /\ toClient' = Tail(toClient)
      /\ toClient # <<>> /\ pc = "wait"
  BY DEF Receive
<1> DEFINE p == Head(toClient)
<1>3. PICK u \in W15!UndefinedBits :
        LET v == Verify(p, Number(cl), u)
            c == [cl EXCEPT !.highest = v.highest, !.list = v.list]
        IN  IF v.good THEN Use(c, p) ELSE Ignore(c, Wait(c.retx))
  BY DEF Receive
<1> DEFINE v == Verify(p, Number(cl), u)
           c == [cl EXCEPT !.highest = v.highest, !.list = v.list]
<1>4. IF v.good THEN Use(c, p) ELSE Ignore(c, Wait(c.retx))
  BY <1>3
<1>5. p \in Packets /\ In(Tail(toClient)) \subseteq In(toClient)
  BY <1>1, <1>2, InTail DEF Net
<1>6. v.highest \in 0 .. SequenceMax /\ v.list \in SUBSET (0 .. ListBits - 1)
      /\ (v.good => p.num = Number(cl))
  BY <1>1, <1>5, VerifyType
<1> HIDE DEF v
<1>7. /\ c \in Clients /\ Alike(cl, c) /\ c.retx = cl.retx /\ c.spent = cl.spent
      /\ c.err = cl.err
  <2>1. c = [cl EXCEPT !.highest = v.highest, !.list = v.list]
    OBVIOUS
  <2> HIDE DEF c
  <2> QED BY <1>1, <1>6, <2>1, MovedType, ZenonT(60)
<1> HIDE DEF c, p
<1>8. Number(c) = Number(cl)
  BY <1>7 DEF Number, Alike
<1>9. CASE v.good
  <2>1. WaitInv(c, toBmc, toClient, bmc)
    BY <1>1, <1>7, WaitLess
  <2>2. Head(toClient).num = Number(c) /\ Use(c, Head(toClient))
    BY <1>4, <1>6, <1>8, <1>9 DEF p
  <2> QED BY <1>1, <1>2, <1>7, <2>1, <2>2, UseInv
<1>10. CASE ~ v.good
  <2>1. Ignore(c, Wait(c.retx))
    BY <1>4, <1>10
  <2>2. WaitInv(c, toBmc', toClient', bmc')
    BY <1>1, <1>2, <1>5, <1>7, WaitLess
  <2>3. Net(toBmc', toClient', bmc')
    BY <1>1, <1>2, NetTail
  <2>4. AnswerOwn'
    BY <1>1, <2>1 DEF Ignore, AnswerOwn
  <2>5. CASE pc' = pc /\ cl' = c
    <3>1. NoFalsePassword'
      BY <1>1, <1>7, <2>5 DEF NoFalsePassword
    <3>2. cl'.retx <= cl'.spent /\ cl'.spent < SessionTimeout
      BY <1>1, <1>7, <2>5
    <3> QED BY <1>1, <1>2, <1>7, <2>2, <2>3, <2>4, <2>5, <3>1, <3>2, IInvNext
  <2>6. CASE GiveUp(c, "timeout")
    BY <1>1, <1>2, <1>7, <2>2, <2>3, <2>4, <2>6, GiveUpInv
  <2> QED BY <2>1, <2>5, <2>6 DEF Ignore
<1> QED BY <1>9, <1>10

LEMMA BridgeReceiveInv ==
  ASSUME IInv, BridgeReceive
  PROVE  IInv'
<1>1. /\ cl \in Clients /\ BridgeInv(cl, toBmc, toClient, bmc) /\ version \in {15, 20}
      /\ Net(toBmc, toClient, bmc) /\ AnswerOwn /\ NoFalsePassword
  BY DEF IInv, Shape, BridgeReceive
<1>2. /\ version' = version /\ toBmc' = toBmc /\ bmc' = bmc /\ toClient' = Tail(toClient)
      /\ toClient # <<>> /\ pc = "bridge"
  BY DEF BridgeReceive
<1> DEFINE p == Head(toClient)
           num == cl.ipmb[1]
<1>3. PICK u \in W15!UndefinedBits :
        LET v == Verify(p, num, u)
            c == [cl EXCEPT !.highest = v.highest, !.list = v.list]
        IN  IF v.good
            THEN /\ pc' = "ready"
                 /\ cl' = [c EXCEPT !.spent = 0, !.ipmb = None,
                             !.err = IF p.ok THEN "none" ELSE "refused"]
                 /\ last' = [name |-> p.name, of |-> "bridged", own |-> p.own]
            ELSE /\ UNCHANGED last
                 /\ \/ pc' = pc /\ cl' = c
                    \/ /\ c.spent + Wait(c.bretx) >= SessionTimeout
                       /\ pc' = "ready"
                       /\ cl' = [c EXCEPT !.err = "timeout", !.ipmb = None]
  BY DEF BridgeReceive
<1> DEFINE v == Verify(p, num, u)
           c == [cl EXCEPT !.highest = v.highest, !.list = v.list]
<1>4. \/ /\ v.good /\ pc' = "ready"
         /\ cl' = [c EXCEPT !.spent = 0, !.ipmb = None,
                     !.err = IF p.ok THEN "none" ELSE "refused"]
         /\ last' = [name |-> p.name, of |-> "bridged", own |-> p.own]
      \/ last' = last /\ pc' = pc /\ cl' = c
      \/ last' = last /\ pc' = "ready" /\ cl' = [c EXCEPT !.err = "timeout", !.ipmb = None]
  BY <1>3
<1>5. p \in Packets /\ In(Tail(toClient)) \subseteq In(toClient) /\ p \in In(toClient)
  BY <1>1, <1>2, InTail DEF Net
<1>6. v.highest \in 0 .. SequenceMax /\ v.list \in SUBSET (0 .. ListBits - 1)
      /\ (v.good => p.num = num)
  BY <1>1, <1>5, VerifyType
<1> HIDE DEF v
<1>7. /\ c \in Clients /\ Alike(cl, c) /\ c.retx = cl.retx /\ c.err = cl.err
  <2>1. c = [cl EXCEPT !.highest = v.highest, !.list = v.list]
    OBVIOUS
  <2> HIDE DEF c
  <2> QED BY <1>1, <1>6, <2>1, MovedType, ZenonT(60)
<1> HIDE DEF c, p
<1>8. BridgeInv(c, toBmc', toClient', bmc')
  BY <1>1, <1>2, <1>5, <1>7, BridgeLess
<1>9. Net(toBmc', toClient', bmc')
  BY <1>1, <1>2, NetTail
<1>10. p.name = "bridged" /\ OldNum(p, cl)
  BY <1>1, <1>5 DEF BridgeInv, All
<1>11. ASSUME NEW d \in Clients, d.name = c.name, d.rq = c.rq, d.sid = c.sid, d.key = c.key,
              d.up = c.up, d.retx = c.retx, d.ipmb = <<>>
       PROVE  ReadyInv(d, toBmc', toClient', bmc')
  <2>1. d.name = "sendmsg" /\ d.retx = 0
    BY <1>8, <1>11 DEF BridgeInv
  <2>2. d.name \in Session /\ d.name \notin Opening /\ Versions(d)
    BY <2>1 DEF Session, Opening, Versions
  <2>3. d.up => Agreed(d, bmc')
    BY <1>8, <1>11 DEF BridgeInv, Agreed
  <2>4. \A q \in All(toBmc', toClient', bmc') : Named(q, d) /\ RestNum(q, d)
    BY <1>8, <1>11 DEF BridgeInv, Named, RestNum
  <2> QED BY <1>11, <2>1, <2>2, <2>3, <2>4 DEF ReadyInv
<1>12. <<>> \in Seq(Numbers)
  OBVIOUS
<1>13. CASE /\ v.good /\ pc' = "ready"
            /\ cl' = [c EXCEPT !.spent = 0, !.ipmb = None,
                        !.err = IF p.ok THEN "none" ELSE "refused"]
            /\ last' = [name |-> p.name, of |-> "bridged", own |-> p.own]
  <2> DEFINE e == IF p.ok THEN "none" ELSE "refused"
  <2>1. cl' = [c EXCEPT !.spent = 0, !.ipmb = <<>>, !.err = e] /\ e \in {"none", "refused"}
    BY <1>13 DEF None
  <2> HIDE DEF e
  <2>2. cl' \in Clients
    BY <1>7, <1>12, <2>1 DEF Clients
  <2>3. /\ cl'.name = c.name /\ cl'.rq = c.rq /\ cl'.sid = c.sid /\ cl'.key = c.key
        /\ cl'.up = c.up /\ cl'.retx = c.retx /\ cl'.ipmb = <<>> /\ cl'.err = e
    BY <1>7, <2>1 DEF Clients
  <2>4. ReadyInv(cl', toBmc', toClient', bmc')
    BY <1>11, <2>2, <2>3
  <2>5. NoFalsePassword'
    BY <2>1, <2>3 DEF NoFalsePassword
  <2>6. p.own
    <3>1. Len(cl.ipmb) = 1
      BY <1>1 DEF BridgeInv
    <3> QED BY <1>1, <1>5, <1>6, <1>10, <1>13, <3>1, BridgedOwn
  <2>7. AnswerOwn'
    <3>1. last'.own = p.own /\ last'.name = p.name /\ last'.of = "bridged"
      BY <1>13
    <3> QED BY <1>10, <2>6, <3>1 DEF AnswerOwn
  <2> QED BY <1>1, <1>2, <1>9, <1>13, <2>2, <2>4, <2>5, <2>7, IInvNext
<1>14. CASE last' = last /\ pc' = pc /\ cl' = c
  <2>1. AnswerOwn' /\ NoFalsePassword'
    BY <1>1, <1>7, <1>14 DEF AnswerOwn, NoFalsePassword
  <2> QED BY <1>1, <1>2, <1>7, <1>8, <1>9, <1>14, <2>1, IInvNext
<1>15. CASE last' = last /\ pc' = "ready" /\ cl' = [c EXCEPT !.err = "timeout", !.ipmb = None]
  <2>1. cl' = [c EXCEPT !.err = "timeout", !.ipmb = <<>>]
    BY <1>15 DEF None
  <2>2. cl' \in Clients
    BY <1>7, <1>12, <2>1 DEF Clients
  <2>3. /\ cl'.name = c.name /\ cl'.rq = c.rq /\ cl'.sid = c.sid /\ cl'.key = c.key
        /\ cl'.up = c.up /\ cl'.retx = c.retx /\ cl'.ipmb = <<>> /\ cl'.err = "timeout"
    BY <1>7, <2>1 DEF Clients
  <2>4. ReadyInv(cl', toBmc', toClient', bmc')
    BY <1>11, <2>2, <2>3
  <2>5. NoFalsePassword' /\ AnswerOwn'
    BY <1>1, <1>15, <2>3 DEF NoFalsePassword, AnswerOwn
  <2> QED BY <1>1, <1>2, <1>9, <1>15, <2>2, <2>4, <2>5, IInvNext
<1> QED BY <1>4, <1>13, <1>14, <1>15

-----------------------------------------------------------------------------
(* The BMC. *)

\* What the BMC makes of the request p: the answer a, if it gets through, and a
\* message p for another controller, if one is taken up.
Answers(p, a, b, t, m, b2, t2, m2) ==
  /\ b2 = Tail(b) /\ t2 \in {t} \cup {Append(t, a)} /\ Len(t2) <= Capacity
  /\ m2.pending \in {m.pending} \cup (IF p.name = "sendmsg" THEN {Append(m.pending, p)} ELSE {})
  /\ a \in Packets /\ a.name = p.name /\ a.num = p.num /\ a.ipmb = <<>>
  /\ a.own = p.own /\ a.age = p.age

LEMMA NetAnswers ==
  ASSUME NEW b, NEW t, NEW m, NEW b2, NEW t2, NEW m2, Net(b, t, m), b # <<>>,
         NEW a, Answers(Head(b), a, b, t, m, b2, t2, m2), m2 \in Bmcs, m2.ids <= MaxIds
  PROVE  /\ Net(b2, t2, m2) /\ Head(b) \in In(b) /\ Len(b2) = Len(b) - 1
         /\ In(b2) \subseteq In(b) /\ In(t2) \subseteq In(t) \cup {a}
         /\ In(m2.pending) \subseteq In(m.pending) \cup {Head(b)}
         /\ \A x \in In(t) : x.age > Head(b).age
<1> DEFINE p == Head(b)
<1>1. /\ b \in Seq(Packets) /\ t \in Seq(Packets) /\ m.pending \in Seq(Packets)
      /\ a \in Packets /\ Len(b) <= Capacity /\ Len(t) <= Capacity
      /\ b2 = Tail(b) /\ a.ipmb = <<>> /\ a.name = p.name /\ a.age = p.age /\ Len(t2) <= Capacity
  BY DEF Net, Bmcs, Answers
<1>2. /\ b2 \in Seq(Packets) /\ Len(b2) = Len(b) - 1 /\ p \in Packets /\ p = b[1]
      /\ p \in In(b) /\ In(b2) \subseteq In(b) /\ Len(b) > 0
      /\ \A i \in 1 .. Len(b2) : b2[i] = b[i + 1] /\ i + 1 \in 1 .. Len(b)
  BY <1>1, InTail
<1>3. t2 \in Seq(Packets) /\ In(t2) \subseteq In(t) \cup {a}
  <2>1. t2 = t \/ t2 = Append(t, a)
    BY DEF Answers
  <2> QED BY <1>1, <2>1, InAppend
<1>4. m2.pending = m.pending \/ (m2.pending = Append(m.pending, p) /\ p.name = "sendmsg")
  BY DEF Answers
<1>5. m2.pending \in Seq(Packets) /\ In(m2.pending) \subseteq In(m.pending) \cup {p}
  BY <1>1, <1>2, <1>4, InAppend, ZenonT(60)
<1>6. p.name # "bridged" /\ Formed(p)
  BY <1>2 DEF Net
<1>7. /\ \A x \in In(b2) : x.name # "bridged" /\ Formed(x)
      /\ \A x \in In(t2) : x.ipmb = <<>>
      /\ \A x \in In(m2.pending) : x.name = "sendmsg" /\ Formed(x)
  <2>1. \A x \in In(b2) : x.name # "bridged" /\ Formed(x)
    BY <1>2 DEF Net
  <2>2. \A x \in In(t2) : x.ipmb = <<>>
    BY <1>1, <1>3 DEF Net
  <2>3. \A x \in In(m2.pending) : x.name = "sendmsg" /\ Formed(x)
    <3>1. CASE m2.pending = m.pending
      BY <3>1 DEF Net
    <3>2. CASE m2.pending = Append(m.pending, p) /\ p.name = "sendmsg"
      BY <1>5, <1>6, <3>2 DEF Net
    <3> QED BY <1>4, <3>1, <3>2
  <2> QED BY <2>1, <2>2, <2>3
<1>8. /\ \A i, j \in 1 .. Len(b) : i < j => b[j].age < b[i].age
      /\ \A i, j \in 1 .. Len(t) : i < j /\ t[j].name # "bridged" => t[j].age < t[i].age
      /\ \A i \in 1 .. Len(t), j \in 1 .. Len(b) : b[j].age < t[i].age
      /\ \A i \in 1 .. Len(m.pending), j \in 1 .. Len(b) : b[j].age < m.pending[i].age
  BY DEF Net, Order
<1>9. Len(b) \in Nat /\ Len(t) \in Nat /\ Len(m.pending) \in Nat /\ 1 \in 1 .. Len(b)
  BY <1>1, <1>2
<1>10. \A j \in 1 .. Len(b2) : b2[j].age < p.age
  BY <1>2, <1>8, <1>9
<1>11. \A i \in 1 .. Len(t) : p.age < t[i].age
  BY <1>2, <1>8, <1>9
<1>12. \A i, j \in 1 .. Len(b2) : i < j => b2[j].age < b2[i].age
  <2> SUFFICES ASSUME NEW i \in 1 .. Len(b2), NEW j \in 1 .. Len(b2), i < j
               PROVE  b2[j].age < b2[i].age
    OBVIOUS
  <2>1. /\ b2[i] = b[i + 1] /\ b2[j] = b[j + 1] /\ i + 1 < j + 1
        /\ i + 1 \in 1 .. Len(b) /\ j + 1 \in 1 .. Len(b)
    BY <1>2
  <2> QED BY <1>8, <2>1
<1>13. \A i \in 1 .. Len(t2) : (i \in 1 .. Len(t) /\ t2[i] = t[i]) \/ (i = Len(t) + 1 /\ t2[i] = a)
  <2>1. CASE t2 = t
    BY <2>1
  <2>2. CASE t2 = Append(t, a)
    BY <1>1, <2>2
  <2> QED BY <2>1, <2>2 DEF Answers
<1>14. \A i \in 1 .. Len(m2.pending) :
         \/ i \in 1 .. Len(m.pending) /\ m2.pending[i] = m.pending[i]
         \/ m2.pending[i] = p
  <2>1. CASE m2.pending = m.pending
    BY <2>1
  <2>2. CASE m2.pending = Append(m.pending, p)
    BY <1>1, <1>2, <2>2
  <2> QED BY <1>4, <2>1, <2>2
<1> HIDE DEF p
<1>15. \A i, j \in 1 .. Len(t2) : i < j /\ t2[j].name # "bridged" => t2[j].age < t2[i].age
  <2> SUFFICES ASSUME NEW i \in 1 .. Len(t2), NEW j \in 1 .. Len(t2), i < j,
                      t2[j].name # "bridged"
               PROVE  t2[j].age < t2[i].age
    OBVIOUS
  <2>1. CASE j = Len(t) + 1 /\ t2[j] = a
    <3>1. i \in 1 .. Len(t) /\ t2[i] = t[i]
      BY <1>9, <1>13, <2>1
    <3> QED BY <1>1, <1>11, <2>1, <3>1
  <2>2. CASE j \in 1 .. Len(t) /\ t2[j] = t[j]
    <3>1. i \in 1 .. Len(t) /\ t2[i] = t[i]
      BY <1>9, <1>13, <2>2
    <3> QED BY <1>8, <2>2, <3>1
  <2> QED BY <1>13, <2>1, <2>2
<1>16. \A i \in 1 .. Len(t2), j \in 1 .. Len(b2) : b2[j].age < t2[i].age
  <2> SUFFICES ASSUME NEW i \in 1 .. Len(t2), NEW j \in 1 .. Len(b2)
               PROVE  b2[j].age < t2[i].age
    OBVIOUS
  <2>1. CASE t2[i] = a
    BY <1>1, <1>10, <2>1
  <2>2. CASE i \in 1 .. Len(t) /\ t2[i] = t[i]
    BY <1>2, <1>8, <2>2
  <2> QED BY <1>13, <2>1, <2>2
<1>17. \A i \in 1 .. Len(m2.pending), j \in 1 .. Len(b2) : b2[j].age < m2.pending[i].age
  <2> SUFFICES ASSUME NEW i \in 1 .. Len(m2.pending), NEW j \in 1 .. Len(b2)
               PROVE  b2[j].age < m2.pending[i].age
    OBVIOUS
  <2>1. CASE m2.pending[i] = p
    BY <1>10, <2>1
  <2>2. CASE i \in 1 .. Len(m.pending) /\ m2.pending[i] = m.pending[i]
    BY <1>2, <1>8, <2>2
  <2> QED BY <1>14, <2>1, <2>2
<1>18. Order(b2, t2, m2.pending)
  BY <1>12, <1>15, <1>16, <1>17 DEF Order
<1>19. Len(b2) <= Capacity
  BY <1>1, <1>2, <1>9, Constants
<1>20. Net(b2, t2, m2)
  BY <1>1, <1>2, <1>3, <1>7, <1>18, <1>19 DEF Net
<1>21. \A x \in In(t) : x.age > p.age
  <2> SUFFICES ASSUME NEW x \in In(t) PROVE x.age > p.age
    OBVIOUS
  <2>1. PICK i \in 1 .. Len(t) : x = t[i]
    BY DEF In
  <2>2. x \in Packets
    BY <1>1, InPacket
  <2> QED BY <1>2, <1>11, <2>1, <2>2, AgeType
<1> QED BY <1>2, <1>3, <1>5, <1>20, <1>21 DEF p

\* The answer a has the number of its request p, and carries no message.
LEMMA AnswerNum ==
  ASSUME NEW p, p.name # "bridged", NEW a, a.name = p.name, a.num = p.num, a.ipmb = <<>>,
         a.own = p.own, a.age = p.age, NEW c
  PROVE  /\ Named(p, c) => Named(a, c)
         /\ WaitNum(p, c) => WaitNum(a, c)
         /\ RestNum(p, c) => RestNum(a, c)
         /\ OldNum(a, c)
<1>1. ~ Carries(a)
  BY DEF Carries
<1> QED BY <1>1 DEF Named, WaitNum, RestNum, OldNum

\* The numbers the BMC gives.
LEMMA OutType ==
  ASSUME NEW m \in Bmcs, version \in {15, 20}
  PROVE  /\ Numbered(m) \in Bmcs /\ Numbered(m).ids = m.ids /\ Numbered(m).key = m.key
         /\ Numbered(m).active = m.active /\ Numbered(m).pending = m.pending
         /\ Numbered(m).rnd = m.rnd
<1> DEFINE o == OutNext(m.out)
<1>1. m.out \in Nat
  BY Constants DEF Bmcs
<1>2. o \in 0 .. SequenceMax
  <2> DEFINE i == m.out + 1
             j == m.out
             S == SequenceMax + 1
  <2>1. i \in Int /\ j \in Int /\ S \in Nat \ {0} /\ SequenceMax \in Nat \ {0}
    BY <1>1, Constants
  <2>2. o = IF version = 15 THEN i % S ELSE (j % SequenceMax) + 1
    BY DEF OutNext
  <2> HIDE DEF i, j, S, o
  <2>3. i % S \in 0 .. S - 1 /\ j % SequenceMax \in 0 .. SequenceMax - 1
    BY <2>1, ModDef
  <2>4. i % S \in 0 .. SequenceMax
    BY <2>1, <2>3 DEF S
  <2>5. (j % SequenceMax) + 1 \in 0 .. SequenceMax
    BY <2>1, <2>3
  <2> QED BY <2>2, <2>4, <2>5
<1>3. Numbered(m) = [m EXCEPT !.out = o]
  BY DEF Numbered
<1> HIDE DEF o
<1>4. [m EXCEPT !.out = o] \in Bmcs
  BY <1>2 DEF Bmcs
<1>5. /\ Numbered(m).ids = m.ids /\ Numbered(m).key = m.key /\ Numbered(m).rnd = m.rnd
      /\ Numbered(m).active = m.active /\ Numbered(m).pending = m.pending
  BY <1>3 DEF Bmcs
<1> QED BY <1>3, <1>4, <1>5

\* The answer p.name gets, whatever it says.
LEMMA AnswerType ==
  ASSUME NEW p \in Packets, NEW m \in Bmcs, NEW ok \in BOOLEAN, NEW val \in Nat, NEW sid \in Nat,
         Answer(p, m, ok, val, sid), Len(toClient) <= Capacity, toClient \in Seq(Packets)
  PROVE  \E a \in Packets :
           /\ toClient' \in {toClient} \cup {Append(toClient, a)} /\ Len(toClient') <= Capacity
           /\ a.name = p.name /\ a.num = p.num /\ a.ipmb = <<>> /\ a.own = p.own
           /\ a.age = p.age /\ a.ok = ok /\ a.val = val /\ a.sid = sid
<1> DEFINE a == Packet(p.name, p.num, sid, None, val, ok, m.out, p.own, p.age)
<1>1. toClient' = toClient \/ (Len(toClient) < Capacity /\ toClient' = Append(toClient, a))
  BY DEF Answer, Sent
<1>2. <<>> \in Seq(Numbers) /\ m.out \in 0 .. SequenceMax
  BY DEF Bmcs
<1>3. a \in Packets
  BY <1>2 DEF Packet, Packets, None
<1>4. /\ a.name = p.name /\ a.num = p.num /\ a.ipmb = <<>> /\ a.own = p.own
      /\ a.age = p.age /\ a.ok = ok /\ a.val = val /\ a.sid = sid
  BY DEF Packet, None
<1> HIDE DEF a
<1>5. Len(toClient') <= Capacity
  <2>1. CASE toClient' = toClient
    BY <2>1
  <2>2. CASE Len(toClient) < Capacity /\ toClient' = Append(toClient, a)
    <3>1. Len(toClient') = Len(toClient) + 1 /\ Len(toClient) \in Nat
      BY <1>3, <2>2
    <3> QED BY <2>2, <3>1, Constants
  <2> QED BY <1>1, <2>1, <2>2
<1> QED BY <1>1, <1>3, <1>4, <1>5

\* An answer of the BMC's, on the way, between commands and during one.
LEMMA AnswersInv ==
  ASSUME IInv, Interested, toBmc # <<>>, UNCHANGED <<version, pc, cl, last>>,
         NEW a, Answers(Head(toBmc), a, toBmc, toClient, bmc, toBmc', toClient', bmc'),
         bmc' \in Bmcs, bmc'.ids <= MaxIds,
         pc = "wait" => Handshake(cl, toBmc', toClient', bmc'),
         cl.up /\ cl.name # "close" => bmc.active \subseteq bmc'.active /\ bmc'.key = bmc.key
  PROVE  IInv'
<1> DEFINE p == Head(toBmc)
<1>1. /\ cl \in Clients /\ version \in {15, 20} /\ Net(toBmc, toClient, bmc)
      /\ AnswerOwn /\ NoFalsePassword /\ version' = version /\ pc' = pc /\ cl' = cl /\ last' = last
      /\ pc \in {"ready", "wait", "bridge"}
  BY DEF IInv, Shape, Interested
<1>2. /\ Net(toBmc', toClient', bmc') /\ p \in In(toBmc)
      /\ In(toBmc') \subseteq In(toBmc) /\ In(toClient') \subseteq In(toClient) \cup {a}
      /\ In(bmc'.pending) \subseteq In(bmc.pending) \cup {p}
  BY <1>1, NetAnswers
<1>3. /\ a.name = p.name /\ a.num = p.num /\ a.ipmb = <<>> /\ a.own = p.own /\ a.age = p.age
      /\ p.name # "bridged"
  BY <1>1, <1>2 DEF Answers, Net
<1>4. AnswerOwn' /\ NoFalsePassword'
  BY <1>1 DEF AnswerOwn, NoFalsePassword
<1>5. /\ p \in All(toBmc, toClient, bmc)
      /\ All(toBmc', toClient', bmc') \subseteq All(toBmc, toClient, bmc) \cup {a}
  BY <1>2 DEF All
<1> HIDE DEF p
<1>6. cl.up /\ cl.name # "close" /\ Agreed(cl, bmc) => Agreed(cl, bmc')
  BY DEF Agreed
<1>7. CASE pc = "wait"
  <2>1. WaitInv(cl, toBmc, toClient, bmc) /\ cl.retx <= cl.spent /\ cl.spent < SessionTimeout
    BY <1>7 DEF IInv
  <2>2. \A q \in All(toBmc, toClient, bmc) :
          Named(q, cl) /\ WaitNum(q, cl) /\ (cl.name = "sendmsg" => OldNum(q, cl))
    BY <2>1 DEF WaitInv
  <2>3. Named(a, cl) /\ WaitNum(a, cl) /\ OldNum(a, cl)
    BY <1>3, <1>5, <2>2, AnswerNum
  <2>4. \A q \in All(toBmc', toClient', bmc') :
          Named(q, cl) /\ WaitNum(q, cl) /\ (cl.name = "sendmsg" => OldNum(q, cl))
    BY <1>5, <2>2, <2>3
  <2>5. WaitInv(cl, toBmc', toClient', bmc')
    BY <1>6, <1>7, <2>1, <2>4 DEF WaitInv
  <2> QED BY <1>1, <1>2, <1>4, <1>7, <2>1, <2>5, IInvNext
<1>8. CASE pc = "ready"
  <2>1. ReadyInv(cl, toBmc, toClient, bmc)
    BY <1>8 DEF IInv
  <2>2. cl.name \in Session /\ cl.name # "close"
    BY <2>1 DEF ReadyInv
  <2>3. \A q \in All(toBmc, toClient, bmc) : Named(q, cl) /\ RestNum(q, cl)
    BY <2>1 DEF ReadyInv
  <2>4. Named(a, cl) /\ RestNum(a, cl)
    BY <1>3, <1>5, <2>3, AnswerNum
  <2>5. \A q \in All(toBmc', toClient', bmc') : Named(q, cl) /\ RestNum(q, cl)
    BY <1>5, <2>3, <2>4
  <2>6. cl.name \notin Opening
    BY <2>2 DEF Session, Opening
  <2>7. cl.name \notin {"none", "authcap", "open", "rakp1"}
    BY <2>6 DEF Opening
  <2>8. ReadyInv(cl, toBmc', toClient', bmc')
    BY <1>6, <2>1, <2>2, <2>5, <2>6, <2>7 DEF ReadyInv
  <2> QED BY <1>1, <1>2, <1>4, <1>8, <2>8, IInvNext
<1>9. CASE pc = "bridge"
  BY <1>9 DEF IInv, BridgeInv
<1> QED BY <1>1, <1>7, <1>8, <1>9

LEMMA Answered ==
  ASSUME Net(toBmc, toClient, bmc), toBmc # <<>>, toBmc' = Tail(toBmc),
         NEW m \in Bmcs, NEW ok \in BOOLEAN, NEW val \in Nat, NEW sid \in Nat,
         Answer(Head(toBmc), m, ok, val, sid),
         bmc'.pending \in {bmc.pending} \cup
           (IF Head(toBmc).name = "sendmsg" THEN {Append(bmc.pending, Head(toBmc))} ELSE {})
  PROVE  \E a \in Packets :
           /\ Answers(Head(toBmc), a, toBmc, toClient, bmc, toBmc', toClient', bmc')
           /\ a.ok = ok /\ a.val = val
<1>1. toBmc \in Seq(Packets) /\ toClient \in Seq(Packets) /\ Len(toClient) <= Capacity
  BY DEF Net
<1>2. Head(toBmc) \in Packets
  BY <1>1, InTail
<1> DEFINE p == Head(toBmc)
<1> HIDE DEF p
<1>3. PICK a \in Packets :
         /\ toClient' \in {toClient} \cup {Append(toClient, a)} /\ Len(toClient') <= Capacity
         /\ a.name = p.name /\ a.num = p.num /\ a.ipmb = <<>> /\ a.own = p.own
         /\ a.age = p.age /\ a.ok = ok /\ a.val = val
  <2>1. Answer(p, m, ok, val, sid) /\ p \in Packets
    BY <1>2 DEF p
  <2> QED BY <1>1, <2>1, AnswerType
<1>4. Answers(p, a, toBmc, toClient, bmc, toBmc', toClient', bmc')
  BY <1>3 DEF Answers, p
<1> QED BY <1>3, <1>4 DEF p

\* ... and one for the session of the request.
LEMMA AnsweredIn ==
  ASSUME Net(toBmc, toClient, bmc), toBmc # <<>>, toBmc' = Tail(toBmc),
         NEW m \in Bmcs, NEW ok \in BOOLEAN, NEW val \in Nat,
         Answer(Head(toBmc), m, ok, val, Head(toBmc).sid),
         bmc'.pending \in {bmc.pending} \cup
           (IF Head(toBmc).name = "sendmsg" THEN {Append(bmc.pending, Head(toBmc))} ELSE {})
  PROVE  \E a \in Packets :
           /\ Answers(Head(toBmc), a, toBmc, toClient, bmc, toBmc', toClient', bmc')
           /\ a.ok = ok /\ a.val = val /\ a.sid = Head(toBmc).sid
<1>1. toBmc \in Seq(Packets) /\ toClient \in Seq(Packets) /\ Len(toClient) <= Capacity
  BY DEF Net
<1>2. Head(toBmc) \in Packets
  BY <1>1, InTail
<1> DEFINE p == Head(toBmc)
<1> HIDE DEF p
<1>3. PICK a \in Packets :
         /\ toClient' \in {toClient} \cup {Append(toClient, a)} /\ Len(toClient') <= Capacity
         /\ a.name = p.name /\ a.num = p.num /\ a.ipmb = <<>> /\ a.own = p.own
         /\ a.age = p.age /\ a.ok = ok /\ a.val = val /\ a.sid = p.sid
  <2>1. PICK n \in Nat : n = p.sid
    BY <1>2 DEF p, Packets
  <2>2. Answer(p, m, ok, val, n) /\ p \in Packets
    BY <1>2, <2>1 DEF p
  <2>3. PICK a \in Packets :
          /\ toClient' \in {toClient} \cup {Append(toClient, a)} /\ Len(toClient') <= Capacity
          /\ a.name = p.name /\ a.num = p.num /\ a.ipmb = <<>> /\ a.own = p.own
          /\ a.age = p.age /\ a.ok = ok /\ a.val = val /\ a.sid = n
    BY <1>1, <2>2, AnswerType
  <2> QED BY <2>1, <2>3
<1>4. Answers(p, a, toBmc, toClient, bmc, toBmc', toClient', bmc')
  BY <1>3 DEF Answers, p
<1> QED BY <1>3, <1>4 DEF p

LEMMA BmcReceiveInv ==
  ASSUME IInv, BmcReceive
  PROVE  IInv'
<1> DEFINE p == Head(toBmc)
<1>1. /\ cl \in Clients /\ version \in {15, 20} /\ Net(toBmc, toClient, bmc)
      /\ pc \in {"ready", "wait", "bridge"} /\ bmc \in Bmcs /\ bmc.ids <= MaxIds
  BY DEF IInv, Shape, Interested, BmcReceive, Net
<1>2. /\ Interested /\ toBmc # <<>> /\ toBmc' = Tail(toBmc) /\ UNCHANGED <<version, pc, cl, last>>
  BY DEF BmcReceive
<1>3. p \in Packets /\ p \in In(toBmc) /\ Len(toBmc) \in Nat /\ Len(toBmc') = Len(toBmc) - 1
      /\ In(toBmc') \subseteq In(toBmc)
  BY <1>1, <1>2, InTail DEF Net
<1>4. p.sid \in Nat /\ p.val \in Nat /\ p.name # "bridged"
  BY <1>1, <1>3 DEF Packets, Net
<1>5. Named(p, cl) /\ (pc = "wait" \/ cl.name \in {"user", "sendmsg"})
  <2>1. p \in All(toBmc, toClient, bmc)
    BY <1>3 DEF All
  <2>2. CASE pc = "wait"
    BY <2>1, <2>2 DEF IInv, WaitInv
  <2>3. CASE pc = "ready"
    BY <1>2, <2>1, <2>3 DEF IInv, ReadyInv, Session
  <2>4. CASE pc = "bridge"
    BY <1>2, <2>4 DEF IInv, BridgeInv
  <2> QED BY <1>1, <2>2, <2>3, <2>4
<1>6. p.name \notin {"user", "sendmsg"} => cl.name = p.name /\ pc = "wait"
  BY <1>4, <1>5 DEF Named
<1>7. p.name \in {"user", "sendmsg"} => cl.name \in Session
  BY <1>5 DEF Named, Session
<1>8. pc = "wait" => Handshake(cl, toBmc, toClient, bmc) /\ (cl.name \in Opening => ~ cl.up)
                       /\ cl.retx <= SessionTimeout
  BY DEF IInv, WaitInv
<1>9. ASSUME NEW a \in Packets,
             Answers(p, a, toBmc, toClient, bmc, toBmc', toClient', bmc'),
             bmc' \in Bmcs, bmc'.ids <= MaxIds
      PROVE  /\ In(toClient') \subseteq In(toClient) \cup {a}
             /\ \A x \in In(toClient) : x.age > p.age
             /\ a.age = p.age
  <2>1. a.age = p.age
    BY <1>9 DEF Answers
  <2> QED BY <1>1, <1>2, <1>9, <2>1, NetAnswers
<1>10. CASE p.name = "authcap" /\ bmc' = bmc /\ Answer(p, bmc, TRUE, 0, 0)
  <2>1. PICK a \in Packets : Answers(p, a, toBmc, toClient, bmc, toBmc', toClient', bmc')
    BY <1>1, <1>2, <1>10, Answered
  <2>2. Handshake(cl, toBmc', toClient', bmc')
    BY <1>6, <1>8, <1>10 DEF Handshake
  <2> QED BY <1>1, <1>2, <1>10, <2>1, <2>2, AnswersInv
<1>11. CASE /\ p.name \in {"challenge", "open"}
            /\ \/ /\ bmc' = [bmc EXCEPT !.ids = @ + 1]
                  /\ Answer(p, bmc, TRUE, bmc'.ids, 0)
               \/ bmc' = bmc /\ Answer(p, bmc, FALSE, 0, 0)
  <2>1. /\ cl.name = p.name /\ pc = "wait" /\ bmc.ids + Len(toBmc) <= cl.retx + 1
        /\ \A x \in In(toClient) : x.ok => x.val \in 1 .. bmc.ids
        /\ ~ cl.up /\ cl.retx <= SessionTimeout
    BY <1>6, <1>8, <1>11 DEF Handshake, Opening
  <2>2. bmc.ids \in Nat /\ cl.retx \in Nat /\ Len(toBmc) > 0
    <3>1. bmc.ids \in Nat
      BY <1>1 DEF Bmcs
    <3>2. cl.retx \in Nat
      BY <1>1 DEF Clients
    <3>3. Len(toBmc) > 0
      BY <1>1, <1>2, InTail DEF Net
    <3> QED BY <3>1, <3>2, <3>3
  <2>3. CASE bmc' = [bmc EXCEPT !.ids = @ + 1] /\ Answer(p, bmc, TRUE, bmc'.ids, 0)
    <3> DEFINE n == bmc.ids + 1
    <3>1. n \in Nat /\ n <= MaxIds /\ n + Len(toBmc') <= cl.retx + 1
      BY <1>3, <2>1, <2>2, Constants DEF MaxIds
    <3>2. bmc' = [bmc EXCEPT !.ids = n]
      BY <2>3
    <3> HIDE DEF n
    <3>3. bmc' \in Bmcs /\ bmc'.ids = n /\ bmc'.pending = bmc.pending
      BY <1>1, <3>1, <3>2 DEF Bmcs
    <3>4. PICK a \in Packets :
            /\ Answers(p, a, toBmc, toClient, bmc, toBmc', toClient', bmc')
            /\ a.ok = TRUE /\ a.val = n
      BY <1>1, <1>2, <2>3, <3>1, <3>3, Answered
    <3>5. \A x \in In(toClient') : x.ok => x.val \in 1 .. bmc'.ids
      <4>1. \A x \in In(toClient) : x.ok => x.val \in 1 .. n
        BY <2>1, <2>2 DEF n
      <4>2. a.val \in 1 .. n
        BY <2>2, <3>4 DEF n
      <4> QED BY <1>9, <3>1, <3>3, <3>4, <4>1, <4>2
    <3>6. Handshake(cl, toBmc', toClient', bmc')
      BY <1>11, <2>1, <3>1, <3>3, <3>5 DEF Handshake
    <3> QED BY <1>2, <2>1, <3>1, <3>3, <3>4, <3>6, AnswersInv
  <2>4. CASE bmc' = bmc /\ Answer(p, bmc, FALSE, 0, 0)
    <3>1. PICK a \in Packets :
            /\ Answers(p, a, toBmc, toClient, bmc, toBmc', toClient', bmc')
            /\ a.ok = FALSE /\ a.val = 0
      BY <1>1, <1>2, <2>4, Answered
    <3>2. bmc.ids + Len(toBmc') <= cl.retx + 1
      BY <1>3, <2>1, <2>2
    <3>3. Handshake(cl, toBmc', toClient', bmc')
      BY <1>1, <1>9, <1>11, <2>1, <2>4, <3>1, <3>2 DEF Handshake
    <3> QED BY <1>1, <1>2, <2>1, <2>4, <3>1, <3>3, AnswersInv
  <2> QED BY <1>11, <2>3, <2>4
<1>12. CASE /\ p.name = "activate"
            /\ \/ /\ bmc' = [Numbered(bmc) EXCEPT !.active = @ \cup {p.sid}]
                  /\ Answer(p, bmc', TRUE, p.sid, p.sid)
               \/ bmc' = bmc /\ Answer(p, bmc, FALSE, 0, p.sid)
  <2>1. /\ cl.name = "activate" /\ pc = "wait" /\ ~ cl.up
        /\ \A x \in In(toClient) : x.ok => x.val \in bmc.active
    BY <1>6, <1>8, <1>12 DEF Handshake, Opening
  <2>2. CASE bmc' = [Numbered(bmc) EXCEPT !.active = @ \cup {p.sid}] /\ Answer(p, bmc', TRUE, p.sid, p.sid)
    <3> DEFINE N == Numbered(bmc)
    <3>1. /\ N \in Bmcs /\ N.ids = bmc.ids /\ N.active = bmc.active /\ N.pending = bmc.pending
      BY <1>1, OutType
    <3> HIDE DEF N
    <3>2. bmc' = [N EXCEPT !.active = @ \cup {p.sid}]
      BY <2>2 DEF N
    <3>3. /\ bmc' \in Bmcs /\ bmc'.ids = bmc.ids /\ bmc'.active = bmc.active \cup {p.sid}
          /\ bmc'.pending = bmc.pending
      BY <1>4, <3>1, <3>2 DEF Bmcs
    <3>4. PICK a \in Packets :
            /\ Answers(p, a, toBmc, toClient, bmc, toBmc', toClient', bmc')
            /\ a.ok = TRUE /\ a.val = p.sid
      BY <1>1, <1>2, <1>4, <2>2, <3>3, Answered
    <3>5. Handshake(cl, toBmc', toClient', bmc')
      BY <1>1, <1>9, <2>1, <3>3, <3>4 DEF Handshake
    <3> QED BY <1>1, <1>2, <2>1, <3>3, <3>4, <3>5, AnswersInv
  <2>3. CASE bmc' = bmc /\ Answer(p, bmc, FALSE, 0, p.sid)
    <3>1. PICK a \in Packets :
            /\ Answers(p, a, toBmc, toClient, bmc, toBmc', toClient', bmc')
            /\ a.ok = FALSE /\ a.val = 0
      BY <1>1, <1>2, <1>4, <2>3, Answered
    <3>2. Handshake(cl, toBmc', toClient', bmc')
      BY <1>1, <1>9, <2>1, <2>3, <3>1 DEF Handshake
    <3> QED BY <1>1, <1>2, <2>1, <2>3, <3>1, <3>2, AnswersInv
  <2> QED BY <1>12, <2>2, <2>3
<1>13. CASE /\ p.name = "rakp1"
            /\ bmc' = [bmc EXCEPT !.rnd = @ + 1, !.key[p.sid] = bmc.rnd + 1]
            /\ Answer(p, bmc, TRUE, bmc'.rnd, p.sid)
  <2>1. /\ cl.name = "rakp1" /\ pc = "wait" /\ ~ cl.up /\ p.sid = cl.sid /\ cl.sid \in 1 .. MaxIds
        /\ \A x \in In(toClient) : x.ok /\ x.sid = cl.sid
        /\ \A x \in In(toBmc) : x.sid = cl.sid
    BY <1>3, <1>6, <1>8, <1>13 DEF Handshake, Opening
  <2> DEFINE r == bmc.rnd + 1
  <2>2. r \in Nat /\ bmc.key \in [1 .. MaxIds -> Nat]
    BY <1>1 DEF Bmcs
  <2> DEFINE k == [bmc.key EXCEPT ![p.sid] = r]
  <2>3. bmc' = [bmc EXCEPT !.rnd = r, !.key = k]
    BY <1>1, <1>13 DEF Bmcs
  <2> HIDE DEF r
  <2>4. k \in [1 .. MaxIds -> Nat] /\ k[cl.sid] = r
    BY <2>1, <2>2
  <2> HIDE DEF k
  <2>5. /\ bmc' \in Bmcs /\ bmc'.ids = bmc.ids /\ bmc'.key = k /\ bmc'.rnd = r
        /\ bmc'.pending = bmc.pending /\ bmc'.active = bmc.active
    BY <1>1, <2>2, <2>3, <2>4 DEF Bmcs
  <2>6. PICK a \in Packets :
          /\ Answers(p, a, toBmc, toClient, bmc, toBmc', toClient', bmc')
          /\ a.ok = TRUE /\ a.val = r /\ a.sid = p.sid
    BY <1>1, <1>2, <1>4, <1>13, <2>2, <2>5, AnsweredIn
  <2>7. \A x \in In(toClient') : x.ok /\ x.sid = cl.sid /\ (x.age = 0 => x.val = k[cl.sid])
    <3> SUFFICES ASSUME NEW x \in In(toClient')
                 PROVE  x.ok /\ x.sid = cl.sid /\ (x.age = 0 => x.val = k[cl.sid])
      OBVIOUS
    <3>1. In(toClient') \subseteq In(toClient) \cup {a} /\ \A y \in In(toClient) : y.age > p.age
      BY <1>1, <1>9, <2>5, <2>6
    <3>2. CASE x = a
      BY <2>1, <2>4, <2>6, <3>2
    <3>3. CASE x \in In(toClient)
      BY <1>3, <2>1, <3>1, <3>3, AgeType
    <3> QED BY <3>1, <3>2, <3>3
  <2>8. Handshake(cl, toBmc', toClient', bmc')
    BY <1>3, <2>1, <2>5, <2>7 DEF Handshake
  <2> QED BY <1>1, <1>2, <2>1, <2>5, <2>6, <2>8, AnswersInv
<1>14. CASE /\ p.name = "rakp3"
            /\ IF p.val = bmc.key[p.sid]
               THEN /\ bmc' = [bmc EXCEPT !.active = @ \cup {p.sid}]
                    /\ Answer(p, bmc, TRUE, p.val, 0)
               ELSE bmc' = bmc /\ Answer(p, bmc, FALSE, 0, 0)
  <2>1. /\ cl.name = "rakp3" /\ pc = "wait" /\ ~ cl.up /\ p.sid = cl.sid /\ cl.sid \in 1 .. MaxIds
        /\ p.val = cl.key /\ bmc.key[cl.sid] = cl.key
        /\ \A x \in In(toClient) : x.ok /\ x.val = cl.key
        /\ \A x \in In(toBmc) : x.sid = cl.sid /\ x.val = cl.key
    BY <1>3, <1>6, <1>8, <1>14 DEF Handshake, Opening
  <2>2. bmc' = [bmc EXCEPT !.active = @ \cup {p.sid}] /\ Answer(p, bmc, TRUE, p.val, 0)
    BY <1>14, <2>1
  <2>3. /\ bmc' \in Bmcs /\ bmc'.ids = bmc.ids /\ bmc'.active = bmc.active \cup {p.sid}
        /\ bmc'.pending = bmc.pending /\ bmc'.key = bmc.key
    BY <1>1, <1>4, <2>2 DEF Bmcs
  <2>4. PICK a \in Packets :
          /\ Answers(p, a, toBmc, toClient, bmc, toBmc', toClient', bmc')
          /\ a.ok = TRUE /\ a.val = p.val
    BY <1>1, <1>2, <1>4, <2>2, <2>3, Answered
  <2>5. Handshake(cl, toBmc', toClient', bmc')
    BY <1>1, <1>3, <1>9, <2>1, <2>3, <2>4 DEF Handshake
  <2> QED BY <1>1, <1>2, <2>1, <2>3, <2>4, <2>5, AnswersInv
<1>15. CASE /\ p.name \in {"setpriv", "user", "close"}
            /\ bmc' = [Numbered(bmc) EXCEPT
                         !.active = IF p.name = "close" THEN @ \ {p.sid} ELSE @]
            /\ \E ok \in BOOLEAN : Answer(p, bmc', ok, 0, p.sid)
  <2> DEFINE N == Numbered(bmc)
             A == IF p.name = "close" THEN N.active \ {p.sid} ELSE N.active
  <2>1. /\ N \in Bmcs /\ N.ids = bmc.ids /\ N.active = bmc.active /\ N.pending = bmc.pending
        /\ N.key = bmc.key
    BY <1>1, OutType
  <2>2. bmc' = [N EXCEPT !.active = A]
    BY <1>15
  <2>3. A \in SUBSET Nat /\ (p.name # "close" => A = bmc.active)
    BY <2>1 DEF Bmcs
  <2> HIDE DEF N, A
  <2>4. /\ bmc' \in Bmcs /\ bmc'.ids = bmc.ids /\ bmc'.active = A
        /\ bmc'.pending = bmc.pending /\ bmc'.key = bmc.key
    BY <2>1, <2>2, <2>3 DEF Bmcs
  <2>5. PICK a \in Packets : Answers(p, a, toBmc, toClient, bmc, toBmc', toClient', bmc')
    BY <1>1, <1>2, <1>4, <1>15, <2>4, Answered
  <2>6. cl.name \notin Opening /\ (p.name = "close" => cl.name = "close")
    BY <1>6, <1>7, <1>15 DEF Session, Opening
  <2>7. Handshake(cl, toBmc', toClient', bmc')
    BY <2>6 DEF Handshake, Opening
  <2> QED BY <1>1, <1>2, <2>3, <2>4, <2>5, <2>6, <2>7, AnswersInv
<1>16. CASE /\ p.name = "sendmsg"
            /\ \E ok \in BOOLEAN, pending \in Sent(bmc.pending, p) :
                 /\ bmc' = [Numbered(bmc) EXCEPT !.pending = IF ok THEN pending ELSE @]
                 /\ Answer(p, bmc', ok, 0, p.sid)
  <2>1. PICK ok \in BOOLEAN, pending \in Sent(bmc.pending, p) :
          /\ bmc' = [Numbered(bmc) EXCEPT !.pending = IF ok THEN pending ELSE @]
          /\ Answer(p, bmc', ok, 0, p.sid)
    BY <1>16
  <2> DEFINE N == Numbered(bmc)
             Q == IF ok THEN pending ELSE N.pending
  <2>2. /\ N \in Bmcs /\ N.ids = bmc.ids /\ N.active = bmc.active /\ N.pending = bmc.pending
        /\ N.key = bmc.key
    BY <1>1, OutType
  <2>3. bmc' = [N EXCEPT !.pending = Q]
    BY <2>1
  <2>4. Q \in {bmc.pending} \cup {Append(bmc.pending, p)}
    BY <2>1, <2>2 DEF Sent
  <2>5. Q \in Seq(Packets)
    <3>1. bmc.pending \in Seq(Packets)
      BY <1>1 DEF Bmcs
    <3>2. Append(bmc.pending, p) \in Seq(Packets)
      BY <1>3, <3>1, InAppend
    <3> QED BY <2>4, <3>1, <3>2
  <2> HIDE DEF N, Q
  <2>6. /\ bmc' \in Bmcs /\ bmc'.ids = bmc.ids /\ bmc'.active = bmc.active
        /\ bmc'.pending = Q /\ bmc'.key = bmc.key
    BY <2>2, <2>3, <2>5 DEF Bmcs
  <2>7. PICK a \in Packets : Answers(p, a, toBmc, toClient, bmc, toBmc', toClient', bmc')
    BY <1>1, <1>2, <1>4, <1>16, <2>1, <2>4, <2>6, Answered
  <2>8. Handshake(cl, toBmc', toClient', bmc')
    BY <1>7, <1>16 DEF Handshake, Session
  <2> QED BY <1>1, <1>2, <2>6, <2>7, <2>8, AnswersInv
<1> QED BY <1>10, <1>11, <1>12, <1>13, <1>14, <1>15, <1>16 DEF BmcReceive

\* A bridged answer joins the others: it is older than every request.
Forwards(a, t, m, t2, m2) ==
  /\ m.pending # <<>> /\ a \in Packets
  /\ a.name = "bridged" /\ a.ipmb = <<>> /\ a.age = Head(m.pending).age
  /\ t2 = t \/ (Len(t) < Capacity /\ t2 = Append(t, a))
  /\ m2 \in Bmcs /\ m2.ids = m.ids /\ m2.pending = Tail(m.pending)

LEMMA NetForward ==
  ASSUME NEW b, NEW t, NEW m, NEW t2, NEW m2, NEW a, Net(b, t, m), Forwards(a, t, m, t2, m2)
  PROVE  /\ Net(b, t2, m2) /\ In(t2) \subseteq In(t) \cup {a}
         /\ In(m2.pending) \subseteq In(m.pending)
<1> DEFINE q == m.pending
           q2 == m2.pending
<1> USE DEF Forwards
<1>1. b \in Seq(Packets) /\ t \in Seq(Packets) /\ q \in Seq(Packets) /\ Len(t) <= Capacity
  BY DEF Net, Bmcs
<1>2. /\ q2 \in Seq(Packets) /\ Head(q) = q[1] /\ In(q2) \subseteq In(q) /\ Len(q) > 0
      /\ \A i \in 1 .. Len(q2) : q2[i] = q[i + 1] /\ i + 1 \in 1 .. Len(q)
  BY <1>1, InTail
<1>3. t2 \in Seq(Packets) /\ In(t2) \subseteq In(t) \cup {a} /\ Len(t2) <= Capacity
  <2>1. CASE t2 = t
    BY <1>1, <2>1
  <2>2. CASE Len(t) < Capacity /\ t2 = Append(t, a)
    <3>1. t2 \in Seq(Packets) /\ Len(t2) = Len(t) + 1 /\ In(t2) = In(t) \cup {a} /\ Len(t) \in Nat
      BY <1>1, <2>2, InAppend
    <3> QED BY <2>2, <3>1, Constants
  <2> QED BY <2>1, <2>2
<1>4. /\ \A i, j \in 1 .. Len(b) : i < j => b[j].age < b[i].age
      /\ \A i, j \in 1 .. Len(t) : i < j /\ t[j].name # "bridged" => t[j].age < t[i].age
      /\ \A i \in 1 .. Len(t), j \in 1 .. Len(b) : b[j].age < t[i].age
      /\ \A i \in 1 .. Len(q), j \in 1 .. Len(b) : b[j].age < q[i].age
  BY DEF Net, Order
<1>5. Len(t) \in Nat /\ Len(q) \in Nat /\ 1 \in 1 .. Len(q)
  BY <1>1, <1>2
<1>6. \A i \in 1 .. Len(t2) : (i \in 1 .. Len(t) /\ t2[i] = t[i]) \/ (i = Len(t) + 1 /\ t2[i] = a)
  <2>1. CASE t2 = t
    BY <2>1
  <2>2. CASE t2 = Append(t, a)
    BY <1>1, <2>2
  <2> QED BY <2>1, <2>2
<1>7. \A i, j \in 1 .. Len(t2) : i < j /\ t2[j].name # "bridged" => t2[j].age < t2[i].age
  <2> SUFFICES ASSUME NEW i \in 1 .. Len(t2), NEW j \in 1 .. Len(t2), i < j,
                      t2[j].name # "bridged"
               PROVE  t2[j].age < t2[i].age
    OBVIOUS
  <2>1. j \in 1 .. Len(t) /\ t2[j] = t[j]
    BY <1>6
  <2>2. i \in 1 .. Len(t) /\ t2[i] = t[i]
    BY <1>5, <1>6, <2>1
  <2> QED BY <1>4, <2>1, <2>2
<1>8. \A i \in 1 .. Len(t2), j \in 1 .. Len(b) : b[j].age < t2[i].age
  <2> SUFFICES ASSUME NEW i \in 1 .. Len(t2), NEW j \in 1 .. Len(b)
               PROVE  b[j].age < t2[i].age
    OBVIOUS
  <2>1. CASE t2[i] = a
    BY <1>2, <1>4, <1>5, <2>1
  <2>2. CASE i \in 1 .. Len(t) /\ t2[i] = t[i]
    BY <1>4, <2>2
  <2> QED BY <1>6, <2>1, <2>2
<1>9. \A i \in 1 .. Len(q2), j \in 1 .. Len(b) : b[j].age < q2[i].age
  BY <1>2, <1>4
<1>10. Order(b, t2, q2)
  BY <1>4, <1>7, <1>8, <1>9 DEF Order
<1>11. /\ \A x \in In(t2) : x.ipmb = <<>>
       /\ \A x \in In(q2) : x.name = "sendmsg" /\ Formed(x)
  BY <1>2, <1>3 DEF Net
<1>12. Net(b, t2, m2)
  BY <1>3, <1>10, <1>11 DEF Net
<1> QED BY <1>2, <1>3, <1>12

\* The bridged answer a carries the number that its request p carried.
LEMMA ForwardNum ==
  ASSUME NEW p, p.name = "sendmsg", Len(p.ipmb) = 1, NEW a, a.name = "bridged",
         a.num = p.ipmb[1], a.own = p.own, a.age = p.age, NEW c
  PROVE  /\ Named(p, c) => c.name \in Session /\ Named(a, c)
         /\ WaitNum(p, c) => WaitNum(a, c)
         /\ RestNum(p, c) => RestNum(a, c)
         /\ OldNum(p, c) => OldNum(a, c)
<1>1. Carries(a) /\ Carries(p) /\ Carried(a) = Carried(p)
  <2>1. p.ipmb # <<>>
    OBVIOUS
  <2> QED BY <2>1 DEF Carries, Carried
<1>2. Named(p, c) => c.name \in Session /\ Named(a, c)
  BY DEF Named, Session
<1>3. WaitNum(p, c) => WaitNum(a, c)
  BY <1>1 DEF WaitNum
<1>4. RestNum(p, c) => RestNum(a, c)
  BY <1>1 DEF RestNum
<1>5. OldNum(p, c) => OldNum(a, c)
  BY <1>1 DEF OldNum
<1> QED BY <1>2, <1>3, <1>4, <1>5

LEMMA BmcForwardInv ==
  ASSUME IInv, BmcForward
  PROVE  IInv'
<1> DEFINE p == Head(bmc.pending)
           N == Numbered(bmc)
           a == Packet("bridged", p.ipmb[1], p.sid, None, 0, TRUE, bmc'.out, p.own, p.age)
<1>1. /\ cl \in Clients /\ version \in {15, 20} /\ Net(toBmc, toClient, bmc)
      /\ AnswerOwn /\ NoFalsePassword /\ pc \in {"ready", "wait", "bridge"} /\ bmc \in Bmcs
  BY DEF IInv, Shape, Interested, BmcForward, Net
<1>2. /\ version' = version /\ pc' = pc /\ cl' = cl /\ last' = last /\ toBmc' = toBmc
      /\ bmc.pending # <<>> /\ bmc' = [N EXCEPT !.pending = Tail(@)]
      /\ toClient' \in Sent(toClient, a)
  BY DEF BmcForward
<1>3. /\ N \in Bmcs /\ N.ids = bmc.ids /\ N.active = bmc.active /\ N.pending = bmc.pending
      /\ N.key = bmc.key
  BY <1>1, OutType
<1> HIDE DEF N
<1>4. bmc.pending \in Seq(Packets)
  BY <1>1 DEF Bmcs
<1>5. p \in Packets /\ p \in In(bmc.pending) /\ Tail(bmc.pending) \in Seq(Packets)
  BY <1>2, <1>4, InTail
<1>6. p.name = "sendmsg" /\ Formed(p) /\ Len(p.ipmb) = 1 /\ p.ipmb \in Seq(Numbers)
  BY <1>1, <1>5 DEF Net, Formed, Packets
<1>7. /\ bmc' \in Bmcs /\ bmc'.ids = bmc.ids /\ bmc'.active = bmc.active /\ bmc'.key = bmc.key
      /\ bmc'.pending = Tail(bmc.pending)
  <2> DEFINE Q == Tail(N.pending)
  <2>1. Q = Tail(bmc.pending) /\ Q \in Seq(Packets) /\ bmc' = [N EXCEPT !.pending = Q]
    BY <1>2, <1>3, <1>5
  <2> HIDE DEF Q
  <2> QED BY <1>3, <2>1 DEF Bmcs
<1>8. bmc'.out \in 0 .. SequenceMax
  BY <1>7 DEF Bmcs
<1>9. p.ipmb[1] \in Nat
  <2>1. p.ipmb[1] \in Numbers
    BY <1>6
  <2> QED BY <2>1, Constants DEF Numbers
<1> HIDE DEF p
<1>10. a \in Packets
  <2>1. <<>> \in Seq(Numbers)
    OBVIOUS
  <2> QED BY <1>5, <1>8, <1>9, <2>1 DEF Packet, Packets, None
<1>11. /\ a.name = "bridged" /\ a.ipmb = <<>> /\ a.num = p.ipmb[1] /\ a.own = p.own
       /\ a.age = p.age
  BY DEF Packet, None
<1> HIDE DEF a
<1>12. toClient' = toClient \/ (Len(toClient) < Capacity /\ toClient' = Append(toClient, a))
  BY <1>2 DEF Sent
<1>13. /\ Net(toBmc', toClient', bmc') /\ In(toClient') \subseteq In(toClient) \cup {a}
       /\ In(bmc'.pending) \subseteq In(bmc.pending)
  <2>1. a.age = Head(bmc.pending).age
    BY <1>11 DEF p
  <2>2. Forwards(a, toClient, bmc, toClient', bmc')
    BY <1>2, <1>7, <1>10, <1>11, <1>12, <2>1 DEF Forwards
  <2>3. /\ Net(toBmc, toClient', bmc') /\ In(toClient') \subseteq In(toClient) \cup {a}
        /\ In(bmc'.pending) \subseteq In(bmc.pending)
    BY <1>1, <2>2, NetForward
  <2>4. toBmc' = toBmc
    BY <1>2
  <2> QED BY <2>3, <2>4
<1>14. /\ p \in All(toBmc, toClient, bmc)
       /\ All(toBmc', toClient', bmc') \subseteq All(toBmc, toClient, bmc) \cup {a}
  BY <1>2, <1>5, <1>13 DEF All
<1>15. AnswerOwn' /\ NoFalsePassword'
  BY <1>1, <1>2 DEF AnswerOwn, NoFalsePassword
<1>16. Agreed(cl, bmc) => Agreed(cl, bmc')
  BY <1>7 DEF Agreed
<1>17. CASE pc = "wait"
  <2>1. WaitInv(cl, toBmc, toClient, bmc) /\ cl.retx <= cl.spent /\ cl.spent < SessionTimeout
    BY <1>17 DEF IInv
  <2>2. \A q \in All(toBmc, toClient, bmc) :
          Named(q, cl) /\ WaitNum(q, cl) /\ (cl.name = "sendmsg" => OldNum(q, cl))
    BY <2>1 DEF WaitInv
  <2>3. /\ Named(a, cl) /\ WaitNum(a, cl) /\ (cl.name = "sendmsg" => OldNum(a, cl))
        /\ cl.name \in Session
    BY <1>6, <1>11, <1>14, <2>2, ForwardNum
  <2>4. \A q \in All(toBmc', toClient', bmc') :
          Named(q, cl) /\ WaitNum(q, cl) /\ (cl.name = "sendmsg" => OldNum(q, cl))
    BY <1>14, <2>2, <2>3
  <2>5. Handshake(cl, toBmc', toClient', bmc')
    BY <2>3 DEF Handshake, Session
  <2>6. WaitInv(cl, toBmc', toClient', bmc')
    BY <1>16, <2>1, <2>4, <2>5 DEF WaitInv
  <2> QED BY <1>1, <1>2, <1>13, <1>15, <1>17, <2>1, <2>6, IInvNext
<1>18. CASE pc = "ready"
  <2>1. ReadyInv(cl, toBmc, toClient, bmc)
    BY <1>18 DEF IInv
  <2>2. \A q \in All(toBmc, toClient, bmc) : Named(q, cl) /\ RestNum(q, cl)
    BY <2>1 DEF ReadyInv
  <2>3. Named(a, cl) /\ RestNum(a, cl) /\ cl.name \in Session
    BY <1>6, <1>11, <1>14, <2>2, ForwardNum
  <2>4. \A q \in All(toBmc', toClient', bmc') : Named(q, cl) /\ RestNum(q, cl)
    BY <1>14, <2>2, <2>3
  <2>5. ReadyInv(cl, toBmc', toClient', bmc')
    BY <1>7, <1>16, <2>1, <2>3, <2>4 DEF ReadyInv
  <2> QED BY <1>1, <1>2, <1>13, <1>15, <1>18, <2>5, IInvNext
<1>19. CASE pc = "bridge"
  <2>1. BridgeInv(cl, toBmc, toClient, bmc)
    BY <1>19 DEF IInv
  <2>2. \A q \in All(toBmc, toClient, bmc) : Named(q, cl) /\ RestNum(q, cl) /\ OldNum(q, cl)
    BY <2>1 DEF BridgeInv
  <2>3. Named(a, cl) /\ RestNum(a, cl) /\ OldNum(a, cl)
    BY <1>6, <1>11, <1>14, <2>2, ForwardNum
  <2>4. \A q \in All(toBmc', toClient', bmc') : Named(q, cl) /\ RestNum(q, cl) /\ OldNum(q, cl)
    BY <1>14, <2>2, <2>3
  <2>5. \A q \in In(toClient') : q.name = "bridged"
    BY <1>11, <1>13, <2>1 DEF BridgeInv
  <2>6. BridgeInv(cl, toBmc', toClient', bmc')
    BY <1>2, <1>16, <2>1, <2>4, <2>5 DEF BridgeInv
  <2> QED BY <1>1, <1>2, <1>13, <1>15, <1>19, <2>6, IInvNext
<1> QED BY <1>1, <1>17, <1>18, <1>19

-----------------------------------------------------------------------------
(* The theorems. *)

LEMMA InitInv == Init => IInv
<1> SUFFICES ASSUME Init PROVE IInv
  OBVIOUS
<1>1. <<>> \in Seq(Numbers) /\ <<>> \in Seq(Packets)
  OBVIOUS
<1>2. cl \in Clients /\ cl.name = "none" /\ cl.retx = 0 /\ cl.ipmb = <<>> /\ cl.up = FALSE
      /\ cl.err = "none"
  <2>1. 0 .. Window - 1 \in SUBSET (0 .. ListBits - 1)
    BY Constants
  <2>2. 0 \in Numbers /\ 0 \in 0 .. TagMod - 1 /\ 0 \in 0 .. SequenceMax
    BY Constants DEF Numbers
  <2> QED BY <1>1, <2>1, <2>2 DEF Init, Clients, None
<1>3. bmc \in Bmcs /\ bmc.ids = 0 /\ bmc.pending = <<>>
  <2>1. 0 \in 0 .. SequenceMax /\ [i \in 1 .. MaxIds |-> 0] \in [1 .. MaxIds -> Nat]
    BY Constants
  <2> QED BY <1>1, <2>1 DEF Init, Bmcs
<1>4. toBmc = <<>> /\ toClient = <<>> /\ pc = "ready" /\ version \in {15, 20}
  BY DEF Init
<1>5. In(toBmc) = {} /\ In(toClient) = {} /\ In(bmc.pending) = {}
  BY <1>3, <1>4 DEF In
<1>6. Order(toBmc, toClient, bmc.pending)
  BY <1>3, <1>4 DEF Order
<1>7. Net(toBmc, toClient, bmc)
  BY <1>1, <1>3, <1>4, <1>5, <1>6, Constants DEF Net, MaxIds
<1>8. ReadyInv(cl, toBmc, toClient, bmc)
  BY <1>2, <1>3, <1>4, <1>5 DEF ReadyInv, Versions, All
<1>9. AnswerOwn /\ NoFalsePassword
  BY <1>2 DEF Init, AnswerOwn, NoFalsePassword
<1> QED BY <1>2, <1>4, <1>7, <1>8, <1>9 DEF IInv, Shape

LEMMA NextInv == IInv /\ [Next]_vars => IInv'
<1> SUFFICES ASSUME IInv, [Next]_vars PROVE IInv'
  OBVIOUS
<1>1. CASE OpenStep
  BY <1>1, OpenStepInv
<1>2. CASE Command
  BY <1>2, CommandInv
<1>3. CASE CommandIpmb
  BY <1>3, CommandIpmbInv
<1>4. CASE CloseSession
  BY <1>4, CloseSessionInv
<1>5. CASE Client
  BY <1>5, NoAnswerInv, ReceiveInv, BridgeNoAnswerInv, BridgeReceiveInv DEF Client
<1>6. CASE BmcReceive
  BY <1>6, BmcReceiveInv
<1>7. CASE BmcForward
  BY <1>7, BmcForwardInv
<1>8. CASE UNCHANGED vars
  <2>1. /\ version' = version /\ pc' = pc /\ cl' = cl /\ toBmc' = toBmc /\ toClient' = toClient
        /\ bmc' = bmc /\ last' = last
    BY <1>8 DEF vars
  <2>2. AnswerOwn' /\ NoFalsePassword'
    BY <2>1 DEF IInv, AnswerOwn, NoFalsePassword
  <2> QED BY <2>1, <2>2, IInvNext DEF IInv, Shape
<1> QED BY <1>1, <1>2, <1>3, <1>4, <1>5, <1>6, <1>7, <1>8 DEF Next

\* The inductive invariant: ages tell numbers apart, packets keep their order,
\* and each command of the handshake starts with nothing under way.
THEOREM LanInvariant == Spec => []IInv
  BY InitInv, NextInv, PTL DEF Spec

\* Every variable keeps its type: numbers stay below their modulus, the window
\* in its list, the channels in their capacity, and the BMC gives out no more
\* session ids than the transmissions of one command can ask for.
THEOREM LanTypeCorrect == Spec => []TypeOK
<1>1. IInv => TypeOK
  <2> SUFFICES ASSUME IInv PROVE TypeOK
    OBVIOUS
  <2>1. cl \in Clients /\ bmc \in Bmcs
    BY DEF IInv, Shape, Net
  <2>2. /\ cl.rq \in 0 .. RqMod - 1 /\ cl.tag \in 0 .. TagMod - 1
        /\ cl.highest \in 0 .. SequenceMax /\ cl.list \subseteq 0 .. ListBits - 1
    BY <2>1 DEF Clients, Numbers
  <2>3. bmc.out \in 0 .. SequenceMax
    BY <2>1 DEF Bmcs
  <2> QED BY <2>2, <2>3 DEF IInv, Shape, Net, TypeOK
<1> QED BY <1>1, LanInvariant, PTL

\* An answer that a command accepts answers one of its own transmissions, for
\* every modulus larger than the packets' lifetime and the session timeout.
THEOREM LanAnswerOwn == Spec => []AnswerOwn
<1>1. IInv => AnswerOwn
  BY DEF IInv
<1> QED BY <1>1, LanInvariant, PTL

\* A session the client holds open is one that the BMC has, under the same id
\* and key, whichever retransmissions of the handshake were answered.
THEOREM LanSessionAgreed == Spec => []SessionAgreed
<1>1. IInv => SessionAgreed
  <2> SUFFICES ASSUME IInv, cl.up, pc \in {"ready", "wait", "bridge"}, cl.name # "close"
               PROVE  Agreed(cl, bmc)
    BY DEF SessionAgreed, Agreed
  <2>1. CASE pc = "wait"
    BY <2>1 DEF IInv, WaitInv
  <2>2. CASE pc = "ready"
    BY <2>2 DEF IInv, ReadyInv
  <2>3. CASE pc = "bridge"
    BY <2>3 DEF IInv, BridgeInv
  <2> QED BY <2>1, <2>2, <2>3
<1> QED BY <1>1, LanInvariant, PTL

\* With the right password the handshake is never refused for a wrong one:
\* what the third RAKP message is checked against is of the same exchange.
THEOREM LanNoFalsePassword == Spec => []NoFalsePassword
<1>1. IInv => NoFalsePassword
  BY DEF IInv
<1> QED BY <1>1, LanInvariant, PTL
=============================================================================
