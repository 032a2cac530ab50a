-------------------------- MODULE PowerCommandProofs --------------------------
(***************************************************************************)
(* Proofs about PowerCommand, for every set of hosts and commands, every   *)
(* command line and every capacity of the network: the fanout is kept, two *)
(* commands to a host never run at once, a command prints one line, and    *)
(* the line is true.                                                       *)
(***************************************************************************)
EXTENDS PowerCommand, SequenceTheorems, FiniteSetTheorems, WellFoundedInduction, TLAPS

-----------------------------------------------------------------------------
(* The inductive invariant. *)

Distinct(s) == \A j, k \in 1 .. Len(s) : s[j] = s[k] => j = k

\* id is on one of the two lists, or chained to another command.
On(id) == id \in ToSet(pending) \cup ToSet(adding)
Waits(id) == \E other \in Ids : next[other] = id
Taken(id) == \E n \in 1 .. batch : id \in ToSet(args.batches[n])

\* A command is in one place, a host has one command on the lists, and every
\* chain of commands starts on the lists.
PlaceInv ==
  /\ Distinct(pending) /\ Distinct(adding)
  /\ \A x \in Ids : ~ (x \in ToSet(pending) /\ x \in ToSet(adding))
  /\ \A x, y \in Ids : On(x) /\ On(y) /\ HostOf[x] = HostOf[y] => x = y
  /\ \A x \in Ids : ~ (On(x) /\ Waits(x))
  /\ \A x, y \in Ids : next[x] = next[y] /\ next[x] # None => x = y
  /\ \A x \in Ids : next[x] # None =>
       HostOf[next[x]] = HostOf[x] /\ (On(x) \/ Waits(x))

\* What is under way is of the last batch, and chained in its order.
BatchInv ==
  /\ \A x \in Ids : On(x) \/ Waits(x) \/ next[x] # None =>
       batch > 0 /\ x \in ToSet(args.batches[batch])
  /\ batch > 0 => LET b == args.batches[batch] IN
       \A i, j \in DOMAIN b : next[b[i]] = b[j] => i < j

\* A command that waits for its turn has not begun, one that runs is not over.
StepInv ==
  \A x \in Ids :
    /\ x \in ToSet(adding) \/ Waits(x) \/ ~ Taken(x) =>
         ip[x].st = "start" /\ ~ ip[x].wait
    /\ x \in ToSet(pending) => ip[x].st # "end"

\* A command has printed its line once it closes its session, and not before.
Told(lines) == Len(lines) <= 1 /\ (args.version = 15 => lines # <<>>)
SaidInv ==
  \A x \in Ids :
    /\ x \in ToSet(adding) \/ Waits(x) \/ ~ Taken(x) => said[x] = <<>>
    /\ x \in ToSet(pending) =>
         IF ip[x].st = "close" THEN Told(said[x]) ELSE said[x] = <<>>
    /\ Taken(x) /\ ~ On(x) /\ ~ Waits(x) => Told(said[x])

Control == {"control", "slot", "identify"}
Report == {"status", "sensor"}
Powering == {"cycle", "reset"}

\* The command of state r has not yet asked for anything but reports.
Asking(r) == ~ r.wait /\ r.st \in {"start", "setpriv"} \cup Setup \cup Report

\* What the state r of the command x says of what the BMC did for it.
GoodState(x, r) ==
  /\ Asking(r) => did[x].exec = {}
  /\ r.wait => r.cmd \in did[x].exec /\ WaitsFor(r.cmd) /\ r.st \in Report \cup {"close"}
  /\ r.st \in Control /\ r.cmd \in Powering /\ args.onIfOff => "on" \in did[x].before
  /\ r.st = "identify" => r.cmd \in {"identify_on", "identify_off"}
  /\ r.st \in {"sensor", "slot"} => args.c410x

CmdInv == \A x \in Ids : GoodState(x, ip[x])

\* Packets under way are of commands that were queued, to and from their
\* hosts; the current one is the last request of its command, or what the BMC
\* made of it.
Packets(h) == net[h] \cup ToSet(conn[h].in) \cup ToSet(conn[h].out)

GoodPacket(h, p) ==
  LET x == p.id IN
  /\ HostOf[x] = h /\ Taken(x)
  /\ p.cur => p.op = ip[x].cmd /\ ip[x].st \in {p.type, "end"}
  /\ p.cur /\ p.kind = "rs" /\ p.type \in Control /\ p.result = "ok" =>
       p.op \in did[x].exec
  /\ p.cur /\ p.kind = "rs" /\ p.type \in Report /\ p.result = "ok"
     /\ ip[x].st # "end" =>
       p.power \in (IF ip[x].wait THEN did[x].after ELSE did[x].before)
  /\ p.type \in Control => ~ Asking(ip[x])
  /\ p.type \in Control /\ p.op \in Powering /\ args.onIfOff =>
       "on" \in did[x].before

PacketInv == \A h \in Hosts : \A p \in Packets(h) : GoodPacket(h, p)
AnswerInv == \A h \in Hosts : \A p \in ToSet(conn[h].in) : p.kind = "rs"

\* LineTrue for the command x: what was printed, and for which cmd.
GoodLine(x, cmd, lines) ==
  /\ lines = <<"ok">> =>
       \/ cmd \in did[x].exec /\ (WaitsFor(cmd) => cmd \in did[x].after)
       \/ args.c410x /\ cmd \in did[x].before
  /\ cmd = "status" /\ lines # <<>> /\ lines[1] \in PowerStates =>
       lines[1] \in did[x].before
  /\ args.onIfOff /\ did[x].exec \cap Powering # {} => "on" \in did[x].before

IInv ==
  /\ TypeOK /\ PlaceInv /\ BatchInv /\ StepInv /\ FanoutKept
  /\ SaidInv /\ CmdInv /\ PacketInv /\ AnswerInv /\ LineTrue

-----------------------------------------------------------------------------
(* Lists *)

\* A nonempty set of natural numbers has a least element.
LEMMA Least ==
  ASSUME NEW S, S \subseteq Nat, S # {}
  PROVE  \E x \in S : \A y \in S : x <= y
<1> DEFINE R == {ss \in Nat \X Nat : ss[1] < ss[2]}
<1>1. OpToRel(<, Nat) = R
  BY DEF OpToRel
<1>2. IsWellFoundedOn(R, Nat)
  BY <1>1, NatLessThanWellFounded
<1> HIDE DEF R
<1>3. PICK x \in S : \A y \in S : ~ (<<y, x>> \in R)
  BY <1>2, WFMin, Zenon
<1>4. ASSUME NEW y \in S
      PROVE  x <= y
  <2>1. x \in Nat /\ y \in Nat
    OBVIOUS
  <2>2. y < x => <<y, x>> \in R
    BY <2>1 DEF R
  <2> QED BY <1>3, <2>1, <2>2
<1> QED BY <1>4

\* The elements of a list, by position.
LEMMA InList ==
  ASSUME NEW S, NEW s \in Seq(S)
  PROVE  /\ ToSet(s) \subseteq S
         /\ \A x : x \in ToSet(s) <=> \E k \in 1 .. Len(s) : s[k] = x
BY DEF ToSet

\* A list has finitely many elements.
LEMMA ListFinite ==
  ASSUME NEW S, NEW s \in Seq(S)
  PROVE  IsFiniteSet(ToSet(s))
<1>1. s \in [1 .. Len(s) -> S] /\ Len(s) \in Nat
  OBVIOUS
<1>2. s \in Surjection(1 .. Len(s), ToSet(s))
  BY <1>1, InList DEF Surjection
<1>3. IsFiniteSet(1 .. Len(s))
  BY <1>1, FS_Interval
<1> QED BY <1>2, <1>3, FS_Surjection

\* list_delete(): the others stay, in order.
LEMMA Removed ==
  ASSUME NEW S, NEW s \in Seq(S), NEW i \in 1 .. Len(s), Distinct(s)
  PROVE  LET t == RemoveAt(s, i) IN
         /\ t \in Seq(S) /\ Len(t) = Len(s) - 1
         /\ Distinct(t)
         /\ \A x : x \in ToSet(t) <=> x \in ToSet(s) /\ x # s[i]
<1> DEFINE t == RemoveAt(s, i)
           f == SubSeq(s, 1, i - 1)
           g == SubSeq(s, i + 1, Len(s))
<1>1. /\ f \in Seq(S) /\ Len(f) = i - 1
      /\ \A k \in 1 .. i - 1 : f[k] = s[k]
  BY SubSeqProperties
<1>2. /\ g \in Seq(S) /\ Len(g) = Len(s) - i
      /\ \A k \in 1 .. Len(s) - i : g[k] = s[k + i]
  BY SubSeqProperties
<1>3. t = f \o g
  BY DEF RemoveAt
<1> HIDE DEF f, g, t
<1>4. /\ t \in Seq(S) /\ Len(t) = Len(s) - 1
      /\ \A k \in 1 .. Len(s) - 1 : t[k] = IF k < i THEN s[k] ELSE s[k + 1]
  <2>1. /\ t \in Seq(S) /\ Len(t) = Len(f) + Len(g)
        /\ \A k \in 1 .. Len(f) + Len(g) :
             t[k] = IF k <= Len(f) THEN f[k] ELSE g[k - Len(f)]
    BY <1>1, <1>2, <1>3, ConcatProperties
  <2>2. ASSUME NEW k \in 1 .. Len(s) - 1
        PROVE  t[k] = IF k < i THEN s[k] ELSE s[k + 1]
    <3>1. CASE k < i
      BY <3>1, <2>1, <1>1, <1>2
    <3>2. CASE ~ (k < i)
      <4>1. k - (i - 1) \in 1 .. Len(s) - i /\ (k - (i - 1)) + i = k + 1
        BY <3>2
      <4>2. t[k] = g[k - (i - 1)]
        <5>1. Len(f) = i - 1 /\ k \in 1 .. Len(f) + Len(g) /\ ~ (k <= Len(f))
          BY <3>2, <1>1, <1>2
        <5>2. t[k] = g[k - Len(f)]
          BY <2>1, <5>1
        <5> QED BY <5>1, <5>2
      <4> QED BY <3>2, <4>1, <4>2, <1>2
    <3> QED BY <3>1, <3>2
  <2> QED BY <2>1, <2>2, <1>1, <1>2
<1>5. Distinct(t)
  <2> SUFFICES ASSUME NEW j \in 1 .. Len(s) - 1, NEW k \in 1 .. Len(s) - 1, t[j] = t[k]
               PROVE  j = k
    BY <1>4 DEF Distinct
  <2> QED BY <1>4 DEF Distinct
<1>6. ASSUME NEW x
      PROVE  x \in ToSet(t) <=> x \in ToSet(s) /\ x # s[i]
  <2>1. ASSUME x \in ToSet(t) PROVE x \in ToSet(s) /\ x # s[i]
    <3>1. PICK k \in 1 .. Len(s) - 1 : t[k] = x
      BY <2>1, <1>4, InList
    <3>2. PICK j \in 1 .. Len(s) : j # i /\ s[j] = x
      BY <3>1, <1>4
    <3> QED BY <3>2, InList DEF Distinct
  <2>2. ASSUME x \in ToSet(s), x # s[i] PROVE x \in ToSet(t)
    <3>1. PICK k \in 1 .. Len(s) : s[k] = x
      BY <2>2, InList
    <3>2. k # i
      BY <2>2, <3>1
    <3>3. \E j \in 1 .. Len(t) : t[j] = x
      <4>1. CASE k < i
        BY <4>1, <3>1, <1>4
      <4>2. CASE k > i
        <5>1. k - 1 \in 1 .. Len(t) /\ ~ (k - 1 < i) /\ (k - 1) + 1 = k
          BY <4>2, <1>4
        <5>2. t[k - 1] = s[(k - 1) + 1]
          BY <5>1, <1>4
        <5> QED BY <5>1, <5>2, <3>1
      <4> QED BY <3>2, <4>1, <4>2
    <3> QED BY <3>3, <1>4, InList
  <2> QED BY <2>1, <2>2
<1> QED BY <1>4, <1>5, <1>6 DEF t

\* list_append() of what is not yet there.
LEMMA Appended ==
  ASSUME NEW S, NEW s \in Seq(S), NEW e \in S
  PROVE  LET t == Append(s, e) IN
         /\ t \in Seq(S)
         /\ \A x : x \in ToSet(t) <=> x \in ToSet(s) \/ x = e
         /\ Distinct(s) /\ e \notin ToSet(s) => Distinct(t)
<1> DEFINE t == Append(s, e)
<1>1. /\ t \in Seq(S) /\ Len(t) = Len(s) + 1
      /\ \A k \in 1 .. Len(s) + 1 : t[k] = IF k <= Len(s) THEN s[k] ELSE e
  OBVIOUS
<1> HIDE DEF t
<1>2. ASSUME NEW x
      PROVE  x \in ToSet(t) <=> x \in ToSet(s) \/ x = e
  <2>1. ASSUME x \in ToSet(t) PROVE x \in ToSet(s) \/ x = e
    BY <2>1, <1>1, InList
  <2>2. ASSUME x \in ToSet(s) PROVE x \in ToSet(t)
    <3>1. PICK k \in 1 .. Len(s) : s[k] = x
      BY <2>2, InList
    <3>2. k \in 1 .. Len(t) /\ t[k] = x
      BY <3>1, <1>1
    <3> QED BY <3>2, <1>1, InList
  <2>3. e \in ToSet(t)
    <3>1. Len(s) + 1 \in 1 .. Len(t) /\ t[Len(s) + 1] = e
      BY <1>1
    <3> QED BY <3>1, <1>1, InList
  <2> QED BY <2>1, <2>2, <2>3
<1>3. ASSUME Distinct(s), e \notin ToSet(s)
      PROVE  Distinct(t)
  <2>1. \A k \in 1 .. Len(s) : s[k] # e
    BY <1>3, InList
  <2> QED BY <1>1, <1>3, <2>1 DEF Distinct
<1> QED BY <1>1, <1>2, <1>3 DEF t

\* Two lists without a common element, one after the other.
LEMMA Joined ==
  ASSUME NEW S, NEW s \in Seq(S), NEW u \in Seq(S)
  PROVE  LET t == s \o u IN
         /\ t \in Seq(S)
         /\ \A x : x \in ToSet(t) <=> x \in ToSet(s) \/ x \in ToSet(u)
         /\ Distinct(s) /\ Distinct(u) /\ (\A x \in S : ~ (x \in ToSet(s) /\ x \in ToSet(u)))
              => Distinct(t)
<1> DEFINE t == s \o u
<1>1. /\ t \in Seq(S) /\ Len(t) = Len(s) + Len(u)
      /\ \A k \in 1 .. Len(s) + Len(u) :
           t[k] = IF k <= Len(s) THEN s[k] ELSE u[k - Len(s)]
  OBVIOUS
<1> HIDE DEF t
<1>2. ASSUME NEW x
      PROVE  x \in ToSet(t) <=> x \in ToSet(s) \/ x \in ToSet(u)
  <2>1. ASSUME x \in ToSet(t) PROVE x \in ToSet(s) \/ x \in ToSet(u)
    <3>1. PICK k \in 1 .. Len(t) : t[k] = x
      BY <2>1, <1>1, InList
    <3>2. CASE k <= Len(s)
      BY <3>1, <3>2, <1>1, InList
    <3>3. CASE k > Len(s)
      <4>1. k - Len(s) \in 1 .. Len(u) /\ u[k - Len(s)] = x
        BY <3>1, <3>3, <1>1
      <4> QED BY <4>1, InList
    <3> QED BY <3>2, <3>3, <1>1
  <2>2. ASSUME x \in ToSet(s) PROVE x \in ToSet(t)
    <3>1. PICK k \in 1 .. Len(s) : s[k] = x
      BY <2>2, InList
    <3>2. k \in 1 .. Len(t) /\ t[k] = x
      BY <3>1, <1>1
    <3> QED BY <3>2, <1>1, InList
  <2>3. ASSUME x \in ToSet(u) PROVE x \in ToSet(t)
    <3>1. PICK k \in 1 .. Len(u) : u[k] = x
      BY <2>3, InList
    <3>2. k + Len(s) \in 1 .. Len(t) /\ t[k + Len(s)] = x
      <4>1. k + Len(s) \in 1 .. Len(s) + Len(u) /\ ~ (k + Len(s) <= Len(s))
            /\ (k + Len(s)) - Len(s) = k
        OBVIOUS
      <4> QED BY <3>1, <4>1, <1>1
    <3> QED BY <3>2, <1>1, InList
  <2> QED BY <2>1, <2>2, <2>3
<1>3. ASSUME Distinct(s), Distinct(u), \A x \in S : ~ (x \in ToSet(s) /\ x \in ToSet(u))
      PROVE  Distinct(t)
  <2>1. \A j \in 1 .. Len(s), k \in 1 .. Len(u) : s[j] # u[k]
    BY <1>3, InList
  <2> SUFFICES ASSUME NEW j \in 1 .. Len(s) + Len(u), NEW k \in 1 .. Len(s) + Len(u),
                      t[j] = t[k]
               PROVE  j = k
    BY <1>1 DEF Distinct
  <2>2. CASE j <= Len(s) /\ k <= Len(s)
    BY <2>2, <1>1, <1>3 DEF Distinct
  <2>3. CASE j > Len(s) /\ k > Len(s)
    <3>1. j - Len(s) \in 1 .. Len(u) /\ k - Len(s) \in 1 .. Len(u)
      BY <2>3
    <3>2. u[j - Len(s)] = u[k - Len(s)]
      BY <2>3, <1>1
    <3>3. j - Len(s) = k - Len(s)
      BY <3>1, <3>2, <1>3 DEF Distinct
    <3> QED BY <3>3
  <2>4. CASE j <= Len(s) /\ k > Len(s)
    <3>1. k - Len(s) \in 1 .. Len(u) /\ s[j] = u[k - Len(s)]
      BY <2>4, <1>1
    <3> QED BY <2>1, <2>4, <3>1
  <2>5. CASE k <= Len(s) /\ j > Len(s)
    <3>1. j - Len(s) \in 1 .. Len(u) /\ s[k] = u[j - Len(s)]
      BY <2>5, <1>1
    <3> QED BY <2>1, <2>5, <3>1
  <2> QED BY <2>2, <2>3, <2>4, <2>5
<1> QED BY <1>1, <1>2, <1>3 DEF t

-----------------------------------------------------------------------------
(* The batches, and the chains of commands to one host *)

\* A batch is a list of commands, none of them named twice or in another batch;
\* without the OEM extension its hosts differ.
LEMMA BatchFacts ==
  ASSUME args \in Args, NEW n \in 1 .. Len(args.batches)
  PROVE  LET b == args.batches[n] IN
         /\ b \in Seq(Ids) /\ Distinct(b)
         /\ \A m \in 1 .. Len(args.batches) :
              \A x : x \in ToSet(b) /\ x \in ToSet(args.batches[m]) => m = n
         /\ args.c410x \/ \A i, j \in 1 .. Len(b) : HostOf[b[i]] = HostOf[b[j]] => i = j
<1>1. args \in AllArgs /\ args.batches \in Seq(Seq(Ids))
  BY PowerAssumption DEF AllArgs
<1>2. \A m \in 1 .. Len(args.batches) : args.batches[m] \in Seq(Ids)
  BY <1>1
<1>3. \A m \in 1 .. Len(args.batches) :
        \A i \in 1 .. Len(args.batches[m]), j \in 1 .. Len(args.batches[n]) :
          args.batches[m][i] = args.batches[n][j] => m = n /\ i = j
  BY <1>1, <1>2, PowerAssumption, SMTT(30)
<1>4. ASSUME NEW m \in 1 .. Len(args.batches), NEW x,
             x \in ToSet(args.batches[n]), x \in ToSet(args.batches[m])
      PROVE  m = n
  <2>1. /\ \E i \in 1 .. Len(args.batches[m]) : args.batches[m][i] = x
        /\ \E i \in 1 .. Len(args.batches[n]) : args.batches[n][i] = x
    BY <1>2, <1>4, InList
  <2> QED BY <1>3, <2>1
<1>5. args.c410x \/ \A i, j \in 1 .. Len(args.batches[n]) :
        HostOf[args.batches[n][i]] = HostOf[args.batches[n][j]] => i = j
  BY <1>1, <1>2, PowerAssumption
<1> QED BY <1>2, <1>3, <1>4, <1>5 DEF Distinct

\* next leads to the nearest later command to the same host.
LEMMA NextFacts ==
  ASSUME NEW b \in Seq(Ids), NEW i \in 1 .. Len(b)
  PROVE  \/ NextOf(b, i) = None
         \/ \E j \in i + 1 .. Len(b) :
              /\ NextOf(b, i) = b[j] /\ Chained(b, j) /\ HostOf[b[j]] = HostOf[b[i]]
              /\ \A k \in i + 1 .. j - 1 : HostOf[b[k]] # HostOf[b[i]]
<1> DEFINE later == {j \in i + 1 .. Len(b) : Chained(b, j) /\ HostOf[b[j]] = HostOf[b[i]]}
           j == CHOOSE x \in later : \A y \in later : x <= y
<1>1. CASE later = {}
  BY <1>1 DEF NextOf
<1>2. CASE later # {}
  <2>1. NextOf(b, i) = b[j]
    BY <1>2 DEF NextOf
  <2>2. later \subseteq Nat
    OBVIOUS
  <2>3. \E x \in later : \A y \in later : x <= y
    BY <1>2, <2>2, Least, Zenon
  <2>4. j \in later /\ \A y \in later : j <= y
    BY <2>3
  <2> HIDE DEF j
  <2>5. ASSUME NEW k \in i + 1 .. j - 1, HostOf[b[k]] = HostOf[b[i]]
        PROVE  FALSE
    <3>1. i \in 1 .. k - 1 /\ k \in i + 1 .. Len(b)
      BY <2>4
    <3>2. args.c410x
      BY <2>4 DEF Chained
    <3>3. Chained(b, k)
      BY <2>5, <3>1, <3>2 DEF Chained
    <3>4. k \in later
      BY <2>5, <3>1, <3>3
    <3> QED BY <2>4, <3>4
  <2> QED BY <2>1, <2>4, <2>5
<1> QED BY <1>1, <1>2

\* A chained command is next of one earlier command of its batch.
LEMMA ChainedFacts ==
  ASSUME NEW b \in Seq(Ids), NEW j \in 1 .. Len(b), Chained(b, j)
  PROVE  \E i \in 1 .. Len(b) : NextOf(b, i) = b[j]
<1> DEFINE S == {d \in 1 .. Len(b) : d < j /\ HostOf[b[j - d]] = HostOf[b[j]]}
<1>1. PICK i0 \in 1 .. j - 1 : HostOf[b[i0]] = HostOf[b[j]]
  BY DEF Chained
<1>2. j - i0 \in S
  <2>1. j - i0 \in 1 .. Len(b) /\ j - i0 < j /\ j - (j - i0) = i0
    BY <1>1
  <2> QED BY <1>1, <2>1
<1>3. S \subseteq Nat
  OBVIOUS
<1>4. PICK d \in S : \A y \in S : d <= y
  BY <1>2, <1>3, Least, Zenon
<1> DEFINE i == j - d
<1>5. i \in 1 .. j - 1 /\ HostOf[b[i]] = HostOf[b[j]]
  BY <1>4
<1>6. ASSUME NEW k \in i + 1 .. j - 1, HostOf[b[k]] = HostOf[b[j]]
      PROVE  FALSE
  <2>1. j - k \in 1 .. Len(b) /\ j - k < j /\ j - (j - k) = k /\ j - k < d
    BY <1>5
  <2>2. j - k \in S
    BY <1>6, <2>1
  <2>3. d \in Nat /\ d <= j - k
    BY <1>4, <2>2
  <2> QED BY <2>1, <2>3
<1> HIDE DEF i
<1> DEFINE later == {k \in i + 1 .. Len(b) : Chained(b, k) /\ HostOf[b[k]] = HostOf[b[i]]}
           first == CHOOSE x \in later : \A y \in later : x <= y
<1>7. j \in later
  BY <1>5
<1>8. \A y \in later : j <= y
  BY <1>5, <1>6
<1>9. first \in later /\ \A y \in later : first <= y
  BY <1>7, <1>8
<1>10. first = j
  <2>1. first \in Nat /\ first <= j /\ j <= first
    BY <1>7, <1>8, <1>9
  <2> QED BY <2>1
<1>11. NextOf(b, i) = b[first]
  BY <1>7 DEF NextOf
<1>12. i \in 1 .. Len(b)
  BY <1>5
<1> QED BY <1>10, <1>11, <1>12

\* The list of the commands that start at once.
LEMMA HeadsFacts ==
  ASSUME NEW b \in Seq(Ids), Distinct(b)
  PROVE  /\ Heads(b) \in Seq(Ids) /\ Distinct(Heads(b))
         /\ \A x : x \in ToSet(Heads(b)) <=>
              \E i \in 1 .. Len(b) : b[i] = x /\ ~ Chained(b, i)
<1> DEFINE heads == {i \in DOMAIN b : ~ Chained(b, i)}
           Below(i) == {j \in heads : j <= i}
           Rank(i) == Cardinality(Below(i))
           n == Cardinality(heads)
           At(k) == CHOOSE i \in heads : Rank(i) = k
           rank == [i \in heads |-> Rank(i)]
<1>1. heads \subseteq 1 .. Len(b) /\ IsFiniteSet(1 .. Len(b))
  BY FS_Interval
<1>2. IsFiniteSet(heads) /\ n \in Nat
  BY <1>1, FS_Subset, FS_CardinalityType
<1>3. Heads(b) = [k \in 1 .. n |-> b[At(k)]]
  BY DEF Heads
<1>4. ASSUME NEW i \in heads
      PROVE  /\ IsFiniteSet(Below(i)) /\ Rank(i) \in 1 .. n
  <2>1. Below(i) \in SUBSET heads
    OBVIOUS
  <2>2. IsFiniteSet(Below(i)) /\ Rank(i) <= n
    BY <1>2, <2>1, FS_Subset, Zenon
  <2>3. Rank(i) \in Nat
    BY <2>2, FS_CardinalityType
  <2>4. i \in Below(i)
    BY <1>1
  <2>5. Rank(i) # 0
    BY <2>2, <2>4, FS_EmptySet
  <2> QED BY <1>2, <2>2, <2>3, <2>5
<1>5. ASSUME NEW i \in heads, NEW j \in heads, i < j, Rank(i) = Rank(j)
      PROVE  FALSE
  <2>1. Below(i) \in SUBSET Below(j) /\ j \in Below(j) /\ j \notin Below(i)
    BY <1>1, <1>5
  <2>2. Below(j) = Below(i)
    BY <1>4, <1>5, <2>1, FS_Subset, Zenon
  <2> QED BY <2>1, <2>2
<1>6. \A i, j \in heads : Rank(i) = Rank(j) => i = j
  <2> SUFFICES ASSUME NEW i \in heads, NEW j \in heads, Rank(i) = Rank(j), i # j
               PROVE  FALSE
    OBVIOUS
  <2>1. i < j \/ j < i
    BY <1>1
  <2> QED BY <1>5, <2>1
<1> HIDE DEF Below
<1>7. rank \in Injection(heads, 1 .. n)
  BY <1>4, <1>6 DEF Injection, IsInjective
<1>8. IsFiniteSet(1 .. n) /\ Cardinality(1 .. n) = n
  BY <1>2, FS_Interval
<1>9. rank \in Surjection(heads, 1 .. n)
  BY <1>7, <1>8, FS_Injection, Zenon
<1>10. \A k \in 1 .. n : \E i \in heads : Rank(i) = k
  BY <1>9 DEF Surjection
<1>11. \A k \in 1 .. n : At(k) \in heads /\ Rank(At(k)) = k
  BY <1>10
<1>12. \A i \in heads : Rank(i) \in 1 .. n /\ At(Rank(i)) = i
  BY <1>4, <1>6, <1>11
<1> HIDE DEF At, Rank, n
<1>13. \A k \in 1 .. n : b[At(k)] \in Ids
  BY <1>1, <1>11
<1>14. Heads(b) \in Seq(Ids) /\ Len(Heads(b)) = n
  BY <1>2, <1>3, <1>13
<1>15. \A k \in 1 .. n : Heads(b)[k] = b[At(k)]
  BY <1>3
<1>16. Distinct(Heads(b))
  <2> SUFFICES ASSUME NEW j \in 1 .. n, NEW k \in 1 .. n, Heads(b)[j] = Heads(b)[k]
               PROVE  j = k
    BY <1>14 DEF Distinct
  <2>1. At(j) = At(k)
    BY <1>1, <1>11, <1>15 DEF Distinct
  <2> QED BY <1>11, <2>1
<1>17. ASSUME NEW x
       PROVE  x \in ToSet(Heads(b)) <=> \E i \in 1 .. Len(b) : b[i] = x /\ ~ Chained(b, i)
  <2>1. x \in ToSet(Heads(b)) <=> \E k \in 1 .. n : b[At(k)] = x
    BY <1>14, <1>15, InList
  <2>2. (\E k \in 1 .. n : b[At(k)] = x) <=> \E i \in heads : b[i] = x
    BY <1>11, <1>12
  <2> QED BY <2>1, <2>2
<1> QED BY <1>14, <1>16, <1>17

-----------------------------------------------------------------------------
(* The command the iterator is at *)

State == [st: Sent \cup {"start", "end"}, cmd: AllOps, wait: BOOLEAN]

LEMMA Current ==
  ASSUME IInv, itr \in DOMAIN pending, NEW x, x = pending[itr]
  PROVE  /\ x \in Ids /\ HostOf[x] \in Hosts /\ ip[x] \in State
         /\ itr \in 1 .. Len(pending)
         /\ x \in ToSet(pending) /\ x \notin ToSet(adding) /\ ~ Waits(x) /\ Taken(x)
         /\ ip[x].st # "end" /\ (ip[x].st # "close" => said[x] = <<>>)
         /\ (ip[x].st = "close" => Told(said[x]))
         /\ GoodState(x, ip[x]) /\ GoodLine(x, ip[x].cmd, said[x])
<1>1. pending \in Seq(Ids) /\ itr \in 1 .. Len(pending) /\ batch \in Nat
  BY DEF IInv, TypeOK
<1>2. x \in Ids /\ x \in ToSet(pending)
  BY <1>1, InList
<1>3. HostOf[x] \in Hosts /\ ip[x] \in State
  BY <1>2, PowerAssumption DEF IInv, TypeOK, State
<1>4. x \notin ToSet(adding) /\ ~ Waits(x)
  BY <1>2 DEF IInv, PlaceInv, On
<1>5. Taken(x)
  <2>1. batch > 0 /\ x \in ToSet(args.batches[batch])
    BY <1>2 DEF IInv, BatchInv, On
  <2> QED BY <2>1, <1>1 DEF Taken
<1>6. ip[x].st # "end" /\ (IF ip[x].st = "close" THEN Told(said[x]) ELSE said[x] = <<>>)
  BY <1>2 DEF IInv, StepInv, SaidInv
<1>7. GoodState(x, ip[x])
  BY <1>2 DEF IInv, CmdInv
<1>8. GoodLine(x, ip[x].cmd, said[x])
  BY <1>2 DEF IInv, LineTrue, GoodLine, Powering
<1> QED BY <1>1, <1>2, <1>3, <1>4, <1>5, <1>6, <1>7, <1>8

\* The lists are as they were.
LEMMA SameLists ==
  ASSUME PlaceInv, BatchInv, UNCHANGED <<args, batch, pending, adding, next>>
  PROVE  /\ PlaceInv' /\ BatchInv'
         /\ \A x : (On(x)' <=> On(x)) /\ (Waits(x)' <=> Waits(x)) /\ (Taken(x)' <=> Taken(x))
<1>1. \A x : (On(x)' <=> On(x)) /\ (Waits(x)' <=> Waits(x)) /\ (Taken(x)' <=> Taken(x))
  BY DEF On, Waits, Taken
<1>2. PlaceInv'
  BY DEF PlaceInv, On, Waits
<1>3. BatchInv'
  BY DEF BatchInv, On, Waits
<1> QED BY <1>1, <1>2, <1>3

\* Nothing is known of packets that are gone.
LEMMA FewerPackets ==
  ASSUME PacketInv, UNCHANGED <<args, batch, ip, did>>,
         \A h \in Hosts : Packets(h)' \subseteq Packets(h)
  PROVE  PacketInv'
<1> SUFFICES ASSUME NEW h \in Hosts, NEW p \in Packets(h)
             PROVE  GoodPacket(h, p)'
  BY DEF PacketInv
<1>1. GoodPacket(h, p)
  BY DEF PacketInv
<1> QED BY <1>1 DEF GoodPacket, Taken, Asking

LEMMA RunningFinite ==
  ASSUME TypeOK
  PROVE  IsFiniteSet(Running) /\ Cardinality(Running) \in Nat
<1>1. IsFiniteSet(ToSet(pending))
  BY ListFinite DEF TypeOK
<1>2. Running \in SUBSET ToSet(pending)
  BY DEF Running
<1> QED BY <1>1, <1>2, FS_Subset, FS_CardinalityType

\* What a new request leaves of an answer that was good.
LEMMA OlderGood ==
  ASSUME NEW h \in Hosts, NEW p \in Packet, GoodPacket(h, p),
         NEW x \in Ids, NEW r \in State, UNCHANGED <<args, batch, did>>,
         ip \in [Ids -> State], ip' = [ip EXCEPT ![x] = r], Asking(r) => Asking(ip[x])
  PROVE  Older(p) \in Packet /\ GoodPacket(h, Older(p))'
<1> DEFINE q == Older(p)
<1>1. /\ q \in Packet /\ q.cur = FALSE /\ q.id = p.id /\ q.type = p.type /\ q.op = p.op
      /\ q.kind = p.kind /\ p.id \in Ids
  BY DEF Packet, Older, PowerStates
<1> HIDE DEF q
<1>2. HostOf[p.id] = h /\ Taken(p.id)'
  BY DEF GoodPacket, Taken
<1>3. p.type \in Control => ~ Asking(ip[p.id])'
  BY <1>1 DEF GoodPacket, Asking
<1>4. p.type \in Control /\ p.op \in Powering /\ args.onIfOff => "on" \in did[p.id].before
  BY DEF GoodPacket
<1>5. GoodPacket(h, q)'
  BY <1>1, <1>2, <1>3, <1>4 DEF GoodPacket
<1> QED BY <1>1, <1>5 DEF q

\* A request, for the command's new state r.  s is what the command has said.
LEMMA SendTypes ==
  ASSUME IInv, NEW x \in Ids, NEW r \in State, r.st \in Sent,
         NEW in, in \in {<<>>, conn[HostOf[x]].in},
         Send(x, r, in), itr \in 1 .. Len(pending), itr' = itr + 1,
         UNCHANGED <<args, batch, pending, adding, next, power, aim, did, exit>>,
         executing' \in Nat, counts' \subseteq Messages,
         NEW s \in Seq(Messages), said' = [said EXCEPT ![x] = s]
  PROVE  /\ TypeOK'
         /\ LET h == HostOf[x] IN
            /\ \A p \in Packets(h)' : p = Request(x, r.st, r.cmd) \/ \E q \in Packets(h) : p = Older(q)
            /\ \A g \in Hosts : g # h => Packets(g)' = Packets(g)
            /\ \A g \in Hosts : Packets(g) \subseteq Packet
         /\ AnswerInv'
<1> DEFINE h == HostOf[x]
           o == Queued(conn[h].out, Request(x, r.st, r.cmd))
           inn == [i \in DOMAIN in |-> Older(in[i])]
<1>1. h \in Hosts
  BY PowerAssumption
<1>2. \A g \in Hosts : conn[g] \in [in: Seq(Packet), out: Seq(Packet)]
  BY DEF IInv, TypeOK
<1>3. conn[h].in \in Seq(Packet) /\ Len(conn[h].in) <= 1 /\ conn[h].out \in Seq(Packet)
  BY <1>1, <1>2 DEF IInv, TypeOK
<1>4. Request(x, r.st, r.cmd) \in Packet
  BY DEF Request, Packet, State, PowerStates
<1>5. o \in Seq(Packet) /\ Len(o) <= 2 /\ ToSet(o) \subseteq {Request(x, r.st, r.cmd)}
  <2> DEFINE q == Request(x, r.st, r.cmd)
  <2>0. q \in Packet
    BY <1>4
  <2> HIDE DEF q
  <2>1. o = <<q>> \/ o = <<q, q>>
    BY DEF Queued, q
  <2>2. o \in Seq(Packet) /\ Len(o) <= 2
    <3> HIDE DEF o
    <3>1. CASE o = <<q>>
      BY <2>0, <3>1
    <3>2. CASE o = <<q, q>>
      BY <2>0, <3>2
    <3> QED BY <2>1, <3>1, <3>2
  <2>3. \A k \in 1 .. Len(o) : o[k] = q
    BY <2>1
  <2> QED BY <2>2, <2>3, InList DEF q
<1>6. \A p \in Packet : Older(p) \in Packet
  BY DEF Older, Packet, PowerStates
<1>7. in \in Seq(Packet) /\ Len(in) <= 1 /\ ToSet(in) \subseteq ToSet(conn[h].in)
  <2>1. CASE in = conn[h].in
    BY <2>1, <1>3
  <2>2. CASE in = <<>>
    BY <2>2 DEF ToSet
  <2> QED BY <2>1, <2>2
<1>8. DOMAIN in = 1 .. Len(in) /\ \A i \in 1 .. Len(in) : in[i] \in Packet
  BY <1>7
<1>9. inn \in Seq(Packet) /\ Len(inn) <= 1
  BY <1>6, <1>7, <1>8
<1>10. \A p \in ToSet(inn) : \E q \in ToSet(conn[h].in) : p = Older(q)
  <2> SUFFICES ASSUME NEW p \in ToSet(inn)
               PROVE  \E q \in ToSet(in) : p = Older(q)
    BY <1>7
  <2>1. PICK i \in DOMAIN in : p = Older(in[i])
    BY DEF ToSet
  <2> QED BY <2>1 DEF ToSet
<1>11. conn' = [conn EXCEPT ![h] = [in |-> inn, out |-> o]]
  BY DEF Send
<1> HIDE DEF inn, o
<1>12. conn'[h].in = inn /\ conn'[h].out = o /\ \A g \in Hosts : g # h => conn'[g] = conn[g]
  BY <1>1, <1>11 DEF IInv, TypeOK
<1>13. net' = [net EXCEPT ![h] = {Older(p) : p \in net[h]}]
  BY DEF Send
<1>14. conn' \in [Hosts -> [in: Seq(Packet), out: Seq(Packet)]]
  BY <1>1, <1>2, <1>5, <1>9, <1>11 DEF IInv, TypeOK
<1>15. \A g \in Hosts : Len(conn'[g].in) <= 1 /\ Len(conn'[g].out) <= 2
  BY <1>1, <1>12, <1>5, <1>9 DEF IInv, TypeOK
<1>16. net \in [Hosts -> SUBSET Packet]
  BY DEF IInv, TypeOK
<1>17. net' \in [Hosts -> SUBSET Packet]
  BY <1>1, <1>6, <1>13, <1>16
<1>18. TypeOK'
  <2>1. ip' \in [Ids -> [st: Sent \cup {"start", "end"}, cmd: AllOps, wait: BOOLEAN]]
    BY DEF Send, IInv, TypeOK, State
  <2>2. said' \in [Ids -> Seq(Messages)]
    BY DEF IInv, TypeOK
  <2>3. itr' \in 1 .. Len(pending') + 1
    BY DEF IInv, TypeOK
  <2>4. Targets' = Targets
    BY DEF Targets, TargetOf
  <2> QED BY <1>14, <1>15, <1>17, <2>1, <2>2, <2>3, <2>4 DEF IInv, TypeOK
<1>19. ASSUME NEW p \in Packets(h)'
       PROVE  p = Request(x, r.st, r.cmd) \/ \E q \in Packets(h) : p = Older(q)
  <2>1. CASE p \in net'[h]
    BY <2>1, <1>1, <1>13, <1>16 DEF Packets
  <2>2. CASE p \in ToSet(inn)
    BY <2>2, <1>10 DEF Packets
  <2>3. CASE p \in ToSet(o)
    BY <2>3, <1>5
  <2> QED BY <1>12, <2>1, <2>2, <2>3 DEF Packets
<1>20. ASSUME NEW g \in Hosts, g # h PROVE Packets(g)' = Packets(g)
  BY <1>20, <1>12, <1>13, <1>16 DEF Packets
<1>21. ASSUME NEW g \in Hosts PROVE Packets(g) \subseteq Packet
  BY <1>2, <1>16, InList DEF Packets
<1>22. AnswerInv'
  <2> SUFFICES ASSUME NEW g \in Hosts, NEW p \in ToSet(conn'[g].in)
               PROVE  p.kind = "rs"
    BY DEF AnswerInv
  <2>1. CASE g # h
    BY <2>1, <1>12 DEF IInv, AnswerInv
  <2>2. CASE g = h
    <3>1. PICK q \in ToSet(conn[h].in) : p = Older(q)
      BY <2>2, <1>10, <1>12
    <3>2. q.kind = "rs" /\ q \in Packet
      BY <1>1, <1>3, InList DEF IInv, AnswerInv
    <3> QED BY <3>1, <3>2 DEF Older, Packet
  <2> QED BY <2>1, <2>2
<1> QED BY <1>18, <1>19, <1>20, <1>21, <1>22

LEMMA SendInv ==
  ASSUME IInv, itr \in DOMAIN pending, NEW x, x = pending[itr],
         NEW r \in State, r.st \in Sent,
         NEW in, in \in {<<>>, conn[HostOf[x]].in}, Send(x, r, in),
         ip[x].st = "start" => ~ FanoutFull,
         executing' = IF ip[x].st = "start" THEN executing + 1 ELSE executing,
         itr' = itr + 1, counts' \subseteq Messages,
         UNCHANGED <<args, batch, pending, adding, next, power, aim, did, exit>>,
         NEW s \in Seq(Messages), said' = [said EXCEPT ![x] = s],
         IF r.st = "close" THEN Told(s) ELSE s = <<>>,
         GoodLine(x, r.cmd, s), GoodState(x, r), Asking(r) => Asking(ip[x])
  PROVE  IInv'
<1>0. /\ x \in Ids /\ HostOf[x] \in Hosts /\ x \in ToSet(pending) /\ x \notin ToSet(adding)
      /\ ~ Waits(x) /\ Taken(x) /\ itr \in 1 .. Len(pending)
  BY Current
<1>00. executing' \in Nat
  BY DEF IInv, TypeOK
<1>1. /\ ip \in [Ids -> State] /\ said \in [Ids -> Seq(Messages)]
  BY DEF IInv, TypeOK, State
<1>2. /\ ip' = [ip EXCEPT ![x] = r]
      /\ ip'[x] = r /\ \A y \in Ids : y # x => ip'[y] = ip[y]
  BY <1>0, <1>1 DEF Send
<1>3. said'[x] = s /\ \A y \in Ids : y # x => said'[y] = said[y]
  BY <1>0, <1>1
<1>4. TypeOK' /\ AnswerInv'
  BY <1>0, <1>00, SendTypes
<1>5. /\ PlaceInv' /\ BatchInv'
      /\ \A y : (On(y)' <=> On(y)) /\ (Waits(y)' <=> Waits(y)) /\ (Taken(y)' <=> Taken(y))
  BY SameLists DEF IInv
<1>6. r.st # "start" /\ r.st # "end"
  BY DEF Sent, Session, Setup, Operation
<1>7. StepInv'
  <2> SUFFICES ASSUME NEW y \in Ids
               PROVE  /\ y \in ToSet(adding) \/ Waits(y) \/ ~ Taken(y) =>
                           ip'[y].st = "start" /\ ~ ip'[y].wait
                      /\ y \in ToSet(pending) => ip'[y].st # "end"
    BY <1>5 DEF StepInv
  <2> QED BY <1>0, <1>2, <1>6 DEF IInv, StepInv
<1>8. FanoutKept'
  <2>1. IsFiniteSet(Running) /\ Cardinality(Running) \in Nat
    BY RunningFinite DEF IInv
  <2>2. executing = Cardinality(Running) /\ (args.fanout > 0 => executing <= args.fanout)
    BY DEF IInv, FanoutKept
  <2>3. ToSet(pending) \subseteq Ids
    BY InList DEF IInv, TypeOK
  <2>4. Running' = Running \cup {x}
    <3> SUFFICES ASSUME NEW y PROVE y \in Running' <=> y \in Running \/ y = x
      OBVIOUS
    <3> QED BY <1>0, <1>2, <1>6, <2>3 DEF Running
  <2>5. x \in Running <=> ip[x].st # "start"
    BY <1>0 DEF Running
  <2>6. executing' = Cardinality(Running')
    BY <2>1, <2>2, <2>4, <2>5, FS_AddElement
  <2>7. args.fanout \in Nat
    BY PowerAssumption DEF IInv, TypeOK, AllArgs
  <2>8. args.fanout > 0 => executing' <= args.fanout
    BY <2>1, <2>2, <2>7 DEF FanoutFull
  <2> QED BY <2>6, <2>8 DEF FanoutKept
<1>9. SaidInv'
  <2> SUFFICES ASSUME NEW y \in Ids
               PROVE  /\ y \in ToSet(adding) \/ Waits(y) \/ ~ Taken(y) => said'[y] = <<>>
                      /\ y \in ToSet(pending) =>
                           IF ip'[y].st = "close" THEN Told(said'[y]) ELSE said'[y] = <<>>
                      /\ Taken(y) /\ ~ On(y) /\ ~ Waits(y) => Told(said'[y])
    BY <1>5 DEF SaidInv, Told
  <2>1. CASE y = x
    BY <2>1, <1>0, <1>2, <1>3 DEF On
  <2>2. CASE y # x
    BY <2>2, <1>2, <1>3 DEF IInv, SaidInv
  <2> QED BY <2>1, <2>2
<1>10. CmdInv'
  <2> SUFFICES ASSUME NEW y \in Ids PROVE GoodState(y, ip'[y])
    BY DEF CmdInv, GoodState, Asking, WaitsFor
  <2> QED BY <1>2 DEF IInv, CmdInv
<1>11. PacketInv'
  <2> SUFFICES ASSUME NEW h \in Hosts, NEW p \in Packets(h)'
               PROVE  GoodPacket(h, p)'
    BY DEF PacketInv
  <2>1. /\ \A q \in Packets(HostOf[x])' :
             q = Request(x, r.st, r.cmd) \/ \E o \in Packets(HostOf[x]) : q = Older(o)
        /\ \A g \in Hosts : g # HostOf[x] => Packets(g)' = Packets(g)
        /\ \A g \in Hosts : Packets(g) \subseteq Packet
    BY <1>0, <1>00, SendTypes
  <2>2. CASE h # HostOf[x]
    <3>1. p \in Packet /\ p.id \in Ids /\ GoodPacket(h, p)
      BY <2>1, <2>2 DEF IInv, PacketInv, Packet
    <3>2. p.id # x
      BY <2>2, <3>1 DEF GoodPacket
    <3>3. ip'[p.id] = ip[p.id] /\ (Taken(p.id)' <=> Taken(p.id))
      BY <3>1, <3>2, <1>2, <1>5
    <3> QED BY <3>1, <3>3 DEF GoodPacket, Asking
  <2>3. CASE h = HostOf[x] /\ p = Request(x, r.st, r.cmd)
    <3>1. /\ p.id = x /\ p.cur = TRUE /\ p.kind = "rq" /\ p.type = r.st /\ p.op = r.cmd
      BY <2>3 DEF Request
    <3>2. r.st \in Control => ~ Asking(r)'
      BY DEF Control, Asking, Setup, Report
    <3>3. r.st \in Control /\ r.cmd \in Powering /\ args.onIfOff => "on" \in did[x].before
      BY DEF GoodState
    <3> QED BY <2>3, <3>1, <3>2, <3>3, <1>0, <1>2, <1>5 DEF GoodPacket
  <2>4. CASE h = HostOf[x] /\ \E o \in Packets(h) : p = Older(o)
    <3>1. PICK o \in Packets(h) : p = Older(o)
      BY <2>4
    <3>2. o \in Packet /\ GoodPacket(h, o)
      BY <2>1, <3>1 DEF IInv, PacketInv
    <3> QED BY <3>1, <3>2, <1>0, <1>1, <1>2, OlderGood
  <2> QED BY <2>1, <2>2, <2>3, <2>4
<1>12. LineTrue'
  <2> SUFFICES ASSUME NEW y \in Ids PROVE GoodLine(y, ip'[y].cmd, said'[y])
    BY DEF LineTrue, GoodLine, WaitsFor, Powering
  <2>1. CASE y = x
    BY <2>1, <1>2, <1>3
  <2>2. CASE y # x
    BY <2>2, <1>2, <1>3 DEF IInv, LineTrue, GoodLine, Powering
  <2> QED BY <2>1, <2>2
<1> QED BY <1>4, <1>5, <1>7, <1>8, <1>9, <1>10, <1>11, <1>12 DEF IInv

\* A step that only loses packets, or moves them.
LEMMA IdleInv ==
  ASSUME IInv, TypeOK', \A h \in Hosts : Packets(h)' \subseteq Packets(h), AnswerInv',
         UNCHANGED <<args, batch, pending, adding, next, ip, executing, said, did>>
  PROVE  IInv'
<1>1. /\ PlaceInv' /\ BatchInv'
      /\ \A y : (On(y)' <=> On(y)) /\ (Waits(y)' <=> Waits(y)) /\ (Taken(y)' <=> Taken(y))
  BY SameLists DEF IInv
<1>2. StepInv'
  BY <1>1 DEF IInv, StepInv
<1>3. FanoutKept'
  BY DEF IInv, FanoutKept, Running
<1>4. SaidInv'
  BY <1>1 DEF IInv, SaidInv, Told
<1>5. CmdInv'
  BY DEF IInv, CmdInv, GoodState, Asking, WaitsFor
<1>6. PacketInv'
  BY FewerPackets DEF IInv
<1>7. LineTrue'
  BY DEF IInv, LineTrue, WaitsFor
<1> QED BY <1>1, <1>2, <1>3, <1>4, <1>5, <1>6, <1>7 DEF IInv

\* What was in ipmi_in has been read.
LEMMA ReadPackets ==
  ASSUME TypeOK, NEW h \in Hosts, UNCHANGED net,
         conn' \in {conn, [conn EXCEPT ![h].in = <<>>]}
  PROVE  /\ conn' \in [Hosts -> [in: Seq(Packet), out: Seq(Packet)]]
         /\ \A g \in Hosts : Len(conn'[g].in) <= 1 /\ Len(conn'[g].out) <= 2
         /\ \A g \in Hosts : Packets(g)' \subseteq Packets(g)
         /\ AnswerInv => AnswerInv'
<1>1. CASE conn' = conn
  BY <1>1 DEF TypeOK, Packets, AnswerInv
<1>2. CASE conn' = [conn EXCEPT ![h].in = <<>>]
  <2>1. conn \in [Hosts -> [in: Seq(Packet), out: Seq(Packet)]]
    BY DEF TypeOK
  <2>2. conn[h] \in [in: Seq(Packet), out: Seq(Packet)]
    BY <2>1
  <2>3. /\ conn'[h] = [in |-> <<>>, out |-> conn[h].out]
        /\ \A g \in Hosts : g # h => conn'[g] = conn[g]
        /\ conn' = [g \in Hosts |-> IF g = h THEN [in |-> <<>>, out |-> conn[h].out] ELSE conn[g]]
    BY <1>2, <2>1, <2>2
  <2>4. [in |-> <<>>, out |-> conn[h].out] \in [in: Seq(Packet), out: Seq(Packet)]
    BY <2>2
  <2>5. conn' \in [Hosts -> [in: Seq(Packet), out: Seq(Packet)]]
    BY <2>1, <2>3, <2>4
  <2>6. ToSet(<<>>) = {}
    BY DEF ToSet
  <2>7. AnswerInv => AnswerInv'
    BY <2>3, <2>6 DEF AnswerInv
  <2> QED BY <2>3, <2>5, <2>6, <2>7 DEF TypeOK, Packets
<1> QED BY <1>1, <1>2

LEMMA QuietInv ==
  ASSUME IInv, itr \in DOMAIN pending, NEW x, x = pending[itr], Advance,
         conn' \in {conn, [conn EXCEPT ![HostOf[x]].in = <<>>]},
         UNCHANGED <<args, batch, power, aim, did, exit, ip, net, counts, said>>
  PROVE  IInv'
<1>1. HostOf[x] \in Hosts /\ itr \in 1 .. Len(pending)
  BY Current
<1>2. TypeOK /\ UNCHANGED net
  BY DEF IInv
<1>3. /\ conn' \in [Hosts -> [in: Seq(Packet), out: Seq(Packet)]]
      /\ \A g \in Hosts : Len(conn'[g].in) <= 1 /\ Len(conn'[g].out) <= 2
      /\ \A g \in Hosts : Packets(g)' \subseteq Packets(g)
      /\ AnswerInv'
  BY <1>1, <1>2, ReadPackets DEF IInv
<1>4. Targets' = Targets
  BY DEF Targets, TargetOf
<1>5. itr' \in 1 .. Len(pending') + 1
  BY <1>1, <1>2, SMTT(30) DEF Advance, TypeOK
<1>6. UNCHANGED <<pending, adding, next, executing>>
  BY DEF Advance
<1>7. TypeOK'
  BY <1>2, <1>3, <1>4, <1>5, <1>6 DEF TypeOK
<1> QED BY <1>3, <1>6, <1>7, IdleInv

\* The command is over, and the one chained to it has its turn.
LEMMA FinishPlace ==
  ASSUME IInv, itr \in DOMAIN pending, NEW x, x = pending[itr], Finish(x),
         UNCHANGED <<args, batch>>
  PROVE  /\ PlaceInv' /\ BatchInv'
         /\ pending' \in Seq(Ids) /\ adding' \in Seq(Ids) /\ Len(pending') = Len(pending) - 1
         /\ next' \in [Ids -> Ids \cup {None}]
         /\ \A y : y \in ToSet(pending') <=> y \in ToSet(pending) /\ y # x
         /\ \A y \in Ids : /\ y \in ToSet(adding') => y \in ToSet(adding) \/ Waits(y)
                           /\ Waits(y)' => Waits(y)
                           /\ On(y)' \/ Waits(y)' <=> y # x /\ (On(y) \/ Waits(y))
<1> DEFINE z == next[x]
<1>1. /\ pending \in Seq(Ids) /\ adding \in Seq(Ids) /\ next \in [Ids -> Ids \cup {None}]
      /\ None \notin Ids /\ PlaceInv /\ BatchInv
  BY PowerAssumption DEF IInv, TypeOK
<1>2. /\ x \in Ids /\ x \in ToSet(pending) /\ x \notin ToSet(adding) /\ ~ Waits(x)
      /\ itr \in 1 .. Len(pending)
  BY Current
<1>3. /\ pending' = RemoveAt(pending, itr)
      /\ adding' = IF z = None THEN adding ELSE Append(adding, z)
      /\ next' = [next EXCEPT ![x] = None]
  BY DEF Finish
<1>4. /\ pending' \in Seq(Ids) /\ Len(pending') = Len(pending) - 1 /\ Distinct(pending')
      /\ \A y : y \in ToSet(pending') <=> y \in ToSet(pending) /\ y # x
  BY <1>1, <1>2, <1>3, Removed DEF PlaceInv
<1>5. z # None => z \in Ids /\ Waits(z) /\ ~ On(z) /\ HostOf[z] = HostOf[x] /\ z # x
  <2>1. z # None => z \in Ids /\ Waits(z)
    BY <1>1, <1>2 DEF Waits
  <2> QED BY <1>1, <1>2, <2>1 DEF PlaceInv
<1>6. /\ adding' \in Seq(Ids) /\ Distinct(adding')
      /\ \A y : y \in ToSet(adding') <=> y \in ToSet(adding) \/ (z # None /\ y = z)
  <2>1. CASE z = None
    BY <2>1, <1>1, <1>3 DEF PlaceInv
  <2>2. CASE z # None
    BY <2>2, <1>1, <1>3, <1>5, Appended DEF PlaceInv, On
  <2> QED BY <2>1, <2>2
<1>7. /\ next' \in [Ids -> Ids \cup {None}] /\ next'[x] = None
      /\ \A y \in Ids : y # x => next'[y] = next[y]
  BY <1>1, <1>2, <1>3
<1> HIDE DEF z
<1>8. \A y \in Ids : Waits(y)' <=> Waits(y) /\ (z # None => y # z)
  <2> SUFFICES ASSUME NEW y \in Ids
               PROVE  Waits(y)' <=> Waits(y) /\ (z # None => y # z)
    OBVIOUS
  <2>1. ASSUME Waits(y)' PROVE Waits(y) /\ (z # None => y # z)
    <3>1. PICK o \in Ids : next'[o] = y
      BY <2>1 DEF Waits
    <3>2. o # x /\ next[o] = y
      BY <3>1, <1>1, <1>7
    <3>3. Waits(y)
      BY <3>2 DEF Waits
    <3>4. ASSUME z # None, y = z PROVE FALSE
      <4>1. next[o] = next[x] /\ next[x] # None
        BY <3>2, <3>4 DEF z
      <4> QED BY <4>1, <3>2, <1>1, <1>2 DEF PlaceInv
    <3> QED BY <3>3, <3>4
  <2>2. ASSUME Waits(y), z # None => y # z PROVE Waits(y)'
    <3>1. PICK o \in Ids : next[o] = y
      BY <2>2 DEF Waits
    <3>2. o # x
      BY <2>2, <3>1, <1>1 DEF z
    <3> QED BY <3>1, <3>2, <1>7 DEF Waits
  <2> QED BY <2>1, <2>2
<1>9. \A y \in Ids : On(y)' <=> (On(y) /\ y # x) \/ (z # None /\ y = z)
  BY <1>2, <1>4, <1>6 DEF On
<1>10. \A y \in Ids : On(y)' \/ Waits(y)' <=> y # x /\ (On(y) \/ Waits(y))
  BY <1>2, <1>5, <1>8, <1>9
<1>11. PlaceInv'
  <2>1. \A y \in Ids : ~ (y \in ToSet(pending') /\ y \in ToSet(adding'))
    BY <1>1, <1>4, <1>5, <1>6 DEF PlaceInv, On
  <2>2. \A y, w \in Ids : On(y)' /\ On(w)' /\ HostOf[y] = HostOf[w] => y = w
    <3>1. On(x)
      BY <1>2 DEF On
    <3>2. \A y, w \in Ids : On(y) /\ On(w) /\ HostOf[y] = HostOf[w] => y = w
      BY <1>1 DEF PlaceInv
    <3>3. \A y \in Ids : On(y) /\ y # x => HostOf[y] # HostOf[x]
      BY <3>1, <3>2, <1>2
    <3> QED BY <3>2, <3>3, <1>5, <1>9
  <2>3. \A y \in Ids : ~ (On(y)' /\ Waits(y)')
    BY <1>1, <1>8, <1>9 DEF PlaceInv
  <2>4. \A y, w \in Ids : next'[y] = next'[w] /\ next'[y] # None => y = w
    BY <1>1, <1>7 DEF PlaceInv
  <2>5. ASSUME NEW y \in Ids, next'[y] # None
        PROVE  HostOf[next'[y]] = HostOf[y] /\ (On(y)' \/ Waits(y)')
    <3>1. y # x /\ next'[y] = next[y]
      BY <2>5, <1>7
    <3>2. HostOf[next[y]] = HostOf[y] /\ (On(y) \/ Waits(y))
      BY <2>5, <3>1, <1>1 DEF PlaceInv
    <3> QED BY <3>1, <3>2, <1>10
  <2> QED BY <1>4, <1>6, <2>1, <2>2, <2>3, <2>4, <2>5 DEF PlaceInv
<1>12. BatchInv'
  <2>1. ASSUME NEW y \in Ids, On(y)' \/ Waits(y)' \/ next'[y] # None
        PROVE  batch > 0 /\ y \in ToSet(args.batches[batch])
    <3>1. On(y) \/ Waits(y) \/ next[y] # None
      BY <2>1, <1>7, <1>10
    <3> QED BY <3>1, <1>1 DEF BatchInv
  <2>2. ASSUME batch > 0, NEW i \in DOMAIN args.batches[batch], NEW j \in DOMAIN args.batches[batch],
               next'[args.batches[batch][i]] = args.batches[batch][j]
        PROVE  i < j
    <3>1. batch \in 1 .. Len(args.batches) /\ args \in Args
      BY <2>2 DEF IInv, TypeOK
    <3>2. args.batches[batch] \in Seq(Ids)
      BY <3>1, BatchFacts
    <3>3. args.batches[batch][i] \in Ids /\ args.batches[batch][j] \in Ids
      BY <3>2
    <3>4. next[args.batches[batch][i]] = args.batches[batch][j]
      BY <2>2, <3>3, <1>1, <1>7
    <3> QED BY <2>2, <3>4, <1>1 DEF BatchInv
  <2> QED BY <2>1, <2>2 DEF BatchInv
<1>13. \A y \in Ids : /\ y \in ToSet(adding') => y \in ToSet(adding) \/ Waits(y)
                      /\ Waits(y)' => Waits(y)
  BY <1>5, <1>6, <1>8
<1> QED BY <1>4, <1>6, <1>7, <1>10, <1>11, <1>12, <1>13

LEMMA FinishInv ==
  ASSUME IInv, itr \in DOMAIN pending, NEW x, x = pending[itr], Finish(x),
         ip[x].st # "start", UNCHANGED net,
         conn' \in {conn, [conn EXCEPT ![HostOf[x]].in = <<>>]},
         UNCHANGED <<args, batch, power, aim, did, exit>>, counts' \subseteq Messages,
         NEW s \in Seq(Messages), said' = [said EXCEPT ![x] = s],
         Told(s), GoodLine(x, ip[x].cmd, s)
  PROVE  IInv'
<1> DEFINE r == [ip[x] EXCEPT !.st = "end", !.wait = FALSE]
<1>1. /\ x \in Ids /\ HostOf[x] \in Hosts /\ x \in ToSet(pending) /\ x \notin ToSet(adding)
      /\ ~ Waits(x) /\ Taken(x) /\ itr \in 1 .. Len(pending) /\ ip[x] \in State
  BY Current
<1>2. /\ ip \in [Ids -> State] /\ said \in [Ids -> Seq(Messages)] /\ pending \in Seq(Ids)
      /\ TypeOK
  BY DEF IInv, TypeOK, State
<1>3. r \in State /\ r.st = "end" /\ r.wait = FALSE /\ r.cmd = ip[x].cmd
  BY <1>1 DEF State
<1>4. ip' = [ip EXCEPT ![x] = r]
  <2>1. ip' = [ip EXCEPT ![x].st = "end", ![x].wait = FALSE]
    BY DEF Finish
  <2> QED BY <1>1, <1>2, <2>1
<1> HIDE DEF r
<1>5. ip'[x] = r /\ \A y \in Ids : y # x => ip'[y] = ip[y]
  BY <1>1, <1>2, <1>4
<1>6. said'[x] = s /\ \A y \in Ids : y # x => said'[y] = said[y]
  BY <1>1, <1>2
<1>7. /\ PlaceInv' /\ BatchInv'
      /\ pending' \in Seq(Ids) /\ adding' \in Seq(Ids) /\ Len(pending') = Len(pending) - 1
      /\ next' \in [Ids -> Ids \cup {None}]
      /\ \A y : y \in ToSet(pending') <=> y \in ToSet(pending) /\ y # x
      /\ \A y \in Ids : /\ y \in ToSet(adding') => y \in ToSet(adding) \/ Waits(y)
                        /\ Waits(y)' => Waits(y)
                        /\ On(y)' \/ Waits(y)' <=> y # x /\ (On(y) \/ Waits(y))
  BY FinishPlace
<1>8. \A y : Taken(y)' <=> Taken(y)
  BY DEF Taken
<1>9. /\ conn' \in [Hosts -> [in: Seq(Packet), out: Seq(Packet)]]
      /\ \A g \in Hosts : Len(conn'[g].in) <= 1 /\ Len(conn'[g].out) <= 2
      /\ \A g \in Hosts : Packets(g)' \subseteq Packets(g)
      /\ AnswerInv'
  BY <1>1, <1>2, ReadPackets DEF IInv
<1>10. x \in Running /\ Running' = Running \ {x}
  <2>1. x \in Running
    BY <1>1 DEF Running
  <2>2. ToSet(pending) \subseteq Ids
    BY <1>2, InList
  <2>3. ASSUME NEW y PROVE y \in Running' <=> y \in Running /\ y # x
    BY <1>5, <1>7, <2>2 DEF Running
  <2> QED BY <2>1, <2>3
<1>11. executing' \in Nat /\ FanoutKept'
  <2>1. IsFiniteSet(Running) /\ Cardinality(Running) \in Nat
    BY <1>2, RunningFinite
  <2>2. executing = Cardinality(Running) /\ (args.fanout > 0 => executing <= args.fanout)
    BY DEF IInv, FanoutKept
  <2>3. executing' = executing - 1
    BY DEF Finish
  <2>4. executing' = Cardinality(Running') /\ IsFiniteSet(Running')
    BY <2>1, <2>2, <2>3, <1>10, FS_RemoveElement
  <2>5. executing' \in Nat
    BY <2>4, FS_CardinalityType
  <2>6. args.fanout \in Nat
    BY <1>2, PowerAssumption DEF TypeOK, AllArgs
  <2> QED BY <2>1, <2>2, <2>3, <2>4, <2>5, <2>6 DEF FanoutKept
<1>12. TypeOK'
  <2>1. ip' \in [Ids -> [st: Sent \cup {"start", "end"}, cmd: AllOps, wait: BOOLEAN]]
    BY <1>2, <1>3, <1>4 DEF State
  <2>2. said' \in [Ids -> Seq(Messages)]
    BY <1>2
  <2>3. itr' \in 1 .. Len(pending') + 1
    BY <1>1, <1>2, <1>7 DEF Finish
  <2>4. Targets' = Targets
    BY DEF Targets, TargetOf
  <2> QED BY <1>2, <1>7, <1>9, <1>11, <2>1, <2>2, <2>3, <2>4 DEF TypeOK
<1>13. StepInv'
  <2> SUFFICES ASSUME NEW y \in Ids
               PROVE  /\ y \in ToSet(adding') \/ Waits(y)' \/ ~ Taken(y) =>
                           ip'[y].st = "start" /\ ~ ip'[y].wait
                      /\ y \in ToSet(pending') => ip'[y].st # "end"
    BY <1>8 DEF StepInv
  <2>1. CASE y = x
    BY <2>1, <1>1, <1>7
  <2>2. CASE y # x
    BY <2>2, <1>5, <1>7 DEF IInv, StepInv
  <2> QED BY <2>1, <2>2
<1>14. SaidInv'
  <2> SUFFICES ASSUME NEW y \in Ids
               PROVE  /\ y \in ToSet(adding') \/ Waits(y)' \/ ~ Taken(y) => said'[y] = <<>>
                      /\ y \in ToSet(pending') =>
                           IF ip'[y].st = "close" THEN Told(said'[y]) ELSE said'[y] = <<>>
                      /\ Taken(y) /\ ~ On(y)' /\ ~ Waits(y)' => Told(said'[y])
    BY <1>8 DEF SaidInv, Told
  <2>1. CASE y = x
    BY <2>1, <1>1, <1>6, <1>7
  <2>2. CASE y # x
    BY <2>2, <1>5, <1>6, <1>7 DEF IInv, SaidInv
  <2> QED BY <2>1, <2>2
<1>15. CmdInv'
  <2> SUFFICES ASSUME NEW y \in Ids PROVE GoodState(y, ip'[y])
    BY DEF CmdInv, GoodState, Asking, WaitsFor
  <2>1. GoodState(x, r)
    BY <1>3 DEF GoodState, Asking, Setup, Report, Control
  <2> QED BY <2>1, <1>5 DEF IInv, CmdInv
<1>16. PacketInv'
  <2> SUFFICES ASSUME NEW h \in Hosts, NEW p \in Packets(h)'
               PROVE  GoodPacket(h, p)'
    BY DEF PacketInv
  <2>1. p \in Packets(h) /\ GoodPacket(h, p)
    BY <1>9 DEF IInv, PacketInv
  <2>2. p \in Packet /\ p.id \in Ids
    <3>1. /\ net[h] \subseteq Packet /\ conn[h] \in [in: Seq(Packet), out: Seq(Packet)]
      BY <1>2 DEF TypeOK
    <3>2. p \in Packet
      BY <2>1, <3>1, InList DEF Packets
    <3> QED BY <3>2 DEF Packet
  <2>3. CASE p.id = x
    <3>1. ~ Asking(ip[x])'
      BY <1>3, <1>5 DEF Asking, Setup, Report
    <3> QED BY <2>1, <2>3, <3>1, <1>3, <1>5, <1>8 DEF GoodPacket
  <2>4. CASE p.id # x
    <3>1. ip'[p.id] = ip[p.id] /\ (Taken(p.id)' <=> Taken(p.id))
      BY <2>2, <2>4, <1>5, <1>8
    <3> QED BY <2>1, <3>1 DEF GoodPacket, Asking
  <2> QED BY <2>3, <2>4
<1>17. LineTrue'
  <2> SUFFICES ASSUME NEW y \in Ids PROVE GoodLine(y, ip'[y].cmd, said'[y])
    BY DEF LineTrue, GoodLine, WaitsFor, Powering
  <2>1. CASE y = x
    BY <2>1, <1>3, <1>5, <1>6
  <2>2. CASE y # x
    BY <2>2, <1>5, <1>6 DEF IInv, LineTrue, GoodLine, Powering
  <2> QED BY <2>1, <2>2
<1> QED BY <1>7, <1>9, <1>11, <1>12, <1>13, <1>14, <1>15, <1>16, <1>17 DEF IInv

-----------------------------------------------------------------------------
(* The steps of _process_ipmi_packets() *)

\* What is not an operation of ProcessPackets does not change.
Aside == UNCHANGED <<args, batch, power, aim, did, exit>>

LEMMA Spoken ==
  ASSUME IInv, NEW x \in Ids, said[x] = <<>>, NEW m \in Messages, Output(x, m)
  PROVE  /\ said' = [said EXCEPT ![x] = <<m>>] /\ counts' \subseteq Messages
         /\ <<m>> \in Seq(Messages) /\ Len(<<m>>) = 1 /\ <<m>> # <<>> /\ <<m>>[1] = m
         /\ Told(<<m>>)
<1>1. said \in [Ids -> Seq(Messages)] /\ counts \subseteq Messages
  BY DEF IInv, TypeOK
<1>2. Append(said[x], m) = <<m>>
  OBVIOUS
<1>3. <<m>> \in Seq(Messages) /\ Len(<<m>>) = 1 /\ <<m>> # <<>> /\ <<m>>[1] = m
  OBVIOUS
<1> QED BY <1>1, <1>2, <1>3 DEF Output, Told

LEMMA Silent ==
  ASSUME IInv, NEW x \in Ids, UNCHANGED history
  PROVE  /\ said' = [said EXCEPT ![x] = said[x]] /\ counts' \subseteq Messages
         /\ said[x] \in Seq(Messages)
BY DEF IInv, TypeOK, history

\* A line that is not "ok", and no report of the power state.
LEMMA PlainLine ==
  ASSUME NEW x, NEW cmd, NEW lines, GoodLine(x, cmd, lines), NEW m, m # "ok",
         cmd = "status" => m \notin PowerStates
  PROVE  GoodLine(x, cmd, <<m>>)
<1>1. <<m>> # <<"ok">> /\ <<m>>[1] = m
  OBVIOUS
<1> QED BY <1>1 DEF GoodLine

\* The answer that was accepted is to the last request.
LEMMA GoodAnswer ==
  ASSUME IInv, itr \in DOMAIN pending, NEW x, x = pending[itr], NEW type \in Sent,
         type # "close", NEW result, Answered(x, type, result)
  PROVE  /\ ip[x].st = type /\ Answer(x).power \in PowerStates
         /\ type \in Operation => Answer(x).result = result
         /\ type \in Control /\ result = "ok" => ip[x].cmd \in did[x].exec
         /\ type \in Report /\ result = "ok" =>
              Answer(x).power \in (IF ip[x].wait THEN did[x].after ELSE did[x].before)
<1> DEFINE h == HostOf[x]
           a == conn[h].in[1]
<1>1. x \in Ids /\ h \in Hosts /\ ip[x].st # "end"
  BY Current
<1>2. conn[h] \in [in: Seq(Packet), out: Seq(Packet)] /\ In(x) = conn[h].in
  BY <1>1 DEF IInv, TypeOK, In
<1>3. conn[h].in \in Seq(Packet) /\ conn[h].in # <<>>
  BY <1>2 DEF Answered
<1>4. 1 \in 1 .. Len(conn[h].in) /\ Answer(x) = a
  BY <1>2, <1>3 DEF Answer
<1>5. a \in Packet /\ a \in ToSet(conn[h].in)
  BY <1>3, <1>4, InList
<1>6. a.kind = "rs" /\ GoodPacket(h, a)
  BY <1>1, <1>5 DEF IInv, AnswerInv, PacketInv, Packets
<1> HIDE DEF a, h
<1>7. ip[x].st = type /\ a.type = type /\ a.id = x /\ a.cur
  BY <1>1, <1>4 DEF Answered, Accepted
<1>8. type \in Operation => a.result = result
  BY <1>4 DEF Answered
<1>9. Control \cup Report \subseteq Operation
  BY DEF Control, Report, Operation
<1>10. a.power \in PowerStates
  BY <1>5 DEF Packet
<1>11. type \in Control /\ result = "ok" => ip[x].cmd \in did[x].exec
  BY <1>6, <1>7, <1>8, <1>9 DEF GoodPacket
<1>12. type \in Report /\ result = "ok" =>
         a.power \in (IF ip[x].wait THEN did[x].after ELSE did[x].before)
  BY <1>1, <1>6, <1>7, <1>8, <1>9 DEF GoodPacket
<1> QED BY <1>4, <1>7, <1>8, <1>10, <1>11, <1>12

\* The session is closed after the line s.
LEMMA CloseInv ==
  ASSUME IInv, itr \in DOMAIN pending, NEW x, x = pending[itr], ip[x].st # "start",
         Close(x), Aside, counts' \subseteq Messages,
         NEW s \in Seq(Messages), said' = [said EXCEPT ![x] = s],
         Told(s), GoodLine(x, ip[x].cmd, s)
  PROVE  IInv'
<1> DEFINE r == [ip[x] EXCEPT !.st = "close"]
<1>1. ip[x] \in State /\ GoodState(x, ip[x])
  BY Current
<1>2. "close" \in Sent
  BY DEF Sent, Session
<1>3. r \in State /\ r.st = "close" /\ r.cmd = ip[x].cmd /\ r.wait = ip[x].wait
  BY <1>1, <1>2 DEF State
<1>4. Send(x, r, <<>>)
  BY DEF Close, SendPacket
<1>5. executing' = executing /\ itr' = itr + 1 /\ UNCHANGED <<pending, adding, next>>
  BY DEF Close, Advance
<1> HIDE DEF r
<1>6. ~ Asking(r)
  BY <1>3 DEF Asking, Setup, Report
<1>7. GoodState(x, r)
  BY <1>1, <1>3, <1>6 DEF GoodState, Control
<1>8. UNCHANGED <<args, batch, pending, adding, next, power, aim, did, exit>>
  BY <1>5 DEF Aside
<1> QED BY <1>2, <1>3, <1>4, <1>5, <1>6, <1>7, <1>8, SendInv

\* The next request, with nothing printed.
LEMMA RequestInv ==
  ASSUME IInv, itr \in DOMAIN pending, NEW x, x = pending[itr],
         ip[x].st # "start", ip[x].st # "close",
         NEW r \in State, r.st \in Sent, r.st # "close",
         NEW in, in \in {<<>>, conn[HostOf[x]].in}, Send(x, r, in),
         Advance, UNCHANGED history, Aside,
         GoodState(x, r), Asking(r) => Asking(ip[x])
  PROVE  IInv'
<1>1. x \in Ids /\ said[x] = <<>> /\ GoodLine(x, ip[x].cmd, said[x])
  BY Current
<1>2. /\ said' = [said EXCEPT ![x] = said[x]] /\ counts' \subseteq Messages
      /\ said[x] \in Seq(Messages)
  BY <1>1, Silent
<1>3. GoodLine(x, r.cmd, <<>>)
  BY <1>1 DEF GoodLine
<1>4. executing' = executing /\ itr' = itr + 1 /\ UNCHANGED <<pending, adding, next>>
  BY DEF Advance
<1>5. UNCHANGED <<args, batch, pending, adding, next, power, aim, did, exit>>
  BY <1>4 DEF Aside
<1> QED BY <1>1, <1>2, <1>3, <1>4, <1>5, SendInv

LEMMA GiveUpInv ==
  ASSUME IInv, itr \in DOMAIN pending, NEW x, x = pending[itr], GiveUp(x), Aside
  PROVE  IInv'
<1>1. /\ x \in Ids /\ GoodLine(x, ip[x].cmd, said[x])
      /\ (ip[x].st # "close" => said[x] = <<>>) /\ (ip[x].st = "close" => Told(said[x]))
  BY Current
<1>2. /\ ip[x].st # "start" /\ Finish(x) /\ UNCHANGED <<conn, net>>
  BY DEF GiveUp, MayTimeOut
<1>3. UNCHANGED <<args, batch, power, aim, did, exit>>
  BY DEF Aside
<1>4. CASE ip[x].st # "close"
  <2>1. Output(x, "error") /\ "error" \in Messages /\ said[x] = <<>>
    BY <1>1, <1>4 DEF GiveUp, Messages
  <2>2. /\ said' = [said EXCEPT ![x] = <<"error">>] /\ counts' \subseteq Messages
        /\ <<"error">> \in Seq(Messages) /\ Told(<<"error">>)
    BY <1>1, <2>1, Spoken
  <2>3. GoodLine(x, ip[x].cmd, <<"error">>)
    BY <1>1, PlainLine DEF PowerStates
  <2> QED BY <1>2, <1>3, <2>2, <2>3, FinishInv
<1>5. CASE ip[x].st = "close"
  <2>1. UNCHANGED history
    BY <1>5 DEF GiveUp
  <2>2. /\ said' = [said EXCEPT ![x] = said[x]] /\ counts' \subseteq Messages
        /\ said[x] \in Seq(Messages)
    BY <1>1, <2>1, Silent
  <2> QED BY <1>1, <1>2, <1>3, <1>5, <2>2, FinishInv
<1> QED BY <1>4, <1>5

LEMMA RetryPacketsInv ==
  ASSUME IInv, itr \in DOMAIN pending, NEW x, x = pending[itr], RetryPackets(x), Aside
  PROVE  IInv'
<1>1. /\ x \in Ids /\ GoodLine(x, ip[x].cmd, said[x]) /\ ip[x] \in State
      /\ (ip[x].st # "close" => said[x] = <<>>) /\ ip[x].st # "end" /\ GoodState(x, ip[x])
  BY Current
<1>2. ip[x].st # "start" /\ ip[x].st # "close"
  BY DEF RetryPackets
<1>3. CASE Send(x, ip[x], conn[HostOf[x]].in) /\ Advance /\ UNCHANGED history
  <2>1. ip[x].st \in Sent
    BY <1>1, <1>2 DEF State
  <2> QED BY <1>1, <1>2, <1>3, <2>1, RequestInv
<1>4. CASE Output(x, "error") /\ Finish(x) /\ UNCHANGED <<conn, net>>
  <2>1. UNCHANGED <<args, batch, power, aim, did, exit>>
    BY DEF Aside
  <2>2. "error" \in Messages
    BY DEF Messages
  <2>3. /\ said' = [said EXCEPT ![x] = <<"error">>] /\ counts' \subseteq Messages
        /\ <<"error">> \in Seq(Messages) /\ Told(<<"error">>)
    BY <1>1, <1>2, <1>4, <2>2, Spoken
  <2>4. GoodLine(x, ip[x].cmd, <<"error">>)
    BY <1>1, PlainLine DEF PowerStates
  <2> QED BY <1>2, <1>4, <2>1, <2>3, <2>4, FinishInv
<1> QED BY <1>3, <1>4 DEF RetryPackets

\* A command that has closed its session ends.
LEMMA CloseTimeoutInv ==
  ASSUME IInv, itr \in DOMAIN pending, NEW x, x = pending[itr], ip[x].st = "close",
         Finish(x), UNCHANGED <<net, history>>, Aside,
         conn' \in {conn, [conn EXCEPT ![HostOf[x]].in = <<>>]}
  PROVE  IInv'
<1>1. /\ x \in Ids /\ GoodLine(x, ip[x].cmd, said[x]) /\ Told(said[x])
  BY Current
<1>2. /\ said' = [said EXCEPT ![x] = said[x]] /\ counts' \subseteq Messages
      /\ said[x] \in Seq(Messages)
  BY <1>1, Silent
<1>3. UNCHANGED <<args, batch, power, aim, did, exit>> /\ UNCHANGED net
  BY DEF Aside
<1> QED BY <1>1, <1>2, <1>3, FinishInv

LEMMA StartInv ==
  ASSUME IInv, itr \in DOMAIN pending, NEW x, x = pending[itr], Start(x), Aside
  PROVE  IInv'
<1> DEFINE r == [ip[x] EXCEPT !.st = "authcap"]
<1>1. /\ x \in Ids /\ GoodLine(x, ip[x].cmd, said[x]) /\ ip[x] \in State
      /\ (ip[x].st # "close" => said[x] = <<>>) /\ GoodState(x, ip[x])
  BY Current
<1>2. /\ ip[x].st = "start" /\ ~ FanoutFull /\ Send(x, r, conn[HostOf[x]].in)
      /\ executing' = executing + 1 /\ itr' = itr + 1 /\ UNCHANGED history
      /\ UNCHANGED <<pending, adding, next>>
  BY DEF Start
<1>3. "authcap" \in Setup /\ "authcap" \in Sent
  BY DEF Sent, Setup
<1>4. r \in State /\ r.st = "authcap" /\ r.cmd = ip[x].cmd /\ r.wait = ip[x].wait
  BY <1>1, <1>3 DEF State
<1> HIDE DEF r
<1>5. Asking(ip[x]) /\ did[x].exec = {}
  BY <1>1, <1>2 DEF GoodState, Asking, Report
<1>6. GoodState(x, r)
  BY <1>4, <1>5 DEF GoodState, Asking, Control
<1>7. /\ said' = [said EXCEPT ![x] = said[x]] /\ counts' \subseteq Messages
      /\ said[x] \in Seq(Messages)
  BY <1>1, <1>2, Silent
<1>8. UNCHANGED <<args, batch, pending, adding, next, power, aim, did, exit>>
  BY <1>2 DEF Aside
<1> QED BY <1>1, <1>2, <1>3, <1>4, <1>5, <1>6, <1>7, <1>8, SendInv

LEMMA SetupFailedInv ==
  ASSUME IInv, itr \in DOMAIN pending, NEW x, x = pending[itr], SetupFailed(x), Aside
  PROVE  IInv'
<1>1. x \in Ids /\ GoodLine(x, ip[x].cmd, said[x]) /\ (ip[x].st # "close" => said[x] = <<>>)
  BY Current
<1>2. PICK m \in {"error", "bmc_error"} : ip[x].st \in Setup /\ Output(x, m)
  BY DEF SetupFailed, Answered, OutputRefusal
<1>3. /\ Finish(x) /\ UNCHANGED net /\ conn' = [conn EXCEPT ![HostOf[x]].in = <<>>]
      /\ UNCHANGED <<args, batch, power, aim, did, exit>>
  BY DEF SetupFailed, Consumed, Aside
<1>4. ip[x].st # "start" /\ ip[x].st # "close" /\ m \in Messages /\ m # "ok" /\ m \notin PowerStates
  BY <1>2 DEF Setup, Messages, PowerStates
<1>5. /\ said' = [said EXCEPT ![x] = <<m>>] /\ counts' \subseteq Messages
      /\ <<m>> \in Seq(Messages) /\ Told(<<m>>)
  BY <1>1, <1>2, <1>4, Spoken
<1>6. GoodLine(x, ip[x].cmd, <<m>>)
  BY <1>1, <1>4, PlainLine
<1> QED BY <1>3, <1>4, <1>5, <1>6, FinishInv

LEMMA SetupDoneInv ==
  ASSUME IInv, itr \in DOMAIN pending, NEW x, x = pending[itr], SetupDone(x), Aside
  PROVE  IInv'
<1>1. ip[x] \in State /\ GoodState(x, ip[x])
  BY Current
<1>2. PICK type \in Setup :
        /\ ip[x].st = type /\ SendPacket(x, NextSetup(type)) /\ Advance /\ UNCHANGED history
  BY DEF SetupDone, Answered
<1> DEFINE r == [ip[x] EXCEPT !.st = NextSetup(type)]
<1>3. NextSetup(type) \in {"setpriv"} \cup Setup
  BY DEF NextSetup, Setup
<1>4. NextSetup(type) \in Sent /\ NextSetup(type) # "close"
  BY <1>3 DEF Sent, Session, Setup
<1>5. r \in State /\ r.st = NextSetup(type) /\ r.cmd = ip[x].cmd /\ r.wait = ip[x].wait
  BY <1>1, <1>4 DEF State
<1>6. Send(x, r, <<>>)
  BY <1>2 DEF SendPacket
<1> HIDE DEF r
<1>7. Asking(ip[x]) /\ did[x].exec = {}
  BY <1>1, <1>2 DEF GoodState, Asking, Report, Setup
<1>8. GoodState(x, r)
  BY <1>3, <1>5, <1>7 DEF GoodState, Asking, Control, Setup
<1>9. ip[x].st # "start" /\ ip[x].st # "close"
  BY <1>2 DEF Setup
<1> QED BY <1>2, <1>4, <1>5, <1>6, <1>7, <1>8, <1>9, RequestInv

LEMMA RefusedInv ==
  ASSUME IInv, itr \in DOMAIN pending, NEW x, x = pending[itr], Refused(x), Aside
  PROVE  IInv'
<1>1. x \in Ids /\ GoodLine(x, ip[x].cmd, said[x]) /\ (ip[x].st # "close" => said[x] = <<>>)
  BY Current
<1>2. ip[x].st \in Session \ {"close"} /\ Close(x)
  BY DEF Refused, Answered
<1>3. ip[x].st # "start" /\ said[x] = <<>>
  BY <1>1, <1>2 DEF Session, Operation
<1>4. CASE args.version = 15
  <2>1. PICK m \in {"error", "bmc_error"} : Output(x, m)
    BY <1>4 DEF Refused, OutputRefusal
  <2>2. m \in Messages /\ m # "ok" /\ m \notin PowerStates
    BY DEF Messages, PowerStates
  <2>3. /\ said' = [said EXCEPT ![x] = <<m>>] /\ counts' \subseteq Messages
        /\ <<m>> \in Seq(Messages) /\ Told(<<m>>)
    BY <1>1, <1>3, <2>1, <2>2, Spoken
  <2>4. GoodLine(x, ip[x].cmd, <<m>>)
    BY <1>1, <2>2, PlainLine
  <2> QED BY <1>2, <1>3, <2>3, <2>4, CloseInv
<1>5. CASE args.version # 15
  <2>1. UNCHANGED history
    BY <1>5 DEF Refused
  <2>2. /\ said' = [said EXCEPT ![x] = said[x]] /\ counts' \subseteq Messages
        /\ said[x] \in Seq(Messages)
    BY <1>1, <2>1, Silent
  <2>3. Told(said[x])
    BY <1>3, <1>5 DEF Told
  <2> QED BY <1>1, <1>2, <1>3, <2>2, <2>3, CloseInv
<1> QED BY <1>4, <1>5

LEMMA PrivilegeDoneInv ==
  ASSUME IInv, itr \in DOMAIN pending, NEW x, x = pending[itr], PrivilegeDone(x), Aside
  PROVE  IInv'
<1> DEFINE t == FirstRequest(ip[x].cmd)
           r == [ip[x] EXCEPT !.st = t]
<1>1. ip[x] \in State /\ GoodState(x, ip[x])
  BY Current
<1>2. ip[x].st = "setpriv" /\ Send(x, r, <<>>) /\ Advance /\ UNCHANGED history
  BY DEF PrivilegeDone, Answered, SendPacket
<1>3. /\ t \in {"sensor", "status", "identify", "control"}
      /\ t = "sensor" => args.c410x
      /\ t = "identify" => ip[x].cmd \in {"identify_on", "identify_off"}
      /\ t = "control" /\ args.onIfOff => ip[x].cmd \notin Powering
  BY DEF FirstRequest, OnIfOff, Powering
<1> HIDE DEF t
<1>4. t \in Sent /\ t # "close"
  BY <1>3 DEF Sent, Session, Operation
<1>5. r \in State /\ r.st = t /\ r.cmd = ip[x].cmd /\ r.wait = ip[x].wait
  BY <1>1, <1>4 DEF State
<1> HIDE DEF r
<1>6. Asking(ip[x]) /\ did[x].exec = {}
  BY <1>1, <1>2 DEF GoodState, Asking, Report
<1>7. GoodState(x, r)
  BY <1>3, <1>5, <1>6 DEF GoodState, Asking, Control, Powering
<1> QED BY <1>2, <1>4, <1>5, <1>6, <1>7, RequestInv

LEMMA WaitOverInv ==
  ASSUME IInv, itr \in DOMAIN pending, NEW x, x = pending[itr], WaitOver(x), Aside
  PROVE  IInv'
<1> DEFINE r == [ip[x] EXCEPT !.st = "close", !.wait = FALSE]
<1>1. /\ x \in Ids /\ GoodLine(x, ip[x].cmd, said[x]) /\ ip[x] \in State
      /\ (ip[x].st # "close" => said[x] = <<>>) /\ GoodState(x, ip[x])
  BY Current
<1>2. PICK type \in {"status", "sensor"} :
        /\ Answered(x, type, "ok") /\ ip[x].wait /\ Answer(x).power = ip[x].cmd
        /\ Output(x, "ok") /\ Send(x, r, <<>>) /\ Advance
  BY DEF WaitOver
<1>3. type \in Sent /\ type # "close" /\ type \in Report /\ "close" \in Sent
  BY DEF Sent, Session, Operation, Report
<1>4. ip[x].st = type /\ ip[x].cmd \in did[x].after
  BY <1>2, <1>3, GoodAnswer
<1>5. ip[x].cmd \in did[x].exec /\ ip[x].cmd \in {"on", "off"}
  BY <1>1, <1>2 DEF GoodState, WaitsFor
<1>6. r \in State /\ r.st = "close" /\ r.cmd = ip[x].cmd /\ r.wait = FALSE
  BY <1>1, <1>3 DEF State
<1> HIDE DEF r
<1>7. ~ Asking(r)
  BY <1>6 DEF Asking, Setup, Report
<1>8. GoodState(x, r)
  BY <1>6, <1>7 DEF GoodState, Control
<1>9. "ok" \in Messages /\ ip[x].st # "start"
  BY <1>3, <1>4 DEF Messages, Report
<1>10. /\ said' = [said EXCEPT ![x] = <<"ok">>] /\ counts' \subseteq Messages
       /\ <<"ok">> \in Seq(Messages) /\ Told(<<"ok">>)
  BY <1>1, <1>2, <1>3, <1>4, <1>9, Spoken
<1>11. GoodLine(x, r.cmd, <<"ok">>)
  BY <1>1, <1>4, <1>5, <1>6 DEF GoodLine, PowerStates
<1>12. executing' = executing /\ itr' = itr + 1
       /\ UNCHANGED <<args, batch, pending, adding, next, power, aim, did, exit>>
  BY <1>2 DEF Advance, Aside
<1> QED BY <1>2, <1>3, <1>6, <1>7, <1>8, <1>9, <1>10, <1>11, <1>12, SendInv

LEMMA StatusDoneInv ==
  ASSUME IInv, itr \in DOMAIN pending, NEW x, x = pending[itr], StatusDone(x), Aside
  PROVE  IInv'
<1> DEFINE m == Answer(x).power
<1>1. /\ x \in Ids /\ GoodLine(x, ip[x].cmd, said[x])
      /\ (ip[x].st # "close" => said[x] = <<>>) /\ GoodState(x, ip[x])
  BY Current
<1>2. PICK type \in {"status", "sensor"} :
        Answered(x, type, "ok") /\ ip[x].cmd = "status" /\ Output(x, m) /\ Close(x)
  BY DEF StatusDone
<1>3. type \in Sent /\ type # "close" /\ type # "start" /\ type \in Report
  BY DEF Sent, Session, Operation, Report
<1>4. ~ ip[x].wait
  BY <1>1, <1>2 DEF GoodState, WaitsFor
<1>5. ip[x].st = type /\ m \in PowerStates /\ m \in did[x].before
  BY <1>2, <1>3, <1>4, GoodAnswer
<1> HIDE DEF m
<1>6. m \in Messages /\ m # "ok"
  BY <1>5 DEF Messages, PowerStates
<1>7. /\ said' = [said EXCEPT ![x] = <<m>>] /\ counts' \subseteq Messages
      /\ <<m>> \in Seq(Messages) /\ Told(<<m>>) /\ <<m>>[1] = m
  BY <1>1, <1>2, <1>3, <1>5, <1>6, Spoken
<1>8. <<m>> # <<"ok">>
  BY <1>6
<1>9. GoodLine(x, ip[x].cmd, <<m>>)
  BY <1>1, <1>5, <1>7, <1>8 DEF GoodLine
<1> QED BY <1>2, <1>3, <1>5, <1>7, <1>9, CloseInv

LEMMA IdentifyStatusDoneInv ==
  ASSUME IInv, itr \in DOMAIN pending, NEW x, x = pending[itr], IdentifyStatusDone(x), Aside
  PROVE  IInv'
<1>1. x \in Ids /\ GoodLine(x, ip[x].cmd, said[x]) /\ (ip[x].st # "close" => said[x] = <<>>)
  BY Current
<1>2. PICK m \in {"on", "off", "unknown"} :
        ip[x].st = "status" /\ ip[x].cmd = "identify_status" /\ Output(x, m) /\ Close(x)
  BY DEF IdentifyStatusDone, Answered
<1>3. m \in Messages /\ m # "ok"
  BY DEF Messages
<1>4. /\ said' = [said EXCEPT ![x] = <<m>>] /\ counts' \subseteq Messages
      /\ <<m>> \in Seq(Messages) /\ Told(<<m>>)
  BY <1>1, <1>2, <1>3, Spoken
<1>5. GoodLine(x, ip[x].cmd, <<m>>)
  BY <1>1, <1>2, <1>3, PlainLine
<1> QED BY <1>2, <1>4, <1>5, CloseInv

LEMMA OnIfOffCheckedInv ==
  ASSUME IInv, itr \in DOMAIN pending, NEW x, x = pending[itr], OnIfOffChecked(x), Aside
  PROVE  IInv'
<1> DEFINE c == IF Answer(x).power = "off" THEN "on" ELSE ip[x].cmd
           r == [ip[x] EXCEPT !.st = "control", !.cmd = c]
<1>1. ip[x] \in State /\ GoodState(x, ip[x])
  BY Current
<1>2. /\ Answered(x, "status", "ok") /\ OnIfOff(ip[x].cmd)
      /\ Send(x, [ip[x] EXCEPT !.st = "control",
                    !.cmd = IF Answer(x).power = "off" THEN "on" ELSE @], <<>>)
      /\ Advance /\ UNCHANGED history
  BY DEF OnIfOffChecked
<1>3. ip[x].cmd \in AllOps /\ c \in AllOps
  BY <1>1 DEF State, AllOps
<1>4. Send(x, r, <<>>)
  BY <1>1, <1>2 DEF State
<1>5. "status" \in Sent /\ "status" \in Report /\ "control" \in Sent
  BY DEF Sent, Session, Operation, Report
<1>6. ~ ip[x].wait
  BY <1>1, <1>2 DEF GoodState, WaitsFor, OnIfOff
<1>7. ip[x].st = "status" /\ Answer(x).power \in PowerStates /\ Answer(x).power \in did[x].before
  BY <1>2, <1>5, <1>6, GoodAnswer
<1>8. c \in Powering => "on" \in did[x].before
  BY <1>7 DEF PowerStates, Powering
<1> HIDE DEF c
<1>9. r \in State /\ r.st = "control" /\ r.cmd = c /\ r.wait = FALSE
  BY <1>1, <1>3, <1>5, <1>6 DEF State
<1> HIDE DEF r
<1>10. ~ Asking(r)
  BY <1>9 DEF Asking, Setup, Report
<1>11. GoodState(x, r)
  BY <1>8, <1>9, <1>10 DEF GoodState
<1> QED BY <1>2, <1>4, <1>5, <1>7, <1>9, <1>10, <1>11, RequestInv

LEMMA SensorCheckedInv ==
  ASSUME IInv, itr \in DOMAIN pending, NEW x, x = pending[itr], SensorChecked(x), Aside
  PROVE  IInv'
<1>1. /\ x \in Ids /\ GoodLine(x, ip[x].cmd, said[x]) /\ ip[x] \in State
      /\ (ip[x].st # "close" => said[x] = <<>>) /\ GoodState(x, ip[x])
  BY Current
<1>2. Answered(x, "sensor", "ok") /\ ~ ip[x].wait /\ ip[x].cmd \in PowerStates
  BY DEF SensorChecked
<1>3. "sensor" \in Sent /\ "sensor" \in Report /\ "slot" \in Sent
  BY DEF Sent, Session, Operation, Report
<1>4. ip[x].st = "sensor" /\ Answer(x).power \in did[x].before
  BY <1>2, <1>3, GoodAnswer
<1>5. args.c410x
  BY <1>1, <1>4 DEF GoodState
<1>6. CASE Answer(x).power = ip[x].cmd
  <2>1. Output(x, "ok") /\ Close(x) /\ "ok" \in Messages
    BY <1>6 DEF SensorChecked, Messages
  <2>2. /\ said' = [said EXCEPT ![x] = <<"ok">>] /\ counts' \subseteq Messages
        /\ <<"ok">> \in Seq(Messages) /\ Told(<<"ok">>)
    BY <1>1, <1>4, <2>1, Spoken
  <2>3. GoodLine(x, ip[x].cmd, <<"ok">>)
    BY <1>1, <1>2, <1>4, <1>5, <1>6 DEF GoodLine, PowerStates
  <2> QED BY <1>4, <2>1, <2>2, <2>3, CloseInv
<1>7. CASE Answer(x).power # ip[x].cmd
  <2> DEFINE r == [ip[x] EXCEPT !.st = "slot"]
  <2>1. Send(x, r, <<>>) /\ Advance /\ UNCHANGED history
    BY <1>7 DEF SensorChecked, SendPacket
  <2>2. r \in State /\ r.st = "slot" /\ r.cmd = ip[x].cmd /\ r.wait = ip[x].wait
    BY <1>1, <1>3 DEF State
  <2> HIDE DEF r
  <2>3. ~ Asking(r)
    BY <2>2 DEF Asking, Setup, Report
  <2>4. GoodState(x, r)
    BY <1>2, <1>5, <2>2, <2>3 DEF GoodState, Powering, PowerStates
  <2> QED BY <1>3, <1>4, <2>1, <2>2, <2>3, <2>4, RequestInv
<1> QED BY <1>6, <1>7

LEMMA SensorFailedInv ==
  ASSUME IInv, itr \in DOMAIN pending, NEW x, x = pending[itr], SensorFailed(x), Aside
  PROVE  IInv'
<1>1. x \in Ids /\ GoodLine(x, ip[x].cmd, said[x]) /\ (ip[x].st # "close" => said[x] = <<>>)
  BY Current
<1>2. ip[x].st = "sensor" /\ Output(x, "bmc_error") /\ Close(x) /\ "bmc_error" \in Messages
  BY DEF SensorFailed, Answered, Messages
<1>3. /\ said' = [said EXCEPT ![x] = <<"bmc_error">>] /\ counts' \subseteq Messages
      /\ <<"bmc_error">> \in Seq(Messages) /\ Told(<<"bmc_error">>)
  BY <1>1, <1>2, Spoken
<1>4. GoodLine(x, ip[x].cmd, <<"bmc_error">>)
  BY <1>1, PlainLine DEF PowerStates
<1> QED BY <1>2, <1>3, <1>4, CloseInv

LEMMA ControlDoneInv ==
  ASSUME IInv, itr \in DOMAIN pending, NEW x, x = pending[itr], ControlDone(x), Aside
  PROVE  IInv'
<1>1. /\ x \in Ids /\ GoodLine(x, ip[x].cmd, said[x]) /\ ip[x] \in State
      /\ (ip[x].st # "close" => said[x] = <<>>) /\ GoodState(x, ip[x])
  BY Current
<1>2. PICK type \in {"control", "slot"} :
        /\ Answered(x, type, "ok")
        /\ IF WaitsFor(ip[x].cmd)
           THEN /\ Send(x, [ip[x] EXCEPT !.wait = TRUE, !.st =
                     IF type = "control" THEN "status" ELSE "sensor"], <<>>)
                /\ Advance /\ UNCHANGED history
           ELSE /\ Output(x, "ok")
                /\ IF ip[x].cmd = "reset"
                   THEN Finish(x) /\ Consumed(x) /\ UNCHANGED net
                   ELSE Close(x)
  BY DEF ControlDone
<1>3. type \in Sent /\ type # "close" /\ type # "start" /\ type \in Control
  BY DEF Sent, Session, Operation, Control
<1>4. ip[x].st = type /\ ip[x].cmd \in did[x].exec
  BY <1>2, <1>3, GoodAnswer
<1>5. CASE WaitsFor(ip[x].cmd)
  <2> DEFINE t == IF type = "control" THEN "status" ELSE "sensor"
             r == [ip[x] EXCEPT !.wait = TRUE, !.st = t]
  <2>1. Send(x, r, <<>>) /\ Advance /\ UNCHANGED history
    BY <1>2, <1>5
  <2>2. t \in Sent /\ t # "close" /\ t \in Report /\ (t = "sensor" => type = "slot")
    BY DEF Sent, Session, Operation, Report
  <2> HIDE DEF t
  <2>3. r \in State /\ r.st = t /\ r.cmd = ip[x].cmd /\ r.wait = TRUE
    BY <1>1, <2>2 DEF State
  <2> HIDE DEF r
  <2>4. ~ Asking(r)
    BY <2>3 DEF Asking
  <2>5. GoodState(x, r)
    BY <1>1, <1>4, <1>5, <2>2, <2>3, <2>4 DEF GoodState, Report, Control
  <2> QED BY <1>3, <1>4, <2>1, <2>2, <2>3, <2>4, <2>5, RequestInv
<1>6. CASE ~ WaitsFor(ip[x].cmd)
  <2>1. Output(x, "ok") /\ "ok" \in Messages
    BY <1>2, <1>6 DEF Messages
  <2>2. /\ said' = [said EXCEPT ![x] = <<"ok">>] /\ counts' \subseteq Messages
        /\ <<"ok">> \in Seq(Messages) /\ Told(<<"ok">>)
    BY <1>1, <1>3, <1>4, <2>1, Spoken
  <2>3. GoodLine(x, ip[x].cmd, <<"ok">>)
    BY <1>1, <1>4, <1>6 DEF GoodLine, PowerStates
  <2>4. CASE ip[x].cmd = "reset"
    <3>1. /\ Finish(x) /\ conn' = [conn EXCEPT ![HostOf[x]].in = <<>>] /\ UNCHANGED net
          /\ UNCHANGED <<args, batch, power, aim, did, exit>>
      BY <1>2, <1>6, <2>4 DEF Consumed, Aside
    <3> QED BY <1>3, <1>4, <2>2, <2>3, <3>1, FinishInv
  <2>5. CASE ip[x].cmd # "reset"
    <3>1. Close(x)
      BY <1>2, <1>6, <2>5
    <3> QED BY <1>3, <1>4, <2>2, <2>3, <3>1, CloseInv
  <2> QED BY <2>4, <2>5
<1> QED BY <1>5, <1>6

LEMMA IdentifyDoneInv ==
  ASSUME IInv, itr \in DOMAIN pending, NEW x, x = pending[itr], IdentifyDone(x), Aside
  PROVE  IInv'
<1>1. /\ x \in Ids /\ GoodLine(x, ip[x].cmd, said[x]) /\ GoodState(x, ip[x])
      /\ (ip[x].st # "close" => said[x] = <<>>)
  BY Current
<1>2. Answered(x, "identify", "ok") /\ Output(x, "ok") /\ Close(x) /\ "ok" \in Messages
  BY DEF IdentifyDone, Messages
<1>3. "identify" \in Sent /\ "identify" \in Control
  BY DEF Sent, Session, Operation, Control
<1>4. ip[x].st = "identify" /\ ip[x].cmd \in did[x].exec
  BY <1>2, <1>3, GoodAnswer
<1>5. ~ WaitsFor(ip[x].cmd)
  BY <1>1, <1>4 DEF GoodState, WaitsFor
<1>6. /\ said' = [said EXCEPT ![x] = <<"ok">>] /\ counts' \subseteq Messages
      /\ <<"ok">> \in Seq(Messages) /\ Told(<<"ok">>)
  BY <1>1, <1>2, <1>4, Spoken
<1>7. GoodLine(x, ip[x].cmd, <<"ok">>)
  BY <1>1, <1>4, <1>5 DEF GoodLine, PowerStates
<1> QED BY <1>2, <1>4, <1>6, <1>7, CloseInv

LEMMA ProcessPacketsInv ==
  ASSUME IInv, ProcessPackets
  PROVE  IInv'
<1> DEFINE x == pending[itr]
<1>1. itr \in DOMAIN pending /\ Aside
  BY DEF ProcessPackets, Aside
<1>2. \/ GiveUp(x) \/ RetryPackets(x) \/ CloseTimeout(x)
      \/ Start(x) \/ StartLater(x) \/ NoPacket(x)
      \/ SetupFailed(x) \/ SetupDone(x) \/ Refused(x) \/ PrivilegeDone(x)
      \/ StillWaiting(x) \/ WaitOver(x) \/ StatusDone(x)
      \/ IdentifyStatusDone(x) \/ OnIfOffChecked(x) \/ SensorChecked(x)
      \/ SensorFailed(x) \/ ControlDone(x) \/ IdentifyDone(x) \/ Closed(x)
  BY DEF ProcessPackets
<1> HIDE DEF x
<1>3. x = pending[itr]
  BY DEF x
<1>4. CASE CloseTimeout(x) \/ Closed(x)
  <2>1. /\ ip[x].st = "close" /\ Finish(x) /\ UNCHANGED <<net, history>>
        /\ conn' \in {conn, [conn EXCEPT ![HostOf[x]].in = <<>>]}
    BY <1>4 DEF CloseTimeout, Closed, Answered, Consumed
  <2> QED BY <1>1, <1>3, <2>1, CloseTimeoutInv
<1>5. CASE StartLater(x) \/ NoPacket(x) \/ StillWaiting(x)
  <2>1. /\ Advance /\ UNCHANGED <<ip, net, counts, said>>
        /\ conn' \in {conn, [conn EXCEPT ![HostOf[x]].in = <<>>]}
    BY <1>5 DEF StartLater, NoPacket, StillWaiting, Consumed, history
  <2>2. UNCHANGED <<args, batch, power, aim, did, exit, ip, net, counts, said>>
    BY <1>1, <2>1 DEF Aside
  <2> QED BY <1>1, <1>3, <2>1, <2>2, QuietInv
<1>6. CASE GiveUp(x)
  BY <1>1, <1>3, <1>6, GiveUpInv
<1>7. CASE RetryPackets(x)
  BY <1>1, <1>3, <1>7, RetryPacketsInv
<1>8. CASE Start(x)
  BY <1>1, <1>3, <1>8, StartInv
<1>9. CASE SetupFailed(x) \/ SetupDone(x)
  BY <1>1, <1>3, <1>9, SetupFailedInv, SetupDoneInv
<1>10. CASE Refused(x) \/ PrivilegeDone(x)
  BY <1>1, <1>3, <1>10, RefusedInv, PrivilegeDoneInv
<1>11. CASE WaitOver(x) \/ StatusDone(x) \/ IdentifyStatusDone(x)
  BY <1>1, <1>3, <1>11, WaitOverInv, StatusDoneInv, IdentifyStatusDoneInv
<1>12. CASE OnIfOffChecked(x) \/ SensorChecked(x) \/ SensorFailed(x)
  BY <1>1, <1>3, <1>12, OnIfOffCheckedInv, SensorCheckedInv, SensorFailedInv
<1>13. CASE ControlDone(x) \/ IdentifyDone(x)
  BY <1>1, <1>3, <1>13, ControlDoneInv, IdentifyDoneInv
<1> QED BY <1>2, <1>4, <1>5, <1>6, <1>7, <1>8, <1>9, <1>10, <1>11, <1>12, <1>13

-----------------------------------------------------------------------------
(* The poll loop, the network and the BMC *)

\* ipmipower_connection_clear() for some hosts.
LEMMA ClearedPackets ==
  ASSUME TypeOK, NEW H, UNCHANGED net,
         conn' = [h \in Hosts |-> IF h \in H THEN Cleared(conn[h]) ELSE conn[h]]
  PROVE  /\ conn' \in [Hosts -> [in: Seq(Packet), out: Seq(Packet)]]
         /\ \A g \in Hosts : Len(conn'[g].in) <= 1 /\ Len(conn'[g].out) <= 2
         /\ \A g \in Hosts : Packets(g)' \subseteq Packets(g)
         /\ AnswerInv => AnswerInv'
<1>1. \A g \in Hosts : conn[g] \in [in: Seq(Packet), out: Seq(Packet)]
  BY DEF TypeOK
<1>2. \A g \in Hosts : conn'[g] = conn[g] \/ (conn'[g].in = <<>> /\ conn'[g].out = <<>>)
  BY <1>1 DEF Cleared
<1>3. \A g \in Hosts : conn'[g] \in [in: Seq(Packet), out: Seq(Packet)]
  <2> SUFFICES ASSUME NEW g \in Hosts PROVE conn'[g] \in [in: Seq(Packet), out: Seq(Packet)]
    OBVIOUS
  <2>1. Cleared(conn[g]) \in [in: Seq(Packet), out: Seq(Packet)]
    <3>1. <<>> \in Seq(Packet)
      OBVIOUS
    <3>2. \A v \in [in: Seq(Packet), out: Seq(Packet)] :
            [v EXCEPT !.in = <<>>] \in [in: Seq(Packet), out: Seq(Packet)]
      BY <3>1
    <3>3. \A v \in [in: Seq(Packet), out: Seq(Packet)] :
            [v EXCEPT !.out = <<>>] \in [in: Seq(Packet), out: Seq(Packet)]
      BY <3>1
    <3>4. Cleared(conn[g]) = [[conn[g] EXCEPT !.in = <<>>] EXCEPT !.out = <<>>]
      BY DEF Cleared
    <3> QED BY <1>1, <3>2, <3>3, <3>4
  <2> QED BY <1>1, <2>1
<1>4. conn' \in [Hosts -> [in: Seq(Packet), out: Seq(Packet)]]
  BY <1>3
<1>5. ToSet(<<>>) = {}
  BY DEF ToSet
<1>6. \A g \in Hosts : ToSet(conn'[g].in) \subseteq ToSet(conn[g].in)
                       /\ ToSet(conn'[g].out) \subseteq ToSet(conn[g].out)
  BY <1>2, <1>5
<1>7. \A g \in Hosts : Packets(g)' \subseteq Packets(g)
  BY <1>6 DEF Packets
<1>8. \A g \in Hosts : Len(conn'[g].in) <= 1 /\ Len(conn'[g].out) <= 2
  <2> SUFFICES ASSUME NEW g \in Hosts PROVE Len(conn'[g].in) <= 1 /\ Len(conn'[g].out) <= 2
    OBVIOUS
  <2>1. CASE conn'[g] = conn[g]
    BY <2>1 DEF TypeOK
  <2>2. CASE conn'[g].in = <<>> /\ conn'[g].out = <<>>
    BY <2>2
  <2> QED BY <1>2, <2>1, <2>2
<1>9. AnswerInv => AnswerInv'
  BY <1>6 DEF AnswerInv
<1> QED BY <1>4, <1>7, <1>8, <1>9

LEMMA EndWalkInv ==
  ASSUME IInv, EndWalk
  PROVE  IInv'
<1> DEFINE H == {h \in Hosts : \E i \in DOMAIN adding : HostOf[adding[i]] = h}
<1>1. /\ pending \in Seq(Ids) /\ adding \in Seq(Ids) /\ TypeOK /\ PlaceInv /\ BatchInv
      /\ AnswerInv
  BY DEF IInv, TypeOK
<1>2. /\ itr' = 1 /\ pending' = pending \o adding /\ adding' = <<>>
      /\ UNCHANGED <<args, batch, next, ip, executing, net, power, aim, counts, said, did, exit>>
  BY DEF EndWalk, history
<1>3. conn' = [h \in Hosts |-> IF h \in H THEN Cleared(conn[h]) ELSE conn[h]]
  BY DEF EndWalk
<1> HIDE DEF H
<1>4. /\ conn' \in [Hosts -> [in: Seq(Packet), out: Seq(Packet)]]
      /\ \A g \in Hosts : Len(conn'[g].in) <= 1 /\ Len(conn'[g].out) <= 2
      /\ \A g \in Hosts : Packets(g)' \subseteq Packets(g)
      /\ AnswerInv'
  BY <1>1, <1>2, <1>3, ClearedPackets
<1>5. /\ pending' \in Seq(Ids) /\ Distinct(pending')
      /\ \A y : y \in ToSet(pending') <=> y \in ToSet(pending) \/ y \in ToSet(adding)
  BY <1>1, <1>2, Joined DEF PlaceInv
<1>6. adding' \in Seq(Ids) /\ Distinct(adding') /\ ToSet(adding') = {}
  BY <1>2 DEF Distinct, ToSet
<1>7. \A y : (On(y)' <=> On(y)) /\ (Waits(y)' <=> Waits(y)) /\ (Taken(y)' <=> Taken(y))
  BY <1>2, <1>5, <1>6 DEF On, Waits, Taken
<1>8. TypeOK'
  <2>1. itr' \in 1 .. Len(pending') + 1
    BY <1>2, <1>5
  <2>2. Targets' = Targets
    BY <1>2 DEF Targets, TargetOf
  <2> QED BY <1>1, <1>2, <1>4, <1>5, <1>6, <2>1, <2>2 DEF TypeOK
<1>9. PlaceInv'
  BY <1>1, <1>2, <1>5, <1>6, <1>7 DEF PlaceInv
<1>10. BatchInv'
  BY <1>1, <1>2, <1>7 DEF BatchInv
<1>11. \A y \in Ids : y \in ToSet(adding) => ip[y].st = "start" /\ said[y] = <<>>
  BY DEF IInv, StepInv, SaidInv
<1>12. StepInv'
  BY <1>2, <1>5, <1>6, <1>7, <1>11 DEF IInv, StepInv
<1>13. FanoutKept'
  <2>1. ToSet(pending) \subseteq Ids /\ ToSet(adding) \subseteq Ids
    BY <1>1, InList
  <2>2. ASSUME NEW y PROVE y \in Running' <=> y \in Running
    BY <1>2, <1>5, <1>11, <2>1 DEF Running
  <2>3. Running' = Running
    BY <2>2
  <2> QED BY <1>2, <2>3 DEF IInv, FanoutKept
<1>14. SaidInv'
  <2> SUFFICES ASSUME NEW y \in Ids
               PROVE  /\ Waits(y) \/ ~ Taken(y) => said[y] = <<>>
                      /\ y \in ToSet(pending) \/ y \in ToSet(adding) =>
                           IF ip[y].st = "close" THEN Told(said[y]) ELSE said[y] = <<>>
                      /\ Taken(y) /\ ~ On(y) /\ ~ Waits(y) => Told(said[y])
    BY <1>2, <1>5, <1>6, <1>7 DEF SaidInv, Told
  <2> QED BY <1>11 DEF IInv, SaidInv
<1>15. CmdInv'
  BY <1>2 DEF IInv, CmdInv, GoodState, Asking, WaitsFor
<1>16. PacketInv'
  BY <1>2, <1>4, FewerPackets DEF IInv
<1>17. LineTrue'
  BY <1>2 DEF IInv, LineTrue, WaitsFor
<1> QED BY <1>4, <1>8, <1>9, <1>10, <1>12, <1>13, <1>14, <1>15, <1>16, <1>17 DEF IInv

LEMMA TransmitInv ==
  ASSUME IInv, NEW h \in Hosts, Transmit(h)
  PROVE  IInv'
<1> DEFINE n == IF Len(conn[h].out) = 1 THEN net[h] \cup {conn[h].out[1]} ELSE net[h]
<1>1. TypeOK /\ AnswerInv /\ net \in [Hosts -> SUBSET Packet]
      /\ conn \in [Hosts -> [in: Seq(Packet), out: Seq(Packet)]]
  BY DEF IInv, TypeOK
<1>2. /\ net' = [net EXCEPT ![h] = n] /\ conn' = [conn EXCEPT ![h].out = <<>>]
      /\ UNCHANGED <<args, batch, pending, adding, itr, next, ip, executing, power, aim, counts,
                     said, did, exit>>
  BY DEF Transmit, lists, history
<1>3. conn[h] \in [in: Seq(Packet), out: Seq(Packet)] /\ net[h] \subseteq Packet
  BY <1>1
<1>4. n \subseteq net[h] \cup ToSet(conn[h].out)
  BY <1>3, InList
<1>5. n \subseteq Packet
  BY <1>3, <1>4, InList
<1> HIDE DEF n
<1> DEFINE c == [conn[h] EXCEPT !.out = <<>>]
<1>6. c \in [in: Seq(Packet), out: Seq(Packet)] /\ c.in = conn[h].in /\ c.out = <<>>
  <2>1. <<>> \in Seq(Packet)
    OBVIOUS
  <2> QED BY <1>3, <2>1
<1>7. conn' = [conn EXCEPT ![h] = c]
  BY <1>1, <1>2
<1> HIDE DEF c
<1>8. /\ conn' \in [Hosts -> [in: Seq(Packet), out: Seq(Packet)]]
      /\ conn'[h] = c /\ \A g \in Hosts : g # h => conn'[g] = conn[g]
  BY <1>1, <1>6, <1>7
<1>9. net' \in [Hosts -> SUBSET Packet] /\ net'[h] = n /\ \A g \in Hosts : g # h => net'[g] = net[g]
  BY <1>1, <1>2, <1>5
<1>10. ToSet(<<>>) = {} /\ Len(<<>>) = 0
  BY DEF ToSet
<1>11. ASSUME NEW g \in Hosts PROVE Packets(g)' \subseteq Packets(g)
  BY <1>4, <1>6, <1>8, <1>9, <1>10 DEF Packets
<1>12. AnswerInv'
  BY <1>1, <1>6, <1>8 DEF AnswerInv
<1>13. TypeOK'
  <2>1. \A g \in Hosts : Len(conn'[g].in) <= 1 /\ Len(conn'[g].out) <= 2
    <3>1. \A g \in Hosts : Len(conn[g].in) <= 1 /\ Len(conn[g].out) <= 2
      BY <1>1 DEF TypeOK
    <3>2. Len(c.in) <= 1 /\ Len(c.out) <= 2
      <4>1. Len(c.out) = 0
        BY <1>6, <1>10
      <4> QED BY <3>1, <4>1, <1>6
    <3> QED BY <3>1, <3>2, <1>8
  <2>2. Targets' = Targets
    BY <1>2 DEF Targets, TargetOf
  <2> QED BY <1>1, <1>2, <1>8, <1>9, <2>1, <2>2 DEF TypeOK
<1> QED BY <1>2, <1>11, <1>12, <1>13, IdleInv

LEMMA ReceiveInv ==
  ASSUME IInv, NEW h \in Hosts, Receive(h)
  PROVE  IInv'
<1>1. TypeOK /\ AnswerInv /\ net \in [Hosts -> SUBSET Packet]
      /\ conn \in [Hosts -> [in: Seq(Packet), out: Seq(Packet)]]
  BY DEF IInv, TypeOK
<1>2. PICK p \in net[h] :
        /\ p.kind = "rs"
        /\ net' = [net EXCEPT ![h] = @ \ {p}] /\ conn' = [conn EXCEPT ![h].in = <<p>>]
  BY DEF Receive
<1>3. UNCHANGED <<args, batch, pending, adding, itr, next, ip, executing, power, aim, counts,
                  said, did, exit>>
  BY DEF Receive, lists, history
<1>4. conn[h] \in [in: Seq(Packet), out: Seq(Packet)] /\ net[h] \subseteq Packet
  BY <1>1
<1> DEFINE c == [conn[h] EXCEPT !.in = <<p>>]
<1>5. <<p>> \in Seq(Packet) /\ Len(<<p>>) = 1 /\ ToSet(<<p>>) = {p}
  BY <1>4 DEF ToSet
<1>6. c \in [in: Seq(Packet), out: Seq(Packet)] /\ c.in = <<p>> /\ c.out = conn[h].out
  BY <1>4, <1>5
<1>7. conn' = [conn EXCEPT ![h] = c]
  BY <1>1, <1>2
<1> HIDE DEF c
<1>8. /\ conn' \in [Hosts -> [in: Seq(Packet), out: Seq(Packet)]]
      /\ conn'[h] = c /\ \A g \in Hosts : g # h => conn'[g] = conn[g]
  BY <1>1, <1>6, <1>7
<1>9. /\ net' \in [Hosts -> SUBSET Packet] /\ net'[h] = net[h] \ {p}
      /\ \A g \in Hosts : g # h => net'[g] = net[g]
  BY <1>1, <1>2
<1>11. ASSUME NEW g \in Hosts PROVE Packets(g)' \subseteq Packets(g)
  BY <1>2, <1>5, <1>6, <1>8, <1>9 DEF Packets
<1>12. AnswerInv'
  BY <1>1, <1>2, <1>5, <1>6, <1>8 DEF AnswerInv
<1>13. TypeOK'
  <2>1. \A g \in Hosts : Len(conn'[g].in) <= 1 /\ Len(conn'[g].out) <= 2
    <3>1. \A g \in Hosts : Len(conn[g].in) <= 1 /\ Len(conn[g].out) <= 2
      BY <1>1 DEF TypeOK
    <3> QED BY <3>1, <1>5, <1>6, <1>8, SMTT(30)
  <2>2. Targets' = Targets
    BY <1>3 DEF Targets, TargetOf
  <2> QED BY <1>1, <1>3, <1>8, <1>9, <2>1, <2>2 DEF TypeOK
<1> QED BY <1>3, <1>11, <1>12, <1>13, IdleInv

LEMMA LoseInv ==
  ASSUME IInv, NEW h \in Hosts, Lose(h)
  PROVE  IInv'
<1>1. TypeOK /\ AnswerInv /\ net \in [Hosts -> SUBSET Packet]
  BY DEF IInv, TypeOK
<1>2. PICK p \in net[h] : net' = [net EXCEPT ![h] = @ \ {p}]
  BY DEF Lose
<1>3. UNCHANGED <<args, batch, pending, adding, itr, next, ip, executing, conn, power, aim,
                  counts, said, did, exit>>
  BY DEF Lose, lists, history
<1>4. net' \in [Hosts -> SUBSET Packet] /\ \A g \in Hosts : net'[g] \subseteq net[g]
  BY <1>1, <1>2
<1>5. \A g \in Hosts : Packets(g)' \subseteq Packets(g)
  BY <1>3, <1>4 DEF Packets
<1>6. AnswerInv'
  BY <1>1, <1>3 DEF AnswerInv
<1>7. Targets' = Targets
  BY <1>3 DEF Targets, TargetOf
<1>8. TypeOK'
  BY <1>1, <1>3, <1>4, <1>7 DEF TypeOK
<1> QED BY <1>3, <1>5, <1>6, <1>8, IdleInv

\* The power state moves, or the program ends.
LEMMA SettleExitInv ==
  ASSUME IInv, Exit \/ \E t \in Targets : Settle(t)
  PROVE  IInv'
<1>1. TypeOK /\ AnswerInv /\ power \in [Targets -> PowerStates] /\ aim \in [Targets -> PowerStates]
  BY DEF IInv, TypeOK
<1>2. UNCHANGED <<args, batch, pending, adding, itr, next, ip, executing, conn, net, aim,
                  counts, said, did>>
  BY DEF Exit, Settle, lists, history
<1>3. \A g \in Hosts : Packets(g)' \subseteq Packets(g)
  BY <1>2 DEF Packets
<1>4. AnswerInv'
  BY <1>1, <1>2 DEF AnswerInv
<1>5. Targets' = Targets
  BY <1>2 DEF Targets, TargetOf
<1>6. power' \in [Targets -> PowerStates] /\ exit' \in {None, "success", "failure"}
  <2>1. CASE Exit
    BY <2>1, <1>1 DEF Exit
  <2>2. CASE \E t \in Targets : Settle(t)
    BY <2>2, <1>1 DEF Settle, TypeOK
  <2> QED BY <2>1, <2>2
<1>7. TypeOK'
  BY <1>1, <1>2, <1>5, <1>6 DEF TypeOK
<1> QED BY <1>2, <1>3, <1>4, <1>7, IdleInv

\* What the BMC did for a command can only grow, and with it what is true of
\* the command, its packets and its line.
LEMMA ServeInv ==
  ASSUME IInv, NEW h \in Hosts, Serve(h)
  PROVE  IInv'
<1>1. PICK p \in net[h], result \in {"ok", "refused", "unfit"} :
        LET t == TargetOf(p.id)
            acts == p.type \in {"control", "slot", "identify"} /\ result = "ok"
            reports == p.type \in {"status", "sensor"} /\ result = "ok"
        IN
        /\ BetweenWalks /\ p.kind = "rq"
        /\ p.type \notin Operation => result = "ok"
        /\ result = "unfit" => p.type = "sensor"
        /\ net' = [net EXCEPT ![h] = (@ \ {p}) \cup
             {[p EXCEPT !.kind = "rs", !.result = result, 
                       !.power = IF reports THEN power[t] ELSE "off"]}]
        /\ aim' = IF acts /\ p.type # "identify"
                  THEN [aim EXCEPT ![t] = AimOf(p.op, @)] ELSE aim
        /\ did' = [did EXCEPT ![p.id] =
             [exec |-> IF acts THEN @.exec \cup {p.op} ELSE @.exec,
              before |-> IF reports /\ @.exec = {}
                         THEN @.before \cup {power[t]} ELSE @.before,
              after |-> IF reports /\ @.exec # {}
                        THEN @.after \cup {power[t]} ELSE @.after]]
        /\ UNCHANGED <<args, batch, lists, ip, executing, conn, power, history, exit>>
  BY DEF Serve
<1> DEFINE x == p.id
           t == TargetOf(x)
           acts == p.type \in Control /\ result = "ok"
           reports == p.type \in Report /\ result = "ok"
           a == [p EXCEPT !.kind = "rs", !.result = result, 
                       !.power = IF reports THEN power[t] ELSE "off"]
           d == [exec |-> IF acts THEN did[x].exec \cup {p.op} ELSE did[x].exec,
                 before |-> IF reports /\ did[x].exec = {}
                            THEN did[x].before \cup {power[t]} ELSE did[x].before,
                 after |-> IF reports /\ did[x].exec # {}
                           THEN did[x].after \cup {power[t]} ELSE did[x].after]
<1>2. UNCHANGED <<args, batch, pending, adding, itr, next, ip, executing, conn, power, counts,
                  said, exit>>
  BY DEF Serve, lists, history
<1>3. /\ TypeOK /\ net \in [Hosts -> SUBSET Packet] /\ ip \in [Ids -> State]
      /\ did \in [Ids -> [exec: SUBSET AllOps, before: SUBSET PowerStates, after: SUBSET PowerStates]]
      /\ power \in [Targets -> PowerStates] /\ aim \in [Targets -> PowerStates]
  BY DEF IInv, TypeOK, State
<1>4. p \in Packet /\ x \in Ids /\ p.op \in AllOps /\ p.kind = "rq" /\ p \in Packets(h)
  BY <1>1, <1>3 DEF Packet, Packets
<1>5. GoodPacket(h, p)
  BY <1>4 DEF IInv, PacketInv
<1>6. t \in Targets
  <2>1. PICK n \in 1 .. batch : x \in ToSet(args.batches[n])
    BY <1>5 DEF GoodPacket, Taken
  <2>2. args.batches \in Seq(Seq(Ids)) /\ batch \in 0 .. Len(args.batches)
    BY <1>3, PowerAssumption DEF TypeOK, AllArgs
  <2>3. n \in DOMAIN args.batches
    BY <2>1, <2>2
  <2> QED BY <2>1, <2>3 DEF Targets
<1>7. power[t] \in PowerStates /\ "off" \in PowerStates
  BY <1>3, <1>6 DEF PowerStates
<1>8. net' = [net EXCEPT ![h] = (net[h] \ {p}) \cup {a}]
  BY <1>1 DEF Control, Report
<1>9. did' = [did EXCEPT ![x] = d]
  BY <1>1 DEF Control, Report
<1>10. aim' \in [Targets -> PowerStates]
  <2>1. \A s \in PowerStates : AimOf(p.op, s) \in PowerStates
    BY DEF AimOf, PowerStates
  <2> QED BY <1>1, <1>3, <1>6, <2>1
<1> HIDE DEF t
<1>11. PICK q \in Packet :
         /\ net' = [net EXCEPT ![h] = (net[h] \ {p}) \cup {q}]
         /\ q.kind = "rs" /\ q.result = result /\ q.id = x /\ q.type = p.type
         /\ q.cur = p.cur /\ q.op = p.op /\ (reports => q.power = power[t])
  <2>1. /\ a \in Packet /\ a.kind = "rs" /\ a.result = result /\ a.id = x /\ a.type = p.type
        /\ a.cur = p.cur /\ a.op = p.op /\ (reports => a.power = power[t])
    BY <1>4, <1>7 DEF Packet
  <2> QED BY <1>8, <2>1
<1>12. did[x] \in [exec: SUBSET AllOps, before: SUBSET PowerStates, after: SUBSET PowerStates]
  BY <1>3, <1>4
<1>13. /\ d \in [exec: SUBSET AllOps, before: SUBSET PowerStates, after: SUBSET PowerStates]
       /\ d.exec = IF acts THEN did[x].exec \cup {p.op} ELSE did[x].exec
       /\ did[x].before \subseteq d.before /\ did[x].after \subseteq d.after
       /\ reports /\ did[x].exec = {} => power[t] \in d.before
       /\ reports /\ did[x].exec # {} => power[t] \in d.after
  BY <1>4, <1>7, <1>12
<1> HIDE DEF a, d
<1>14. did'[x] = d /\ \A y \in Ids : y # x => did'[y] = did[y]
  BY <1>3, <1>4, <1>9
<1>15. \A y \in Ids : /\ did[y].exec \subseteq did'[y].exec
                      /\ did[y].before \subseteq did'[y].before
                      /\ did[y].after \subseteq did'[y].after
  BY <1>13, <1>14
<1>16. acts => ~ Asking(ip[x])
  BY <1>5 DEF GoodPacket
<1>17. /\ PlaceInv' /\ BatchInv'
       /\ \A y : (On(y)' <=> On(y)) /\ (Waits(y)' <=> Waits(y)) /\ (Taken(y)' <=> Taken(y))
  BY <1>2, SameLists DEF IInv
<1>18. TypeOK'
  <2>1. net' \in [Hosts -> SUBSET Packet]
    BY <1>3, <1>11
  <2>2. did' \in [Ids -> [exec: SUBSET AllOps, before: SUBSET PowerStates, after: SUBSET PowerStates]]
    BY <1>3, <1>9, <1>13
  <2>3. Targets' = Targets
    BY <1>2 DEF Targets, TargetOf
  <2> QED BY <1>2, <1>3, <1>10, <2>1, <2>2, <2>3 DEF TypeOK
<1>19. StepInv'
  BY <1>2, <1>17 DEF IInv, StepInv
<1>20. FanoutKept'
  BY <1>2 DEF IInv, FanoutKept, Running
<1>21. SaidInv'
  BY <1>2, <1>17 DEF IInv, SaidInv, Told
<1>22. CmdInv'
  <2> SUFFICES ASSUME NEW y \in Ids PROVE GoodState(y, ip[y])'
    BY DEF CmdInv
  <2>1. GoodState(y, ip[y])
    BY DEF IInv, CmdInv
  <2>2. Asking(ip[y]) => did'[y].exec = {}
    BY <2>1, <1>13, <1>14, <1>16 DEF GoodState
  <2>3. (ip[y].wait => ip[y].cmd \in did'[y].exec) /\ ("on" \in did[y].before => "on" \in did'[y].before)
    BY <2>1, <1>15 DEF GoodState
  <2>4. Asking(ip[y])' <=> Asking(ip[y])
    BY <1>2 DEF Asking
  <2>5. WaitsFor(ip[y].cmd)' <=> WaitsFor(ip[y].cmd)
    BY <1>2 DEF WaitsFor
  <2> QED BY <1>2, <2>1, <2>2, <2>3, <2>4, <2>5 DEF GoodState
<1>23. GoodPacket(h, q)'
  <2>1. HostOf[x] = h /\ Taken(x)'
    BY <1>5, <1>17 DEF GoodPacket
  <2>2. p.cur => p.op = ip'[x].cmd /\ ip'[x].st \in {p.type, "end"}
    BY <1>2, <1>5 DEF GoodPacket
  <2>3. p.type \in Control /\ result = "ok" => p.op \in did'[x].exec
    BY <1>13, <1>14
  <2>4. ASSUME p.cur, p.type \in Report, result = "ok", ip'[x].st # "end"
        PROVE  power[t] \in (IF ip'[x].wait THEN did'[x].after ELSE did'[x].before)
    <3>1. ip[x].st = p.type /\ ip[x] = ip'[x] /\ GoodState(x, ip[x])
      BY <1>2, <1>4, <2>2, <2>4 DEF IInv, CmdInv
    <3>2. CASE ip[x].wait
      <4>1. did[x].exec # {}
        BY <3>1, <3>2 DEF GoodState
      <4> QED BY <3>1, <3>2, <4>1, <2>4, <1>13, <1>14
    <3>3. CASE ~ ip[x].wait
      <4>1. did[x].exec = {}
        BY <3>1, <3>3, <2>4 DEF GoodState, Asking
      <4> QED BY <3>1, <3>3, <4>1, <2>4, <1>13, <1>14
    <3> QED BY <3>2, <3>3
  <2>5. p.type \in Control => ~ Asking(ip[x])'
    BY <1>2, <1>5 DEF GoodPacket, Asking
  <2>6. p.type \in Control /\ p.op \in Powering /\ args.onIfOff => "on" \in did'[x].before
    BY <1>4, <1>5, <1>15 DEF GoodPacket
  <2> QED BY <1>2, <1>11, <2>1, <2>2, <2>3, <2>4, <2>5, <2>6 DEF GoodPacket
<1>24. PacketInv'
  <2> SUFFICES ASSUME NEW g \in Hosts, NEW o \in Packets(g)'
               PROVE  GoodPacket(g, o)'
    BY DEF PacketInv
  <2>1. o \in Packets(g) \/ (g = h /\ o = q)
    BY <1>2, <1>3, <1>11 DEF Packets
  <2>2. CASE g = h /\ o = q
    BY <2>2, <1>23
  <2>3. CASE o \in Packets(g)
    <3>1. GoodPacket(g, o) /\ o \in Packet
      <4>1. net[g] \subseteq Packet /\ conn[g] \in [in: Seq(Packet), out: Seq(Packet)]
        BY <1>3 DEF TypeOK
      <4> QED BY <2>3, <4>1, InList DEF IInv, PacketInv, Packets
    <3>2. o.id \in Ids
      BY <3>1 DEF Packet
    <3>3. /\ did[o.id].exec \subseteq did'[o.id].exec
          /\ did[o.id].before \subseteq did'[o.id].before
          /\ did[o.id].after \subseteq did'[o.id].after
      BY <3>2, <1>15
    <3>4. (Asking(ip[o.id])' <=> Asking(ip[o.id])) /\ (Taken(o.id)' <=> Taken(o.id))
      BY <1>2, <1>17 DEF Asking
    <3> QED BY <3>1, <3>3, <3>4, <1>2 DEF GoodPacket
  <2> QED BY <2>1, <2>2, <2>3
<1>25. AnswerInv'
  BY <1>2 DEF IInv, AnswerInv
<1>26. LineTrue'
  <2> SUFFICES ASSUME NEW y \in Ids PROVE GoodLine(y, ip[y].cmd, said[y])'
    BY DEF LineTrue, GoodLine, Powering
  <2>1. GoodLine(y, ip[y].cmd, said[y])
    BY DEF IInv, LineTrue, GoodLine, Powering
  <2>2. /\ did[y].exec \subseteq did'[y].exec /\ did[y].before \subseteq did'[y].before
        /\ did[y].after \subseteq did'[y].after
    BY <1>15
  <2>3. args.onIfOff /\ did'[y].exec \cap Powering # {} => "on" \in did'[y].before
    <3>1. CASE did'[y].exec \cap Powering = did[y].exec \cap Powering
      BY <3>1, <2>1, <2>2 DEF GoodLine
    <3>2. CASE y = x /\ acts /\ p.op \in Powering
      BY <3>2, <2>2, <1>5 DEF GoodPacket
    <3> QED BY <3>1, <3>2, <1>13, <1>14
  <2>4. WaitsFor(ip[y].cmd)' <=> WaitsFor(ip[y].cmd)
    BY <1>2 DEF WaitsFor
  <2> QED BY <1>2, <2>1, <2>2, <2>3, <2>4 DEF GoodLine
<1> QED BY <1>17, <1>18, <1>19, <1>20, <1>21, <1>22, <1>24, <1>25, <1>26 DEF IInv

\* When the lists are empty, nothing is chained any more: the first of what is
\* left of a chain would be on the lists.
LEMMA NothingChained ==
  ASSUME IInv, pending = <<>>, adding = <<>>
  PROVE  \A x \in Ids : ~ On(x) /\ ~ Waits(x) /\ next[x] = None
<1>1. /\ PlaceInv /\ BatchInv /\ args \in Args /\ batch \in 0 .. Len(args.batches)
      /\ None \notin Ids
  BY PowerAssumption DEF IInv, TypeOK
<1>2. \A x : ~ On(x)
  BY DEF On, ToSet
<1>3. ASSUME NEW x \in Ids, next[x] # None
      PROVE  FALSE
  <2> DEFINE b == args.batches[batch]
             S == {i \in 1 .. Len(b) : next[b[i]] # None}
  <2>1. batch > 0 /\ x \in ToSet(b)
    BY <1>1, <1>3 DEF BatchInv
  <2>2. batch \in 1 .. Len(args.batches)
    BY <1>1, <2>1
  <2>3. b \in Seq(Ids)
    BY <1>1, <2>2, BatchFacts
  <2> HIDE DEF b
  <2>4. PICK k \in 1 .. Len(b) : b[k] = x
    BY <2>1, <2>3, InList
  <2>5. S \subseteq Nat /\ k \in S
    BY <1>3, <2>3, <2>4
  <2>6. PICK i \in S : \A j \in S : i <= j
    BY <2>5, Least, Zenon
  <2>7. i \in 1 .. Len(b) /\ b[i] \in Ids /\ next[b[i]] # None
    BY <2>3, <2>6
  <2>8. PICK y \in Ids : next[y] = b[i]
    BY <1>1, <1>2, <2>7 DEF PlaceInv, Waits
  <2>9. y \in ToSet(b) /\ next[y] # None
    BY <1>1, <2>7, <2>8 DEF BatchInv, b
  <2>10. PICK j \in 1 .. Len(b) : b[j] = y
    BY <2>3, <2>9, InList
  <2>11. j < i
    BY <1>1, <2>1, <2>3, <2>7, <2>8, <2>10 DEF BatchInv, b
  <2>12. j \in S
    BY <2>9, <2>10
  <2>13. i <= j
    BY <2>6, <2>12
  <2> QED BY <2>7, <2>10, <2>11, <2>13
<1>4. ASSUME NEW x \in Ids, Waits(x)
      PROVE  FALSE
  BY <1>1, <1>3, <1>4 DEF Waits
<1> QED BY <1>2, <1>3, <1>4

LEMMA QueuePlace ==
  ASSUME IInv, Queue, NEW b, b = args.batches[batch + 1]
  PROVE  /\ PlaceInv' /\ BatchInv'
         /\ b \in Seq(Ids) /\ pending' \in Seq(Ids) /\ next' \in [Ids -> Ids \cup {None}]
         /\ batch + 1 \in 1 .. Len(args.batches)
         /\ \A y \in Ids : /\ Taken(y)' <=> Taken(y) \/ y \in ToSet(b)
                           /\ y \in ToSet(b) => ~ Taken(y)
                           /\ On(y)' \/ Waits(y)' <=> y \in ToSet(b)
                           /\ ~ On(y) /\ ~ Waits(y)
         /\ \A y : y \in ToSet(pending') => y \in ToSet(b)
<1> DEFINE n == batch + 1
<1>1. /\ pending = <<>> /\ adding = <<>> /\ batch < Len(args.batches)
      /\ UNCHANGED <<args, adding>> /\ batch' = batch + 1
      /\ pending' = Heads(b)
      /\ next' = [id \in Ids |->
           IF id \in ToSet(b) THEN NextOf(b, CHOOSE i \in DOMAIN b : b[i] = id) ELSE None]
  BY DEF Queue, BetweenWalks
<1>2. args \in Args /\ batch \in 0 .. Len(args.batches) /\ None \notin Ids /\ HostOf \in [Ids -> Hosts]
      /\ args.batches \in Seq(Seq(Ids))
  BY PowerAssumption DEF IInv, TypeOK, AllArgs
<1>3. n \in 1 .. Len(args.batches) /\ batch \in Nat
  BY <1>1, <1>2
<1>4. /\ b \in Seq(Ids) /\ Distinct(b)
      /\ \A m \in 1 .. Len(args.batches) :
           \A x : x \in ToSet(b) /\ x \in ToSet(args.batches[m]) => m = n
      /\ args.c410x \/ \A i, j \in 1 .. Len(b) : HostOf[b[i]] = HostOf[b[j]] => i = j
  BY <1>2, <1>3, BatchFacts
<1>5. DOMAIN b = 1 .. Len(b) /\ \A i \in 1 .. Len(b) : b[i] \in Ids
  BY <1>4
<1>6. \A x : x \in ToSet(b) <=> \E i \in 1 .. Len(b) : b[i] = x
  BY <1>4, InList
<1>7. /\ Heads(b) \in Seq(Ids) /\ Distinct(Heads(b))
      /\ \A x : x \in ToSet(Heads(b)) <=> \E i \in 1 .. Len(b) : b[i] = x /\ ~ Chained(b, i)
  BY <1>4, HeadsFacts
<1>8. ToSet(adding') = {} /\ Distinct(adding')
  BY <1>1 DEF ToSet, Distinct
<1>9. \A y : On(y)' <=> \E i \in 1 .. Len(b) : b[i] = y /\ ~ Chained(b, i)
  BY <1>1, <1>7, <1>8 DEF On
<1>10. \A i \in 1 .. Len(b) : next'[b[i]] = NextOf(b, i)
  <2> SUFFICES ASSUME NEW i \in 1 .. Len(b) PROVE next'[b[i]] = NextOf(b, i)
    OBVIOUS
  <2>1. (CHOOSE j \in DOMAIN b : b[j] = b[i]) = i
    BY <1>4, <1>5 DEF Distinct
  <2>2. b[i] \in ToSet(b) /\ b[i] \in Ids
    BY <1>5, <1>6
  <2> QED BY <1>1, <2>1, <2>2
<1>11. \A y \in Ids : y \notin ToSet(b) => next'[y] = None
  BY <1>1
<1>12. \A i \in 1 .. Len(b) :
         \/ next'[b[i]] = None
         \/ \E j \in i + 1 .. Len(b) :
              /\ next'[b[i]] = b[j] /\ Chained(b, j) /\ HostOf[b[j]] = HostOf[b[i]]
              /\ \A k \in i + 1 .. j - 1 : HostOf[b[k]] # HostOf[b[i]]
  BY <1>4, <1>10, NextFacts, SMTT(30)
<1>13. next' \in [Ids -> Ids \cup {None}]
  <2>1. \A y \in Ids : next'[y] \in Ids \cup {None}
    BY <1>5, <1>6, <1>11, <1>12
  <2> QED BY <1>1, <2>1
<1>14. \A y \in Ids : Waits(y)' <=> \E j \in 1 .. Len(b) : b[j] = y /\ Chained(b, j)
  <2> SUFFICES ASSUME NEW y \in Ids
               PROVE  Waits(y)' <=> \E j \in 1 .. Len(b) : b[j] = y /\ Chained(b, j)
    OBVIOUS
  <2>1. ASSUME Waits(y)' PROVE \E j \in 1 .. Len(b) : b[j] = y /\ Chained(b, j)
    <3>1. PICK o \in Ids : next'[o] = y
      BY <2>1 DEF Waits
    <3>2. PICK i \in 1 .. Len(b) : b[i] = o
      BY <1>2, <1>6, <1>11, <3>1
    <3> QED BY <1>2, <1>12, <3>1, <3>2, SMTT(30)
  <2>2. ASSUME NEW j \in 1 .. Len(b), b[j] = y, Chained(b, j) PROVE Waits(y)'
    <3>1. PICK i \in 1 .. Len(b) : NextOf(b, i) = b[j]
      BY <1>4, <2>2, ChainedFacts
    <3>2. b[i] \in Ids /\ next'[b[i]] = y
      BY <1>5, <1>10, <2>2, <3>1
    <3> QED BY <3>2 DEF Waits
  <2> QED BY <2>1, <2>2
<1>15. \A y \in Ids : On(y)' \/ Waits(y)' <=> y \in ToSet(b)
  BY <1>6, <1>9, <1>14
<1>16. PlaceInv'
  <2>1. \A y, z \in Ids : On(y)' /\ On(z)' /\ HostOf[y] = HostOf[z] => y = z
    <3> SUFFICES ASSUME NEW i \in 1 .. Len(b), NEW j \in 1 .. Len(b),
                        ~ Chained(b, i), ~ Chained(b, j), HostOf[b[i]] = HostOf[b[j]]
                 PROVE  i = j
      BY <1>9
    <3>1. CASE ~ args.c410x
      BY <3>1, <1>4
    <3>2. CASE args.c410x
      <4>1. ~ (i < j)
        BY <3>2 DEF Chained
      <4>2. ~ (j < i)
        BY <3>2 DEF Chained
      <4> QED BY <4>1, <4>2
    <3> QED BY <3>1, <3>2
  <2>2. \A y \in Ids : ~ (On(y)' /\ Waits(y)')
    BY <1>4, <1>9, <1>14 DEF Distinct
  <2>3. ASSUME NEW y \in Ids, NEW z \in Ids, next'[y] = next'[z], next'[y] # None
        PROVE  y = z
    <3>1. PICK i \in 1 .. Len(b), k \in 1 .. Len(b) : b[i] = y /\ b[k] = z
      BY <1>6, <1>11, <2>3
    <3>2. PICK j \in i + 1 .. Len(b) :
            /\ next'[y] = b[j] /\ HostOf[b[j]] = HostOf[b[i]]
            /\ \A l \in i + 1 .. j - 1 : HostOf[b[l]] # HostOf[b[i]]
      BY <1>12, <2>3, <3>1
    <3>3. PICK m \in k + 1 .. Len(b) :
            /\ next'[z] = b[m] /\ HostOf[b[m]] = HostOf[b[k]]
            /\ \A l \in k + 1 .. m - 1 : HostOf[b[l]] # HostOf[b[k]]
      BY <1>12, <2>3, <3>1
    <3>4. j \in 1 .. Len(b) /\ m \in 1 .. Len(b) /\ b[j] = b[m]
      <4>1. j \in 1 .. Len(b) /\ m \in 1 .. Len(b)
        BY <1>4, <3>2, <3>3
      <4> QED BY <4>1, <2>3, <3>2, <3>3
    <3>5. j = m
      BY <1>4, <3>4 DEF Distinct
    <3>6. ~ (i < k)
      BY <3>2, <3>3, <3>5
    <3>7. ~ (k < i)
      BY <3>2, <3>3, <3>5
    <3>8. i = k
      BY <3>6, <3>7
    <3> QED BY <3>1, <3>8
  <2>4. ASSUME NEW y \in Ids, next'[y] # None
        PROVE  HostOf[next'[y]] = HostOf[y] /\ (On(y)' \/ Waits(y)')
    <3>1. y \in ToSet(b)
      BY <1>11, <2>4
    <3>2. PICK i \in 1 .. Len(b) : b[i] = y
      BY <1>6, <3>1
    <3>3. HostOf[next'[y]] = HostOf[y]
      BY <1>12, <2>4, <3>2
    <3> QED BY <1>15, <3>1, <3>3
  <2> QED BY <1>1, <1>7, <1>8, <2>1, <2>2, <2>3, <2>4 DEF PlaceInv
<1>17. BatchInv'
  <2>1. ASSUME NEW y \in Ids, On(y)' \/ Waits(y)' \/ next'[y] # None
        PROVE  y \in ToSet(b)
    BY <1>11, <1>15, <2>1
  <2>2. ASSUME NEW i \in 1 .. Len(b), NEW j \in 1 .. Len(b), next'[b[i]] = b[j]
        PROVE  i < j
    <3>1. next'[b[i]] # None
      BY <1>2, <1>5, <2>2
    <3>2. PICK k \in i + 1 .. Len(b) : next'[b[i]] = b[k]
      BY <1>12, <3>1
    <3>3. k \in 1 .. Len(b) /\ i < k
      BY <1>4
    <3>4. b[k] = b[j]
      BY <2>2, <3>2
    <3>5. k = j
      BY <1>4, <3>3, <3>4 DEF Distinct
    <3> QED BY <3>3, <3>5
  <2>3. batch' > 0 /\ args'.batches[batch'] = b
    BY <1>1, <1>3
  <2> QED BY <1>5, <2>1, <2>2, <2>3 DEF BatchInv
<1>18. ASSUME NEW y \in Ids
       PROVE  /\ Taken(y)' <=> Taken(y) \/ y \in ToSet(b)
              /\ y \in ToSet(b) => ~ Taken(y)
  <2>1. 1 .. batch' = 1 .. batch \cup {n}
    BY <1>1, <1>3
  <2>2. Taken(y)' <=> Taken(y) \/ y \in ToSet(b)
    BY <1>1, <2>1 DEF Taken
  <2>3. y \in ToSet(b) => ~ Taken(y)
    <3> SUFFICES ASSUME y \in ToSet(b), NEW m \in 1 .. batch, y \in ToSet(args.batches[m])
                 PROVE  FALSE
      BY DEF Taken
    <3>1. m \in 1 .. Len(args.batches) /\ m # n
      BY <1>2, <1>3
    <3> QED BY <1>4, <3>1
  <2> QED BY <2>2, <2>3
<1>19. \A y \in Ids : ~ On(y) /\ ~ Waits(y)
  BY <1>1, NothingChained
<1>20. \A y : y \in ToSet(pending') => y \in ToSet(b)
  BY <1>1, <1>6, <1>7
<1> QED BY <1>1, <1>3, <1>4, <1>7, <1>13, <1>15, <1>16, <1>17, <1>18, <1>19, <1>20

LEMMA QueueInv ==
  ASSUME IInv, Queue
  PROVE  IInv'
<1> DEFINE b == args.batches[batch + 1]
           H == {h \in Hosts : \E i \in DOMAIN b : HostOf[b[i]] = h}
<1>1. /\ PlaceInv' /\ BatchInv'
      /\ b \in Seq(Ids) /\ pending' \in Seq(Ids) /\ next' \in [Ids -> Ids \cup {None}]
      /\ batch + 1 \in 1 .. Len(args.batches)
      /\ \A y \in Ids : /\ Taken(y)' <=> Taken(y) \/ y \in ToSet(b)
                        /\ y \in ToSet(b) => ~ Taken(y)
                        /\ On(y)' \/ Waits(y)' <=> y \in ToSet(b)
                        /\ ~ On(y) /\ ~ Waits(y)
      /\ \A y : y \in ToSet(pending') => y \in ToSet(b)
  BY QueuePlace
<1>2. /\ pending = <<>> /\ itr = 1 /\ adding = <<>> /\ batch' = batch + 1 /\ counts' = {}
      /\ UNCHANGED <<args, adding, itr, executing, net, power, aim, said, did, exit>>
      /\ conn' = [h \in Hosts |-> IF h \in H THEN Cleared(conn[h]) ELSE conn[h]]
  BY DEF Queue, BetweenWalks
<1>3. PICK op \in args.ops :
        ip' = [id \in Ids |-> IF id \in ToSet(b)
                              THEN [st |-> "start", cmd |-> op, wait |-> FALSE] ELSE ip[id]]
  BY DEF Queue
<1> HIDE DEF b, H
<1>4. TypeOK /\ AnswerInv /\ ip \in [Ids -> State] /\ op \in AllOps
  <2>1. args.ops \subseteq AllOps
    BY PowerAssumption DEF IInv, TypeOK, AllArgs
  <2> QED BY <2>1 DEF IInv, TypeOK, State
<1> DEFINE r == [st |-> "start", cmd |-> op, wait |-> FALSE]
<1>5. r \in State /\ r.st = "start" /\ r.cmd = op /\ r.wait = FALSE
  BY <1>4 DEF State
<1> HIDE DEF r
<1>6. \A y \in Ids : ip'[y] = IF y \in ToSet(b) THEN r ELSE ip[y]
  BY <1>3 DEF r
<1>7. /\ conn' \in [Hosts -> [in: Seq(Packet), out: Seq(Packet)]]
      /\ \A g \in Hosts : Len(conn'[g].in) <= 1 /\ Len(conn'[g].out) <= 2
      /\ \A g \in Hosts : Packets(g)' \subseteq Packets(g)
      /\ AnswerInv'
  BY <1>2, <1>4, ClearedPackets
<1>8. TypeOK'
  <2>1. ip' \in [Ids -> State]
    BY <1>3, <1>4, <1>5 DEF r
  <2>2. itr' \in 1 .. Len(pending') + 1
    BY <1>1, <1>2
  <2>3. Targets' = Targets
    BY <1>2 DEF Targets, TargetOf
  <2>4. batch' \in 0 .. Len(args'.batches)
    BY <1>1, <1>2
  <2> QED BY <1>1, <1>2, <1>4, <1>7, <2>1, <2>2, <2>3, <2>4 DEF TypeOK, State
<1>9. \A y \in Ids : ~ Taken(y) => ip[y].st = "start" /\ ~ ip[y].wait /\ said[y] = <<>>
  BY DEF IInv, StepInv, SaidInv
<1>10. ToSet(adding') = {} /\ ToSet(pending) = {}
  BY <1>2 DEF ToSet
<1>11. StepInv'
  <2> SUFFICES ASSUME NEW y \in Ids
               PROVE  /\ Waits(y)' \/ ~ Taken(y)' => ip'[y].st = "start" /\ ~ ip'[y].wait
                      /\ y \in ToSet(pending') => ip'[y].st # "end"
    BY <1>10 DEF StepInv
  <2> QED BY <1>1, <1>5, <1>6, <1>9
<1>12. FanoutKept'
  <2>1. Running = {}
    BY <1>10 DEF Running
  <2>2. ToSet(pending') \subseteq Ids
    BY <1>1, InList
  <2>3. Running' = {}
    BY <1>1, <1>5, <1>6, <2>2 DEF Running
  <2> QED BY <1>2, <2>1, <2>3 DEF IInv, FanoutKept
<1>13. SaidInv'
  <2> SUFFICES ASSUME NEW y \in Ids
               PROVE  /\ Waits(y)' \/ ~ Taken(y)' => said[y] = <<>>
                      /\ y \in ToSet(pending') =>
                           IF ip'[y].st = "close" THEN Told(said[y]) ELSE said[y] = <<>>
                      /\ Taken(y)' /\ ~ On(y)' /\ ~ Waits(y)' => Told(said[y])
    BY <1>2, <1>10 DEF SaidInv, Told
  <2>1. CASE y \in ToSet(b)
    BY <2>1, <1>1, <1>5, <1>6, <1>9
  <2>2. CASE y \notin ToSet(b)
    <3>1. Taken(y) => Told(said[y])
      BY <1>1 DEF IInv, SaidInv
    <3> QED BY <2>2, <3>1, <1>1, <1>9
  <2> QED BY <2>1, <2>2
<1>14. \A y \in Ids : y \in ToSet(b) => did[y].exec = {}
  <2>1. \A y \in Ids : ~ Taken(y) => Asking(ip[y])
    BY <1>9 DEF Asking
  <2> QED BY <1>1, <2>1 DEF IInv, CmdInv, GoodState
<1>15. CmdInv'
  <2> SUFFICES ASSUME NEW y \in Ids PROVE GoodState(y, ip'[y])
    BY <1>2 DEF CmdInv, GoodState, Asking, WaitsFor
  <2>1. CASE y \in ToSet(b)
    BY <2>1, <1>5, <1>6, <1>14 DEF GoodState, Control
  <2>2. CASE y \notin ToSet(b)
    BY <2>2, <1>6 DEF IInv, CmdInv
  <2> QED BY <2>1, <2>2
<1>16. PacketInv'
  <2> SUFFICES ASSUME NEW g \in Hosts, NEW p \in Packets(g)'
               PROVE  GoodPacket(g, p)'
    BY DEF PacketInv
  <2>1. p \in Packets(g) /\ GoodPacket(g, p)
    BY <1>7 DEF IInv, PacketInv
  <2>2. p \in Packet
    <3>1. net[g] \subseteq Packet /\ conn[g] \in [in: Seq(Packet), out: Seq(Packet)]
      BY <1>4 DEF TypeOK
    <3> QED BY <2>1, <3>1, InList DEF Packets
  <2>3. p.id \in Ids /\ Taken(p.id)
    BY <2>1, <2>2 DEF Packet, GoodPacket
  <2>4. ip'[p.id] = ip[p.id] /\ Taken(p.id)'
    BY <2>3, <1>1, <1>6
  <2>5. Asking(ip[p.id])' <=> Asking(ip[p.id])
    BY <2>4 DEF Asking
  <2> QED BY <2>1, <2>4, <2>5, <1>2 DEF GoodPacket
<1>17. LineTrue'
  <2> SUFFICES ASSUME NEW y \in Ids PROVE GoodLine(y, ip'[y].cmd, said[y])
    BY <1>2 DEF LineTrue, GoodLine, WaitsFor, Powering
  <2>1. GoodLine(y, ip[y].cmd, said[y])
    BY DEF IInv, LineTrue, GoodLine, Powering
  <2>2. CASE y \in ToSet(b)
    <3>1. said[y] = <<>>
      BY <2>2, <1>1, <1>9
    <3> QED BY <2>1, <3>1 DEF GoodLine
  <2>3. CASE y \notin ToSet(b)
    BY <2>1, <2>3, <1>6
  <2> QED BY <2>2, <2>3
<1> QED BY <1>1, <1>7, <1>8, <1>11, <1>12, <1>13, <1>15, <1>16, <1>17 DEF IInv

LEMMA InitInv ==
  ASSUME Init
  PROVE  IInv
<1>1. /\ args \in Args /\ args \in AllArgs /\ None \notin Ids /\ HostOf \in [Ids -> Hosts]
      /\ Args \subseteq AllArgs
  BY PowerAssumption DEF Init
<1>2. /\ batch = 0 /\ pending = <<>> /\ adding = <<>> /\ itr = 1
      /\ next = [id \in Ids |-> None]
      /\ ip = [id \in Ids |-> [st |-> "start", cmd |-> "on", wait |-> FALSE]]
      /\ executing = 0
      /\ conn = [h \in Hosts |-> [in |-> <<>>, out |-> <<>>]]
      /\ net = [h \in Hosts |-> {}]
      /\ power \in [Targets -> args.initial] /\ aim = power
      /\ counts = {} /\ said = [id \in Ids |-> <<>>]
      /\ did = [id \in Ids |-> [exec |-> {}, before |-> {}, after |-> {}]]
      /\ exit = None
  BY DEF Init
<1>3. ToSet(<<>>) = {} /\ Len(<<>>) = 0
  BY DEF ToSet
<1>4. TypeOK
  <2>1. args.initial \subseteq PowerStates /\ args.batches \in Seq(Seq(Ids))
    BY <1>1 DEF AllArgs
  <2>2. power \in [Targets -> PowerStates] /\ aim \in [Targets -> PowerStates]
    BY <1>2, <2>1
  <2>3. [st |-> "start", cmd |-> "on", wait |-> FALSE] \in
          [st: Sent \cup {"start", "end"}, cmd: AllOps, wait: BOOLEAN]
    BY DEF AllOps
  <2>4. ip \in [Ids -> [st: Sent \cup {"start", "end"}, cmd: AllOps, wait: BOOLEAN]]
    BY <1>2, <2>3
  <2>5. [in |-> <<>>, out |-> <<>>] \in [in: Seq(Packet), out: Seq(Packet)]
    OBVIOUS
  <2>6. conn \in [Hosts -> [in: Seq(Packet), out: Seq(Packet)]]
    BY <1>2, <2>5
  <2>7. \A h \in Hosts : Len(conn[h].in) <= 1 /\ Len(conn[h].out) <= 2
    BY <1>2, <1>3
  <2>8. did \in [Ids -> [exec: SUBSET AllOps, before: SUBSET PowerStates, after: SUBSET PowerStates]]
    BY <1>2
  <2>9. /\ net \in [Hosts -> SUBSET Packet] /\ next \in [Ids -> Ids \cup {None}]
        /\ said \in [Ids -> Seq(Messages)]
    BY <1>2
  <2>10. batch \in 0 .. Len(args.batches) /\ itr \in 1 .. Len(pending) + 1
    BY <1>2, <1>3, <2>1
  <2>11. pending \in Seq(Ids) /\ adding \in Seq(Ids)
    BY <1>2
  <2> QED BY <1>1, <1>2, <2>2, <2>4, <2>6, <2>7, <2>8, <2>9, <2>10, <2>11 DEF TypeOK
<1>5. \A x \in Ids : ~ On(x) /\ ~ Waits(x) /\ ~ Taken(x) /\ next[x] = None
  BY <1>1, <1>2, <1>3 DEF On, Waits, Taken
<1>6. PlaceInv
  BY <1>2, <1>3, <1>5 DEF PlaceInv, Distinct
<1>7. BatchInv
  BY <1>2, <1>5 DEF BatchInv
<1>8. StepInv /\ SaidInv
  BY <1>2, <1>3, <1>5 DEF StepInv, SaidInv
<1>9. FanoutKept
  <2>1. Running = {}
    BY <1>2, <1>3 DEF Running
  <2>2. args.fanout \in Nat
    BY <1>1 DEF AllArgs
  <2> QED BY <1>2, <2>1, <2>2, FS_EmptySet DEF FanoutKept
<1>10. CmdInv
  BY <1>2 DEF CmdInv, GoodState, Asking, Control, Report
<1>11. \A h \in Hosts : Packets(h) = {} /\ ToSet(conn[h].in) = {}
  BY <1>2, <1>3 DEF Packets
<1>12. PacketInv /\ AnswerInv
  BY <1>11 DEF PacketInv, AnswerInv
<1>13. LineTrue
  BY <1>2 DEF LineTrue
<1> QED BY <1>4, <1>6, <1>7, <1>8, <1>9, <1>10, <1>12, <1>13 DEF IInv

-----------------------------------------------------------------------------
(* The theorems *)

LEMMA StutterInv ==
  ASSUME IInv, UNCHANGED vars
  PROVE  IInv'
<1>1. UNCHANGED <<args, batch, pending, adding, itr, next, ip, executing, conn, net, power, aim,
                  counts, said, did, exit>>
  BY DEF vars, lists
<1>2. TypeOK'
  <2>1. Targets' = Targets
    BY <1>1 DEF Targets, TargetOf
  <2> QED BY <1>1, <2>1 DEF IInv, TypeOK
<1>3. (\A h \in Hosts : Packets(h)' \subseteq Packets(h)) /\ AnswerInv'
  BY <1>1 DEF IInv, Packets, AnswerInv
<1> QED BY <1>1, <1>2, <1>3, IdleInv

LEMMA NextInv ==
  ASSUME IInv, Next
  PROVE  IInv'
<1>1. CASE Queue
  BY <1>1, QueueInv
<1>2. CASE Walk
  BY <1>2, ProcessPacketsInv, EndWalkInv DEF Walk
<1>3. CASE Exit \/ \E t \in Targets : Settle(t)
  BY <1>3, SettleExitInv
<1>4. CASE \E h \in Hosts : Transmit(h) \/ Receive(h) \/ Lose(h) \/ Serve(h)
  BY <1>4, TransmitInv, ReceiveInv, LoseInv, ServeInv
<1> QED BY <1>1, <1>2, <1>3, <1>4 DEF Next

\* The inductive invariant of the poll loop, the network and the BMC, for every
\* set of hosts and commands and every command line.
THEOREM PowerInvariant == Spec => []IInv
<1>1. Init => IInv
  BY InitInv
<1>2. IInv /\ [Next]_vars => IInv'
  BY NextInv, StutterInv
<1> QED BY <1>1, <1>2, PTL DEF Spec

\* The lists, the packets and the counters of ipmipower_powercmd.c stay in their
\* types, and the place of the iterator stays within the list while commands are
\* deleted under it.
THEOREM PowerTypeCorrect == Spec => []TypeOK
<1>1. IInv => TypeOK
  BY DEF IInv
<1> QED BY <1>1, PowerInvariant, PTL

\* executing_count is the number of commands that run, and no more run than the
\* fanout allows, however commands end, time out, or start one another.
THEOREM PowerFanoutKept == Spec => []FanoutKept
<1>1. IInv => FanoutKept
  BY DEF IInv
<1> QED BY <1>1, PowerInvariant, PTL

\* Two commands to one host never run at once: the OEM extension chains them in
\* ipmipower_powercmd_queue(), and only the end of one adds the next.
THEOREM PowerHostSerialized == Spec => []HostSerialized
<1>1. IInv => HostSerialized
  <2> SUFFICES ASSUME IInv, NEW a \in Running, NEW b \in Running, HostOf[a] = HostOf[b]
               PROVE  a = b
    BY DEF HostSerialized
  <2>1. ToSet(pending) \subseteq Ids
    BY InList DEF IInv, TypeOK
  <2>2. a \in Ids /\ b \in Ids /\ On(a) /\ On(b)
    BY <2>1 DEF Running, On
  <2> QED BY <2>2 DEF IInv, PlaceInv
<1> QED BY <1>1, PowerInvariant, PTL

\* A command prints at most one line, and has printed it when it is over, unless
\* it is of an IPMI 2.0 session (ipmipower_output()).
THEOREM PowerOneLine == Spec => []OneLine
<1>1. IInv => OneLine
  <2> SUFFICES ASSUME IInv, NEW x \in Ids
               PROVE  Len(said[x]) <= 1 /\ (Over(x) /\ args.version = 15 => said[x] # <<>>)
    BY DEF OneLine
  <2>1. Len(<<>>) = 0
    OBVIOUS
  <2>2. said[x] = <<>> \/ Told(said[x])
    BY DEF IInv, SaidInv, On
  <2>3. Over(x) => Taken(x) /\ ~ On(x) /\ ~ Waits(x)
    BY DEF Over, Taken, On, Waits
  <2>4. Over(x) => Told(said[x])
    BY <2>3 DEF IInv, SaidInv
  <2> QED BY <2>1, <2>2, <2>4 DEF Told
<1> QED BY <1>1, PowerInvariant, PTL

\* The line is true of what the BMC executed and reported, whatever the network
\* loses, delays, repeats or reorders (_process_ipmi_packets()).
THEOREM PowerLineTrue == Spec => []LineTrue
<1>1. IInv => LineTrue
  BY DEF IInv
<1> QED BY <1>1, PowerInvariant, PTL
=============================================================================
