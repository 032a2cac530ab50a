---------------------------- MODULE IpmiseldProofs ----------------------------
(***************************************************************************)
(* Proofs about ipmiseld, its two modules.                                 *)
(*                                                                         *)
(* SelThreadPool, for every finite set of hosts and of threads: every host *)
(* is in one place, and nothing runs after the pool is freed: the threads  *)
(* that run are as many as threadpool_count says, but for one that has     *)
(* been created and not yet counted (CountInv).                            *)
(*                                                                         *)
(* SelDaemon, for every size of the SEL, number of events, bound on the    *)
(* failures and set of options, on BMCs whose record ids do not restart:   *)
(* no event that is owed a line is erased before it has one, and lines are *)
(* repeated no more often than something went wrong.  The argument: when   *)
(* no id is used twice, the SEL holds the last records in order (Numbered) *)
(* and two SEL states with the same erase time differ only by what was     *)
(* added (Older); so what the check of ipmiseld_check_sel_info() passes    *)
(* over is settled, and what it does not pass over the parse reaches.      *)
(***************************************************************************)
EXTENDS SelDaemon, SelThreadPool, SequenceTheorems, FiniteSetTheorems, TLAPS

-----------------------------------------------------------------------------
(* SelThreadPool: the inductive invariant. *)

In(s, h) == \E k \in 1 .. Len(s) : s[k] = h
Distinct(s) == \A j, k \in 1 .. Len(s) : s[j] = s[k] => j = k

Steps == {"new", "loop", "lock", "checked", "wait", "poll", "post", "exit", "gone"}

Shape ==
  /\ heap \in Seq(Hosts) /\ queue \in Seq(Hosts)
  /\ running \in BOOLEAN /\ flag \in BOOLEAN
  /\ main \in {"create", "count", "loop", "queue", "destroy", "signal", "wait",
              "woken", "freed"}
  /\ hand \in Hosts \cup {None}
  /\ thread \in [Threads -> Steps]
  /\ host \in [Threads -> Hosts \cup {None}]
  /\ mutex \in Threads \cup {None}
  /\ len \in 0 .. Cardinality(Threads) /\ signals \in 0 .. Cardinality(Threads)
  /\ count \in 0 .. Cardinality(Threads)
  /\ failures \in 0 .. MaxFailures /\ late \subseteq Threads

Taken(h) == \E w \in Threads : host[w] = h

\* A worker has a host from the moment it takes it off the queue until it puts
\* it in the heap, the main thread between heap_pop() and list_enqueue().
HandsInv ==
  /\ \A w \in Threads : (host[w] # None) <=> (thread[w] \in {"poll", "post"})
  /\ (hand # None) <=> (main = "queue")

\* No place holds a host twice ...
OnceInv ==
  /\ Distinct(heap) /\ Distinct(queue)
  /\ \A v, w \in Threads : host[v] = host[w] /\ host[v] # None => v = w

\* ... and exactly one place holds it.
PlaceInv ==
  \A h \in Hosts :
    /\ In(heap, h) \/ In(queue, h) \/ Taken(h) \/ hand = h
    /\ ~ (In(heap, h) /\ In(queue, h))
    /\ ~ (In(heap, h) /\ Taken(h))
    /\ ~ (In(queue, h) /\ Taken(h))
    /\ hand = h => ~ In(heap, h) /\ ~ In(queue, h) /\ ~ Taken(h)

\* The threads that run.
Live == {w \in Threads : thread[w] \notin {"new", "gone"}}

\* threadpool_count is their number, but for the thread the main thread has
\* created and not counted yet; and a thread leaves only once destroy, which
\* is done with creating threads, has told it to.
CountInv ==
  /\ Cardinality(Live) = count + (IF main = "count" THEN 1 ELSE 0)
  /\ \A w \in Threads : thread[w] = "exit" => flag
  /\ flag => main \in {"signal", "wait", "woken", "freed"}

PoolInv == Shape /\ HandsInv /\ OnceInv /\ PlaceInv /\ CountInv /\ NoThreadAfterFree

-----------------------------------------------------------------------------
(* Sequences in which nothing is twice. *)

LEMMA DistinctTail ==
  ASSUME NEW S, NEW s \in Seq(S), s # <<>>, Distinct(s)
  PROVE  /\ Tail(s) \in Seq(S) /\ Head(s) \in S /\ Distinct(Tail(s))
         /\ In(s, Head(s))
         /\ \A h : In(Tail(s), h) <=> In(s, h) /\ h # Head(s)
<1>1. /\ Tail(s) \in Seq(S) /\ Head(s) \in S /\ Len(s) \in Nat \ {0}
      /\ Len(Tail(s)) = Len(s) - 1 /\ Head(s) = s[1]
      /\ \A k \in 1 .. Len(s) - 1 : Tail(s)[k] = s[k + 1]
  BY HeadTailProperties, EmptySeq
<1>2. Distinct(Tail(s))
  <2> SUFFICES ASSUME NEW j \in 1 .. Len(s) - 1, NEW k \in 1 .. Len(s) - 1,
                      Tail(s)[j] = Tail(s)[k]
               PROVE  j = k
    BY <1>1 DEF Distinct
  <2>1. j + 1 \in 1 .. Len(s) /\ k + 1 \in 1 .. Len(s) /\ s[j + 1] = s[k + 1]
    BY <1>1
  <2>2. j + 1 = k + 1
    BY <2>1 DEF Distinct
  <2> QED BY <2>2, <1>1
<1>3. ASSUME NEW h, In(Tail(s), h) PROVE In(s, h) /\ h # Head(s)
  <2>1. PICK k \in 1 .. Len(s) - 1 : Tail(s)[k] = h
    BY <1>1, <1>3 DEF In
  <2>2. k + 1 \in 1 .. Len(s) /\ 1 \in 1 .. Len(s) /\ s[k + 1] = h /\ k + 1 # 1
    BY <1>1, <2>1
  <2> QED BY <1>1, <2>2 DEF In, Distinct
<1>4. ASSUME NEW h, In(s, h), h # Head(s) PROVE In(Tail(s), h)
  <2>1. PICK k \in 1 .. Len(s) : s[k] = h
    BY <1>4 DEF In
  <2>2. k - 1 \in 1 .. Len(s) - 1 /\ Tail(s)[k - 1] = s[(k - 1) + 1] /\ (k - 1) + 1 = k
    BY <1>1, <1>4, <2>1
  <2> QED BY <1>1, <2>1, <2>2 DEF In
<1>5. In(s, Head(s))
  BY <1>1 DEF In
<1> QED BY <1>1, <1>2, <1>3, <1>4, <1>5

LEMMA DistinctAppend ==
  ASSUME NEW S, NEW s \in Seq(S), NEW x \in S, ~ In(s, x), Distinct(s)
  PROVE  /\ Append(s, x) \in Seq(S) /\ Distinct(Append(s, x))
         /\ \A h : In(Append(s, x), h) <=> In(s, h) \/ h = x
<1>1. /\ Append(s, x) \in Seq(S) /\ Len(s) \in Nat
      /\ Len(Append(s, x)) = Len(s) + 1 /\ Append(s, x)[Len(s) + 1] = x
      /\ \A k \in 1 .. Len(s) : Append(s, x)[k] = s[k]
  OBVIOUS
<1> QED BY <1>1 DEF In, Distinct

LEMMA DistinctPush ==
  ASSUME NEW S, NEW s \in Seq(S), NEW x \in S, ~ In(s, x), Distinct(s)
  PROVE  /\ <<x>> \o s \in Seq(S) /\ Distinct(<<x>> \o s)
         /\ \A h : In(<<x>> \o s, h) <=> In(s, h) \/ h = x
<1> DEFINE t == <<x>> \o s
<1>1. /\ t \in Seq(S) /\ Len(s) \in Nat /\ Len(t) = Len(s) + 1 /\ t[1] = x
      /\ \A k \in 2 .. Len(s) + 1 : t[k] = s[k - 1]
  <2>1. <<x>> \in Seq(S) /\ Len(<<x>>) = 1 /\ <<x>>[1] = x
    OBVIOUS
  <2> QED BY <2>1, ConcatProperties
<1> HIDE DEF t
<1>2. Distinct(t)
  <2> SUFFICES ASSUME NEW j \in 1 .. Len(s) + 1, NEW k \in 1 .. Len(s) + 1, t[j] = t[k]
               PROVE  j = k
    BY <1>1 DEF Distinct
  <2>1. CASE j > 1 /\ k > 1
    BY <1>1, <2>1, SMTT(30) DEF Distinct
  <2>2. \A i \in 2 .. Len(s) + 1 : i - 1 \in 1 .. Len(s) /\ t[i] # x
    BY <1>1 DEF In
  <2> QED BY <2>1, <2>2, <1>1
<1>3. ASSUME NEW h PROVE In(t, h) <=> In(s, h) \/ h = x
  <2>1. ASSUME In(t, h) PROVE In(s, h) \/ h = x
    BY <1>1, <2>1 DEF In
  <2>2. ASSUME In(s, h) PROVE In(t, h)
    <3>1. PICK k \in 1 .. Len(s) : s[k] = h
      BY <2>2 DEF In
    <3>2. k + 1 \in 2 .. Len(s) + 1 /\ (k + 1) - 1 = k
      BY <1>1
    <3>3. t[k + 1] = h /\ k + 1 \in 1 .. Len(t)
      BY <1>1, <3>1, <3>2
    <3> QED BY <3>3 DEF In
  <2>3. In(t, x)
    BY <1>1 DEF In
  <2> QED BY <2>1, <2>2, <2>3
<1> QED BY <1>1, <1>2, <1>3 DEF t

-----------------------------------------------------------------------------
(* Steps that move no host. *)

LEMMA LiveCount ==
  /\ IsFiniteSet(Live) /\ Cardinality(Live) \in 0 .. Cardinality(Threads)
  /\ Cardinality(Threads) \in Nat
<1>1. Live \in SUBSET Threads
  BY DEF Live
<1>2. IsFiniteSet(Live) /\ Cardinality(Live) <= Cardinality(Threads)
  BY <1>1, PoolAssumption, FS_Subset
<1>3. Cardinality(Live) \in Nat /\ Cardinality(Threads) \in Nat
  BY <1>2, PoolAssumption, FS_CardinalityType
<1> QED BY <1>2, <1>3

\* A worker goes from one step to another without taking or giving a host.
LEMMA ThreadStep ==
  ASSUME PoolInv, NEW w \in Threads, NEW l \in Steps \ {"new", "poll", "post", "gone"},
         thread[w] \notin {"new", "poll", "post", "gone"}, l = "exit" => flag,
         thread' = [thread EXCEPT ![w] = l],
         UNCHANGED <<heap, queue, running, main, hand, host, flag, failures, late, len,
                     count>>,
         signals' \in 0 .. Cardinality(Threads),
         mutex' \in Threads \cup {None}
  PROVE  PoolInv'
<1> USE DEF PoolInv
<1>1. Shape'
  BY DEF Shape
<1>2. \A v \in Threads : thread'[v] = IF v = w THEN l ELSE thread[v]
  BY DEF Shape
<1>3. HandsInv'
  BY <1>2 DEF HandsInv
<1>4. OnceInv' /\ PlaceInv'
  BY DEF OnceInv, PlaceInv, Taken
<1>5. NoThreadAfterFree'
  BY DEF NoThreadAfterFree
<1>6. Live' = Live
  BY <1>2 DEF Live
<1>7. CountInv'
  BY <1>2, <1>6 DEF CountInv
<1> QED BY <1>1, <1>3, <1>4, <1>5, <1>7

\* The main thread goes from one step to another.
LEMMA MainStep ==
  ASSUME PoolInv, NEW l \in {"create", "loop", "destroy", "signal", "wait", "woken"},
         main \notin {"count", "queue", "freed"}, main' = l,
         UNCHANGED <<heap, queue, hand, thread, host, mutex, count>>,
         running' \in BOOLEAN, flag' \in BOOLEAN,
         flag => flag', flag' => l \in {"signal", "wait", "woken"},
         len' \in 0 .. Cardinality(Threads),
         signals' \in 0 .. Cardinality(Threads),
         failures' \in 0 .. MaxFailures, late' \subseteq Threads
  PROVE  PoolInv'
<1> USE DEF PoolInv
<1>1. Shape'
  BY DEF Shape
<1>2. HandsInv'
  BY DEF HandsInv
<1>3. OnceInv' /\ PlaceInv'
  BY DEF OnceInv, PlaceInv, Taken
<1>4. NoThreadAfterFree'
  BY DEF NoThreadAfterFree
<1>5. Live' = Live
  BY DEF Live
<1>6. CountInv'
  BY <1>5 DEF CountInv
<1> QED BY <1>1, <1>2, <1>3, <1>4, <1>6

\* The thread runs before it is counted.
LEMMA CreateInv ==
  ASSUME PoolInv, NEW w \in Threads, Create(w)
  PROVE  PoolInv'
<1> USE DEF PoolInv, Create
<1>1. Shape'
  BY DEF Shape, Steps
<1>2. \A v \in Threads : thread'[v] = IF v = w THEN "loop" ELSE thread[v]
  BY DEF Shape
<1>3. HandsInv'
  BY <1>2 DEF HandsInv
<1>4. OnceInv' /\ PlaceInv'
  BY DEF OnceInv, PlaceInv, Taken
<1>5. Live' = Live \cup {w} /\ w \notin Live
  BY <1>2 DEF Live
<1>6. Cardinality(Live') = Cardinality(Live) + 1
  BY <1>5, LiveCount, FS_AddElement
<1>7. CountInv'
  BY <1>2, <1>6, LiveCount DEF CountInv, Shape
<1>8. NoThreadAfterFree'
  BY DEF NoThreadAfterFree
<1> QED BY <1>1, <1>3, <1>4, <1>7, <1>8

LEMMA CountThreadInv ==
  ASSUME PoolInv, CountThread
  PROVE  PoolInv'
<1> USE DEF PoolInv, CountThread
<1>1. Live' = Live /\ main' \in {"create", "loop"}
  BY DEF Live
<1>2. count' = Cardinality(Live)
  BY DEF CountInv
<1>3. Shape'
  BY <1>1, <1>2, LiveCount DEF Shape
<1>4. HandsInv' /\ OnceInv' /\ PlaceInv'
  BY <1>1 DEF HandsInv, OnceInv, PlaceInv, Taken
<1>5. CountInv'
  BY <1>1, <1>2, LiveCount DEF CountInv
<1>6. NoThreadAfterFree'
  BY <1>1 DEF NoThreadAfterFree
<1> QED BY <1>3, <1>4, <1>5, <1>6

\* A thread that leaves has been counted: nothing is below zero.
LEMMA ExitInv ==
  ASSUME PoolInv, NEW w \in Threads, Exit(w)
  PROVE  PoolInv'
<1> USE DEF PoolInv, Exit
<1>1. \A v \in Threads : thread'[v] = IF v = w THEN "gone" ELSE thread[v]
  BY DEF Shape
<1>2. Live' = Live \ {w} /\ w \in Live
  BY <1>1 DEF Live
<1>3. Cardinality(Live') = Cardinality(Live) - 1 /\ Cardinality(Live) # 0
  BY <1>2, LiveCount, FS_RemoveElement, FS_EmptySet
<1>4. flag /\ main \in {"wait", "woken", "freed"} /\ main' \in {"woken", "freed"}
  BY DEF CountInv
<1>5. Cardinality(Live) = count
  BY <1>4, LiveCount DEF CountInv, Shape
<1>6. Shape'
  BY <1>3, <1>4, <1>5, LiveCount DEF Shape, Steps
<1>7. HandsInv'
  BY <1>1, <1>4 DEF HandsInv
<1>8. OnceInv' /\ PlaceInv'
  BY DEF OnceInv, PlaceInv, Taken
<1>9. CountInv'
  BY <1>1, <1>3, <1>4, <1>5, LiveCount DEF CountInv
<1>10. NoThreadAfterFree'
  BY <1>1 DEF NoThreadAfterFree
<1> QED BY <1>6, <1>7, <1>8, <1>9, <1>10

\* destroy stops waiting when threadpool_count is 0: then no thread runs.
LEMMA AwaitThreadsInv ==
  ASSUME PoolInv, AwaitThreads
  PROVE  PoolInv'
<1> USE DEF AwaitThreads, AfterWait
<1>1. CASE count > 0
  BY <1>1, MainStep DEF PoolInv, Shape, CountInv
<1>2. CASE ~ (count > 0)
  <2> USE DEF PoolInv
  <2>1. main' = "freed" /\ count = 0
    BY <1>2, LiveCount DEF Shape
  <2>2. Live = {} /\ Live' = Live
    BY <2>1, LiveCount, FS_EmptySet DEF CountInv, Live
  <2>3. Shape'
    BY <2>1 DEF Shape
  <2>4. HandsInv' /\ OnceInv' /\ PlaceInv'
    BY <2>1 DEF HandsInv, OnceInv, PlaceInv, Taken
  <2>5. CountInv'
    BY <2>1, <2>2 DEF CountInv
  <2>6. NoThreadAfterFree'
    BY <2>2 DEF NoThreadAfterFree, Live
  <2> QED BY <2>3, <2>4, <2>5, <2>6
<1> QED BY <1>1, <1>2

\* pthread_cond_signal() wakes at most a waiting worker.
LEMMA SendSignalInv ==
  ASSUME PoolInv, SendSignal
  PROVE  PoolInv'
<1> USE DEF SendSignal
<1>1. signals' \in 0 .. Cardinality(Threads) /\ Cardinality(Threads) \in Nat
  BY PoolAssumption, FS_CardinalityType DEF PoolInv, Shape
<1>2. CASE thread' = thread
  BY <1>1, <1>2, MainStep DEF PoolInv, Shape, CountInv
<1>3. ASSUME NEW w \in Waiting, thread' = [thread EXCEPT ![w] = "lock"]
      PROVE  PoolInv'
  BY <1>1, <1>3, ThreadStep DEF Waiting, Steps, PoolInv, Shape
<1> QED BY <1>2, <1>3 DEF Signal

LEMMA QuietInv ==
  ASSUME PoolInv, CreateFails \/ Quit \/ SetFlags \/ MainWakeUp
  PROVE  PoolInv'
<1>0. Cardinality(Threads) \in Nat
  BY PoolAssumption, FS_CardinalityType
<1>1. CASE CreateFails
  BY <1>1, PoolAssumption, MainStep DEF CreateFails, PoolInv, Shape, CountInv
<1>2. CASE Quit
  BY <1>2, MainStep DEF Quit, PoolInv, Shape, CountInv
<1>3. CASE SetFlags
  BY <1>0, <1>3, MainStep DEF SetFlags, SignalsToSend, PoolInv, Shape, CountInv
<1>4. CASE MainWakeUp
  BY <1>4, MainStep DEF MainWakeUp, PoolInv, Shape, CountInv
<1> QED BY <1>1, <1>2, <1>3, <1>4

LEMMA InterruptInv ==
  ASSUME PoolInv, Interrupt
  PROVE  PoolInv'
<1> USE DEF PoolInv, Interrupt
<1>1. Shape'
  BY DEF Shape
<1>2. HandsInv' /\ OnceInv' /\ PlaceInv'
  BY DEF HandsInv, OnceInv, PlaceInv, Taken
<1>3. CountInv' /\ NoThreadAfterFree'
  BY DEF CountInv, Live, NoThreadAfterFree
<1> QED BY <1>1, <1>2, <1>3

-----------------------------------------------------------------------------
(* Steps that move a host. *)

\* heap_pop(): from the heap to the main thread's hand.
LEMMA PopInv ==
  ASSUME PoolInv, Pop
  PROVE  PoolInv'
<1> USE DEF PoolInv, Pop
<1>1. /\ Tail(heap) \in Seq(Hosts) /\ Head(heap) \in Hosts /\ Distinct(Tail(heap))
      /\ In(heap, Head(heap))
      /\ \A h : In(Tail(heap), h) <=> In(heap, h) /\ h # Head(heap)
  BY DistinctTail DEF Shape, OnceInv
<1>2. hand = None /\ Head(heap) # None
  BY <1>1, PoolAssumption DEF HandsInv
<1>3. Shape'
  BY <1>1 DEF Shape
<1>4. HandsInv' /\ OnceInv' /\ CountInv' /\ NoThreadAfterFree'
  BY <1>1, <1>2 DEF HandsInv, OnceInv, CountInv, Live, NoThreadAfterFree
<1>5. PlaceInv'
  BY <1>1, <1>2, PoolAssumption DEF PlaceInv, Taken
<1> QED BY <1>3, <1>4, <1>5

\* The host in the main thread's hand is in no other place.
LEMMA InHand ==
  ASSUME PoolInv, main = "queue"
  PROVE  hand \in Hosts /\ ~ In(heap, hand) /\ ~ In(queue, hand) /\ ~ Taken(hand)
  BY DEF PoolInv, Shape, HandsInv, PlaceInv

\* ipmiseld_threadpool_queue(): from the hand to the queue.
LEMMA QueueInv ==
  ASSUME PoolInv, Queue
  PROVE  PoolInv'
<1> USE DEF PoolInv, Queue, Enqueue
<1>1. /\ Append(queue, hand) \in Seq(Hosts) /\ Distinct(Append(queue, hand))
      /\ \A h : In(Append(queue, hand), h) <=> In(queue, h) \/ h = hand
  BY InHand, DistinctAppend DEF Shape, OnceInv
<1>2. thread' = thread \/ \E w \in Threads : /\ thread[w] = "wait"
                                             /\ thread' = [thread EXCEPT ![w] = "lock"]
  BY DEF Signal, Waiting
<1>3. /\ thread' \in [Threads -> Steps]
      /\ \A w \in Threads : thread'[w] \in {"poll", "post"} <=> thread[w] \in {"poll", "post"}
  BY <1>2 DEF Shape, Steps
<1>4. Shape'
  BY <1>1, <1>3 DEF Shape
<1>5. HandsInv' /\ OnceInv' /\ NoThreadAfterFree'
  BY <1>1, <1>3 DEF HandsInv, OnceInv, NoThreadAfterFree
<1>6. PlaceInv'
  BY <1>1, InHand, PoolAssumption DEF PlaceInv, Taken
<1>7. Live' = Live /\ \A w \in Threads : thread'[w] = "exit" => thread[w] = "exit"
  BY <1>2 DEF Live, Shape
<1>8. CountInv'
  BY <1>7 DEF CountInv
<1> QED BY <1>4, <1>5, <1>6, <1>8

\* list_enqueue() fails: from the hand back to the heap.
LEMMA QueueFailsInv ==
  ASSUME PoolInv, QueueFails
  PROVE  PoolInv'
<1> USE DEF PoolInv, QueueFails
<1>1. /\ <<hand>> \o heap \in Seq(Hosts) /\ Distinct(<<hand>> \o heap)
      /\ \A h : In(<<hand>> \o heap, h) <=> In(heap, h) \/ h = hand
  BY InHand, DistinctPush DEF Shape, OnceInv
<1>2. Shape'
  BY <1>1, PoolAssumption DEF Shape
<1>3. HandsInv' /\ OnceInv' /\ CountInv' /\ NoThreadAfterFree'
  BY <1>1 DEF HandsInv, OnceInv, CountInv, Live, NoThreadAfterFree
<1>4. PlaceInv'
  BY <1>1, InHand, PoolAssumption DEF PlaceInv, Taken
<1> QED BY <1>2, <1>3, <1>4

\* list_dequeue(): from the queue to a worker, which has no host yet.
LEMMA DequeueInv ==
  ASSUME PoolInv, NEW w \in Threads, thread[w] = "lock", queue # <<>>, Dequeue(w),
         thread' = [thread EXCEPT ![w] = "poll"],
         UNCHANGED <<heap, running, main, hand, mutex, flag, len, count, signals,
                     failures, late>>
  PROVE  PoolInv'
<1> USE DEF PoolInv, Dequeue
<1>1. /\ Tail(queue) \in Seq(Hosts) /\ Head(queue) \in Hosts /\ Distinct(Tail(queue))
      /\ In(queue, Head(queue))
      /\ \A h : In(Tail(queue), h) <=> In(queue, h) /\ h # Head(queue)
  BY DistinctTail DEF Shape, OnceInv
<1>2. host[w] = None /\ Head(queue) # None /\ ~ Taken(Head(queue)) /\ main # "freed"
  BY <1>1, PoolAssumption DEF HandsInv, PlaceInv, NoThreadAfterFree
<1>3. /\ \A v \in Threads : host'[v] = IF v = w THEN Head(queue) ELSE host[v]
      /\ \A v \in Threads : thread'[v] = IF v = w THEN "poll" ELSE thread[v]
  BY DEF Shape
<1>4. Shape'
  BY <1>1 DEF Shape, Steps
<1>5. HandsInv'
  BY <1>2, <1>3 DEF HandsInv
<1>6. OnceInv'
  BY <1>1, <1>2, <1>3 DEF OnceInv, Taken
<1>7. \A h \in Hosts : Taken(h)' <=> Taken(h) \/ h = Head(queue)
  BY <1>1, <1>2, <1>3, PoolAssumption DEF Taken
<1>8. PlaceInv'
  BY <1>1, <1>7 DEF PlaceInv
<1>9. NoThreadAfterFree'
  BY <1>2 DEF NoThreadAfterFree
<1>10. Live' = Live
  BY <1>3 DEF Live
<1>11. CountInv'
  BY <1>3, <1>10 DEF CountInv
<1> QED BY <1>4, <1>5, <1>6, <1>8, <1>9, <1>11

\* _ipmiseld_poll_postprocess(): from the worker to the heap.
LEMMA PostProcessInv ==
  ASSUME PoolInv, NEW w \in Threads, PostProcess(w)
  PROVE  PoolInv'
<1> USE DEF PoolInv, PostProcess
<1>1. host[w] \in Hosts /\ host[w] # None /\ main # "freed"
  BY DEF Shape, HandsInv, NoThreadAfterFree
<1>2. Taken(host[w]) /\ ~ In(heap, host[w]) /\ ~ In(queue, host[w]) /\ hand # host[w]
  BY <1>1 DEF PlaceInv, Taken
<1>3. /\ Append(heap, host[w]) \in Seq(Hosts) /\ Distinct(Append(heap, host[w]))
      /\ \A h : In(Append(heap, host[w]), h) <=> In(heap, h) \/ h = host[w]
  BY <1>1, <1>2, DistinctAppend DEF Shape, OnceInv
<1>4. /\ \A v \in Threads : host'[v] = IF v = w THEN None ELSE host[v]
      /\ \A v \in Threads : thread'[v] = IF v = w THEN "loop" ELSE thread[v]
  BY DEF Shape
<1>5. Shape'
  BY <1>3 DEF Shape, Steps
<1>6. HandsInv'
  BY <1>4 DEF HandsInv
<1>7. OnceInv'
  BY <1>3, <1>4 DEF OnceInv
<1>8. \A h \in Hosts : Taken(h)' <=> Taken(h) /\ h # host[w]
  BY <1>1, <1>4, PoolAssumption DEF Taken, OnceInv
<1>9. PlaceInv'
  BY <1>2, <1>3, <1>8 DEF PlaceInv
<1>10. NoThreadAfterFree'
  BY <1>1 DEF NoThreadAfterFree
<1>11. Live' = Live
  BY <1>4 DEF Live
<1>12. CountInv'
  BY <1>4, <1>11 DEF CountInv
<1> QED BY <1>5, <1>6, <1>7, <1>9, <1>10, <1>12

\* The callback returns: the worker keeps its host.
LEMMA PollDoneInv ==
  ASSUME PoolInv, NEW w \in Threads, PollDone(w)
  PROVE  PoolInv'
<1> USE DEF PoolInv, PollDone
<1>1. \A v \in Threads : thread'[v] = IF v = w THEN "post" ELSE thread[v]
  BY DEF Shape
<1>2. Shape'
  BY DEF Shape, Steps
<1>3. HandsInv'
  BY <1>1 DEF HandsInv
<1>4. OnceInv' /\ PlaceInv'
  BY DEF OnceInv, PlaceInv, Taken
<1>5. NoThreadAfterFree'
  BY <1>1 DEF NoThreadAfterFree
<1>6. Live' = Live
  BY <1>1 DEF Live
<1>7. CountInv'
  BY <1>1, <1>6 DEF CountInv
<1> QED BY <1>2, <1>3, <1>4, <1>5, <1>7

LEMMA WorkerInv ==
  ASSUME PoolInv, NEW w \in Threads, Worker(w) \/ WakeUp(w)
  PROVE  PoolInv'
<1>0. signals \in 0 .. Cardinality(Threads) /\ mutex \in Threads \cup {None}
  BY DEF PoolInv, Shape
<1>1. CASE Loop(w)
  BY <1>0, <1>1, ThreadStep DEF Loop, Steps
<1>2. CASE Look(w)
  <2>1. CASE flag
    BY <1>0, <1>2, <2>1, ThreadStep DEF Look, Steps
  <2>2. CASE ~ flag /\ queue # <<>>
    BY <1>2, <2>2, DequeueInv DEF Look
  <2>3. CASE ~ flag /\ queue = <<>>
    BY <1>0, <1>2, <2>3, ThreadStep DEF Look, Steps
  <2> QED BY <2>1, <2>2, <2>3
<1>3. CASE Wait(w)
  BY <1>0, <1>3, ThreadStep DEF Wait, Steps
<1>4. CASE PollDone(w)
  BY <1>4, PollDoneInv
<1>5. CASE PostProcess(w)
  BY <1>5, PostProcessInv
<1>6. CASE Exit(w)
  BY <1>6, ExitInv
<1>7. CASE WakeUp(w)
  BY <1>0, <1>7, ThreadStep DEF WakeUp, Steps
<1> QED BY <1>1, <1>2, <1>3, <1>4, <1>5, <1>6, <1>7 DEF Worker

-----------------------------------------------------------------------------
(* The theorems. *)

LEMMA PoolInitInv == PoolInit => PoolInv
<1> SUFFICES ASSUME PoolInit PROVE PoolInv
  OBVIOUS
<1> USE DEF PoolInit
<1> DEFINE n == Cardinality(Hosts)
<1>1. n \in Nat /\ Cardinality(Threads) \in Nat
  BY PoolAssumption, FS_CardinalityType
<1>2. heap \in [1 .. n -> Hosts] /\ \A j, k \in 1 .. n : j # k => heap[j] # heap[k]
  BY DEF SetToSeqs
<1>3. heap \in Seq(Hosts) /\ Len(heap) = n
  BY <1>1, <1>2
<1>4. \A h \in Hosts : In(heap, h)
  <2>1. heap \in Injection(1 .. n, Hosts)
    BY <1>2, Zenon DEF Injection, IsInjective
  <2>2. Cardinality(1 .. n) = n
    BY <1>1, FS_Interval
  <2>3. heap \in Surjection(1 .. n, Hosts)
    BY <2>1, <2>2, PoolAssumption, FS_Injection
  <2> QED BY <1>3, <2>3 DEF Surjection, In
<1>5. Shape
  <2>1. 0 \in 0 .. Cardinality(Threads) /\ 0 \in 0 .. MaxFailures
    BY <1>1, PoolAssumption
  <2>2. thread \in [Threads -> Steps] /\ host \in [Threads -> Hosts \cup {None}]
    BY DEF Steps
  <2>3. queue \in Seq(Hosts) /\ late \subseteq Threads
    OBVIOUS
  <2>4. /\ running \in BOOLEAN /\ flag \in BOOLEAN /\ main = "create"
        /\ hand = None /\ mutex = None
        /\ len \in 0 .. Cardinality(Threads) /\ signals \in 0 .. Cardinality(Threads)
        /\ count \in 0 .. Cardinality(Threads)
        /\ failures \in 0 .. MaxFailures
    BY <2>1
  <2> HIDE DEF PoolInit
  <2> QED BY <1>3, <2>2, <2>3, <2>4 DEF Shape
<1>6. HandsInv /\ NoThreadAfterFree
  BY DEF HandsInv, NoThreadAfterFree
<1>7. OnceInv
  BY <1>2, <1>3 DEF OnceInv, Distinct
<1>8. PlaceInv
  BY <1>4, PoolAssumption DEF PlaceInv, In, Taken
<1>9. Live = {}
  BY DEF Live
<1>10. CountInv
  BY <1>9, FS_EmptySet DEF CountInv
<1> QED BY <1>5, <1>6, <1>7, <1>8, <1>10 DEF PoolInv

LEMMA PoolNextInv == PoolInv /\ [PoolNext]_poolVars => PoolInv'
<1> SUFFICES ASSUME PoolInv, [PoolNext]_poolVars PROVE PoolInv'
  OBVIOUS
<1>1. CASE Main
  BY <1>1, CreateInv, CountThreadInv, PopInv, QuietInv, QueueInv, SendSignalInv,
     AwaitThreadsInv DEF Main
<1>2. CASE MainWakeUp \/ CreateFails \/ QueueFails \/ Interrupt
  BY <1>2, QuietInv, QueueFailsInv, InterruptInv
<1>3. ASSUME NEW w \in Threads, Worker(w) \/ WakeUp(w) PROVE PoolInv'
  BY <1>3, WorkerInv
<1>4. CASE UNCHANGED poolVars
  BY <1>4 DEF poolVars, PoolInv, Shape, HandsInv, OnceInv, PlaceInv, Taken, CountInv, Live,
              NoThreadAfterFree
<1> QED BY <1>1, <1>2, <1>3, <1>4 DEF PoolNext

\* Each place holds a host at most once, and one place holds it; a worker has
\* a host only while it polls (_threadpool_func, _ipmiseld_poll_postprocess).
THEOREM PoolInvariant == PoolSpec => []PoolInv
  BY PoolInitInv, PoolNextInv, PTL DEF PoolSpec

\* Every host is in exactly one of the heap, the main thread's hand, the queue
\* and the hands of a worker, for any number of hosts and threads, whatever
\* list_enqueue() and pthread_create() do.
THEOREM PoolHostInOnePlace == PoolSpec => []HostInOnePlace
<1>1. PoolInv => HostInOnePlace
  <2> SUFFICES ASSUME PoolInv, NEW h \in Hosts PROVE Places(h) = 1
    BY DEF HostInOnePlace
  <2> USE DEF PoolInv
  <2>1. ASSUME NEW s \in Seq(Hosts), Distinct(s)
        PROVE  Cardinality({k \in DOMAIN s : s[k] = h}) = IF In(s, h) THEN 1 ELSE 0
    <3>1. DOMAIN s = 1 .. Len(s)
      OBVIOUS
    <3>2. CASE In(s, h)
      <4>1. PICK k \in 1 .. Len(s) : s[k] = h
        BY <3>2 DEF In
      <4>2. {j \in DOMAIN s : s[j] = h} = {k}
        BY <2>1, <3>1, <4>1 DEF Distinct
      <4> QED BY <3>2, <4>2, FS_Singleton
    <3>3. CASE ~ In(s, h)
      <4>1. {k \in DOMAIN s : s[k] = h} = {}
        BY <3>1, <3>3 DEF In
      <4> QED BY <3>3, <4>1, FS_EmptySet
    <3> QED BY <3>2, <3>3
  <2>2. Cardinality({w \in Threads : host[w] = h}) = IF Taken(h) THEN 1 ELSE 0
    <3>1. CASE Taken(h)
      <4>1. PICK w \in Threads : host[w] = h
        BY <3>1 DEF Taken
      <4>2. {v \in Threads : host[v] = h} = {w}
        BY <4>1, PoolAssumption DEF OnceInv
      <4> QED BY <3>1, <4>2, FS_Singleton
    <3>2. CASE ~ Taken(h)
      <4>1. {w \in Threads : host[w] = h} = {}
        BY <3>2 DEF Taken
      <4> QED BY <3>2, <4>1, FS_EmptySet
    <3> QED BY <3>1, <3>2
  <2>3. /\ Cardinality({k \in DOMAIN heap : heap[k] = h}) = IF In(heap, h) THEN 1 ELSE 0
        /\ Cardinality({k \in DOMAIN queue : queue[k] = h}) = IF In(queue, h) THEN 1 ELSE 0
    BY <2>1 DEF Shape, OnceInv
  <2> QED BY <2>2, <2>3 DEF Places, PlaceInv
<1> QED BY <1>1, PoolInvariant, PTL

\* When ipmiseld_threadpool_destroy() has freed the pool no thread is left that
\* reads its flag, the queue or the heap: the counter by which destroy waits,
\* threadpool_count, is never short of a thread once destroy reads it, though
\* a thread runs before it is counted and pthread_create() may fail.
THEOREM PoolNoThreadAfterFree == PoolSpec => []NoThreadAfterFree
  BY PoolInvariant, PTL DEF PoolInv

\* Every variable keeps its type.
THEOREM PoolTypeCorrect == PoolSpec => []PoolTypeOK
<1>1. PoolInv => PoolTypeOK
  <2> SUFFICES ASSUME PoolInv PROVE PoolTypeOK
    OBVIOUS
  <2>1. \A s \in {heap, queue} : \A k \in DOMAIN s : s[k] \in Hosts
    BY DEF PoolInv, Shape
  <2> QED BY <2>1 DEF PoolInv, Shape, Steps, PoolTypeOK
<1> QED BY <1>1, PoolInvariant, PTL

-----------------------------------------------------------------------------
(* SelDaemon: the records, and the types of the rest. *)

\* The records that were erased: as many as the SEL no longer holds.
Lost == arrived - Len(sel)

\* What is in the SEL when no id is used twice: the last records, numbered.
Numbered ==
  /\ Lost >= 0 /\ nextId = arrived + 1 /\ gone = 1..Lost
  /\ \A k \in 1..Len(sel) : sel[k].id = Lost + k /\ sel[k].ev = Lost + k

\* A record of the SEL.
Records == [id: 1..MaxEvents, ev: Events]

BmcOK ==
  /\ sel \in Seq(Records) /\ Len(sel) <= SelSize
  /\ arrived \in 0..MaxEvents /\ erases \in Nat /\ others \in Nat
  /\ Numbered

\* Where a poll compares the SEL with last_host_state, or has.
Comparing == {"info", "check", "reserve", "log", "clear", "reinfo", "save", "write"}
Loading == {"load", "initLast", "initInfo"}
FlagSet == [clear: BOOLEAN, log: BOOLEAN, reserve: BOOLEAN, retry: BOOLEAN]

PollOK ==
  /\ args \in AllArgs /\ ~ args.restarts
  /\ res \in {"none", "held", "canceled"}
  /\ pc \in {"idle", "clearFirst"} \union Loading \union Comparing
  /\ last \in States /\ now \in States /\ file \in States
  /\ pc \in Comparing => last.initialized
  /\ pc \in Loading => ~ last.initialized
  /\ clearDone \in BOOLEAN /\ parsed \in BOOLEAN /\ flags \in FlagSet
  /\ tries \in 0..RetryMax /\ (pc # "idle" => tries < RetryMax)
  /\ start \in 0..MaxEvents /\ cursor \in 0..LastEntry

HistoryOK ==
  /\ faults \in Nat /\ cancels \in Nat
  /\ logged \in [Events -> Nat]
  /\ fate \in [Events -> Fates] /\ cache \in {"none", "whole", "cut"}

TypeInv == BmcOK /\ PollOK /\ HistoryOK

-----------------------------------------------------------------------------
(* What the SEL holds, and what Arrive and Erase make of it. *)

LEMMA SelEvents ==
  ASSUME BmcOK
  PROVE  /\ Len(sel) \in Nat /\ DOMAIN sel = 1..Len(sel) /\ Lost \in 0..arrived
         /\ sel = <<>> <=> Lost = arrived
         /\ EventsInSel = (Lost + 1)..arrived
         /\ \A k \in 1..Len(sel) : sel[k] = [id |-> Lost + k, ev |-> Lost + k]
<1>1. Len(sel) \in Nat /\ DOMAIN sel = 1..Len(sel) /\ arrived \in Nat
  BY SelAssumption DEF BmcOK
<1>2. Lost \in 0..arrived /\ Lost = arrived - Len(sel)
  BY <1>1 DEF BmcOK, Numbered, Lost
<1>3. sel = <<>> <=> Lost = arrived
  BY <1>1, <1>2 DEF BmcOK
<1>4. ASSUME NEW k \in 1..Len(sel)
      PROVE  sel[k] = [id |-> Lost + k, ev |-> Lost + k]
  <2>1. sel[k] \in Records
    BY <1>1 DEF BmcOK
  <2>2. sel[k] = [id |-> sel[k].id, ev |-> sel[k].ev]
    BY <2>1 DEF Records
  <2>3. sel[k].id = Lost + k /\ sel[k].ev = Lost + k
    BY DEF BmcOK, Numbered
  <2> QED BY <2>2, <2>3
<1>5. EventsInSel = {Lost + k : k \in 1..Len(sel)}
  BY <1>1, <1>4 DEF EventsInSel
<1>6. ASSUME NEW e \in (Lost + 1)..arrived PROVE e \in EventsInSel
  <2>1. e - Lost \in 1..Len(sel) /\ e = Lost + (e - Lost)
    BY <1>1, <1>2
  <2> QED BY <2>1, <1>5
<1>7. ASSUME NEW e \in EventsInSel PROVE e \in (Lost + 1)..arrived
  BY <1>1, <1>2, <1>5
<1> QED BY <1>1, <1>2, <1>3, <1>4, <1>6, <1>7

LEMMA LastRecord ==
  ASSUME BmcOK
  PROVE  /\ LastRecordId = IF Lost = arrived THEN 0 ELSE arrived
         /\ LastRecordId \in 0..MaxEvents
<1>1. Len(sel) \in Nat /\ Lost = arrived - Len(sel) /\ arrived \in 0..MaxEvents /\ MaxEvents \in Nat
  BY SelEvents, SelAssumption DEF Lost, BmcOK
<1>2. CASE sel = <<>>
  BY <1>1, <1>2, SelEvents DEF LastRecordId
<1>3. CASE sel # <<>>
  <2>1. Len(sel) \in 1..Len(sel)
    BY <1>1, <1>3, SelEvents
  <2> QED BY <1>1, <1>3, <2>1, SelEvents DEF LastRecordId
<1> QED BY <1>2, <1>3

LEMMA InfoType ==
  ASSUME BmcOK
  PROVE  Info \in [entries: 0..SelSize, added: 0..MaxEvents, erased: Nat]
BY SelEvents, SelAssumption DEF BmcOK, Info

\* Arrive adds a record, Erase takes all of them away.
LEMMA ArriveBmc ==
  ASSUME BmcOK, Arrive
  PROVE  BmcOK' /\ Lost' = Lost /\ arrived' = arrived + 1 /\ erases' = erases
<1>1. /\ arrived < MaxEvents /\ Len(sel) < SelSize /\ arrived' = arrived + 1
      /\ sel' = Append(sel, [id |-> nextId, ev |-> arrived + 1])
      /\ nextId' = nextId + 1 /\ UNCHANGED <<erases, others, gone>>
  BY DEF Arrive
<1>2. /\ Len(sel) \in Nat /\ arrived \in 0..MaxEvents /\ MaxEvents \in Nat /\ SelSize \in Nat
      /\ nextId = arrived + 1 /\ Lost = arrived - Len(sel) /\ sel \in Seq(Records)
  BY SelEvents, SelAssumption DEF BmcOK, Numbered, Lost
<1>3. [id |-> nextId, ev |-> arrived + 1] \in Records
  BY <1>1, <1>2 DEF Records, Events
<1>4. sel' \in Seq(Records) /\ Len(sel') = Len(sel) + 1
  BY <1>1, <1>2, <1>3
<1>5. Lost' = Lost
  BY <1>1, <1>2, <1>4 DEF Lost
<1>6. ASSUME NEW k \in 1..Len(sel') PROVE sel'[k].id = Lost + k /\ sel'[k].ev = Lost + k
  <2>1. CASE k \in 1..Len(sel)
    BY <2>1, <1>1, <1>2, SelEvents
  <2>2. CASE k = Len(sel) + 1
    BY <2>2, <1>1, <1>2
  <2> QED BY <2>1, <2>2, <1>2, <1>4
<1>7. Numbered'
  BY <1>1, <1>2, <1>5, <1>6 DEF Numbered, BmcOK
<1> QED BY <1>1, <1>2, <1>4, <1>5, <1>7 DEF BmcOK

LEMMA EraseBmc ==
  ASSUME BmcOK, ~ args.restarts, Erase, others' \in Nat
  PROVE  BmcOK' /\ Lost' = arrived /\ arrived' = arrived /\ erases' = erases + 1
<1>1. /\ sel' = <<>> /\ erases' = erases + 1 /\ arrived' = arrived /\ nextId' = nextId
      /\ gone' = gone \union EventsInSel
  BY DEF Erase
<1>2. Len(sel') = 0 /\ sel' \in Seq(Records) /\ Lost' = arrived /\ arrived \in Nat
  BY <1>1, SelAssumption DEF Lost, BmcOK
<1>3. gone' = 1..arrived
  <2>1. gone = 1..Lost /\ Lost \in 0..arrived /\ arrived \in Nat
    BY SelEvents, <1>2 DEF BmcOK, Numbered
  <2> QED BY <1>1, <2>1, SelEvents
<1>4. Numbered'
  BY <1>1, <1>2, <1>3 DEF Numbered, BmcOK
<1> QED BY <1>1, <1>2, <1>4, SelAssumption DEF BmcOK

LEMMA QuietBmc ==
  ASSUME BmcOK, UNCHANGED bmc, UNCHANGED gone
  PROVE  BmcOK' /\ Lost' = Lost /\ arrived' = arrived /\ erases' = erases
         /\ Info' = Info /\ others' = others
BY DEF BmcOK, bmc, Numbered, Lost, Info

-----------------------------------------------------------------------------
(* The types, action by action. *)

LEMMA StateType ==
  /\ Uninitialized \in States /\ ~ Uninitialized.initialized
  /\ NoFlags \in FlagSet /\ ~ NoFlags.clear /\ ~ NoFlags.retry
BY SelAssumption DEF Uninitialized, NoInfo, States, NoFlags, FlagSet

LEMMA FlagTypes ==
  ASSUME flags \in FlagSet, NEW b \in BOOLEAN
  PROVE  /\ [flags EXCEPT !.log = b] \in FlagSet
         /\ [flags EXCEPT !.reserve = b] \in FlagSet
         /\ [flags EXCEPT !.retry = b] \in FlagSet
         /\ [NoFlags EXCEPT !.clear = b] \in FlagSet
BY DEF FlagSet, NoFlags

LEMMA CheckType ==
  ASSUME last \in States, now \in States, BmcOK
  PROVE  LET c == CheckSelInfo(last, now.info, LastRecordId)
         IN  c.id \in 0..MaxEvents /\ c.start \in 0..MaxEvents /\ c.log \in BOOLEAN
<1>1. last.id \in 0..MaxEvents /\ 0 \in 0..MaxEvents
  BY SelAssumption DEF States
<1> DEFINE R == [id: 0..MaxEvents, start: 0..MaxEvents, log: BOOLEAN]
<1>2. /\ Nothing(last) \in R /\ SawClear \in R /\ NewRecords(last) \in R /\ AllRecords \in R
  BY <1>1 DEF Nothing, SawClear, NewRecords, AllRecords
<1>3. AddedAndErased(last, now.info, LastRecordId) \in R
  BY <1>2 DEF AddedAndErased
<1>4. CheckSelInfo(last, now.info, LastRecordId) \in R
  <2> HIDE DEF R
  <2> QED BY <1>2, <1>3 DEF CheckSelInfo
<1> QED BY <1>4

LEMMA PollArrive == TypeInv /\ Arrive => TypeInv'
<1> SUFFICES ASSUME TypeInv, Arrive PROVE TypeInv'
  OBVIOUS
<1>1. BmcOK'
  BY ArriveBmc DEF TypeInv
<1>2. PollOK'
  BY DEF TypeInv, PollOK, Arrive, poll, Cancelled
<1>3. HistoryOK'
  BY DEF TypeInv, HistoryOK, Arrive, poll, Fates
<1> QED BY <1>1, <1>2, <1>3 DEF TypeInv

LEMMA ForgiveType ==
  ASSUME HistoryOK, NEW f \in {"old", "asked", "cut"}, Forgive(f)
  PROVE  fate' \in [Events -> Fates]
BY DEF HistoryOK, Forgive, Fates

LEMMA PollOutsideClear == TypeInv /\ OutsideClear => TypeInv'
<1> SUFFICES ASSUME TypeInv, OutsideClear PROVE TypeInv'
  OBVIOUS
<1>1. BmcOK'
  <2>1. others' \in Nat /\ Erase
    BY DEF TypeInv, BmcOK, OutsideClear
  <2> QED BY <2>1, EraseBmc DEF TypeInv, PollOK
<1>2. PollOK'
  BY DEF TypeInv, PollOK, OutsideClear, poll, Cancelled
<1>3. HistoryOK'
  <2>1. Forgive("asked") /\ UNCHANGED <<logged, cache, faults, cancels>>
    BY DEF OutsideClear
  <2>2. fate' \in [Events -> Fates]
    BY <2>1, ForgiveType DEF TypeInv
  <2> QED BY <2>1, <2>2 DEF TypeInv, HistoryOK
<1> QED BY <1>1, <1>2, <1>3 DEF TypeInv

LEMMA PollClearFirst == TypeInv /\ ClearFirst => TypeInv'
<1> SUFFICES ASSUME TypeInv, ClearFirst PROVE TypeInv'
  OBVIOUS
<1>1. BmcOK'
  <2>1. others' \in Nat /\ Erase
    BY DEF TypeInv, BmcOK, ClearFirst
  <2> QED BY <2>1, EraseBmc DEF TypeInv, PollOK
<1>2. PollOK'
  BY DEF TypeInv, PollOK, ClearFirst, poll, Loading, Comparing
<1>3. HistoryOK'
  <2>1. Forgive("asked") /\ UNCHANGED <<logged, cache, faults, cancels>>
    BY DEF ClearFirst
  <2>2. fate' \in [Events -> Fates]
    BY <2>1, ForgiveType DEF TypeInv
  <2> QED BY <2>1, <2>2 DEF TypeInv, HistoryOK
<1> QED BY <1>1, <1>2, <1>3 DEF TypeInv

\* The steps that leave the SEL alone.
LEMMA QuietType ==
  ASSUME TypeInv, UNCHANGED bmc, UNCHANGED gone, PollOK', HistoryOK'
  PROVE  TypeInv'
BY QuietBmc DEF TypeInv

LEMMA PollStart == TypeInv /\ StartPoll => TypeInv'
<1> SUFFICES ASSUME TypeInv, StartPoll PROVE TypeInv'
  OBVIOUS
<1>1. PollOK'
  BY StateType, SelAssumption DEF TypeInv, PollOK, StartPoll, FirstStep, Loading, Comparing
<1> QED BY <1>1, QuietType DEF StartPoll, history, TypeInv, HistoryOK

LEMMA PollLoad == TypeInv /\ Load => TypeInv'
<1> SUFFICES ASSUME TypeInv, Load PROVE TypeInv'
  OBVIOUS
<1>1. PollOK'
  BY DEF TypeInv, PollOK, Load, poll, Loading, Comparing
<1> QED BY <1>1, QuietType DEF Load, history, TypeInv, HistoryOK

LEMMA PollInitLast == TypeInv /\ InitLast => TypeInv'
<1> SUFFICES ASSUME TypeInv, InitLast PROVE TypeInv'
  OBVIOUS
<1>1. LastRecordId \in 0..MaxEvents
  BY LastRecord DEF TypeInv
<1>2. last' \in States /\ last'.initialized = last.initialized
  BY <1>1 DEF TypeInv, PollOK, InitLast, States
<1>3. PollOK'
  BY <1>2 DEF TypeInv, PollOK, InitLast, poll, Loading, Comparing
<1> QED BY <1>3, QuietType DEF InitLast, history, TypeInv, HistoryOK

LEMMA PollInitInfo == TypeInv /\ InitInfo => TypeInv'
<1> SUFFICES ASSUME TypeInv, InitInfo PROVE TypeInv'
  OBVIOUS
<1>2. last' \in States
  BY InfoType DEF TypeInv, PollOK, InitInfo, States
<1>3. PollOK'
  BY <1>2 DEF TypeInv, PollOK, InitInfo, poll, Loading, Comparing
<1>4. HistoryOK'
  <2>1. /\ UNCHANGED <<logged, cache, faults, cancels>>
        /\ UNCHANGED fate \/ \E f \in {"old", "asked", "cut"} : Forgive(f)
    BY DEF InitInfo
  <2>2. fate' \in [Events -> Fates]
    BY <2>1, ForgiveType DEF TypeInv, HistoryOK
  <2> QED BY <2>1, <2>2 DEF TypeInv, HistoryOK
<1> QED BY <1>3, <1>4, QuietType DEF InitInfo

LEMMA PollGetInfo == TypeInv /\ GetInfo => TypeInv'
<1> SUFFICES ASSUME TypeInv, GetInfo PROVE TypeInv'
  OBVIOUS
<1>1. now' \in States
  BY InfoType DEF TypeInv, PollOK, GetInfo, States
<1>2. flags' \in FlagSet
  <2>1. DoClear(Info) \in BOOLEAN
    BY DEF DoClear
  <2> QED BY <2>1, FlagTypes DEF TypeInv, PollOK, GetInfo
<1>3. PollOK'
  BY <1>1, <1>2 DEF TypeInv, PollOK, GetInfo, Loading, Comparing
<1> QED BY <1>3, QuietType DEF GetInfo, history, TypeInv, HistoryOK

LEMMA PollCheck == TypeInv /\ Check => TypeInv'
<1> SUFFICES ASSUME TypeInv, Check PROVE TypeInv'
  OBVIOUS
<1> DEFINE c == CheckSelInfo(last, now.info, LastRecordId)
<1>1. c.id \in 0..MaxEvents /\ c.start \in 0..MaxEvents /\ c.log \in BOOLEAN
  BY CheckType DEF TypeInv, PollOK
<1>2. /\ pc = "check" /\ now' = [now EXCEPT !.id = c.id] /\ start' = c.start
      /\ cursor' = c.start /\ parsed' = FALSE /\ flags' = [flags EXCEPT !.log = c.log]
      /\ pc' = AfterCheck(flags.clear, c.log)
      /\ UNCHANGED <<args, bmc, res, last, file, clearDone, tries, history>>
  BY DEF Check
<1> HIDE DEF c
<1>3. now' \in States
  BY <1>1, <1>2 DEF TypeInv, PollOK, States
<1>4. flags' \in FlagSet
  BY <1>1, <1>2, FlagTypes DEF TypeInv, PollOK
<1>5. start' \in 0..MaxEvents /\ cursor' \in 0..LastEntry
  BY <1>1, <1>2, SelAssumption DEF LastEntry
<1>6. pc' \in {"reserve", "log", "save"}
  BY <1>2 DEF AfterCheck
<1>7. PollOK'
  BY <1>2, <1>3, <1>4, <1>5, <1>6 DEF TypeInv, PollOK, Loading, Comparing
<1> QED BY <1>2, <1>7, QuietType DEF history, TypeInv, HistoryOK

LEMMA PollReserve == TypeInv /\ Reserve => TypeInv'
<1> SUFFICES ASSUME TypeInv, Reserve PROVE TypeInv'
  OBVIOUS
<1>1. flags' \in FlagSet
  BY FlagTypes DEF TypeInv, PollOK, Reserve, AllArgs
<1>2. PollOK'
  BY <1>1 DEF TypeInv, PollOK, Reserve, AfterReserve, Loading, Comparing
<1> QED BY <1>2, QuietType DEF Reserve, history, TypeInv, HistoryOK

\* The record Get SEL Entry finds, and what LogEntry makes of it.
LEMMA FoundRecord ==
  ASSUME BmcOK, cursor \in 0..LastEntry, NEW k \in Found
  PROVE  /\ k \in 1..Len(sel) /\ sel[k].id = Lost + k /\ sel[k].ev = Lost + k
         /\ Lost + k \in Events
         /\ cursor # 0 => cursor = Lost + k
         /\ cursor = 0 => k = 1
         /\ k = Len(sel) <=> Lost + k = arrived
         /\ k # Len(sel) => NextEntry(k) = Lost + k + 1
         /\ k = Len(sel) => NextEntry(k) = LastEntry
<1>1. /\ k \in 1..Len(sel) /\ Len(sel) \in Nat /\ Lost \in 0..arrived
      /\ arrived \in 0..MaxEvents /\ MaxEvents \in Nat /\ Lost = arrived - Len(sel)
      /\ IF cursor = 0 THEN k = 1 ELSE sel[k].id = cursor
  BY SelEvents, SelAssumption DEF Found, BmcOK, Lost
<1>2. sel[k].id = Lost + k /\ sel[k].ev = Lost + k
  BY <1>1, SelEvents
<1>3. k # Len(sel) => NextEntry(k) = Lost + k + 1
  <2> SUFFICES ASSUME k # Len(sel) PROVE NextEntry(k) = Lost + k + 1
    OBVIOUS
  <2>1. k + 1 \in 1..Len(sel)
    BY <1>1
  <2>2. sel[k + 1].id = Lost + (k + 1)
    BY <2>1, SelEvents
  <2> QED BY <1>1, <2>2 DEF NextEntry
<1>4. k = Len(sel) => NextEntry(k) = LastEntry
  BY DEF NextEntry
<1> QED BY <1>1, <1>2, <1>3, <1>4 DEF Events

LEMMA PollLogEntry == TypeInv /\ LogEntry => TypeInv'
<1> SUFFICES ASSUME TypeInv, LogEntry PROVE TypeInv'
  OBVIOUS
<1>1. PICK k \in Found :
       /\ IF Logs(sel[k])
            THEN /\ logged' = [logged EXCEPT ![sel[k].ev] = @ + 1]
                 /\ now' = [now EXCEPT !.id = sel[k].id]
            ELSE UNCHANGED <<logged, now>>
       /\ cursor' = NextEntry(k)
       /\ pc' = IF k = Len(sel) THEN AfterLog ELSE pc
  BY DEF LogEntry
<1>2. /\ pc = "log" /\ parsed' = TRUE
      /\ UNCHANGED <<args, bmc, res, last, file, clearDone, flags, tries, start,
                     gone, fate, cache, faults, cancels>>
  BY DEF LogEntry
<1>3. /\ sel[k].id = Lost + k /\ sel[k].ev = Lost + k /\ Lost + k \in Events
      /\ cursor' \in 0..LastEntry
  <2>1. /\ k \in 1..Len(sel) /\ sel[k].id = Lost + k /\ sel[k].ev = Lost + k
        /\ Lost + k \in Events
        /\ k # Len(sel) => NextEntry(k) = Lost + k + 1
        /\ k = Len(sel) => NextEntry(k) = LastEntry
    BY FoundRecord DEF TypeInv, PollOK
  <2> QED BY <1>1, <2>1, SelAssumption DEF Events, LastEntry
<1>4. now' \in States
  <2>1. Lost + k \in 0..MaxEvents
    BY <1>3, SelAssumption DEF Events
  <2> QED BY <1>1, <1>3, <2>1 DEF TypeInv, PollOK, States
<1>5. logged' \in [Events -> Nat]
  BY <1>1, <1>3 DEF TypeInv, HistoryOK
<1>6. pc' \in {"log", "clear", "save"}
  BY <1>1, <1>2 DEF AfterLog
<1>7. PollOK'
  BY <1>2, <1>3, <1>4, <1>6 DEF TypeInv, PollOK, Loading, Comparing
<1>8. HistoryOK'
  BY <1>2, <1>5 DEF TypeInv, HistoryOK
<1> QED BY <1>2, <1>7, <1>8, QuietType

\* The ids tried after one that is not in the SEL.
LEMMA LaterIds ==
  ASSUME BmcOK, cursor \in 0..LastEntry
  PROVE  /\ Later = {e \in (Lost + 1)..arrived : e > cursor}
         /\ Later # {} => /\ Min(Later) \in Later
                          /\ \A e \in Later : Min(Later) <= e
<1>1. /\ DOMAIN sel = 1..Len(sel) /\ Len(sel) \in Nat /\ Lost \in 0..arrived
      /\ arrived \in 0..MaxEvents /\ MaxEvents \in Nat /\ Lost = arrived - Len(sel)
      /\ \A k \in 1..Len(sel) : sel[k].id = Lost + k
      /\ cursor \in Nat
  BY SelEvents, SelAssumption DEF BmcOK, Lost, LastEntry
<1>2. ASSUME NEW e \in Later PROVE e \in (Lost + 1)..arrived /\ e > cursor
  BY <1>1 DEF Later
<1>3. ASSUME NEW e \in (Lost + 1)..arrived, e > cursor PROVE e \in Later
  <2>1. e - Lost \in 1..Len(sel) /\ sel[e - Lost].id = e
    BY <1>1
  <2> QED BY <1>1, <1>3, <2>1 DEF Later
<1>4. Later = {e \in (Lost + 1)..arrived : e > cursor}
  BY <1>2, <1>3
<1>5. Later # {} => \E x \in Later : \A e \in Later : x <= e
  <2> SUFFICES ASSUME NEW y \in Later PROVE \E x \in Later : \A e \in Later : x <= e
    OBVIOUS
  <2> DEFINE m == IF cursor > Lost THEN cursor + 1 ELSE Lost + 1
  <2>1. m \in Later /\ \A e \in Later : m <= e
    BY <1>1, <1>4
  <2> QED BY <2>1
<1>6. Later # {} => Min(Later) \in Later /\ \A e \in Later : Min(Later) <= e
  <2> HIDE DEF Later
  <2> QED BY <1>5 DEF Min
<1> QED BY <1>4, <1>6

LEMMA PollLogMissing == TypeInv /\ LogMissing => TypeInv'
<1> SUFFICES ASSUME TypeInv, LogMissing PROVE TypeInv'
  OBVIOUS
<1>1. /\ pc = "log" /\ pc' \in {"log", "idle", "clear", "save"}
      /\ UNCHANGED <<args, bmc, res, last, now, file, clearDone, flags, tries,
                     start, parsed, history>>
      /\ cursor' = cursor \/ (Later # {} /\ cursor' = Min(Later))
  BY DEF LogMissing, AfterLog
<1>2. cursor' \in 0..LastEntry
  <2>1. Later # {} => Min(Later) \in 0..LastEntry
    BY LaterIds, SelEvents, SelAssumption DEF TypeInv, PollOK, BmcOK, LastEntry
  <2> QED BY <1>1, <2>1 DEF TypeInv, PollOK
<1>3. PollOK'
  BY <1>1, <1>2 DEF TypeInv, PollOK, Loading, Comparing
<1> QED BY <1>1, <1>3, QuietType DEF history, TypeInv, HistoryOK

LEMMA PollClear == TypeInv /\ Clear => TypeInv'
<1> SUFFICES ASSUME TypeInv, Clear PROVE TypeInv'
  OBVIOUS
<1>1. BmcOK'
  <2>1. others' \in Nat /\ Erase
    BY DEF TypeInv, BmcOK, Clear
  <2> QED BY <2>1, EraseBmc DEF TypeInv, PollOK
<1>2. PollOK'
  BY DEF TypeInv, PollOK, Clear, poll, Loading, Comparing, Cancelled
<1>3. HistoryOK'
  BY DEF TypeInv, HistoryOK, Clear
<1> QED BY <1>1, <1>2, <1>3 DEF TypeInv

LEMMA PollClearCanceled == TypeInv /\ ClearCanceled => TypeInv'
<1> SUFFICES ASSUME TypeInv, ClearCanceled PROVE TypeInv'
  OBVIOUS
<1>1. flags' \in FlagSet
  BY FlagTypes DEF TypeInv, PollOK, ClearCanceled, Refused
<1>2. PollOK'
  BY <1>1 DEF TypeInv, PollOK, ClearCanceled, Refused, Loading, Comparing
<1>3. HistoryOK'
  BY DEF TypeInv, HistoryOK, ClearCanceled
<1> QED BY <1>2, <1>3, QuietType DEF ClearCanceled

LEMMA PollReinfo == TypeInv /\ Reinfo => TypeInv'
<1> SUFFICES ASSUME TypeInv, Reinfo PROVE TypeInv'
  OBVIOUS
<1>1. now' \in States
  <2> DEFINE n == [now EXCEPT !.info = Info]
  <2>1. now' = [n EXCEPT !.id = 0]
    BY DEF Reinfo
  <2>2. n \in States
    BY InfoType DEF TypeInv, PollOK, States
  <2>3. 0 \in 0..MaxEvents
    BY SelAssumption
  <2> HIDE DEF n
  <2> QED BY <2>1, <2>2, <2>3 DEF States
<1>2. PollOK'
  BY <1>1 DEF TypeInv, PollOK, Reinfo, poll, Loading, Comparing
<1> QED BY <1>2, QuietType DEF Reinfo, history, TypeInv, HistoryOK

LEMMA PollSave == TypeInv /\ Save => TypeInv'
<1> SUFFICES ASSUME TypeInv, Save PROVE TypeInv'
  OBVIOUS
<1>1. now' \in States /\ now'.initialized /\ last' = now'
  BY DEF TypeInv, PollOK, Save, States
<1>2. PollOK'
  BY <1>1, StateType DEF TypeInv, PollOK, Save, poll, Loading, Comparing
<1> QED BY <1>2, QuietType DEF Save, history, TypeInv, HistoryOK

LEMMA ReturnType ==
  ASSUME PollOK, pc = "write", Return
  PROVE  tries' \in 0..RetryMax /\ pc' \in {"info", "idle"} /\ (pc' = "info" => tries' < RetryMax)
BY SelAssumption DEF PollOK, Return

LEMMA PollWrite == TypeInv /\ Write => TypeInv'
<1> SUFFICES ASSUME TypeInv, Write PROVE TypeInv'
  OBVIOUS
<1>1. PollOK'
  BY ReturnType DEF TypeInv, PollOK, Write, Loading, Comparing
<1> QED BY <1>1, QuietType DEF Write, history, TypeInv, HistoryOK

LEMMA PollRequestFails == TypeInv /\ RequestFails => TypeInv'
<1> SUFFICES ASSUME TypeInv, RequestFails PROVE TypeInv'
  OBVIOUS
<1>0. /\ pc' \in AfterFailure(pc) /\ faults' = faults + 1
      /\ pc \in {"clearFirst", "initLast", "initInfo", "info", "check", "reserve",
                 "log", "clear", "reinfo"}
      /\ UNCHANGED <<args, bmc, res, last, now, file, clearDone, poll, logged,
                     gone, fate, cache, cancels>>
  BY DEF RequestFails, Fault
<1>1. pc' = "idle" \/ (pc \in Comparing /\ pc' \in {"log", "clear", "save"})
  BY <1>0 DEF AfterFailure, AfterReserve, Comparing
<1>2. PollOK'
  BY <1>0, <1>1 DEF TypeInv, PollOK, Loading, Comparing, poll
<1>3. HistoryOK'
  BY <1>0 DEF TypeInv, HistoryOK
<1> QED BY <1>0, <1>2, <1>3, QuietType

LEMMA PollClearUnanswered == TypeInv /\ ClearUnanswered => TypeInv'
<1> SUFFICES ASSUME TypeInv, ClearUnanswered PROVE TypeInv'
  OBVIOUS
<1>0. /\ pc = "clear" /\ pc' = "save" /\ faults' = faults + 1 /\ Erase /\ res' = Cancelled
      /\ UNCHANGED <<args, others, last, now, file, clearDone, poll, logged, fate,
                     cache, cancels>>
  BY DEF ClearUnanswered, AfterFailure, Fault
<1>1. BmcOK'
  <2>1. others' \in Nat
    BY <1>0 DEF TypeInv, BmcOK
  <2> QED BY <1>0, <2>1, EraseBmc DEF TypeInv, PollOK
<1>2. PollOK'
  BY <1>0 DEF TypeInv, PollOK, poll, Loading, Comparing, Cancelled
<1>3. HistoryOK'
  BY <1>0 DEF TypeInv, HistoryOK
<1> QED BY <1>1, <1>2, <1>3 DEF TypeInv

LEMMA PollWriteFails == TypeInv /\ WriteFails => TypeInv'
<1> SUFFICES ASSUME TypeInv, WriteFails PROVE TypeInv'
  OBVIOUS
<1>1. PollOK'
  BY ReturnType, StateType DEF TypeInv, PollOK, WriteFails, Loading, Comparing
<1>2. HistoryOK'
  BY DEF WriteFails, Fault, TypeInv, HistoryOK
<1> QED BY <1>1, <1>2, QuietType DEF WriteFails

LEMMA PollCrash == TypeInv /\ Crash => TypeInv'
<1> SUFFICES ASSUME TypeInv, Crash PROVE TypeInv'
  OBVIOUS
<1>1. PollOK'
  BY StateType DEF TypeInv, PollOK, Crash, Loading, Comparing
<1>2. HistoryOK'
  BY DEF Crash, Fault, TypeInv, HistoryOK
<1> QED BY <1>1, <1>2, QuietType DEF Crash

LEMMA TypeStep == TypeInv /\ [Next]_vars => TypeInv'
<1> SUFFICES ASSUME TypeInv, [Next]_vars PROVE TypeInv'
  OBVIOUS
<1>1. CASE Daemon
  BY <1>1, PollStart, PollClearFirst, PollLoad, PollInitLast, PollInitInfo, PollGetInfo,
     PollCheck, PollReserve, PollLogEntry, PollLogMissing, PollClear, PollClearCanceled,
     PollReinfo, PollSave, PollWrite DEF Daemon
<1>2. CASE UNCHANGED vars
  <2>1. UNCHANGED bmc /\ UNCHANGED gone
    BY <1>2 DEF vars, history
  <2> QED BY <1>2, <2>1, QuietType DEF vars, poll, history, TypeInv, PollOK, HistoryOK
<1> QED BY <1>1, <1>2, PollArrive, PollOutsideClear, PollRequestFails, PollClearUnanswered,
           PollWriteFails, PollCrash DEF Next

-----------------------------------------------------------------------------
(* ErasedLogged: what is settled. *)

\* One SEL state was read no later than the other.
Older(i, j) ==
  /\ i.erased <= j.erased /\ i.added <= j.added
  /\ i.erased = j.erased => i.added - i.entries = j.added - j.entries
  /\ i.erased # j.erased => i.added <= j.added - j.entries

\* The events up to the n-th that the options do not leave out are in syslog, or
\* not owed a line.
Settled(n, lines, why) ==
  \A e \in Wanted : e <= n => lines[e] > 0 \/ why[e] # "owed"

\* A state the daemon goes on from: everything it has seen is settled.
Saved(l, info, lines, why) ==
  /\ l.id <= info.added
  /\ l.initialized =>
       /\ Older(l.info, info)
       /\ Settled(l.id, lines, why) /\ Settled(l.info.added, lines, why)

\* Where the poll has read the SEL's state and not yet saved it.
Open == {"check", "reserve", "log", "clear", "reinfo", "save"}

\* The state the poll has read lies between the saved one and the SEL as it is;
\* what the poll has seen, once the check has compared them, is settled.
ReadInfo ==
  pc \in Open =>
    /\ Older(last.info, now.info) /\ Older(now.info, Info)
    /\ pc # "check" => now.id <= arrived /\ Settled(now.id, logged, fate)

\* The poll writes lines, or will when it has its reservation.
ToLog == pc = "log" \/ (pc = "reserve" /\ flags.log)

\* What the parse has gone past is settled.
Passed == ToLog => Settled(cursor - 1, logged, fate)

\* When the lines are written, or there were none to write, what the poll found in
\* the SEL is settled: only then the SEL is cleared and the state saved.
Done ==
  /\ pc \in {"clear", "save", "reinfo"} \/ (pc = "reserve" /\ ~ flags.log) =>
       Settled(now.info.added, logged, fate)
  /\ pc \in {"reserve", "clear", "reinfo"} => flags.clear

\* Where the poll reads no record any more before it clears the SEL.
LastRead == pc \in {"clear", "reinfo"} \/ (pc = "reserve" /\ ~ flags.log)

\* What came when the poll had read the SEL's state is owed nothing until it knows
\* whether it will read the records; when it reads none any more, all is settled.
Raced ==
  /\ pc = "check" /\ flags.clear =>
       \A e \in Events : now.info.added < e /\ e <= arrived => fate[e] # "owed"
  /\ LastRead => Settled(arrived, logged, fate)

\* The daemon starts afresh only without a whole cache file.
CacheOK ==
  /\ cache = "whole" => file.initialized \/ pc = "write"
  /\ pc \in {"initLast", "initInfo"} => ~ file.initialized

EraseInv ==
  /\ Settled(Lost, logged, fate)
  /\ Saved(last, Info, logged, fate) /\ Saved(file, Info, logged, fate)
  /\ ReadInfo /\ Passed /\ Done /\ Raced /\ CacheOK

\* What no step takes back.
Kept ==
  \A e \in Events : /\ logged[e] > 0 => logged'[e] > 0
                    /\ fate[e] # "owed" => fate'[e] # "owed"

InfoSet == [entries: 0..SelSize, added: 0..MaxEvents, erased: Nat]

LEMMA WantedEvents == \A e \in Wanted : e \in Events /\ e \in Nat
BY SelAssumption DEF Wanted, Events

LEMMA InfoParts ==
  /\ \A i \in InfoSet : i.entries \in Nat /\ i.added \in Nat /\ i.erased \in Nat
  /\ \A l \in States : l.info \in InfoSet /\ l.id \in Nat /\ l.initialized \in BOOLEAN
BY SelAssumption DEF InfoSet, States

LEMMA InfoIn == BmcOK => Info \in InfoSet /\ Info.added = arrived
                         /\ Info.erased = erases /\ Info.added - Info.entries = Lost
BY InfoType DEF InfoSet, Info, Lost

LEMMA OlderTrans ==
  ASSUME NEW i \in InfoSet, NEW j \in InfoSet, NEW k \in InfoSet, Older(i, j), Older(j, k)
  PROVE  Older(i, k)
<1>1. \A x \in {i, j, k} : x.entries \in Nat /\ x.added \in Nat /\ x.erased \in Nat
  BY InfoParts
<1> QED BY <1>1 DEF Older

LEMMA OlderSame == ASSUME NEW i \in InfoSet PROVE Older(i, i)
BY InfoParts DEF Older

LEMMA SettledLess ==
  ASSUME NEW lines, NEW why, NEW m \in Int, NEW n \in Int, m <= n, Settled(n, lines, why)
  PROVE  Settled(m, lines, why)
BY WantedEvents DEF Settled

LEMMA SettledKept ==
  ASSUME Kept, NEW n, Settled(n, logged, fate)
  PROVE  Settled(n, logged', fate')
BY WantedEvents DEF Settled, Kept

\* Every step leaves settled what is settled and older what is older.
LEMMA QuietHistory == UNCHANGED <<logged, fate>> => Kept
BY DEF Kept

LEMMA ForgiveKept ==
  ASSUME NEW f \in {"old", "asked", "cut"}, Forgive(f), UNCHANGED logged
  PROVE  Kept
BY DEF Kept, Forgive

LEMMA LogKept == TypeInv /\ LogEntry => Kept
<1> SUFFICES ASSUME TypeInv, LogEntry PROVE Kept
  OBVIOUS
<1>1. PICK k \in Found :
        \/ logged' = [logged EXCEPT ![sel[k].ev] = @ + 1]
        \/ UNCHANGED logged
  BY DEF LogEntry
<1>2. fate' = fate
  BY DEF LogEntry
<1>3. \A e \in Events : logged[e] \in Nat
  BY DEF TypeInv, HistoryOK
<1>4. logged \in [Events -> Nat]
  BY DEF TypeInv, HistoryOK
<1> QED BY <1>1, <1>2, <1>3, <1>4 DEF Kept

LEMMA KeptStep == TypeInv /\ [Next]_vars => Kept
<1> SUFFICES ASSUME TypeInv, [Next]_vars PROVE Kept
  OBVIOUS
<1>1. CASE Arrive
  BY <1>1 DEF Arrive, Kept, TypeInv, HistoryOK
<1>2. CASE OutsideClear
  BY <1>2, ForgiveKept DEF OutsideClear
<1>3. CASE ClearFirst
  BY <1>3, ForgiveKept DEF ClearFirst
<1>4. CASE InitInfo
  <2>1. UNCHANGED logged
        /\ (UNCHANGED fate \/ \E f \in {"old", "asked", "cut"} : Forgive(f))
    BY <1>4 DEF InitInfo
  <2> QED BY <2>1, ForgiveKept, QuietHistory
<1>5. CASE LogEntry
  BY <1>5, LogKept
<1>6. CASE \/ StartPoll \/ Load \/ InitLast \/ GetInfo \/ Check \/ Reserve \/ LogMissing
           \/ Clear \/ ClearCanceled \/ Reinfo \/ Save \/ Write
           \/ RequestFails \/ ClearUnanswered \/ WriteFails \/ Crash
  BY <1>6, QuietHistory DEF StartPoll, Load, InitLast, GetInfo, Check, Reserve, LogMissing,
     Clear, ClearCanceled, Reinfo, Save, Write, RequestFails, ClearUnanswered, WriteFails,
     Crash, history
<1>7. CASE UNCHANGED vars
  BY <1>7, QuietHistory DEF vars, history
<1> QED BY <1>1, <1>2, <1>3, <1>4, <1>5, <1>6, <1>7 DEF Next, Daemon

LEMMA OlderArrive == TypeInv /\ Arrive => Older(Info, Info')
<1> SUFFICES ASSUME TypeInv, Arrive PROVE Older(Info, Info')
  OBVIOUS
<1>1. /\ BmcOK' /\ Lost' = Lost /\ arrived' = arrived + 1 /\ erases' = erases
  BY ArriveBmc DEF TypeInv
<1>2. /\ Info.added = arrived /\ Info.erased = erases /\ Info.added - Info.entries = Lost
      /\ Info'.added = arrived' /\ Info'.erased = erases'
      /\ Info'.added - Info'.entries = Lost'
      /\ arrived \in Nat
  BY <1>1, SelAssumption DEF Info, Lost, TypeInv, BmcOK
<1> QED BY <1>1, <1>2 DEF Older, TypeInv, BmcOK

LEMMA OlderErase == TypeInv /\ Erase /\ BmcOK' => Older(Info, Info')
<1> SUFFICES ASSUME TypeInv, Erase, BmcOK' PROVE Older(Info, Info')
  OBVIOUS
<1>1. /\ Lost' = arrived /\ arrived' = arrived /\ erases' = erases + 1
  BY EraseBmc DEF TypeInv, PollOK, BmcOK
<1>2. /\ Info.added = arrived /\ Info.erased = erases /\ Info.added - Info.entries = Lost
      /\ Info'.added = arrived' /\ Info'.erased = erases'
      /\ Info'.added - Info'.entries = Lost'
      /\ arrived \in Nat /\ erases \in Nat
  BY <1>1, SelAssumption DEF Info, Lost, TypeInv, BmcOK
<1> QED BY <1>1, <1>2 DEF Older

LEMMA OlderStep == TypeInv /\ [Next]_vars => Older(Info, Info')
<1> SUFFICES ASSUME TypeInv, [Next]_vars PROVE Older(Info, Info')
  OBVIOUS
<1>0. BmcOK'
  BY TypeStep DEF TypeInv
<1>1. CASE Arrive
  BY <1>1, OlderArrive
<1>2. CASE OutsideClear \/ ClearFirst \/ Clear \/ ClearUnanswered
  <2>1. Erase
    BY <1>2 DEF OutsideClear, ClearFirst, Clear, ClearUnanswered
  <2> QED BY <1>0, <2>1, OlderErase
<1>3. CASE UNCHANGED bmc
  <2>1. Info' = Info
    BY <1>3 DEF bmc, Info
  <2>2. Info \in InfoSet
    BY InfoIn DEF TypeInv
  <2> QED BY <2>1, <2>2, OlderSame
<1>4. CASE \/ StartPoll \/ Load \/ InitLast \/ InitInfo \/ GetInfo \/ Check \/ Reserve
           \/ LogEntry \/ LogMissing \/ ClearCanceled \/ Reinfo \/ Save \/ Write
           \/ RequestFails \/ WriteFails \/ Crash \/ UNCHANGED vars
  <2>1. UNCHANGED bmc
    BY <1>4 DEF StartPoll, Load, InitLast, InitInfo, GetInfo, Check, Reserve, LogEntry,
       LogMissing, ClearCanceled, Reinfo, Save, Write, RequestFails, WriteFails, Crash, vars
  <2> QED BY <2>1, <1>3
<1> QED BY <1>1, <1>2, <1>4 DEF Next, Daemon

LEMMA OlderKept ==
  ASSUME TypeInv, [Next]_vars, NEW i \in InfoSet, Older(i, Info)
  PROVE  Older(i, Info')
<1>1. TypeInv'
  BY TypeStep
<1>2. Info \in InfoSet
  BY InfoIn DEF TypeInv
<1>3. Info' \in InfoSet
  BY <1>1, SelAssumption DEF TypeInv, BmcOK, Info, InfoSet
<1> QED BY <1>2, <1>3, OlderStep, OlderTrans

LEMMA ArrivedGrows == TypeInv /\ [Next]_vars => arrived' >= arrived /\ Lost' >= Lost
<1> SUFFICES ASSUME TypeInv, [Next]_vars PROVE arrived' >= arrived /\ Lost' >= Lost
  OBVIOUS
<1>1. TypeInv'
  BY TypeStep
<1>2. Older(Info, Info')
  BY OlderStep
<1>3. /\ Info.added = arrived /\ Info.erased = erases /\ Info.added - Info.entries = Lost
      /\ Info'.added = arrived' /\ Info'.erased = erases'
      /\ Info'.added - Info'.entries = Lost'
      /\ arrived \in Nat /\ arrived' \in Nat
  BY <1>1, SelAssumption DEF Info, Lost, TypeInv, BmcOK
<1>4. Lost \in 0..arrived
  BY SelEvents DEF TypeInv
<1>5. Lost' \in 0..arrived'
  <2>1. Lost' >= 0 /\ Lost' = arrived' - Len(sel') /\ Len(sel') \in Nat
    BY <1>1 DEF TypeInv, BmcOK, Numbered, Lost
  <2> QED BY <1>3, <2>1
<1> QED BY <1>2, <1>3, <1>4, <1>5 DEF Older

\* A state that was saved stays one to go on from.
LEMMA SavedKept ==
  ASSUME TypeInv, [Next]_vars, NEW l \in States, Saved(l, Info, logged, fate)
  PROVE  Saved(l, Info', logged', fate')
<1>1. l.id <= Info.added
  BY DEF Saved
<1>2. l.id <= Info'.added
  <2>1. Info.added = arrived /\ Info'.added = arrived' /\ arrived \in Nat /\ arrived' \in Nat
        /\ l.id \in Nat
    BY TypeStep, InfoParts, SelAssumption DEF Info, TypeInv, BmcOK
  <2> QED BY <1>1, <2>1, ArrivedGrows
<1>3. ASSUME l.initialized
      PROVE  /\ Older(l.info, Info')
             /\ Settled(l.id, logged', fate') /\ Settled(l.info.added, logged', fate')
  <2>1. /\ Older(l.info, Info)
        /\ Settled(l.id, logged, fate) /\ Settled(l.info.added, logged, fate)
    BY <1>3 DEF Saved
  <2>2. Older(l.info, Info')
    BY <2>1, OlderKept, InfoParts
  <2> QED BY <2>1, <2>2, KeptStep, SettledKept
<1> QED BY <1>2, <1>3 DEF Saved

-----------------------------------------------------------------------------
(* The invariant of the clear, action by action. *)

\* What ipmiseld_check_sel_info() decides of two states, the older one first.
LEMMA CheckCases ==
  ASSUME NEW l \in States, NEW info \in InfoSet, NEW r \in Nat, Older(l.info, info)
  PROVE  LET c == CheckSelInfo(l, info, r) IN
         \/ /\ c = Nothing(l)
            /\ info.added = l.info.added \/ (r # 0 /\ r = l.id)
         \/ /\ c = SawClear /\ info.erased # l.info.erased
            /\ info.entries = 0 \/ info.added = l.info.added
         \/ c = NewRecords(l)
         \/ c = AllRecords /\ info.erased # l.info.erased
<1> DEFINE c == CheckSelInfo(l, info, r)
           same == info.added = l.info.added
           erased == info.erased # l.info.erased
           ae == AddedAndErased(l, info, r)
<1>1. /\ info.entries \in Nat /\ info.added \in Nat /\ info.erased \in Nat /\ l.id \in Nat
      /\ l.info.entries \in Nat /\ l.info.added \in Nat /\ l.info.erased \in Nat
  BY InfoParts
<1>2. \/ ae = AllRecords \/ ae = NewRecords(l) \/ (ae = SawClear /\ info.entries = 0)
  BY <1>1 DEF AddedAndErased
<1>3. CASE info.entries = l.info.entries
  <2>1. ~ erased => same
    BY <1>1, <1>3 DEF Older
  <2>2. c = IF erased THEN IF same THEN IF args.deletes /\ r # 0 /\ r = l.id
                                        THEN Nothing(l) ELSE SawClear
                           ELSE ae
            ELSE Nothing(l)
    BY <1>1, <1>3 DEF CheckSelInfo
  <2> QED BY <1>2, <2>1, <2>2
<1>4. CASE info.entries > l.info.entries
  <2>1. c = IF r # 0 /\ r = l.id THEN Nothing(l) ELSE IF erased THEN ae ELSE NewRecords(l)
    BY <1>1, <1>4 DEF CheckSelInfo
  <2> QED BY <1>2, <2>1
<1>5. CASE info.entries < l.info.entries
  <2>1. erased
    BY <1>1, <1>5 DEF Older
  <2>2. c = IF ~ same THEN ae ELSE IF info.entries = 0 THEN SawClear ELSE Nothing(l)
    BY <1>1, <1>5 DEF CheckSelInfo
  <2> QED BY <1>2, <2>1, <2>2
<1> QED BY <1>1, <1>3, <1>4, <1>5

\* What is settled in the state the daemon is in.
LEMMA AllSettled ==
  ASSUME TypeInv, EraseInv, pc \in {"clear", "reinfo"}
  PROVE  Settled(arrived, logged, fate)
BY DEF EraseInv, Raced, LastRead

LEMMA ForgiveSettles ==
  ASSUME TypeInv, EraseInv, NEW f \in {"old", "asked", "cut"}, Forgive(f), UNCHANGED logged
  PROVE  Settled(arrived, logged', fate')
<1>1. Settled(Lost, logged, fate) /\ Lost \in Nat /\ arrived \in Nat
  BY SelEvents, SelAssumption DEF TypeInv, BmcOK, EraseInv
<1> SUFFICES ASSUME NEW e \in Wanted, e <= arrived PROVE logged'[e] > 0 \/ fate'[e] # "owed"
  BY DEF Settled
<1>2. e \in Events /\ e \in Nat
  BY WantedEvents
<1>3. CASE e <= Lost
  BY <1>1, <1>2, <1>3 DEF Settled, Forgive
<1>4. CASE e > Lost
  <2>1. e \in EventsInSel
    BY <1>1, <1>2, <1>4, SelEvents DEF TypeInv
  <2> QED BY <1>2, <2>1 DEF Forgive, TypeInv, HistoryOK
<1> QED BY <1>1, <1>2, <1>3, <1>4

LEMMA LostSettled ==
  ASSUME TypeInv, EraseInv, [Next]_vars
  PROVE  Settled(Lost', logged', fate')
<1>0. Kept /\ Settled(Lost, logged, fate)
  BY KeptStep DEF EraseInv
<1>1. CASE Arrive
  <2>1. Lost' = Lost
    BY <1>1, ArriveBmc DEF TypeInv
  <2> QED BY <1>0, <2>1, SettledKept
<1>2. CASE OutsideClear \/ ClearFirst
  <2>1. Erase /\ Forgive("asked") /\ UNCHANGED logged /\ others' \in Nat
    BY <1>2 DEF OutsideClear, ClearFirst, TypeInv, BmcOK
  <2>2. Lost' = arrived
    BY <2>1, EraseBmc DEF TypeInv, PollOK
  <2> QED BY <2>1, <2>2, ForgiveSettles
<1>3. CASE Clear \/ ClearUnanswered
  <2>1. Erase /\ UNCHANGED <<logged, fate>> /\ others' \in Nat /\ pc = "clear"
    BY <1>3 DEF Clear, ClearUnanswered, TypeInv, BmcOK
  <2>2. Lost' = arrived
    BY <2>1, EraseBmc DEF TypeInv, PollOK
  <2> QED BY <2>1, <2>2, AllSettled
<1>4. CASE \/ StartPoll \/ Load \/ InitLast \/ InitInfo \/ GetInfo \/ Check \/ Reserve
           \/ LogEntry \/ LogMissing \/ ClearCanceled \/ Reinfo \/ Save \/ Write
           \/ RequestFails \/ WriteFails \/ Crash \/ UNCHANGED vars
  <2>1. UNCHANGED bmc
    BY <1>4 DEF StartPoll, Load, InitLast, InitInfo, GetInfo, Check, Reserve, LogEntry,
       LogMissing, ClearCanceled, Reinfo, Save, Write, RequestFails, WriteFails, Crash, vars
  <2>2. Lost' = Lost
    BY <2>1 DEF bmc, Lost
  <2> QED BY <1>0, <2>2, SettledKept
<1> QED BY <1>1, <1>2, <1>3, <1>4 DEF Next, Daemon

LEMMA StillSaved ==
  ASSUME TypeInv, EraseInv, [Next]_vars
  PROVE  Saved(last, Info', logged', fate') /\ Saved(file, Info', logged', fate')
BY SavedKept DEF TypeInv, PollOK, EraseInv

LEMMA NotSaved ==
  ASSUME TypeInv, [Next]_vars PROVE Saved(Uninitialized, Info', logged', fate')
<1>1. Info'.added \in Nat
  BY TypeStep, SelAssumption DEF Info, TypeInv, BmcOK
<1> QED BY <1>1 DEF Saved, Uninitialized

LEMMA ClosedPoll == pc' \notin Open => (ReadInfo /\ Passed /\ Done /\ Raced)'
BY DEF ReadInfo, Passed, Done, Raced, Open, ToLog, LastRead

LEMMA CacheStep ==
  ASSUME TypeInv, CacheOK, [Next]_vars PROVE CacheOK'
<1>1. CASE Load
  BY <1>1 DEF Load, history, CacheOK
<1>2. CASE Save
  BY <1>2 DEF Save, history, CacheOK
<1>3. CASE Write
  BY <1>3 DEF Write, Return, CacheOK, TypeInv, PollOK, Comparing
<1>4. CASE WriteFails \/ Crash
  BY <1>4 DEF WriteFails, Return, Crash, CacheOK
<1>5. CASE \/ StartPoll \/ ClearFirst \/ InitLast \/ InitInfo \/ GetInfo \/ Check \/ Reserve
           \/ LogEntry \/ LogMissing
  <2>1. UNCHANGED <<cache, file>> /\ pc # "write"
        /\ (pc' \in {"initLast", "initInfo"} => pc = "initLast")
    BY <1>5 DEF StartPoll, FirstStep, ClearFirst, InitLast, InitInfo, GetInfo, Check, AfterCheck,
       Reserve, AfterReserve, LogEntry, LogMissing, AfterLog, history
  <2> QED BY <2>1 DEF CacheOK
<1>6. CASE \/ Clear \/ ClearCanceled \/ Reinfo \/ RequestFails \/ ClearUnanswered
  <2>1. UNCHANGED <<cache, file>> /\ pc # "write" /\ pc' \notin {"initLast", "initInfo"}
    BY <1>6 DEF Clear, ClearCanceled, Refused, Reinfo, RequestFails, ClearUnanswered,
       AfterFailure, AfterReserve, history
  <2> QED BY <2>1 DEF CacheOK
<1>7. CASE Arrive \/ OutsideClear \/ UNCHANGED vars
  <2>1. UNCHANGED <<cache, file, pc>>
    BY <1>7 DEF Arrive, OutsideClear, vars, history
  <2> QED BY <2>1 DEF CacheOK
<1> QED BY <1>1, <1>2, <1>3, <1>4, <1>5, <1>6, <1>7 DEF Next, Daemon

\* The parts of the invariant, put together again.
LEMMA EraseParts ==
  ASSUME TypeInv, EraseInv, [Next]_vars,
         Saved(last', Info', logged', fate'), Saved(file', Info', logged', fate'),
         ReadInfo', Passed', Done', Raced'
  PROVE  EraseInv'
BY LostSettled, CacheStep DEF EraseInv

LEMMA ReadKept ==
  ASSUME TypeInv, EraseInv, [Next]_vars, pc \in Open, UNCHANGED <<now, last>>,
         pc # "check" \/ pc' = "check"
  PROVE  ReadInfo'
<1>0. arrived \in Nat /\ arrived' \in Nat /\ now.id \in Nat /\ now.info \in InfoSet
  BY TypeStep, InfoParts, SelAssumption DEF TypeInv, BmcOK, PollOK
<1>1. Older(last'.info, now'.info)
  BY DEF EraseInv, ReadInfo
<1>2. Older(now'.info, Info')
  BY <1>0, OlderKept DEF EraseInv, ReadInfo
<1>3. pc # "check" => now'.id <= arrived' /\ Settled(now'.id, logged', fate')
  BY <1>0, ArrivedGrows, KeptStep, SettledKept DEF EraseInv, ReadInfo
<1> QED BY <1>1, <1>2, <1>3 DEF ReadInfo

LEMMA AroundParts ==
  ASSUME TypeInv, EraseInv, [Next]_vars,
         UNCHANGED <<pc, now, last, file, flags, cursor>>, Raced'
  PROVE  EraseInv'
<1>1. Saved(last', Info', logged', fate') /\ Saved(file', Info', logged', fate')
  BY StillSaved
<1>2. ReadInfo'
  <2>1. CASE pc \in Open
    BY <2>1, ReadKept
  <2>2. CASE pc \notin Open
    BY <2>2, ClosedPoll
  <2> QED BY <2>1, <2>2
<1>3. Passed'
  BY KeptStep, SettledKept DEF EraseInv, Passed, ToLog
<1>4. Done'
  BY KeptStep, SettledKept DEF EraseInv, Done
<1> QED BY <1>1, <1>2, <1>3, <1>4, EraseParts

LEMMA RacedKept ==
  ASSUME TypeInv, EraseInv, [Next]_vars, UNCHANGED <<now, arrived>>,
         pc' = "check" /\ flags'.clear => pc = "check" /\ flags.clear,
         LastRead' => LastRead
  PROVE  Raced'
<1>1. LastRead' => Settled(arrived', logged', fate')
  BY KeptStep, SettledKept DEF EraseInv, Raced
<1> QED BY <1>1, KeptStep DEF EraseInv, Raced, Kept

LEMMA EraseArrive == TypeInv /\ EraseInv /\ Arrive => EraseInv'
<1> SUFFICES ASSUME TypeInv, EraseInv, Arrive PROVE EraseInv'
  OBVIOUS
<1>0. [Next]_vars
  BY DEF Next
<1>1. UNCHANGED <<pc, now, last, file, flags, cursor>>
  BY DEF Arrive, poll
<1>2. Raced'
  <2>1. LastRead' = LastRead /\ arrived' = arrived + 1 /\ arrived \in Nat
        /\ fate \in [Events -> Fates] /\ logged' = logged
    BY <1>1, SelAssumption DEF LastRead, Arrive, TypeInv, HistoryOK, BmcOK
  <2>2. ASSUME LastRead \/ (pc = "check" /\ flags.clear)
        PROVE  fate' = [fate EXCEPT ![arrived'] = "raced"]
    <3>1. Unread
      BY <2>2 DEF Unread, LastRead, EraseInv, Done
    <3> QED BY <3>1 DEF Arrive
  <2>3. ASSUME pc = "check", flags.clear,
               NEW e \in Events, now.info.added < e, e <= arrived'
        PROVE  fate'[e] # "owed"
    <3>1. e \in Nat /\ fate' = [fate EXCEPT ![arrived'] = "raced"]
      BY <2>2, <2>3, SelAssumption DEF Events
    <3>2. CASE e = arrived'
      BY <2>1, <3>1, <3>2
    <3>3. CASE e <= arrived
      <4>1. fate[e] # "owed"
        BY <2>3, <3>3 DEF EraseInv, Raced
      <4> QED BY <2>1, <3>1, <4>1
    <3> QED BY <2>1, <2>3, <3>1, <3>2, <3>3
  <2>4. ASSUME LastRead, NEW e \in Wanted, e <= arrived'
        PROVE  logged'[e] > 0 \/ fate'[e] # "owed"
    <3>1. e \in Events /\ e \in Nat /\ fate' = [fate EXCEPT ![arrived'] = "raced"]
      BY <2>2, <2>4, WantedEvents
    <3>2. CASE e = arrived'
      BY <2>1, <3>1, <3>2
    <3>3. CASE e <= arrived
      <4>1. logged[e] > 0 \/ fate[e] # "owed"
        BY <2>4, <3>3 DEF EraseInv, Raced, Settled
      <4> QED BY <2>1, <3>1, <4>1
    <3> QED BY <2>1, <2>4, <3>1, <3>2, <3>3
  <2>5. LastRead' => Settled(arrived', logged', fate')
    BY <2>1, <2>4 DEF Settled
  <2> QED BY <1>1, <2>3, <2>5 DEF Raced
<1> QED BY <1>0, <1>1, <1>2, AroundParts

LEMMA EraseOutsideClear == TypeInv /\ EraseInv /\ OutsideClear => EraseInv'
<1> SUFFICES ASSUME TypeInv, EraseInv, OutsideClear PROVE EraseInv'
  OBVIOUS
<1>0. [Next]_vars
  BY DEF Next
<1>1. UNCHANGED <<pc, now, last, file, flags, cursor, arrived>>
  BY DEF OutsideClear, poll, Erase
<1>2. Raced'
  BY <1>0, <1>1, RacedKept DEF LastRead
<1> QED BY <1>0, <1>1, <1>2, AroundParts

\* The start of a poll, and its end: no state of the SEL is open.
LEMMA EraseClosed ==
  ASSUME TypeInv, EraseInv, [Next]_vars, pc' \notin Open,
         \/ last' \in {last, file, Uninitialized}
         \/ Saved(last', Info', logged', fate'),
         file' \in {last, file, Uninitialized}
  PROVE  EraseInv'
<1>1. Saved(last', Info', logged', fate')
  BY StillSaved, NotSaved
<1>2. Saved(file', Info', logged', fate')
  BY StillSaved, NotSaved
<1> QED BY <1>1, <1>2, ClosedPoll, EraseParts

LEMMA EraseStart ==
  TypeInv /\ EraseInv /\ (StartPoll \/ ClearFirst \/ Load \/ Write \/ WriteFails \/ Crash)
    => EraseInv'
<1> SUFFICES ASSUME TypeInv, EraseInv,
                    StartPoll \/ ClearFirst \/ Load \/ Write \/ WriteFails \/ Crash
             PROVE  EraseInv'
  OBVIOUS
<1>0. [Next]_vars
  BY DEF Next, Daemon
<1>1. pc' \notin Open
  BY DEF StartPoll, ClearFirst, Load, Write, WriteFails, Crash, FirstStep, Return, Open
<1>2. last' \in {last, file, Uninitialized} /\ file' \in {last, file, Uninitialized}
  BY DEF StartPoll, ClearFirst, Load, Write, WriteFails, Crash
<1> QED BY <1>0, <1>1, <1>2, EraseClosed

LEMMA EraseInitLast == TypeInv /\ EraseInv /\ InitLast => EraseInv'
<1> SUFFICES ASSUME TypeInv, EraseInv, InitLast PROVE EraseInv'
  OBVIOUS
<1>0. [Next]_vars
  BY DEF Next, Daemon
<1>1. pc' \notin Open /\ file' = file
  BY DEF InitLast, Open
<1>2. ~ last'.initialized /\ last'.id = LastRecordId
  BY DEF InitLast, TypeInv, PollOK, Loading, States
<1>3. Saved(last', Info', logged', fate')
  <2>1. LastRecordId <= arrived
    BY LastRecord, SelAssumption DEF TypeInv, BmcOK
  <2>2. Info'.added = arrived
    BY DEF Info, InitLast, bmc
  <2> QED BY <1>2, <2>1, <2>2 DEF Saved
<1> QED BY <1>0, <1>1, <1>3, EraseClosed

LEMMA EraseInitInfo == TypeInv /\ EraseInv /\ InitInfo => EraseInv'
<1> SUFFICES ASSUME TypeInv, EraseInv, InitInfo PROVE EraseInv'
  OBVIOUS
<1>0. [Next]_vars
  BY DEF Next, Daemon
<1>1. /\ pc' \notin Open /\ file' = file /\ UNCHANGED logged
      /\ \E f \in {"old", "asked", "cut"} : Forgive(f)
  <2>1. cache \in {"none", "cut"}
    BY DEF InitInfo, EraseInv, CacheOK, TypeInv, HistoryOK
  <2> QED BY <2>1 DEF InitInfo, Open
<1>2. last'.info = Info /\ last'.id = last.id /\ Info' = Info
  BY DEF InitInfo, TypeInv, PollOK, States, bmc, Info
<1>3. /\ Info \in InfoSet /\ Info.added = arrived /\ last.id <= arrived
      /\ last.id \in Nat /\ arrived \in Nat
  BY InfoIn, InfoParts, SelAssumption DEF EraseInv, Saved, TypeInv, BmcOK, PollOK
<1>4. Settled(arrived, logged', fate') /\ Settled(last.id, logged', fate')
  BY <1>1, <1>3, ForgiveSettles, SettledLess
<1>5. Saved(last', Info', logged', fate')
  BY <1>2, <1>3, <1>4, OlderSame DEF Saved
<1> QED BY <1>0, <1>1, <1>5, EraseClosed

LEMMA EraseGetInfo == TypeInv /\ EraseInv /\ GetInfo => EraseInv'
<1> SUFFICES ASSUME TypeInv, EraseInv, GetInfo PROVE EraseInv'
  OBVIOUS
<1>0. [Next]_vars
  BY DEF Next, Daemon
<1>1. /\ pc = "info" /\ pc' = "check" /\ UNCHANGED <<last, file>> /\ now'.info = Info
      /\ Info' = Info /\ arrived' = arrived
  BY DEF GetInfo, TypeInv, PollOK, States, bmc, Info
<1>2. Saved(last', Info', logged', fate') /\ Saved(file', Info', logged', fate')
  BY <1>0, <1>1, StillSaved
<1>3. ReadInfo'
  <2>1. Older(last.info, Info) /\ Older(Info, Info)
    BY <1>1, InfoIn, OlderSame DEF EraseInv, Saved, TypeInv, PollOK, Comparing
  <2> QED BY <1>1, <2>1 DEF ReadInfo
<1>4. Passed' /\ Done'
  BY <1>1 DEF Passed, ToLog, Done
<1>5. Raced'
  <2>1. now'.info.added = arrived'
    BY <1>1, InfoIn DEF TypeInv
  <2>2. arrived' \in Nat
    BY <1>1, SelAssumption DEF TypeInv, BmcOK
  <2> QED BY <1>1, <2>1, <2>2, SelAssumption DEF Raced, LastRead, Events
<1> QED BY <1>0, <1>2, <1>3, <1>4, <1>5, EraseParts

\* What the check decides, when the states are in order.
LEMMA CheckSettled ==
  ASSUME TypeInv, EraseInv, pc = "check"
  PROVE  LET c == CheckSelInfo(last, now.info, LastRecordId) IN
         /\ c.id \in {0, last.id} /\ c.log \in BOOLEAN
         /\ c.log => c.start = c.id
         /\ ~ c.log => Settled(now.info.added, logged, fate)
         /\ c.id = last.id \/ now.info.erased # last.info.erased
<1> DEFINE c == CheckSelInfo(last, now.info, LastRecordId)
<1>1. /\ last.initialized /\ Older(last.info, now.info) /\ Older(now.info, Info)
      /\ Settled(last.id, logged, fate) /\ Settled(last.info.added, logged, fate)
      /\ Settled(Lost, logged, fate)
  BY DEF TypeInv, PollOK, Comparing, EraseInv, ReadInfo, Open, Saved
<1>2. /\ last \in States /\ now.info \in InfoSet /\ last.info \in InfoSet /\ Info \in InfoSet
      /\ now.info.added \in Nat /\ now.info.entries \in Nat
      /\ LastRecordId \in Nat /\ arrived \in Nat
      /\ Lost \in 0..arrived
  BY InfoParts, InfoIn, LastRecord, SelEvents, SelAssumption DEF TypeInv, PollOK, BmcOK
<1>3. now.info.added <= arrived /\ now.info.added - now.info.entries <= Lost
  <2>1. /\ Info.added = arrived /\ Info.added - Info.entries = Lost
    BY InfoIn DEF TypeInv
  <2> QED BY <1>1, <1>2, <2>1 DEF Older
<1>4. \/ /\ c = Nothing(last)
         /\ now.info.added = last.info.added \/ (LastRecordId # 0 /\ LastRecordId = last.id)
      \/ /\ c = SawClear /\ now.info.erased # last.info.erased
         /\ now.info.entries = 0 \/ now.info.added = last.info.added
      \/ c = NewRecords(last)
      \/ c = AllRecords /\ now.info.erased # last.info.erased
  BY <1>1, <1>2, CheckCases
<1>5. /\ c.id \in {0, last.id} /\ c.log \in BOOLEAN /\ (c.log => c.start = c.id)
      /\ c.id = last.id \/ now.info.erased # last.info.erased
  <2>1. /\ Nothing(last).id = last.id /\ Nothing(last).log = FALSE
        /\ SawClear.id = 0 /\ SawClear.log = FALSE
        /\ NewRecords(last).id = last.id /\ NewRecords(last).start = last.id
        /\ NewRecords(last).log = TRUE
        /\ AllRecords.id = 0 /\ AllRecords.start = 0 /\ AllRecords.log = TRUE
    BY DEF Nothing, SawClear, NewRecords, AllRecords
  <2> HIDE DEF c
  <2>2. CASE c = Nothing(last)
    BY <2>1, <2>2
  <2>3. CASE c = SawClear /\ now.info.erased # last.info.erased
    BY <2>1, <2>3
  <2>4. CASE c = NewRecords(last)
    BY <2>1, <2>4
  <2>5. CASE c = AllRecords /\ now.info.erased # last.info.erased
    BY <2>1, <2>5
  <2> QED BY <1>4, <2>2, <2>3, <2>4, <2>5
<1>6. ASSUME ~ c.log PROVE Settled(now.info.added, logged, fate)
  <2>1. \/ now.info.added = last.info.added
        \/ LastRecordId # 0 /\ LastRecordId = last.id
        \/ now.info.entries = 0
    <3> HIDE DEF c
    <3> QED BY <1>4, <1>6 DEF NewRecords, AllRecords
  <2>2. CASE now.info.added = last.info.added
    BY <1>1, <2>2
  <2>3. CASE LastRecordId # 0 /\ LastRecordId = last.id
    <3>1. last.id = arrived
      BY <2>3, LastRecord DEF TypeInv
    <3> QED BY <1>1, <1>2, <1>3, <3>1, SettledLess
  <2>4. CASE now.info.entries = 0
    BY <1>1, <1>2, <1>3, <2>4, SettledLess
  <2> QED BY <2>1, <2>2, <2>3, <2>4
<1> QED BY <1>5, <1>6

LEMMA EraseCheck == TypeInv /\ EraseInv /\ Check => EraseInv'
<1> SUFFICES ASSUME TypeInv, EraseInv, Check PROVE EraseInv'
  OBVIOUS
<1>0. [Next]_vars
  BY DEF Next, Daemon
<1> DEFINE c == CheckSelInfo(last, now.info, LastRecordId)
<1>1. pc = "check" /\ pc' = AfterCheck(flags.clear, c.log)
  BY DEF Check
<1>2. /\ now' = [now EXCEPT !.id = c.id]
      /\ cursor' = c.start /\ flags' = [flags EXCEPT !.log = c.log]
      /\ UNCHANGED <<last, file, bmc, logged, fate>>
  BY DEF Check, history
<1>3. /\ c.id \in {0, last.id} /\ c.log \in BOOLEAN
      /\ c.log => c.start = c.id
      /\ ~ c.log => Settled(now.info.added, logged, fate)
  BY <1>1, CheckSettled
<1> HIDE DEF c
<1>4. /\ now'.id = c.id /\ now'.info = now.info /\ flags'.log = c.log
      /\ flags'.clear = flags.clear /\ flags.clear \in BOOLEAN
  BY <1>2 DEF TypeInv, PollOK, States, FlagSet
<1>5. Saved(last', Info', logged', fate') /\ Saved(file', Info', logged', fate')
  BY <1>0, <1>2, StillSaved
<1>6. /\ last.initialized /\ Settled(last.id, logged, fate) /\ last.id <= arrived
      /\ Older(last.info, now.info) /\ Older(now.info, Info) /\ Info' = Info /\ arrived' = arrived
      /\ last.id \in Nat /\ arrived \in Nat
  BY <1>1, <1>2, InfoIn, InfoParts, SelAssumption
     DEF TypeInv, PollOK, BmcOK, Comparing, EraseInv, Saved, ReadInfo, Open, Info, bmc
<1>7. Settled(c.id, logged, fate) /\ c.id <= arrived /\ c.id \in Nat
  BY <1>3, <1>6, SettledLess
<1>8. ReadInfo'
  BY <1>2, <1>4, <1>6, <1>7 DEF ReadInfo
<1>9. Passed'
  <2>1. flags'.log => Settled(cursor' - 1, logged', fate')
    BY <1>2, <1>3, <1>4, <1>7, SettledLess
  <2>2. pc' = "log" => flags'.log
    BY <1>1, <1>4 DEF AfterCheck
  <2> QED BY <2>1, <2>2 DEF Passed, ToLog
<1>10. Done'
  BY <1>1, <1>2, <1>3, <1>4 DEF Done, AfterCheck
<1>11. Raced'
  <2>1. pc' # "check" /\ (LastRead' => ~ c.log /\ flags.clear)
    BY <1>1, <1>3, <1>4 DEF LastRead, AfterCheck
  <2>2. ASSUME LastRead' PROVE Settled(arrived', logged', fate')
    <3>1. \A e \in Events : now.info.added < e /\ e <= arrived => fate[e] # "owed"
      BY <1>1, <2>1, <2>2 DEF EraseInv, Raced
    <3>2. Settled(now.info.added, logged, fate) /\ now.info.added \in Nat
      BY <1>3, <2>1, <2>2, InfoParts DEF TypeInv, PollOK
    <3>3. Settled(arrived, logged, fate)
      BY <1>6, <3>1, <3>2, WantedEvents DEF Settled
    <3> QED BY <1>2, <1>6, <3>3
  <2> QED BY <2>1, <2>2 DEF Raced
<1> QED BY <1>0, <1>5, <1>8, <1>9, <1>10, <1>11, EraseParts

LEMMA EraseReserve == TypeInv /\ EraseInv /\ Reserve => EraseInv'
<1> SUFFICES ASSUME TypeInv, EraseInv, Reserve PROVE EraseInv'
  OBVIOUS
<1>0. [Next]_vars
  BY DEF Next, Daemon
<1>1. /\ pc = "reserve" /\ pc' = AfterReserve(flags.log)
      /\ UNCHANGED <<bmc, last, now, file, cursor, logged, fate>>
      /\ flags'.clear = flags.clear /\ flags'.log = flags.log
  BY DEF Reserve, history, TypeInv, PollOK, FlagSet
<1>2. Saved(last', Info', logged', fate') /\ Saved(file', Info', logged', fate')
  BY <1>0, <1>1, StillSaved
<1>3. ReadInfo'
  BY <1>0, <1>1, ReadKept DEF Open
<1>4. Passed'
  BY <1>1 DEF EraseInv, Passed, ToLog, AfterReserve
<1>5. Done'
  BY <1>1 DEF EraseInv, Done, AfterReserve
<1>6. Raced'
  <2>1. pc' # "check" /\ (LastRead' => LastRead)
    BY <1>1 DEF LastRead, AfterReserve
  <2> QED BY <1>0, <1>1, <2>1, RacedKept DEF bmc
<1> QED BY <1>0, <1>2, <1>3, <1>4, <1>5, <1>6, EraseParts

\* Whatever ends the parse, everything in the SEL is settled.
LEMMA EraseLogged ==
  ASSUME TypeInv, EraseInv, [Next]_vars, pc = "log", pc' = AfterLog,
         Settled(arrived, logged', fate'), now'.id <= arrived, now'.id \in Nat,
         now'.info = now.info, UNCHANGED <<bmc, last, file, flags>>
  PROVE  EraseInv'
<1>1. Saved(last', Info', logged', fate') /\ Saved(file', Info', logged', fate')
  BY StillSaved
<1>2. /\ Older(last.info, now.info) /\ Older(now.info, Info) /\ Info' = Info /\ arrived' = arrived
      /\ arrived \in Nat /\ now.info \in InfoSet /\ now.info.added \in Nat /\ Info.added = arrived
  BY InfoParts, InfoIn, SelAssumption
     DEF EraseInv, ReadInfo, Open, TypeInv, BmcOK, PollOK, Info, bmc
<1>3. now.info.added <= arrived
  BY <1>2 DEF Older
<1>4. Settled(now'.id, logged', fate') /\ Settled(now'.info.added, logged', fate')
  BY <1>2, <1>3, SettledLess
<1>5. ReadInfo'
  BY <1>2, <1>4 DEF ReadInfo
<1>6. Passed' /\ Done'
  BY <1>4 DEF Passed, ToLog, Done, AfterLog
<1>7. Raced'
  BY <1>2 DEF Raced, AfterLog
<1> QED BY <1>1, <1>5, <1>6, <1>7, EraseParts

LEMMA EraseLogEntry == TypeInv /\ EraseInv /\ LogEntry => EraseInv'
<1> SUFFICES ASSUME TypeInv, EraseInv, LogEntry PROVE EraseInv'
  OBVIOUS
<1>0. [Next]_vars
  BY DEF Next, Daemon
<1>1. PICK k \in Found :
       /\ IF Logs(sel[k])
            THEN /\ logged' = [logged EXCEPT ![sel[k].ev] = @ + 1]
                 /\ now' = [now EXCEPT !.id = sel[k].id]
            ELSE UNCHANGED <<logged, now>>
       /\ cursor' = NextEntry(k)
       /\ pc' = IF k = Len(sel) THEN AfterLog ELSE pc
  BY DEF LogEntry
<1>2. /\ pc = "log" /\ UNCHANGED <<bmc, last, file, flags, fate>>
  BY DEF LogEntry
<1>3. /\ k \in 1..Len(sel) /\ sel[k].id = Lost + k /\ sel[k].ev = Lost + k
      /\ Lost + k \in Events
      /\ cursor # 0 => cursor = Lost + k
      /\ cursor = 0 => k = 1
      /\ k = Len(sel) <=> Lost + k = arrived
      /\ k # Len(sel) => NextEntry(k) = Lost + k + 1
  BY FoundRecord DEF TypeInv, PollOK
<1>4. /\ Len(sel) \in Nat /\ Lost \in 0..arrived /\ Lost = arrived - Len(sel) /\ arrived \in Nat
      /\ logged \in [Events -> Nat] /\ now \in States /\ cursor \in Nat
      /\ Kept
  BY <1>0, KeptStep, SelEvents, SelAssumption
     DEF TypeInv, PollOK, HistoryOK, BmcOK, Lost, LastEntry
<1>5. /\ Settled(Lost, logged, fate) /\ Settled(cursor - 1, logged, fate)
      /\ Settled(now.id, logged, fate) /\ now.id <= arrived /\ now.id \in Nat
  BY <1>2, <1>4, InfoParts DEF EraseInv, Passed, ToLog, ReadInfo, Open
<1>6. Settled(Lost + k, logged', fate')
  <2> SUFFICES ASSUME NEW e \in Wanted, e <= Lost + k
               PROVE  logged'[e] > 0 \/ fate'[e] # "owed"
    BY DEF Settled
  <2>1. e \in Events /\ e \in Nat
    BY WantedEvents
  <2>2. CASE e <= Lost + k - 1
    <3>1. logged[e] > 0 \/ fate[e] # "owed"
      <4>1. CASE cursor # 0
        <5>1. e <= cursor - 1
          BY <1>3, <1>4, <2>1, <2>2, <4>1
        <5> QED BY <1>5, <5>1 DEF Settled
      <4>2. CASE cursor = 0
        <5>1. e <= Lost
          BY <1>3, <1>4, <2>1, <2>2, <4>2
        <5> QED BY <1>5, <5>1 DEF Settled
      <4> QED BY <4>1, <4>2
    <3> QED BY <1>4, <2>1, <3>1 DEF Kept
  <2>3. CASE e = Lost + k
    <3>1. CASE Logs(sel[k])
      BY <1>1, <1>3, <1>4, <2>3, <3>1
    <3>2. CASE ~ Logs(sel[k])
      <4>1. e = now.id
        BY <1>3, <2>3, <3>2 DEF Logs
      <4>2. logged[e] > 0 \/ fate[e] # "owed"
        BY <1>5, <2>1, <4>1 DEF Settled
      <4> QED BY <1>4, <2>1, <4>2 DEF Kept
    <3> QED BY <3>1, <3>2
  <2> QED BY <1>3, <1>4, <2>1, <2>2, <2>3, SMTT(30)
<1>7. /\ now'.info = now.info /\ now'.id \in Nat /\ now'.id <= arrived
      /\ Settled(now'.id, logged', fate')
  <2>1. CASE Logs(sel[k])
    <3>1. now'.info = now.info /\ now'.id = Lost + k
      BY <1>1, <1>3, <1>4, <2>1 DEF States
    <3> QED BY <1>3, <1>4, <1>6, <3>1
  <2>2. CASE ~ Logs(sel[k])
    BY <1>1, <1>4, <1>5, <2>2, SettledKept
  <2> QED BY <2>1, <2>2
<1>8. CASE k = Len(sel)
  <2>1. Settled(arrived, logged', fate')
    BY <1>3, <1>6, <1>8
  <2> QED BY <1>0, <1>1, <1>2, <1>7, <1>8, <2>1, EraseLogged
<1>9. CASE k # Len(sel)
  <2>1. pc' = "log" /\ cursor' = Lost + k + 1
    BY <1>1, <1>2, <1>3, <1>9
  <2>2. Saved(last', Info', logged', fate') /\ Saved(file', Info', logged', fate')
    BY <1>0, <1>2, StillSaved
  <2>3. ReadInfo'
    <3>1. /\ Older(last.info, now.info) /\ Older(now.info, Info)
          /\ Info' = Info /\ arrived' = arrived
      BY <1>2 DEF EraseInv, ReadInfo, Open, Info, bmc
    <3> QED BY <1>2, <1>7, <2>1, <3>1 DEF ReadInfo
  <2>4. Passed'
    <3>1. cursor' - 1 = Lost + k
      BY <1>3, <1>4, <2>1
    <3> QED BY <1>6, <3>1 DEF Passed
  <2>5. Done'
    BY <2>1 DEF Done
  <2>6. Raced'
    BY <2>1 DEF Raced, LastRead
  <2> QED BY <1>0, <2>2, <2>3, <2>4, <2>5, <2>6, EraseParts
<1> QED BY <1>8, <1>9

\* No record has the id the parse is at.
LEMMA NotFound ==
  ASSUME TypeInv, Found = {}
  PROVE  IF cursor = 0 THEN Lost = arrived ELSE cursor <= Lost \/ cursor > arrived
<1>1. /\ DOMAIN sel = 1..Len(sel) /\ Len(sel) \in Nat /\ Lost \in 0..arrived
      /\ arrived \in Nat /\ Lost = arrived - Len(sel) /\ cursor \in Nat
      /\ \A k \in 1..Len(sel) : sel[k].id = Lost + k
  BY SelEvents, SelAssumption DEF TypeInv, BmcOK, PollOK, Lost, LastEntry
<1>2. CASE cursor = 0
  <2>1. 1 \notin DOMAIN sel
    BY <1>2 DEF Found
  <2> QED BY <1>1, <1>2, <2>1
<1>3. CASE cursor # 0
  <2> SUFFICES ASSUME cursor > Lost, cursor <= arrived PROVE FALSE
    BY <1>1, <1>3
  <2>1. cursor - Lost \in 1..Len(sel) /\ sel[cursor - Lost].id = cursor
    BY <1>1
  <2> QED BY <1>1, <1>3, <2>1 DEF Found
<1> QED BY <1>2, <1>3

LEMMA EraseLogMissing == TypeInv /\ EraseInv /\ LogMissing => EraseInv'
<1> SUFFICES ASSUME TypeInv, EraseInv, LogMissing PROVE EraseInv'
  OBVIOUS
<1>0. [Next]_vars
  BY DEF Next, Daemon
<1>1. /\ pc = "log" /\ Found = {}
      /\ UNCHANGED <<bmc, last, now, file, flags, logged, fate>>
  BY DEF LogMissing, history
<1>2. /\ Lost \in 0..arrived /\ arrived \in Nat /\ cursor \in Nat /\ now.id \in Nat
      /\ Settled(Lost, logged, fate) /\ Settled(cursor - 1, logged, fate) /\ now.id <= arrived
  BY <1>1, SelEvents, InfoParts, SelAssumption
     DEF TypeInv, BmcOK, PollOK, LastEntry, EraseInv, Passed, ToLog, ReadInfo, Open
<1>3. \/ cursor # 0 /\ Later # {} /\ cursor' = Min(Later) /\ pc' = pc
      \/ (cursor = 0 \/ Later = {}) /\ pc' = AfterLog
      \/ pc' = "idle"
  BY DEF LogMissing
<1>4. CASE cursor # 0 /\ Later # {} /\ cursor' = Min(Later) /\ pc' = pc
  <2>1. /\ cursor' \in (Lost + 1)..arrived /\ cursor' > cursor
        /\ \A e \in (Lost + 1)..arrived : e > cursor => cursor' <= e
    BY <1>2, <1>4, LaterIds DEF TypeInv, PollOK
  <2>2. cursor <= Lost \/ cursor > arrived
    BY <1>1, <1>4, NotFound
  <2>3. Settled(cursor' - 1, logged', fate')
    <3>1. cursor <= Lost /\ cursor' - 1 <= Lost
      <4>1. cursor <= Lost /\ Lost + 1 \in (Lost + 1)..arrived
        BY <1>2, <2>1, <2>2
      <4>2. Lost + 1 > cursor
        BY <1>2, <4>1
      <4>3. cursor' <= Lost + 1
        BY <2>1, <4>1, <4>2
      <4>4. Lost \in Int /\ cursor' \in Int
        BY <1>2, <2>1
      <4>5. \A a, b \in Int : a <= b + 1 => a - 1 <= b
        OBVIOUS
      <4> QED BY <4>1, <4>3, <4>4, <4>5
    <3> QED BY <1>1, <1>2, <2>1, <3>1, SettledLess
  <2>4. Saved(last', Info', logged', fate') /\ Saved(file', Info', logged', fate')
    BY <1>0, <1>1, StillSaved
  <2>5. ReadInfo'
    BY <1>0, <1>1, <1>4, ReadKept DEF Open
  <2>6. Passed' /\ Done'
    BY <1>1, <1>4, <2>3 DEF Passed, Done
  <2>7. Raced'
    BY <1>1, <1>4 DEF Raced, LastRead
  <2> QED BY <1>0, <2>4, <2>5, <2>6, <2>7, EraseParts
<1>5. CASE (cursor = 0 \/ Later = {}) /\ pc' = AfterLog
  <2>1. Settled(arrived, logged, fate)
    <3>1. CASE cursor = 0
      BY <1>1, <1>2, <3>1, NotFound
    <3>2. CASE cursor # 0 /\ Later = {}
      <4>1. cursor <= Lost \/ cursor > arrived
        BY <1>1, <3>2, NotFound
      <4>2. CASE cursor > arrived
        BY <1>2, <4>2, SettledLess
      <4>3. CASE cursor <= Lost
        <5>1. arrived = Lost
          <6> SUFFICES ASSUME arrived # Lost PROVE FALSE
            OBVIOUS
          <6>1. arrived \in (Lost + 1)..arrived /\ arrived > cursor
            BY <1>2, <4>3
          <6> QED BY <3>2, <6>1, LaterIds DEF TypeInv, PollOK
        <5> QED BY <1>2, <5>1
      <4> QED BY <4>1, <4>2, <4>3
    <3> QED BY <1>5, <3>1, <3>2
  <2> QED BY <1>0, <1>1, <1>2, <1>5, <2>1, EraseLogged
<1>6. CASE pc' = "idle"
  BY <1>0, <1>1, <1>6, EraseClosed DEF Open
<1> QED BY <1>3, <1>4, <1>5, <1>6

\* The steps of the clear that leave the SEL's state as the poll read it.
LEMMA EraseClearing ==
  ASSUME TypeInv, EraseInv, [Next]_vars, pc \in Open, pc # "check",
         pc' \in {"clear", "reinfo", "save"}, Settled(now.info.added, logged, fate),
         UNCHANGED <<last, now, file, arrived, logged, fate>>,
         pc' # "save" => flags'.clear /\ LastRead
  PROVE  EraseInv'
<1>1. Saved(last', Info', logged', fate') /\ Saved(file', Info', logged', fate')
  BY StillSaved
<1>2. ReadInfo'
  BY ReadKept
<1>3. Passed' /\ Done'
  BY DEF Passed, ToLog, Done
<1>4. Raced'
  BY DEF EraseInv, Raced, LastRead
<1> QED BY <1>1, <1>2, <1>3, <1>4, EraseParts

LEMMA EraseClear ==
  TypeInv /\ EraseInv /\ (Clear \/ ClearUnanswered \/ ClearCanceled) => EraseInv'
<1> SUFFICES ASSUME TypeInv, EraseInv, Clear \/ ClearUnanswered \/ ClearCanceled PROVE EraseInv'
  OBVIOUS
<1>0. [Next]_vars
  BY DEF Next, Daemon
<1>1. /\ pc = "clear" /\ pc' \in {"reinfo", "save"}
      /\ UNCHANGED <<last, now, file, arrived, logged, fate>>
      /\ flags'.clear = flags.clear
  BY DEF Clear, ClearUnanswered, ClearCanceled, Refused, AfterFailure, Erase, bmc, poll,
         TypeInv, PollOK, FlagSet
<1>2. Settled(now.info.added, logged, fate) /\ flags.clear /\ LastRead
  BY <1>1 DEF EraseInv, Done, LastRead
<1> QED BY <1>0, <1>1, <1>2, EraseClearing DEF Open

LEMMA EraseReinfo == TypeInv /\ EraseInv /\ Reinfo => EraseInv'
<1> SUFFICES ASSUME TypeInv, EraseInv, Reinfo PROVE EraseInv'
  OBVIOUS
<1>0. [Next]_vars
  BY DEF Next, Daemon
<1>1. /\ pc = "reinfo" /\ pc' = "save" /\ UNCHANGED <<bmc, last, file, logged, fate>>
      /\ now'.info = Info /\ now'.id = 0 /\ Info' = Info
  BY DEF Reinfo, history, TypeInv, PollOK, States, Info, bmc
<1>2. Saved(last', Info', logged', fate') /\ Saved(file', Info', logged', fate')
  BY <1>0, <1>1, StillSaved
<1>3. /\ Info \in InfoSet /\ Info.added = arrived /\ arrived \in Nat /\ arrived' = arrived
      /\ last.initialized
  BY <1>1, InfoIn, SelAssumption DEF TypeInv, BmcOK, PollOK, Comparing, bmc
<1>4. Settled(arrived, logged, fate) /\ Settled(0, logged, fate)
  BY <1>1, <1>3, AllSettled, SettledLess
<1>5. ReadInfo'
  <2>1. Older(last.info, Info) /\ Older(Info, Info)
    BY <1>3, OlderSame DEF EraseInv, Saved
  <2> QED BY <1>1, <1>3, <1>4, <2>1 DEF ReadInfo
<1>6. Passed' /\ Done' /\ Raced'
  BY <1>1, <1>3, <1>4 DEF Passed, ToLog, Done, Raced, LastRead
<1> QED BY <1>0, <1>2, <1>5, <1>6, EraseParts

LEMMA EraseSave == TypeInv /\ EraseInv /\ Save => EraseInv'
<1> SUFFICES ASSUME TypeInv, EraseInv, Save PROVE EraseInv'
  OBVIOUS
<1>0. [Next]_vars
  BY DEF Next, Daemon
<1>1. /\ pc = "save" /\ pc' = "write" /\ UNCHANGED <<bmc, logged, fate>>
      /\ last'.info = now.info /\ last'.id = now.id /\ file' = Uninitialized /\ Info' = Info
  BY DEF Save, history, TypeInv, PollOK, States, Info, bmc
<1>2. /\ Older(now.info, Info) /\ now.id <= arrived /\ Settled(now.id, logged, fate)
      /\ Settled(now.info.added, logged, fate) /\ Info.added = arrived
  BY <1>1, InfoIn DEF EraseInv, ReadInfo, Open, Done, TypeInv
<1>3. Saved(last', Info', logged', fate')
  BY <1>1, <1>2 DEF Saved
<1> QED BY <1>0, <1>1, <1>3, EraseClosed DEF Open

LEMMA EraseRequestFails == TypeInv /\ EraseInv /\ RequestFails => EraseInv'
<1> SUFFICES ASSUME TypeInv, EraseInv, RequestFails PROVE EraseInv'
  OBVIOUS
<1>0. [Next]_vars
  BY DEF Next
<1>1. /\ pc' \in AfterFailure(pc)
      /\ UNCHANGED <<bmc, last, now, file, flags, cursor, logged, fate>>
  BY DEF RequestFails, poll
<1>2. \/ pc' = "idle"
      \/ pc = "reserve" /\ flags.log /\ pc' = "log"
      \/ pc = "reserve" /\ ~ flags.log /\ pc' = "clear"
      \/ pc \in {"clear", "reinfo"} /\ pc' = "save"
  BY <1>1 DEF AfterFailure, AfterReserve
<1>3. CASE pc' = "idle"
  BY <1>0, <1>1, <1>3, EraseClosed DEF Open
<1>4. CASE pc = "reserve" /\ flags.log /\ pc' = "log"
  <2>1. Saved(last', Info', logged', fate') /\ Saved(file', Info', logged', fate')
    BY <1>0, <1>1, StillSaved
  <2>2. ReadInfo'
    BY <1>0, <1>1, <1>4, ReadKept DEF Open
  <2>3. Passed' /\ Done'
    BY <1>1, <1>4 DEF EraseInv, Passed, ToLog, Done
  <2>4. Raced'
    BY <1>4 DEF Raced, LastRead
  <2> QED BY <1>0, <2>1, <2>2, <2>3, <2>4, EraseParts
<1>5. CASE \/ pc = "reserve" /\ ~ flags.log /\ pc' = "clear"
           \/ pc \in {"clear", "reinfo"} /\ pc' = "save"
  <2>1. Settled(now.info.added, logged, fate) /\ flags.clear /\ LastRead
    BY <1>5 DEF EraseInv, Done, LastRead
  <2> QED BY <1>0, <1>1, <1>5, <2>1, EraseClearing DEF Open, bmc
<1> QED BY <1>2, <1>3, <1>4, <1>5

LEMMA EraseStep == TypeInv /\ EraseInv /\ [Next]_vars => EraseInv'
<1> SUFFICES ASSUME TypeInv, EraseInv, [Next]_vars PROVE EraseInv'
  OBVIOUS
<1>1. CASE Daemon
  BY <1>1, EraseStart, EraseInitLast, EraseInitInfo, EraseGetInfo, EraseCheck, EraseReserve,
     EraseLogEntry, EraseLogMissing, EraseClear, EraseReinfo, EraseSave DEF Daemon
<1>2. CASE UNCHANGED vars
  <2>1. UNCHANGED <<pc, now, last, file, flags, cursor, arrived>>
    BY <1>2 DEF vars, bmc, poll
  <2>2. Raced'
    BY <2>1, RacedKept DEF LastRead
  <2> QED BY <2>1, <2>2, AroundParts
<1> QED BY <1>1, <1>2, EraseArrive, EraseOutsideClear, EraseRequestFails, EraseClear,
           EraseStart DEF Next

LEMMA SelInit ==
  ASSUME \A a \in Args : ~ a.restarts
  PROVE  Init => TypeInv /\ EraseInv
<1> SUFFICES ASSUME Init PROVE TypeInv /\ EraseInv
  OBVIOUS
<1>1. BmcOK
  <2>1. /\ sel = <<>> /\ nextId = 1 /\ arrived = 0 /\ erases = 0 /\ others = 0 /\ gone = {}
    BY DEF Init
  <2>0. Len(sel) = 0 /\ sel \in Seq(Records)
    BY <2>1
  <2>2. Len(sel) = 0 /\ sel \in Seq(Records) /\ Lost = 0
    BY <2>0, <2>1 DEF Lost
  <2> QED BY <2>1, <2>2, SelAssumption DEF BmcOK, Numbered
<1>2. PollOK
  <2>1. /\ res = "none" /\ pc = "idle" /\ clearDone = FALSE
        /\ last = Uninitialized /\ now = Uninitialized /\ file = Uninitialized
        /\ flags = NoFlags /\ tries = 0 /\ start = 0 /\ cursor = 0 /\ parsed = FALSE
    BY DEF Init
  <2>2. args \in AllArgs /\ ~ args.restarts
    BY SelAssumption DEF Init
  <2>3. 0 \in 0..RetryMax /\ 0 \in 0..MaxEvents /\ 0 \in 0..LastEntry
    BY SelAssumption DEF LastEntry
  <2> QED BY <2>1, <2>2, <2>3, StateType DEF PollOK, Loading, Comparing
<1>3. HistoryOK
  BY DEF Init, HistoryOK, Fates
<1>4. TypeInv
  BY <1>1, <1>2, <1>3 DEF TypeInv
<1>5. EraseInv
  <2>1. Lost = 0 /\ Info.added = 0
    <3>1. arrived = 0 /\ sel = <<>>
      BY DEF Init
    <3>2. Lost = arrived
      BY <1>1, <3>1, SelEvents
    <3> QED BY <3>1, <3>2 DEF Info
  <2>2. Settled(Lost, logged, fate)
    BY <2>1, WantedEvents, SelAssumption DEF Settled, Events
  <2>3. Saved(Uninitialized, Info, logged, fate)
    BY <2>1 DEF Saved, Uninitialized
  <2> QED BY <2>2, <2>3 DEF Init, EraseInv, ReadInfo, Open, Passed, ToLog, Done, Raced, LastRead,
                              CacheOK, Uninitialized
<1> QED BY <1>4, <1>5

-----------------------------------------------------------------------------
(* RepeatsBounded: what a poll may still write. *)

\* What excuses a repeated line.
Trouble == faults + cancels + others

\* The events of the SEL, from lo + 1 to hi, that come after the n-th have had at
\* most t lines: one more does not exceed the bound.
Room(n, lo, hi, lines, t) ==
  \A e \in Events : lo < e /\ e <= hi /\ e > n => lines[e] <= t

Roomy(n) == Room(n, Lost, arrived, logged, Trouble)
Calm == \A e \in Events : logged[e] <= Trouble

\* A poll that goes on from this state repeats nothing beyond the bound.
Resumable(id, info) == Roomy(id) /\ (info.erased # erases => Roomy(0))

\* The bound itself; an event that has not happened has no line.
Counted ==
  \A e \in Events : logged[e] <= Trouble + 1 /\ (e > arrived => logged[e] = 0)

\* The state the next poll goes on from.  Without one nothing was written since the
\* crash (or the start), which counts as trouble.
Compared ==
  /\ ~ last.initialized => Calm
  /\ last.initialized /\ pc \notin Open \ {"check"} => Resumable(last.id, last.info)

\* What came after the poll read the SEL's state has at most the line that this
\* poll writes, and another client, not this poll, has cleared the SEL since.
Fresh ==
  pc \in {"check", "reserve", "log"} =>
    /\ now.info.erased # erases => others >= 1
    /\ \A e \in Events : e > now.info.added =>
         /\ logged[e] <= 1
         /\ pc # "log" \/ e > now.id => logged[e] = 0

\* The state this poll will save, when it does.
Going ==
  /\ pc \in {"reserve", "log"} => Roomy(now.id)
  /\ pc \in {"clear", "reinfo", "save"} => Resumable(now.id, now.info)
  /\ pc = "reinfo" => Roomy(0)

\* The parse moves forward from the last record it wrote a line for; when the next
\* record is not there, someone has cleared the SEL.
Walk ==
  ToLog =>
    /\ cursor >= now.id
    /\ parsed /\ now.info.erased = erases => Lost < cursor /\ cursor <= arrived
    /\ ~ parsed /\ start = 0 => cursor = 0

RepeatInv == Counted /\ Compared /\ Fresh /\ Going /\ Walk

LEMMA Numbers ==
  ASSUME TypeInv
  PROVE  /\ Trouble \in Nat /\ faults \in Nat /\ cancels \in Nat /\ others \in Nat
         /\ arrived \in Nat /\ Lost \in 0..arrived /\ erases \in Nat
         /\ \A e \in Events : e \in Nat /\ e > 0 /\ logged[e] \in Nat
         /\ now.id \in Nat /\ last.id \in Nat /\ cursor \in Nat
         /\ now.info \in InfoSet /\ last.info \in InfoSet
         /\ now.info.added \in Nat /\ now.info.erased \in Nat /\ now.info.entries \in Nat
<1>1. /\ faults \in Nat /\ cancels \in Nat /\ others \in Nat /\ arrived \in Nat /\ erases \in Nat
      /\ \A e \in Events : e \in Nat /\ e > 0 /\ logged[e] \in Nat
      /\ cursor \in Nat
  BY SelAssumption DEF TypeInv, BmcOK, HistoryOK, PollOK, LastEntry, Events
<1>2. Lost \in 0..arrived
  BY SelEvents DEF TypeInv
<1>3. /\ now.id \in Nat /\ last.id \in Nat /\ now.info \in InfoSet /\ last.info \in InfoSet
      /\ now.info.added \in Nat /\ now.info.erased \in Nat /\ now.info.entries \in Nat
  BY InfoParts DEF TypeInv, PollOK
<1> QED BY <1>1, <1>2, <1>3 DEF Trouble

\* While the poll is open, the events of a SEL that was cleared since are new.
LEMMA SinceRead ==
  ASSUME TypeInv, EraseInv, pc \in Open
  PROVE  /\ now.info.added <= arrived /\ now.info.erased <= erases
         /\ now.info.erased # erases => now.info.added <= Lost
<1>1. Older(now.info, Info)
  BY DEF EraseInv, ReadInfo
<1>2. Info.added = arrived /\ Info.erased = erases /\ Info.added - Info.entries = Lost
  BY InfoIn DEF TypeInv
<1> QED BY <1>1, <1>2 DEF Older

LEMMA FreshRoom ==
  ASSUME TypeInv, EraseInv, Fresh, pc \in {"check", "reserve", "log"},
         now.info.erased # erases
  PROVE  Roomy(0)
<1>1. others >= 1 /\ \A e \in Events : e > now.info.added => logged[e] <= 1
  BY DEF Fresh
<1>2. now.info.added <= Lost
  BY SinceRead DEF Open
<1>3. Trouble >= 1
  BY <1>1, Numbers DEF Trouble
<1> SUFFICES ASSUME NEW e \in Events, Lost < e PROVE logged[e] <= Trouble
  BY DEF Roomy, Room
<1>4. e > now.info.added
  BY <1>2, Numbers
<1>5. logged[e] <= 1
  BY <1>1, <1>4
<1> QED BY <1>3, <1>5, Numbers

LEMMA RoomLess ==
  ASSUME NEW n \in Nat, Roomy(0) PROVE Roomy(n)
BY SelAssumption DEF Roomy, Room, Events

LEMMA CalmRoom == \A n : Calm => Roomy(n)
BY DEF Calm, Roomy, Room

\* After a step that counts, every event has had at most as many lines.
LEMMA TroubleCalm ==
  ASSUME TypeInv, RepeatInv, [Next]_vars, UNCHANGED logged, Trouble' = Trouble + 1,
         Fresh', Walk'
  PROVE  RepeatInv'
<1>1. Calm'
  BY DEF RepeatInv, Counted, Calm
<1>2. Counted'
  <2>1. arrived' >= arrived /\ arrived \in Nat /\ arrived' \in Nat
    BY ArrivedGrows, TypeStep, SelAssumption DEF TypeInv, BmcOK
  <2>2. Trouble \in Nat /\ \A e \in Events : e \in Nat /\ logged[e] \in Nat
    BY Numbers
  <2> QED BY <2>1, <2>2 DEF RepeatInv, Counted
<1>3. (\A n : Roomy(n))'
  BY <1>1 DEF Calm, Roomy, Room
<1>4. Compared' /\ Going'
  BY <1>1, <1>3 DEF Compared, Going, Resumable, Calm, Roomy
<1> QED BY <1>2, <1>4 DEF RepeatInv

LEMMA RepeatOutsideClear == TypeInv /\ EraseInv /\ RepeatInv /\ OutsideClear => RepeatInv'
<1> SUFFICES ASSUME TypeInv, EraseInv, RepeatInv, OutsideClear PROVE RepeatInv'
  OBVIOUS
<1>0. [Next]_vars
  BY DEF Next
<1>1. /\ others' = others + 1 /\ UNCHANGED <<pc, now, logged, faults, cancels, flags, cursor,
                                             start, parsed>>
      /\ erases' = erases + 1
  BY DEF OutsideClear, poll, Erase
<1>2. Trouble' = Trouble + 1
  BY <1>1, Numbers DEF Trouble
<1>3. Fresh'
  <2>1. others' >= 1
    BY <1>1, Numbers
  <2> QED BY <1>1, <2>1 DEF RepeatInv, Fresh
<1>4. Walk'
  <2>1. pc \in {"reserve", "log"} => now.info.erased <= erases
    BY SinceRead DEF Open
  <2>2. pc \in {"reserve", "log"} => now'.info.erased # erases'
    BY <1>1, <2>1, Numbers
  <2> QED BY <1>1, <2>2 DEF RepeatInv, Walk, ToLog
<1> QED BY <1>0, <1>1, <1>2, <1>3, <1>4, TroubleCalm

LEMMA RepeatFails ==
  TypeInv /\ EraseInv /\ RepeatInv
    /\ (RequestFails \/ ClearUnanswered \/ WriteFails \/ Crash \/ ClearCanceled)
    => RepeatInv'
<1> SUFFICES ASSUME TypeInv, EraseInv, RepeatInv,
                    RequestFails \/ ClearUnanswered \/ WriteFails \/ Crash \/ ClearCanceled
             PROVE  RepeatInv'
  OBVIOUS
<1>0. [Next]_vars
  BY DEF Next, Daemon
<1>1. UNCHANGED <<logged, others>> /\ faults' + cancels' = faults + cancels + 1
  <2>1. /\ UNCHANGED <<logged, others>>
        /\ \/ faults' = faults + 1 /\ cancels' = cancels
           \/ faults' = faults /\ cancels' = cancels + 1
    BY DEF RequestFails, ClearUnanswered, WriteFails, Crash, ClearCanceled, Fault, bmc
  <2> QED BY <2>1, Numbers
<1>2. Trouble' = Trouble + 1
  BY <1>0, <1>1, Numbers, TypeStep DEF Trouble, TypeInv, HistoryOK, BmcOK
<1>3. pc' = "log" => /\ pc = "reserve" /\ flags.log
                     /\ UNCHANGED <<bmc, now, cursor, start, parsed>>
  BY DEF RequestFails, ClearUnanswered, WriteFails, Crash, ClearCanceled, AfterFailure,
         AfterReserve, Return, Refused, poll
<1>4. pc' \notin {"check", "reserve"}
  BY DEF RequestFails, ClearUnanswered, WriteFails, Crash, ClearCanceled, AfterFailure,
         AfterReserve, Return, Refused
<1>5. Fresh'
  BY <1>1, <1>3, <1>4 DEF RepeatInv, Fresh, bmc
<1>6. Walk'
  BY <1>3, <1>4 DEF RepeatInv, Walk, ToLog, bmc, Lost
<1> QED BY <1>0, <1>1, <1>2, <1>5, <1>6, TroubleCalm

LEMMA RepeatArrive == TypeInv /\ EraseInv /\ RepeatInv /\ Arrive => RepeatInv'
<1> SUFFICES ASSUME TypeInv, EraseInv, RepeatInv, Arrive PROVE RepeatInv'
  OBVIOUS
<1>1. /\ UNCHANGED <<pc, now, last, flags, cursor, start, parsed, logged, others, faults, cancels>>
      /\ arrived' = arrived + 1 /\ Lost' = Lost /\ erases' = erases
  BY ArriveBmc DEF Arrive, poll, TypeInv
<1>2. Trouble' = Trouble /\ Trouble \in Nat /\ arrived \in Nat
  BY <1>1, Numbers DEF Trouble
<1>3. Counted'
  BY <1>1, <1>2, Numbers DEF RepeatInv, Counted
<1>4. ASSUME NEW n, Roomy(n) PROVE Room(n, Lost', arrived', logged', Trouble')
  <2> SUFFICES ASSUME NEW e \in Events, Lost < e, e <= arrived + 1, e > n
               PROVE  logged[e] <= Trouble
    BY <1>1, <1>2 DEF Room
  <2>1. CASE e <= arrived
    BY <1>4, <2>1 DEF Roomy, Room
  <2>2. CASE e > arrived
    <3>1. logged[e] = 0
      BY <2>2 DEF RepeatInv, Counted
    <3> QED BY <1>2, <3>1
  <2> QED BY <1>2, <2>1, <2>2, Numbers
<1>5. Compared'
  BY <1>1, <1>2, <1>4 DEF RepeatInv, Compared, Calm, Resumable, Roomy
<1>6. Fresh'
  BY <1>1 DEF RepeatInv, Fresh
<1>7. Going'
  BY <1>1, <1>4 DEF RepeatInv, Going, Resumable, Roomy
<1>8. Walk'
  BY <1>1, <1>2, Numbers DEF RepeatInv, Walk, ToLog
<1> QED BY <1>3, <1>5, <1>6, <1>7, <1>8 DEF RepeatInv

\* The daemon clears the SEL: nothing in it is left to repeat.
LEMMA RepeatClear == TypeInv /\ EraseInv /\ RepeatInv /\ (ClearFirst \/ Clear) => RepeatInv'
<1> SUFFICES ASSUME TypeInv, EraseInv, RepeatInv, ClearFirst \/ Clear PROVE RepeatInv'
  OBVIOUS
<1>1. /\ Erase /\ UNCHANGED <<last, logged, others, faults, cancels>> /\ others' \in Nat
      /\ \/ pc = "clearFirst" /\ pc' \in {"info", "load"}
         \/ pc = "clear" /\ pc' = "reinfo"
  BY DEF ClearFirst, Clear, TypeInv, BmcOK
<1>2. Lost' = arrived /\ arrived' = arrived /\ arrived \in Nat
  BY <1>1, EraseBmc, Numbers DEF TypeInv, PollOK
<1>3. \A n : Room(n, Lost', arrived', logged', Trouble')
  BY <1>2, SelAssumption DEF Room, Events
<1>4. Trouble' = Trouble
  BY <1>1 DEF Trouble
<1>5. Counted'
  BY <1>1, <1>2, <1>4 DEF RepeatInv, Counted
<1>6. Compared'
  BY <1>1, <1>3, <1>4 DEF RepeatInv, Compared, Calm, Resumable, Roomy
<1>7. Fresh' /\ Walk'
  BY <1>1 DEF Fresh, Walk, ToLog
<1>8. Going'
  BY <1>1, <1>3 DEF Going, Resumable, Roomy
<1> QED BY <1>5, <1>6, <1>7, <1>8 DEF RepeatInv

\* The steps that leave the SEL and syslog alone.
Still == UNCHANGED <<bmc, logged, faults, cancels>>

LEMMA StillParts ==
  ASSUME Still
  PROVE  /\ Lost' = Lost /\ arrived' = arrived /\ erases' = erases /\ others' = others
         /\ Trouble' = Trouble /\ logged' = logged /\ Info' = Info
         /\ \A n : Roomy(n) => Room(n, Lost', arrived', logged', Trouble')
BY DEF Still, bmc, Lost, Trouble, Info, Roomy, Room

LEMMA StillCounted == RepeatInv /\ Still => Counted'
BY StillParts DEF RepeatInv, Counted

LEMMA RepeatQuiet == TypeInv /\ EraseInv /\ RepeatInv /\ (StartPoll \/ Write) => RepeatInv'
<1> SUFFICES ASSUME TypeInv, EraseInv, RepeatInv, StartPoll \/ Write PROVE RepeatInv'
  OBVIOUS
<1>1. /\ Still /\ last' = last /\ pc \in {"idle", "write"} /\ pc' \notin Open
  BY DEF StartPoll, Write, Still, history, FirstStep, Return, Open
<1>2. Compared'
  BY <1>1, StillParts DEF RepeatInv, Compared, Calm, Resumable, Roomy, Open
<1>3. Fresh' /\ Walk' /\ Going'
  BY <1>1 DEF Fresh, Walk, ToLog, Going, Open
<1> QED BY <1>1, <1>2, <1>3, StillCounted DEF RepeatInv

\* The daemon has no state to go on from, and no line is written.
LEMMA RepeatFirst ==
  TypeInv /\ EraseInv /\ RepeatInv /\ (Load \/ InitLast \/ InitInfo) => RepeatInv'
<1> SUFFICES ASSUME TypeInv, EraseInv, RepeatInv, Load \/ InitLast \/ InitInfo PROVE RepeatInv'
  OBVIOUS
<1>1. /\ Still /\ pc \in Loading /\ pc' \notin Open
  BY DEF Load, InitLast, InitInfo, Still, history, Loading, Open
<1>2. Calm
  BY <1>1 DEF RepeatInv, Compared, TypeInv, PollOK
<1>3. \A n : Room(n, Lost', arrived', logged', Trouble')
  BY <1>1, <1>2, StillParts, CalmRoom
<1>4. Compared'
  BY <1>1, <1>2, <1>3, StillParts DEF Compared, Calm, Resumable, Roomy
<1>5. Fresh' /\ Walk' /\ Going'
  BY <1>1 DEF Fresh, Walk, ToLog, Going, Open
<1> QED BY <1>1, <1>4, <1>5, StillCounted DEF RepeatInv

LEMMA RepeatGetInfo == TypeInv /\ EraseInv /\ RepeatInv /\ GetInfo => RepeatInv'
<1> SUFFICES ASSUME TypeInv, EraseInv, RepeatInv, GetInfo PROVE RepeatInv'
  OBVIOUS
<1>1. /\ Still /\ pc = "info" /\ pc' = "check" /\ last' = last
      /\ now'.info = Info
  BY DEF GetInfo, Still, history, TypeInv, PollOK, States
<1>2. Compared'
  BY <1>1, StillParts DEF RepeatInv, Compared, Calm, Resumable, Roomy, Open
<1>3. Fresh'
  <2>1. now'.info.erased = erases' /\ now'.info.added = arrived
    BY <1>1, StillParts, InfoIn DEF TypeInv
  <2>2. \A e \in Events : e > arrived => logged'[e] = 0
    BY <1>1, StillParts DEF RepeatInv, Counted
  <2> QED BY <2>1, <2>2 DEF Fresh
<1>4. Walk' /\ Going'
  BY <1>1 DEF Walk, ToLog, Going
<1> QED BY <1>1, <1>2, <1>3, <1>4, StillCounted DEF RepeatInv

LEMMA RepeatCheck == TypeInv /\ EraseInv /\ RepeatInv /\ Check => RepeatInv'
<1> SUFFICES ASSUME TypeInv, EraseInv, RepeatInv, Check PROVE RepeatInv'
  OBVIOUS
<1> DEFINE c == CheckSelInfo(last, now.info, LastRecordId)
<1>1. /\ pc = "check" /\ pc' = AfterCheck(flags.clear, c.log)
      /\ now' = [now EXCEPT !.id = c.id]
      /\ cursor' = c.start /\ start' = c.start /\ parsed' = FALSE
      /\ flags' = [flags EXCEPT !.log = c.log]
      /\ last' = last /\ Still
  BY DEF Check, history, Still
<1>2. /\ c.id \in {0, last.id} /\ c.log \in BOOLEAN
      /\ c.log => c.start = c.id
      /\ c.id = last.id \/ now.info.erased # last.info.erased
  BY <1>1, CheckSettled
<1> HIDE DEF c
<1>3. /\ now'.id = c.id /\ now'.info = now.info /\ flags'.log = c.log
  BY <1>1 DEF TypeInv, PollOK, States, FlagSet
<1>4. Resumable(last.id, last.info) /\ last.initialized
  BY <1>1 DEF RepeatInv, Compared, TypeInv, PollOK, Comparing
<1>5. now.info.erased # last.info.erased \/ now.info.erased # erases => Roomy(0)
  <2>1. /\ Older(last.info, now.info) /\ now.info.erased <= erases
        /\ last.info.erased \in Nat
    BY <1>1, SinceRead, Numbers, InfoParts DEF EraseInv, ReadInfo, Open
  <2>2. now.info.erased # last.info.erased \/ now.info.erased # erases
          => last.info.erased # erases
    <3>1. last.info.erased <= now.info.erased
      BY <2>1 DEF Older
    <3>2. now.info.erased \in Nat /\ erases \in Nat
      BY Numbers
    <3> QED BY <2>1, <3>1, <3>2
  <2> QED BY <1>4, <2>2 DEF Resumable
<1>6. Roomy(c.id)
  <2>1. CASE c.id = last.id
    BY <1>4, <2>1 DEF Resumable
  <2>2. CASE c.id = 0 /\ now.info.erased # last.info.erased
    BY <1>5, <2>2
  <2> QED BY <1>2, <2>1, <2>2
<1>7. pc' \in {"reserve", "log", "save"} /\ (pc' = "log" => c.log)
  BY <1>1 DEF AfterCheck
<1>8. Compared'
  BY <1>1, <1>4, <1>7 DEF Compared, Open
<1>9. Fresh'
  BY <1>1, <1>3, StillParts DEF RepeatInv, Fresh
<1>10. Going'
  BY <1>1, <1>3, <1>5, <1>6, <1>7, StillParts DEF Going, Resumable, Roomy
<1>11. Walk'
  <2>1. ToLog' => c.log
    BY <1>3, <1>7 DEF ToLog
  <2>2. c.id \in Nat
    BY <1>2, Numbers
  <2> QED BY <1>1, <1>2, <1>3, <2>1, <2>2 DEF Walk
<1> QED BY <1>1, <1>8, <1>9, <1>10, <1>11, StillCounted DEF RepeatInv

LEMMA RepeatReserve == TypeInv /\ EraseInv /\ RepeatInv /\ Reserve => RepeatInv'
<1> SUFFICES ASSUME TypeInv, EraseInv, RepeatInv, Reserve PROVE RepeatInv'
  OBVIOUS
<1>1. /\ pc = "reserve" /\ pc' = IF flags.log THEN "log" ELSE "clear"
      /\ UNCHANGED <<now, last, cursor, start, parsed>> /\ Still
  BY DEF Reserve, history, Still, AfterReserve
<1>2. Compared'
  BY <1>1 DEF Compared, Open, TypeInv, PollOK, Comparing
<1>3. Fresh'
  BY <1>1, StillParts DEF RepeatInv, Fresh
<1>4. Roomy(now.id) /\ (now.info.erased # erases => Roomy(0))
  BY <1>1, FreshRoom DEF RepeatInv, Going
<1>5. Going'
  BY <1>1, <1>4, StillParts DEF Going, Resumable, Roomy
<1>6. Walk'
  BY <1>1, StillParts DEF RepeatInv, Walk, ToLog
<1> QED BY <1>1, <1>2, <1>3, <1>5, <1>6, StillCounted DEF RepeatInv

LEMMA RepeatLogMissing == TypeInv /\ EraseInv /\ RepeatInv /\ LogMissing => RepeatInv'
<1> SUFFICES ASSUME TypeInv, EraseInv, RepeatInv, LogMissing PROVE RepeatInv'
  OBVIOUS
<1>1. /\ pc = "log" /\ Found = {} /\ Still
      /\ UNCHANGED <<last, now, start, parsed>>
  BY DEF LogMissing, history, Still
<1>2. /\ Roomy(now.id) /\ cursor >= now.id /\ last.initialized
      /\ parsed /\ now.info.erased = erases => Lost < cursor /\ cursor <= arrived
      /\ ~ parsed /\ start = 0 => cursor = 0
  BY <1>1 DEF RepeatInv, Going, Walk, ToLog, TypeInv, PollOK, Comparing
<1>3. now.info.erased # erases => Roomy(0)
  BY <1>1, FreshRoom DEF RepeatInv
<1>4. \/ start # 0 /\ ~ parsed /\ Later # {} /\ cursor' = Min(Later) /\ pc' = pc
      \/ pc' \in {"clear", "save"}
      \/ cursor # 0 /\ (start = 0 \/ parsed) /\ pc' = "idle"
  BY DEF LogMissing, AfterLog
<1>5. CASE start # 0 /\ ~ parsed /\ Later # {} /\ cursor' = Min(Later) /\ pc' = pc
  <2>1. cursor' > cursor /\ cursor' \in Nat
    BY <1>5, LaterIds, Numbers DEF TypeInv, PollOK
  <2>2. Compared' /\ Going'
    BY <1>1, <1>2, <1>5, StillParts DEF Compared, Going, Open, Roomy
  <2>3. Fresh'
    BY <1>1, <1>5, StillParts DEF RepeatInv, Fresh
  <2>4. Walk'
    BY <1>1, <1>2, <1>5, <2>1, Numbers DEF Walk
  <2> QED BY <1>1, <2>2, <2>3, <2>4, StillCounted DEF RepeatInv
<1>6. CASE pc' \in {"clear", "save"}
  <2>1. Compared' /\ Fresh' /\ Walk'
    BY <1>1, <1>2, <1>6 DEF Compared, Open, Fresh, Walk, ToLog
  <2>2. Going'
    BY <1>1, <1>2, <1>3, <1>6, StillParts DEF Going, Resumable, Roomy
  <2> QED BY <1>1, <2>1, <2>2, StillCounted DEF RepeatInv
<1>7. CASE cursor # 0 /\ (start = 0 \/ parsed) /\ pc' = "idle"
  <2>1. parsed
    BY <1>2, <1>7 DEF TypeInv, PollOK
  <2>2. cursor <= Lost \/ cursor > arrived
    BY <1>1, <1>7, NotFound
  <2>3. Roomy(0)
    BY <1>2, <1>3, <2>1, <2>2, Numbers
  <2>4. Roomy(last.id)
    BY <2>3, RoomLess, Numbers
  <2>5. Compared'
    BY <1>1, <1>2, <2>3, <2>4, StillParts DEF Compared, Resumable, Roomy
  <2>6. Fresh' /\ Walk' /\ Going'
    BY <1>7 DEF Fresh, Walk, ToLog, Going
  <2> QED BY <1>1, <2>5, <2>6, StillCounted DEF RepeatInv
<1> QED BY <1>4, <1>5, <1>6, <1>7

LEMMA RepeatLogEntry == TypeInv /\ EraseInv /\ RepeatInv /\ LogEntry => RepeatInv'
<1> SUFFICES ASSUME TypeInv, EraseInv, RepeatInv, LogEntry PROVE RepeatInv'
  OBVIOUS
<1>1. PICK k \in Found :
       /\ IF Logs(sel[k])
            THEN /\ logged' = [logged EXCEPT ![sel[k].ev] = @ + 1]
                 /\ now' = [now EXCEPT !.id = sel[k].id]
            ELSE UNCHANGED <<logged, now>>
       /\ cursor' = NextEntry(k)
       /\ pc' = IF k = Len(sel) THEN AfterLog ELSE pc
  BY DEF LogEntry
<1>2. /\ pc = "log" /\ parsed' = TRUE /\ UNCHANGED <<bmc, last, faults, cancels>>
  BY DEF LogEntry
<1> DEFINE r == Lost + k
<1>3. /\ k \in 1..Len(sel) /\ sel[k].id = r /\ sel[k].ev = r /\ r \in Events
      /\ cursor # 0 => cursor = r
      /\ k # Len(sel) => NextEntry(k) = r + 1
      /\ k = Len(sel) <=> r = arrived
  BY FoundRecord DEF TypeInv, PollOK
<1>4. /\ Lost' = Lost /\ arrived' = arrived /\ erases' = erases /\ others' = others
      /\ Trouble' = Trouble
  BY <1>2 DEF bmc, Lost, Trouble
<1>5. /\ arrived \in Nat /\ Lost \in 0..arrived /\ r \in Nat /\ Lost < r /\ r <= arrived
      /\ Trouble \in Nat /\ logged \in [Events -> Nat] /\ now.id \in Nat /\ cursor \in Nat
      /\ \A e \in Events : e \in Nat /\ logged[e] \in Nat
  <2>1. Len(sel) \in Nat /\ Lost = arrived - Len(sel)
    BY SelEvents DEF TypeInv, Lost
  <2>2. Lost \in 0..arrived /\ arrived \in Nat
    BY Numbers
  <2>3. r \in Nat /\ Lost < r /\ r <= arrived
    BY <1>3, <2>1, <2>2
  <2>4. logged \in [Events -> Nat]
    BY DEF TypeInv, HistoryOK
  <2> HIDE DEF r
  <2> QED BY <2>3, <2>4, Numbers
<1> HIDE DEF r
<1>6. /\ Roomy(now.id) /\ cursor >= now.id /\ last.initialized
      /\ \A e \in Events : logged[e] <= Trouble + 1 /\ (e > arrived => logged[e] = 0)
  BY <1>2 DEF RepeatInv, Going, Walk, ToLog, Counted, TypeInv, PollOK, Comparing
<1>7. /\ now.info.erased # erases => others >= 1
      /\ \A e \in Events : e > now.info.added =>
           logged[e] <= 1 /\ (e > now.id => logged[e] = 0)
  BY <1>2 DEF RepeatInv, Fresh
<1>8. /\ now'.info = now.info /\ now'.id \in {now.id, r} /\ now'.id <= r
      /\ \A e \in Events : logged'[e] = IF e = r /\ now'.id = r /\ now.id # r
                                        THEN logged[e] + 1 ELSE logged[e]
      /\ now.id <= r
  <2>0. now.id <= r
    BY <1>3, <1>5, <1>6
  <2>1. CASE Logs(sel[k])
    <3>1. now'.info = now.info /\ now'.id = r
      BY <1>1, <1>3, <2>1 DEF TypeInv, PollOK, States
    <3>2. now.id # r
      BY <1>3, <2>1 DEF Logs
    <3>3. \A e \in Events : logged'[e] = IF e = r THEN logged[e] + 1 ELSE logged[e]
      BY <1>1, <1>3, <1>5, <2>1
    <3> QED BY <1>5, <2>0, <3>1, <3>2, <3>3
  <2>2. CASE ~ Logs(sel[k])
    <3>1. now' = now /\ logged' = logged
      BY <1>1, <2>2
    <3> QED BY <2>0, <3>1
  <2> QED BY <2>1, <2>2
<1>9. logged[r] <= Trouble \/ now.id = r
  <2>1. now.id # r => r > now.id
    BY <1>5, <1>8
  <2> QED BY <1>3, <1>5, <1>6, <2>1 DEF Roomy, Room
<1>10. Counted'
  <2>1. ASSUME NEW e \in Events PROVE logged'[e] <= Trouble + 1 /\ (e > arrived => logged'[e] = 0)
    BY <1>5, <1>6, <1>8, <1>9
  <2> QED BY <1>4, <2>1 DEF Counted
<1>11. Room(now'.id, Lost, arrived, logged', Trouble)
  <2> SUFFICES ASSUME NEW e \in Events, Lost < e, e <= arrived, e > now'.id
               PROVE  logged'[e] <= Trouble
    BY DEF Room
  <2>1. e > now.id /\ logged'[e] = logged[e]
    BY <1>5, <1>8
  <2> QED BY <1>6, <2>1 DEF Roomy, Room
<1>12. \A e \in Events : e > now.info.added =>
           logged'[e] <= 1 /\ (e > now'.id => logged'[e] = 0)
  <2> SUFFICES ASSUME NEW e \in Events, e > now.info.added
               PROVE  logged'[e] <= 1 /\ (e > now'.id => logged'[e] = 0)
    OBVIOUS
  <2>1. logged[e] <= 1 /\ (e > now.id => logged[e] = 0)
    BY <1>7
  <2>2. e > now'.id => e > now.id /\ logged'[e] = logged[e]
    BY <1>5, <1>8
  <2>3. e = r /\ now'.id = r /\ now.id # r => logged[e] = 0
    BY <1>5, <1>8, <2>1
  <2> QED BY <1>5, <1>8, <2>1, <2>2, <2>3
<1>13. now.info.erased # erases => Room(0, Lost, arrived, logged', Trouble)
  <2> SUFFICES ASSUME now.info.erased # erases, NEW e \in Events, Lost < e
               PROVE  logged'[e] <= Trouble
    BY DEF Room
  <2>1. Trouble >= 1
    BY <1>7, Numbers DEF Trouble
  <2>2. now.info.added <= Lost
    BY <1>2, SinceRead DEF Open
  <2>3. e > now.info.added
    BY <1>5, <2>2, Numbers
  <2>4. logged'[e] <= 1 /\ logged'[e] \in Nat
    BY <1>5, <1>8, <1>12, <2>3
  <2> QED BY <1>5, <2>1, <2>4
<1>14. CASE k = Len(sel)
  <2>1. pc' \in {"clear", "save"}
    BY <1>1, <1>14 DEF AfterLog
  <2>2. Compared' /\ Fresh' /\ Walk'
    BY <1>2, <1>6, <2>1 DEF Compared, Open, Fresh, Walk, ToLog
  <2>3. Going'
    BY <1>4, <1>8, <1>11, <1>13, <2>1 DEF Going, Resumable, Roomy
  <2> QED BY <1>10, <2>2, <2>3 DEF RepeatInv
<1>15. CASE k # Len(sel)
  <2>1. pc' = "log" /\ cursor' = r + 1 /\ r < arrived
    BY <1>1, <1>2, <1>3, <1>5, <1>15
  <2>2. Compared'
    BY <1>2, <1>6, <2>1 DEF Compared, Open
  <2>3. Fresh'
    BY <1>4, <1>7, <1>8, <1>12, <2>1 DEF Fresh
  <2>4. Going'
    BY <1>4, <1>11, <2>1 DEF Going, Roomy
  <2>5. Walk'
    <3>1. cursor' >= now'.id /\ Lost < cursor' /\ cursor' <= arrived
      BY <1>5, <1>8, <2>1
    <3> QED BY <1>2, <1>4, <3>1 DEF Walk
  <2> QED BY <1>10, <2>2, <2>3, <2>4, <2>5 DEF RepeatInv
<1> QED BY <1>14, <1>15

LEMMA RepeatReinfo == TypeInv /\ EraseInv /\ RepeatInv /\ Reinfo => RepeatInv'
<1> SUFFICES ASSUME TypeInv, EraseInv, RepeatInv, Reinfo PROVE RepeatInv'
  OBVIOUS
<1>1. /\ Still /\ pc = "reinfo" /\ pc' = "save" /\ last' = last
      /\ now'.info = Info /\ now'.id = 0
  BY DEF Reinfo, history, Still, TypeInv, PollOK, States
<1>2. Roomy(0) /\ last.initialized
  BY <1>1 DEF RepeatInv, Going, TypeInv, PollOK, Comparing
<1>3. Compared' /\ Fresh' /\ Walk'
  BY <1>1, <1>2 DEF Compared, Open, Fresh, Walk, ToLog
<1>4. Going'
  BY <1>1, <1>2, StillParts DEF Going, Resumable, Roomy
<1> QED BY <1>1, <1>3, <1>4, StillCounted DEF RepeatInv

LEMMA RepeatSave == TypeInv /\ EraseInv /\ RepeatInv /\ Save => RepeatInv'
<1> SUFFICES ASSUME TypeInv, EraseInv, RepeatInv, Save PROVE RepeatInv'
  OBVIOUS
<1>1. /\ Still /\ pc = "save" /\ pc' = "write"
      /\ last'.info = now.info /\ last'.id = now.id /\ last'.initialized
  BY DEF Save, history, Still, TypeInv, PollOK, States
<1>2. Resumable(now.id, now.info)
  BY <1>1 DEF RepeatInv, Going
<1>3. Compared'
  BY <1>1, <1>2, StillParts DEF Compared, Resumable, Roomy
<1>4. Fresh' /\ Walk' /\ Going'
  BY <1>1 DEF Fresh, Walk, ToLog, Going
<1> QED BY <1>1, <1>3, <1>4, StillCounted DEF RepeatInv

LEMMA RepeatStep == TypeInv /\ EraseInv /\ RepeatInv /\ [Next]_vars => RepeatInv'
<1> SUFFICES ASSUME TypeInv, EraseInv, RepeatInv, [Next]_vars PROVE RepeatInv'
  OBVIOUS
<1>1. CASE Daemon
  BY <1>1, RepeatQuiet, RepeatFirst, RepeatGetInfo, RepeatCheck, RepeatReserve, RepeatLogEntry,
     RepeatLogMissing, RepeatClear, RepeatFails, RepeatReinfo, RepeatSave DEF Daemon
<1>2. CASE UNCHANGED vars
  <2>1. Still /\ UNCHANGED <<pc, now, last, flags, cursor, start, parsed>>
    BY <1>2 DEF vars, poll, history, Still
  <2>2. Compared'
    BY <2>1, StillParts DEF RepeatInv, Compared, Calm, Resumable, Roomy
  <2>3. Fresh' /\ Walk'
    BY <2>1, StillParts DEF RepeatInv, Fresh, Walk, ToLog
  <2>4. Going'
    BY <2>1, StillParts DEF RepeatInv, Going, Resumable, Roomy
  <2> QED BY <2>1, <2>2, <2>3, <2>4, StillCounted DEF RepeatInv
<1> QED BY <1>1, <1>2, RepeatArrive, RepeatOutsideClear, RepeatFails DEF Next

LEMMA RepeatInit == Init => RepeatInv
<1> SUFFICES ASSUME Init PROVE RepeatInv
  OBVIOUS
<1>1. /\ arrived = 0 /\ pc = "idle" /\ ~ last.initialized /\ Trouble = 0
      /\ logged = [e \in Events |-> 0]
  BY DEF Init, Trouble, Uninitialized
<1> QED BY <1>1 DEF RepeatInv, Counted, Compared, Calm, Fresh, Going, Walk, ToLog

-----------------------------------------------------------------------------
\* The inductive invariant of the polls of one host, for every size of the SEL,
\* every number of events, every set of options of the daemon and every kind of
\* BMC whose record ids do not restart when its SEL is cleared.
THEOREM SelInvariant ==
  ASSUME \A a \in Args : ~ a.restarts
  PROVE  Spec => [](TypeInv /\ EraseInv /\ RepeatInv)
<1>1. Init => TypeInv /\ EraseInv /\ RepeatInv
  BY SelInit, RepeatInit
<1>2. TypeInv /\ EraseInv /\ RepeatInv /\ [Next]_vars => (TypeInv /\ EraseInv /\ RepeatInv)'
  BY TypeStep, EraseStep, RepeatStep
<1> QED BY <1>1, <1>2, PTL DEF Spec

\* The state of a poll stays in its types, and a poll compares the SEL with a state
\* that was saved whole or read from the BMC: never with what is left of a cache
\* file that a crash cut short (ipmiseld_data_cache_load).
THEOREM SelTypeCorrect ==
  ASSUME \A a \in Args : ~ a.restarts
  PROVE  Spec => []TypeOK
<1>1. TypeInv => TypeOK
  <2> SUFFICES ASSUME TypeInv PROVE TypeOK
    OBVIOUS
  <2>1. /\ Len(sel) <= SelSize /\ \A k \in DOMAIN sel : sel[k] \in [id: 1..MaxEvents, ev: Events]
    <3>1. \A k \in DOMAIN sel : sel[k] \in Records
      BY SelEvents DEF TypeInv, BmcOK
    <3> QED BY <3>1 DEF TypeInv, BmcOK, Records
  <2>2. /\ nextId \in 1..MaxEvents + 1 /\ arrived \in 0..MaxEvents
        /\ {erases, others, faults, cancels} \subseteq Nat
    BY SelAssumption DEF TypeInv, BmcOK, Numbered, HistoryOK
  <2>3. gone \subseteq Events
    <3>1. gone = 1..Lost /\ Lost \in 0..arrived /\ arrived \in 0..MaxEvents /\ MaxEvents \in Nat
      BY SelEvents, SelAssumption DEF TypeInv, BmcOK, Numbered
    <3> QED BY <3>1 DEF Events
  <2>4. /\ res \in {"none", "held", "canceled"}
        /\ pc \in {"idle", "clearFirst", "load", "initLast", "initInfo", "info",
                   "check", "reserve", "log", "clear", "reinfo", "save", "write"}
        /\ {last, now, file} \subseteq States
        /\ pc \in {"info", "check", "reserve", "log", "clear", "reinfo", "save", "write"}
             => last.initialized
    BY DEF TypeInv, PollOK, Loading, Comparing
  <2>5. /\ clearDone \in BOOLEAN /\ parsed \in BOOLEAN
        /\ flags \in [clear: BOOLEAN, log: BOOLEAN, reserve: BOOLEAN, retry: BOOLEAN]
        /\ tries \in 0..RetryMax /\ start \in 0..MaxEvents /\ cursor \in 0..LastEntry
    BY DEF TypeInv, PollOK, FlagSet
  <2> QED BY <2>1, <2>2, <2>3, <2>4, <2>5 DEF TypeOK, TypeInv, HistoryOK
<1> QED BY <1>1, SelInvariant, PTL

\* The clear at the end of ipmiseld_sel_parse_log() erases no event that is owed a
\* line in syslog, whatever fails, crashes, arrives or is cleared by others between
\* any two requests of the poll and of the polls before it.
THEOREM SelErasedLogged ==
  ASSUME \A a \in Args : ~ a.restarts
  PROVE  Spec => []ErasedLogged
<1>1. TypeInv /\ EraseInv => ErasedLogged
  BY SelEvents, SelAssumption, WantedEvents
     DEF TypeInv, BmcOK, Numbered, EraseInv, Settled, ErasedLogged, LoggedFirst
<1> QED BY <1>1, SelInvariant, PTL

\* _sel_parse_callback() writes the line of an event at most once more than there
\* were failures, crashes, refused clears and clears by other clients.
THEOREM SelRepeatsBounded ==
  ASSUME \A a \in Args : ~ a.restarts
  PROVE  Spec => []RepeatsBounded
<1>1. TypeInv /\ RepeatInv => RepeatsBounded
  <2> SUFFICES ASSUME TypeInv, RepeatInv, NEW e \in Events
               PROVE  logged[e] <= 1 + faults + cancels + others
    BY DEF RepeatsBounded
  <2>1. logged[e] <= Trouble + 1
    BY DEF RepeatInv, Counted
  <2> QED BY <2>1, Numbers DEF Trouble
<1> QED BY <1>1, SelInvariant, PTL
================================================================================
