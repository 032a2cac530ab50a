----------------------------- MODULE SelThreadPool -----------------------------
(***************************************************************************)
(* ipmiseld: the main loop and its pool of threads.  Every host waits in a *)
(* heap ordered by the time of its next poll; the main thread takes the    *)
(* next one, puts it on the pool's queue and sleeps until another is due;  *)
(* a worker takes it from the queue, polls it (SelDaemon) and puts it back *)
(* in the heap (ipmiseld.c, ipmiseld-threadpool.c).  At a signal the main  *)
(* thread stops the pool and frees what it used.                           *)
(*                                                                         *)
(* A step is what a thread does between two points at which another can    *)
(* see the difference: it takes a mutex, waits on or signals a condition,  *)
(* or reads a flag no mutex protects.  Sleeps are arbitrary delays: all    *)
(* polls are one interval apart, so the heap is first in, first out.       *)
(*                                                                         *)
(* Init, Next and the like are called PoolInit, PoolNext...: the proofs    *)
(* extend this module together with SelDaemon.                             *)
(***************************************************************************)
EXTENDS Integers, Sequences, SequencesExt, FiniteSets

CONSTANTS
  Hosts,       \* the hosts
  Threads,     \* threadpool_count threads, at most one for each host
  None,
  MaxFailures  \* bound: failures of list_enqueue() and pthread_create()

ASSUME PoolAssumption ==
  /\ IsFiniteSet(Hosts) /\ IsFiniteSet(Threads) /\ Threads # {}
  /\ Cardinality(Threads) <= Cardinality(Hosts)
  /\ None \notin Hosts \union Threads /\ MaxFailures \in Nat

VARIABLES
  heap,      \* host_data_heap, the next host to poll first
  queue,     \* threadpool_queue
  running,   \* the global exit_flag of ipmiseld.c, until a signal arrives
  main,      \* where the main thread stands
  hand,      \* the host it has taken from the heap
  thread,    \* where each worker stands, "new" before pthread_create()
  host,      \* the host it polls
  mutex,     \* the worker that holds threadpool_queue_lock, or None
  flag,      \* the threads' exit_flag
  len,       \* threadpool_data_array_len
  count,     \* threadpool_count
  signals,   \* signals to threadpool_queue_cond that destroy has still to send
  failures,  \* history: the failures so far
  late       \* history: the workers about to wait when destroy set their flag

poolVars == <<heap, queue, running, main, hand, thread, host, mutex, flag, len,
              count, signals, failures, late>>

Created == {w \in Threads : thread[w] # "new"}

Waiting == {w \in Threads : thread[w] = "wait"}

PoolInit ==
  /\ heap \in SetToSeqs(Hosts) /\ queue = <<>> /\ running = TRUE
  /\ main = "create" /\ hand = None
  /\ thread = [w \in Threads |-> "new"] /\ host = [w \in Threads |-> None]
  /\ mutex = None /\ flag = FALSE /\ len = 0 /\ count = 0 /\ signals = 0
  /\ failures = 0 /\ late = {}

SignalForgotten == UNCHANGED thread

\* pthread_cond_signal(&threadpool_queue_cond): a waiting thread, if there is
\* one, goes on to take the mutex again.
Signal ==
  IF Waiting = {} THEN UNCHANGED thread
  ELSE \E w \in Waiting : thread' = [thread EXCEPT ![w] = "lock"]

(***************************************************************************)
(* The main thread.                                                        *)
(***************************************************************************)
\* ipmiseld_threadpool_init(): a thread is created, and runs ...
Create(w) ==
  /\ main = "create" /\ thread[w] = "new"
  /\ thread' = [thread EXCEPT ![w] = "loop"] /\ main' = "count"
  /\ UNCHANGED <<heap, queue, running, hand, host, mutex, flag, len, count,
                 signals, failures, late>>

\* ... before it is counted, under threadpool_count_lock.  The last one
\* completes the pool.
CountThread ==
  /\ main = "count" /\ count' = count + 1
  /\ IF Created = Threads
       THEN main' = "loop" /\ len' = Cardinality(Threads)
       ELSE main' = "create" /\ UNCHANGED len
  /\ UNCHANGED <<heap, queue, running, hand, thread, host, mutex, flag,
                 signals, failures, late>>

\* pthread_create() fails: the length of the array is not set, and the caller
\* destroys the pool.
CreateFails ==
  /\ main = "create" /\ failures < MaxFailures
  /\ failures' = failures + 1 /\ main' = "destroy"
  /\ UNCHANGED <<heap, queue, running, hand, thread, host, mutex, flag, len,
                 count, signals, late>>

\* The top of the loop: heap_pop(), or a short sleep when the heap is empty.
Pop ==
  /\ main = "loop" /\ running
  /\ heap # <<>>
  /\ hand' = Head(heap) /\ heap' = Tail(heap) /\ main' = "queue"
  /\ UNCHANGED <<queue, running, thread, host, mutex, flag, len, count, signals,
                 failures, late>>

Quit ==
  /\ main = "loop" /\ ~running
  /\ main' = "destroy"
  /\ UNCHANGED <<heap, queue, running, hand, thread, host, mutex, flag, len,
                 count, signals, failures, late>>

Enqueue == queue' = Append(queue, hand) /\ hand' = None

\* ipmiseld_threadpool_queue(), then the sleep until the next host is due.
Queue ==
  /\ main = "queue" /\ mutex = None
  /\ Enqueue /\ Signal
  /\ main' = "loop"
  /\ UNCHANGED <<heap, running, host, mutex, flag, len, count, signals,
                 failures, late>>

\* list_enqueue() fails: the host goes back in the heap, its time unchanged.
QueueFails ==
  /\ main = "queue" /\ mutex = None /\ failures < MaxFailures
  /\ failures' = failures + 1
  /\ heap' = <<hand>> \o heap /\ hand' = None /\ main' = "loop"
  /\ UNCHANGED <<queue, running, thread, host, mutex, flag, len, count,
                 signals, late>>

SignalsToSendOne == IF len > 0 THEN 1 ELSE 0
SignalsToSend == len

\* ipmiseld_threadpool_destroy(), which holds threadpool_count_lock from here
\* until it waits: the flags of the len threads, a signal for each, the wait.
SetFlags ==
  /\ main = "destroy" /\ main' = "signal"
  /\ flag' = (len > 0) /\ signals' = SignalsToSend
  /\ late' = {w \in Threads : thread[w] = "checked"}
  /\ UNCHANGED <<heap, queue, running, hand, thread, host, mutex, len, count,
                 failures>>

SendSignal ==
  /\ main = "signal" /\ signals > 0
  /\ signals' = signals - 1 /\ Signal
  /\ UNCHANGED <<heap, queue, running, main, hand, host, mutex, flag, len,
                 count, failures, late>>

AfterWaitOnce == IF main = "signal" /\ count > 0 THEN "wait" ELSE "freed"

\* while (threadpool_count > 0) pthread_cond_wait(); then the threads' array,
\* the queue and the heap are freed.
AfterWait == IF count > 0 THEN "wait" ELSE "freed"

AwaitThreads ==
  /\ main = "woken" \/ (main = "signal" /\ signals = 0)
  /\ main' = AfterWait
  /\ UNCHANGED <<heap, queue, running, hand, thread, host, mutex, flag, len,
                 count, signals, failures, late>>

\* pthread_cond_wait(&threadpool_count_cond) may return without a signal.
MainWakeUp ==
  /\ main = "wait" /\ main' = "woken"
  /\ UNCHANGED <<heap, queue, running, hand, thread, host, mutex, flag, len,
                 count, signals, failures, late>>

\* _signal_handler_callback()
Interrupt ==
  /\ running /\ running' = FALSE
  /\ UNCHANGED <<heap, queue, main, hand, thread, host, mutex, flag, len,
                 count, signals, failures, late>>

(***************************************************************************)
(* A worker: _threadpool_func().                                           *)
(***************************************************************************)
Loop(w) ==
  /\ thread[w] = "loop"
  /\ thread' = [thread EXCEPT ![w] = IF flag THEN "exit" ELSE "lock"]
  /\ UNCHANGED <<heap, queue, running, main, hand, host, mutex, flag, len,
                 count, signals, failures, late>>

DequeuePeek(w) == host' = [host EXCEPT ![w] = Head(queue)] /\ UNCHANGED queue
Dequeue(w) == host' = [host EXCEPT ![w] = Head(queue)] /\ queue' = Tail(queue)

\* It holds the mutex and looks at the flag and the queue: it leaves, takes a
\* host, or is about to wait.
Look(w) ==
  /\ thread[w] = "lock" /\ mutex = None
  /\ \/ /\ flag
        /\ thread' = [thread EXCEPT ![w] = "exit"]
        /\ UNCHANGED <<queue, host, mutex>>
     \/ /\ ~flag /\ queue # <<>>
        /\ Dequeue(w)
        /\ thread' = [thread EXCEPT ![w] = "poll"]
        /\ UNCHANGED mutex
     \/ /\ ~flag /\ queue = <<>>
        /\ thread' = [thread EXCEPT ![w] = "checked"] /\ mutex' = w
        /\ UNCHANGED <<queue, host>>
  /\ UNCHANGED <<heap, running, main, hand, flag, len, count, signals,
                 failures, late>>

\* pthread_cond_wait() gives up the mutex and waits, at once.
Wait(w) ==
  /\ thread[w] = "checked"
  /\ thread' = [thread EXCEPT ![w] = "wait"] /\ mutex' = None
  /\ UNCHANGED <<heap, queue, running, main, hand, host, flag, len, count,
                 signals, failures, late>>

\* pthread_cond_wait() may return without a signal.
WakeUp(w) ==
  /\ thread[w] = "wait"
  /\ thread' = [thread EXCEPT ![w] = "lock"]
  /\ UNCHANGED <<heap, queue, running, main, hand, host, mutex, flag, len,
                 count, signals, failures, late>>

\* The callback, _ipmiseld_poll(), returns.
PollDone(w) ==
  /\ thread[w] = "poll"
  /\ thread' = [thread EXCEPT ![w] = "post"]
  /\ UNCHANGED <<heap, queue, running, main, hand, host, mutex, flag, len,
                 count, signals, failures, late>>

\* _ipmiseld_poll_postprocess(): the host is due an interval from now.
PostProcess(w) ==
  /\ thread[w] = "post"
  /\ heap' = Append(heap, host[w]) /\ host' = [host EXCEPT ![w] = None]
  /\ thread' = [thread EXCEPT ![w] = "loop"]
  /\ UNCHANGED <<queue, running, main, hand, mutex, flag, len, count, signals,
                 failures, late>>

\* The thread counts itself off and signals threadpool_count_cond, under
\* threadpool_count_lock, which destroy gives up when it waits.
Exit(w) ==
  /\ thread[w] = "exit" /\ main # "signal"
  /\ thread' = [thread EXCEPT ![w] = "gone"] /\ count' = count - 1
  /\ main' = IF main = "wait" THEN "woken" ELSE main
  /\ UNCHANGED <<heap, queue, running, hand, host, mutex, flag, len, signals,
                 failures, late>>

Worker(w) ==
  \/ Loop(w) \/ Look(w) \/ Wait(w) \/ PollDone(w) \/ PostProcess(w) \/ Exit(w)

Main ==
  \/ \E w \in Threads : Create(w)
  \/ CountThread \/ Pop \/ Quit \/ Queue
  \/ SetFlags \/ SendSignal \/ AwaitThreads

PoolNext ==
  \/ Main \/ MainWakeUp \/ CreateFails \/ QueueFails \/ Interrupt
  \/ \E w \in Threads : Worker(w) \/ WakeUp(w)

PoolSpec == PoolInit /\ [][PoolNext]_poolVars

\* The scheduler runs every thread, every poll returns (SelDaemon), and the
\* main thread, which waits for the mutex while workers take it for an instant
\* now and then, gets it in the end.
PoolFairness ==
  /\ WF_poolVars(Main) /\ SF_poolVars(Queue)
  /\ \A w \in Threads : WF_poolVars(Worker(w))

PoolFairSpec == PoolSpec /\ PoolFairness

PoolTypeOK ==
  /\ \A s \in {heap, queue} : \A k \in DOMAIN s : s[k] \in Hosts
  /\ running \in BOOLEAN /\ flag \in BOOLEAN
  /\ main \in {"create", "count", "loop", "queue", "destroy", "signal", "wait",
              "woken", "freed"}
  /\ hand \in Hosts \union {None}
  /\ thread \in [Threads -> {"new", "loop", "lock", "checked", "wait", "poll",
                             "post", "exit", "gone"}]
  /\ host \in [Threads -> Hosts \union {None}]
  /\ mutex \in Threads \union {None}
  /\ {len, count, signals} \subseteq 0..Cardinality(Threads)
  /\ failures \in 0..MaxFailures /\ late \subseteq Threads

\* The places a host is in.
Places(h) ==
  Cardinality({k \in DOMAIN heap : heap[k] = h})
  + Cardinality({k \in DOMAIN queue : queue[k] = h})
  + Cardinality({w \in Threads : host[w] = h})
  + (IF hand = h THEN 1 ELSE 0)

\* A host is in exactly one place: the heap, the main thread's hand, the queue
\* or the hands of one worker.  So no two workers poll it at once (its state
\* has no lock), and none is dropped when list_enqueue() fails.
HostInOnePlace == \A h \in Hosts : Places(h) = 1

\* "We want any current SEL poll to complete" (the comment in
\* ipmiseld_threadpool_destroy): when the pool's memory and the heap are freed,
\* no thread still runs, so none reads its exit_flag, takes from the queue or
\* puts a host in the heap after that.  destroy knows of the threads only by
\* threadpool_count, which init and the threads keep: a thread counts itself
\* off whether or not it is the one main waits for, and runs before init has
\* counted it.
NoThreadAfterFree ==
  main = "freed" => \A w \in Threads : thread[w] \in {"new", "gone"}

Stopping == main \in {"destroy", "signal", "wait", "woken", "freed"}

Polled(h) == \E w \in Threads : host[w] = h /\ thread[w] = "poll"

\* Until the daemon is told to stop, every host is polled again and again,
\* whatever failed to be queued: no signal to a waiting worker is lost.
HostPolledAgain ==
  \A h \in Hosts : []<>(Polled(h) \/ ~running \/ Stopping)

\* A daemon told to stop stops, unless a worker had looked at its flag and was
\* about to wait when destroy set it (destroy does not hold the queue's mutex:
\* the worker misses the signal), or the pool was never complete.
StopReturns ==
  ~running ~> (main = "freed" \/ late # {} \/ (main = "wait" /\ len = 0))
================================================================================
