-------------------------- MODULE ConsoleLifecycle --------------------------
(***************************************************************************)
(* Who owns a console context of libipmiconsole, and when its memory is    *)
(* freed: the API calls of the user's threads (ipmiconsole.c), the engine  *)
(* threads that process contexts (ipmiconsole_engine.c), the cleanup of a  *)
(* session that ended (ipmiconsole_ctx.c), the garbage collector thread    *)
(* (ipmiconsole_garbage_collector.c) and the teardown of the engine.       *)
(*                                                                         *)
(* A step is what a thread does under a mutex, or up to the next point at  *)
(* which another thread can see or block it.  Mutexes held over several    *)
(* steps are read off the steps of their holders (the *Locked operators).  *)
(* A session is only as detailed as its owners see it: it may get          *)
(* established, and it ends.                                               *)
(***************************************************************************)
EXTENDS Naturals

CONSTANTS
  Ctx,                 \* the contexts; each is used by one thread of the user
  Blocking,            \* those submitted with ipmiconsole_engine_submit_block()
  DeactivateOnly,      \* those that only deactivate the SOL payload of others
  NumThreads,          \* the thread_count of ipmiconsole_engine_init()
  ConcurrentTeardown   \* may the user tear down while other calls run?

ASSUME LifecycleAssumption ==
  /\ Blocking \subseteq Ctx /\ DeactivateOnly \subseteq Ctx
  /\ NumThreads \in Nat \ {0}
  /\ ConcurrentTeardown \in BOOLEAN

Threads == 0 .. NumThreads - 1

VARIABLES
  user,         \* per context: where its user's thread is, and its scan
  ctx,          \* per context: its memory, flags and session
  engine,       \* per engine thread: its step and its locals
  ctxs,         \* console_engine_ctxs: the contexts of each thread
  submits,      \* console_engine_ctxs_count
  threadCount,  \* console_engine_thread_count
  toDestroy,    \* console_engine_ctxs_to_destroy
  gc,           \* the garbage collector: its step, and what it has yet to scan
  quit,         \* a byte is in garbage_collector_notifier
  admin,        \* where the thread that calls engine_teardown() is
  teardown,     \* console_engine_teardown and ..._immediate
  isSetup       \* console_engine_is_setup

vars == <<user, ctx, engine, ctxs, submits, threadCount, toDestroy, gc, quit,
          admin, teardown, isSetup>>

\* console_engine_is_setup_mutex: engine_cleanup() keeps it to its end.
SetupLocked == admin \notin {"idle", "done"}

\* console_engine_thread_count_mutex
CountLocked == \E c \in Ctx : user[c].pc = "scan"

\* c->signal.destroyed_mutex
DestroyedLocked(c) ==
  \E i \in Threads : engine[i].cur = c /\ engine[i].pc \in {"move", "unlock"}

\* console_engine_ctxs_to_destroy_mutex
ToDestroyLocked == gc.pc = "scan"

Managed == UNION {ctxs[i] : i \in Threads}

-----------------------------------------------------------------------------
(* The API: ipmiconsole_engine_submit() and ..._submit_block(). *)

\* Up to the call of submit_ctx(); connection_setup() may fail.
SubmitStart(c) ==
  /\ user[c].pc = "idle" /\ ~ SetupLocked
  /\ \/ /\ isSetup
        /\ user' = [user EXCEPT ![c].pc = "lock"]
        /\ ctx' = [ctx EXCEPT ![c].open = TRUE,
                     ![c].req = IF c \in Blocking THEN "waiting" ELSE "off"]
     \/ /\ isSetup
        /\ user' = [user EXCEPT ![c].pc = "failed"]
        /\ ctx' = [ctx EXCEPT ![c].status = "error"]
     \/ /\ ~ isSetup
        /\ user' = [user EXCEPT ![c].pc = "failed"]
        /\ UNCHANGED ctx
  /\ UNCHANGED <<engine, ctxs, submits, threadCount, toDestroy, gc, quit,
                 admin, teardown, isSetup>>

\* ipmiconsole_engine_submit_ctx() takes the thread count's mutex ...
SubmitLock(c) ==
  /\ user[c].pc = "lock" /\ ~ CountLocked
  /\ user' = [user EXCEPT ![c] = [pc |-> "scan", i |-> 0, index |-> 0]]
  /\ UNCHANGED <<ctx, engine, ctxs, submits, threadCount, toDestroy, gc, quit,
                 admin, teardown, isSetup>>

\* ... asks every thread, under its mutex, for the number submitted to it ...
SubmitScan(c) ==
  LET i == user[c].i
      best == IF i = 0 \/ submits[i] < submits[user[c].index]
              THEN i ELSE user[c].index
  IN  /\ user[c].pc = "scan" /\ i < threadCount /\ ~ engine[i].held
      /\ user' = [user EXCEPT ![c].i = i + 1, ![c].index = best]
      /\ UNCHANGED <<ctx, engine, ctxs, submits, threadCount, toDestroy, gc,
                     quit, admin, teardown, isSetup>>

\* ... and appends to the list of the one with the fewest.
SubmitAppend(c) ==
  LET i == user[c].index
  IN  /\ user[c].pc = "scan" /\ user[c].i >= threadCount
      /\ isSetup /\ ~ engine[i].held
      /\ ctxs' = [ctxs EXCEPT ![i] = @ \cup {c}]
      /\ submits' = [submits EXCEPT ![i] = @ + 1]
      /\ ctx' = [ctx EXCEPT ![c].submitted = TRUE]
      /\ user' = [user EXCEPT ![c].pc =
                    IF c \in Blocking THEN "block" ELSE "status"]
      /\ UNCHANGED <<engine, threadCount, toDestroy, gc, quit, admin,
                     teardown, isSetup>>

\* _ipmiconsole_block() reads the notification pipe.
SubmitBlock(c) ==
  /\ user[c].pc = "block" /\ ctx[c].note # "none"
  /\ user' = [user EXCEPT ![c].pc =
                IF ctx[c].note = "error" THEN "fail" ELSE "status"]
  /\ UNCHANGED <<ctx, engine, ctxs, submits, threadCount, toDestroy, gc, quit,
                 admin, teardown, isSetup>>

SubmitStatusAlways(c) ==
  /\ user[c].pc = "status"
  /\ user' = [user EXCEPT ![c].pc = "using"]
  /\ ctx' = [ctx EXCEPT ![c].req = "off", ![c].status = "submitted"]
  /\ UNCHANGED <<engine, ctxs, submits, threadCount, toDestroy, gc, quit,
                 admin, teardown, isSetup>>

\* The end of a submission: the engine may already have set the status.
SubmitStatus(c) ==
  /\ user[c].pc = "status"
  /\ user' = [user EXCEPT ![c].pc = "using"]
  /\ ctx' = [ctx EXCEPT ![c].req = "off",
               ![c].status = IF @ = "not_submitted" THEN "submitted" ELSE @]
  /\ UNCHANGED <<engine, ctxs, submits, threadCount, toDestroy, gc, quit,
                 admin, teardown, isSetup>>

\* A blocking submission that failed closes the descriptors.
SubmitFail(c) ==
  /\ user[c].pc = "fail"
  /\ user' = [user EXCEPT ![c].pc = "using"]
  /\ ctx' = [ctx EXCEPT ![c].req = "off", ![c].open = FALSE]
  /\ UNCHANGED <<engine, ctxs, submits, threadCount, toDestroy, gc, quit,
                 admin, teardown, isSetup>>

(* ipmiconsole_ctx_destroy(). *)

\* The user's calls do not follow the teardown ("We assume the user won't do
\* this", ipmiconsole_engine.c), unless ConcurrentTeardown.
DestroyFds(c) ==
  /\ user[c].pc = "using" /\ (admin = "idle" \/ ConcurrentTeardown)
  /\ user' = [user EXCEPT ![c].pc = "destroy"]
  /\ ctx' = [ctx EXCEPT ![c].open = FALSE]
  /\ UNCHANGED <<engine, ctxs, submits, threadCount, toDestroy, gc, quit,
                 admin, teardown, isSetup>>

DestroyMark(c) ==
  /\ user[c].pc = "destroy" /\ ~ DestroyedLocked(c)
  /\ user' = [user EXCEPT ![c].pc = "gone"]
  /\ ctx' = [ctx EXCEPT ![c].destroyed = TRUE]
  /\ UNCHANGED <<engine, ctxs, submits, threadCount, toDestroy, gc, quit,
                 admin, teardown, isSetup>>

\* A context that was never submitted is freed at once.
DestroyUnsubmitted(c) ==
  /\ user[c].pc \in {"idle", "failed"}
  /\ user' = [user EXCEPT ![c].pc = "gone"]
  /\ ctx' = [ctx EXCEPT ![c].mem = "freed"]
  /\ UNCHANGED <<engine, ctxs, submits, threadCount, toDestroy, gc, quit,
                 admin, teardown, isSetup>>

-----------------------------------------------------------------------------
(* The cleanup of a session that ended: __ipmiconsole_ctx_connection_cleanup *)

FinishedAlways(r, note) == [r EXCEPT !.status = "error", !.calls = @ + 1]

FinishedSilent(r, note) == [r EXCEPT !.status = "error"]

\* A session that was not established makes an error known, to a blocked
\* submission if there is one and to the callback otherwise.
Finished(r, note) ==
  IF r.status = "established" THEN r
  ELSE IF r.req = "waiting"
  THEN [r EXCEPT !.status = "error", !.note = note]
  ELSE [r EXCEPT !.status = "error", !.calls = IF r.cb THEN @ + 1 ELSE @]

\* What a blocked submission is told: a session that was only to deactivate
\* may have succeeded (deactivate_only_succeeded_flag).
Notes(c) == {"error"} \cup {n \in {"deactivated"} : c \in DeactivateOnly}

\* The session of r is up: _process_protocol_state_activate_payload_sent().
Established(r) ==
  IF r.req = "waiting"
  THEN [r EXCEPT !.status = "established", !.note = "established", !.req = "told"]
  ELSE [r EXCEPT !.status = "established", !.calls = IF r.cb THEN @ + 1 ELSE @]

-----------------------------------------------------------------------------
(* An engine thread: _ipmiconsole_engine(). *)

\* The loop's condition, and the teardown flags.
EngineTop(i) ==
  LET e == engine[i]
      last == e.flag /\ e.count = 0
  IN  /\ e.pc = "top"
      /\ \/ /\ last \/ teardown = "immediate"
            /\ engine' = [engine EXCEPT ![i].pc = "exit"]
         \/ /\ ~ last /\ teardown # "immediate"
            /\ engine' = [engine EXCEPT ![i].pc = "lock",
                            ![i].flag = @ \/ teardown = "clean"]
      /\ UNCHANGED <<user, ctx, ctxs, submits, threadCount, toDestroy, gc,
                     quit, admin, teardown, isSetup>>

EngineLockForget(i) ==
  /\ engine[i].pc = "lock"
  /\ engine' = [engine EXCEPT ![i].pc = "process", ![i].held = TRUE,
                  ![i].rest = ctxs[i], ![i].count = 0]
  /\ UNCHANGED <<user, ctx, ctxs, submits, threadCount, toDestroy, gc, quit,
                 admin, teardown, isSetup>>

\* The list is locked; a teardown first closes every session on it, once.
EngineLock(i) ==
  LET initiate == engine[i].flag /\ ~ engine[i].initiated
  IN  /\ engine[i].pc = "lock"
      /\ engine' = [engine EXCEPT ![i].pc = "process", ![i].held = TRUE,
                      ![i].initiated = @ \/ initiate,
                      ![i].rest = ctxs[i], ![i].count = 0]
      /\ ctx' = [c \in Ctx |-> [ctx[c] EXCEPT
                   !.closing = @ \/ (initiate /\ c \in ctxs[i])]]
      /\ UNCHANGED <<user, ctxs, submits, threadCount, toDestroy, gc, quit,
                     admin, teardown, isSetup>>

\* ipmiconsole_process_ctxs() on one context: its session goes on ...
EngineStay(i, c) ==
  /\ engine[i].pc = "process" /\ c \in engine[i].rest
  /\ engine' = [engine EXCEPT ![i].rest = @ \ {c}, ![i].count = @ + 1]
  /\ \/ UNCHANGED ctx
     \/ /\ ctx[c].status # "established" /\ ~ ctx[c].closing
        /\ ctx' = [ctx EXCEPT ![c] = Established(@)]
  /\ UNCHANGED <<user, ctxs, submits, threadCount, toDestroy, gc, quit,
                 admin, teardown, isSetup>>

\* ... or ends, and list_delete() cleans up.
EngineDrop(i, c) ==
  /\ engine[i].pc = "process" /\ c \in engine[i].rest
  /\ engine' = [engine EXCEPT ![i].rest = @ \ {c}, ![i].pc = "mark",
                              ![i].cur = c]
  /\ ctxs' = [ctxs EXCEPT ![i] = @ \ {c}]
  /\ \E note \in Notes(c) : ctx' = [ctx EXCEPT ![c] = Finished(@, note)]
  /\ UNCHANGED <<user, submits, threadCount, toDestroy, gc, quit, admin,
                 teardown, isSetup>>

EngineMarkLeak(i) ==
  LET c == engine[i].cur
  IN  /\ engine[i].pc = "mark" /\ ~ DestroyedLocked(c)
      /\ engine' = [engine EXCEPT ![i].pc =
                      IF ctx[c].destroyed THEN "process" ELSE "move"]
      /\ ctx' = [ctx EXCEPT ![c].moved = ~ ctx[c].destroyed]
      /\ UNCHANGED <<user, ctxs, submits, threadCount, toDestroy, gc, quit,
                     admin, teardown, isSetup>>

\* Under destroyed_mutex: a context the user has destroyed is freed, mutex
\* and all; another is marked and goes to the garbage collector.
EngineMark(i) ==
  LET c == engine[i].cur
  IN  /\ engine[i].pc = "mark" /\ ~ DestroyedLocked(c)
      /\ \/ /\ ctx[c].destroyed
            /\ ctx' = [ctx EXCEPT ![c].mem = "freed"]
            /\ engine' = [engine EXCEPT ![i].pc = "process"]
         \/ /\ ~ ctx[c].destroyed /\ ~ ctx[c].moved
            /\ ctx' = [ctx EXCEPT ![c].moved = TRUE]
            /\ engine' = [engine EXCEPT ![i].pc = "move"]
      /\ UNCHANGED <<user, ctxs, submits, threadCount, toDestroy, gc, quit,
                     admin, teardown, isSetup>>

EngineMove(i) ==
  /\ engine[i].pc = "move" /\ ~ ToDestroyLocked
  /\ toDestroy' = toDestroy \cup {engine[i].cur}
  /\ engine' = [engine EXCEPT ![i].pc = "unlock"]
  /\ UNCHANGED <<user, ctx, ctxs, submits, threadCount, gc, quit, admin,
                 teardown, isSetup>>

EngineUnlock(i) ==
  /\ engine[i].pc = "unlock"
  /\ engine' = [engine EXCEPT ![i].pc = "process"]
  /\ UNCHANGED <<user, ctx, ctxs, submits, threadCount, toDestroy, gc, quit,
                 admin, teardown, isSetup>>

\* All contexts are processed.  A thread that is to end leaves by `continue`,
\* which skips the unlock; others poll, or wait a while.
EngineDone(i) ==
  LET e == engine[i]
  IN  /\ e.pc = "process" /\ e.rest = {}
      /\ engine' = [engine EXCEPT
           ![i].pc = IF e.count = 0 THEN "top" ELSE "poll",
           ![i].held = e.count = 0 /\ e.flag,
           ![i].rest = IF e.count = 0 THEN {} ELSE ctxs[i]]
      /\ UNCHANGED <<user, ctx, ctxs, submits, threadCount, toDestroy, gc,
                     quit, admin, teardown, isSetup>>

\* The poll sees the descriptors that users have closed.
EnginePoll(i) ==
  /\ engine[i].pc = "poll"
  /\ engine' = [engine EXCEPT ![i].pc = "top", ![i].rest = {}]
  /\ ctx' = [c \in Ctx |-> [ctx[c] EXCEPT
               !.closing = @ \/ (c \in engine[i].rest /\ ~ ctx[c].open)]]
  /\ UNCHANGED <<user, ctxs, submits, threadCount, toDestroy, gc, quit,
                 admin, teardown, isSetup>>

EngineExit(i) ==
  /\ engine[i].pc = "exit" /\ ~ CountLocked
  /\ threadCount' = threadCount - 1
  /\ engine' = [engine EXCEPT ![i].pc = "dead"]
  /\ UNCHANGED <<user, ctx, ctxs, submits, toDestroy, gc, quit, admin,
                 teardown, isSetup>>

-----------------------------------------------------------------------------
(* ipmiconsole_garbage_collector(). *)

\* select() times out, or teardown has told it to quit.
GcWake ==
  /\ gc.pc = "wait"
  /\ \/ quit /\ gc' = [gc EXCEPT !.pc = "dead"]
     \/ ~ quit /\ gc' = [pc |-> "scan", rest |-> toDestroy]
  /\ UNCHANGED <<user, ctx, engine, ctxs, submits, threadCount, toDestroy,
                 quit, admin, teardown, isSetup>>

GcScanUnchecked(c) ==
  /\ gc.pc = "scan" /\ c \in gc.rest /\ ~ DestroyedLocked(c)
  /\ gc' = [gc EXCEPT !.rest = @ \ {c}]
  /\ ctx' = [ctx EXCEPT ![c].mem = "freed"]
  /\ toDestroy' = toDestroy \ {c}
  /\ UNCHANGED <<user, engine, ctxs, submits, threadCount, quit, admin,
                 teardown, isSetup>>

\* Frees a context of the list once its user has destroyed it.
GcScan(c) ==
  /\ gc.pc = "scan" /\ c \in gc.rest /\ ~ DestroyedLocked(c)
  /\ gc' = [gc EXCEPT !.rest = @ \ {c}]
  /\ \/ /\ ctx[c].destroyed
        /\ ctx' = [ctx EXCEPT ![c].mem = "freed"]
        /\ toDestroy' = toDestroy \ {c}
     \/ /\ ~ ctx[c].destroyed
        /\ UNCHANGED <<ctx, toDestroy>>
  /\ UNCHANGED <<user, engine, ctxs, submits, threadCount, quit, admin,
                 teardown, isSetup>>

GcDone ==
  /\ gc.pc = "scan" /\ gc.rest = {}
  /\ gc' = [gc EXCEPT !.pc = "wait"]
  /\ UNCHANGED <<user, ctx, engine, ctxs, submits, threadCount, toDestroy,
                 quit, admin, teardown, isSetup>>

-----------------------------------------------------------------------------
(* ipmiconsole_engine_cleanup(). *)

Calling(c) == user[c].pc \notin {"idle", "using", "failed", "gone"}

TeardownStart ==
  /\ admin = "idle" /\ ~ CountLocked
  /\ ConcurrentTeardown \/ \A c \in Ctx : ~ Calling(c)
  /\ \E flag \in {"clean", "immediate"} : teardown' = flag
  /\ admin' = "threads"
  /\ UNCHANGED <<user, ctx, engine, ctxs, submits, threadCount, toDestroy, gc,
                 quit, isSetup>>

TeardownThreads ==
  /\ admin = "threads" /\ threadCount = 0 /\ ~ CountLocked
  /\ admin' = "gc" /\ quit' = TRUE
  /\ UNCHANGED <<user, ctx, engine, ctxs, submits, threadCount, toDestroy, gc,
                 teardown, isSetup>>

TeardownGc ==
  /\ admin = "gc" /\ gc.pc = "dead"
  /\ admin' = "lists"
  /\ UNCHANGED <<user, ctx, engine, ctxs, submits, threadCount, toDestroy, gc,
                 quit, teardown, isSetup>>

\* list_destroy() of a thread's list: the same cleanup as in an engine thread.
TeardownDrop(c) ==
  /\ admin = "lists" /\ c \in Managed
  /\ ctxs' = [i \in Threads |-> ctxs[i] \ {c}]
  /\ \E note \in Notes(c) :
       LET done == Finished(ctx[c], note)
       IN  \/ /\ ctx[c].destroyed
              /\ ctx' = [ctx EXCEPT ![c] = [done EXCEPT !.mem = "freed"]]
              /\ UNCHANGED toDestroy
           \/ /\ ~ ctx[c].destroyed
              /\ ctx' = [ctx EXCEPT ![c] = [done EXCEPT !.moved = TRUE]]
              /\ toDestroy' = toDestroy \cup {c}
  /\ UNCHANGED <<user, engine, submits, threadCount, gc, quit, admin,
                 teardown, isSetup>>

\* list_destroy() of the contexts to destroy frees them all.
TeardownEnd ==
  /\ admin = "lists" /\ Managed = {}
  /\ ctx' = [c \in Ctx |-> IF c \in toDestroy
                           THEN [ctx[c] EXCEPT !.mem = "freed"] ELSE ctx[c]]
  /\ toDestroy' = {} /\ isSetup' = FALSE /\ teardown' = "no"
  /\ admin' = "done"
  /\ UNCHANGED <<user, engine, ctxs, submits, threadCount, gc, quit>>

-----------------------------------------------------------------------------

Init ==
  /\ user = [c \in Ctx |-> [pc |-> "idle", i |-> 0, index |-> 0]]
  /\ ctx = [c \in Ctx |->
              [mem |-> "live", status |-> "not_submitted", submitted |-> FALSE,
               destroyed |-> FALSE, moved |-> FALSE, req |-> "off",
               note |-> "none", cb |-> c \notin Blocking, calls |-> 0,
               closing |-> FALSE, open |-> FALSE]]
  /\ engine = [i \in Threads |->
                 [pc |-> "top", held |-> FALSE, flag |-> FALSE,
                  initiated |-> FALSE, count |-> 0, rest |-> {},
                  cur |-> "none"]]
  /\ ctxs = [i \in Threads |-> {}]
  /\ submits = [i \in Threads |-> 0]
  /\ threadCount = NumThreads
  /\ toDestroy = {} /\ gc = [pc |-> "wait", rest |-> {}] /\ quit = FALSE
  /\ admin = "idle" /\ teardown = "no" /\ isSetup = TRUE

\* A call that a user's thread has begun.
UserCall(c) ==
  \/ SubmitLock(c) \/ SubmitScan(c) \/ SubmitAppend(c) \/ SubmitBlock(c)
  \/ SubmitStatus(c) \/ SubmitFail(c) \/ DestroyMark(c)

User(c) == SubmitStart(c) \/ UserCall(c) \/ DestroyFds(c) \/ DestroyUnsubmitted(c)

Engine(i) ==
  \/ EngineTop(i) \/ EngineLock(i) \/ EngineMark(i) \/ EngineMove(i)
  \/ EngineUnlock(i) \/ EngineDone(i) \/ EnginePoll(i) \/ EngineExit(i)
  \/ \E c \in Ctx : EngineStay(i, c) \/ EngineDrop(i, c)

Gc == GcWake \/ GcDone \/ \E c \in Ctx : GcScan(c)

Teardown ==
  \/ TeardownThreads \/ TeardownGc \/ TeardownEnd
  \/ \E c \in Ctx : TeardownDrop(c)

Next ==
  \/ \E c \in Ctx : User(c)
  \/ \E i \in Threads : Engine(i)
  \/ Gc \/ TeardownStart \/ Teardown

Spec == Init /\ [][Next]_vars

\* Threads run on (blocked on a mutex they wait for its holder only, and the
\* system grants it at last); a session that is not up, or is closing, gets up
\* or ends, since it times out.
Fairness ==
  /\ \A c \in Ctx : SF_vars(UserCall(c))
  /\ \A i \in Threads : SF_vars(Engine(i))
  /\ SF_vars(Gc) /\ WF_vars(Teardown)
  /\ \A i \in Threads, c \in Ctx :
       SF_vars((ctx[c].closing \/ ctx[c].status # "established")
               /\ (EngineDrop(i, c) \/ (EngineStay(i, c) /\ ctx' # ctx)))

FairSpec == Spec /\ Fairness

-----------------------------------------------------------------------------
(* Properties. *)

\* Every variable keeps its type.
TypeOK ==
  /\ user \in [Ctx -> [pc : {"idle", "lock", "scan", "block", "status", "fail",
                             "using", "failed", "destroy", "gone"},
                       i : 0 .. NumThreads, index : Threads]]
  /\ ctx \in [Ctx ->
       [mem : {"live", "freed"},
        status : {"not_submitted", "submitted", "established", "error"},
        submitted : BOOLEAN, destroyed : BOOLEAN, moved : BOOLEAN,
        req : {"off", "waiting", "told"},
        note : {"none", "established", "deactivated", "error"},
        cb : BOOLEAN, calls : Nat, closing : BOOLEAN, open : BOOLEAN]]
  /\ engine \in [Threads ->
       [pc : {"top", "lock", "process", "mark", "move", "unlock", "poll",
              "exit", "dead"},
        held : BOOLEAN, flag : BOOLEAN, initiated : BOOLEAN, count : Nat,
        rest : SUBSET Ctx, cur : Ctx \cup {"none"}]]
  /\ ctxs \in [Threads -> SUBSET Ctx] /\ submits \in [Threads -> Nat]
  /\ threadCount \in 0 .. NumThreads
  /\ toDestroy \in SUBSET Ctx
  /\ gc \in [pc : {"wait", "scan", "dead"}, rest : SUBSET Ctx]
  /\ quit \in BOOLEAN /\ isSetup \in BOOLEAN
  /\ admin \in {"idle", "threads", "gc", "lists", "done"}
  /\ teardown \in {"no", "clean", "immediate"}

\* No thread still has its hands on a context that was freed, so it is neither
\* used nor freed again: not an engine thread that polls or cleans up, not
\* the garbage collector, not the teardown, not a call of the user
\* (__ipmiconsole_ctx_connection_cleanup, ipmiconsole_garbage_collector).
NoUseAfterFree ==
  \A c \in Ctx : ctx[c].mem = "freed" =>
    /\ c \notin Managed \cup toDestroy \cup gc.rest
    /\ \A i \in Threads :
         /\ c \notin engine[i].rest
         /\ engine[i].cur = c => engine[i].pc \notin {"mark", "move", "unlock"}
    /\ ~ Calling(c)
    /\ user[c].pc = "using" => admin = "done"

\* The callback "Will be called once and only once during an individual engine
\* submission" (ipmiconsole.h.in:745), when the session is up or has failed,
\* and not at all for a submission that failed or blocks.
CallbackOnce ==
  \A c \in Ctx : ctx[c].calls =
    IF /\ c \notin Blocking /\ ctx[c].submitted
       /\ ctx[c].status \in {"established", "error"} THEN 1 ELSE 0

\* What ipmiconsole_ctx_status() reports of a session that is up or has failed
\* is final, although the engine may set it before the submission does.
StatusFinal ==
  [][\A c \in Ctx : ctx[c].status \in {"established", "error"} =>
       ctx'[c].status = ctx[c].status]_vars

\* "block until a SOL session is established or an error/timeout occurs"
\* (ipmiconsole_engine_submit_block): the blocked call returns.
BlockReturns == \A c \in Ctx : (user[c].pc = "block") ~> (user[c].pc # "block")

\* The memory of a context that the user has destroyed is freed in the end,
\* by the engine thread, the garbage collector or the teardown.
DestroyedFreed == \A c \in Ctx : (user[c].pc = "gone") ~> (ctx[c].mem = "freed")

\* "ipmiconsole_engine_teardown() will block until all active ipmi sessions
\* have been closed cleanly or timed out" (ipmiconsole.h.in:792), and returns.
TeardownReturns == (admin = "threads") ~> (admin = "done")
=============================================================================
