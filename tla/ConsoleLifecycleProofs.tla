----------------------- MODULE ConsoleLifecycleProofs -----------------------
(***************************************************************************)
(* Proofs about ConsoleLifecycle, for every set of contexts and number of  *)
(* engine threads: who owns a context, that nobody touches one that was    *)
(* freed, that the callback is called once, and that a status is final.    *)
(***************************************************************************)
EXTENDS ConsoleLifecycle, FiniteSetTheorems, TLAPS

-----------------------------------------------------------------------------
(* The inductive invariant. *)

\* Thread i is in the cleanup of c (__ipmiconsole_ctx_connection_cleanup).
Cleaning(i, c) == engine[i].cur = c /\ engine[i].pc \in {"mark", "move", "unlock"}

\* A context of the engine: its user's submission got as far as the list.
Accepted == {"block", "status", "fail", "using", "destroy", "gone"}

\* A context is on one list of the engine, in the cleanup of one thread, or
\* with the garbage collector: the last two overlap only while the cleanup
\* has still to unlock destroyed_mutex.
OwnInv ==
  \A c \in Ctx :
    /\ \A i, j \in Threads : c \in ctxs[i] /\ c \in ctxs[j] => i = j
    /\ \A i, j \in Threads : ~ (c \in ctxs[i] /\ Cleaning(j, c))
    /\ \A i \in Threads : ~ (c \in ctxs[i] /\ c \in toDestroy)
    /\ \A i, j \in Threads : Cleaning(i, c) /\ Cleaning(j, c) => i = j
    /\ \A i \in Threads :
         Cleaning(i, c) /\ c \in toDestroy => engine[i].pc = "unlock"
    /\ c \in toDestroy \/ (\E i \in Threads : c \in ctxs[i] \/ Cleaning(i, c)) =>
         user[c].pc \in Accepted /\ ctx[c].submitted

\* What a thread has still to go through is on its list, and what the garbage
\* collector has to go through on its own.
RestInv ==
  /\ \A i \in Threads :
       /\ engine[i].rest \subseteq ctxs[i]
       /\ engine[i].pc \in {"top", "lock", "exit", "dead"} => engine[i].rest = {}
       /\ engine[i].pc \in {"mark", "move", "unlock"} => engine[i].cur \in Ctx
  /\ gc.rest \subseteq toDestroy
  /\ gc.pc # "scan" => gc.rest = {}

\* The teardown waits for the threads, then for the garbage collector.
AdminInv ==
  /\ threadCount = Cardinality({i \in Threads : engine[i].pc # "dead"})
  /\ admin \in {"gc", "lists", "done"} => \A i \in Threads : engine[i].pc = "dead"
  /\ admin \in {"lists", "done"} => gc.pc = "dead"
  /\ admin = "done" => ~ isSetup
  /\ ~ ConcurrentTeardown /\ admin # "idle" => \A c \in Ctx : ~ Calling(c)

\* The callback is due, and the status open, as long as the engine has the
\* context on a list.
StatusInv ==
  \A c \in Ctx :
    /\ ctx[c].cb = (c \notin Blocking)
    /\ c \notin Blocking => ctx[c].req = "off"
    /\ user[c].pc \in {"idle", "lock", "scan"} =>
         ctx[c].status = "not_submitted" /\ ~ ctx[c].submitted
    /\ user[c].pc = "failed" => ~ ctx[c].submitted
    /\ \A i \in Threads : c \in ctxs[i] => ctx[c].status # "error"
    /\ ctx[c].destroyed => user[c].pc = "gone"

\* A freed context is nowhere, and its user is done with it.
FreeInv ==
  \A c \in Ctx : ctx[c].mem = "freed" =>
    /\ c \notin toDestroy
    /\ \A i \in Threads : c \notin ctxs[i] /\ ~ Cleaning(i, c)
    /\ user[c].pc = "gone" \/ (user[c].pc = "using" /\ admin = "done")

Inv == TypeOK /\ OwnInv /\ RestInv /\ AdminInv /\ StatusInv /\ CallbackOnce
IInv == Inv /\ (~ ConcurrentTeardown => FreeInv)

-----------------------------------------------------------------------------
(* The types, record by record. *)

Users ==
  [pc : {"idle", "lock", "scan", "block", "status", "fail", "using", "failed",
         "destroy", "gone"},
   i : 0 .. NumThreads, index : Threads]

Contexts ==
  [mem : {"live", "freed"},
   status : {"not_submitted", "submitted", "established", "error"},
   submitted : BOOLEAN, destroyed : BOOLEAN, moved : BOOLEAN,
   req : {"off", "waiting", "told"},
   note : {"none", "established", "deactivated", "error"},
   cb : BOOLEAN, calls : Nat, closing : BOOLEAN, open : BOOLEAN]

Engines ==
  [pc : {"top", "lock", "process", "mark", "move", "unlock", "poll", "exit",
         "dead"},
   held : BOOLEAN, flag : BOOLEAN, initiated : BOOLEAN, count : Nat,
   rest : SUBSET Ctx, cur : Ctx \cup {"none"}]

OtherTypes ==
  /\ ctxs \in [Threads -> SUBSET Ctx] /\ submits \in [Threads -> Nat]
  /\ threadCount \in 0 .. NumThreads
  /\ toDestroy \in SUBSET Ctx
  /\ gc \in [pc : {"wait", "scan", "dead"}, rest : SUBSET Ctx]
  /\ quit \in BOOLEAN /\ isSetup \in BOOLEAN
  /\ admin \in {"idle", "threads", "gc", "lists", "done"}
  /\ teardown \in {"no", "clean", "immediate"}

LEMMA TypeParts ==
  TypeOK <=> /\ user \in [Ctx -> Users] /\ ctx \in [Ctx -> Contexts]
             /\ engine \in [Threads -> Engines] /\ OtherTypes
  BY DEF TypeOK, Users, Contexts, Engines, OtherTypes

\* The type of a context after a step that gives c the record r.
LEMMA ContextUpdate ==
  ASSUME NEW f \in [Ctx -> Contexts], NEW c \in Ctx, NEW r \in Contexts
  PROVE  [f EXCEPT ![c] = r] \in [Ctx -> Contexts]
  OBVIOUS

-----------------------------------------------------------------------------
(* The API. *)

LEMMA SubmitStartInv ==
  ASSUME IInv, NEW c \in Ctx, SubmitStart(c)
  PROVE  IInv'
<1> USE DEF IInv, Inv
<1>0. /\ user \in [Ctx -> Users] /\ ctx \in [Ctx -> Contexts]
      /\ engine \in [Threads -> Engines] /\ OtherTypes
  BY TypeParts
<1>p. PICK l \in {"lock", "failed"} :
        /\ user' = [user EXCEPT ![c].pc = l]
        /\ l = "lock" => isSetup
        /\ ctx' \in [Ctx -> Contexts]
        /\ \A d \in Ctx :
             /\ UNCHANGED <<ctx[d].mem, ctx[d].submitted, ctx[d].destroyed, ctx[d].cb,
                            ctx[d].calls>>
             /\ d # c => UNCHANGED ctx[d]
             /\ d \notin Blocking => UNCHANGED ctx[d].req
             /\ l = "lock" => UNCHANGED ctx[d].status
  <2> DEFINE q == IF c \in Blocking THEN "waiting" ELSE "off"
             r == [ctx[c] EXCEPT !.open = TRUE, !.req = q]
             s == [ctx[c] EXCEPT !.status = "error"]
  <2>1. ctx[c] \in Contexts /\ q \in {"off", "waiting", "told"}
    BY <1>0
  <2>2. r \in Contexts /\ s \in Contexts
    <3> HIDE DEF q
    <3> QED BY <2>1 DEF Contexts
  <2>3. CASE user' = [user EXCEPT ![c].pc = "lock"] /\ isSetup /\ ctx' = [ctx EXCEPT ![c].open = TRUE, ![c].req = q]
    <3>1. ctx' = [ctx EXCEPT ![c] = r]
      BY <1>0, <2>3
    <3>2. ctx' \in [Ctx -> Contexts]
      BY <1>0, <2>2, <3>1, ContextUpdate
    <3>3. \A d \in Ctx :
             /\ UNCHANGED <<ctx[d].mem, ctx[d].submitted, ctx[d].destroyed, ctx[d].cb,
                            ctx[d].calls, ctx[d].status>>
             /\ d # c => UNCHANGED ctx[d]
             /\ d \notin Blocking => UNCHANGED ctx[d].req
      BY <1>0, <2>1, <3>1 DEF Contexts, StatusInv
    <3> QED BY <2>3, <3>2, <3>3
  <2>4. CASE user' = [user EXCEPT ![c].pc = "failed"] /\ ctx' = [ctx EXCEPT ![c].status = "error"]
    <3>1. ctx' = [ctx EXCEPT ![c] = s]
      BY <1>0, <2>4
    <3>2. ctx' \in [Ctx -> Contexts]
      BY <1>0, <2>2, <3>1, ContextUpdate
    <3>3. \A d \in Ctx :
             /\ UNCHANGED <<ctx[d].mem, ctx[d].submitted, ctx[d].destroyed, ctx[d].cb,
                            ctx[d].calls, ctx[d].req>>
             /\ d # c => UNCHANGED ctx[d]
      BY <1>0, <2>1, <3>1 DEF Contexts
    <3> QED BY <2>4, <3>2, <3>3
  <2>5. CASE user' = [user EXCEPT ![c].pc = "failed"] /\ UNCHANGED ctx
    BY <1>0, <2>5
  <2> QED BY <2>3, <2>4, <2>5 DEF SubmitStart
<1>u. /\ user[c].pc = "idle" /\ admin \in {"idle", "done"}
      /\ UNCHANGED <<engine, ctxs, submits, threadCount, toDestroy, gc, quit,
                     admin, teardown, isSetup>>
  BY <1>0 DEF SubmitStart, SetupLocked, OtherTypes
<1>v. \A d \in Ctx : user'[d].pc = IF d = c THEN l ELSE user[d].pc
  BY <1>0, <1>p DEF Users
<1>1. TypeOK'
  <2>1. user' \in [Ctx -> Users]
    BY <1>0, <1>p DEF Users
  <2> QED BY <1>0, <1>p, <1>u, <2>1 DEF TypeOK, Users, Contexts, Engines, OtherTypes
<1>2. OwnInv'
  BY <1>0, <1>p, <1>u, <1>v DEF OwnInv, StatusInv, Cleaning, Accepted
<1>3. RestInv'
  BY <1>u DEF RestInv
<1>4. AdminInv'
  BY <1>0, <1>p, <1>u, <1>v DEF AdminInv, Calling
<1>5. StatusInv'
  BY <1>0, <1>p, <1>u, <1>v DEF StatusInv, OwnInv, Accepted
<1>6. CallbackOnce'
  BY <1>0, <1>p, <1>u, <1>v DEF StatusInv, CallbackOnce
<1>7. ~ ConcurrentTeardown => FreeInv'
  BY <1>0, <1>p, <1>u, <1>v DEF FreeInv, Cleaning
<1> QED BY <1>1, <1>2, <1>3, <1>4, <1>5, <1>6, <1>7

LEMMA SubmitLockInv ==
  ASSUME IInv, NEW c \in Ctx, SubmitLock(c)
  PROVE  IInv'
<1> USE DEF IInv, Inv, SubmitLock
<1>0. /\ user \in [Ctx -> Users] /\ ctx \in [Ctx -> Contexts]
      /\ engine \in [Threads -> Engines] /\ OtherTypes
  BY TypeParts
<1>1. TypeOK'
  <2>1. [pc |-> "scan", i |-> 0, index |-> 0] \in Users
    BY LifecycleAssumption DEF Users, Threads
  <2>2. user' \in [Ctx -> Users]
    BY <1>0, <2>1
  <2> QED BY <1>0, <2>2 DEF TypeOK, Users, Contexts, Engines, OtherTypes
<1>2. OwnInv'
  BY <1>0 DEF Users, Contexts, Engines, OtherTypes, OwnInv, RestInv, AdminInv, StatusInv, Cleaning, Accepted
<1>3. RestInv'
  BY <1>0 DEF Engines, OtherTypes, OwnInv, RestInv, Cleaning
<1>4. AdminInv'
  <2>1. {j \in Threads : engine'[j].pc # "dead"} = {j \in Threads : engine[j].pc # "dead"}
    BY <1>0 DEF Engines
  <2> QED BY <1>0, <2>1 DEF Users, Engines, AdminInv, Calling
<1>5. StatusInv'
  BY <1>0 DEF Users, Contexts, OtherTypes, OwnInv, RestInv, StatusInv, Cleaning, Accepted
<1>6. CallbackOnce'
  BY <1>0 DEF Users, Contexts, OtherTypes, OwnInv, RestInv, StatusInv, CallbackOnce, Cleaning, Accepted
<1>7. ~ ConcurrentTeardown => FreeInv'
  BY <1>0 DEF Users, Contexts, Engines, OtherTypes, OwnInv, RestInv, AdminInv, StatusInv, FreeInv, Cleaning, Accepted, Calling
<1> QED BY <1>1, <1>2, <1>3, <1>4, <1>5, <1>6, <1>7

LEMMA SubmitScanInv ==
  ASSUME IInv, NEW c \in Ctx, SubmitScan(c)
  PROVE  IInv'
<1> USE DEF IInv, Inv, SubmitScan
<1>0. /\ user \in [Ctx -> Users] /\ ctx \in [Ctx -> Contexts]
      /\ engine \in [Threads -> Engines] /\ OtherTypes
  BY TypeParts
<1>1. TypeOK'
  <2> DEFINE i == user[c].i
             best == IF i = 0 \/ submits[i] < submits[user[c].index]
                     THEN i ELSE user[c].index
  <2>1. user[c] \in Users /\ i \in 0 .. NumThreads /\ user[c].index \in Threads
    BY <1>0 DEF Users
  <2>2. i \in Threads /\ i + 1 \in 0 .. NumThreads
    BY <1>0, <2>1, LifecycleAssumption DEF OtherTypes, Threads
  <2>3. best \in Threads
    BY <2>1, <2>2
  <2> HIDE DEF best
  <2>4. [user[c] EXCEPT !.i = i + 1, !.index = best] \in Users
    BY <2>1, <2>2, <2>3 DEF Users
  <2>5. user' = [d \in Ctx |-> IF d = c THEN [user[c] EXCEPT !.i = i + 1, !.index = best]
                                        ELSE user[d]]
    BY <1>0 DEF best
  <2>6. user' \in [Ctx -> Users]
    BY <1>0, <2>4, <2>5
  <2> QED BY <1>0, <2>6 DEF TypeOK, Users, Contexts, Engines, OtherTypes
<1>2. OwnInv'
  BY <1>0 DEF Users, Contexts, Engines, OtherTypes, OwnInv, RestInv, AdminInv, StatusInv, Cleaning, Accepted
<1>3. RestInv'
  BY <1>0 DEF Engines, OtherTypes, OwnInv, RestInv, Cleaning
<1>4. AdminInv'
  <2>1. {j \in Threads : engine'[j].pc # "dead"} = {j \in Threads : engine[j].pc # "dead"}
    BY <1>0 DEF Engines
  <2> QED BY <1>0, <2>1 DEF Users, Engines, AdminInv, Calling
<1>5. StatusInv'
  BY <1>0 DEF Users, Contexts, OtherTypes, OwnInv, RestInv, StatusInv, Cleaning, Accepted
<1>6. CallbackOnce'
  BY <1>0 DEF Users, Contexts, OtherTypes, OwnInv, RestInv, StatusInv, CallbackOnce, Cleaning, Accepted
<1>7. ~ ConcurrentTeardown => FreeInv'
  BY <1>0 DEF Users, Contexts, Engines, OtherTypes, OwnInv, RestInv, AdminInv, StatusInv, FreeInv, Cleaning, Accepted, Calling
<1> QED BY <1>1, <1>2, <1>3, <1>4, <1>5, <1>6, <1>7

LEMMA SubmitAppendInv ==
  ASSUME IInv, NEW c \in Ctx, SubmitAppend(c)
  PROVE  IInv'
<1> USE DEF IInv, Inv, SubmitAppend
<1>0. /\ user \in [Ctx -> Users] /\ ctx \in [Ctx -> Contexts]
      /\ engine \in [Threads -> Engines] /\ OtherTypes
  BY TypeParts
<1>1. TypeOK'
  <2>1. user' \in [Ctx -> Users]
    BY <1>0 DEF Users
  <2>2. [ctx[c] EXCEPT !.submitted = TRUE] \in Contexts
    <3>1. ctx[c] \in Contexts
      BY <1>0
    <3> QED BY <3>1 DEF Contexts
  <2>3. ctx' = [ctx EXCEPT ![c] = [ctx[c] EXCEPT !.submitted = TRUE]]
    BY <1>0
  <2>4. ctx' \in [Ctx -> Contexts]
    BY <1>0, <2>2, <2>3, ContextUpdate
  <2>5. OtherTypes'
    BY <1>0 DEF OtherTypes, Users
  <2> QED BY <1>0, <2>1, <2>4, <2>5 DEF TypeOK, Users, Contexts, Engines, OtherTypes
<1>2. OwnInv'
  BY <1>0 DEF Users, Contexts, Engines, OtherTypes, OwnInv, RestInv, AdminInv, StatusInv, Cleaning, Accepted
<1>3. RestInv'
  BY <1>0 DEF Engines, OtherTypes, OwnInv, RestInv, Cleaning
<1>4. AdminInv'
  <2>1. {j \in Threads : engine'[j].pc # "dead"} = {j \in Threads : engine[j].pc # "dead"}
    BY <1>0 DEF Engines
  <2> QED BY <1>0, <2>1 DEF Users, Engines, AdminInv, Calling
<1>5. StatusInv'
  BY <1>0 DEF Users, Contexts, OtherTypes, OwnInv, RestInv, StatusInv, Cleaning, Accepted
<1>6. CallbackOnce'
  BY <1>0 DEF Users, Contexts, OtherTypes, OwnInv, RestInv, StatusInv, CallbackOnce, Cleaning, Accepted
<1>7. ~ ConcurrentTeardown => FreeInv'
  BY <1>0 DEF Users, Contexts, Engines, OtherTypes, OwnInv, RestInv, AdminInv, StatusInv, FreeInv, Cleaning, Accepted, Calling
<1> QED BY <1>1, <1>2, <1>3, <1>4, <1>5, <1>6, <1>7

LEMMA SubmitBlockInv ==
  ASSUME IInv, NEW c \in Ctx, SubmitBlock(c)
  PROVE  IInv'
<1> USE DEF IInv, Inv, SubmitBlock
<1>0. /\ user \in [Ctx -> Users] /\ ctx \in [Ctx -> Contexts]
      /\ engine \in [Threads -> Engines] /\ OtherTypes
  BY TypeParts
<1>1. TypeOK'
  <2>1. user' \in [Ctx -> Users]
    BY <1>0 DEF Users
  <2>4. ctx' \in [Ctx -> Contexts]
    BY <1>0
  <2>5. OtherTypes'
    BY <1>0 DEF OtherTypes
  <2> QED BY <1>0, <2>1, <2>4, <2>5 DEF TypeOK, Users, Contexts, Engines, OtherTypes
<1>2. OwnInv'
  BY <1>0 DEF Users, Contexts, Engines, OtherTypes, OwnInv, RestInv, AdminInv, StatusInv, Cleaning, Accepted
<1>3. RestInv'
  BY <1>0 DEF Engines, OtherTypes, OwnInv, RestInv, Cleaning
<1>4. AdminInv'
  <2>1. {j \in Threads : engine'[j].pc # "dead"} = {j \in Threads : engine[j].pc # "dead"}
    BY <1>0 DEF Engines
  <2> QED BY <1>0, <2>1 DEF Users, Engines, AdminInv, Calling
<1>5. StatusInv'
  BY <1>0 DEF Users, Contexts, OtherTypes, OwnInv, RestInv, StatusInv, Cleaning, Accepted
<1>6. CallbackOnce'
  BY <1>0 DEF Users, Contexts, OtherTypes, OwnInv, RestInv, StatusInv, CallbackOnce, Cleaning, Accepted
<1>7. ~ ConcurrentTeardown => FreeInv'
  BY <1>0 DEF Users, Contexts, Engines, OtherTypes, OwnInv, RestInv, AdminInv, StatusInv, FreeInv, Cleaning, Accepted, Calling
<1> QED BY <1>1, <1>2, <1>3, <1>4, <1>5, <1>6, <1>7

LEMMA SubmitStatusInv ==
  ASSUME IInv, NEW c \in Ctx, SubmitStatus(c)
  PROVE  IInv'
<1> USE DEF IInv, Inv, SubmitStatus
<1>0. /\ user \in [Ctx -> Users] /\ ctx \in [Ctx -> Contexts]
      /\ engine \in [Threads -> Engines] /\ OtherTypes
  BY TypeParts
<1>1. TypeOK'
  <2>1. user' \in [Ctx -> Users]
    BY <1>0 DEF Users
  <2>2. [ctx[c] EXCEPT !.req = "off",
                     !.status = IF @ = "not_submitted" THEN "submitted" ELSE @] \in Contexts
    <3>1. ctx[c] \in Contexts
      BY <1>0
    <3> QED BY <3>1 DEF Contexts
  <2>3. ctx' = [ctx EXCEPT ![c] = [ctx[c] EXCEPT !.req = "off",
                     !.status = IF @ = "not_submitted" THEN "submitted" ELSE @]]
    BY <1>0
  <2>4. ctx' \in [Ctx -> Contexts]
    BY <1>0, <2>2, <2>3, ContextUpdate
  <2>5. OtherTypes'
    BY <1>0 DEF OtherTypes
  <2> QED BY <1>0, <2>1, <2>4, <2>5 DEF TypeOK, Users, Contexts, Engines, OtherTypes
<1>2. OwnInv'
  BY <1>0 DEF Users, Contexts, Engines, OtherTypes, OwnInv, RestInv, AdminInv, StatusInv, Cleaning, Accepted
<1>3. RestInv'
  BY <1>0 DEF Engines, OtherTypes, OwnInv, RestInv, Cleaning
<1>4. AdminInv'
  <2>1. {j \in Threads : engine'[j].pc # "dead"} = {j \in Threads : engine[j].pc # "dead"}
    BY <1>0 DEF Engines
  <2> QED BY <1>0, <2>1 DEF Users, Engines, AdminInv, Calling
<1>5. StatusInv'
  BY <1>0 DEF Users, Contexts, OtherTypes, OwnInv, RestInv, StatusInv, Cleaning, Accepted
<1>6. CallbackOnce'
  BY <1>0 DEF Users, Contexts, OtherTypes, OwnInv, RestInv, StatusInv, CallbackOnce, Cleaning, Accepted
<1>7. ~ ConcurrentTeardown => FreeInv'
  BY <1>0 DEF Users, Contexts, Engines, OtherTypes, OwnInv, RestInv, AdminInv, StatusInv, FreeInv, Cleaning, Accepted, Calling
<1> QED BY <1>1, <1>2, <1>3, <1>4, <1>5, <1>6, <1>7

LEMMA SubmitFailInv ==
  ASSUME IInv, NEW c \in Ctx, SubmitFail(c)
  PROVE  IInv'
<1> USE DEF IInv, Inv, SubmitFail
<1>0. /\ user \in [Ctx -> Users] /\ ctx \in [Ctx -> Contexts]
      /\ engine \in [Threads -> Engines] /\ OtherTypes
  BY TypeParts
<1>1. TypeOK'
  <2>1. user' \in [Ctx -> Users]
    BY <1>0 DEF Users
  <2>2. [ctx[c] EXCEPT !.req = "off", !.open = FALSE] \in Contexts
    <3>1. ctx[c] \in Contexts
      BY <1>0
    <3> QED BY <3>1 DEF Contexts
  <2>3. ctx' = [ctx EXCEPT ![c] = [ctx[c] EXCEPT !.req = "off", !.open = FALSE]]
    BY <1>0
  <2>4. ctx' \in [Ctx -> Contexts]
    BY <1>0, <2>2, <2>3, ContextUpdate
  <2>5. OtherTypes'
    BY <1>0 DEF OtherTypes
  <2> QED BY <1>0, <2>1, <2>4, <2>5 DEF TypeOK, Users, Contexts, Engines, OtherTypes
<1>2. OwnInv'
  BY <1>0 DEF Users, Contexts, Engines, OtherTypes, OwnInv, RestInv, AdminInv, StatusInv, Cleaning, Accepted
<1>3. RestInv'
  BY <1>0 DEF Engines, OtherTypes, OwnInv, RestInv, Cleaning
<1>4. AdminInv'
  <2>1. {j \in Threads : engine'[j].pc # "dead"} = {j \in Threads : engine[j].pc # "dead"}
    BY <1>0 DEF Engines
  <2> QED BY <1>0, <2>1 DEF Users, Engines, AdminInv, Calling
<1>5. StatusInv'
  BY <1>0 DEF Users, Contexts, OtherTypes, OwnInv, RestInv, StatusInv, Cleaning, Accepted
<1>6. CallbackOnce'
  BY <1>0 DEF Users, Contexts, OtherTypes, OwnInv, RestInv, StatusInv, CallbackOnce, Cleaning, Accepted
<1>7. ~ ConcurrentTeardown => FreeInv'
  BY <1>0 DEF Users, Contexts, Engines, OtherTypes, OwnInv, RestInv, AdminInv, StatusInv, FreeInv, Cleaning, Accepted, Calling
<1> QED BY <1>1, <1>2, <1>3, <1>4, <1>5, <1>6, <1>7

LEMMA DestroyFdsInv ==
  ASSUME IInv, NEW c \in Ctx, DestroyFds(c)
  PROVE  IInv'
<1> USE DEF IInv, Inv, DestroyFds
<1>0. /\ user \in [Ctx -> Users] /\ ctx \in [Ctx -> Contexts]
      /\ engine \in [Threads -> Engines] /\ OtherTypes
  BY TypeParts
<1>1. TypeOK'
  <2>1. user' \in [Ctx -> Users]
    BY <1>0 DEF Users
  <2>2. [ctx[c] EXCEPT !.open = FALSE] \in Contexts
    <3>1. ctx[c] \in Contexts
      BY <1>0
    <3> QED BY <3>1 DEF Contexts
  <2>3. ctx' = [ctx EXCEPT ![c] = [ctx[c] EXCEPT !.open = FALSE]]
    BY <1>0
  <2>4. ctx' \in [Ctx -> Contexts]
    BY <1>0, <2>2, <2>3, ContextUpdate
  <2>5. OtherTypes'
    BY <1>0 DEF OtherTypes
  <2> QED BY <1>0, <2>1, <2>4, <2>5 DEF TypeOK, Users, Contexts, Engines, OtherTypes
<1>2. OwnInv'
  BY <1>0 DEF Users, Contexts, Engines, OtherTypes, OwnInv, RestInv, AdminInv, StatusInv, Cleaning, Accepted
<1>3. RestInv'
  BY <1>0 DEF Engines, OtherTypes, OwnInv, RestInv, Cleaning
<1>4. AdminInv'
  <2>1. {j \in Threads : engine'[j].pc # "dead"} = {j \in Threads : engine[j].pc # "dead"}
    BY <1>0 DEF Engines
  <2> QED BY <1>0, <2>1 DEF Users, Engines, AdminInv, Calling
<1>5. StatusInv'
  BY <1>0 DEF Users, Contexts, OtherTypes, OwnInv, RestInv, StatusInv, Cleaning, Accepted
<1>6. CallbackOnce'
  BY <1>0 DEF Users, Contexts, OtherTypes, OwnInv, RestInv, StatusInv, CallbackOnce, Cleaning, Accepted
<1>7. ~ ConcurrentTeardown => FreeInv'
  BY <1>0 DEF Users, Contexts, Engines, OtherTypes, OwnInv, RestInv, AdminInv, StatusInv, FreeInv, Cleaning, Accepted, Calling
<1> QED BY <1>1, <1>2, <1>3, <1>4, <1>5, <1>6, <1>7

LEMMA DestroyMarkInv ==
  ASSUME IInv, NEW c \in Ctx, DestroyMark(c)
  PROVE  IInv'
<1> USE DEF IInv, Inv, DestroyMark
<1>0. /\ user \in [Ctx -> Users] /\ ctx \in [Ctx -> Contexts]
      /\ engine \in [Threads -> Engines] /\ OtherTypes
  BY TypeParts
<1>1. TypeOK'
  <2>1. user' \in [Ctx -> Users]
    BY <1>0 DEF Users
  <2>2. [ctx[c] EXCEPT !.destroyed = TRUE] \in Contexts
    <3>1. ctx[c] \in Contexts
      BY <1>0
    <3> QED BY <3>1 DEF Contexts
  <2>3. ctx' = [ctx EXCEPT ![c] = [ctx[c] EXCEPT !.destroyed = TRUE]]
    BY <1>0
  <2>4. ctx' \in [Ctx -> Contexts]
    BY <1>0, <2>2, <2>3, ContextUpdate
  <2>5. OtherTypes'
    BY <1>0 DEF OtherTypes
  <2> QED BY <1>0, <2>1, <2>4, <2>5 DEF TypeOK, Users, Contexts, Engines, OtherTypes
<1>2. OwnInv'
  BY <1>0 DEF Users, Contexts, Engines, OtherTypes, OwnInv, RestInv, AdminInv, StatusInv, Cleaning, Accepted
<1>3. RestInv'
  BY <1>0 DEF Engines, OtherTypes, OwnInv, RestInv, Cleaning
<1>4. AdminInv'
  <2>1. {j \in Threads : engine'[j].pc # "dead"} = {j \in Threads : engine[j].pc # "dead"}
    BY <1>0 DEF Engines
  <2> QED BY <1>0, <2>1 DEF Users, Engines, AdminInv, Calling
<1>5. StatusInv'
  BY <1>0 DEF Users, Contexts, OtherTypes, OwnInv, RestInv, StatusInv, Cleaning, Accepted
<1>6. CallbackOnce'
  BY <1>0 DEF Users, Contexts, OtherTypes, OwnInv, RestInv, StatusInv, CallbackOnce, Cleaning, Accepted
<1>7. ~ ConcurrentTeardown => FreeInv'
  BY <1>0 DEF Users, Contexts, Engines, OtherTypes, OwnInv, RestInv, AdminInv, StatusInv, FreeInv, Cleaning, Accepted, Calling
<1> QED BY <1>1, <1>2, <1>3, <1>4, <1>5, <1>6, <1>7

LEMMA DestroyUnsubmittedInv ==
  ASSUME IInv, NEW c \in Ctx, DestroyUnsubmitted(c)
  PROVE  IInv'
<1> USE DEF IInv, Inv, DestroyUnsubmitted
<1>0. /\ user \in [Ctx -> Users] /\ ctx \in [Ctx -> Contexts]
      /\ engine \in [Threads -> Engines] /\ OtherTypes
  BY TypeParts
<1>1. TypeOK'
  <2>1. user' \in [Ctx -> Users]
    BY <1>0 DEF Users
  <2>2. [ctx[c] EXCEPT !.mem = "freed"] \in Contexts
    <3>1. ctx[c] \in Contexts
      BY <1>0
    <3> QED BY <3>1 DEF Contexts
  <2>3. ctx' = [ctx EXCEPT ![c] = [ctx[c] EXCEPT !.mem = "freed"]]
    BY <1>0
  <2>4. ctx' \in [Ctx -> Contexts]
    BY <1>0, <2>2, <2>3, ContextUpdate
  <2>5. OtherTypes'
    BY <1>0 DEF OtherTypes
  <2> QED BY <1>0, <2>1, <2>4, <2>5 DEF TypeOK, Users, Contexts, Engines, OtherTypes
<1>2. OwnInv'
  BY <1>0 DEF Users, Contexts, Engines, OtherTypes, OwnInv, RestInv, AdminInv, StatusInv, Cleaning, Accepted
<1>3. RestInv'
  BY <1>0 DEF Engines, OtherTypes, OwnInv, RestInv, Cleaning
<1>4. AdminInv'
  <2>1. {j \in Threads : engine'[j].pc # "dead"} = {j \in Threads : engine[j].pc # "dead"}
    BY <1>0 DEF Engines
  <2> QED BY <1>0, <2>1 DEF Users, Engines, AdminInv, Calling
<1>5. StatusInv'
  BY <1>0 DEF Users, Contexts, OtherTypes, OwnInv, RestInv, StatusInv, Cleaning, Accepted
<1>6. CallbackOnce'
  BY <1>0 DEF Users, Contexts, OtherTypes, OwnInv, RestInv, StatusInv, CallbackOnce, Cleaning, Accepted
<1>7. ~ ConcurrentTeardown => FreeInv'
  BY <1>0 DEF Users, Contexts, Engines, OtherTypes, OwnInv, RestInv, AdminInv, StatusInv, FreeInv, Cleaning, Accepted, Calling
<1> QED BY <1>1, <1>2, <1>3, <1>4, <1>5, <1>6, <1>7

-----------------------------------------------------------------------------
(* The engine threads. *)

\* A thread goes from one of its steps to another, outside of the cleanup, and
\* its list keeps what it still has to go through.
LEMMA EngineStep ==
  ASSUME IInv, NEW i \in Threads, NEW e \in Engines,
         engine' = [engine EXCEPT ![i] = e],
         engine[i].pc # "dead",
         e.pc \in {"top", "lock", "process", "poll", "exit"},
         e.rest \subseteq ctxs[i],
         e.pc \in {"top", "lock", "exit"} => e.rest = {},
         ctx' \in [Ctx -> Contexts],
         \A c \in Ctx : UNCHANGED <<ctx[c].mem, ctx[c].status, ctx[c].submitted,
                                    ctx[c].destroyed, ctx[c].req, ctx[c].cb, ctx[c].calls>>,
         UNCHANGED <<user, ctxs, submits, threadCount, toDestroy, gc, quit,
                     admin, teardown, isSetup>>
  PROVE  IInv'
<1> USE DEF IInv, Inv
<1>0. /\ user \in [Ctx -> Users] /\ ctx \in [Ctx -> Contexts]
      /\ engine \in [Threads -> Engines] /\ OtherTypes
  BY TypeParts
<1>1. TypeOK'
  <2>1. engine' \in [Threads -> Engines]
    BY <1>0
  <2> QED BY <1>0, <2>1 DEF TypeOK, Users, Contexts, Engines, OtherTypes
<1>2. \A j \in Threads : engine'[j] = IF j = i THEN e ELSE engine[j]
  BY <1>0
<1>3. \A j \in Threads, c \in Ctx : Cleaning(j, c)' <=> Cleaning(j, c) /\ j # i
  BY <1>2 DEF Cleaning
<1>4. OwnInv'
  BY <1>2, <1>3 DEF OwnInv, Accepted
<1>5. RestInv'
  BY <1>2 DEF RestInv
<1>6. AdminInv'
  <2>1. {j \in Threads : engine'[j].pc # "dead"} = {j \in Threads : engine[j].pc # "dead"}
    BY <1>2
  <2> QED BY <1>2, <2>1 DEF AdminInv, Calling
<1>7. StatusInv'
  BY DEF StatusInv
<1>8. CallbackOnce'
  BY DEF CallbackOnce
<1>9. ~ ConcurrentTeardown => FreeInv'
  BY <1>3 DEF FreeInv
<1> QED BY <1>1, <1>4, <1>5, <1>6, <1>7, <1>8, <1>9

LEMMA EngineTopInv ==
  ASSUME IInv, NEW i \in Threads, EngineTop(i)
  PROVE  IInv'
<1> DEFINE b == engine[i].flag \/ teardown = "clean"
<1>0. /\ engine[i] \in Engines /\ engine[i].pc = "top" /\ engine \in [Threads -> Engines]
      /\ engine[i].rest = {} /\ b \in BOOLEAN /\ ctx' = ctx /\ ctx \in [Ctx -> Contexts]
  BY TypeParts DEF IInv, Inv, RestInv, EngineTop
<1>1. CASE engine' = [engine EXCEPT ![i].pc = "exit"]
  <2>1. [engine[i] EXCEPT !.pc = "exit"] \in Engines
    BY <1>0 DEF Engines
  <2>2. engine' = [engine EXCEPT ![i] = [engine[i] EXCEPT !.pc = "exit"]]
    BY <1>0, <1>1
  <2> QED BY <1>0, <2>1, <2>2, EngineStep DEF EngineTop, Engines
<1>2. CASE engine' = [engine EXCEPT ![i].pc = "lock", ![i].flag = b]
  <2> HIDE DEF b
  <2>1. [engine[i] EXCEPT !.pc = "lock", !.flag = b] \in Engines
    BY <1>0 DEF Engines
  <2>2. engine' = [engine EXCEPT ![i] = [engine[i] EXCEPT !.pc = "lock", !.flag = b]]
    BY <1>0, <1>2
  <2> QED BY <1>0, <2>1, <2>2, EngineStep DEF EngineTop, Engines
<1> QED BY <1>1, <1>2 DEF EngineTop

\* Flags that only close a session change nothing the invariant looks at.
LEMMA ClosingOnly ==
  ASSUME ctx \in [Ctx -> Contexts], NEW f \in [Ctx -> BOOLEAN],
         ctx' = [c \in Ctx |-> [ctx[c] EXCEPT !.closing = f[c]]]
  PROVE  /\ ctx' \in [Ctx -> Contexts]
         /\ \A c \in Ctx : UNCHANGED <<ctx[c].mem, ctx[c].status, ctx[c].submitted,
                                       ctx[c].destroyed, ctx[c].req, ctx[c].cb, ctx[c].calls>>
<1>1. ASSUME NEW c \in Ctx
      PROVE  /\ ctx'[c] \in Contexts
             /\ UNCHANGED <<ctx[c].mem, ctx[c].status, ctx[c].submitted,
                            ctx[c].destroyed, ctx[c].req, ctx[c].cb, ctx[c].calls>>
  <2>1. ctx[c] \in Contexts /\ f[c] \in BOOLEAN /\ ctx'[c] = [ctx[c] EXCEPT !.closing = f[c]]
    BY <1>1
  <2> QED BY <2>1 DEF Contexts
<1> QED BY <1>1

LEMMA EngineLockInv ==
  ASSUME IInv, NEW i \in Threads, EngineLock(i)
  PROVE  IInv'
<1> DEFINE initiate == engine[i].flag /\ ~ engine[i].initiated
           b == engine[i].initiated \/ initiate
           f == [c \in Ctx |-> ctx[c].closing \/ (initiate /\ c \in ctxs[i])]
           e == [engine[i] EXCEPT !.pc = "process", !.held = TRUE, !.initiated = b,
                                  !.rest = ctxs[i], !.count = 0]
<1>0. /\ engine[i] \in Engines /\ engine[i].pc = "lock" /\ engine \in [Threads -> Engines]
      /\ b \in BOOLEAN /\ ctx \in [Ctx -> Contexts] /\ ctxs[i] \in SUBSET Ctx
      /\ f \in [Ctx -> BOOLEAN]
  BY TypeParts DEF IInv, Inv, RestInv, EngineLock, OtherTypes
<1>1. ctx' = [c \in Ctx |-> [ctx[c] EXCEPT !.closing = f[c]]]
  BY DEF EngineLock
<1>2. engine' = [engine EXCEPT ![i] = e]
  BY <1>0 DEF EngineLock
<1> HIDE DEF b, f
<1>3. e \in Engines /\ e.pc = "process" /\ e.rest = ctxs[i]
  BY <1>0 DEF Engines
<1> HIDE DEF e
<1>4. /\ ctx' \in [Ctx -> Contexts]
      /\ \A c \in Ctx : UNCHANGED <<ctx[c].mem, ctx[c].status, ctx[c].submitted,
                                    ctx[c].destroyed, ctx[c].req, ctx[c].cb, ctx[c].calls>>
  BY <1>0, <1>1, ClosingOnly
<1>u. UNCHANGED <<user, ctxs, submits, threadCount, toDestroy, gc, quit, admin,
                  teardown, isSetup>>
  BY DEF EngineLock
<1> QED BY <1>0, <1>2, <1>3, <1>4, <1>u, EngineStep

LEMMA EnginePollInv ==
  ASSUME IInv, NEW i \in Threads, EnginePoll(i)
  PROVE  IInv'
<1> DEFINE f == [c \in Ctx |-> ctx[c].closing \/ (c \in engine[i].rest /\ ~ ctx[c].open)]
           e == [engine[i] EXCEPT !.pc = "top", !.rest = {}]
<1>0. /\ engine[i] \in Engines /\ engine[i].pc = "poll" /\ engine \in [Threads -> Engines]
      /\ ctx \in [Ctx -> Contexts] /\ f \in [Ctx -> BOOLEAN]
  BY TypeParts DEF IInv, Inv, EnginePoll
<1>1. ctx' = [c \in Ctx |-> [ctx[c] EXCEPT !.closing = f[c]]]
  BY DEF EnginePoll
<1>2. engine' = [engine EXCEPT ![i] = e]
  BY <1>0 DEF EnginePoll
<1> HIDE DEF f
<1>3. e \in Engines /\ e.pc = "top" /\ e.rest = {}
  BY <1>0 DEF Engines
<1> HIDE DEF e
<1>4. /\ ctx' \in [Ctx -> Contexts]
      /\ \A c \in Ctx : UNCHANGED <<ctx[c].mem, ctx[c].status, ctx[c].submitted,
                                    ctx[c].destroyed, ctx[c].req, ctx[c].cb, ctx[c].calls>>
  BY <1>0, <1>1, ClosingOnly
<1> QED BY <1>0, <1>2, <1>3, <1>4, EngineStep DEF EnginePoll

LEMMA EngineUnlockInv ==
  ASSUME IInv, NEW i \in Threads, EngineUnlock(i)
  PROVE  IInv'
<1> DEFINE e == [engine[i] EXCEPT !.pc = "process"]
<1>0. /\ engine[i] \in Engines /\ engine[i].pc = "unlock" /\ engine \in [Threads -> Engines]
      /\ engine[i].rest \subseteq ctxs[i] /\ ctx' = ctx /\ ctx \in [Ctx -> Contexts]
  BY TypeParts DEF IInv, Inv, RestInv, EngineUnlock
<1>1. e \in Engines /\ e.pc = "process" /\ e.rest = engine[i].rest
  BY <1>0 DEF Engines
<1>2. engine' = [engine EXCEPT ![i] = e]
  BY <1>0 DEF EngineUnlock
<1> HIDE DEF e
<1> QED BY <1>0, <1>1, <1>2, EngineStep DEF EngineUnlock

LEMMA EngineDoneInv ==
  ASSUME IInv, NEW i \in Threads, EngineDone(i)
  PROVE  IInv'
<1> DEFINE n == engine[i].count
           l == IF n = 0 THEN "top" ELSE "poll"
           b == n = 0 /\ engine[i].flag
           s == IF n = 0 THEN {} ELSE ctxs[i]
           e == [engine[i] EXCEPT !.pc = l, !.held = b, !.rest = s]
<1>0. /\ engine[i] \in Engines /\ engine[i].pc = "process" /\ engine \in [Threads -> Engines]
      /\ ctx' = ctx /\ ctx \in [Ctx -> Contexts]
      /\ b \in BOOLEAN /\ l \in {"top", "poll"} /\ s \subseteq ctxs[i] /\ s \in SUBSET Ctx
      /\ l = "top" => s = {}
  BY TypeParts DEF IInv, Inv, OtherTypes, EngineDone
<1>1. engine' = [engine EXCEPT ![i] = e]
  BY <1>0 DEF EngineDone
<1> HIDE DEF l, b, s
<1>2. e \in Engines /\ e.pc = l /\ e.rest = s
  BY <1>0 DEF Engines
<1> HIDE DEF e
<1>u. UNCHANGED <<user, ctxs, submits, threadCount, toDestroy, gc, quit, admin,
                  teardown, isSetup>>
  BY DEF EngineDone
<1> QED BY <1>0, <1>1, <1>2, <1>u, EngineStep

\* A session that comes up or ends: its status, and its callback if it has one.
LEMMA Outcome ==
  ASSUME NEW r \in Contexts, NEW note \in {"error", "deactivated"}
  PROVE  /\ Finished(r, note) \in Contexts /\ Established(r) \in Contexts
         /\ \A q \in {Finished(r, note), Established(r)} :
              /\ q.mem = r.mem /\ q.submitted = r.submitted
              /\ q.destroyed = r.destroyed /\ q.cb = r.cb
              /\ r.req = "off" => q.req = "off"
              /\ r.req = "waiting" => q.calls = r.calls
              /\ q.status \in {"established", "error"}
         /\ r.status = "established" => Finished(r, note) = r
         /\ r.status # "established" /\ r.req # "waiting" =>
              Finished(r, note).calls = IF r.cb THEN r.calls + 1 ELSE r.calls
         /\ r.req # "waiting" =>
              Established(r).calls = IF r.cb THEN r.calls + 1 ELSE r.calls
         /\ Established(r).status = "established"
<1> DEFINE n == IF r.cb THEN r.calls + 1 ELSE r.calls
<1>0. n \in Nat
  BY DEF Contexts
<1>1. /\ r.req = "waiting" /\ r.status # "established" =>
           Finished(r, note) = [r EXCEPT !.status = "error", !.note = note]
      /\ r.req # "waiting" /\ r.status # "established" =>
           Finished(r, note) = [r EXCEPT !.status = "error", !.calls = n]
      /\ r.status = "established" => Finished(r, note) = r
  BY DEF Finished
<1>2. /\ r.req = "waiting" =>
           Established(r) = [r EXCEPT !.status = "established", !.note = "established",
                                      !.req = "told"]
      /\ r.req # "waiting" =>
           Established(r) = [r EXCEPT !.status = "established", !.calls = n]
  BY DEF Established
<1>3. /\ [r EXCEPT !.status = "error", !.note = note] \in Contexts
      /\ [r EXCEPT !.status = "error", !.calls = n] \in Contexts
      /\ [r EXCEPT !.status = "established", !.note = "established", !.req = "told"] \in Contexts
      /\ [r EXCEPT !.status = "established", !.calls = n] \in Contexts
  <2> HIDE DEF n
  <2> QED BY <1>0 DEF Contexts
<1>4. Finished(r, note) \in Contexts
  BY <1>1, <1>3
<1>5. Established(r) \in Contexts
  BY <1>2, <1>3
<1>6. r.status # "established" =>
         /\ Finished(r, note).status = "error"
         /\ r.req # "waiting" => Finished(r, note).calls = n
         /\ r.req = "waiting" => Finished(r, note).calls = r.calls
         /\ Finished(r, note).mem = r.mem /\ Finished(r, note).submitted = r.submitted
         /\ Finished(r, note).destroyed = r.destroyed /\ Finished(r, note).cb = r.cb
         /\ Finished(r, note).req = r.req
  <2> HIDE DEF n
  <2> QED BY <1>1 DEF Contexts
<1>7. /\ Established(r).status = "established"
      /\ r.req # "waiting" => Established(r).calls = n /\ Established(r).req = r.req
      /\ r.req = "waiting" => Established(r).calls = r.calls
      /\ Established(r).mem = r.mem /\ Established(r).submitted = r.submitted
      /\ Established(r).destroyed = r.destroyed /\ Established(r).cb = r.cb
  <2> HIDE DEF n
  <2> QED BY <1>2 DEF Contexts
<1> QED BY <1>1, <1>4, <1>5, <1>6, <1>7

\* The session of a context on a list of the engine has an outcome q: its
\* callback was still due.
LEMMA OutcomeOnce ==
  ASSUME IInv, NEW c \in Ctx, \E i \in Threads : c \in ctxs[i],
         NEW note \in {"error", "deactivated"}, NEW q,
         q \in {Finished(ctx[c], note), Established(ctx[c])},
         q = Finished(ctx[c], note) \/ ctx[c].status # "established"
  PROVE  /\ q \in Contexts
         /\ q.mem = ctx[c].mem /\ q.submitted = ctx[c].submitted
         /\ q.destroyed = ctx[c].destroyed /\ q.cb = (c \notin Blocking)
         /\ c \notin Blocking => q.req = "off"
         /\ q.submitted /\ user[c].pc \in Accepted
         /\ q.status \in {"established", "error"}
         /\ q.calls = IF c \notin Blocking THEN 1 ELSE 0
<1>0. ctx[c] \in Contexts
  BY TypeParts DEF IInv, Inv
<1>1. /\ ctx[c].submitted /\ user[c].pc \in Accepted
      /\ ctx[c].status # "error" /\ ctx[c].cb = (c \notin Blocking)
      /\ c \notin Blocking => ctx[c].req = "off"
  BY DEF IInv, Inv, OwnInv, StatusInv
<1>2. ctx[c].calls = IF c \notin Blocking /\ ctx[c].status = "established" THEN 1 ELSE 0
  BY <1>1 DEF IInv, Inv, CallbackOnce
<1>3. ctx[c].cb <=> c \notin Blocking
  BY <1>1
<1>4. /\ q \in Contexts
      /\ q.mem = ctx[c].mem /\ q.submitted = ctx[c].submitted
      /\ q.destroyed = ctx[c].destroyed /\ q.cb = ctx[c].cb
      /\ ctx[c].req = "off" => q.req = "off"
      /\ q.status \in {"established", "error"}
  BY <1>0, Outcome
<1>5. q.calls = IF c \notin Blocking THEN 1 ELSE 0
  <2>1. CASE ctx[c].status = "established"
    BY <1>0, <1>2, <2>1, Outcome
  <2>2. CASE ctx[c].status # "established" /\ ctx[c].req = "waiting"
    BY <1>0, <1>1, <1>2, <2>2, Outcome
  <2>3. CASE ctx[c].status # "established" /\ ctx[c].req # "waiting"
    <3>1. q.calls = IF ctx[c].cb THEN ctx[c].calls + 1 ELSE ctx[c].calls
      BY <1>0, <2>3, Outcome
    <3> QED BY <1>2, <1>3, <2>3, <3>1
  <2> QED BY <2>1, <2>2, <2>3
<1> QED BY <1>1, <1>4, <1>5

LEMMA EngineStayInv ==
  ASSUME IInv, NEW i \in Threads, NEW c \in Ctx, EngineStay(i, c)
  PROVE  IInv'
<1> DEFINE n == engine[i].count + 1
           s == engine[i].rest \ {c}
           e == [engine[i] EXCEPT !.rest = s, !.count = n]
<1>0. /\ user \in [Ctx -> Users] /\ ctx \in [Ctx -> Contexts]
      /\ engine \in [Threads -> Engines] /\ OtherTypes
  BY TypeParts DEF IInv, Inv
<1>1. /\ engine[i] \in Engines /\ engine[i].pc = "process" /\ n \in Nat
      /\ engine[i].rest \subseteq ctxs[i] /\ s \subseteq ctxs[i] /\ s \in SUBSET Ctx
      /\ c \in ctxs[i]
  BY <1>0 DEF IInv, Inv, RestInv, EngineStay, Engines
<1>2. engine' = [engine EXCEPT ![i] = e]
  BY <1>0 DEF EngineStay
<1>u. UNCHANGED <<user, ctxs, submits, threadCount, toDestroy, gc, quit, admin,
                  teardown, isSetup>>
  BY DEF EngineStay
<1> HIDE DEF n, s
<1>3. e \in Engines /\ e.pc = "process" /\ e.rest = s
  BY <1>1 DEF Engines
<1> HIDE DEF e
<1>4. CASE UNCHANGED ctx
  BY <1>0, <1>1, <1>2, <1>3, <1>4, <1>u, EngineStep
<1>5. CASE ctx[c].status # "established" /\ ctx' = [ctx EXCEPT ![c] = Established(@)]
  <2> DEFINE q == Established(ctx[c])
  <2>1. /\ q \in Contexts
        /\ q.mem = ctx[c].mem /\ q.submitted = ctx[c].submitted
        /\ q.destroyed = ctx[c].destroyed /\ q.cb = (c \notin Blocking)
        /\ c \notin Blocking => q.req = "off"
        /\ q.submitted /\ user[c].pc \in Accepted
        /\ q.calls = IF c \notin Blocking THEN 1 ELSE 0
    BY <1>1, <1>5, OutcomeOnce
  <2>2. q.status = "established"
    BY <1>0, Outcome
  <2> HIDE DEF q
  <2>3. /\ ctx' \in [Ctx -> Contexts]
        /\ \A d \in Ctx : ctx'[d] = IF d = c THEN q ELSE ctx[d]
    BY <1>0, <1>5, <2>1 DEF q
  <2>4. \A j \in Threads : engine'[j] = IF j = i THEN e ELSE engine[j]
    BY <1>0, <1>2
  <2>5. \A j \in Threads, d \in Ctx : Cleaning(j, d)' <=> Cleaning(j, d)
    BY <1>1, <1>3, <2>4 DEF Cleaning
  <2> USE DEF IInv, Inv
  <2>6. TypeOK'
    <3>1. engine' \in [Threads -> Engines]
      BY <1>0, <1>2, <1>3
    <3> QED BY <1>0, <1>u, <2>3, <3>1 DEF TypeOK, Users, Contexts, Engines, OtherTypes
  <2>7. OwnInv'
    BY <1>u, <1>1, <1>3, <2>1, <2>3, <2>4, <2>5 DEF OwnInv
  <2>8. RestInv'
    BY <1>u, <1>1, <1>3, <2>4 DEF RestInv
  <2>9. AdminInv'
    <3>1. {j \in Threads : engine'[j].pc # "dead"} = {j \in Threads : engine[j].pc # "dead"}
      BY <1>1, <1>3, <2>4
    <3> QED BY <1>u, <1>1, <1>3, <2>4, <3>1 DEF AdminInv, Calling
  <2>10. StatusInv'
    BY <1>u, <2>1, <2>2, <2>3 DEF StatusInv, Accepted
  <2>11. CallbackOnce'
    BY <2>1, <2>2, <2>3 DEF CallbackOnce
  <2>12. ~ ConcurrentTeardown => FreeInv'
    BY <1>u, <2>1, <2>3, <2>5 DEF FreeInv
  <2> QED BY <2>6, <2>7, <2>8, <2>9, <2>10, <2>11, <2>12
<1> QED BY <1>4, <1>5 DEF EngineStay

LEMMA EngineDropInv ==
  ASSUME IInv, NEW i \in Threads, NEW c \in Ctx, EngineDrop(i, c)
  PROVE  IInv'
<1> USE DEF IInv, Inv
<1> DEFINE s == engine[i].rest \ {c}
           e == [engine[i] EXCEPT !.rest = s, !.pc = "mark", !.cur = c]
<1>0. /\ user \in [Ctx -> Users] /\ ctx \in [Ctx -> Contexts]
      /\ engine \in [Threads -> Engines] /\ OtherTypes
  BY TypeParts
<1>1. /\ engine[i] \in Engines /\ engine[i].pc = "process"
      /\ engine[i].rest \subseteq ctxs[i] /\ s \in SUBSET Ctx
      /\ c \in ctxs[i] /\ s \subseteq ctxs[i] \ {c}
  BY <1>0 DEF RestInv, EngineDrop, Engines
<1>2. engine' = [engine EXCEPT ![i] = e]
  BY <1>0 DEF EngineDrop
<1>u. UNCHANGED <<user, submits, threadCount, toDestroy, gc, quit, admin, teardown, isSetup>>
  BY DEF EngineDrop
<1> HIDE DEF s
<1>3. e \in Engines /\ e.pc = "mark" /\ e.rest = s /\ e.cur = c
  BY <1>1 DEF Engines
<1> HIDE DEF e
<1>4. PICK note \in {"error", "deactivated"} : ctx' = [ctx EXCEPT ![c] = Finished(@, note)]
  BY DEF EngineDrop, Notes
<1> DEFINE q == Finished(ctx[c], note)
<1>5. /\ q \in Contexts
      /\ q.mem = ctx[c].mem /\ q.submitted = ctx[c].submitted
      /\ q.destroyed = ctx[c].destroyed /\ q.cb = (c \notin Blocking)
      /\ c \notin Blocking => q.req = "off"
      /\ q.submitted /\ user[c].pc \in Accepted
      /\ q.status \in {"established", "error"}
      /\ q.calls = IF c \notin Blocking THEN 1 ELSE 0
  BY <1>1, OutcomeOnce
<1> HIDE DEF q
<1>6. /\ ctx' \in [Ctx -> Contexts]
      /\ \A d \in Ctx : ctx'[d] = IF d = c THEN q ELSE ctx[d]
  BY <1>0, <1>4, <1>5 DEF q
<1>7. \A j \in Threads : engine'[j] = IF j = i THEN e ELSE engine[j]
  BY <1>0, <1>2
<1>8. /\ ctxs' \in [Threads -> SUBSET Ctx]
      /\ \A j \in Threads : ctxs'[j] = ctxs[j] \ {d \in {c} : j = i}
  BY <1>0 DEF EngineDrop, OtherTypes
<1>9. \A j \in Threads, d \in Ctx :
         Cleaning(j, d)' <=> Cleaning(j, d) \/ (j = i /\ d = c)
  BY <1>1, <1>3, <1>7 DEF Cleaning
<1>10. TypeOK'
  <2>1. engine' \in [Threads -> Engines]
    BY <1>0, <1>2, <1>3
  <2> QED BY <1>0, <1>u, <1>6, <1>8, <2>1 DEF TypeOK, Users, Contexts, Engines, OtherTypes
<1>11. OwnInv'
  BY <1>u, <1>1, <1>3, <1>5, <1>6, <1>7, <1>8, <1>9 DEF OwnInv
<1>12. RestInv'
  <2>1. \A j \in Threads : engine'[j].rest \subseteq ctxs'[j]
    BY <1>1, <1>3, <1>7, <1>8 DEF RestInv
  <2> QED BY <1>u, <1>3, <1>7, <2>1 DEF RestInv
<1>13. AdminInv'
  <2>1. {j \in Threads : engine'[j].pc # "dead"} = {j \in Threads : engine[j].pc # "dead"}
    BY <1>1, <1>3, <1>7
  <2> QED BY <1>u, <1>1, <1>3, <1>7, <2>1 DEF AdminInv, Calling
<1>14. StatusInv'
  BY <1>u, <1>1, <1>5, <1>6, <1>8 DEF StatusInv, OwnInv, Accepted
<1>15. CallbackOnce'
  BY <1>5, <1>6 DEF CallbackOnce
<1>16. ~ ConcurrentTeardown => FreeInv'
  BY <1>u, <1>1, <1>5, <1>6, <1>8, <1>9 DEF FreeInv
<1> QED BY <1>10, <1>11, <1>12, <1>13, <1>14, <1>15, <1>16

LEMMA EngineMarkInv ==
  ASSUME IInv, NEW i \in Threads, EngineMark(i)
  PROVE  IInv'
<1> USE DEF IInv, Inv
<1> DEFINE c == engine[i].cur
<1>0. /\ user \in [Ctx -> Users] /\ ctx \in [Ctx -> Contexts]
      /\ engine \in [Threads -> Engines] /\ OtherTypes
  BY TypeParts
<1>1. /\ engine[i] \in Engines /\ engine[i].pc = "mark" /\ c \in Ctx
      /\ engine[i].rest \subseteq ctxs[i] /\ ctx[c] \in Contexts
  BY <1>0 DEF RestInv, EngineMark
<1>u. UNCHANGED <<user, ctxs, submits, threadCount, toDestroy, gc, quit, admin,
                  teardown, isSetup>>
  BY DEF EngineMark
<1>2. /\ c \notin toDestroy /\ \A j \in Threads : c \notin ctxs[j]
      /\ \A j \in Threads : Cleaning(j, c) => j = i
  BY <1>1 DEF OwnInv, Cleaning
<1>3. PICK l \in {"process", "move"}, q \in Contexts :
        /\ engine' = [engine EXCEPT ![i].pc = l]
        /\ ctx' = [ctx EXCEPT ![c] = q]
        /\ q.submitted = ctx[c].submitted /\ q.destroyed = ctx[c].destroyed
        /\ q.status = ctx[c].status /\ q.req = ctx[c].req
        /\ q.cb = ctx[c].cb /\ q.calls = ctx[c].calls
        /\ q.mem # ctx[c].mem => ctx[c].destroyed /\ l = "process"
  <2>1. CASE /\ ctx[c].destroyed
             /\ ctx' = [ctx EXCEPT ![c].mem = "freed"]
             /\ engine' = [engine EXCEPT ![i].pc = "process"]
    <3> DEFINE q == [ctx[c] EXCEPT !.mem = "freed"]
    <3>1. /\ q \in Contexts
          /\ q.submitted = ctx[c].submitted /\ q.destroyed = ctx[c].destroyed
          /\ q.status = ctx[c].status /\ q.req = ctx[c].req
          /\ q.cb = ctx[c].cb /\ q.calls = ctx[c].calls
      BY <1>1 DEF Contexts
    <3>2. ctx' = [ctx EXCEPT ![c] = q]
      BY <1>0, <2>1
    <3> HIDE DEF q
    <3> QED BY <2>1, <3>1, <3>2
  <2>2. CASE /\ ~ ctx[c].destroyed /\ ~ ctx[c].moved
             /\ ctx' = [ctx EXCEPT ![c].moved = TRUE]
             /\ engine' = [engine EXCEPT ![i].pc = "move"]
    <3> DEFINE q == [ctx[c] EXCEPT !.moved = TRUE]
    <3>1. /\ q \in Contexts /\ q.mem = ctx[c].mem
          /\ q.submitted = ctx[c].submitted /\ q.destroyed = ctx[c].destroyed
          /\ q.status = ctx[c].status /\ q.req = ctx[c].req
          /\ q.cb = ctx[c].cb /\ q.calls = ctx[c].calls
      BY <1>1 DEF Contexts
    <3>2. ctx' = [ctx EXCEPT ![c] = q]
      BY <1>0, <2>2
    <3> HIDE DEF q
    <3> QED BY <2>2, <3>1, <3>2
  <2> QED BY <2>1, <2>2 DEF EngineMark
<1> HIDE DEF c
<1>4. /\ ctx' \in [Ctx -> Contexts]
      /\ \A d \in Ctx : ctx'[d] = IF d = c THEN q ELSE ctx[d]
  BY <1>0, <1>1, <1>3
<1>5. \A j \in Threads :
        /\ engine'[j].rest = engine[j].rest /\ engine'[j].cur = engine[j].cur
        /\ engine'[j].pc = IF j = i THEN l ELSE engine[j].pc
  BY <1>0, <1>1, <1>3 DEF Engines
<1>6. \A j \in Threads, d \in Ctx :
         Cleaning(j, d)' <=> Cleaning(j, d) /\ ~ (j = i /\ l = "process")
  BY <1>1, <1>5 DEF Cleaning, c
<1>7. TypeOK'
  <2>1. engine' \in [Threads -> Engines]
    BY <1>0, <1>3 DEF Engines
  <2> QED BY <1>0, <1>u, <1>4, <2>1 DEF TypeOK, Users, Contexts, Engines, OtherTypes
<1>8. OwnInv'
  BY <1>u, <1>1, <1>2, <1>3, <1>4, <1>5, <1>6 DEF OwnInv
<1>9. RestInv'
  BY <1>u, <1>1, <1>5 DEF RestInv, c
<1>10. AdminInv'
  <2>1. {j \in Threads : engine'[j].pc # "dead"} = {j \in Threads : engine[j].pc # "dead"}
    BY <1>1, <1>5
  <2> QED BY <1>u, <1>1, <1>5, <2>1 DEF AdminInv, Calling
<1>11. StatusInv'
  BY <1>u, <1>3, <1>4 DEF StatusInv
<1>12. CallbackOnce'
  BY <1>3, <1>4 DEF CallbackOnce
<1>13. ~ ConcurrentTeardown => FreeInv'
  BY <1>u, <1>1, <1>2, <1>3, <1>4, <1>6 DEF FreeInv, StatusInv
<1> QED BY <1>7, <1>8, <1>9, <1>10, <1>11, <1>12, <1>13

LEMMA EngineMoveInv ==
  ASSUME IInv, NEW i \in Threads, EngineMove(i)
  PROVE  IInv'
<1> USE DEF IInv, Inv
<1> DEFINE c == engine[i].cur
<1>0. /\ user \in [Ctx -> Users] /\ ctx \in [Ctx -> Contexts]
      /\ engine \in [Threads -> Engines] /\ OtherTypes
  BY TypeParts
<1>1. /\ engine[i] \in Engines /\ engine[i].pc = "move" /\ c \in Ctx
      /\ engine' = [engine EXCEPT ![i].pc = "unlock"]
      /\ toDestroy' = toDestroy \cup {c}
      /\ UNCHANGED <<user, ctx, ctxs, submits, threadCount, gc, quit, admin, teardown, isSetup>>
  BY <1>0 DEF RestInv, EngineMove
<1>2. /\ Cleaning(i, c) /\ \A j \in Threads : c \notin ctxs[j]
      /\ \A j \in Threads : Cleaning(j, c) => j = i
      /\ user[c].pc \in Accepted /\ ctx[c].submitted
  BY <1>1 DEF OwnInv, Cleaning
<1> HIDE DEF c
<1>3. \A j \in Threads :
        /\ engine'[j].rest = engine[j].rest /\ engine'[j].cur = engine[j].cur
        /\ engine'[j].pc = IF j = i THEN "unlock" ELSE engine[j].pc
  BY <1>0, <1>1 DEF Engines
<1>4. \A j \in Threads, d \in Ctx : Cleaning(j, d)' <=> Cleaning(j, d)
  BY <1>1, <1>3 DEF Cleaning
<1>5. TypeOK'
  <2>1. engine' \in [Threads -> Engines]
    BY <1>0, <1>1 DEF Engines
  <2>2. OtherTypes'
    BY <1>0, <1>1 DEF OtherTypes
  <2> QED BY <1>0, <1>1, <2>1, <2>2 DEF TypeOK, Users, Contexts, Engines, OtherTypes
<1>6. OwnInv'
  BY <1>1, <1>2, <1>3, <1>4 DEF OwnInv
<1>7. RestInv'
  BY <1>1, <1>3 DEF RestInv, c
<1>8. AdminInv'
  <2>1. {j \in Threads : engine'[j].pc # "dead"} = {j \in Threads : engine[j].pc # "dead"}
    BY <1>1, <1>3
  <2> QED BY <1>1, <1>3, <2>1 DEF AdminInv, Calling
<1>9. StatusInv'
  BY <1>1 DEF StatusInv
<1>10. CallbackOnce'
  BY <1>1 DEF CallbackOnce
<1>11. ~ ConcurrentTeardown => FreeInv'
  BY <1>1, <1>2, <1>4 DEF FreeInv
<1> QED BY <1>5, <1>6, <1>7, <1>8, <1>9, <1>10, <1>11

LEMMA EngineExitInv ==
  ASSUME IInv, NEW i \in Threads, EngineExit(i)
  PROVE  IInv'
<1> USE DEF IInv, Inv
<1> DEFINE A == {j \in Threads : engine[j].pc # "dead"}
<1>0. /\ user \in [Ctx -> Users] /\ ctx \in [Ctx -> Contexts]
      /\ engine \in [Threads -> Engines] /\ OtherTypes
  BY TypeParts
<1>1. /\ engine[i] \in Engines /\ engine[i].pc = "exit"
      /\ engine' = [engine EXCEPT ![i].pc = "dead"]
      /\ threadCount' = threadCount - 1
      /\ UNCHANGED <<user, ctx, ctxs, submits, toDestroy, gc, quit, admin, teardown, isSetup>>
  BY <1>0 DEF EngineExit
<1>2. \A j \in Threads :
        /\ engine'[j].rest = engine[j].rest /\ engine'[j].cur = engine[j].cur
        /\ engine'[j].pc = IF j = i THEN "dead" ELSE engine[j].pc
  BY <1>0, <1>1 DEF Engines
<1>3. \A j \in Threads, d \in Ctx : Cleaning(j, d)' <=> Cleaning(j, d)
  BY <1>1, <1>2 DEF Cleaning
<1>4. /\ IsFiniteSet(A) /\ Cardinality(A \ {i}) = Cardinality(A) - 1
      /\ Cardinality(A) \in Nat \ {0}
  <2>1. IsFiniteSet(Threads)
    BY LifecycleAssumption, FS_Interval DEF Threads
  <2>2. IsFiniteSet(A) /\ i \in A
    BY <1>1, <2>1, FS_Subset
  <2> QED BY <2>2, FS_RemoveElement, FS_CardinalityType, FS_EmptySet
<1>5. {j \in Threads : engine'[j].pc # "dead"} = A \ {i}
  BY <1>1, <1>2
<1>6. threadCount = Cardinality(A)
  BY DEF AdminInv
<1>7. TypeOK'
  <2>1. engine' \in [Threads -> Engines]
    BY <1>0, <1>1 DEF Engines
  <2>2. OtherTypes'
    BY <1>0, <1>1, <1>4, <1>6, LifecycleAssumption DEF OtherTypes
  <2> QED BY <1>0, <1>1, <2>1, <2>2 DEF TypeOK, Users, Contexts, Engines, OtherTypes
<1>8. OwnInv'
  BY <1>1, <1>2, <1>3 DEF OwnInv, Cleaning
<1>9. RestInv'
  BY <1>1, <1>2 DEF RestInv
<1>10. AdminInv'
  BY <1>1, <1>2, <1>4, <1>5, <1>6 DEF AdminInv, Calling
<1>11. StatusInv'
  BY <1>1 DEF StatusInv
<1>12. CallbackOnce'
  BY <1>1 DEF CallbackOnce
<1>13. ~ ConcurrentTeardown => FreeInv'
  BY <1>1, <1>3 DEF FreeInv
<1> QED BY <1>7, <1>8, <1>9, <1>10, <1>11, <1>12, <1>13

LEMMA EngineInv ==
  ASSUME IInv, NEW i \in Threads, Engine(i)
  PROVE  IInv'
  BY EngineTopInv, EngineLockInv, EngineMarkInv, EngineMoveInv, EngineUnlockInv, EngineDoneInv,
     EnginePollInv, EngineExitInv, EngineStayInv, EngineDropInv
     DEF Engine

-----------------------------------------------------------------------------
(* The garbage collector and the teardown. *)

LEMMA GcWakeDoneInv ==
  ASSUME IInv, GcWake \/ GcDone
  PROVE  IInv'
<1> USE DEF IInv, Inv
<1>0. /\ user \in [Ctx -> Users] /\ ctx \in [Ctx -> Contexts]
      /\ engine \in [Threads -> Engines] /\ OtherTypes
  BY TypeParts
<1>1. /\ UNCHANGED <<user, ctx, engine, ctxs, submits, threadCount, toDestroy, quit, admin,
                     teardown, isSetup>>
      /\ gc' \in [pc : {"wait", "scan", "dead"}, rest : SUBSET Ctx]
      /\ gc'.rest \subseteq toDestroy /\ (gc'.pc # "scan" => gc'.rest = {})
      /\ gc.pc # "dead"
  <2>1. gc \in [pc : {"wait", "scan", "dead"}, rest : SUBSET Ctx] /\ toDestroy \in SUBSET Ctx
    BY <1>0 DEF OtherTypes
  <2>2. CASE GcWake
    BY <2>1, <2>2 DEF GcWake, RestInv
  <2>3. CASE GcDone
    BY <2>1, <2>3 DEF GcDone, RestInv
  <2> QED BY <2>2, <2>3
<1>2. TypeOK'
  BY <1>0, <1>1 DEF TypeOK, Users, Contexts, Engines, OtherTypes
<1>3. OwnInv'
  BY <1>1 DEF OwnInv, Cleaning
<1>4. RestInv' /\ AdminInv' /\ StatusInv'
  BY <1>1 DEF RestInv, AdminInv, StatusInv, Calling
<1>5. CallbackOnce' /\ (~ ConcurrentTeardown => FreeInv')
  BY <1>1 DEF CallbackOnce, FreeInv, Cleaning
<1> QED BY <1>2, <1>3, <1>4, <1>5

LEMMA GcScanInv ==
  ASSUME IInv, NEW c \in Ctx, GcScan(c)
  PROVE  IInv'
<1> USE DEF IInv, Inv
<1>0. /\ user \in [Ctx -> Users] /\ ctx \in [Ctx -> Contexts]
      /\ engine \in [Threads -> Engines] /\ OtherTypes
  BY TypeParts
<1>1. /\ gc \in [pc : {"wait", "scan", "dead"}, rest : SUBSET Ctx] /\ toDestroy \in SUBSET Ctx
      /\ gc.pc = "scan" /\ c \in gc.rest /\ c \in toDestroy /\ ctx[c] \in Contexts
      /\ gc' = [gc EXCEPT !.rest = @ \ {c}]
      /\ UNCHANGED <<user, engine, ctxs, submits, threadCount, quit, admin, teardown, isSetup>>
  BY <1>0 DEF GcScan, OtherTypes, RestInv
<1>2. /\ gc' \in [pc : {"wait", "scan", "dead"}, rest : SUBSET Ctx]
      /\ gc'.pc = "scan" /\ gc'.rest = gc.rest \ {c}
  BY <1>1
<1>3. \A i \in Threads : c \notin ctxs[i] /\ ~ Cleaning(i, c)
  BY <1>1 DEF GcScan, DestroyedLocked, OwnInv, Cleaning
<1>4. PICK q \in Contexts :
        /\ ctx' = [ctx EXCEPT ![c] = q]
        /\ q.submitted = ctx[c].submitted /\ q.destroyed = ctx[c].destroyed
        /\ q.status = ctx[c].status /\ q.req = ctx[c].req
        /\ q.cb = ctx[c].cb /\ q.calls = ctx[c].calls
        /\ \/ ctx[c].destroyed /\ toDestroy' = toDestroy \ {c}
           \/ q.mem = ctx[c].mem /\ toDestroy' = toDestroy
  <2>1. CASE /\ ctx[c].destroyed
             /\ ctx' = [ctx EXCEPT ![c].mem = "freed"]
             /\ toDestroy' = toDestroy \ {c}
    <3> DEFINE q == [ctx[c] EXCEPT !.mem = "freed"]
    <3>1. /\ q \in Contexts
          /\ q.submitted = ctx[c].submitted /\ q.destroyed = ctx[c].destroyed
          /\ q.status = ctx[c].status /\ q.req = ctx[c].req
          /\ q.cb = ctx[c].cb /\ q.calls = ctx[c].calls
      BY <1>1 DEF Contexts
    <3>2. ctx' = [ctx EXCEPT ![c] = q]
      BY <1>0, <2>1
    <3> HIDE DEF q
    <3> QED BY <2>1, <3>1, <3>2
  <2>2. CASE UNCHANGED <<ctx, toDestroy>>
    <3>1. ctx' = [ctx EXCEPT ![c] = ctx[c]]
      BY <1>0, <2>2
    <3> QED BY <1>1, <2>2, <3>1
  <2> QED BY <2>1, <2>2 DEF GcScan
<1>5. /\ ctx' \in [Ctx -> Contexts]
      /\ \A d \in Ctx : ctx'[d] = IF d = c THEN q ELSE ctx[d]
  BY <1>0, <1>1, <1>4
<1>6. toDestroy' \in SUBSET toDestroy /\ \A d \in Ctx \ {c} : d \in toDestroy => d \in toDestroy'
  BY <1>4
<1>7. TypeOK'
  BY <1>0, <1>1, <1>2, <1>5, <1>6 DEF TypeOK, Users, Contexts, Engines, OtherTypes
<1>8. OwnInv'
  BY <1>1, <1>4, <1>5, <1>6 DEF OwnInv, Cleaning
<1>9. RestInv'
  BY <1>1, <1>2, <1>6 DEF RestInv
<1>10. AdminInv'
  BY <1>1, <1>2 DEF AdminInv, Calling
<1>11. StatusInv'
  BY <1>1, <1>4, <1>5 DEF StatusInv
<1>12. CallbackOnce'
  BY <1>4, <1>5 DEF CallbackOnce
<1>13. ~ ConcurrentTeardown => FreeInv'
  BY <1>1, <1>3, <1>4, <1>5, <1>6 DEF FreeInv, StatusInv, Cleaning
<1> QED BY <1>7, <1>8, <1>9, <1>10, <1>11, <1>12, <1>13

\* The steps of the teardown that only wait.
LEMMA TeardownWaitInv ==
  ASSUME IInv, TeardownStart \/ TeardownThreads \/ TeardownGc
  PROVE  IInv'
<1> USE DEF IInv, Inv
<1>0. /\ user \in [Ctx -> Users] /\ ctx \in [Ctx -> Contexts]
      /\ engine \in [Threads -> Engines] /\ OtherTypes
  BY TypeParts
<1>1. /\ UNCHANGED <<user, ctx, engine, ctxs, submits, threadCount, toDestroy, gc, isSetup>>
      /\ quit' \in BOOLEAN /\ teardown' \in {"no", "clean", "immediate"}
      /\ admin' \in {"threads", "gc", "lists"} /\ admin # "done"
  BY <1>0 DEF TeardownStart, TeardownThreads, TeardownGc, OtherTypes
<1>2. TypeOK'
  BY <1>0, <1>1 DEF TypeOK, Users, Contexts, Engines, OtherTypes
<1>3. OwnInv' /\ RestInv' /\ StatusInv' /\ CallbackOnce'
  BY <1>1 DEF OwnInv, RestInv, StatusInv, CallbackOnce, Cleaning
<1>4. AdminInv'
  <2>1. CASE TeardownStart
    BY <1>1, <2>1 DEF TeardownStart, AdminInv, Calling
  <2>2. CASE TeardownThreads
    <3> DEFINE A == {j \in Threads : engine[j].pc # "dead"}
    <3>1. IsFiniteSet(Threads)
      BY LifecycleAssumption, FS_Interval DEF Threads
    <3>2. IsFiniteSet(A)
      BY <3>1, FS_Subset
    <3>3. A = {}
      BY <2>2, <3>2, FS_EmptySet DEF TeardownThreads, AdminInv
    <3>4. \A j \in Threads : engine[j].pc = "dead"
      BY <3>3
    <3> HIDE DEF A
    <3> QED BY <1>1, <2>2, <3>4 DEF TeardownThreads, AdminInv, Calling
  <2>3. CASE TeardownGc
    BY <1>1, <2>3 DEF TeardownGc, AdminInv, Calling
  <2> QED BY <2>1, <2>2, <2>3
<1>5. ~ ConcurrentTeardown => FreeInv'
  BY <1>1 DEF FreeInv, Cleaning
<1> QED BY <1>2, <1>3, <1>4, <1>5

LEMMA TeardownDropInv ==
  ASSUME IInv, NEW c \in Ctx, TeardownDrop(c)
  PROVE  IInv'
<1> USE DEF IInv, Inv
<1>0. /\ user \in [Ctx -> Users] /\ ctx \in [Ctx -> Contexts]
      /\ engine \in [Threads -> Engines] /\ OtherTypes
  BY TypeParts
<1>1. /\ admin = "lists" /\ toDestroy \in SUBSET Ctx
      /\ \E i \in Threads : c \in ctxs[i]
      /\ ctxs' = [i \in Threads |-> ctxs[i] \ {c}]
      /\ UNCHANGED <<user, engine, submits, threadCount, gc, quit, admin, teardown, isSetup>>
  BY <1>0 DEF TeardownDrop, OtherTypes, Managed
<1>2. \A i \in Threads : engine[i].pc = "dead" /\ engine[i].rest = {}
  BY <1>1 DEF AdminInv, RestInv
<1>3. \A i \in Threads, d \in Ctx : ~ Cleaning(i, d) /\ ~ Cleaning(i, d)'
  BY <1>1, <1>2 DEF Cleaning
<1>4. PICK note \in {"error", "deactivated"}, q \in Contexts :
        LET done == Finished(ctx[c], note)
        IN  /\ ctx' = [ctx EXCEPT ![c] = q]
            /\ q.submitted = done.submitted /\ q.destroyed = done.destroyed
            /\ q.status = done.status /\ q.req = done.req
            /\ q.cb = done.cb /\ q.calls = done.calls
            /\ \/ ctx[c].destroyed /\ toDestroy' = toDestroy
               \/ q.mem = done.mem /\ toDestroy' = toDestroy \cup {c}
  <2>1. PICK note \in {"error", "deactivated"} :
          LET done == Finished(ctx[c], note)
          IN  \/ /\ ctx[c].destroyed
                 /\ ctx' = [ctx EXCEPT ![c] = [done EXCEPT !.mem = "freed"]]
                 /\ toDestroy' = toDestroy
              \/ /\ ctx' = [ctx EXCEPT ![c] = [done EXCEPT !.moved = TRUE]]
                 /\ toDestroy' = toDestroy \cup {c}
    BY DEF TeardownDrop, Notes
  <2> DEFINE done == Finished(ctx[c], note)
             f == [done EXCEPT !.mem = "freed"]
             m == [done EXCEPT !.moved = TRUE]
  <2>2. done \in Contexts
    BY <1>0, Outcome
  <2> HIDE DEF done
  <2>3. /\ f \in Contexts
        /\ f.submitted = done.submitted /\ f.destroyed = done.destroyed
        /\ f.status = done.status /\ f.req = done.req
        /\ f.cb = done.cb /\ f.calls = done.calls
    BY <2>2 DEF Contexts
  <2>4. /\ m \in Contexts /\ m.mem = done.mem
        /\ m.submitted = done.submitted /\ m.destroyed = done.destroyed
        /\ m.status = done.status /\ m.req = done.req
        /\ m.cb = done.cb /\ m.calls = done.calls
    BY <2>2 DEF Contexts
  <2>5. \/ ctx[c].destroyed /\ ctx' = [ctx EXCEPT ![c] = f] /\ toDestroy' = toDestroy
        \/ ctx' = [ctx EXCEPT ![c] = m] /\ toDestroy' = toDestroy \cup {c}
    BY <2>1 DEF done
  <2> HIDE DEF f, m
  <2> QED BY <2>3, <2>4, <2>5 DEF done
<1> DEFINE done == Finished(ctx[c], note)
<1>5. /\ done.mem = ctx[c].mem /\ done.submitted = ctx[c].submitted
      /\ done.destroyed = ctx[c].destroyed /\ done.cb = (c \notin Blocking)
      /\ c \notin Blocking => done.req = "off"
      /\ done.submitted /\ user[c].pc \in Accepted
      /\ done.status \in {"established", "error"}
      /\ done.calls = IF c \notin Blocking THEN 1 ELSE 0
  BY <1>1, OutcomeOnce
<1>6. /\ q.submitted /\ q.destroyed = ctx[c].destroyed /\ q.cb = (c \notin Blocking)
      /\ c \notin Blocking => q.req = "off"
      /\ q.status \in {"established", "error"}
      /\ q.calls = IF c \notin Blocking THEN 1 ELSE 0
      /\ ctx[c].submitted /\ user[c].pc \in Accepted
      /\ \/ ctx[c].destroyed /\ toDestroy' = toDestroy
         \/ q.mem = ctx[c].mem /\ toDestroy' = toDestroy \cup {c}
  BY <1>4, <1>5
<1> HIDE DEF done
<1>7. /\ ctx' \in [Ctx -> Contexts]
      /\ \A d \in Ctx : ctx'[d] = IF d = c THEN q ELSE ctx[d]
  BY <1>0, <1>4
<1>8. TypeOK'
  <2>1. OtherTypes'
    BY <1>0, <1>1, <1>6 DEF OtherTypes
  <2> QED BY <1>0, <1>1, <1>7, <2>1 DEF TypeOK, Users, Contexts, Engines, OtherTypes
<1>9. OwnInv'
  BY <1>1, <1>3, <1>6, <1>7 DEF OwnInv
<1>10. RestInv'
  BY <1>1, <1>2, <1>6 DEF RestInv
<1>11. AdminInv'
  BY <1>1 DEF AdminInv, Calling
<1>12. StatusInv'
  BY <1>1, <1>6, <1>7 DEF StatusInv, Accepted
<1>13. CallbackOnce'
  BY <1>6, <1>7 DEF CallbackOnce
<1>14. ~ ConcurrentTeardown => FreeInv'
  BY <1>1, <1>3, <1>6, <1>7 DEF FreeInv, StatusInv, OwnInv
<1> QED BY <1>8, <1>9, <1>10, <1>11, <1>12, <1>13, <1>14

LEMMA TeardownEndInv ==
  ASSUME IInv, TeardownEnd
  PROVE  IInv'
<1> USE DEF IInv, Inv
<1>0. /\ user \in [Ctx -> Users] /\ ctx \in [Ctx -> Contexts]
      /\ engine \in [Threads -> Engines] /\ OtherTypes
  BY TypeParts
<1>1. /\ admin = "lists" /\ admin' = "done" /\ toDestroy' = {} /\ isSetup' = FALSE
      /\ teardown' = "no"
      /\ UNCHANGED <<user, engine, ctxs, submits, threadCount, gc, quit>>
  BY DEF TeardownEnd
<1>2. \A i \in Threads : ctxs[i] = {}
  BY DEF TeardownEnd, Managed
<1>3. \A i \in Threads, d \in Ctx : ~ Cleaning(i, d) /\ ~ Cleaning(i, d)'
  BY <1>1 DEF Cleaning, AdminInv
<1>4. ASSUME NEW d \in Ctx
      PROVE  /\ ctx'[d] \in Contexts
             /\ UNCHANGED <<ctx[d].status, ctx[d].submitted, ctx[d].destroyed, ctx[d].req,
                            ctx[d].cb, ctx[d].calls>>
             /\ d \notin toDestroy => UNCHANGED ctx[d]
  <2>1. ctx[d] \in Contexts
    BY <1>0
  <2>2. ctx'[d] = IF d \in toDestroy THEN [ctx[d] EXCEPT !.mem = "freed"] ELSE ctx[d]
    BY DEF TeardownEnd
  <2> QED BY <2>1, <2>2 DEF Contexts
<1>5. TypeOK'
  <2>1. ctx' \in [Ctx -> Contexts]
    BY <1>4 DEF TeardownEnd
  <2>2. OtherTypes'
    BY <1>0, <1>1 DEF OtherTypes
  <2> QED BY <1>0, <1>1, <2>1, <2>2 DEF TypeOK, Users, Contexts, Engines, OtherTypes
<1>6. OwnInv'
  BY <1>1, <1>2, <1>3 DEF OwnInv
<1>7. RestInv'
  BY <1>1 DEF RestInv, AdminInv
<1>8. AdminInv'
  BY <1>1 DEF AdminInv, Calling
<1>9. StatusInv'
  BY <1>1, <1>2, <1>4 DEF StatusInv
<1>10. CallbackOnce'
  BY <1>4 DEF CallbackOnce
<1>11. ~ ConcurrentTeardown => FreeInv'
  BY <1>0, <1>1, <1>2, <1>3, <1>4 DEF FreeInv, OwnInv, AdminInv, Calling, Accepted
<1> QED BY <1>5, <1>6, <1>7, <1>8, <1>9, <1>10, <1>11

-----------------------------------------------------------------------------
(* The theorems. *)

LEMMA InitInv == Init => IInv
<1> SUFFICES ASSUME Init PROVE IInv
  OBVIOUS
<1> USE DEF Init, IInv, Inv
<1>1. TypeOK
  <2>1. user \in [Ctx -> Users]
    BY LifecycleAssumption DEF Users, Threads
  <2>2. ctx \in [Ctx -> Contexts]
    BY DEF Contexts
  <2>3. engine \in [Threads -> Engines]
    BY DEF Engines
  <2>4. OtherTypes
    <3>1. gc \in [pc : {"wait", "scan", "dead"}, rest : SUBSET Ctx]
      OBVIOUS
    <3>2. quit \in BOOLEAN /\ isSetup \in BOOLEAN
      OBVIOUS
    <3>3. threadCount \in 0 .. NumThreads
      BY LifecycleAssumption
    <3> QED BY <3>1, <3>2, <3>3 DEF OtherTypes
  <2> QED BY <2>1, <2>2, <2>3, <2>4, TypeParts
<1>2. OwnInv /\ RestInv
  BY DEF OwnInv, RestInv, Cleaning
<1>3. AdminInv
  <2>1. {j \in Threads : engine[j].pc # "dead"} = 0 .. NumThreads - 1
    BY DEF Threads
  <2>2. Cardinality(0 .. NumThreads - 1) = NumThreads
    BY LifecycleAssumption, FS_Interval
  <2> QED BY <2>1, <2>2 DEF AdminInv, Calling
<1>4. StatusInv /\ CallbackOnce /\ FreeInv
  BY DEF StatusInv, CallbackOnce, FreeInv
<1> QED BY <1>1, <1>2, <1>3, <1>4

LEMMA NextInv == IInv /\ [Next]_vars => IInv'
<1> SUFFICES ASSUME IInv, [Next]_vars PROVE IInv'
  OBVIOUS
<1>1. ASSUME NEW c \in Ctx, User(c) PROVE IInv'
  BY <1>1, SubmitStartInv, SubmitLockInv, SubmitScanInv, SubmitAppendInv, SubmitBlockInv,
     SubmitStatusInv, SubmitFailInv, DestroyFdsInv, DestroyMarkInv, DestroyUnsubmittedInv
     DEF User, UserCall
<1>2. CASE Gc
  BY <1>2, GcWakeDoneInv, GcScanInv DEF Gc
<1>3. CASE TeardownStart \/ Teardown
  BY <1>3, TeardownWaitInv, TeardownDropInv, TeardownEndInv DEF Teardown
<1>4. CASE UNCHANGED vars
  BY <1>4 DEF vars, IInv, Inv, TypeOK, OwnInv, RestInv, AdminInv, StatusInv, CallbackOnce,
     FreeInv, Cleaning, Calling
<1> QED BY <1>1, <1>2, <1>3, <1>4, EngineInv DEF Next

\* For every number of contexts and threads: a context is on one list, in the
\* cleanup of one thread or with the garbage collector, and the teardown goes
\* on only when the threads, then the collector, are gone.
THEOREM LifeInvariant == Spec => []IInv
  BY InitInv, NextInv, PTL DEF Spec

\* The variables keep their types: in particular console_engine_thread_count
\* never falls below zero, and a submission never indexes past the threads.
THEOREM LifeTypeCorrect == Spec => []TypeOK
<1>1. IInv => TypeOK
  BY DEF IInv, Inv
<1> QED BY <1>1, LifeInvariant, PTL

\* As long as the user makes no call during or after the teardown, nobody has
\* his hands on a context that was freed: not an engine thread, not the
\* garbage collector, not the teardown, not a call of the user.
THEOREM LifeNoUseAfterFree ==
  ASSUME ~ ConcurrentTeardown
  PROVE  Spec => []NoUseAfterFree
<1>1. IInv => NoUseAfterFree
  BY DEF IInv, Inv, FreeInv, RestInv, NoUseAfterFree, Managed, Cleaning, Calling
<1> QED BY <1>1, LifeInvariant, PTL

\* The callback is called once for a submission whose session is up or has
\* failed and never for another, teardown or not.
THEOREM LifeCallbackOnce == Spec => []CallbackOnce
<1>1. IInv => CallbackOnce
  BY DEF IInv, Inv
<1> QED BY <1>1, LifeInvariant, PTL

\* Only the start of a submission, its end and a session's outcome set the
\* status, and only while it is not yet final.
LEMMA StatusStep ==
  ASSUME IInv, [Next]_vars, NEW c \in Ctx, ctx[c].status \in {"established", "error"}
  PROVE  ctx'[c].status = ctx[c].status
<1>0. /\ ctx \in [Ctx -> Contexts] /\ \A d \in Ctx : ctx[d] \in Contexts
  BY TypeParts DEF IInv, Inv
<1>1. ASSUME NEW d \in Ctx, SubmitStart(d) PROVE ctx'[c].status = ctx[c].status
  <2>1. c # d
    BY <1>1 DEF SubmitStart, IInv, Inv, StatusInv
  <2> QED BY <1>0, <1>1, <2>1 DEF SubmitStart
<1>2. ASSUME NEW d \in Ctx, User(d), ~ SubmitStart(d) PROVE ctx'[c].status = ctx[c].status
  BY <1>0, <1>2 DEF User, UserCall, SubmitLock, SubmitScan, SubmitAppend, SubmitBlock,
     SubmitStatus, SubmitFail, DestroyFds, DestroyMark, DestroyUnsubmitted, Contexts
<1>3. ASSUME NEW i \in Threads, NEW d \in Ctx, EngineStay(i, d) \/ EngineDrop(i, d)
      PROVE  ctx'[c].status = ctx[c].status
  <2>1. ctx[d].status # "error"
    BY <1>3 DEF EngineStay, EngineDrop, IInv, Inv, RestInv, StatusInv
  <2>2. CASE EngineStay(i, d)
    BY <1>0, <2>1, <2>2 DEF EngineStay
  <2>3. CASE EngineDrop(i, d)
    <3>1. PICK note \in {"error", "deactivated"} : ctx' = [ctx EXCEPT ![d] = Finished(@, note)]
      BY <2>3 DEF EngineDrop, Notes
    <3>2. ctx[d].status = "established" => Finished(ctx[d], note) = ctx[d]
      BY DEF Finished
    <3> QED BY <1>0, <2>1, <3>1, <3>2
  <2> QED BY <1>3, <2>2, <2>3
<1>4. ASSUME NEW i \in Threads, EngineTop(i) \/ EngineMove(i) \/ EngineUnlock(i)
                               \/ EngineDone(i) \/ EngineExit(i)
      PROVE  ctx'[c].status = ctx[c].status
  BY <1>4 DEF EngineTop, EngineMove, EngineUnlock, EngineDone, EngineExit
<1>5. ASSUME NEW i \in Threads, EngineLock(i) \/ EnginePoll(i)
      PROVE  ctx'[c].status = ctx[c].status
  BY <1>0, <1>5 DEF EngineLock, EnginePoll, Contexts
<1>6. ASSUME NEW i \in Threads, EngineMark(i) PROVE ctx'[c].status = ctx[c].status
  <2>1. engine[i].cur \in Ctx
    BY <1>6 DEF EngineMark, IInv, Inv, RestInv
  <2> QED BY <1>0, <1>6, <2>1 DEF EngineMark, Contexts
<1>7. CASE Gc
  BY <1>0, <1>7 DEF Gc, GcWake, GcDone, GcScan, Contexts
<1>8. ASSUME NEW d \in Ctx, TeardownDrop(d) PROVE ctx'[c].status = ctx[c].status
  <2>1. ctx[d].status # "error"
    BY <1>8 DEF TeardownDrop, Managed, IInv, Inv, StatusInv
  <2>2. PICK note \in {"error", "deactivated"} :
          LET done == Finished(ctx[d], note)
          IN  \/ ctx' = [ctx EXCEPT ![d] = [done EXCEPT !.mem = "freed"]]
              \/ ctx' = [ctx EXCEPT ![d] = [done EXCEPT !.moved = TRUE]]
    BY <1>8 DEF TeardownDrop, Notes
  <2>3. ctx[d].status = "established" => Finished(ctx[d], note) = ctx[d]
    BY DEF Finished
  <2> QED BY <1>0, <2>1, <2>2, <2>3 DEF Contexts
<1>9. CASE TeardownStart \/ TeardownThreads \/ TeardownGc \/ TeardownEnd
  BY <1>0, <1>9 DEF TeardownStart, TeardownThreads, TeardownGc, TeardownEnd, Contexts
<1>10. CASE UNCHANGED vars
  BY <1>10 DEF vars
<1> QED BY <1>1, <1>2, <1>3, <1>4, <1>5, <1>6, <1>7, <1>8, <1>9, <1>10
        DEF Next, Engine, Teardown

\* The status of a session that is up or has failed is final, although the
\* engine may set it before the submission does.
THEOREM LifeStatusFinal == Spec => StatusFinal
<1>1. IInv /\ [Next]_vars => [\A c \in Ctx : ctx[c].status \in {"established", "error"} =>
                                ctx'[c].status = ctx[c].status]_vars
  BY StatusStep
<1> QED BY <1>1, LifeInvariant, PTL DEF Spec, StatusFinal
=============================================================================
