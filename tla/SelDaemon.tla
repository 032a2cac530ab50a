------------------------------- MODULE SelDaemon -------------------------------
(***************************************************************************)
(* ipmiseld: the polls of one host.  A poll compares the system event log  *)
(* (SEL) of the host's BMC with the state the last poll saved, writes the  *)
(* records that are new to syslog, clears a SEL that fills up, and saves   *)
(* what it has seen in memory and in a cache file, so that a restarted     *)
(* daemon goes on where the last one stopped (ipmiseld.c,                  *)
(* ipmiseld-cache.c, libfreeipmi/sel/ipmi-sel.c).                          *)
(*                                                                         *)
(* Every request to the BMC is a step of its own: events, other clients    *)
(* and crashes come between any two.  The events are numbered in the order *)
(* the BMC records them.  The daemon only compares the SEL's timestamps    *)
(* for equality; they are abstracted to the number of the last addition    *)
(* and of the last erasure (no two changes in one second).  The BMC, the   *)
(* other clients of its SEL and the file system are external.              *)
(***************************************************************************)
EXTENDS Integers, Sequences, FiniteSets, FiniteSetsExt

CONSTANTS
  Args,       \* the configurations: options of the daemon, kinds of BMC, bounds
  SelSize,    \* records the SEL has room for
  RetryMax,   \* IPMISELD_RETRY_ATTEMPT_MAX (3)
  Filtered,   \* the events the daemon's options leave out
  MaxEvents   \* bound on the events

Events == 1..MaxEvents
Wanted == Events \ Filtered

AllArgs ==
  [threshold: 0..100,    \* --clear-threshold, 0: never
   clearSel: BOOLEAN,    \* --clear-sel
   reserves: BOOLEAN,    \* the BMC supports Reserve SEL
   deletes: BOOLEAN,     \* the BMC supports Delete SEL Entry
   restarts: BOOLEAN,    \* record ids restart when the SEL is cleared
   outside: Nat,         \* bound: clears by other clients
   faults: Nat]          \* bound: failed requests, failed writes and crashes

ASSUME SelAssumption ==
  /\ Args \subseteq AllArgs
  /\ SelSize \in Nat \ {0} /\ RetryMax \in Nat \ {0} /\ MaxEvents \in Nat
  /\ Filtered \subseteq Events

VARIABLES
  args,
  sel,       \* the SEL: its records, oldest first
  nextId,    \* the id of the next record
  arrived,   \* the events recorded so far
  erases,    \* the times the SEL was cleared so far
  others,    \* those of them by other clients
  res,       \* the reservation the daemon has registered, "none" if it has not
  pc,        \* where ipmiseld_sel_parse_log() stands, "idle" between polls
  last, now, \* last_host_state, now_host_state
  file,      \* the state in the cache file, Uninitialized if there is no file
             \* or only a part of one
  clearDone, \* clear_sel_done
  flags,     \* the local do_clear_flag, log_entries_flag, reserve_flag, retry_flag
  tries,     \* retry_count
  start, cursor, parsed,  \* record_id_start, record_id, parsed_atleast_one_entry
  logged,    \* history: how often each event went to syslog
  gone,      \* history: the events erased from the SEL
  fate,      \* history: whether an event is owed a line in syslog, or why not
  cache,     \* history: the cache file was never written ("none"), is "whole",
             \* or a failed write or a crash in a write left it "cut"
  faults, cancels   \* history: failures and crashes, refused clears

bmc == <<sel, nextId, arrived, erases, others>>
poll == <<flags, tries, start, cursor, parsed>>
history == <<logged, gone, fate, cache, faults, cancels>>
vars == <<args, bmc, res, pc, last, now, file, clearDone, poll, history>>

\* The id Get SEL Entry takes and returns for the last record (0xFFFF); 0 is
\* the first record, and no record's id.
LastEntry == MaxEvents + 1

\* ipmiseld_sel_info_get(): the count of entries and the two timestamps.
Info == [entries |-> Len(sel), added |-> arrived, erased |-> erases]

NoInfo == [entries |-> 0, added |-> 0, erased |-> 0]
Uninitialized == [initialized |-> FALSE, id |-> 0, info |-> NoInfo]
NoFlags == [clear |-> FALSE, log |-> FALSE, reserve |-> FALSE, retry |-> FALSE]

\* ipmiseld_get_last_record_id(): 0 when there is no record.
LastRecordId == IF sel = <<>> THEN 0 ELSE sel[Len(sel)].id

\* ipmiseld_calc_percent_full()
PercentFull(info) == (100 * info.entries) \div SelSize

Init ==
  /\ args \in Args
  /\ sel = <<>> /\ nextId = 1 /\ arrived = 0 /\ erases = 0 /\ others = 0
  /\ res = "none" /\ pc = "idle" /\ clearDone = FALSE
  /\ last = Uninitialized /\ now = Uninitialized
  /\ file = Uninitialized
  /\ flags = NoFlags /\ tries = 0 /\ start = 0 /\ cursor = 0 /\ parsed = FALSE
  /\ logged = [e \in Events |-> 0] /\ gone = {}
  /\ fate = [e \in Events |-> "owed"] /\ cache = "none"
  /\ faults = 0 /\ cancels = 0

(***************************************************************************)
(* The BMC and its other clients.                                          *)
(***************************************************************************)
EventsInSel == {sel[k].ev : k \in DOMAIN sel}

\* A poll that is to clear the SEL may not read what comes now: it has read the
\* last record, or has found, or may yet find, nothing new to read.
Unread ==
  /\ flags.clear
  /\ pc \in {"check", "clear", "reinfo"} \/ (pc = "reserve" /\ ~flags.log)

Cancelled == IF res = "none" THEN "none" ELSE "canceled"

\* The BMC records an event, unless the SEL is full; that cancels a
\* reservation.
Arrive ==
  /\ arrived < MaxEvents /\ Len(sel) < SelSize
  /\ arrived' = arrived + 1
  /\ sel' = Append(sel, [id |-> nextId, ev |-> arrived'])
  /\ nextId' = nextId + 1
  /\ res' = Cancelled
  /\ fate' = IF Unread THEN [fate EXCEPT ![arrived'] = "raced"] ELSE fate
  /\ UNCHANGED <<args, erases, others, pc, last, now, file, clearDone, poll,
                 logged, gone, cache, faults, cancels>>

\* What Clear SEL does.
Erase ==
  /\ sel' = <<>> /\ erases' = erases + 1
  /\ gone' = gone \union EventsInSel
  /\ nextId' = IF args.restarts THEN 1 ELSE nextId
  /\ UNCHANGED arrived

\* The events of the SEL not yet in syslog are no longer owed a line: f says why.
Forgive(f) ==
  fate' = [e \in Events |->
             IF e \in EventsInSel /\ logged[e] = 0 /\ fate[e] = "owed"
             THEN f ELSE fate[e]]

\* Another client clears the SEL.
OutsideClear ==
  /\ others < args.outside /\ sel # <<>>
  /\ Erase /\ others' = others + 1
  /\ Forgive("asked") /\ res' = Cancelled
  /\ UNCHANGED <<args, pc, last, now, file, clearDone, poll, logged, cache,
                 faults, cancels>>

(***************************************************************************)
(* The start of a poll: clear_sel, the cache file, the first state.        *)
(***************************************************************************)
FirstStep ==
  IF args.clearSel /\ ~clearDone THEN "clearFirst"
  ELSE IF last.initialized THEN "info" ELSE "load"

\* _ipmiseld_poll(): a new SEL context, no reservation registered.
StartPoll ==
  /\ pc = "idle"
  /\ pc' = FirstStep /\ res' = "none" /\ tries' = 0 /\ flags' = NoFlags
  /\ UNCHANGED <<args, bmc, last, now, file, clearDone, start, cursor, parsed,
                 history>>

ClearFirst ==
  /\ pc = "clearFirst"
  /\ Erase /\ Forgive("asked")
  /\ clearDone' = TRUE
  /\ pc' = IF last.initialized THEN "info" ELSE "load"
  /\ UNCHANGED <<args, others, res, last, now, file, poll, logged, cache,
                 faults, cancels>>

LoadAfresh ==
  /\ pc = "load" /\ pc' = "initLast"
  /\ UNCHANGED <<args, bmc, res, last, now, file, clearDone, poll, history>>

\* ipmiseld_data_cache_load(): a partial file fails its length check or
\* checksum.
Load ==
  /\ pc = "load"
  /\ IF file.initialized
       THEN pc' = "info" /\ last' = file
       ELSE pc' = "initLast" /\ UNCHANGED last
  /\ UNCHANGED <<args, bmc, res, now, file, clearDone, poll, history>>

\* ipmiseld_host_state_init(): the last record first, then the SEL's state.
\* What the SEL holds by then is not new to the daemon.  It need not be if the
\* cache file was never written or is cut short; a whole one excuses nothing.
InitLast ==
  /\ pc = "initLast" /\ pc' = "initInfo"
  /\ last' = [last EXCEPT !.id = LastRecordId]
  /\ UNCHANGED <<args, bmc, res, now, file, clearDone, poll, history>>

InitInfo ==
  /\ pc = "initInfo" /\ pc' = "idle"
  /\ last' = [last EXCEPT !.info = Info, !.initialized = TRUE]
  /\ CASE cache = "none" -> Forgive("old")
       [] cache = "cut" -> Forgive("cut")
       [] OTHER -> UNCHANGED fate
  /\ UNCHANGED <<args, bmc, res, now, file, clearDone, poll, logged, gone,
                 cache, faults, cancels>>

(***************************************************************************)
(* What is new: ipmiseld_check_thresholds(), ipmiseld_check_sel_info().    *)
(***************************************************************************)
DoClear(info) == args.threshold > 0 /\ PercentFull(info) > args.threshold

GetInfo ==
  /\ pc = "info" /\ pc' = "check"
  /\ now' = [now EXCEPT !.info = Info]
  /\ flags' = [NoFlags EXCEPT !.clear = DoClear(Info)]
  /\ UNCHANGED <<args, bmc, res, last, file, clearDone, tries, start, cursor,
                 parsed, history>>

\* What a check decides: the new last_record_id, where to log from, whether.
Nothing(l) == [id |-> l.id, start |-> 0, log |-> FALSE]
SawClear == [id |-> 0, start |-> 0, log |-> FALSE]
NewRecords(l) == [id |-> l.id, start |-> l.id, log |-> TRUE]
AllRecords == [id |-> 0, start |-> 0, log |-> TRUE]

\* Records were added and some erased: by a clear, or some old ones?
AddedAndErased(l, info, recordId) ==
  IF args.deletes
  THEN IF recordId > l.id THEN NewRecords(l) ELSE AllRecords
  ELSE IF info.entries > 0 THEN AllRecords ELSE SawClear

CheckSelInfoCount(l, info, recordId) ==
  CASE info.entries = l.info.entries -> Nothing(l)
    [] info.entries > l.info.entries -> NewRecords(l)
    [] OTHER -> AllRecords

CheckSelInfo(l, info, recordId) ==
  LET added == info.added # l.info.added
      erased == info.erased # l.info.erased IN
  CASE info.entries = l.info.entries /\ added /\ erased ->
         AddedAndErased(l, info, recordId)
    [] info.entries = l.info.entries /\ ~added /\ erased ->
         IF args.deletes /\ recordId # 0 /\ recordId = l.id
         THEN Nothing(l) ELSE SawClear
    [] info.entries = l.info.entries /\ ~erased ->
         Nothing(l)
    [] info.entries > l.info.entries ->
         IF recordId # 0 /\ recordId = l.id THEN Nothing(l)
         ELSE IF erased THEN AddedAndErased(l, info, recordId)
         ELSE NewRecords(l)
    [] OTHER ->
         IF added THEN AddedAndErased(l, info, recordId)
         ELSE IF info.entries = 0 THEN SawClear ELSE Nothing(l)

AfterCheckNewOnly(clear, log) ==
  IF log THEN IF clear THEN "reserve" ELSE "log" ELSE "save"

AfterCheck(clear, log) ==
  IF clear THEN "reserve" ELSE IF log THEN "log" ELSE "save"

\* The last record is read here, after the SEL's state.
Check ==
  /\ pc = "check"
  /\ LET c == CheckSelInfo(last, now.info, LastRecordId) IN
       /\ now' = [now EXCEPT !.id = c.id]
       /\ start' = c.start /\ cursor' = c.start /\ parsed' = FALSE
       /\ flags' = [flags EXCEPT !.log = c.log]
       /\ pc' = AfterCheck(flags.clear, c.log)
  /\ UNCHANGED <<args, bmc, res, last, file, clearDone, tries, history>>

(***************************************************************************)
(* Logging: ipmi_sel_parse() with _sel_parse_callback().                   *)
(***************************************************************************)
AfterReserveClear(log) == "clear"

AfterReserve(log) == IF log THEN "log" ELSE "clear"
AfterLog == IF flags.clear THEN "clear" ELSE "save"

\* ipmiseld_sel_reserve()
Reserve ==
  /\ pc = "reserve" /\ pc' = AfterReserve(flags.log)
  /\ flags' = [flags EXCEPT !.reserve = args.reserves]
  /\ res' = IF args.reserves THEN "held" ELSE res
  /\ UNCHANGED <<args, bmc, last, now, file, clearDone, tries, start, cursor,
                 parsed, history>>

\* The record Get SEL Entry finds, as a set of places.
Found ==
  {k \in DOMAIN sel : IF cursor = 0 THEN k = 1 ELSE sel[k].id = cursor}

NextEntry(k) == IF k = Len(sel) THEN LastEntry ELSE sel[k + 1].id

LogsAgain(r) == r.ev \in Wanted

\* _sel_parse_callback(), _sel_log_output(): the record already logged and
\* the ones filtered out are passed over.
Logs(r) == r.ev \in Wanted /\ r.id # now.id

LogEntry ==
  /\ pc = "log"
  /\ \E k \in Found :
       /\ IF Logs(sel[k])
            THEN /\ logged' = [logged EXCEPT ![sel[k].ev] = @ + 1]
                 /\ now' = [now EXCEPT !.id = sel[k].id]
            ELSE UNCHANGED <<logged, now>>
       /\ cursor' = NextEntry(k)
       /\ pc' = IF k = Len(sel) THEN AfterLog ELSE pc
  /\ parsed' = TRUE
  /\ UNCHANGED <<args, bmc, res, last, file, clearDone, flags, tries, start,
                 gone, fate, cache, faults, cancels>>

\* The record is not there: the SEL is empty; or the record to start from is
\* gone, and the ids after it are tried one by one; or it is an error.
Later == {sel[k].id : k \in {j \in DOMAIN sel : sel[j].id > cursor}}

LogMissing ==
  /\ pc = "log" /\ Found = {}
  /\ LET trying == cursor # 0 /\ start # 0 /\ ~parsed IN
       \/ trying /\ Later # {} /\ cursor' = Min(Later) /\ UNCHANGED pc
       \/ /\ cursor = 0 \/ (trying /\ Later = {})
          /\ pc' = AfterLog /\ UNCHANGED cursor
       \/ cursor # 0 /\ ~trying /\ pc' = "idle" /\ UNCHANGED cursor
  /\ UNCHANGED <<args, bmc, res, last, now, file, clearDone, flags, tries,
                 start, parsed, history>>

(***************************************************************************)
(* Clearing and saving: the end of ipmiseld_sel_parse_log().               *)
(***************************************************************************)
\* What follows a Clear SEL the BMC refused because the reservation is
\* canceled: a retry, after the steps that follow a clear.
Refused == pc' = "reinfo" /\ flags' = [flags EXCEPT !.retry = TRUE]

Clear ==
  /\ pc = "clear" /\ res # "canceled"
  /\ Erase /\ pc' = "reinfo" /\ res' = Cancelled
  /\ UNCHANGED <<args, others, last, now, file, clearDone, poll, logged, fate,
                 cache, faults, cancels>>

ClearCanceled ==
  /\ pc = "clear" /\ res = "canceled"
  /\ IF flags.reserve THEN Refused ELSE pc' = "save" /\ UNCHANGED flags
  /\ cancels' = cancels + 1
  /\ UNCHANGED <<args, bmc, res, last, now, file, clearDone, tries, start,
                 cursor, parsed, logged, gone, fate, cache, faults>>

Reinfo ==
  /\ pc = "reinfo" /\ pc' = "save"
  /\ now' = [now EXCEPT !.info = Info, !.id = 0]
  /\ UNCHANGED <<args, bmc, res, last, file, clearDone, poll, history>>

\* ipmiseld_save_state(), to where ipmiseld_data_cache_store() has opened the
\* file with O_TRUNC.
Save ==
  /\ pc = "save" /\ pc' = "write"
  /\ now' = [now EXCEPT !.initialized = TRUE]
  /\ last' = now'
  /\ file' = Uninitialized
  /\ UNCHANGED <<args, bmc, res, clearDone, poll, history>>

\* ipmiseld_sel_parse(): the loop over the attempts.
Return ==
  /\ tries' = tries + 1
  /\ pc' = IF flags.retry /\ tries' < RetryMax THEN "info" ELSE "idle"

Write ==
  /\ pc = "write" /\ Return /\ file' = last /\ cache' = "whole"
  /\ UNCHANGED <<args, bmc, res, last, now, clearDone, flags, start, cursor,
                 parsed, logged, gone, fate, faults, cancels>>

(***************************************************************************)
(* Failures.                                                               *)
(***************************************************************************)
Fault == faults < args.faults /\ faults' = faults + 1

\* A request fails (BMC busy, session timeout): the poll ends, or goes on
\* without a reservation, or saves what it has.
AfterFailure(p) ==
  CASE p = "reserve" -> {AfterReserve(flags.log), "idle"}
    [] p \in {"clear", "reinfo"} -> {"save"}
    [] OTHER -> {"idle"}

RequestFails ==
  /\ pc \in {"clearFirst", "initLast", "initInfo", "info", "check", "reserve",
             "log", "clear", "reinfo"}
  /\ Fault /\ pc' \in AfterFailure(pc)
  /\ UNCHANGED <<args, bmc, res, last, now, file, clearDone, poll, logged,
                 gone, fate, cache, cancels>>

\* The BMC clears the SEL, and the request fails because no answer arrives.
ClearUnanswered ==
  /\ pc = "clear" /\ res # "canceled" /\ Fault
  /\ Erase /\ pc' \in AfterFailure(pc) /\ res' = Cancelled
  /\ UNCHANGED <<args, others, last, now, file, clearDone, poll, logged, fate,
                 cache, cancels>>

\* The write, the fsync or the close fails: the file is unlinked.
WriteFails ==
  /\ pc = "write" /\ Fault /\ Return /\ file' = Uninitialized /\ cache' = "cut"
  /\ UNCHANGED <<args, bmc, res, last, now, clearDone, flags, start, cursor,
                 parsed, logged, gone, fate, cancels>>

\* The daemon or its machine goes down and comes up again.
Crash ==
  /\ Fault
  /\ pc' = "idle" /\ last' = Uninitialized /\ now' = Uninitialized
  /\ clearDone' = FALSE /\ res' = "none" /\ flags' = NoFlags
  /\ cache' = IF pc = "write" THEN "cut" ELSE cache
  /\ UNCHANGED <<args, bmc, file, tries, start, cursor, parsed, logged, gone,
                 fate, cancels>>

Daemon ==
  \/ StartPoll \/ ClearFirst \/ Load \/ InitLast \/ InitInfo
  \/ GetInfo \/ Check \/ Reserve \/ LogEntry \/ LogMissing
  \/ Clear \/ ClearCanceled \/ Reinfo \/ Save \/ Write

Next ==
  \/ Arrive \/ OutsideClear \/ Daemon
  \/ RequestFails \/ ClearUnanswered \/ WriteFails \/ Crash

Spec == Init /\ [][Next]_vars

\* The main loop hands the host to a worker again and again (SelThreadPool),
\* and every request returns, if only with an error.
FairSpec == Spec /\ WF_vars(Daemon)

\* Every event is owed a line, except one that was in the SEL when the daemon
\* first looked ("old") or when it came up after a write of the cache file that
\* failed or that a crash cut short ("cut"), one that the user or another client
\* cleared away ("asked"), and one that came while a poll that was to clear the
\* SEL no longer read it ("raced").
Fates == {"owed", "old", "asked", "raced", "cut"}

States == [initialized: BOOLEAN, id: 0..MaxEvents,
           info: [entries: 0..SelSize, added: 0..MaxEvents, erased: Nat]]

\* The types; and a poll compares the SEL with a state that some poll saved or
\* ipmiseld_host_state_init() read, never with what a cache file cut short by a
\* crash (ipmiseld_data_cache_load) left in last_host_state.
TypeOK ==
  /\ Len(sel) <= SelSize
  /\ \A k \in DOMAIN sel : sel[k] \in [id: 1..MaxEvents, ev: Events]
  /\ nextId \in 1..MaxEvents + 1 /\ arrived \in 0..MaxEvents
  /\ {erases, others, faults, cancels} \subseteq Nat
  /\ res \in {"none", "held", "canceled"}
  /\ pc \in {"idle", "clearFirst", "load", "initLast", "initInfo", "info",
             "check", "reserve", "log", "clear", "reinfo", "save", "write"}
  /\ {last, now, file} \subseteq States
  /\ pc \in {"info", "check", "reserve", "log", "clear", "reinfo", "save", "write"}
       => last.initialized
  /\ clearDone \in BOOLEAN /\ parsed \in BOOLEAN
  /\ flags \in [clear: BOOLEAN, log: BOOLEAN, reserve: BOOLEAN, retry: BOOLEAN]
  /\ tries \in 0..RetryMax
  /\ start \in 0..MaxEvents /\ cursor \in 0..LastEntry
  /\ logged \in [Events -> Nat] /\ gone \subseteq Events
  /\ fate \in [Events -> Fates] /\ cache \in {"none", "whole", "cut"}

\* No event that is owed a line is erased before it is in syslog.
LoggedFirst ==
  \A e \in gone \intersect Wanted : logged[e] > 0 \/ fate[e] # "owed"

\* "To ensure log entries are not missed on reboots and other system failures"
\* (ipmiseld.8): no event is erased before it is in syslog, though events arrive,
\* requests fail and the daemon crashes between any two steps.  Fates lists the
\* exceptions.  Two of them fall short of the manual: between open() with O_TRUNC
\* and the write (ipmiseld_data_cache_store) a crash loses the saved state; and
\* an event after the last record was read and before the clear is lost,
\* although it makes the BMC refuse the clear (ipmiseld_sel_parse_log then goes
\* on as after a clear, and the retry finds nothing new).  On a BMC that numbers
\* its records from 1 after a clear it holds only while nothing fails and no
\* other client clears the SEL: ipmiseld_check_sel_info() takes a greater last
\* record id for more records after the old ones.
ErasedLogged ==
  (args.restarts => faults = 0 /\ others = 0) => LoggedFirst

\* A line is repeated only after a failed request, a crash, a refused clear or
\* a clear by another client in the middle of a poll: an event goes to syslog
\* at most once more than there were of these.  (The
\* race the comment in ipmiseld_check_sel_info() speaks of, an event between
\* Get SEL Info and the parse, repeats nothing.)
RepeatsBounded ==
  \A e \in Events : logged[e] <= 1 + faults + cancels + others

\* Every event that is owed a line (Fates says which are not) gets it, also when
\* no other event follows it, and when the daemon comes up again after a crash;
\* on a BMC whose record ids restart, as long as nothing fails and no other
\* client clears the SEL.
EventLogged ==
  \A e \in Wanted :
    (arrived >= e) ~> \/ logged[e] > 0 \/ fate[e] # "owed"
                      \/ args.restarts /\ faults + others > 0

\* A SEL filled past the clear threshold does not stay so.
RoomMade ==
  DoClear(Info) ~> ~DoClear(Info)
===============================================================================
