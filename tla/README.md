# A verification project for FreeIPMI

FreeIPMI manages computers through their BMC (baseboard management controller),
in-band over a system interface or out of band over UDP. This directory holds
TLA+ modules that model its core, TLC configurations that check them on small
instances, and TLAPS proofs. The modules are written from the code under `src/`;
`PROJECT.json` maps every definition to the lines it stands for.

It covers **libipmiconsole**, the multi-threaded serial-over-LAN (SOL) client; the
**duplicate filter** of the IPMI session layer; the **LAN sessions** and the **KCS
driver** of libfreeipmi, through which every other tool talks to a BMC; **ipmipower**,
which has a session state machine of its own; and **ipmiseld**, the daemon that
copies the BMCs' event logs (SEL) to syslog. What is left is under "Plan" and "Not
modelled".

## The system

| Part | State it keeps | Operations | What is hard | What makes it correct |
|---|---|---|---|---|
| Session sequence numbers (`libfreeipmi/util/ipmi-outofband-util.c`) | highest number received, a bit list of the ones before it | init, check a packet | UDP repeats and reorders; 32 bit wrap; IPMI 2.0 skips 0 | no packet accepted twice; a fresh one in range is accepted |
| Console contexts and engine (`ipmiconsole.c`, `_engine.c`, `_ctx.c`, `_garbage_collector.c`) | contexts, a list of them per engine thread, a list to destroy, counters and flags, six mutexes | submit (blocking or not), destroy, engine turns, cleanup, collection, teardown | three kinds of threads and the user's share contexts; a mutex that a context contains is freed with it | no use after free, no leak, no deadlock, every call returns, one callback per submission |
| Session state machine (`ipmiconsole_processing.c`) | protocol state, close/retry flags, counters, port | one handler per protocol state, retransmission, closing | losses, late answers, refusals, another user of the payload, a user who closes at any moment, BMC bugs that make it loop | gets to SOL or ends; ends with an error number; does not disturb another user when told not to |
| SOL data transfer (same file) | input and output buffers, packet in flight, sequence numbers, pending break | read/write the user, send, acknowledge, retransmit, keepalive | one packet in flight while the user types on; partial acceptance; breaks between characters; full buffers | both directions are in-order streams; a break keeps its place and is not lost; progress or a closed session |
| Circular buffer (`scbuf.c`) | a ring of bytes with growth and overwrite | write, read, peek, drop | wrap and growth at once | behaves as a bounded queue |
| LAN sessions of libfreeipmi (`libfreeipmi/api/ipmi-lan-session-common.c`) | session ids, keys, requester and session sequence numbers, when the last answer came | open, command with retransmission, bridged command, close | lost and late answers, handshakes restarted by a retransmission, a loop within a loop for bridged commands | the answer belongs to the command; client and BMC agree on the session; every call returns |
| In-band drivers (`libfreeipmi/driver`, `api/ipmi-kcs-driver-api.c`) | interface registers, a System V semaphore, a process's place in the transfer | write a request, read an answer, byte by byte | the BMC may stop or restart at any byte; other processes on the same registers; death of a process | one command at a time; an answer is whole and the caller's own; every command returns |
| ipmipower | a state machine per command, the list of pending commands, buffers per host, counts of messages | power on/off/cycle/status/identify, waiting for the effect, chassis and slots | fanout, commands chained to one host, timeouts at every point, answers to earlier transmissions | one true line per command; the fanout kept; an end |
| ipmiseld (`ipmiseld.c`, `-cache.c`, `-threadpool.c`), `libfreeipmi/sel` | per host: the last state seen, a cache file; a heap of hosts, a queue, workers | poll: compare, reserve, log, clear, save; schedule polls; stop | events and other clients between any two requests; failed requests, writes and crashes; two mutexes and two conditions | every event logged, none erased unlogged; every host polled again; the daemon stops |
| SDR cache (`libfreeipmi/sdr`) | cache file, reservation, record ids | create, iterate | reservations cancelled while records are read | the cache is complete or not created |
| bmc-watchdog, ipmidetectd, pstdout | daemons and fan-out threads | polling, pinging, output consolidation | signals, limits | every host is served; no output lost |
| FIID, cmds, interface, record formats, FRU, interpret, tools | none beyond one request | encode, decode, render | bit layouts | not modelled (see below) |

The user's threads call the API of libipmiconsole; a submission appends a context
to the list of an engine thread and, if it blocks, reads a pipe. The engine thread
polls the sockets and the user's descriptor, moves bytes to and from buffers, and
calls `_process_ctx()`, which runs the session state machine and, once SOL is up,
the data transfer. Every packet from the BMC passes the duplicate filter. A
session that ends is cleaned up by the engine thread; the context is then freed by
whoever finds it both finished and destroyed by the user: the engine thread, the
garbage collector thread or the teardown.

The hazards that follow from this are listed, each at its line, in `PROJECT.json`
("hazards"), with the properties that watch them.

## Modules

| Module | Models | Run by |
|---|---|---|
| `SequenceWindow` | the sliding window as operators, IPMI 1.5 and 2.0 | used by the next and by `LanSession` |
| `SessionSequence` | the window against a BMC and a network | `MCSessionSequence` |
| `SessionSequenceProofs` | theorems about it | TLAPS |
| `ConsoleLifecycle` | ownership of contexts by threads | `MCConsoleLifecycle` |
| `ConsoleLifecycleProofs` | theorems about it | TLAPS |
| `ConsoleSession` | the protocol state machine of one context | `MCConsoleSession` |
| `ConsoleSessionProofs` | theorems about it | TLAPS |
| `ByteStream` | abstract: an in-order stream of items | refined by `SolTransfer` |
| `SolTransfer` | the data plane of an established session | `MCSolTransfer` |
| `SolTransferProofs` | theorems about it, the refinements of `ByteStream` | TLAPS |
| `InbandService` | abstract: commands served one at a time | refined by `KcsDriver` |
| `KcsDriver` | processes, semaphore, registers and BMC of a KCS interface | `MCKcsDriver` |
| `KcsDriverProofs` | theorems about it, the refinement of `InbandService` | TLAPS |
| `LanSession` | a libfreeipmi client, a network and a BMC | `MCLanSession` |
| `LanSessionProofs` | theorems about it | TLAPS |
| `PowerCommand` | ipmipower's commands, hosts and poll loop | `MCPowerCommand` |
| `PowerCommandProofs` | theorems about it | TLAPS |
| `SelDaemon` | ipmiseld's poll of one host, its SEL and its cache file | `MCSelDaemon` |
| `SelThreadPool` | ipmiseld's main loop and workers | `MCSelThreadPool` |
| `IpmiseldProofs` | theorems about the two modules of ipmiseld | TLAPS |

`ConsoleLifecycle` sees a session only as "may get established, and ends";
`ConsoleSession` is what happens between, with SOL as one state that ends somehow;
`SolTransfer` is the inside of that state; `SessionSequence` is the filter below
both. They are kept apart because their product is out of TLC's reach and each
hands the next only what is named here. In the same way `SelThreadPool` sees a poll as
"ends some time" and `SelDaemon` is one. `LanSession` composes with the duplicate filter:
it calls the `Check` of two instances of `SequenceWindow`, one per version.

**SequenceWindow, SessionSequence.** `Check` is `_check_session_sequence_number()`; `highest` and
`list` are its two words, the list as the set of its one bits. The BMC numbers its
packets from 1 (2.0) or on from the number of the Activate Session response (1.5);
`Receive(n)` delivers any packet of the last `Horizon` before or after the newest,
in any order and any number of times. A shift that C leaves undefined is a choice
(`UndefinedBits`); under `SequenceAssumption` it is not reached. The argument
`sequence_number_window` is checked by the code and then not used; the model has
`Window` in its place as the code has the constant.

**ConsoleLifecycle.** One action per step that another thread can observe:
what a thread does under a mutex, or up to the next blocking point. A mutex that
is held over several steps is a predicate on its holders (`SetupLocked`,
`CountLocked`, `DestroyedLocked`, `ToDestroyLocked`); the mutex of an engine
thread's list is the field `held`, since a thread may end without releasing it
(`EngineDone`, the `continue` at `ipmiconsole_engine.c:1004`). Freeing is
`mem = "freed"`. `Finished` is the part of `__ipmiconsole_ctx_connection_cleanup()`
that reports the end, `EngineMark`/`EngineMove`/`EngineUnlock` the part that hands
the context over.

**ConsoleSession.** A protocol state is named after the request it waits for. A
handler takes the session and an answer and returns the next session and whether a
request is sent; `Handle` is the part of `_process_ctx()` below `state_machine`,
`CloseSession` is `_close_session()`. Answers are abstracted to the codes that the
handlers tell apart. `last` says that a packet carries the current requester
sequence number or message tag; a new request clears it on the packets under way
(`Aged`), except Set Session Privilege Level, for which the code draws no new
number. `ServesOrEnds` leaves out the one configuration in which it fails, and
`InUseRespected` a session that is closing (Observations). Timers are choices: in any
turn one may have expired. A retransmission timer that sends Close Session and the receive that follows in the same turn are
two turns. The counters `errors` and `deactivated` stop just above the limits they
are compared with. After `try_new_port` the session has no address (`OnNewPort`):
`ipmiconsole_processing.c:3944` clears it.

**SolTransfer.** `snd` and `rcv` are the input and output halves of the session's
fields, `rx` the one packet that waits in `ipmi_from_bmc`, `typed` and `userOut`
histories. User items are numbered, so order and duplication are visible. The BMC
(external) accepts all, some or none of a packet's characters, acknowledges,
retransmits with more output than before, and may deactivate.

**ByteStream** says what either direction promises: the receiver's sequence only
grows, and is always a prefix of what was sent. `InputSpec` and `OutputSpec`
instantiate it with the user's characters and the BMC's output. Breaks are not items of
that stream, and do not keep their place in it (Observations); `BreakNotLost` says that
they arrive.

**KcsDriver.** A process is in `api_kcs_cmd()` at the place `pc` names; one action is what
it does up to the next access to a register or the semaphore that another process or the
BMC can interleave with. `Byte(c, i)` is byte `i` of command `c`'s request or answer, so
that a byte of the wrong command is visible; the dummy byte the BMC leaves while it is
written to belongs to no command. `reg` is the status register and the two data
registers. `Timeout` is either wait giving up. `Crash` is a process dying anywhere, with
SEM_UNDO. The BMC (external) takes bytes in order and may be slow, silent or reset. An
answer longer than the caller's buffer is read to its end and cut off (`Kept`). It has an
end: the loop of `ipmi_kcs_read()` has no bound of its own (`ipmi-kcs-driver.c:962`), and a BMC
that stays in READ keeps `CommandReturns` from holding.

**InbandService** is what the driver promises to processes: a command is begun when no
other is served, executed at most once, possibly after its caller gave up but not once
another one has begun, and a success returns the answer to that very command. `ServiceSpec`
is the refinement: a process serves from WRITE_START on.

**LanSession.** One client. `SendCommand`, `NoAnswer` and `Receive` are the loop of
`api_lan_cmd_wrapper()` and its 2.0 sibling; `Verify` the checks of an answer, `Use` what
the caller does with it, `OpenStep` the next command of the handshake, `CommandIpmb`,
`BridgeNoAnswer`, `BridgeReceive` the loop around them for a bridged command. Time is
`spent`, the waits since the last good answer in units of the retransmission timeout;
the caller may also have idled for the session timeout. `own` on a packet says whether it
belongs to the command under way; a packet is delivered, in order, within `Lifetime`
transmissions. The BMC draws a new key for every RAKP message 1 and a new session id for
every Open Session Request, so answers to two retransmissions do not fit together: the
code of RAKP 2 is checked against the session id (`Rakp2Fits`), that of RAKP 4 against the
key.

**PowerCommand.** `ip` is the state of a command, named after the request it waits for,
`pending` with `itr` the list and the iterator of `process_pending()`, `next` and `adding`
the chain of commands to one C410X, `conn` the two buffers of a host. `ProcessPackets` is
one turn of `_process_ipmi_packets()`: a time-out, a retransmission, an answer that is
dropped, or one handler. Timers are choices. `cur` on a packet says that it carries the
number of the last transmission. What the network and the BMC do during a walk of the
list is only seen at its end, so they act between walks (`BetweenWalks`). `args` is a
situation of the command line; each behaviour has one.

**SelDaemon.** `pc` is the next request of the poll; the BMC and other clients may act
between any two. A timestamp is abstracted to the number of events added or of clears, so
two changes never share one. `CheckSelInfo` is the guess of `ipmiseld_check_sel_info()`
from counts, timestamps and one record id. `fate` records why an event is not owed a
line: it was there when the daemon first polled the host ("old"), the user or another client
cleared it away ("asked"), it came when a poll that was to clear the SEL read no more records
("raced": `Unread`), or it was there when the daemon came up after a failed or interrupted
write of the cache file ("cut"). `cache` remembers whether the file was never written, is
whole or was cut; a daemon that starts afresh although the file was whole is excused nothing.
The last two fates are losses the manual means to prevent (Observations). `LoggedFirst` is what
remains: an event that is owed a line is not erased before it has it. `ErasedLogged` and
`EventLogged` state it, and its eventual form, with their restriction: on a BMC whose record
ids restart, while nothing fails and no other client clears. `file` is the cache file,
`Uninitialized` from the O_TRUNC until the write.

**SelThreadPool.** One action per step between two points at which another thread can see
the difference: taking a mutex, waiting on or signalling a condition, reading a flag that
no mutex protects. `count` is `threadpool_count`, which the creator raises after
`pthread_create()` has returned (`CountThread`: the thread may be polling by then) and a
thread lowers as its last step; destroy waits for it, and `MainWakeUp` is a wait that
returns without a signal. `late` records the workers that had looked at their flag and were
about to wait when `ipmiseld_threadpool_destroy()` set it. Its specification is `PoolSpec`,
and its other common names begin with `Pool` too, since `IpmiseldProofs` extends it together
with `SelDaemon`.

## Runs

| Run | Instance | Properties | Result |
|---|---|---|---|
| `seq_15` | numbers 0..10, window 3, list of 5 bits, horizon 6, 16 packets, every starting number | `ListTracksWindow`, `NoReplay`, `InRangeAccepted` | holds |
| `life` | a blocking deactivate-only context and one with a callback, one engine thread, collector, teardown | `NoUseAfterFree`, `CallbackOnce`, `StatusFinal`, `BlockReturns`, `DestroyedFreed`, `TeardownReturns` | holds |
| `life_race` | one context, a teardown that may overlap its submission | `TeardownReturns` | violated |
| `session` | four configurations, one retransmission, one acceptable error, two instances, two packets each way | `TypeOK`, `NoLogicBug`, `FailureExplained`, `SolGranted`, `InUseRespected`, `ServesOrEnds` | holds |
| `sol_data` | 3 characters, 2 of output, packets of 2, buffers of 2 and 1, NUL keepalives, packet numbers 1..3 | `BufferIsRest`, `InputSpec`, `OutputSpec` | holds |
| `sol_live` | 2 characters and a break, INCREMENT_SOL_PACKET_SEQUENCE, packet numbers 1..15, a BMC without output | `BreakNotLost`, `InputDelivered` | holds |
| `sol_packet` | 3 characters and a break, packets of 1 | `PacketFits` | violated |
| `kcs` | a blocking and a non-blocking process, 2 commands each, requests of 2 bytes, answers of 3, a buffer of 2 | `SemaphoreBalanced`, `ServiceSpec`, `CommandReturns` | holds |
| `lan` | both versions, a command and a bridged command, requester numbers 0..3, a session timeout of 2 retransmission timeouts | `AnswerOwn`, `SessionAgreed`, `NoFalsePassword`, `CallReturns` | holds |
| `power` | seven command lines: two commands to one C410X, two hosts with a fanout of 1 and 2, two batches, every operation with and without on-if-off and wait-until | `OneLine`, `FanoutKept`, `HostSerialized`, `LineTrue`, `BatchEnds` | holds |
| `sel` | a SEL of 3 records, 4 events, one of them filtered out; six combinations of thresholds, BMC abilities, other clients and failures | `ErasedLogged`, `RepeatsBounded`, `EventLogged`, `RoomMade` | holds |
| `pool` | 3 hosts, 3 workers, one failure, a signal at any time | `HostInOnePlace`, `NoThreadAfterFree`, `HostPolledAgain`, `StopReturns` | holds |

Every module also states its types (`TypeOK`). They hold on the instances above and are
where the proofs start from; the runs spend their time on the rest.

*Bounds.* The cycle of sequence numbers is short so that a run wraps; it is longer
than horizon plus window, as in the code (2^32 against 8). One engine thread and
two contexts suffice for every pair of threads that share a context; contexts on
different engine threads share only the thread count, the list to destroy and the
collector, which two contexts of one thread share as well. One retransmission and
one acceptable error reach "within" and "beyond" each limit; two instances reach
the loop of Deactivate Payload. Two packets each way let an answer to the
transmission before the last arrive late. Three characters with packets of two give
a full, a partial and a following packet, and the packet numbers wrap. `OutMax = 1`
and `BufMax = 2` make both overflows happen. `kcs`: a request of two bytes has a first and
a last one, which are written in different ways; an answer longer than the buffer is cut
off; the second command of a process meets what its first left behind. `lan`: one packet
each way and a lifetime of one transmission let the answer to the transmission before the
last arrive; the requester numbers wrap within a session. In the code there are 64 numbers
and an answer would have to be delayed for as many transmissions to be mistaken. `power`:
three commands, two of them to one host, make every pair of neighbours on the list, in a
chain and across batches. `sel`: three records put the threshold of 50% between one
record and two; four events leave one after a clear. The counts of polls are unbounded.
`pool`: three workers, so that one can wait, one poll and one be about to wait.

*Fairness.* `life`: every thread runs on, and a mutex that is released again and
again is granted at last (strong fairness per thread); a session that is not up or
is closing gets up or ends, since each of its waits has a timeout. Users' calls
other than those begun are not assumed. `session`: the engine thread processes the
context again and again and in the end finds a packet or an expired timer (weak
fairness of `Turn`); nothing is assumed of network, BMC or other users, and
`SessionTimeout` is not needed. `sol_live`: the engine's steps,
delivery of packets that are not lost, and the BMC's processing. `kcs`: a process in a
command runs on (weak), and System V semaphores are granted in turn (strong fairness of
`Lock`); nothing of the BMC. `lan`: `select()` returns when a packet is there or the time is
over (weak fairness of `Client`); nothing of network and BMC. `power`: the list is walked
again and again, since the poll loop waits no longer than the next timeout (weak), and one
of these times the clock shows the session timeout (strong fairness of `TimeOut`); nothing
of network and BMC. `sel`: the daemon's requests return, if only with an error (weak
fairness of `Daemon`); failures are bounded by `args.faults`, since a daemon whose every
request fails logs nothing. `pool`: main thread and workers run on (weak), and a queueing
that fails for lack of memory succeeds at last (strong fairness of `Queue`).

*Deadlock* is checked in `sel`, whose daemon never stops. It is not in the others,
because those systems may stop: sessions and programs end, bounds on what is sent are
reached.

### What the violated properties show

- **`life_race`** (`ipmiconsole_engine.c:1004`). An engine thread that ends leaves
  its list's mutex locked. A submission that overlaps a teardown can wait for it
  while holding the thread count's mutex, and the teardown never returns.
- **`sol_packet`** (`ipmiconsole_processing.c:224`). While a break is pending, the number
  of characters before it replaces the limit on the size of a packet. Characters typed
  while nothing could be sent, more than a packet holds, go out in one packet, and
  `assert (character_data_len <= c->session.max_sol_character_send_size)`
  (`ipmiconsole_packet.c:1358`) fails.

## Proofs

`SessionSequenceProofs` proves, for every cycle, window, list width and horizon
allowed by `SequenceAssumption` (window smaller than list and horizon; horizon plus
window smaller than a cycle) and for both numberings:

- `SequenceType`, `SequenceListTracks`, `SequenceOutOfRange`, `SequenceNoReplay`:
  `Spec` implies always `TypeOK`, `ListTracksWindow`, `OutOfRangeDropped`, `NoReplay`.

The inductive invariant `SequenceInv` adds to these that `highest` is the wire number
of packet `top`, and that `accepted` is exactly what the bits of the list say within the
window: `NoReplay` alone is not inductive, since it says nothing of packets that may
still be repeated. The argument: wire numbers are a counter modulo the cycle
(`WireShift`, from division with remainder), so for packets less than a cycle apart
the code's comparisons and shifts yield exactly their distance (`AheadMeans`,
`BehindMeans`); then an accepted packet moves the bits by that distance. The same
comparisons give `SequenceInRange`, that a fresh packet within the window is accepted, for
IPMI 1.5. For 2.0 it is false, and `SequenceInRangeOrBlind` says exactly where: `BlindSpot`
is the number `Window` places back from a highest number equal to `Window`, and no other.

`ConsoleSessionProofs` proves, for every set of configurations, every limit and every
capacity of the network allowed by `SessionAssumption`:

- `SessionTypeCorrect`, `SessionNoLogicBug`, `SessionFailureExplained`: `Spec` implies
  always `TypeOK` (with it that the counters which end the activation and deactivation
  loops never pass their limits), `NoLogicBug` and `FailureExplained`.

`NoLogicBug` alone is not inductive: a session may run into the lines that "shouldn't be
possible to reach" from a state that lacks the flags it needs there. `Sound(r)` says which
flags a session has in each state (a reason to deactivate or to close; nothing left of an
earlier deactivation; a counter beyond its limit only when closing), `Explained(r)` that
a closing or ended session has an error, a success or a user behind it. Every handler is a
function of a session, so there is one lemma per handler that it takes a good session to
a good outcome (`GetAuthGood` to `CloseGood`, `CloseSessionGood`), on the way through
`MaySend(r, t)`, what it takes to send request `t`; then one step per action
(`SessionInv`, `NetworkInv`, `BmcInv`).

- `SessionSolGranted` (`SolGranted`) rests on an invariant of its own, `GrantInv`: while a
  session waits for the answer to Activate Payload, a packet that carries its number is the
  last request of the console or the answer to it. Packets do not overtake each other, so when
  a granting answer is read nothing that would take the payload away again is under way.
- `SessionInUseRespected` (`InUseRespected`) goes through the handlers that lead from
  "activate" to "deactivate": only too many dropped packets or a close do.

`ConsoleLifecycleProofs` proves, for every set of contexts and every number of engine threads:
`LifeTypeCorrect`, `LifeNoUseAfterFree`, `LifeCallbackOnce` and `LifeStatusFinal`.
`NoUseAfterFree` says of each place in the code who may stand there with a freed context;
it is not inductive since it does not say who may free one. `OwnInv` does: a context is on
the list of one thread, in the cleanup of one thread, or on the list to destroy, and the
last two overlap only until the cleanup unlocks `destroyed_mutex`. The rest of `Inv` ties the
flags of a context, the user's place in a call and the counters to that place.
`LifeNoUseAfterFree` assumes `~ConcurrentTeardown`: a teardown that overlaps a submission
may free the context before the call has read its status, and TLC finds that in the
instance of `life_race`. The other theorems hold
for both.

`SolTransferProofs` proves, for every buffer and packet size, channel capacity and number
of retransmissions:

- `SolTypeCorrect`: always `TypeOK`, with it that both buffers keep their sizes.
- `SolOutput`: `Spec` implements `OutputSpec`, if the network keeps the order of packets
  and there are two packet numbers at least.
- `SolInput`: `Spec` implements `InputSpec`, under the same assumptions and without breaks
  and INCREMENT_SOL_PACKET_SEQUENCE.
- `SolBufferIsRest` (`BufferIsRest`), under the hypotheses of `SolInput`: the input buffer is
  what the BMC has not accepted, and the packet in flight of whose acceptance the console
  does not know yet.
- `SolPacketFits` (`PacketFits`) without breaks: the disagreement of run `sol_packet` needs one.
- `SolBreakNotLost` (`BreakNotLost`), if the network keeps the order of packets and there are
  more packet numbers than `Limit`, `2 * Capacity + 2`; with the workaround `Limit` is twice
  that, and the BMC has no output.

Each direction is an alternating-bit protocol: all it needs of the packet numbers is that
the next differs from the current one (`NextSeqDiffers`), and the 15 numbers of the code
are more than that. The invariants say that the packets in a channel which carry the
current number are its end, that they hold what the sender has in flight, and that an
acknowledgement of it is under way only if the receiver has what it acknowledges (`InCh`,
`AckCh`, `OutCh`, `AckOut`); what was delivered and what is still buffered or in flight
then join without a gap (`InPrefix`, `OutPrefix`). Partial acceptance and
retransmissions that carry more data than the first are why the invariants speak of the
prefix of a packet and not of packets. The assumptions are needed: with reordering
`OutputSpec` is violated, with breaks characters overtake a break, with the workaround
characters may be delivered twice (see below).

For a break two numbers are not enough: it is sent again, with a new number, for every late
acknowledgement, so several numbers of the same break may be under way at once. `Lags` bounds how far each number under way is behind the sender's by the
acknowledgements ahead of it that may still move the sender on; with more than `Limit` numbers
none comes round (`BehindNext`). `Current` then says that nothing but the sender's number
follows it on its way round, `Kinds` that it is on a break only if the sender waits for one,
`Owed` that at most the break that is waited for is missing, and `Answers` that what comes
back acknowledges or carries output. With the 15 numbers of the protocol the theorem covers
up to six packets in flight each way, with the workaround up to two.

`KcsDriverProofs` proves, for every set of processes and every length of requests, answers
and buffers:

- `KcsSemaphoreBalanced`, `KcsTypeCorrect`: always `SemaphoreBalanced`, `TypeOK`;
- `KcsImplementsService`: `Spec` implements `ServiceSpec`, `InbandService`.

The semaphore alone does not make the driver right: a process that gave up or died leaves
the interface wherever it was, and the next one writes over it. `SemInv` is the mutual
exclusion; `CallInv` says that the command being served is the one of the process inside;
`BmcInv` and `DrvInv` say, for every place of the driver and every state of the interface,
which bytes of that command the BMC has and which ones of the answer the process has. They
are silent about the time between a new WRITE_START and the BMC's noticing it (`Fresh`), in
which the registers still hold the past. A success then has read the answer to its own
command from its first byte on.

`LanSessionProofs` proves, for every number of commands, retransmissions, session timeout and
channel capacity: `LanTypeCorrect`, `LanAnswerOwn`, `LanSessionAgreed`, `LanNoFalsePassword`, each
from `LanInvariant`. `LanAssumption` asks that no number comes round while a packet with it may
be under way: `Lifetime + SessionTimeout < RqMod` and `Lifetime < TagMod`. A packet of an earlier
transmission carries a number 1 to `Lifetime` places behind the current one, a bridged answer
up to `SessionTimeout` more, so an answer whose number fits is of the last transmission.
Packets do not overtake each other (`Order`, in `Net`), so nothing of the client's is behind an
accepted answer: every command of the handshake starts with an empty network. `WaitInv`,
`ReadyInv` and `BridgeInv` say for each place of the client what may be under way and how far
the handshake has come on both sides; the session id and the key a client combines are then of
one exchange, which is what `SessionAgreed` and `NoFalsePassword` say. None of the three
properties is inductive alone: they say nothing of the packets that were not yet received.

`PowerCommandProofs` proves, for every set of hosts and commands, every command line allowed
by `PowerAssumption` (a command is queued once; the C410X extension knows three operations,
and only with it a batch names a host twice) and every capacity of the
network: `PowerTypeCorrect`, `PowerFanoutKept`, `PowerHostSerialized`, `PowerOneLine`,
`PowerLineTrue`. `PlaceInv` says that a command is in one place and that a host has one
command on the lists, the rest being chained to it in the order of the command line
(`BatchInv`, without which a chain could be a circle that no list leads to);
`StepInv`, `SaidInv` and `CmdInv` say what a command in each state has printed and what
the BMC has done for it; `PacketInv` says of every packet under way that it is true of the
BMC at the time it is read, which is what `LineTrue` needs when answers are late.

`IpmiseldProofs` proves about the thread pool, for every finite set of hosts and workers:
`PoolTypeCorrect`, `PoolHostInOnePlace`, `PoolNoThreadAfterFree`. Destroy frees the pool when
`count` is 0, which says nothing of the threads by itself: a thread runs before its creator
counts it. `CountInv` is the balance: `count` and the one thread created and not yet counted,
if any, make the number of live threads; and a thread leaves only when destroy has told it
to, which is after the last was counted. Then 0 means that all are gone. `Places(h) = 1` is a sum of counts, which no step changes visibly; the
invariant says instead that no place holds a host twice (`OnceInv`), that no two places
hold it (`PlaceInv`) and at which steps a thread has one in its hands (`HandsInv`), and the
count is read off at the end.

About the poll of a host it proves, for every size of the SEL, number of events, filter and set
of options, failures, crashes and clears by other clients: `SelTypeCorrect`, `SelErasedLogged`
and `SelRepeatsBounded`, from `SelInvariant`. The hypothesis is that the record ids of the BMC
do not restart after a clear. Then the SEL holds the last records in order (`Numbered`), and of
two states of it with the same erase time the later one has only additions (`Older`), so that
what `ipmiseld_check_sel_info()` passes over is settled. `EraseInv` says which events have
their line or are owed none: those erased, those before a saved state, in memory or in the
cache file (`Saved`), those before the state the poll read (`ReadInfo`), those the walk
has passed (`Passed`), all of them once it is done (`Done`), and when it reads no more records before a clear,
also those that come then (`Raced`). `CacheOK` says that the daemon starts afresh only without
a whole cache file. `RepeatInv` counts lines against troubles: a state that is behind the
lines written has a trouble to show for it (`Counted`, `Compared`, `Fresh`), and a poll that is
under way writes each line once (`Going`, `Walk`). The hypothesis is needed for
`LoggedFirst`: with restarting ids one failed request is enough (Observations). Without
failures and other clients it holds on the instance of run `sel`, as `ErasedLogged` says.

Attempts at these proofs changed the model. `InUseRespected` had said that no packet
with the refusing code is consumed in a step that deactivates; with more retransmissions than
the run allows, a packet that the session drops is consumed in such a step, and TLC shows
it. It now speaks of packets the session accepts (`DeactivatesInUse`). And several CASE expressions of
`ConsoleSession` and `SelDaemon` had arms that overlapped; TLC takes the first, the meaning
of CASE takes any, and the proof of `SessionInUseRespected` did not go through. They now have
disjoint arms, in the order of the code's conditions. `Later` of `LanSession` and `Chars` of
`SolTransfer` had used `SelectSeq`, a recursive definition the provers do not unfold; they are
now written without it.

*Only model-checked.* Every liveness property: fairness and ENABLED are out of this prover's
reach. The invariants of `SelDaemon` on BMCs whose record ids restart. Every other invariant
of the runs is stated by a theorem, under the hypotheses named above.

## Observations without a run

What the code does that a reader of these modules should know of, and that no run states.

Duplicate filter and console:

- Just after the wrap of IPMI 2.0 numbers, with the highest number equal to the window, a
  late fresh packet exactly `Window` places back is dropped (`ipmi-outofband-util.c:232`):
  with `Ipmi20 = TRUE`, `InRangeAccepted` is violated.
- After more than `Window` consecutive losses every further packet is out of range and
  dropped; only the callers' counters or the session timeout end the session (line 219).
- When the user closes while Activate Payload is outstanding, the completion code is not
  looked at, and a session configured not to touch a payload in use deactivates it
  (`ipmiconsole_processing.c:3349`), although the comment above says that another user's
  session "will be checked and handled appropriately". `InUseRespected` excepts this.
- After the BMC named another port, the new session's address is cleared after it was
  resolved, so no request reaches the BMC (`ipmiconsole_processing.c:3944`).
- A packet with both an acknowledgement and output makes the console send characters
  typed after a pending break before it (line 2817), and a late repeated acknowledgement
  lets a break overtake characters typed before it (line 2843), although "none after the
  break have been sent" (line 219) is what the code means to do. `InputSpec` is about
  characters without breaks.
- A break that is sent again for a late acknowledgement takes a new number each time (line
  2843). With more than six packets in flight each way, or fewer numbers, an old
  acknowledgement may be taken for the break's: `SolBreakNotLost` has the bound.
- Every packet received resets the retransmission count, so that with only one direction
  of the link working one packet may be retransmitted for ever (line 474).
- INCREMENT_SOL_PACKET_SEQUENCE can deliver characters twice (line 1658).
- With `Reordering = TRUE`, `OutputSpec` is violated: an older packet of the BMC is
  taken for new output (line 2763).
- DEACTIVATE_ONLY reports success when Deactivate Payload was refused or never
  answered (line 3789). With SKIP_SOL_ACTIVATION_STATUS it counts no active instance,
  increments the count of deactivated ones before it compares the two (line 3790), and
  deactivates for as long as the BMC answers. `ServesOrEnds` leaves this combination out.
- `console_engine_ctxs_count` is never decremented, so contexts are spread by the
  number ever submitted (`ipmiconsole_engine.c:1305`).
- Set Session Privilege Level is sent with the requester sequence number of Get
  Authentication Capabilities (line 95).
- A failing `list_iterator_create()` leaves the collector with the list's mutex locked
  (`ipmiconsole_garbage_collector.c:153`); `ipmiconsole_ctx_destroy()` closes descriptors
  the engine thread is polling (`ipmiconsole.c:1512`).

In-band:

- A process that dies between `semget()` and the SETALL leaves a semaphore of value 0
  that nobody initialises (`ipmi-semaphores.c:94`); `CommandReturns` is stated for a
  semaphore that was set.
- `_kcs_cmd_read()` may fail in `malloc()` before it calls `ipmi_kcs_read()`, and then keeps
  the semaphore until the process ends (`ipmi-kcs-driver-api.c:307`).
- A command that timed out may still be executed; an answer too long for the buffer is cut
  off without an error.

LAN:

- The command code of an answer is not compared. When the answer to Send Message is lost,
  the bridged answer, which has the same number, is taken for it, and the bridged
  command is sent again. Commands may be executed several times in general.
- A caller that idled for the session timeout gets SESSION_TIMEOUT for its next command,
  which was sent once and may be executed (line 1015).
- With packets out of order an older answer of the handshake may be combined with a newer
  one and be reported as a wrong password; `NoFalsePassword` is checked for packets in
  order.
- An error of `unassemble_ipmi_lan_pkt()` returns past the cleanup that moves the numbers on
  (lines 1142, 1411). A refused Set Session Privilege Level leaves the BMC's session open.

ipmipower:

- `IPMIPOWER_MSG_TYPE_ERROR_MAX` is the last error, and the loop over the counts stops before
  it: "BMC error" alone exits with success (`ipmipower.c:701`, `ipmipower.h:331`), although the
  comment above says that any message other than on, off and ok is an error.
- In an IPMI 2.0 session the branch for a refused request prints nothing
  (`ipmipower_powercmd.c:1216`); `OneLine` asks for a line in 1.5 sessions only.
- A power cycle whose answer is lost is sent under a new number (line 695) and may be
  executed twice; the comment above `_send_packet()` says otherwise.
- Two packets left in `ipmi_out` leave as one datagram, which the BMC cannot read.
- Errors after Activate Session or RAKP message 4 leave the BMC's session open.

ipmiseld:

- An event that comes between Get SEL Info and Reserve SEL, when nothing else is to be
  logged, is erased by the clear, and so is one that comes after the last record was read.
  A reservation does not help: when the event makes the BMC refuse the clear,
  `ipmiseld_sel_parse_log()` goes on as after a clear and saves the new state of the SEL
  (`ipmiseld.c:1218`), so that the retry finds nothing new and erases the event.
  `ErasedLogged` excepts these ("raced"). The manual promises best efforts
  (`ipmiseld.8.pre.in:36`).
- The only copy of a host's state is truncated and then written (`ipmiseld-cache.c:510`). After
  a crash in between the daemon takes all that the SEL holds for old, although the manual
  says that the file is there "to ensure log entries are not missed on reboots and other
  system failures" (`ipmiseld.8.pre.in:177`). `ErasedLogged` and `EventLogged` except this
  ("cut").
- Where record ids restart after a clear, a last record id greater than the saved one is taken
  for more records after it (`ipmiseld.c:814`): when another client cleared the SEL, or the
  poll that did failed before it saved, the new records with smaller ids are passed over and
  erased. `ErasedLogged` and `EventLogged` leave this out.
- An event between the clear and the Get SEL Info that follows it, or between the two
  requests of `ipmiseld_host_state_init()`, stays unlogged until another comes.
- `--clear-sel` clears again after a restart of the daemon.
- Four returns of `_ipmiseld_poll()` skip its cleanup and leave `host_poll` set, which
  the next poll asserts is NULL (line 1386).
- `ipmiseld_threadpool_destroy()` sets the flags and signals without the queue's mutex: a
  worker about to wait misses the signal, and destroy waits for ever
  (`ipmiseld-threadpool.c:197`). `StopReturns` excepts these stops, and pools of which a
  `pthread_create()` failed: the array's length is then still 0, no thread is told to end,
  and destroy waits for those created (line 171).

## Not modelled

System call and allocation failures (except where a module names them), descriptor numbers,
a second `ipmiconsole_engine_init()` after a teardown, LAN contexts opened with
IPMI_FLAGS_NOSESSION (`ipmi-lan-session-common.c:1502`), which have no session to agree on, packet layouts and authentication
beyond whether keys fit, cipher suites, configuration files, rendering. The in-band drivers
other than KCS: OpenIPMI, SunBMC and IntelDCMI hand a whole message to a kernel driver, SSIF
to an I2C device. ipmipower's discovery pings and prompt. FIID, command and record encodings
are bit-exact data without concurrency, which TLC does not reach and the repository's own
tests cover; most of the repository's lines are of this kind (OEM decoders, SDR and SEL
formats, configuration sections, option parsing), and the tools keep no state beyond one
request. `PROJECT.json` ("components") lists every part with its reason.

## Plan

1. (done) `SessionSequence` with proofs; `SolTransfer` and `ByteStream`;
   `ConsoleLifecycle`; `ConsoleSession` with proofs.
2. (done) `KcsDriver` and `InbandService`; `LanSession` over `SequenceWindow`;
   `PowerCommand`; `SelDaemon` and `SelThreadPool`.
3. (done) Proofs for every value of the constants: `SemaphoreBalanced` and the refinement
   of `InbandService`; `HostInOnePlace`, `NoThreadAfterFree`; the four safety properties of
   `PowerCommand`; ownership in `ConsoleLifecycle`; `SolGranted`, `InUseRespected`;
   `InRangeAccepted`; the refinements of `ByteStream`.
4. (done) `AnswerOwn`, `SessionAgreed`, `NoFalsePassword`; `BufferIsRest`, `BreakNotLost`, and
   `PacketFits` without breaks; `ErasedLogged` and `RepeatsBounded` on BMCs whose record ids do
   not restart. Left: the same on those whose ids do, without failures and other clients.
5. `scbuf.c`, the ring buffer as a bounded overwriting queue; the SDR cache under
   reservations; `bmc-watchdog`; `pstdout`; `ipmidetectd`.
