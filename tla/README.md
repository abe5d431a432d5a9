# OpenSky sensor: a TLA+ verification project

The OpenSky daemon and library (`openskyd`, the dump1090 feeder, `gplib`) relay
ADS-B frames from a receiver to the OpenSky Network: frames are read from an
input, filtered, buffered while the network is down, and sent over one TCP
connection on which the server may also send commands.  This project models the
program in TLA+ - the buffer, the connection, the component framework, the
parsers of its three byte streams, the filter, the configuration and the linked
lists below all of them -, model-checks it with TLC and proves with TLAPS, for
every configuration, the safety of the frame buffer, of the connection, of the
component framework, of the receivers and of the lists, the bounds of the
configuration, what the parsers make of any stream of bytes and of any
configuration file, and that a saved configuration is restored.

Contents: [1 Inventory](#1-inventory), [2 Plan](#2-plan),
[3 Modules](#3-modules), [4 Runs](#4-runs), [5 Proofs](#5-proofs),
[6 Findings](#6-findings), [7 What is not modelled](#7-what-is-not-modelled).

## 1 Inventory

Paths are relative to `src/src/`.

| Component | State | Operations | Interaction | What is hard | What makes it correct |
|---|---|---|---|---|---|
| BUF, frame buffer (`core/buffer.c`) | free list, queue, static pool, dynamic pools with their collections, the producer's and the consumer's frame, statistics | new, commit, abort, get (blocking, timed), release, put back, flush, garbage collection, construct, destruct | RECV or the library's user produces, RELAY consumes, a GC thread collects; one mutex, one condition variable | exhaustion, freeing pools while frames circulate, lost wake-ups, failing malloc(), cancellation in a wait | a lossy FIFO: no frame leaks, dangles or has two owners; order; losses are counted; a frame is only dropped when all are in use |
| NET, connection (`core/network.c`) | connection state, transit state, two socket variables | (re)connect thread, wait for a connection, send, receive, check, force a disconnection | RELAY and the GPS thread send, TB receives; whoever sees a failure first leads | sockets are used outside of the mutex; failures seen in any order, also of later connections; cancellation at any point | both sides end up on one connection; nobody closes a socket another thread uses; no socket leaks; it always reconnects |
| RELAY, LOGIN (`core/relay.c`, `core/login.c`) | position in the login, frame in hand | login sequence, stream of frames and keep-alives | uses BUF, NET, SERIAL, GPS | a connection lost (and replaced) in the middle of the login | nothing is streamed on a connection before the login |
| SERIAL (`dump1090/req-serial.c`) | serial number, known or not | request, wait with timeout, response | RELAY waits, TB answers through a callback | timeout racing the response, late and repeated responses; connection replaced while waiting | RELAY never blocks for ever, never continues on another connection; the number used is the one saved |
| GPS (`core/gps.c`) | position, fix, "needed" flag | set position, set fix, send | Trimble thread or library's user sets; RELAY sends or defers | a second sending thread | position sent once known |
| TB (`core/tb.c`) | receive buffer, packet processors | receive, split into packets, dispatch | NET, SERIAL, FILTER, process commands | partial packets, reconnection inside `NET_receive()` | packets are those the server sent on one connection |
| RECV, FILTER (`core/recv.c`, `core/filter.c`) | frame in production, filter flags | connect input, read, filter, commit | BUF, input, TB changes the filter | cancellation between two calls | frames come from one input session, filter as configured |
| COMP (`util/component.c`) | ordered list of components with their states, threads | register, order by dependencies, init, start, stop (deferred), destruct | every component | failing starts, threads that do not end in time | dependencies first; everything that started is stopped |
| INPUT, BEAST (`radarcape/rc-parser.c`, `core/beast.c`) | stream buffer, frame in progress | connect, read, decode, resynchronize; encode | RECV asks for frames; LOGIN and GPS encode | a read ends anywhere, escapes at buffer boundaries, garbage, truncated frames | every frame in the stream is found, none invented; decoding inverts encoding |
| TRIMBLE (`trimble/trimble_parser.c`, `trimble/trimble_recv.c`) | stream buffer, packet | connect, read, decode, resynchronize, take the position | GPS | the same, packets as long as the buffer, reconnection | the position is the last one of this connection |
| LIST (`util/list.h`) | linked lists, lazy counters | push, shift, unlink, separate, concatenate, loops ... | BUF, COMP, CFG | pointer manipulation, unlinking in loops, lengths that are not valid | implements sequences |
| CFG (`util/cfgfile.c`) | sections and options, parser state, files | register, load defaults, parse, fix, check, write | all; SERIAL writes its section | malformed lines, searches beyond the line, CR LF, crash while writing | a file means what its lines say; what is saved is restored; usable values |
| STAT, logging, watchdog, FPGA, GPIO, main programs | | | | I/O | not modelled |

`PROJECT.json` lists every component with its status and every hazard with the
line where it bites and the properties that cover it.

## 2 Plan

Most important behaviour first.

1. (done) `FrameQueue`, the abstract lossy FIFO; `Buffer`, the frame buffer; the
   refinement between them; runs with and without history, with exhaustion,
   garbage collection and failing malloc(); liveness of the consumer.
2. (done) `Network` and `Uplink`: NET composed with RELAY, TB, SERIAL and the
   GPS thread; safety of the sockets, the hand-shake of leader and follower,
   login before frames, reconnection.
3. (done) `BufferProofs`: inductive invariant of the buffer for every
   configuration; type correctness, memory safety, exclusive ownership,
   availability of frames, no lost wake-up.
4. (done) `Component` and `ComponentProofs`: registration, ordering by
   dependencies as a loop, init and start with failures, stop with deferred
   joins; dependency order, nothing is destructed under a live thread, stop
   terminates.
5. (done) `ByteInput` and the three receivers on top of it: `Radarcape` (INPUT,
   RECV, FILTER with TB's reconfiguration, BEAST), `Trimble`, `Commands` (TB),
   each compared with a byte-by-byte reference.
6. (done) `ListSpec` and `List`: the linked lists pointer by pointer.
7. (done) `Config`: parser, writer, restart and crash.
8. (done) `FrameQueueProofs`: order of delivery of the abstract buffer.
9. (done) `BufferRefinement`: the buffer implements `FrameQueue`, and with item
   8 the order of delivery of the buffer itself; the account of losses.
10. (done) `UplinkProofs`: sockets, hand-shake and login, for any number of
   descriptors, connections, losses and restarts.
11. (done) `ComponentProofs`, second part: stopping is complete, so is a
   restart, and the framework's assertions hold.
12. (done) `ReceiverProofs`: buffers of the parsers, filter, position; the
   parsers, the encoder and TB compute what their references say.
13. (done) `ListProofs`: rings, lengths, loops and the refinement of sequences;
   `ConfigProofs`: the bounds of the configuration, what the parser makes of
   any file, and that what was saved is read again.

## 3 Modules

### FrameQueue (abstract)

What the buffer promises: `Commit`, `Take`, `Release`, `PutBack`, `Flush`, and
`DropOldest`, which needs `Occupied >= capacity`.  `capacity` is what there is
memory for; it changes as pools are created and freed (`Resize`), and the buffer
may be closed.  `Buffer` maps it to the number of frames of all its pools, so
the refinement says that no frame is dropped while any frame, collected ones
included, is free.  A frame is the number of its commit.  `FifoOrder`: frames
are delivered in the order of their commits and at most once.

### Buffer (`core/buffer.c`)

| Code | Model |
|---|---|
| `pool`, `dynPools`, `Pool.collect` | sets `pool`, `dynPools`, function `collect`; the order of these lists only decides which free frame is used next, and the model allows all choices |
| `queue` | sequence `queue` |
| `newFrame`, `currentFrame` | the same, `NULL` if none |
| `pthread_cond_wait/timedwait` | `waiting` (the function that sleeps) and `signalled` |
| failing assertion, division by zero | `status = "aborted"`, `"killed"` |
| `cfgFix()`, `construct()` | `StatBacklog`, `GC`, `DynMaxPools` |
| `getFrameFromPool()` | `FromPool`, `FromCollected`, `FromNewDynPool`, `FromQueue`, in this order of preference |
| `BUF_*`, `gc()`, `mainloop()`, `resetStats()`, `construct()`, `destruct()` | actions of the same names (`RunGC`, `GCMainloop`) |

`data`, `committed` and `delivered` are history: what is in a frame, how many
frames were committed, which were released.  Every function runs under the
mutex and is one action; the waits are split into going to sleep, wake-up
(signalled or spurious), timeout and cancellation.  The garbage collector may
run at any time (its interval is not modelled, its threshold is).

### Network and Uplink (`core/network.c` and its users)

`Network` has the state of `network.c`, the sockets of the operating system
(external: "up", "lost", "shut", "closed", with numbers that are reused), the
NET thread, and the cases of `emitDisconnect()` as separate definitions:

| Case of `emitDisconnect()` | Model |
|---|---|
| connected, synchronized: become leader | `BecomeLeader` |
| connected, leader reports again | `LeaderAgain` |
| connected, follower joins | `FollowConnected` |
| not connected, follower gives up the stale socket | `FollowDisconnected` |
| not connected, `assert(transState != TRANSIT_NONE)` fails | `FollowAssertFails` |
| shutdown, or the leader reports twice | `AlreadyReported` |

The NET thread holds the mutex while it (re)connects: `mainPc = "connecting"`
blocks all others (`MutexFree`).

`Uplink` adds the threads.  A send is three steps: read `sendsock` and enter
`send()`, its result, `emitDisconnect()`; other threads run in between.  RELAY
goes through the login (`deviceId`, `serial` or `request`/`serialWait`/`check`,
`position`, `username`) to `stream`.  TB receives; what it does with the bytes is
in `Commands`.  The GPS thread exists or not (`gpsThread`, chosen initially;
Radarcape with Trimble and users of the library have it) and sends when RELAY
had to defer the position.  `StopAll` and `StartAll` are
`COMP_stopAll()` and the library's `enable()`.

### Component (`util/component.c`)

| Code | Model |
|---|---|
| `struct Component` and the flags of the configuration | the record `sys`, chosen in the initial state from `Systems` |
| `components`, `tmpList` | sequences of the same names |
| `ComponentLink.state` | `state`, `"none"` if not registered |
| `ComponentLink.thread` | `thread`: "none", "running", "cancelled", "ended" (to be joined), "joined" |
| the loops | `pc` names the loop, `pos` the position in the list; one iteration per step |
| `fixDependencies()`, `sequentialize()` | `FixDependency`, `FixNext`; `SequentializeMove`, `SequentializeCycle` |
| `COMP_initAll()`, `destructUntil()` | `InitComponent`, `InitFails`, `Destruct` |
| `COMP_startAll()` | `StartSkip`, `StartComponent`, `StartFails` |
| `stopUntil()`: `end`, `deferred`, `progress`, first or later pass | `end`, `deferred`, `progress`, `retry`; `StopSkip`, `StopSelf`, `StopThreaded`, `Join`, `JoinFails`, `StopAgain`, `StopReturns` |
| `pthread_join()` after a successful `tryJoin()` (undefined) | an error (`Join`) or a crash (`JoinTwice`) |
| EMERG messages, failed assertions | `pc = "aborted"` with a `cause` |

The callers are part of the model: the daemons abort if a call fails and
destruct and unregister at the end; the library ignores results and calls
`enable()` and `disable()` repeatedly (`MaxStarts`).  Threads end on their own
between the steps of the caller.  `sys.waits` says for whom a cancelled thread
has to wait before it can end, as RELAY waits for the mutex that NET holds while
it connects.  `sys.prompt` is the assumption that a cancelled thread that waits
for nobody ends within the second `tryJoin()` grants it, and that threads do not
wait for each other in a circle (`NoCircle`; RELAY and TB may have to wait for
NET, which waits for none of them); properties that need it name it, the others
also hold for threads that are slow or never end.

### ByteInput, Radarcape, Trimble, Commands (three byte streams)

`ByteInput` is what the two parsers share: `bufCur`, `bufEnd` and
`discardAndFill()`.  The bytes of a connection are numbered, `cur` and `end` are
the positions of the two pointers in the stream; every read returns any number
of bytes the buffer has space for, or fails.

| Code | Model |
|---|---|
| `INPUT_getFrame()`, `decode()`, `synchronize()` (`rc-parser.c`) | `rcPc` names where the parser waits for a byte; one action per branch: `RcSync`, `RcSynchronize`, `RcSynchronizePeek`, `RcType`, `RcUnknownType`, `RcDecode`, `RcEscaped`, `RcResync` |
| `mainloop()` of `recv.c`, `FILTER_filter()` | `RcConnect`, `RcReadFails`, `RecvStatus`, `FilterSynchronized`, `FilterMode`: separate steps, since TB writes the same flags without a lock |
| `packetConfigureFilter()` of `tb.c` | `Command`, then one step per call: `FILTER_setSynchronizedFilter`, `FILTER_setModeSExtSquitter`, `FILTER_reset` |
| `BEAST_encode()` | a function of the bytes |
| `TRIMBLE_PARSER_getFrame()`, `decode()`, `synchronize()` | `Tr...`, as above |
| `mainloop()`, `posFrame()` of `trimble_recv.c` | `TrReset`, `TrPacket` with `IsPosition` and `Usable` |
| `mainloop()`, `processPacket()` of `tb.c` | `TbConnected`, `TbPacket`, `TbWrongLength`, `TbNeedsMore`, `TbReceive`, `TbReceiveFails`, `TbFollows` (`NET_receive()` retries on a new connection) |

Buffer sizes, the size of the raw frame (`RawSize`, `core/openskytypes.h:73`),
header and payload lengths are parameters.  `parsed`, `packets`
and `called` are what the parser has returned on this connection; the properties
compare them with a scanner that reads the stream byte by byte.  The parameters
of the runs are smaller than the code's (a long frame has a header of 2 and a payload of 2 bytes instead of 7 and 14), so
that frames, escapes and buffers can be cut at every place.

### List and ListSpec (`util/list.h`)

`ListSpec` has one action per macro of the public interface on sequences of
links.  `List` has `next`, `prev`, the tail pointer of singly linked lists,
`length` (modulo `SizeMod`) and `tainted`; every operation changes the pointers
the code changes.  `type` says which implementation the macros select: `DC` and
`SC` with `_Generic`, `coerced` (everything double linked, lazily counted)
without.  A list is its own anchor.  A loop is a sequence of steps: its body may
unlink the link it visits and put it in front of another list, as `buffer.c`
does.  Preconditions the documentation states (a link to be inserted is in no
list, source and destination differ) are guards, and so are two cases the code
does not survive: unlinking the anchor of a list that is not empty (`LIST_unlinkD`
says "nothing will happen", but the ring is torn), and the eagerly counting
separation of a tainted list.  `ListAssumption`: lists and links are different
things, the links are finitely many, and size_t can count them all.

### Config (`util/cfgfile.c`)

| Code | Model |
|---|---|
| option and section descriptors | seven options of four types in four sections, of which two have one name, as `NETWORK` has in the program |
| `bufferInput`, `bufferSize`, `bufferLine`, `sectionState`, `sectionName` | `input` (the rest of the file, as characters) and the same names |
| `readCfg()` | one step per iteration: `parseSection`, `parseOption`, `skipComment`, `skipNewline`, `parsed` (end of file) |
| `fix()`, `CFG_check()` | `cfgFix` of the buffer, `checkCfg` of the network |
| `CFG_write()`, `CFG_writeSection()` | the second in two steps (`SerialReceived` opens and truncates the file), so that the running daemon may end between opening and closing |
| `SERIAL_getSerial()`, `serialResponse()` | `SERIAL_getSerial` (request), `SerialGivesUp`, `SerialReceived`, `CFG_writeSection` in RELAY's thread, `SerialKnown` if it has a number; `serialResponse` in TB's, at any time while RELAY waits or is between two logins |
| `main()` of the two daemons | `Start`, `Restart`, `Stopped` |

A name is one character; a number has at most two digits.  What the parser
distinguishes is kept: brackets, `=`, `#`, white space, CR, LF, digits and other
characters (`Words`: names, digits and all that the parser does not look for).
Files are generated as lines, so that the properties can say what a line means;
a value may contain any character but CR and LF, also `=`, `]` and `#`.
Requests for a serial number that are not answered are counted (`pending`); the
server answers them with a new number each, in the same process or never.
`used` are the numbers this process has logged in with, `saved.at` says which
process wrote the file.  `ConfigAssumption`: every section is registered once,
files consist of such lines, the default host and port are valid, and there are
so few requests that an issued serial number has two digits.

## 4 Runs

| Run | Checks | Bounds and why they are enough |
|---|---|---|
| `buffer_history` | `NoLeakNoDangling`, `SingleOwner`, `AbortsOnlyIfMisconfigured`, `NoLostWakeup`, `LossIsAccounted`, `ImplementsFrameQueue` | 2 static frames (StaticBacklog = 1, raised by `cfgFix()`), 2 dynamic pools of 2 frames, 5 commits: malloc() may fail each time, so that 2 or 4 frames are exhausted as well; 2 GC runs collect pools partly, uncollect and free them |
| `buffer_no_history` | `EveryFrameLeaves` | 3 static frames, 5 commits, flushes and resets of the statistics |
| `uplink` | `AssertionHolds`, `SenderKeepsSocket`, `ReceiverKeepsSocket`, `NoSocketLeak`, `SyncInv`, `LoneSenderLogsIn`, `Reconnects` | 3 connections (the leader can report twice before the follower reports once; 2 with a GPS thread), 3 descriptors, a restart; serial number known or requested; with and without a GPS thread, where a failed assertion is final, so deadlock is not checked |
| `component` | `DependencyOrder`, `CycleIsReal`, `DependenciesConstructed`, `StopStopsEverything`, `RestartRestores`, `AssertionsHold`, `StartsAfterDependencies`, `StopsBeforeDependencies`, `CallsReturn` | 3 components: all 512 graphs (with cycles) under 5 orders of registration; RELAY with its two dependencies in all kinds, with a disabled or not to be started component, as daemon and as library; chains of threads that wait for each other (three passes) and threads that never end, with and without `pthread_timedjoin_np()`; 2 starts |
| `list` | `RingsIntact`, `LengthValid`, `LoopVisitsAll`, `ImplementsSequences` | 2 lists and 3 links in all three builds: first, middle and last positions, moving between lists; size_t modulo 4, so that meaningless lengths wrap around |
| `config` | `ReadsLines`, `SavedIsRestored`, `SerialSurvives`, `UsableConfiguration` | all files of up to 3 of 22 kinds of lines (a section, an option, an error), with LF and with CR LF; 2 restarts; 2 requests for a serial number, so that an answer may be late or a second one |
| `receivers` | `BuffersSuffice`, `ParsesStream`, `RoundTrip`, `CommitsWanted`, `NothingBeforeTime`, `TrParsesStream`, `PositionOfThisConnection`, `ExecutesCommands` | streams of two or three pieces (frames, escapes, truncated frames, garbage), cut into reads at every place by a buffer of 4 bytes, a packet buffer of 10 and a TB buffer of 8; any number of reconnections; TB's commands in between |
| `uplink_login`, `component_restart`, `config_assert`, `config_serial`, `config_line_ends` | one property each, violated | see Findings |

`MaxCommits`, `MaxFlushes`, `MaxGCRuns`, `MaxConns`, `GpsMaxConns`, `MaxStops`,
`MaxStarts`, `MaxRestarts`, `MaxRequests` bound counters; each is a guard of one action.
`MaxLines` bounds the files.  `list` uses the symmetry of links and lists; its
refinement is a safety property.  Type correctness is part of `SyncInv`,
`RingsIntact`, `UsableConfiguration` and `BuffersSuffice`; of all
components it is proved.

Fairness.  Buffer: the scheduler runs the consumer (weak fairness of getting a
frame and of the wake-up after a broadcast), and a consumer that holds frames
again and again succeeds to send in the end (strong fairness of
`BUF_releaseFrame`); nothing is assumed of producer, timeouts, spurious
wake-ups, flushes or collector.  Uplink: weak fairness of NET, RELAY and TB
steps that do not depend on the peer; connection attempts succeed some time
(`NetThread`); strong fairness of a failing send, because RELAY sends at least a
keep-alive after every timeout and a dead connection cannot accept data for
ever.  TB is not assumed to notice a lost connection, only one that was shut
down locally, as `recv()` does.  Component: weak fairness of the caller while it
is inside of the framework (not of calling it, nor of SIGINT) and of threads
that can end; a thread that waits for itself in `sys.waits` never can.
`CallsReturn` claims no more than the code can: with `pthread_timedjoin_np()`
the framework's calls return whatever the threads do, without it the later
passes of a stop join without a timeout, so threads must not wait for each other
in a circle.  A call that is blocked so is a state in which the system stops
(`Blocked`).

## 5 Proofs

`BufferProofs` proves, for every value of the constants (backlogs, number of
pools, history, GC, malloc() failing or not, all bounds), under
`BufferAssumption` (types of the configuration) and `NullAssumption` (`NULL` is
no frame):

| Theorem | Statement |
|---|---|
| `TypeCorrect` | `Spec => []TypeOK` |
| `MemorySafe` | `Spec => []NoLeakNoDangling` |
| `Exclusive` | `Spec => []SingleOwner` |
| `NewFrameSucceeds` | `Spec => []AbortsOnlyIfMisconfigured` |
| `NewFrameFindsFrames` | `Spec => []AbortsOnlyWhenExhausted` |
| `WakeupNotLost` | `Spec => []NoLostWakeup` |

The argument is one inductive invariant

    IInv == TypeOK /\ DownIsEmpty /\ NoLeakNoDangling /\ SingleOwner
            /\ NoLostWakeup /\ SleepsEmptyHanded /\ AbortsOnlyIfMisconfigured
            /\ AbortsOnlyWhenExhausted

`NoLeakNoDangling` and `SingleOwner` need each other: that the collector may
free a pool follows from "all its frames are in its collection" (a cardinality
argument, `FullyCollected`) and "a frame in a collection is nowhere else".
`AbortsOnlyIfMisconfigured` follows from both: if nothing is free, collected or
queued, both static frames (`TwoStaticFrames`, the reason of `cfgFix()`) would
have to be with the consumer.  `AbortsOnlyWhenExhausted` is the same argument for
all frames: those nobody holds would be free or collected.  `SleepsEmptyHanded` makes putting a frame back
harmless to a sleeping consumer, `DownIsEmpty` makes `construct()` start from
nothing.  One lemma per action shows that it preserves `IInv`.

`ComponentProofs` proves, for any set of components, any set of systems (graphs,
kinds, flags, waiting threads, prompt or not, with or without
`pthread_timedjoin_np()`) and any number of starts, under `SystemsAssumption`
(types of the descriptors) and `MaxStartsAssumption`:

| Theorem | Statement |
|---|---|
| `TypeCorrect` | `Spec => []TypeOK` |
| `OrderedByDependencies` | `Spec => []DependencyOrder` |
| `ReportedCycleIsReal` | `Spec => []CycleIsReal` |
| `NothingUsedAfterDestruct` | `Spec => []DependenciesConstructed` |
| `StartOrder` | `Spec => StartsAfterDependencies` |
| `StopOrder` | `Spec => StopsBeforeDependencies` |

Its inductive invariant

    IInv == TypeOK /\ ListInv /\ OrderInv /\ PosInv /\ StateInv /\ ThreadInv
            /\ CauseInv /\ DependenciesConstructed

holds the invariants of the loops: the two lists partition the registered
components (`ListInv`); what `fixDependencies()` has visited is closed, what
`sequentialize()` has moved is ordered (`OrderInv`); nothing behind the position
is constructed while constructing, undoing or destructing, and nothing before it
is left to be started while starting (`StateInv`); no thread runs behind the
position while stopping, nor behind a component that is still to be started
(`ThreadInv`).  The last is needed for the order of cancellation after a failed
start, where only a part of the list is stopped.  `UnlinkMembers` describes
moving a component between the lists; there is one lemma per action.

Its second part proves that stopping is complete:

| Theorem | Statement |
|---|---|
| `EverythingStops` | `Spec => []StopStopsEverything` |
| `RestartIsComplete` | `Spec => []RestartRestores` |
| `AssertionsNeverFail` | `Spec => []AssertionsHold` |

Its invariant, `StopInv`, is relative to `IInv`.  It says who owns a thread (`OwnerInv`), and for systems
that are `prompt` what a start has left behind (`StartLoopInv`, `UpInv`), what a
pass of `stopUntil()` has tried so far (`PassInv`), and that after the last pass
nothing is started (`StoppedInv`).  The key lemma, `NothingLeft`: if a later
pass made no progress although something is still started, then of the
components that are left one waits for none of the others (`NoCircle`), and its
thread would have been joined.  Without `NoCircle` the claim is false: two
threads that wait for each other are never joined, and the stop gives up.

`FrameQueueProofs` proves `DeliversInOrder`: the abstract buffer satisfies
`[]FifoOrder` for every capacity, if `None` is no number.  Its inductive
invariant (`QueueInv`) adds that all frames are at most `committed`, so that a
new one is younger than all others.

`BufferRefinement` connects the two, under the assumptions of `BufferProofs`:

| Theorem | Statement |
|---|---|
| `Refinement` | `Spec => ImplementsFrameQueue` |
| `InOrder` | `Spec => []FQ!FifoOrder` |
| `LossesCounted` | `Spec => LossIsAccounted` |

The refinement maps `queue` to the contents of its frames and the capacity to
the number of frames of all pools.  `IInv` is not enough for it: `DataInv` says
what is in a frame, by where it is (a frame that is neither queued nor held has
no content, the producer's has none or the next number).  One lemma per action
names the step of `FrameQueue` it is.  `DropOldest` is the hard one: when
nothing is free or collected, every allocated frame is in the queue or with the
consumer, so that there are no more than the occupied ones (a cardinality
argument).
`InOrder` follows by instantiating `FrameQueueProofs` with the mapping.
`LossesCounted` looks at the same steps: what a step removes from queue and
hands is what it adds to `discardedAll`.

`UplinkProofs` proves, for any set of descriptors and any number of connections,
losses, stops and restarts:

| Theorem | Statement |
|---|---|
| `HandShakeHolds` | `Spec => []SyncInv` (with type correctness) |
| `EmitAssertion` | `Spec => []AssertionHolds` |
| `SendSocketStable` | `Spec => []SenderKeepsSocket` |
| `ReceiveSocketStable` | `Spec => []ReceiverKeepsSocket` |
| `SocketsBounded` | `Spec => []NoSocketLeak` |
| `LoginFirst` | `Spec => []LoneSenderLogsIn` |

The inductive invariant

    UplinkInv == TypeOK /\ SockInv /\ LeakInv /\ TbInv /\ RelayPcInv
                 /\ (~gpsThread => RelayInv /\ LoginInv)

has a part that holds with any senders and one for RELAY as the only sender.
`SockInv` ties the socket variables to connection and transit state.  `TbInv`
says that TB waits whenever it has reported a disconnection that is not over,
and that a running `recv()` is on `recvsock`; `RelayInv` is its mirror image for
RELAY.  Both are why nobody closes a socket in use: the socket of a side is
closed by that side's own `emitDisconnect()`, or when that side is known to
wait.  With a GPS thread the mirror image is false - the reason of the finding
`uplink_login` - and nothing is claimed.  `LoginInv` follows RELAY through the
login: what it has sent, it has sent on the connection `sendsock` is now.

`ReceiverProofs` proves, for any streams of bytes, any cut of them into reads
and any sizes of the buffers that satisfy the assumptions (`InputAssumption`,
`RadarcapeAssumption`, `TrimbleAssumption`, `CommandsAssumption`: a read buffer
of at least one byte, a raw frame in which every byte of the longest frame may
be escaped, a packet buffer of more than one byte, a TB buffer of at least a
header):

| Theorem | Statement |
|---|---|
| `NoBufferOverflows` | `Spec => []BuffersSuffice` (with type correctness) |
| `WantedAreCommitted` | `Spec => []CommitsWanted` |
| `TimeComesFirst` | `Spec => []NothingBeforeTime` |
| `PositionIsCurrent` | `Spec => []PositionOfThisConnection` |
| `FramesAreParsed` | `Spec => []ParsesStream` |
| `EncodingRoundTrips` | `Spec => []RoundTrip` |
| `PacketsAreParsed` | `Spec => []TrParsesStream` |
| `CommandsAreExecuted` | `Spec => []ExecutesCommands` |

`ReceiverInv == InputInv /\ RcInv /\ TrInv /\ CmdInv`.  The raw frame fits
because `decode()` has written at most two bytes per decoded byte, and one more
behind an unpaired SYNC (`FrameOK`); `PartLeft > 0` keeps header and payload
apart.  For the filter, `Seen` and `Judged` count the frames that have passed
the first and the last step of it, so that the invariant can speak of states in
which TB changes the filter between two steps: `isSynchronized` implies that a
frame seen gave the time (`FilterInv`), and a frame between the two filters was
let through because of it (`TimeInv`).  For the position, the last usable
packet is described by the set of indices of usable packets.  `LeastElement`
(from the well-foundedness of the natural numbers) gives what `Find`, i.e.
`memchr()`, returns.

The last four theorems say what is computed.  Their references are recursive
functions: two scanners that look at one byte after the other, the list of
commands in a sequence of bytes, and the encoder itself.  A step of a parser may
consume none, one or many bytes (`synchronize()` skips to the next SYNC), so

    StreamInv == ScanInv /\ EncodeInv /\ TrScanInv /\ TrackInv

says where the scanner is when the parser is in a given place: `Matches` and
`TrMatches` give its state after the bytes consumed, as a function of program
counter, frame in progress and frames returned.  `TrackInv` says that the
commands in everything received are the ones executed followed by those in the
buffer, and that this remains so whatever arrives later (`OnTrack`).
`EncodeInv` says that the raw frame is the encoding of the bytes decoded so far,
with one SYNC more where `decode()` stands between the two of a pair.
Induction over data is not available as a rule.  Where a recursive function
has to be unrolled, the proof takes the least place at which the claim would
fail (`LeastElement`, from the well-foundedness of the natural numbers): this
shows that the functional equation has a solution, that a run of bytes without
SYNC leaves the scanner where it is, and that the encoding of a sequence is that
of its beginning followed by that of its last byte.

`ListProofs` proves, for any set of lists and finite set of links, in all three
implementations:

| Theorem | Statement |
|---|---|
| `ListRingsIntact` | `Spec => []RingsIntact` (with type correctness) |
| `ListLengthValid` | `Spec => []LengthValid` |
| `ListLoopVisitsAll` | `Spec => []LoopVisitsAll` |
| `ListImplementsSequences` | `Spec => ImplementsSequences` |

They have the hypothesis `PrependToEmpty = FALSE`: without it they are false,
because of `LIST_concatenateUnshiftS()` (see Findings).  The invariant is

    Inv == TypeOK /\ Shaped /\ LengthValid /\ LoopInv

`Shaped` says that the pointers make rings of the sequences that reading them
returns, which share no links, and that the pointers back (or the tail pointer)
make the reversed ones.  One lemma per macro states, for rings of any sequences,
which sequences the changed pointers make rings of; the invariant, the
refinement and the lengths all follow from it, since a ring determines its
sequence (`RingIsSequence`).  Lengths count modulo `SizeMod`; a valid one is
exact, because there are fewer links than that.  `LoopInv` is about loops whose
body moves the visited link away: what was visited, the link, and what follows
`n` make up the list the loop began with (`Underway`), and the ring still has
the latter at its end.

`ConfigProofs` proves, whatever the files contain:

| Theorem | Statement |
|---|---|
| `ConfigurationUsable` | `Spec => []UsableConfiguration` (with type correctness) |
| `FilesAreRead` | `Spec => []ReadsLines` |
| `SavedConfigurationRestored` | `Spec => []SavedIsRestored` |
| `SerialNumberSurvives` | `Spec => []SerialSurvives` |

The invariant of the first, `ConfigInv`, adds which part of the main program has
fixed and checked the options: `Fixed(val)` holds where the last file was read
successfully, `checkCfg(val)` from `CFG_check()` on, and serial numbers issued
and requests together are no more than `MaxRequests` (`Counted`).

The second compares a parser of characters with a reading of lines.  The rest of
the text is always that of the lines from some `i` on (`TextFrom`), or a newline
in front of it where a `\r` was skipped alone (`Consumed`), and options and
section are what the lines before `i` say (`Readings`); when the file is closed,
that is the reading of all lines (`Progress`, `ParserInv`).  The lemmas behind
it say where `memchr()` finds a newline, `]` or `=` in the text of a line
followed by any others - beyond the line, if the line has none - and that
nothing but the two cases named in `Meaning` depends on it (`KeyAlone`,
`OptionFound`, `HeadingFound`).

The last two need what is written as well: `Block(L, a, b, S, v)` says that lines
`L`, read in section `a`, leave the parser in section `b` and set exactly the
options `S` to what `v` prints as.  Blocks are joined as `writeSections()` joins
them (`SectionsWritten`; `AllWritten`: no option is lost, whichever section of a
name was registered first), printing and parsing are inverse on the values an
option can have (`ReadBack`), and reading a block gives `Merged` options
(`BlockRead`).  `SavedInv` follows the saved file through a start of the
process: it is not empty, so it can be opened, it is read first and with the
defaults (`OrderInv`), nothing read later sets the serial number, and a number
is requested only if there is none in the file - so that the moment in which the
file is empty cannot lose one.  The process that wrote the number may still
receive another one, in its memory only; the claim is about the processes after
it, which request none and so can receive none.

The invariants of buffer, framework, uplink and abstract queue were checked with
TLC on the instances of the runs before they were proved, and so was every
property; the invariants of lists, scanners and configuration speak of all
sequences and were only proved.

Only proved, and in no run, is what the buffer does where the process may die
(DynamicBacklog = 0 or GCLevel = 0): the theorems cover these configurations,
`NewFrameFindsFrames` is about them.

Only model-checked is liveness - `EveryFrameLeaves`, `Reconnects`, `CallsReturn` -
which is out of reach of the prover.  Every other property of the passing runs
is the statement of a theorem.

## 6 Findings

Runs expected to violate their property show:

* `uplink_login` - with a second sender (GPS thread), the failure of a
  connection may be reported by that thread; NET reconnects, and RELAY, whose
  own sends did not fail, streams on the new connection without a login.
* `component_restart` - a component whose thread did not end in time stays in
  state STARTED although it was cancelled; the next `COMP_startAll()` skips it
  and returns true, and the thread never comes back.
* `config_assert` - a file that cannot be parsed to its end leaves the options
  assigned before the error, and they are not fixed; `main()` logs that it uses
  defaults and goes on, and the assertion of the buffer's `construct()` fails.
* `config_serial` - an answer of the server that arrives after
  `SERIAL_getSerial()` gave up is used by the next login without being saved, and
  a second answer replaces the number that was saved
  (`dump1090/req-serial.c:74`, `:151`): after a restart the sensor has another
  serial number, or requests one.
* `config_line_ends` - an empty value that ends with CR LF is not the default, as
  with LF: the length of the value wraps to `SIZE_MAX` (`util/cfgfile.c:642`); a
  flag or a string is refused, a number crashes the process.

Noted while modelling, without a run:

* `LIST_concatenateUnshiftS()` (`util/list.h:760`) into an empty list makes the
  tail pointer name the first link; the next `LIST_push()` loses the others.  The
  program does not use it; the run `list` leaves it out, with
  `PrependToEmpty = TRUE` in `MCList.cfg` TLC finds `RingsIntact` violated.
* With `BUFFER.DynamicBacklog = 0`, which `cfgFix()` accepts, `BUF_newFrame()`,
  which "always succeeds" (`core/buffer.c:346`), creates a pool without frames and
  its assertion fails (`core/buffer.c:338`); with `BUFFER.GCLevel = 0` the garbage
  collector divides by zero (`core/buffer.c:245`).  These are the two exceptions of
  `AbortsOnlyIfMisconfigured`.
* Without `pthread_timedjoin_np()` a later pass of the stop blocks in
  `pthread_join()` (`util/component.c:417`) for ever if the thread does not end;
  `stopThreaded()` is documented to return "false on timeout (one second)"
  (`util/component.c:404`).  This is the exception of `CallsReturn`.
* `readCfg()` ignores that `parseOption()` refused a value (`util/cfgfile.c:703`),
  although "parsing will fail" (`util/cfgfile.c:122-123`) if defaults are not to be
  used: the option keeps what it had and the file counts as read.
* `NET_receive()` continues on a new connection by itself (`ACTION_RETRY`), so TB
  does not reset its buffer as `core/tb.c:115` says, and the rest of a packet of
  the old connection precedes the new bytes; `ExecutesCommands` excepts connections
  that begin so (`misread`).
* With a second sender the assertion of `emitDisconnect()` (`core/network.c:312`)
  can fail; `AssertionHolds` is stated for one sender.
* A daemon with a thread that does not end runs into the assertion of
  `destruct()` (`util/component.c:439`) instead of exiting.
* `maxQueueSize` is only updated by `BUF_commitFrame()`; a frame that is put
  back can make the queue longer than the maximum printed by `statistics.c:200`.
* `cleanupMain()` closes one socket only: when it runs while leader and follower
  are not synchronized, the stale one leaks (hence `<= stops` in
  `NoSocketLeak`).
* `trySend()` passes the full length again after a partial `send()`
  (`core/network.c:371`).
* A deferred stop joins a thread twice (`util/component.c:410`, `:417`).
* A line without `=` in a known section, with none in the rest of the file
  either, makes `parseOption()` search backwards from a null pointer: it crashes,
  and `Meaning()` says so.  A last line without newline loses its last character.
  `CFG_readDirectory()` returns true although a file failed; the result of
  `fclose()` is not checked.
* A frame that is cut right behind a SYNC, or a Trimble packet cut right behind a
  BOM, costs the next one too: the two bytes look like an escaped one.  The
  reference scanners do the same.
* From the loss of the Trimble receiver's connection to `GPS_reset()` on the next
  one, the position of the earlier connection may be sent;
  `PositionOfThisConnection` is about the time it is connected.
* A Trimble packet of type BOM is accepted right behind another packet, and the
  longest packet is one byte shorter than the buffer: the buffer is noticed to
  be full before the end of the packet is seen.
* The comment at `core/tb.c:34` gives packets a header of 3 bytes, the code one of 4.
* `configure()` of RECV and `INPUT_reconfigure()` of TB may write the frame
  filter to the device in the wrong order (`radarcape/rc-parser.c:182`).
* `GPS_reset()` clears `needPosition` (`core/gps.c:43`): if the GPS receiver is
  connected after RELAY deferred the position, it is not sent on this
  connection.

## 7 What is not modelled

Host, port and time of the connection, its statistics and those of all other
components but the buffer; encoding of the messages apart from `BEAST_encode()`;
the 30 rounds of waiting for the serial number (any number); `posMutex` only as
far as it orders the GPS thread and RELAY; failure of the static pool's
allocation, upon which the program ends.  `CFG_set...()`, with which the library
is configured, assign single options.  Numbers in a configuration file are
decimal and short: one that starts with 0 is octal to `strtoul()`, and a value of
20 and more characters is refused (`util/cfgfile.c:430`, `:438`); no property
depends on either.  Device access (watchdog, FPGA, GPIO,
the settings of a UART), logging, statistics output, the MAC address as serial
number and the commands that replace the process are I/O.  `LIST_item` and its
variants are address arithmetic.  Partial sends and the race of `submitFrame()`
with `disable()` are listed as hazards without a property, with the reason.
