# Verification of dataAccess

TLA+ models, TLC runs and TLAPS proofs about `mdvrDataAccess`, the gateway between vehicle video recorders (MDVRs), a RabbitMQ broker and video back ends, and about the parts of the muduo network library it is built on (`src/src/mdvrDataAccess`, `src/src/muduo`).

Paths below are relative to `src/src/` unless they begin with `src/`.

## 1. The system

### Processes and threads

`mdvrDataAccess/main.cc` forks a *monitor* that keeps one *worker* alive: it waits for the child and forks another one second later. The worker may fork a *raptor* program at each start. In the worker run

- the **loop thread**: one `EventLoop` for four `TcpServer`s (recorders, video back ends, satellite GPS, GPS files), the one-second idle timer, and everything other threads hand to it;
- the **MQ receiver thread** (`rcvMQ.cc`): consumes commands from the broker and queues them in the loop;
- the **logging thread** (`AsyncLogging`), which writes what every thread appends.

The loop thread runs a callback to its end before it starts the next one. What is concurrent is therefore (a) the order of callbacks, (b) the other two threads at the points where they touch the loop, the connection or the log, (c) the peers, the broker and the death of the process. The models take exactly these as their steps: one action is one callback of the loop thread, or one step of another thread between two points where it can be overtaken.

### Components

| component | code | state | operations |
|---|---|---|---|
| signalling server | `mdvrServer.{h,cc}`, `cmdHandle.cc` | `g_mdvrConnectMap` (identity to connection), each connection's context | V1 (register, replace, repeat), disconnect, reports, alarms |
| presence protocol | `cmdRegister`, `sendOfflineCmd2MQ` | what the back end was told last: V1 or A1 | publish |
| command handlers | `cmdHandle.cc`, `callMdvrcmdHandler` | none of their own | acknowledge, publish, forward, in an order of each one's own |
| framing | `onMdvrMessage` | input buffer, `bufIdx`, `length` | find frames, put back, discard |
| idle detection | `connectionBuckets_`, `Entry` | circular buffer of sets of shared pointers | insert, refresh, tick, probe |
| video server | `vedioServer.cc` | `g_VedioConnectMap`, `vedioConn_` | open, replace and end a session, forward reports |
| GPS file server | `GpsFileServer.cc` | `g_GpsFileConnectMap` | V4 (bind, replace, bind to a second identity), data, end of upload (A4) |
| satellite GPS server | `GpsServer.cpp` | none between messages | parse and publish |
| MQ receiver | `rcvMQ.cc`, `AMQP/AMQPQueue.cc` | the message being put together | consume, filter, queue in the loop, end |
| AMQP wrapper | `AMQP/` | the link to the broker | publish, consume |
| supervisor | `main.cc` | processes | fork, respawn, signals, teardown |
| event loop | `net/EventLoop.cc` | `pendingFunctors_`, `callingPendingFunctors_`, `quit_`, eventfd | `loop`, `queueInLoop`, `quit`, `wakeup` |
| connection | `net/TcpConnection.cc`, `TcpServer.cc` | `state_`, output buffer, channel interest, the server's map | `send`, `shutdown`, `forceClose`, `handleRead/Write/Close`, `connectDestroyed` |
| buffer | `net/Buffer.{h,cc}` | vector and two indices | `append`, `retrieve`, `prepend`, `makeSpace`, `shrink`, `readFd` |
| timers | `net/TimerQueue.cc` | `timers_`, `activeTimers_`, `cancelingTimers_`, the timerfd | `addTimer`, `cancel`, `handleRead`, `reset` |
| pollers | `net/Channel.cc`, `net/poller/` | the channels' `index_` and events, the kernel's interest list or `pollfds_` | update, remove, poll |
| log files | `base/LogFile.cc` | the open file, `count_`, `startOfPeriod_`, `lastRoll_` | append, roll |
| log | `base/AsyncLogging.cc` | current, next and full buffers, two spares | `append`, `threadFunc`, `stop` |

Other parts (acceptor, connector and client, loop threads, thread pool, queues, dates) are listed in `PROJECT.json` with their status.

### How they interact

A recorder's bytes go poller → `TcpConnection::handleRead` → `Buffer` → `onMdvrMessage` → a command handler, which changes the map, publishes over `ex_` in the same callback and answers with `send`. A command goes broker → receiver thread → `queueInLoop` → `findMdvrConnectInLoop` → `send`. A report of a recorder goes to `vedioConn_`. A close goes `handleClose` → `onMdvrConnection` (DOWN) → `removeConnection` → queued `connectDestroyed`. A publication that throws, and an exception no callback catches, end the process and with it all four servers' state.

### What is hard, and what must hold

- *Replaced connections.* A recorder comes back before its dead connection is noticed; the old connection is only shut down, is still read, and ends late. The right connection must hold the identity in every order, and the back end's picture must be the map.
- *Threads at the loop.* A wakeup must not be lost; messages of several threads must leave whole and in order; a timer cancelled in a callback must neither run, nor be armed again, nor be freed under the caller.
- *Half-closed connections.* A FIN must not overtake output; output must not be stuck; DOWN must come once.
- *TCP cuts anywhere.* What a byte stream is taken for must not depend on the cuts.
- *Shared entries.* The idle probe must come from the last of several shared pointers.
- *Half-done commands.* A handler acknowledges, publishes and forwards one after the other; a field that is missing, a link that fails and the death of the process come between.
- *Processes.* A stop must reach a worker that is just being born; the monitor forks its first worker before it has its signal handlers; a restart must find the ports free.
- *Memory that comes back.* A raw timer address is allocated again; the two spare log buffers must come back from every batch.

`PROJECT.json` lists every hazard at its line, with the properties aimed at it, or the reason there is none.

## 2. The modules

| module | models | extends or instantiates |
|---|---|---|
| `MdvrRegistry` | registration, replacement, disconnect, presence events, MQ commands, death and restart of the worker | `DevicePresence` |
| `DevicePresence` | the promise to the back end: online and offline events of a set of devices over a link that may swallow or refuse | |
| `CommandHandlers` | what each handler of `mdvrCmdMap` does and in which order, over links and connections that fail, for commands that may lack fields, with a recorder that repeats | |
| `MdvrFraming` | the loop of `onMdvrMessage` over bytes delivered in arbitrary pieces | |
| `IdleWheel` | the buckets of shared `Entry` pointers | `IdleTimer` |
| `IdleTimer` | the promise: one countdown per connection | |
| `VideoAccess`, `GpsFile` | the two servers, each without the end of the worker | |
| `MediaServers` | both in one worker: what ends it while one is called resets the other | `VideoAccess`, `GpsFile` |
| `GpsFileFraming` | the byte stream of an upload: headers, data, ends, what stays in the buffer, what `Publish` takes of it; reads that are too short, file data that reads like a header | |
| `GpsSentences` | which reads of the satellite server become which messages under which key | |
| `MqReceiver` | the frames of the broker's link, the messages put together from them, the thread, what it hands to the loop | |
| `Supervisor` | monitor, workers, raptor processes, signals, ports, configuration | |
| `EventLoop` | loop, functor queue, eventfd, `quit`, other threads between store and wakeup | `TaskQueue` |
| `TaskQueue` | the promise of `queueInLoop`: once each, in order | |
| `TcpConnection` | one connection and the part of `TcpServer` that owns it, with other threads between test and set | |
| `EPollPoller`, `PollPoller` | the two pollers with the part of `Channel` that talks to them | `Poller` |
| `Poller` | the promise of both: what each channel asks for is waited for, nothing else is reported | |
| `Buffer` | the vector with its indices | |
| `TimerQueue` | timers at reusable addresses, callbacks, the timerfd, other threads | |
| `AsyncLogging` | the buffers and the back end thread | |
| `LogFile` | rolling by size and by day, with a clock that may be set back and a local time that is set back at the end of DST | |
| `*_proofs` | the theorems about the module they are named after, or, for `Servers_proofs`, `Gateway_proofs` and `Library_proofs`, about the instances in the `MC` module of that name | the module, `TLAPS` |
| `MC*` | what TLC needs: symmetry, values of constants, parts side by side | the modules of a run |

Definitions carry the names of the functions and members they model; `PROJECT.json` ("map") gives the lines. Definitions named `X_Something`, marked *Mutant*, are variants of `X` with a plausible bug: they are not part of any specification, and each shows that some property notices the bug.

**How they compose.** The registry, the media servers, the event loop, the connection, the timer queue and the log are composed where the components share state: `MediaServers` puts two servers into one process, the registry contains the functors the receiver queues and the recorder's connections, the refinements tie a component to its promise. Components that share none are checked *side by side* in `MCServers`, `MCGateway` and `MCLibrary`: a variable `part` says whose behaviour this is, and the others stay as they were started. Such a run is a set of independent checks; nothing about an interaction is claimed from it.

### Correspondence worth knowing

- **Connection objects are slots.** A `TcpConnection` that was destroyed gives its slot back; an accepted connection takes one. A few slots thus stand for any number of connections over time, and a stale `shared_ptr` in a map keeps its slot from being reused, as it keeps the object alive.
- **`state_`** has its four values. A replaced connection is `kDisconnecting`: still read, no longer written. `send` on anything but `kConnected` drops.
- **The link to the broker** is `up`, `silent` (the broker is gone but the kernel does not know: a publication vanishes) or `broken` (Publish throws). `send2MQ` turns the throw into `exit(0)`; `sendOfflineCmd2MQ` and `sendGpsFileOverCmd2MQ` swallow it.
- **`backend`** is history: what was delivered last about an identity. At the death of a worker a standing V1 becomes `stale`, for nobody vouches for it any more.
- **Payloads** are left out; a message is who it is about. In `MdvrFraming` byte `i` of a frame of kind `k` is `<<k, i>>`, for the parser looks at the first four bytes and for `#`; in `GpsFileFraming` `Char` is what the handler sees of a byte, for the data of a file may hold a NUL or read `99dc` like a header; in `GpsSentences` a sentence is cut into the parts the code asks for. In `TcpConnection` a message has two bytes, the smallest that can be torn.
- **A command is its kind and how many fields it has** (`CommandHandlers`): `split` throws when one it asks for is missing, and where in the handler it is called decides what has been done by then. `Handler` lists each one's effects in order.
- **`EventLoop`**: `queueInLoop` stores under the mutex and decides about the wakeup after it, so these are two steps; so is `quit`. In `TcpConnection` another thread's test of `state_` and what follows are two steps.
- **`Supervisor`**: `daemon()` makes the monitor leader of the process group, so `kill(0, SIGTERM)` reaches all of it; a worker that has not reached `setchildsignal` has its parent's handlers and signals the group once more. The monitor is `starting` between the first fork and `setmatsersignal`, and a SIGTERM then ends it alone. A process slot in `Pids` is free, or what its process is doing.
- **Local time** in `LogFile`: a file is named after `localtime_r` of the second it is `opened` in (the source asks itself `FIXME: localtime_r ? gmtime_r`), so `Local` repeats the `DstShift` seconds before `DstEnd`, and two files of one local time are one on the disk. The day is the one of the month (`getCurrentData`), which comes again after `MonthDays` days.
- **History variables**, read by no guard of the code's actions except to bound the instance: `Buffer::content`, `TimerQueue::ran, cancelled, early`, `TcpConnection::wire, downs, raced`, `AsyncLogging::file, dropped, lines`, `CommandHandlers::answered, acked, published, deaths`, `MqReceiver::handed`, `Supervisor::exhausted`, `GpsFileFraming::misread`.

## 3. What TLC checks

| run | instance | what it shows |
|---|---|---|
| `servers` | registry: 3 connections, 2 identities, 1 command waiting; wheel: 3 connections, 3 buckets; input: every stream of up to 3 frames, every cut | `LiveConnectionHolds`, `NoStaleEntry`, `CommandDelivery`, and that the registry implements `DevicePresence` (`ImplementsPresence`); `CutIndependent`, `NothingWaits` (recorders' commands), `UploadExact` (files); that the wheel implements `IdleTimer` (`ImplementsIdleTimer`) |
| `media_servers` | 2 video and 2 GPS connections, 2 sessions, 2 identities | `NoStaleSession`, `LiveSessionHolds`: sessions never outlive connections, the late end of a replaced one takes no session; `FinishReported`: uploads that ended are reported, unless the connection was bound to a second identity |
| `gateway` | 2 events of 13 commands, 2 faults; 2 messages; 3 processes, one of which others may take | handlers: `EffectsTogether` (acknowledging and publishing come apart only at a death), `RecorderAnswered`; receiver: `CommandsIntact`, `CommandsRun`; processes: `OneWorker`, `ServedAgain`, `StopEndsAll` (once the monitor has its signal handlers) |
| `eventloop` | 2 other threads, 4 functors | `NoLostWakeup`, `EventuallyRun`, `QuitEndsLoop`, and that the loop implements `TaskQueue` (`ImplementsTaskQueue`): each functor once and in order |
| `tcp_connection` | the loop, a thread that sends and may close, a thread that sends; the server may end | `StreamIntact`, `OutputArmed`, `ShutdownFlushes`, `EndsOnce`, `Ends` |
| `timer_queue` | 1 other thread, 2 timers, 2 addresses, 3 ticks | `SetsAgree`, `TimerfdArmed`, `NoLeak`, `RunsRightly`, `DroppedRightly`, `EveryTimerRuns` |
| `async_logging` | 10 lines, buffers of 2, batches of 3 | `SparesReady`, `LinesInOrder`, `EventuallyWritten`, `StopEnds` |
| `library` | files of more than 3 lines, days of 2 seconds and months of 2 days, DST that ends after 2 of 5 seconds, 6 appends; 2 byte values, 4 bytes of content; 3 channels with 2 events | `FilesInOrder`, `ContentExact`, and that both pollers implement `Poller` (`ImplementPoller`) |
| `video_online` | 2 connections | violation, see below |
| `gps_file_finished` | 2 connections, 1 identity | violation, see below |
| `gps_sentences` | 2 sentences | violation, see below |
| `gps_file_cut` | an upload of 2 frames | violation, see below |

The largest are `media_servers` (1 491 966 states), `tcp_connection` (622 435), `library` (509 590), `servers` (90 815) and `gateway` (79 057, mostly spent on liveness); each takes about half a minute. The `TypeOK` of `MdvrRegistry`, `EventLoop`, `TimerQueue`, `AsyncLogging` and `TcpConnection` are proved and no run repeats them; so is `PresenceAccurate` of the registry. The other modules state theirs for the reader.

In `TcpConnection` the class is documented as not thread safe for `shutdown` (`TcpConnection.h:70`, `// NOT thread safe, no simultaneous calling`), and a FIXME of the source (`TcpConnection.cc:195`) names the unlocked test of `state_`. The variable `raced` says whether another thread's `shutdown` or `forceClose` has written `state_`, or `~TcpServer` has run. Before that all properties hold; after it only the part of `StreamIntact` without `~raced` is claimed: what leaves is in order and untorn, although a message may be missing. `Ends` speaks of behaviours that never race.

### Bounds, and why they are enough

- *Three connections* are the smallest number with a holder, a replaced one that has not ended, and one that replaces again; *two identities* let a connection announce one after the other and let a mistake about one disturb the other. The media servers have two connections each, because their product is what counts and no action of theirs involves a third. The proofs hold for any number.
- `MaxPending = 1` command: the order of commands is `EventLoop`'s affair; here only what happens between queueing and running matters.
- *Two events*: one command may stand before the other in the input, be stalled by it or lost with it. The 13 commands have every order of effects with all fields, and those whose effects a missing field can part also with one too few. *Two faults* break a link while it is silent, or lose a connection after a link.
- *Two messages* of the broker put one before the other with the link's end in any frame of either, over any number of restarts.
- *Three processes* beside the monitor hold a worker, a raptor and a copy whose `exec` failed; `Others = 1` makes `fork` fail while one is still free.
- *Three buckets* are the smallest wheel with an oldest, a youngest and one between; the *connections* of the registry show that their entries do not disturb one another.
- *Three frames* put a frame before and after any other; frames are as short as their kinds allow, so that every cut is tried.
- *Two threads and four functors*: one thread may be between store and wakeup while another runs through, and a batch can hold functors of both and of a running functor.
- *Two timers at two addresses* are enough for one to be earliest, cancelled or freed while the other is called, and for an address to be used twice.
- *Buffers of two lines and batches of at most three* (25 in the code) reach a batch of one buffer, of two, of the limit and beyond it.
- *Six appends* with files of three lines and a look at the day after every second one reach three files, a file that cannot be rolled for want of another second, and a day that began between two looks. *Five seconds* of clock hold a day before the end of DST and the same local time after it, and a day of the month that comes again; the clock may be set back at any time.
- *Three channels* in `PollPoller` are the smallest array where the one removed, the last, and another are three.
- `MaxSends` (per sender), `MaxFunctors`, `MaxTime`, `MaxTimers`, `MaxLines`, `MaxAppends`, `MaxContent`, `MaxFrames`, `MaxSentences`, `MaxMessages`, `MaxFaults` only stop the environment, and `LoopForceClose` is not taken again while one is queued; nothing else is bounded.

Runs with a bound stop when it is reached, and connections may simply end; those configurations say `CHECK_DEADLOCK FALSE`. `servers`, `media_servers` and `eventloop` are checked for deadlock; in `servers` a part whose input has been read stays as it is (`Ended`), the registry must always be able to go on.

### Fairness

All of it is weak: a step that stays possible is taken.

- `EventLoop`: the loop thread's own steps and a thread in the middle of a call, which is what the operating system's scheduler gives. `PollOther` gets none: the poller also returns after ten seconds or on other traffic, and the promises must not rest on it.
- `TcpConnection`: the loop handles what the poller reports and runs its functors; `HandleWrite` is fair because the peer goes on reading or resets. No fairness for closing or sending: nobody need do it.
- `TimerQueue`: the loop and the clock go on. `AsyncLogging`: its thread is scheduled and its wait has a time limit; `Stop` and `AppendLine` need never happen.
- `CommandHandlers`: the loop handles what is in the buffer, the monitor forks another worker, and a recorder repeats an event that was not answered, as the protocol asks. Links and connections fail a bounded number of times.
- `MqReceiver`: the thread and the loop are scheduled, a broker with messages and an open link sends them, the monitor forks. The link need not end or stay.
- `Supervisor`: every process that can go on does, and signals are delivered. A worker at work need never die; the broker need not come back, and `ServedAgain` asks for the ports only when it stays reachable.
- The other modules have safety properties only.

### Findings

Four runs show that the code does not do what it says of itself:

- **`video_online`**: `cmdHandle.cc:258` takes a non-null `vedioConn_` for "the video side is online", but the pointer is set on UP and never reset. After the newest video connection went down, reports are sent to it and dropped, also while another one is up.
- **`gps_file_finished`**: `onGpsFileConnection` erases the identity without asking who holds it, unlike the two other servers. When an upload was replaced, the old connection's end throws the new one out of the map and reports the upload finished.
- **`gps_sentences`**: `onGpsMessage` takes one read for one sentence and asks neither for the `*` nor for the line's end that the head of `GpsServer.cpp` gives. A sentence cut behind its status is published without its position.
- **`gps_file_cut`**: `onGpsFileMessage` takes four bytes of whatever a read brought, and `Buffer.h:166` asserts that there are four. A read of fewer, wherever TCP cuts the file, ends the worker.

Behaviours that were met while modelling and that no run claims anything about:

- `forceClose()` of another thread (`TcpConnection.cc:240`) may overwrite `kDisconnected`; the connection is then closed twice and `TcpServer.cc:117` asserts. The program never calls it from another thread.
- `~TcpServer` meets a connection that `shutdown()` left `kDisconnecting`: `connectDestroyed` (`TcpConnection.cc:289`) leaves its channel reading, and `Channel.cc:61` asserts. In the program it needs the end of the process.
- `cancel()` in the loop may overtake an `addTimerInLoop` another thread queued and find nothing (`TimerQueue.cc:170`); the history variable `early` names these cancels, and `RunsRightly` and `EveryTimerRuns` speak of all others.
- `addTimer` reads `timer->sequence()` after it gave the timer away (`TimerQueue.cc:125`); the model reads whatever is at the address by then.
- A recorder that stays silent is probed once with `90dc` and never disconnected: `~Entry` does not close, and nothing makes a new `Entry`.
- A connection that announces a second identity leaves its first entry behind for ever (`NoStaleEntry` says that this is the only way).
- A connection that sends V4 for a second identity overwrites its context (`GpsFileServer.cc:93`, `:105`). At its end only the second is erased and reported with A4: the first stays in the map with a dead connection, and the back end takes its upload for open (`FinishReported` says that this is the only way).
- The file server looks for `99dc` at the front of every read (`GpsFileServer.cc:46`), so data of a file that reads so behind a cut is kept for a command, ends the worker, or binds the connection to whatever identity it spells (`UploadExact` claims nothing after that: `misread`).
- A SIGTERM that reaches the monitor between its first fork (`main.cc:77`) and its signal handlers (`main.cc:86`) takes the default action: the monitor ends, the first worker stays and serves, and nobody restarts it (`StopEndsAll` names the window).
- The log names its files by local time (`LogFile.cc:138`). When DST ends, a file may be named before an earlier one or like it, in which case the log goes on at that file's end; and a day that begins while the log is silent for a month is not noticed. `FilesInOrder` names both.
- A V1 that lacks its fifth field is published and not answered (`EffectsTogether` names it); one message of the back end without an identity ends the worker (`MqReceiver`).
- What came in the read that ended a V4 waits for the next read and is lost when there is none; a file is published up to the first NUL of each read (`UploadExact` names both).
- Every restart of the worker leaves a raptor process (`ServedAgain` allows the monitor to run out of processes); a raptor whose `exec` fails goes on as a second worker (`OneWorker` shows that it never serves beside the first).
- Nothing in `PollPoller` turns a negated descriptor back (`PollPoller.cc:108`): a channel enabled again after it had asked for nothing would never be watched. No owner of a channel does that, and `Update` of `PollPoller` leaves it out; `EPollPoller` is checked with it.

## 4. What is proved

The theorems hold for every value of the constants that satisfies the `ASSUME` of the module: types, that `NULL` is no element of the other sets, that numbers one divides by or counts to are not zero, that sizes and bounds are numbers, and, for the log, that a batch of two is never cut. For the instances in `MCServers`, `MCLibrary` and `MCGateway` the assumptions are `ServersAssumption`, `BufferAssumption` and `GatewayAssumption`. TLC evaluates each assumption in the run of the module.

| module | theorem | inductive invariant |
|---|---|---|
| `Servers_proofs` | `RegistryTypeOK` | itself |
| | `LiveConnectionHoldsAlways`, `NoStaleEntryAlways`, `PresenceAccurateAlways` | `RegistryInv` |
| | `CommandDeliveryAlways` (action property) | `RegistryInv` |
| | `RegistryImplementsPresence` (refinement) | `RegistryInv` |
| | `WheelIsCountdown` (refinement of `IdleWheel`) | `WheelInv` with `Ordered` |
| | `CutIndependentAlways`, `NothingWaitsAlways` | `FrameInv` |
| | `UploadExactAlways` | `UploadInv` |
| | `ServersSideBySide` (the run's parts) | |
| `MediaServers_proofs` | `NoStaleSessionAlways`, `LiveSessionHoldsAlways` | `VideoInv` |
| | `FinishReportedAlways` | `GpsInv` with `NoDeadUpload` |
| `Gateway_proofs` | `EffectsTogetherAlways` | `EffectsInv` |
| | `CommandsIntactAlways` | `ReceiverInv` |
| | `OneWorkerAlways` | `FamilyInv` |
| | `GatewaySideBySide` (the run's parts) | |
| `EventLoop_proofs` | `EventLoopTypeOK` | itself |
| | `NoLostWakeupAlways` | `CallingFlag`, `WakeupOwed` |
| | `LoopIsTaskQueue` (refinement) | the types |
| `TcpConnection_proofs` | `TcpConnectionTypeOK`, `OutputArmedAlways`, `EndsOnceAlways` | `IInv` with `GoodQueue`, `Young` |
| | `StreamIntactAlways`, `ShutdownFlushesAlways` | `SInv` |
| `TimerQueue_proofs` | `TimerQueueTypeOK` | itself |
| | `SetsAgreeAlways`, `NoLeakAlways`, `TimerfdArmedAlways` | `TimersInv` |
| | `RunsRightlyAlways`, `DroppedRightlyAlways` (action properties) | `RunsInv` |
| `AsyncLogging_proofs` | `AsyncLoggingTypeOK` | with `Index` |
| | `SparesReadyAlways` | `SparesOwed` |
| | `LinesInOrderAlways` | `PartsInOrder` |
| `Library_proofs` | `FilesInOrderAlways` | `IInv` with `LateOnly`, `Recent` |
| | `PollersImplement` (two refinements, `EPollIsPoller`, `PollIsPoller`) | `EPollInv`, `PollInv` |
| | `ContentExactAlways` | `BufInv` |
| | `LibrarySideBySide` (the run's parts) | |

**`RegistryInv`.** The three safety invariants are not inductive alone. `FreshUnmapped` adds that an object whose connection has not come up carries no identity and that one without identity is in no entry: without it a slot could be reused while an entry still names it. `ExitedIsEmpty` adds that a dead worker has neither connections nor devices the back end believes in, which is what a restart relies on. The refinement maps `online` to the identities in the map; a replacement and the late DOWN of a replaced connection are stutters, the death of the worker is `Forget`, and a failed send is the same step.

**`WakeupOwed`.** While the loop is in the poller with work queued or `quit_` set, either the eventfd is written or some thread stands between its store and its write. `CallingFlag` ties `callingPendingFunctors_` to where the loop is, so that functors queued by functors are known to have written the eventfd.

**`TimersInv`.** `SetsAgree` needs `FunctorsFresh` (a timer on its way to the loop is alive, queued once and in neither set) and `BatchWhileCalling`; with `NoLeak` they say where every object is, which is what makes an address safe to allocate again.

**`SparesOwed`.** `nextBuffer_` is missing only while a full buffer waits, so a batch that cost both spares holds at least two buffers to give back, also after it was cut to two.

**`VideoInv`.** The two session invariants need `Fresh`, that an object that has not come up names no session: otherwise an accepted connection could begin as the holder of another's. The end of the worker is a step of both servers at once, so each has a lemma that its own part is then what a new worker starts with.

**The wheel.** `IdleTimer` has a number per connection; the wheel has sets. The refinement maps the number to the *youngest* bucket that holds the connection's entry, and `Ordered` says that there is one whenever there is any, so that the `CHOOSE` that defines it is determined. The tick moves every bucket down by one and the number with it; the entry is destroyed exactly when the number reaches zero.

**Streams.** What a stream says about its bytes is stated with `FlattenSeq`, which is recursive, for streams of any length, so the proofs need induction over data. `Servers_proofs` gets it from the well-foundedness of `<` on numbers, in the form `WFMin`, which takes a set and not a predicate: `LeastNumber`, then `NatSetInduction` (a set of numbers with 0 and every successor is all of them), then `SeqSetInduction` (a set of sequences with the empty one and every `Append` is all of them). With it `FlattenSeq` of a concatenation is the concatenation of both (`JoinedConcat`), and `TwoCuts` says that when the same bytes are cut into *buffer, rest* and into *frame, others*, a buffer that is long enough begins with the frame. Everything else about cuts is arithmetic on indices.

**The recorders' frames (`FrameInv`).** `CutIndependent` speaks of the frames taken and the bytes there are; `FrameInv` names the frames that are left (`Left`: the stream is what was taken and these, and buffer and incoming bytes are exactly theirs). Hence the buffer begins with a frame or with a part of one (`BufferBegins`), so the four bytes of a header and the `#` that ends a command are where the code looks for them (`HeaderIs`, `EndIs`). The loop keeps its own count of the buffer, `length - bufIdx`: while it is active that is what is there, and `NothingWaits` follows, since the loop is left early only where a frame is incomplete or a command is rejected.

**The GPS file server (`GpsInv`).** `FinishReported` is about uploads the back end takes for open while the link works; `NoDeadUpload` says the same of every entry of the map, whatever the link and the back end: its connection is still read, or was bound to another identity last. A DOWN erases the identity its context names, so what it leaves behind in the map names another. Any connection may announce any number of identities.

**Uploads (`UploadInv`).** Of a stream that is one announcement and file data, until its bytes are taken for a command (`Undisturbed`): before the V4 is taken, buffer and incoming bytes are the whole stream; after it, the bytes of the file are some that were *taken*, then the buffer, then what is to come (`Uploading`). What is published stands to those taken as `Publishable` asks while the identity is held, and begins the file when it was lost. The announcement takes its own bytes only (`V4First`), a data read is published with what waited in the buffer, and `Published` survives it because what stands before the first NUL of a longer sequence begins with what stood before that of a shorter one (`PublishedMore`). Bytes of a file are taken for a command only where it reads `99dc`, which only a block of kind `alike` does (`FileReadsAlike`). `worker` fails only with fewer than four bytes in the buffer, because an announced stream is bound before its first data.

**`LogFile`.** A file may hold more than `rollSize_` only while the clock has not passed the second it was opened in (`LateOnly`). `count_` counts the lines since the last look at the day, and one of these or the one before them was not *late*, that is, not past the opening on another day of the month (`Recent`): a look at a late line rolls. Hence at most `checkEveryN_` late lines in a row get into a file, whatever the clock does. Files are opened in ascending seconds because `rollFile` asks for a later one than `lastRoll_`, which is the open file's; `Local` keeps that order except across `DstEnd` (`Named`).

**`TcpConnection`.** `OutputArmed` and `EndsOnce` need that a queued message is not empty (`GoodQueue`; an empty one would ask for POLLOUT in vain) and that a connection is untouched before it is established (`Young`). Two lemmas about queues carry most of the rest: queueing `connectDestroyed` in a queue without one gives a queue with exactly one, and running it gives back a queue without. The types are proved through all races, the two properties until the first.

**The stream of a connection (`SInv`).** What leaves a connection is spread over the wire, the output buffer and the functors of the loop's queue, and the other threads add to it at any time. `Sound` says that wire, buffer, queue and what a thread sends next are one ascending sequence for every thread, with whole messages: this holds through every race. `Full` says that nothing is missing in it; it holds until another thread closes and while the connection is not `Deaf`, that is, while `sendInLoop` takes what it is given. When it turns deaf nothing more leaves, so `Gapless` is kept without `Full`. `LoopFlows` and `ShutdownLate` give `ShutdownFlushes`: what the loop thread sent is on the wire or in the buffer, and the FIN goes out only when the buffer is empty.

**Timers at reused addresses (`RunsInv`).** An address is used again, a sequence number is not: `Distinct` and `Known` say that a `TimerId` names the one object its number was given to, so that a cancellation never hits the timer that lives at its address now. `Remembered` says that a cancelled timer that still lives is in the batch and in `cancelingTimers_`, which is what keeps `reset` from adding it again; `OnceOnly` does the same for one that does not repeat.

**The event loop.** `TaskQueue` has one queue; the loop has `pendingFunctors_` and the batch it swapped out. The refinement maps the queue to the batch followed by the functors still pending, so that the swap is a stutter, each call takes the head and each `queueInLoop` adds at the end.

**The log (`PartsInOrder`).** The lines are in the file, in the back end's batch, in the full buffers and in the current one; `PartsInOrder` says that each part is ascending, that every line of one comes before every line of the next (`Layered`), and that together with the dropped ones they are all lines. Exchanging buffers moves a line from one part to the next and never across one.

**The command handlers (`EffectsInv`).** `Cut` is the set of events acknowledged and not published although they should have been. It is finite, a step adds one event to it at most, and only a step that is the death of the worker adds one, so that it has no more elements than there were deaths.

**The receiver (`ReceiverInv`).** The thread takes the frames of a link one by one; `Taken` counts them from where it stands, `Sent` those the broker sent. `InPlace` says that the frame at place *i* of the wire is the one numbered `Taken` + *i*, so that a header or body is read for the message it belongs to. A link that broke off inside a message brings nothing more (`NothingMore`), which is why only the last message handed over can be incomplete (`CutIsLast`) and all before it are there (`Complete`).

**The processes (`FamilyInv`).** The monitor has one child at most and none while it sleeps, a zombie is its child, and one process serves: a second one stops at `bind`.

**The pollers.** For `EPollPoller` the interest list has for each channel one item with the events it asks for, or none when it asks for nothing (`EPollInv`), whatever `kNew`, `kAdded` and `kDeleted` it went through. For `PollPoller` index and entries are inverse to each other (`PollPlaces`), also after the last entry took the place of a removed one. Both refine `Poller`, in which every step is the abstract step of the same name.

**The input buffer (`BufInv`).** `Shows` says that the bytes between the indices are those of `content`; one lemma says that it survives `AppendTo` in its three cases (there is room, the vector grows, the content moves to the front), and the operations follow from it. The vector grows only when what is before the content and behind it is less than what is added and `kCheapPrepend`, so that the new size is below `kCheapPrepend` and twice the new content (`Room`). `kCheapPrepend` and the initial size may be any numbers.

Each proof has one step or lemma per action of `Next`; the temporal step comes last. The modules with proofs about several components (`Servers_proofs`, `Gateway_proofs`, `Library_proofs`) extend the `MC` module that holds their instances: a theorem about an instance is stated for its own specification, `Input!Spec => []ContentExact`, and the theorems `ServersSideBySide`, `GatewaySideBySide` and `LibrarySideBySide` say that a behaviour of the side-by-side run is one of each part's specification, so that it holds there as well.

Only model-checked are the liveness properties: the prover does not handle fairness and `ENABLED`. These are `EventuallyRun` and `QuitEndsLoop`, `Ends`, `EveryTimerRuns`, `EventuallyWritten`, `StopEnds`, `RecorderAnswered`, `CommandsRun`, `ServedAgain` and `StopEndsAll`. Every invariant, action property and refinement a passing run checks is proved. That TLC and the proofs speak of the same definitions is seen to by the configurations, which give values to constants and replace nothing.

## 5. What is not modelled

- **Parts of muduo this program does not use**: `TcpClient` and `Connector` (nothing connects through them), `EventLoopThread` and its pool (the servers are given no threads), `ThreadPool` and the queues, `forceCloseWithDelay`, the high-water mark.
- **Conversions without state**: dates, time zones (but for the local time of `LogFile`), number and log formatting, the fields of GPS sentences, the text of answers. What `onGpsMessage` makes of reads that TCP did not cut is a parse of one string and has no property; `gps_sentences` is about the cuts.
- **System calls**: the sockets are the environment. `Acceptor` with no descriptor left (`idleFd_`), the pid file of `main.cc`, and the flushing of log files are left out.
- **Vendored code**: rabbitmq-c and boost are external, the first is the link with its three values and the frames of `MqReceiver`, the second is modelled by what its pointers and containers do. Nearly all lines of the repository are boost's headers, so the map covers a small share of all lines and most of the program's own.
- **Destruction in the wrong order**: when an exception leaves the loop, `main` destroys the broker's objects before the servers that publish through them (`mdvrServer.h:81`). What freed memory then does is undefined; the models keep its result, that the process ends.
- **Two clocks**: a step of the wall clock under `TimerQueue`, whose descriptor counts monotonic time.

## 6. Plan

1. *Done.* The modules of section 2 and the theorems of section 4.
2. *Proofs.* The invariants that hold the liveness properties up (who owes the next step whenever something waits), for those of them that are not stated yet.
3. *Library, should the program come to use it.* `Connector` with its retry timer, `EventLoopThread` and the pool with the round trip of `TcpServer`, `ThreadPool` and the queues; `Acceptor` at the limit of descriptors.
4. *Pure algorithms.* The Julian day functions of `Date.cc` and the zone lookup of `TimeZone.cc` against reference definitions.
