# HackGrill in TLA+

A model of HackGrill, a desktop voice-call application with live translation,
for model checking with TLC and proof with TLAPS. The code is in `src/`; every
definition that stands for code is listed with its lines in `PROJECT.json`
under `map`.

## 1. The system

Three processes run on each desktop:

| Process | Language | Role |
|---|---|---|
| transmission engine | C++ | RTP over UDP, one thread per direction, owns the shared-memory rings, control socket on port 9200 |
| processing engine | Python | reads the RX ring, cuts the audio into chunks, transcribes and translates, control socket on port 9201 |
| frontend | Flutter | call screen, settings, client of both control sockets |

```
 remote peer --UDP--> Receiver --RX ring--> main.py loop --> Pipeline --9201--> IpcClient --> CallScreen
 remote peer <--UDP-- Sender <--TX ring-- (no writer in src)      metrics --9200--> IpcClient
```

### Inventory

| Component | State | Operations | Talks to | Hard parts | What makes it correct |
|---|---|---|---|---|---|
| Audio ring (`shm_ring_buffer.cpp`, `.py`) | header `write_pos`, `read_pos`, `sequence`; data bytes | `writeFrame`, `readFrame`, available bytes, Create, Attach, unmap, `reset` (never called) | Receiver writes RX, `main.py` reads RX, Sender reads TX | two processes, no lock, wrap-around, full against empty, a reader that dies, a Create over a live reader | whole frames, in order, at most once; no byte raced for; availability exact; drains |
| Receiver, Sender (`network/`) | last sequence number, loss rate, counters; next sequence number and timestamp | worker loops, start, stop | UDP socket, rings, metrics | loss, duplication, reordering, 16-bit wrap, a send that fails | counters agree with packets; losses counted once |
| UDP connection | socket handle, remote address | initialize, sendPacket, receivePacket (poll 50 ms), closeConnection | both workers, main | close while a worker polls | no use of a closed socket |
| Transmission control server | `m_clientSockets`, `m_running`, `m_clientsMutex`, threads; the kernel's descriptors | start, listenLoop, clientWorker, broadcast, stop | frontend, main's telemetry loop | descriptor closed by one thread, kept on the list and given out again; blocking send under the mutex; SIGPIPE; detached threads | everyone connected is sent the telemetry; a connection whose number is its own is not cut off; every frontend gets a worker |
| Transmission main | `g_running` | start order with every failure, telemetry every second, shutdown order | all of the above | signal at any time; a start that fails half-way; `shm_unlink` under an attached reader | stops; nothing is taken from under a thread; a clean exit when it says so |
| Processing control server | client list, lock, callback | accept, handler, broadcast, stop | frontend, pipeline | callback set after start; the list replaced by a copy; partial length prefix | a client being heard is on the list, a closed socket is on none |
| Processing loop (`main.py`) | `running`, mapping | attach with retry, read loop, clean-up | ring, pipeline | a frame leaves the ring before it is processed; engines come and go under the mapping | at most one frame lost per death; both engines use the same memory; it attaches, and ends when told to |
| Pipeline and chunker | languages, chunk size, sample buffer, speech and silence counts | `process_audio_bytes`, `update_config` (other thread), `get_next_chunk` | ring loop, control server | chunker replaced under the loop; language pair torn; two clients updating at once; sizes that are negative or no number | samples in order, none lost; an event labelled with the languages used; a chunker of the configured size |
| Call screen, IPC client, audio service | call status, sockets, flags, capturing | toggle, connect, timer, onError, onDone, send | both control servers | timer and pending connect against a new toggle; sockets replaced without being closed | capture only in a call; flags tell the truth |
| Codec | none | encode, decode, VAD, gain | nobody calls it | saturation | round trip |
| ASR and translation models, settings UI, proto, scripts, runners | none that matters | | | | |

The hazards the code is exposed to, each at its line and with the properties
that would catch it, are listed in `PROJECT.json` under `hazards`.


## 2. Modules

| Module | Extends | What it is |
|---|---|---|
| `FrameQueue` | | the contract of a ring: a queue of frames bounded in bytes |
| `ShmRing` | | `writeFrame`/`write_frame` and `readFrame`/`read_frame`, access by access; implements `FrameQueue` |
| `ShmRingProofs` | `ShmRing` | the inductive invariant and the safety theorems |
| `ShmRingRefines` | `ShmRingProofs` | the ring implements the queue, and the queue hands out frames in order |
| `ShmRestart` | `ShmRing` | the engine that owns the ring is killed and creates it again under an attached reader |
| `ShmRestartProofs` | `ShmRestart`, `ShmRingProofs` | what survives the restart, for any number of them |
| `RtpStream` | | Sender, a UDP path, Receiver |
| `RtpProofs` | `RtpStream` | numbers, timestamps, losses and counters, for any number of packets |
| `Pipeline` | | `TranslationPipeline` and `AudioChunker` against `update_config` on client threads |
| `PipelineProofs` | `Pipeline` | order, losses, sizes, labels and ends of utterances, for any number of frames, updates and clients |
| `ControlServer` | | the C++ `ControlSocketServer`: list, descriptors, threads, frontends |
| `TransmissionApp` | `ControlServer` | `main.cpp` around the server: start, telemetry, shutdown |
| `TransmissionProofs` | `TransmissionApp` | the invariants of both, for any number of connections and descriptors |
| `ProcessingApp` | | `main.py`, its control server, and the segments it attaches to while transmission engines come and go |
| `ProcessingProofs` | `ProcessingApp` | its invariants, for any number of connections, transmission engines and segments |
| `CallSession` | | call screen, IPC client and audio service of the frontend |
| `CallSessionProofs` | `CallSession` | its invariants, for any number of calls |
| `MC...` | the module of that name | values of the constants for TLC |

Every operator that a mutant replaces stands next to its mutated form
(`Room`, `Room_Full`); the mutated forms are used by nothing else.

### 2.1 FrameQueue and ShmRing

The two languages map the same bytes. One step of `ShmRing` is one access to
the shared memory: a load or a store of a position, or one byte of a memcpy, the
bytes of a memcpy in any order. `Writer` and `Reader` are `"cpp"` or `"py"`
and choose between the two implementations where they differ:

| Step | C++ | Python |
|---|---|---|
| publish (`WPublish`) | stores `write_pos`, then counts in `sequence` (`WCount`) | stores `write_pos` and returns |
| begin a read (`RCheck`, `RLoad`) | loads `read_pos` into a local | unpacks a snapshot of the whole header |
| header that makes no sense (`RDesync`, `RFlush`) | stores a fresh `write_pos` into `read_pos` | stores the `write_pos` of the snapshot |
| payload not there (`RPartial`, `Needed`) | compares the payload with the unread bytes | compares header and payload with them |

| Code | Model |
|---|---|
| `write_pos`, `read_pos`, `sequence`, the data bytes | `writePos`, `readPos`, `sequence`, `mem` |
| a byte | the frame it is of and its offset in it: enough to tell a torn frame from a whole one |
| `availableReadBytes`, `availableWriteBytes` | `Avail`, `Room` |
| the locals of a call in progress | `wdone`, `rpos`, `rsnap`, `rneed`, `rbuf` |
| Receiver's `writeFrame` that fails | `WRefuse`; the frame is dropped |
| `main.py` between `read_frame` and the pipeline | `rpc = "deliver"`; `RCrash` is the death of that process at any point |

The history variables `frames`, `published`, `taken`, `refused` and `got`
record what was offered and what came out. No guard reads them except the
bound `MaxOffers`.

With `NoDataRace`, stepping through single accesses loses nothing: the C++
program has no data race on the bytes, its positions are atomics stored with
release and loaded with acquire, and so it is sequentially consistent. What
Python does with `struct.pack_into` on the 8 aligned bytes of a position is
taken to be one access; on the platforms the program is built for it is one
memcpy of 8 bytes.

### 2.2 ShmRestart

A killed transmission engine does not reach `shm_unlink`; the next one's
`shm_open(O_CREAT)` finds the old segment and `mapMemory` zeroes the positions
with relaxed stores while the reader may be anywhere in `read_frame`. The module
adds `TDie`, `TCreate`, one `TStore(f)` per field in any order, and classifies
each read by how it began (`call`): `clean` on a frame of this life, `astray`
in this life but between frames, `stale` across the stores. What the dead writer
was in the middle of stays as it is until the first store: the bytes it had
copied are in the ring, and a reader may still load them.

### 2.3 RtpStream

Each worker thread is the only one to touch its state, and the metrics main
reads are single atomics, so an iteration of a worker loop is one step. `wire`
holds the packets and `flying` the datagrams under way: `<<n, 0>>` is packet n as
it was sent, `<<n, k>>` with k > 0 a copy of it the network made. `Send`
takes `sent` from BOOLEAN: `sendPacket` may fail and the sequence number and
timestamp advance all the same. `Receive` is the whole body of the receiver's
loop, `ReceiveNothing` its timeout and its short-datagram branch. The receiver's
buffer has `RxBuf` bytes and the sender's grows with its frame, so `recvfrom`
may cut a datagram (`BytesRead`). The loss rate, a double, is kept in units of
`1/Unit`, rounded down; no property is about it.

The network (`Lose`, `Copy`, `Arrives`) is external. Packets are late
by at most `Window`, less than half the range of sequence numbers: at one packet
per 20 ms the real half range is ten minutes.

### 2.4 Pipeline

The main thread's path through `process_audio_bytes` and `_process_chunk` is cut
where it loads an attribute that `update_config` may store in between
(`MFetch`, `MBranch`, `MAsr`, `MMt`, `MLabel`, `MEmit`); an updating client
thread is cut at its stores (`USource`, `UTarget`, `UCompare`, `USize`,
`UChunker`, or `URaise`). The interpreter makes single attribute accesses atomic
and nothing more. A chunker is touched by the main thread alone, so a call of one of its
methods is one step, and a replaced chunker stays in `objects` with what it
held. Samples are numbered; sizes are in samples. Whether a chunk is speech is a
free choice. `text` of an event is the language its text is in.

The control server starts a thread per connection, and the frontend leaves its
old sockets open, so there are several `Updaters`. `update_config` takes any
`chunk_size_ms` that is not false: `Samples` gives each value the number of
samples `AudioChunker` makes of it, which may be 0 or less, or `None` where it
raises. With such a size `get_next_chunk` never returns `None`: slices count from
the end (`Cut`), and the loop goes round until an update brings another chunker.
Its empty chunks are recorded as events up to `MaxEvents` and are the step `MSpin`
from there on. What the two threads leave behind is described by `torn`: the
newest store of the size came between another thread's two stores, or no chunker
could be made for it. `SizeSettles` says that nothing else can part the size and
the chunker, and that the next update that comes alone and changes the size mends
it.

### 2.5 CallSession

Dart runs one callback at a time, so a step is a callback with the
continuations it completes. `connects[c]` is the await that the c-th call of
`connect()` is in, `sock[e]` the call whose socket `_transSocket` or
`_procSocket` is, `open` and `closing` the sockets themselves: a replaced
socket stays open and reports its end later, once (`OnDone`) or, after a
reset, twice (`OnError` and then `OnDone`); each report clears the flag of the
engine, whatever socket is in use by then. Either server may end a connection
(`TransCloses`, `ProcCloses`). `told[c]` is the language pair the
processing engine has been sent on the socket of call c. The user may tap and
save at any time; `hurried` remembers a tap while a connect or a timer was still
pending. The model keeps the languages of the configuration only: they are what
is sent when settings are saved.

### 2.6 ControlServer and TransmissionApp

The server keeps descriptor NUMBERS, and what a number stands for is the
kernel's: `number[n]` is the connection n stands for, or `None`. `clients` is
`m_clientSockets`, `lock` says that main holds `m_clientsMutex` (the listening
thread holds it for one `push_back` only, which is one step).

| Code | Model |
|---|---|
| `broadcast` | `BLock`, then per number `BSend` (send looks the number up) and `BSent`, or `BFailed` and `BDrop` (close); `BEnd` swaps the list |
| `send` on a connection whose reset was reported | `BKilled`: SIGPIPE, for which nothing is installed |
| `stop` | `SFlag`, `SLock`, `SClose` per number, `SEnd`; `SReturn` when `m_running` is false already |
| `listenLoop` | `LBind`, which looks at `m_running` once it listens, `LAccept` (the lowest free number), `LPush`, `LSpawn` |
| `clientWorker` of connection c | `WRecv(c)` and `WBody(c)`, the two `recv` of a message, each of which looks the number up; `WLength(c, fits)`, `WMessage(c)`, `WEnd(c)`; `WClose(c)`, which leaves the number on the list |
| frontends | `FConnect`, `FRead`, `FClose` (external) |
| a connection's place in the code | `sock[c]` the number accept gave it, `wpc[c]` its worker, `peer[c]` its other end, `inbox[c]` what is unread |

`main` goes through `mpc`: create, connect, receiver, sender, server, loop,
then stop sender, stop receiver, stop server, close, unwind, unmap, and ends in
`exited`, `aborted` (a joinable `std::thread` destroyed) or `killed`. Each start
may fail, and the signal may come at any step. `worker[t]` is the thread of
sender or receiver, `udp` and `rings` what they use. An iteration of a worker
loop is `RtpStream`'s; here a thread only runs and, once told to, ends.

History variables: `fresh[c]`, nobody else had the number of c in hand when it
was accepted; `reached`, whom the present broadcast has sent to.

### 2.7 ProcessingApp

Segments are numbered as they are made: `name` is the one
`/dev/shm/voip_audio_rx_shm` stands for, `sized` those past `ftruncate`,
`unlinked` those without a name. A transmission engine e is what
`ShmRingBuffer`'s Create and destructor do to them: `EOpen` (`shm_open`),
`ECreate` (`ftruncate`, `mmap`, the header), `ENoSize` and `ENoMap`, where one of
these fails and nothing is unlinked, `EKill`, and `EStop`, the destructor, which
unlinks whatever has the name by then. There are several `Engines`, which may run
side by side, since the rings are made before the UDP port is found taken; and
with another `--local-port` it is not. The bytes are `ShmRestart`'s.

The main thread (`ppc`) serves, sets the callback, attaches
(`PAttach`, `PRetry`), reads (`PIdle`, `PEvent`), broadcasts a chunk's event
(`PSent`, `PNotSent`, `PUnlock`) and ends. `active` is the list `broadcast`
builds and puts in the place of `clients`. `apc` is the accepting thread, which any
exception ends (`AFail`), and `hpc[c]` the handler of connection c. Sockets are
objects here, so no number is reused.

## 3. Runs

`tlc -config X.cfg M` for each line; all but the violation runs end with no
error.

| Run | Module | Shows | Bounds |
|---|---|---|---|
| `ring_rx` | MCShmRing | the RX ring (C++ writer, Python reader that may die): the inductive invariant, no race, whole frames in order, the queue's contract | 7 bytes, header 2, payloads 0, 1 and 3, 5 offers, 2 deaths |
| `ring_tx` | MCShmRing | the TX ring (Python writer, C++ reader) implements the fair queue: each accepted frame is got and used | the same, no death: the reader is in the process that owns the ring |
| `restart` | MCShmRestart | what can be relied on after a restart | 4 offers, 1 restart |
| `rtp` | RtpStream | as long as packets come in order the receiver counts exactly those missing, failed sends included; whatever the network does no loss goes uncounted; the counters of both ends account for each other; numbers and timestamps place each packet | range 8 from 5, 5 frames, 6 receptions, 1 copy, a buffer that one packet just fits and the other overruns |
| `pipeline` | MCPipeline | chunks unbroken and in order; audio is lost by a replaced chunker only; the buffer stays below a chunk; `is_final` at the ends of utterances; labels fit the text; the chunker has the configured size; `process_audio_bytes` returns, for a positive size | 2 client threads, 2 frames of 1, 1½ or 2 samples, 3 samples in all, sizes of 1, 2 and −1 and one that is no number, 2 messages, 3 events before empty chunks are no longer recorded |
| `call` | CallSession | what the screen and the client's flags can be trusted for, whatever the user taps, and that "connecting" and "ended" pass | 2 calls, 2 changes of settings |
| `engine` | MCTransmissionApp | the transmission engine from start to exit: a broadcast reaches everyone, a number of one's own is kept, no resource is taken from under a thread, every frontend gets a worker, a signal ends the process | 2 connections, 2 numbers, 1 unread message |
| `proc` | ProcessingApp | the processing engine: list and handlers agree, all engines use the same memory unless a name was taken away, the main thread attaches, broadcasts and ends | 2 transmission engines, 2 connections, 2 segments, 1 unread message |

Runs that end in a violation, each a disagreement between the code and what a
document or comment of the repository says (`PROJECT.json`, `findings`):

| Run | Property | What TLC shows |
|---|---|---|
| `restart_new` | `CreatedNew` | a call left over from the old life stores its `read_pos` over the fresh one, and a later call delivers an old or torn frame |
| `pipeline_mt` | `MayuraNeverToEnglish` | an update between the branch and the call sends English to Mayura |
| `call_standby` | `StandbyIsQuiet` | a connect that completes after the hang-up starts the capture, and the timer then shows STANDBY |
| `engine_abort` | `CleanIsClean` | the control port is taken: `listenLoop` clears `m_running`, `stop` returns before it detaches the thread, and after "Clean shutdown complete." the destructor aborts; the rings keep their names |

Three more disagreements were met while reading, too plain for a run: there is
no jitter buffer (`docs/voip-translation-app-plan.md` plans one; `Receive`
hands packets on as they come), a saved chunk duration is not sent before the
next call (`ipc_protocol.md` gives CONFIG_UPDATE a `chunk_size_ms`), and
`write_frame` does not count in the header's `sequence` (`ipc_protocol.md`
calls it a packet counter).

### Why the bounds are enough

- Ring: 7 bytes with frames of 2, 3 and 5 make headers and payloads straddle the
  end of the buffer at every point, make the ring full, empty and one byte short
  of full, and let the writer lap the buffer in 5 frames. A frame with an empty
  payload is one of them (a bare RTP header arrives as one). The theorems remove
  the bounds.
- Restart: one death reaches every class of call; the interesting step is the
  store of a stale `read_pos`, which needs one restart and frames on both sides
  of it.
- RTP: a range of 8 from number 5 on wraps within 5 frames; `Window = 3` is the
  largest with `2 * Window < 8`. Gaps of up to 2 packets, two gaps, a late packet
  followed by a new one, and a copy of a late packet all occur.
- Pipeline: frames shorter than, equal to and longer than a chunk, and an odd one;
  the size changed from 1 to 2 while a frame is in hand, a message without a
  size, a size for which the loop does not end and one that raises. Two threads
  with one message each reach every interleaving of two updates, the torn one
  too. Three samples in chunks of one are enough for an utterance and its end;
  what comes after it, and any number of threads and messages, is the theorems'.
- Call: two calls give a connect, an older one under way with its timer and its
  socket replaced, and the end of that socket reported at any time. A third adds
  more of the old ones only, and the theorems of section 4 hold of any number.

- Engine: two connections and two numbers reach a number that is closed by its
  worker, given to the second connection, and on the list twice, with broadcast
  or stop at any point of its way through the list. One unread message is the
  least that makes a send wait. Three connections under symmetry, too large
  for a run, gave the same answer for the invariants, and the theorems hold
  of any number.
- Processing: two segments give one that lost its name and its successor, and two
  engines one that unlinks under the other, takes what the other left, or is
  inside Create meanwhile. The theorem `MemoryShared` removes both bounds.

Deadlock is checked in every run of the engines; the frontend's runs switch it
off, since a frontend that nobody touches does nothing.

### Fairness

- `FrameQueue`, `ShmRing`: weak fairness of the reader, whose thread polls for
  ever (`main.py` and `Sender::workerLoop` loop until shutdown), and of a writer
  that is inside a call, which never blocks. No fairness on new frames.
- `Pipeline`: weak fairness of each thread that is inside a call; none for new
  frames or messages, so that a size that makes the loop go round for ever may
  stay, and `EveryFrameFinishes` excepts it. The interpreter switches threads.
- `TransmissionApp`: weak fairness of main and of the end of a worker thread that
  was told to stop; strong fairness of the listening thread, because main sleeps
  for a second between broadcasts with the mutex free; weak fairness of a
  frontend that reads, because its event loop takes what has come. None for
  connecting, closing, messages or the signal. A frontend that stops reading
  without closing blocks `send` under the mutex and with it the engine: the
  liveness properties say what holds of frontends that read.
- `ProcessingApp`: weak fairness of the main thread and of a frontend that reads.
  None for engines, clients or frames.
- `CallSession`: weak fairness of timers and of `Socket.connect`, which has a
  timeout of two seconds, once per call. None for taps or ends of sockets.

## 4. Proofs

`tlapm ShmRingProofs.tla` and `tlapm ShmRingRefines.tla` prove, for every
capacity, header size, set of payload sizes, number of frames and deaths, and
for either language on either side:

| Theorem | Statement |
|---|---|
| `RingInvariant` | `Spec => []RingInv` |
| `TypeCorrect`, `PositionsExact`, `RaceFree`, `AlwaysInSync`, `DeliveryCorrect` | `TypeOK`, `AvailExact`, `NoDataRace`, `InSync`, `DeliveredIntact` always hold |
| `SequenceCorrect` | with a C++ writer, `SequenceCounts` always holds; a Python writer leaves the header's counter at zero |
| `RefinesFrameQueue` | `Spec => FQ!Spec`: the ring implements the queue |
| `UsedInOrder`, `RingInOrder` | `FQ!Spec => []FQ!InOrder`, and so `Spec => []FQ!InOrder` |

Assumption: `RingAssumption`, that is, positive capacity and header size,
natural payload sizes, and a capacity no larger than the payload limit (both are
1 MiB in the code; with a larger capacity a legal frame could be taken for
garbage).

The argument. None of the properties is inductive by itself: whether a store of
the writer hits an unread byte depends on where all unread frames lie. `RingInv`
adds absolute byte counts that never wrap: `End(n)` is the number of bytes ever
written up to frame n.

- `Geometry`: frames lie one behind the other on that line.
- `Positions`: `writePos` and `readPos` are `End(published)` and `End(taken)`
  modulo the capacity, and the frame being copied ends less than a capacity
  after `End(taken)`. This is the room the writer saw, which a reader can
  only add to.
- `Contents`: unread frames, and the copied part of the next, are in memory.
- `ReaderView`: what a reader in the middle of a call holds is a part of frame
  `taken + 1`.
- `Delivered`: what came out is older than what is to come, and the deaths
  account for what did not.

Two lemmas of arithmetic carry it: counts less than a capacity apart are
different bytes (`Inj`), so copies miss unread bytes; and the difference of the
positions is the number of unread bytes (`Distance`), so each side's view of the
other is exact. There is one lemma per action, then the properties follow from
`RingInv` without further induction. For the refinement a frame enters the
queue at the store of `write_pos`, leaves it at the store of `read_pos`, and all
other steps stutter. `UsedInOrder`, proved of `FQ!Spec` alone, then gives `RingInOrder`:
the callers of `readFrame` get frames in the order they were accepted.

`tlapm ShmRestartProofs.tla` proves, from the same assumption and
`RestartAssumption` (a C++ writer, a Python reader: the RX ring), for any number
of restarts:

| Theorem | Statement |
|---|---|
| `RestartTypes` | `RestartTypeOK` |
| `OneLifeNoRace` | `NoRaceInOneLife` |
| `CleanCalls` | `CleanCallsSound` |
| `Alignment`, `Realignment` | the action properties `StaysAligned` and `FlushRealigns` |

`RingInv` does not survive a restart: a call left over from an earlier life may
store any `read_pos`, and the reader's count of frames means nothing any more.
Half of the new invariant, `RestartInv`, is about the writer alone. Counted from
`Base`, where the present life began, `write_pos` is exact (`Placed`) and the
last `Cap` bytes written are in memory (`Recent`). The other half is what a
reader knows from its own checks:

- `Fresh`: in this life `read_pos` moves forward only, by no more than was found
  available, so the bytes a call has found are still there and the room the
  writer found is too. This alone gives `OneLifeNoRace`, whether or not
  the reader is on a frame.
- `StillAstray`, `OnFrame`: whether `read_pos` lies on a frame is decided when a
  call begins. The writer cannot change it, since it only adds at the other end.
- `Onward`: nothing newer than what a clean call has delivered is behind it.

One case shaped the model. A writer killed in the middle of a copy leaves the
bytes of an unpublished frame, and with two restarts a reader of the life before
may still be loading them; had the death itself wiped the dead writer's state, the
positions would have counted from the wrong frame. `TDie` therefore
changes nothing in the ring, and the frame becomes history at the first store.
TLC checks `RestartInv` with 3 offers and 2 restarts, and the run `restart` the
properties.

`tlapm CallSessionProofs.tla` proves of the frontend, for any number of calls,
language pairs and changes of settings, and from `CallAssumption` (the first pair
is one of the pairs; the bounds are naturals): `SessionTypes`,
`NeverStuckConnecting`, `LiveCaptured`, `FlagsTrusted`, `LanguagesKnown` and
`PatientCapture`, that is, every invariant of the run `call`. The last is not
inductive: it needs that a user who waits has at most one timer or one connect
pending, and that the status tells which (`Unhurried`). `LanguagesTold` leans on
`ConnectedIsOpen`: a session message that goes nowhere leaves the flag down.

`tlapm RtpProofs.tla` proves, from `RtpAssumption` (an even range of at least 4
numbers, packets late by less than half of it):

| Theorem | Statement |
|---|---|
| `StreamTyped` | `TypeOK` |
| `PacketsPlacedAlways` | `PacketsPlaced` |
| `NoLossUnnoticed`, `LossesExact` | `LossCovered`, `LossExact` |
| `CountersAgreeAlways` | `CountersAgree` |

Packets carry consecutive numbers modulo the range (`WireInv`), so by `SignedDiff` the
16-bit difference of two packets less than half a range apart is the true one.
`LossInv` is the induction: a packet that comes d after the last received one adds
at most the d − 1 between the two to what is missing (`HolesGrow`), and the
receiver counts d − 1; while the order is kept it adds exactly those. The
properties speak of the cardinality of a set that later arrivals may fill,
hence `Holes`, the set the induction is about. The counters are an
account of the set `flying`: a packet sent or copied is a datagram it did not
contain, one received or lost a datagram it did.

`tlapm PipelineProofs.tla` proves, from `PipelineAssumption` and for any number of
frames, updates and updating clients, and any sizes:

| Theorem | Statement | Carried by |
|---|---|---|
| `PipelineTyped` | `TypeOK` | `TypedInv` |
| `OrderKept` | `ChunksInOrder` | `OrderInv`: the buffer in hand is the newest audio, the chunk in hand comes right before it, the events are about older samples (`Gone`) |
| `LossBounded` | `LostOnlyByResize` | `KeepInv`: every sample is in an event, in hand or in a chunker |
| `DrainedAlways` | `BufferDrained` | `DrainInv`: chunkers newer than the one in hand are empty, and between frames that one holds less than its chunk, or nothing where the size is not positive |
| `LabelTrue` | `LabelFitsText` | `LabelInv`, what each load of `target_lang` says of the text in hand |
| `FinalMeansEnd` | `FinalIsEndOfUtterance` | `EndInv`: the two counters of a chunker are a summary of its events since the last final one; while one of its chunks is in hand they are a chunk ahead (`Ahead`) |
| `SizeSettled` | `SizeSettles` | `SizeInv`: unless torn, one thread at most is between the two stores (`Between`), and it makes a chunker of the size that is stored |

`tlapm TransmissionProofs.tla` proves, from `ServerAssumption`, for any number of
connections and descriptors and any `Buf`:

| Theorem | Statement | Carried by |
|---|---|---|
| `TransmissionTyped` | `TypeOK` | `TypedInv` |
| `TakenDownInOrder` | `ThreadsGoneFirst` | `PhaseInv`: what runs and what is open at each step of main |
| `FreshNumberKept` | `FreshKept` | `FreshInv`: no worker of an earlier connection with that number is left, and a broadcast that has the number in hand found this connection behind it |
| `TelemetryDelivered` | `TelemetryReachesAll` | `HeardInv`: the number of each registered connection is still to come or has been sent to; the mutex keeps one from being registered while the list is replaced |

`tlapm ProcessingProofs.tla` proves, from `ProcessingAssumption`, for any number of
connections, transmission engines and segments: `ProcessingTyped` (`TypeOK`),
`ListCorrect`
(`ServedIsListed`; `ListInv`: the copy `broadcast` is about to put in the place of
the list lacks only peers that are gone, and `lock` is held throughout) and `MemoryShared` (`SplitOnlyByUnlink`; `SegmentInv`: the segment that
has the name is the only one that has not lost it).

`TypeCorrect`, `PositionsExact`, `AlwaysInSync`, `SequenceCorrect`, `UsedInOrder` and
`RingInOrder` state definitions that no run lists, since the theorem covers them for every
value of the constants.

Every invariant and every action property that a run of the program checks and
finds true is thereby a theorem for all values of the constants. Only
model-checked: liveness (`ImplementsFairQueue`, `EveryFrameFinishes`, `StatusSettles`,
`EveryClientServed`, `ShutdownCompletes`, `MainProgresses`), which is out of the
prover's reach together with `ENABLED`; and the four violations, each of which TLC
shows by a behaviour.

## 5. Not modelled

- The models `saaras_asr.py` and `mayura_translate.py`: stand-ins without state.
  What they are called with is part of `Pipeline`.
- `codec.cpp`: `encode`, `decode`, `calculateVAD` and `applyGain` are pure
  functions of one buffer, and nothing in the program calls them.
- `AudioChunker.flush`, `ShmRingBuffer::reset`, the C++ Attach mode, the Python
  `ControlSocketClient`, the frontend's `disconnect` outside `dispose`: called by
  nothing that runs. The branches for Windows.
- The bytes of messages: the reassembly of length-prefixed messages is left out,
  and a message is one step. A broken one is a step of its own
  (`WLength(c, FALSE)`, `HBreak`).
- What detached threads do between the destruction of the C++ server and the end
  of the process: they use a destroyed object, which is undefined; the model ends
  their steps with the server.
- The lists and statistics the frontend displays, mute and deafen (nothing reads
  them), the simulated level meter.
- The `.proto` file (compiled by nothing), build files, scripts, generated
  runners.

- The language fields of a message are strings; one that is of another type is
  left out. So is a fraction of a millisecond that leaves the number of samples
  the same: it replaces the chunker like any other size.

Six hazards have no property, since no document or comment denies what happens:
a garbage header that claims almost the whole ring makes the reader wait for ever
(`shm_ring_buffer.py:148`), a CONFIG_UPDATE that comes before the callback is set
is dropped (`main.py:72`), late packets and copies reach the RX ring as they come
(`receiver.cpp:91`), a datagram over 2048 bytes is cut (`receiver.cpp:45`), SIGPIPE
ends the transmission engine (`control_socket.cpp:86`), and the detached threads
above (`control_socket.cpp:71`). Of others a property catches a part only, and
`PROJECT.json` says which: the flag of a new socket that the end of an old one
clears (`ipc_client.dart:73`), the reset of the rings by a second engine
(`main.cpp:51`), a frontend taken for gone at part of a length prefix
(`control_socket.py:126`), and a chunk size that is not positive (`pipeline.py:41`).

## 6. Plan

1. `ShmRestart` on the TX side, where a Python writer survives a C++ reader.
2. `FrameQueue` with `Pipeline` behind it, so that what the ring refuses and what the
   chunker loses are accounted for together.
3. A restart of the remote peer in `RtpStream`: the numbers start over while the
   receiver goes on.
4. Length-prefixed messages and their three readers (a prefix in parts, a length
   of zero, the limit of 10 MiB) against the sequence of messages sent.
5. The codec as operators against a reference, should the program come to call
   it.
