# A TLA+ development of baize

baize is a C++14 network library built on stackful coroutines ("routines").
One thread runs an epoll loop; blocking-looking calls of TCP, UDP and TLS
streams suspend the calling routine and the loop resumes it when its descriptor
is ready or its timer expires. On top of it sit an HTTP layer, a WebRTC media
server and a file transfer program; beside it runs an asynchronous logging thread.

This directory holds TLA+ modules that model that system, TLC configurations that
check them on small instances, and TLAPS proofs of the main safety properties for
every value of the constants. `PROJECT.json` lists the components, runs, mutants,
the source lines every definition models, findings, hazards and theorems.

## The parts of the system

| Part | Sources | What it does | Here |
|---|---|---|---|
| Event loop | `kernel/runtime/event_loop.*` | queue of callbacks, epoll, timers, in one thread | `Runtime` |
| Routines, pool | `kernel/runtime/routine*.cc` | coroutine switch, tick count, timed return, pool of routines and tasks | `Runtime`, `TaskService` |
| Async park | `kernel/runtime/async_park.*` | the read and the write waiter of a descriptor | `Runtime` |
| Time wheel, timers | `kernel/time/time_wheel.*`, `timer.*` | 4 wheels of 256 slots, turned once per ms | `TimeWheel` |
| Streams, listener | `kernel/net/tcp_*.cc`, `udp_stream.cc` | the retry loop around each system call | `Runtime` (the loop), `HttpServer`, `FileTransfer`, `MediaServer` (the bytes) |
| Network buffer | `kernel/net/net_buffer.*` | byte queue with prepend room, compaction and growth | `NetBuffer` |
| Buffer pool | `kernel/net/net_buffer_pool.*` | fixed set of buffers for the media server | `MediaServer` |
| TLS stream | `kernel/crypto/tls_stream.*` | handshake, reads and writes over a park | `HttpServer` |
| Async logging | `kernel/log/async_logging.*`, `kernel/thread/*` | front ends, backend thread, double buffering | `AsyncLogging` |
| Log file | `kernel/log/log_file.*`, `append_file.*` | rolling, flushing, short writes | `AsyncLogging` |
| HTTP | `http/*` | message framing, request and response | `HttpServer` |
| WebRTC server | `webrtc/pc/*` | signalling, dispatch of datagrams, one routine per peer | `MediaServer`, `PeerSession` |
| DTLS | `webrtc/dtls/*` | handshake, retransmission timer, key export | `PeerSession` |
| ICE/STUN, RTP/RTCP, SRTP | `webrtc/ice`, `webrtc/rtp` | checks and parsers of packets | `MediaPackets`, `PeerSession` |
| File transfer | `example/file_transfer.cc` | one file over one connection | `FileTransfer` |
| SDP, process, sockets, logger text | `webrtc/sdp`, `kernel/process`, `kernel/net/socket.*` | straight-line wrappers and formatting | not modelled |
| QUIC | `quic/*` | demonstration, disabled in `CMakeLists.txt` | not modelled |

How they interact: `EventLoop::Do` gives a task to the routine pool; a task calls
stream operations; on `EAGAIN` the operation stores its routine in a slot of the
stream's `AsyncPark` and returns to the loop; `epoll_wait` yields the park, whose
`Schedule` resumes the slot's routine; a timed wait also starts the routine's
timer in the time wheel, which `EventLoop::Start` turns once per iteration. Data
goes through `net::Buffer`. The media server runs one dispatcher routine that
reads all datagrams and hands them to one routine per peer; a signalling routine
per HTTP(S) connection publishes the peers. All of them log through `Logger`, which
writes to stdout, or to an `AsyncLogging` a program installs as its output.

## Modules

### Runtime

State. `free_list`, `active_list`, `tasks` are `RoutinePool`'s members.
`functions` is `functions_`, `batch` what is left of the local vector that
`EventLoop::Start` moved it to. `current` is the routine that has the thread (0:
the main routine). The stack of the main routine is `phase`, `starting` (inside
the loop of `RoutinePool::Start`) and `scheduling` (between the two halves of
`AsyncPark::Schedule`); the stack of a routine is `pc`, `func` and `op`. `slot` is
`read_routine_` and `write_routine_` of every park, `armed`/`timeout`/`due` the
routines' `timer_` and `timeout_`. `ready` and `edge` are the kernel's side:
what a system call would find, and epoll's edge-triggered ready list.

Actions. Code runs without interruption between two context switches, and only
the sockets change meanwhile; each action is such a piece of code, cut further
where a socket may change between two system calls.

| Action | Code |
|---|---|
| `DoInMain`, `Do` | `EventLoop::Do` on the main routine (runs at once) and in a routine (queued) |
| `PoolLoop` | the loop of `RoutinePool::Start` |
| `TakeFunctions`, `RunFunction` | the callbacks part of `EventLoop::Start` |
| `EpollWait` | `epoll_wait`, the full array, the doubling |
| `ScheduleRead`, `ScheduleWrite` | the two halves of `AsyncPark::Schedule`; the routine resumed by the first runs before the second |
| `TurnWheel`, `OnTimer` | the timers part of the loop, `Routine::OnTimer` |
| `RoutineProcess`, `FuncDone` | the pool's routine: assertions, take a task, give the routine back |
| `BeginOp`, `CheckTicks`, `SysCall`, `Interrupted`, `Wait`, `Resume` | the retry loop all stream operations share |
| `Notify` | the WebRTC dispatch routine delivers a packet and calls `ScheduleRead` outside the main routine |
| `SocketReady` | external: the peer |

A failed assertion is `phase = "aborted"`. Timers are ideal here: an armed timer
may expire in any turn. Parks in `Conds` have no descriptor (`PeerConnection`'s
park); their readiness is `packets_` not being empty. `Spec` has all of it, and the
theorems are about `Spec`; `SocketSpec`, which the passing runs check, leaves out
`Notify` and so implements `Spec`. The media server's own notifications are
`MediaServer`'s.

Assumption about callers: no two routines are in an operation on the same park
in the same direction at once (`BeginOp`), because a slot holds one routine. All
callers in the repository respect it.

`TaskService` is what `Do` promises: a queue served in order by at most
`PoolSize` servers. `ImplementsService` states that `Runtime` implements it; the
queue is `tasks`, then the `Start` callbacks of `batch`, then those of `functions`.

### TimeWheel

A slot is the sequence of timers linked behind its head. `TurnWheel` is several
steps (`Tick`, `Cascade` for each wheel, `Run` for each timer, `Return` for its
callback) because callbacks start and stop timers in between. `WheelNum` and
`WheelSize` are constants; the runs use three wheels of base 4, so that a cascade
happens every 4 ms and a second one every 16 ms. The shifts of `CalcTime` are powers
of `WheelSize` (`Power`), and `Unlink` is the relinking of a node's two neighbours. The
clock never goes back.

### AsyncLogging

Each block under `mutex_` is one action. The front ends are `AppendLine` and
`FlushOutput`; the backend is `Begin`, `Loop`, `Lock`, `WaitForSeconds`, `Drop`,
`Write`, `Written`, `Recycle`; the owner is `Start`/`Started`/`Stop`/`Joined`.
`WaitForSeconds` may end at any time, so a lost notification is covered. Lines all
have length 1 and are numbered in the order of `Append`.

`log` is the `LogFile`: its files, each with the second it was opened in and its
lines, and the counters behind the flush and roll decisions. `Write(n, t)` and
`Drop(t)` are `LogFile::Append` at second `t` of the clock, which the environment may
set back, with `n` the part of the buffer that `fwrite` took before it failed.

### NetBuffer

A buffer is a record of the vector's size, both indexes and the bytes between
them. The operations are functions from buffers to buffers; actions apply them
with arbitrary data. The ghost variable `pending` is what the buffer should hold.
`filling` records how the user of the buffer fills it: with `ReadFd` and `Append`,
or by reading into the writable bytes and calling `AddReadableLength`. The
specification is `BufferSpec`.

### MediaServer and PeerSession

`MediaServer` is a composition: the event loop with its batches and phases, the
dispatcher (`DispatchDataLoop`), one `HandleMedia` routine per peer, signalling,
the DTLS and PLI timers, the buffer pool and the table `connections_`. `running`
is whoever has the thread; it keeps it until it suspends.

| Action | Code |
|---|---|
| `RunDispatcher`, `RunCall`, `RunStart`, `RunDrain`, `Poll`, `PollIn`, `PollOut`, `EndTurn` | one turn of `EventLoop::Start`, with `RoutinePool::Start` and `RoutineProcess` |
| `Pub` | `HandleSignal` of a "pub" request: the assertion on the key, the table, `Do(HandleMedia)` |
| `Alloc`, `TickRecv`, `RecvFrom`, `RecvAgain`, `RecvInterrupted`, `RecvTimeout` | `AllocBuffer`, `AsyncRecvFrom`, the lookup by address, then by ufrag, and the delivery |
| `TickSend`, `Sendto`, `SendtoAgain`, `EndFlush` | the loop over `send_messages_` and its `clear()` |
| `ProcessNext`, `Park`, `MediaTimeout` | `HandleMedia` and the destruction of the peer |
| `DtlsTimer`, `PliTimer` | the two timers of a peer |
| `Readable`, `Writable` | the media socket's events |

`PeerSession` holds what one packet or timer does to a peer (ICE, then DTLS, then
SRTP) as operators from a session to the set of its outcomes; those handlers never
suspend. What OpenSSL and libsrtp answer is a choice.

`fate` is how the process ended: an assertion, a null buffer, or "undefined" when
`send_messages_` grew under the dispatcher's loop (which may also be harmless).

### MediaPackets

One behaviour is the processing of one datagram. Its size and first bytes are
chosen at the start, every other byte when a step reads it. `end` records how far
the parser has read, tests that fail included; `Outside` is an address that is not the
datagram's. Actions: `Demux` (`ProcessPacket`), `StunHeader`, `StunAttr`,
`StunEnd` (`StunPacket::Parse`), `Ice` (`ProcessStunPacket` and the response with
`Pack`), `DecodeRtp`, and for RTCP `Walk`, `Report`, `SdesChunk`, `SdesFault` and the
ends of their loops. Length fields are 16 bits wide, as in the code. The
specification is `PacketSpec`.

### HttpServer

One connection: `HttpStream`, `HttpMessage`, `TlsStream` and the loop "read a
request, write a response" of its users. The byte stream is a sequence of tokens
(first line, header line, blank line, body unit), so that a read may end at any
token; `CheckCompleted` and `Decode` keep their searches and early returns. What a
client sends is a `Framed` message: its first length, if it is a number, is the size of
its body. Requests that `Decode` refuses are framed, too. A client whose length
disagrees with its body, and a length that overflows in `StringPiece::ParseInt`
(`string_piece.cc:120`), are excluded by `HttpAssumption`.

The handshake is `Flights` flights of the client (`hs_sent`, `hs_in`, `hs_read`), each
answered by one of the server's of `FlightLen`, of which `hs_out` is not written yet:
`SslFlight` and `SslWrite` are what `SSL_accept` does with them, `SslAcceptAgain` is the
wait of `AsServer`, which is for reading also when `SSL_accept` has to write.
`write_buf` is `write_buf_`, of which `wn` is written: decoding a request ends in the
handler's response, encoded behind what the buffer holds, and `Write` empties it when
all is out. `got` is what the connection took. The other actions
are `Read*` and `Write*` for the routine, `PollIn` and
`PollOut` for the loop, and those of the network and of the client, which may
pipeline, shut down, reset, stop reading, or send a record that does not authenticate.

### FileTransfer

Two processes, server and client, and the connection between them. A piece of the
header is 0, a piece of the file its index, so that loss, repetition and order show.
Either side may fail where the code does (`LOG_FATAL`), the client's close may
reset the connection, and the statistics timers read the counters at any suspension.

### Proof modules

| Module | Theorems about |
|---|---|
| `RuntimeProofs` | `Runtime`: types, pool, timers, wakeups, assertions |
| `ServiceProofs` (extends it) | `Runtime` implements `TaskService` |
| `WheelProofs` | `TimeWheel` |
| `StreamProofs` | what a byte stream goes through: `NetBuffer` and `HttpServer` |
| `FormatProofs` | what is parsed off the wire: `FileTransfer` and `MediaPackets` |
| `LoggingProofs` | `AsyncLogging` |
| `MediaProofs` | `MediaServer` and `PeerSession`: table, routines, buffers, DTLS timer |
| `DispatchProofs` (extends it) | `MediaServer`: when the buffer pool suffices |

## Runs

| Run | Checks | Shows |
|---|---|---|
| `runtime_pool` | `PoolConsistent`, `AssertionsHold`, `OneWakeup`, `NoLostWakeup`, `TimerBelongsToWait`, `ImplementsService` | more tasks than routines: lists and stacks agree, no assertion fails, no wakeup is lost, doubled or left over, tasks are served in order, once each |
| `runtime_live` | `LoopTurns`, `ReadyIsResumed`, `TimedWaitEnds` | the loop is never starved, ready sockets resume their waiters, timed waits end |
| `runtime_notify_abort` | `AssertionsHold` (violated) | see findings |
| `wheel_near` | `TypeOK`, `MoveAssertion`, `NotOverdue`, `RunsNear`, `StaysLinked` | within the first two wheels no timer is lost and each runs within a round of its expiration |
| `wheel_long` | `NotOverdue` (violated) | see findings |
| `logging_lines` | `NothingLost`, `FileNamesDiffer`, `OversizeIsTransient`, `LinesReachFile`, `StopLosesOnlyTheLast`, `StopReturns` | no line lost, doubled or reordered except by the drop rule and failed writes; files roll without reopening one; shutdown |
| `buffer_queue` | `ContentIsPending`, `RoomToRead` | the buffer is a queue of bytes through compaction, growth and the extra buffer |
| `media_server` | `BuffersConserved`, `PeerReachable`, `PeerServed`, `RetransmitArmed`, `BuffersLastUnlessStarved` | buffers are given back exactly once on every path; a live peer is found under one key and served by one routine or queued; delivered packets have a wakeup; the DTLS timer is started again in its callback and stopped with the handshake |
| `media_packets` | `ReadsInside`, `OrderOfAttributes`, `PayloadInside`, `OwnPacketsParse` | parsers and payloads stay inside the datagram, but for the two places named below; accepted attributes are in order, the server's own packets parse |
| `http_connection` | `FramingExact`, `ResponsesExact`, `NoLostEdge`, `GoodRequestsAnswered`, `ConnectionEnds` | requests are framed exactly however the stream is cut, only malformed ones are refused, the connection takes exactly the responses, and the routine is given back but for three waits without a timeout |
| `file_transfer` | `StreamIntact`, `SuccessMeansReceived`, `TransferEnds` | the stream is intact, a reported success means that the whole file was received, both programs end |
| `file_written` | `RecvFileSucceed` (violated) | see findings |

Run one with `tlc -config X.cfg M`, module and configuration as in
`PROJECT.json`. `runtime_pool` and `media_server` have about 2 million states,
`media_packets` 1.2 million; each run ends within two or three minutes.

A definition whose name ends in `_Something`, before the definition it is named after,
is that definition with a plausible mistake; `PROJECT.json` lists which property
each one breaks.

### Findings

1. `runtime_notify_abort`: `ScheduleRead` called from a routine queues one callback
   per packet. Two packets (or a packet and the timeout) before the waiting
   routine runs leave a callback that outlives the wait. If the task has ended by
   then, the callback resumes a pooled routine and `assert(!tasks_.empty())`
   (`routine_pool.cc:41`) fails. `MediaServer` has the same end (`fate = "no task"`).
2. `wheel_long`: `TurnWheel` takes the digit of wheel 1 for every wheel
   (`time_wheel.cc:83`); timers beyond 65.5 s are in slots that are never visited,
   unless the slot is 0. `time_wheel.h:21` promises more than 4 hours.
3. `file_written`: file bytes that came in the same read as the end of the header are
   written at the next read only. When there is none, because that read held the whole
   file, the client logs "recv file succeed!!" (`file_transfer.cc:243`) and nothing of
   the file is on the disk. What does hold is `SuccessMeansReceived`: it was all read.

### Observations

Behaviour the models have because the code does; no line of the repository says
otherwise, so none is a finding.

* A task that found no free routine is started only by a later `Do`. In the media
  server a published peer may so wait in the table, its packets holding buffers; an
  empty pool is then a null buffer (`BuffersLastUnlessStarved`).
* For delays beyond the first two wheels, a list that comes down headed by an expired
  timer fails the assertion at `time_wheel.cc:136`.
* A periodic timer that runs later than its period is dropped when it is linked again
  (`time_wheel.cc:108`). Within the first two wheels, too: a timer runs up to a round of
  wheel 0 late, and its period may be shorter. `StaysLinked` is not about that link.
* A peer that ends before its first STUN packet leaves an expired entry under its
  ufrag: the next offer with that ufrag fails the assertion at `webrtc_server.cc:130`.
  A STUN packet moves such an entry to its address, and packets from there are
  dropped: `PeerReachable` is about the entry of a live peer, not about every packet.
* A DTLS timer that the wheel runs before OpenSSL's timeout has passed is not started
  again (`dtls_transport.cc:350`), and the flight is not sent again. The session records
  it (`early`) and `RetransmitArmed` excepts it: it is what the code does.
* The RTCP decoders are given the whole compound packet at each step of the walk, and
  the walk may take a header from fewer than four trailing bytes before it gives
  up. `SdesPacket::DecodeItem` copies an item's value from its offset taken as an address
  (`rtcp_packet.cc:310`, `SdesFault`). These are the two exceptions of `ReadsInside`.
* `StunPacket::Pack` does not pad USERNAME; the server sends none.
* `HttpMessage`: a request without headers is malformed, and so is one whose last
  header is `Content-Length`; the last header is never checked for a colon.
* `AsServer` and `AsyncWrite` have no timeout. A client that does not go on with its
  handshake keeps the routine, and so does one that does not read responses. When the
  server's own flight does not fit in the socket, `AsServer` waits for the client to send
  (`tls_stream.cc:44`), while the client waits for the flight. `ConnectionEnds` names
  the three.
* File transfer: an empty file fails the assertion at `file_transfer.cc:120`.

### Bounds

* `runtime_pool`: 2 routines and 3 tasks, so that the pool is exhausted and tasks
  queue; one park with both directions; `TicksMax = 2`, so that operations yield; an
  event array of 1, so that it is full and grows. More ready parks than the array
  has room for are left to the proof (`NoWakeupIsLost`).
  `runtime_live`: 2 routines, 2 tasks, 1 park. `runtime_notify_abort`: 2 routines, 2
  tasks; `MaxFunctions` bounds the queue at which a task may still notify, and 3 is
  enough for two callbacks of one wait plus a third one.
* `wheel_near`: starts at 9 and ends at 28, over one turn of both lower wheels;
  `MaxLag` 2 lets `TurnWheel` catch up with more than one millisecond. `wheel_long`
  has the delays 17 and 40, which go to wheel 2, and ends at 60.
* `logging_lines`: buffers of 2 lines, drop limit 2, files of 2 lines, 6 lines, a clock
  of 2 seconds with a "day" of 2, one failing write: enough to use the spare buffer,
  allocate a new one, drop, roll by size and by day, and go back in time.
* `buffer_queue`: room for 3 bytes, extra buffer of 3, two byte values: all of
  "fits", "fits after moving", "grows", "spills" happen.
* `media_server`: 2 peers, ufrags and addresses, one routine for media, so that a
  second peer waits; 3 buffers and 2 messages, so that the pool and the queue of unsent
  messages reach their limits; `TicksMax = 2`. `DtlsLimit = 300` lets the DTLS
  timeout double once, from 100 to 200, so that the timer is started again in its own
  callback, and fails at 400.
* `media_packets`: sizes on both sides of every length the parsers test, first and
  second bytes on both sides of every range of the demultiplexer, length fields from 0
  to 20.
* `http_connection`: six shapes of request (no body, body, and one of each kind that is
  refused, `MCHttpServer`), two requests, a window of 2 tokens, shorter than a response;
  a handshake of two flights, each answered by 3 tokens, so that the server's flight may
  not fit.
* `file_transfer`: a header of 2 pieces, files of 0 to 4, reads of up to 3, a window
  of 3: headers cut in two, files shorter and longer than a read.

Symmetry is used for tasks, timers, peers, ufrags and addresses in runs that check
safety only; routines are not symmetric, since the pool takes the one of
lowest id.

### Fairness

* `FairSpec` of `Runtime`: weak fairness of the thread's own steps as a whole. The
  process runs while it has something to do, and `epoll_wait` returns within a
  millisecond. Nothing is assumed of the peers or of which step the thread takes.
* `TimePasses`, the hypothesis of `TimedWaitEnds` alone: a timer that is armed in
  turn after turn expires. This is strong fairness of the clock. It abstracts from
  finding 2: it is what the wheel does for delays it can serve, which `wheel_near`
  checks.
* `FairSpec` of `AsyncLogging`: the backend thread is scheduled, its timed wait
  ends (it has a timeout), and the owner comes back from `wg_.Wait` and `Join`.
* `FairSpec` of `HttpServer`: the thread that reports events and runs the routine takes
  steps while it has any, and the network delivers. Nothing makes the client send, close,
  go on with a handshake or read. The read's timeout is one of the routine's steps.
  `ClientReads`, the hypothesis of `GoodRequestsAnswered` alone: the client takes what is
  in the connection. A client that does not read gets no answer.
* `FairSpec` of `FileTransfer`: both programs run and the connection carries what is
  written.

## Proofs

All for arbitrary constants under the named assumption of each module
(`ConstantsAssumption`, `WheelAssumption`, `BufferAssumption`, `PacketAssumption`,
`TransferAssumption`, `LoggingAssumption`, `MediaAssumption` with `DtlsAssumption`,
`HttpAssumption`), which TLC evaluates in the module's runs, and checked by TLAPS with Z3,
Zenon and LS4. Every invariant, every action property and the refinement that a passing
run checks is also proved.

Runtime (`RuntimeProofs`, `ServiceProofs`)

* `TypeCorrect`, `PoolIsConsistent`: `TypeOK` is inductive; `PoolConsistent` is
  inductive together with it.
* `TimersBelongToWaits`, `NoWakeupIsLost`. The inductive invariant `Wakeup` adds
  `OpsInv` (no two routines in an operation on the same park and direction), `SlotInv`
  (a slot holds exactly the routine that waits there) and `LoopInv` (events and batch
  are empty outside their phases). `NoLostWakeup` is not inductive alone: that a resumed
  slot is the waiting routine's own needs `SlotInv`, which needs `OpsInv`; that taking
  new events loses none needs `LoopInv`.
* `OneWakeupHolds`, `AssertionsNeverFail`, for systems whose tasks notify no park
  (`Conds = {}`): the invariant `Strong` adds that a routine has one callback exactly
  while it has yielded in `CheckTicks`, and that the pool's loop resumes a routine
  only with a task waiting. Finding 1 shows that the hypothesis is needed.
* `RuntimeImplementsService`: the initial states map to the service's, and each step of
  the loop or of a routine to a `Submit`, a `Begin`, an `End` or a stutter. `Do` appends
  to the mapped queue; moving `functions_` to the batch, and running a `Start`, only
  shift the borders between its three parts. The invariant `Once` (a task is in one
  place only, once in the queue or in one routine) makes a `Do` a legal `Submit`, and an
  end take exactly one task from those that run. What `StartSeq` makes of a longer queue
  is proved by induction on the queue.

Time wheel (`WheelProofs`)

* `WheelTypeCorrect`: a timer is linked at most once, in one slot, whatever is started,
  stopped, cascaded or started again by its own callback. One lemma per list
  operation (`ListUnlink`, `ListPush`, `ListTail`, `ListJoin`).
* `MoveNeverAborts`, `TimersNeverOverdue`, `TimersRunNear`, `TimersStayLinked`, under the
  hypothesis `Near`: delays, periods and the lag of the loop together stay below the
  span of the first two wheels (65.5 s with 256 slots). The invariant `NearInv` says for
  each linked timer where it is: on wheel 0 its slot is run at a time within a round of
  the expiration (`Due`), on wheel 1 its list comes down before the expiration, at the
  start of the expiration's own round (`Coming`). The second is why the head of a list
  that comes down has not expired. `wheel_long` shows what happens without `Near`.

Byte streams (`StreamProofs`)

* `BufferIsQueue`, `BufferTypeCorrect`, `BufferAssertions`, `ReaderHasRoom`: one lemma
  for each operation (a well-formed buffer holding `s` becomes a well-formed buffer
  holding what it should); the invariant is the conjunction of the four, because the
  assertion in `MakeSpace` needs the indexes in order and the room after a read needs
  both.
* `EdgesAreNotLost`: `NoLostEdge` is inductive once the flights are counted.
* `ResponsesInStep`: the invariant `Responding` extends `ResponsesExact` to every place of
  the routine: what the connection took and the rest of `write_buf_` are together the
  responses so far, and outside a write (or a connection that closed in one) the buffer
  is empty. Decoding appends one response to both sides (`ResponsesAppend`), a write
  moves the border between the two parts.
* `RequestsFramedExactly`. The invariant `Framing` says that the requests returned, then
  the read buffer, then what is in the kernel and on its way (or what a reset threw
  away of that) are the messages sent, one after the other. The argument is
  about one message `m` at the head of a stream: as long as less than `m` is there,
  `CheckCompleted` returns 0; as soon as all of `m` is, it returns the length of `m`, or
  -1 exactly when `m` is malformed, whatever follows. The streams are joined by a
  recursive function, whose induction is the lemmas `JoinsExist` to `JoinType`.

Parsers and file transfer (`FormatProofs`)

* `StreamStaysIntact`, `SuccessIsReceived`, `AssertionOnEmptyOnly`,
  `CountersStayInStep`: the invariant adds `Shape`, which relates the two programs'
  places (who may have closed, what is in the buffers then). A success is proved from
  `StreamIntact` at the moment the stream has ended.
* `PacketsReadInside`, `StunAttributesTile`: the invariant adds that in a STUN message
  the cursor and the size are multiples of 4, so that an attribute that fits still fits
  with its padding (lemma `PaddedInside`, with 16-bit arithmetic). For RTP each length is
  tested before what it covers is read. `ReadsInside` has two exceptions, both for
  RTCP: the header the walk takes from up to three trailing bytes, which ends in an error,
  and the copy of an SDES item, which ends the behaviour.
* `AttributesInOrder`, `RtpPayloadInside`, `OwnPacketsAlwaysParse`: the invariants `Order`
  (what `Parse` let through so far) and `Outcome` (which parser was chosen, what it has
  taken, and that the only response is the one of the success).

Logging (`LoggingProofs`)

* `AssertionsOfThreadFunc`: `SpareBuffers` says where the two spare buffers are at each
  place of the backend, and that a front end which has used its spare one has left a
  full buffer: then two buffers are written, and two can be recycled.
* `NamesAlwaysDiffer`, `OversizeStaysTransient`: `RollFile` opens a file only in a later
  second than the last one, and an append in a later second rolls a file beyond its size.
* `NoLineIsLost`: the invariant `Parts` has the files, the buffers the backend took, the
  full buffers and the current one each in order, and each behind the one before it.

Media server (`MediaProofs`, `DispatchProofs`)

* `PeersStayReachable`: `Table` adds that a peer that is gone is no entry of
  `connections_`, so that what a binding or a destruction overwrites is never the entry
  of another live peer.
* `PeersStayServed`: `Line` counts the places a peer is in (a routine, `tasks`, a queued
  `Start`), and adds that a routine that waits with packets has a `Call` queued.
* `BuffersStayConserved`: `Held` says who has a buffer in hand at each place of the
  dispatcher and of `HandleMedia`.
* `RetransmissionStaysArmed`: every operator of `PeerSession` keeps a session `Sound`.
* `BuffersLast`, under `BufferNum > TicksMax` (1000 at `net_buffer_pool.h:18`, 10 at
  `routine.h:25`): the invariant `Yield` has the dispatcher deliver one packet per tick
  until it gives way, and then its `Call` behind those of all peers that have packets, so
  that served peers have freed their buffers before it goes on.

Type correctness is proved for `Runtime`, `TimeWheel`, `NetBuffer` and (as part of the
invariant) `FileTransfer`; the invariants of the other proofs hold the types they need.

Only model-checked: liveness, because the prover has neither fairness nor `ENABLED`. These
are `LoopTurns`, `ReadyIsResumed`, `TimedWaitEnds`, `LinesReachFile`,
`StopLosesOnlyTheLast`, `StopReturns`, `GoodRequestsAnswered`, `ConnectionEnds` and
`TransferEnds`. Of the hypotheses above, `Conds = {}` and `Near` mark what the first two findings
are about: without them the properties are false, as the violating runs show.

## Not modelled

* Lifetime of parks and streams (`EnablePoll`, `DisablePoll`): parks exist for the whole
  behaviour, so an event for a park that is destroyed in the same turn is out of the
  models. Which stale pointer the array then holds is up to the kernel and the allocator.
* The context switch of boost.context, the kernel beyond readiness, signals.
* The clock set back under the time wheel: the wheel then stops and drops new timers; no
  line of the code claims otherwise. (`AsyncLogging` has a clock that goes back.)
* `AsyncLogging::Flush` racing `RollFile`: an unsynchronised access to `file_` whose
  outcome is undefined. `Flush` is one step of the model.
* Cryptography: OpenSSL and libsrtp are external, what they answer is a choice; digests
  and CRCs are right or wrong.
* Formatting and start-up code: the logger's text, SDP templates, `DtlsConfig`,
  `WebRTCSettings`, `FileReader` of HTTP, process information, socket wrappers, the dump
  functions and unused encoders of RTCP. They keep no state between calls.
* The echo and discard examples repeat one stream operation, which `Runtime` covers for
  arbitrary tasks. QUIC is not built.
