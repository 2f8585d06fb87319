# A verification development for echo_benchmark

`src/` is a benchmark of echo servers: one program that echoes what it receives,
written on a home-grown asynchronous library (`src/aio`), on Boost.Asio (with
callbacks and with coroutines), Java and Kotlin NIO, Netty, Node, Go, .NET and
uvloop, and a load generator (`src/tester`) that measures them. The logic of its
own is in `src/aio/unix` (the library: an edge-triggered event loop with a
completion queue and timers), `src/aio/echo` (the server on it) and `cpl_log.h` (the
logger every C++ program of the repository uses). This directory models them in TLA+,
checks them with TLC and proves part of it with TLAPS.

## 1. Inventory

| component | state | operations | correct if |
|---|---|---|---|
| `aio::Proactor` (`proactor.cpp`, `proactor_epoll.cpp`, `proactor_kqueue.cpp`) | poll descriptor, `_stop`, completion list `_head`, `_deleted`, `_timerList` | `create`, `run`, `stop`, `_register`, `_remove`, `_enqueue`, `_processCompletion`, `_pushTimer`, `_popTimer`, `_processTimer` | never follows a dangling pointer; drains completions after each handler; no edge is lost; timers expire the right operation, and every one; stops when told |
| `aio::Socket`, `Token` | descriptor, one token for the read and one for the write: buffer, sizes, callback, mode, err, links, tv | `readSome`, `readAll`, `writeAll`, `close`, `onRead`, `onWrite`, `onClose` | one callback per operation; never touches memory outside the buffer; bytes in order |
| `aio::Acceptor` | listening descriptor, callback, err | `listen`, `close`, `onRead`, `onClose` | every connection in the backlog is accepted while descriptors last |
| aio echo server (`echo/main.cpp`, `echo/signal.cpp`) | `EchoClient` per connection: socket, `recvBuf`, `sendBuf` | `onAccept`, `startRecv`, `onRead`, `onWrite`, `SigHandler` | echoes every byte once and in order; a client goes when its peer goes or time is over; nothing leaks |
| `memory_pool` (`memorypool.h`) | chunks, free list | `acquire`, `release`, destructor | a block is out once, none is lost, no chunk without need |
| `cpl::Logger` (`cpl_log.h`, four copies; a POSIX and a WIN32 half) | descriptor, level, rotation settings, time of the last line, mutex | `init`, `reload`, `log`, `write`, `_checkRotate`, `_rotate`, `close` | a line goes to the log and to nothing else; none is lost by a rotation or a restart; a file stays within its period and size |
| tester | per connection buffer; counters; stop flag | `onConnect`, `onWrite`, `onRead`, `OnTimer`, `SigHandler`, `main` | counts round trips; frees each client once |
| Boost, Boost coroutine, Java, Kotlin, Netty, Node, Go, .NET, uvloop servers | a buffer per connection | accept, read, write, close | the same echo service |
| `aio/test` | `EchoClient` with a mode per client | the same with `readAll`, `readvAll`, `connect` | mode 1 (`readAll`) echoes whole messages; the program is for an earlier API and compiles against today's header in no mode |

Interaction. `main` creates a `Proactor` and a `Server`, whose `Acceptor` is
registered with the poller; `run()` owns the only thread. It waits, calls
`onRead`/`onWrite`/`onClose` of the reported handlers, and after each handler takes
tokens from the completion list and calls back the `EchoClient`, which starts
the next operation or deletes itself, both of which change the lists the loop is
walking. The kernel, the peers, the clock and signals run beside it. What is
hard: edge-triggered readiness that is reported once; events that are stale when
used; objects deleted under the loop; a timer set whose keys collide; partial
reads and writes; failed `accept`; and the kqueue build, whose events differ. The
logger is called by any thread: what is hard there is the gap between the `close` and
the `open` of a rotation, time read before the lock is held, names that are taken, and
a process that dies in between.

`PROJECT.json` lists each component with its status and each hazard at its line.

## 2. Modules

| module | models | of the source |
|---|---|---|
| `Kernel` | the environment: connections, peers, backlog, interest list, edges, results of `read`, `write`, `accept`, `close` | what the system calls of `src/aio` rely on; the event masks of both builds |
| `AioSocket` | the library's data (tokens, completion list, timers) as one record `px`; each procedure an operator on records | `proactor.cpp`, `proactor.h` |
| `Proactor` | the event loop up to the callbacks: poll, dispatch, drain, timers; clock and signals | `run()`, `_processTimer`, `signal.cpp` |
| `AioEcho` | the server: accept loop, `EchoClient` callbacks, `Next`, `Spec`, properties | `echo/main.cpp`, `Acceptor::onRead`, `run()` |
| `EchoService` | what an echo server promises to its peers, whatever it is built on | `README.md`, the servers' common contract |
| `AioReadAll` | the same server reading messages of a fixed size | `readAll`, the ALL branch of `Socket::onRead`; what `test/main.cpp` in mode 1 asks of them |
| `AioMain` | start-up and end of the process, each call with its failure, signals anywhere, restarts | `echo/main.cpp`, `signal.cpp`, `Proactor::create`, `Acceptor::listen`, `close` and the destructors |
| `MemoryPool` | the chunks and the free list | `memorypool.h` |
| `LogStore` | what a log promises to its readers | - (the contract `Logger` is shown to implement) |
| `LogFiles` | clock, directory, names and periods, shared by the two loggers | the calls of `cpl_log.h`; the names `_rotate` makes |
| `Logger`, `WinLogger` | the logger's POSIX and WIN32 halves: threads in `log()`, one system call a step | `cpl_log.h` |
| `MCAioEcho`, `MCAioReadAll`, `MCAioMain`, `MCMemoryPool`, `MCLogger`, `MCWinLogger` | the same for TLC, with symmetry where it is sound | |
| `AioSocketProofs`, `LogFilesProofs` | lemmas about the operators of the module of that name | |
| `AioEchoProofs` | types, buffers, queue, pointers, echo contract, descriptors, timers and edges of `AioEcho`: theorems | |
| `AioReadAllProofs` | the messages, edges and pointers of `AioReadAll`: theorems | |
| `AioMainProofs`, `MemoryPoolProofs`, `LoggerProofs`, `WinLoggerProofs` | theorems about the module of that name | |

`AioEcho` EXTENDS `Proactor` EXTENDS `AioSocket` EXTENDS `Kernel`; `AioReadAll` EXTENDS
`AioEcho` and replaces the operations that differ; `AioEcho` instantiates `EchoService`
with its own state, `Logger` instantiates `LogStore`. `AioMain` is the frame around
`run()`: there the loop is one action (`Serve`), here (`AioEcho`) it is everything.

Granularity. A step of the loop makes at most one system call on one
connection, with everything the code does up to the next such call or callback;
between any two steps peers may send, read, finish, reset or connect, the clock
may tick and a signal arrive. `pc` is where the loop is:
`wait` (epoll_wait), `dispatch` (the `for` over events), `accept` (the loop of
`Acceptor::onRead`), `afterRead`/`afterWrite` (the completion loop after
`onRead`/`onWrite`), `timers` (`_processTimer`), `stopped`/`failed` (`run()` returned
true/false). `batch` is what is left of the `events` array, in any order; `cur` the
event being dispatched.

Data. Byte number i a peer sends on a connection is the number i, so `out`, what
the server has written, shows at once a byte lost, repeated or out of order.
Buffers have the fixed size `BufSize`, and a read writes into them what `read` put
there. `Obj` is a set of heap slots: `new EchoClient` takes any free one, so an
address is reused. `Garbage` is what the uninitialised `Token::tv` may hold.
Edges: `ready` holds the handles with an edge not reported yet; `Poll` takes them all
with the mask of that moment, so a later step acts on a mask that may be stale.

`accept` returns a connection, EAGAIN or an error; the `fcntl` behind it may fail too, and
then the connection is `blocking`: its descriptor is open and nobody holds it.
`AcceptFaults` says which of the two fail for reasons other than `FdLimit`.

The server of whole messages. `test/main.cpp` is written for an earlier API of the library
(callbacks by `std::bind` and as member pointers, `Socket::error`; lines 72 and 156 among
others) and does not compile against `proactor.h` today, in any mode. What is modelled is what
its mode 1 asks of the library: `readAll` of a message, the 0 stored behind it, `writeAll`, the 0
behind that, and again. Element i + 1 of a buffer in the model is `buf[i]`, and a message
is shorter than the buffers (76 of 1024 bytes: `AioReadAllAssumption`).

The logger. A thread in `log()` is at a `pc` that names the next system call (`check` is the
`stat` of the log, then `close`, `stat` of the new name, `rename` or `MoveFile`, `open`,
`write`); the name, `newLogFile`, is made of the time `_checkRotate` has chosen before the first
of them. Main-thread operations (`init`, `reload`, `close`) are one step. `init(file)` and
`init(fd)` are both there, with the shift of arguments the code has (`init(file)` calls
`init(fd)` without `enableTid`, so `daily` arrives as `enableTid` and `hourly` as `daily`:
`Shifted`). Descriptors are numbers and `open` returns the lowest free one, so the number a
rotation closes may be given to somebody else (`Elsewhere`). A file is a sequence of lines,
`dir` says which file a name stands for, and `kept` is what a reader of the directory finds. In
`WinLogger` a handle also has a position, `CreateFile` opens at 0, and `MoveFile` fails when the
name is taken or a handle keeps the file. A rotation has two names to try; one that finds both
taken, the third within a second, replaces the second's file, or, on Windows, leaves its own in
place. `replaced` holds the lines that go in that way, and `over` becomes true.

Left out: the buffer and callback pointers of a token (determined by its owner and
kind), error texts, what a log line says (its length is `TerminatorAt`), log levels, the
text of the log's path (`_getAbsFilePath`: `Named` is that it is set), failures of `epoll_ctl` for
a client's socket, and failures of `pthread_mutex_init` and `pthread_mutex_lock`
(`cpl_log.h` 442-447, 537-540; after the second the code goes on without the lock).
`Logger::close` takes no lock and destroys the mutex: that no other thread is in `log()` then
is left to its caller, the destructor, and `CloseLogger` takes it as given (`AllIdle`).

## 3. Runs

`Conn`, `Obj` are model values; `MaxSend` bytes per connection, `TxCap` bytes of send buffer,
`BufSize` bytes of `recvBuf`, `FdLimit` descriptors, `AcceptFaults` the calls of `_accept` that
may fail, `Timeout` and `MaxTime` ticks.

| run | bounds | question |
|---|---|---|
| `echo_safety` | 2 connections, 2 slots, MaxSend 2, BufSize 2, TxCap 1, clock stopped | memory, callbacks, one operation, drained queue, edges of reads and accepts |
| `echo_stream` | 1 connection, MaxSend 5, BufSize 3, TxCap 2 | several short reads and writes in a row: the echo contract, edges of writes, everything echoed, every client deleted |
| `timers` | 2 connections, 2 slots, both calls of `_accept` failing, MaxSend 1, Timeout 1, MaxTime 2, garbage keys 0..2 | the timer set, timeouts on time; a failed `accept` leaves no object; nothing but `_accept` loses a descriptor |
| `stop` | 1 connection, 2 slots, 1 descriptor, both calls of `_accept` failing, MaxSend 3, BufSize 2, TxCap 1, MaxTime 2, a stop signal | `run()` returns; expired operations leave |
| `kqueue` | 2 connections, kqueue, EINTR | no read is left waiting on that build |
| `readall` | 1 connection, 2 slots, 1 descriptor, `fcntl` failing, messages of 3 bytes in a buffer of 4, MaxSend 7, TxCap 2 | messages in pieces: each piece in its place, each message echoed once |
| `main` | 2 clients, 2 starts | failures of start-up, signals, restarts |
| `pool` | 2 chunks of 3 blocks | the allocator, `malloc` failing |
| `logger` | 2 threads, 3 descriptors, 4 lines, 4 seconds, 2 an hour | turns, descriptor, periods and size with `reload` and foreign `open`/`close` |
| `logger_restart` | 2 threads, 2 descriptors, 4 lines, 2 seconds, 2 runs, every fault | no line lost; every call returns |
| `win_logger` | 2 threads, 2 handles, 4 lines, 2 runs, every fault | the WIN32 half |
| `timer_lost` | 2 connections, 1 tick | the finding below (a violation) |

Why the bounds are enough. Two connections give every pairwise interleaving of handlers in one
batch, and two slots (also for a connection and the object of a failed `accept`) reuse of an
address; no code path relates three clients. `TxCap` < `BufSize` makes writes short, and
`MaxSend` > `BufSize` makes a reply take several rounds. Timers only compare: with `Timeout` 1
and a clock of 2 (3) ticks an operation can be due, not due, and started at the same or at
another tick than its neighbour. In the runs other than `timers`, `stop` and `timer_lost` the
clock stands still, so nothing expires there and the contract is the strict one: a peer that has
not reset is hung up on only when it has finished and all it sent is back (`Expires` is FALSE).
A message of three bytes can come in three pieces, and 7 bytes are two messages and a piece of a
third. Two threads are enough for a logger whose steps only tell "me" from "somebody else" (and
`LogReached` holds for any number); four lines with a limit of one or two rotate two or three
times, the clock crosses an hour once, and two runs have one restart at any step. In
`logger_restart` every line rotates, all four may fall in one second, and a third rotation then
replaces the second's file. `CHECK_DEADLOCK FALSE` is used only where the system may really
stop: `run()` or `main()` returned (`stop`, `kqueue`, `main`), the pool destroyed (`pool`), all
lines logged (the loggers).

What the properties say, in words, is beside each definition. Two are refinements:
`EchoContract`, the server's behaviour, seen through
`phase/request/reply/finished/reset`, is a behaviour of `EchoService`; and `LinesKept`, the
lines of the log's files, through rotations, failures and restarts, are a behaviour of
`LogStore`, where the lines in `replaced` count as kept: a third rotation within a second is
the only thing that takes lines away. `NoneOverwritten` and its neighbours in `WinLogger` are
stated up to the step (`over`) at which that build opens a file with lines at its first
byte. `NoLeak` leaves out the descriptors that `_accept` itself has lost.

Fairness. `FairSpec` is weak fairness of `Server`: the one thread of the process is
scheduled, and `epoll_wait` returns after its 100 ms at the latest. `EchoFairSpec` adds
weak fairness of `PeerRecv`: a peer that keeps reading what is sent to it; without
it a full send buffer rightly stays full. `AllFairSpec` is the same for `AioReadAll`.
`AioMain`'s `FairSpec` is weak fairness of `Main`, the steps of the one thread, again
because `epoll_wait` has a timeout. `Logger`'s `FairSpec` is weak fairness of every
thread's step; weak is enough for the mutex only because the lines are bounded, so a
waiting thread is overtaken finitely often. No fairness is assumed of sending,
finishing, the clock, signals, restarts or failures.

### Findings

`timer_lost`: operations that start in the same microsecond have equal keys in
`_timerList`; one loses its timeout, and `erase` by key removes the other's timer, although
the code takes a failed insert for an error.

### What the models show beside it

These follow from the code and are in the models. But for the second, no comment, test or
document says otherwise, and there is no run for them.

- `proactor_kqueue.cpp:122`: `EVFILT_READ | EVFILT_READ` never asks for write readiness, so a
  short write is not resumed; and `EV_EOF` (66) is acted on before the data that came with it.
  `AioEchoStream.cfg` with `Backend = "kqueue"` violates `WriteResumes`.
- `proactor.cpp:840`: `onWrite` may be called for an event that is stale (the callbacks of the
  same event have written), and meets EAGAIN. The comment there, like those of 737 and 783 for
  reads, says that this must not happen on an event; on epoll it is true of the reads only.
  Harmless: the code then waits for the next event, as `WriteResumes` needs it to.
- `proactor.cpp:805`: in mode ALL one `read()` is made per edge. If the FIN has already come, its
  edge is used up and the end of the stream is seen only if the message is completed:
  `ReadResumes` fails in `AioReadAll`, `DataResumes` holds.
- `proactor.cpp:1047`: after EMFILE the rest of the backlog waits for the next connection.
- `proactor.cpp:1005-1009`: when `SetNonBlock` fails for a new connection `_accept` returns -1 and
  does not close it: the descriptor is lost, and the peer waits for an answer for ever
  (`AcceptUnset`).
- `proactor.cpp:960`: `SO_REUSEADDR` is set to 0, so a restart may fail in `bind`.
- `echo/main.cpp:180`: a signal before `g_proactor` is set, or after `main` has returned, calls
  `stop()` on a pointer that is null or dangling; `SignalsHandled` says nowhere else.
- `cpl_log.h:684`: a third rotation within a second replaces the second one's file, or, on
  Windows, has no name left and goes on at the first byte of the file it could not move.
- `cpl_log.h:682, 687`: without the lock two threads may find the same name free, and the second
  `rename` replaces the file of the first (`LinesKept` fails with `EnableLock` FALSE).
- `cpl_log.h:658, 666`: with a period and `_rotateSize` 0 every line rotates the file.
- `cpl_log.h:425`: `init(file)` passes its flags one place off (`Shifted`).
- `cpl_log.h:526`: a header that fills the buffer has its terminator put one byte past it.
- `test/main.cpp:98, 182`: a message as long as the buffers would have its 0 one byte past them.
- `cpl_log.h:59, 301`: the WIN32 logger writes over what it finds after a restart or a
  failed `MoveFile`.
- `memorypool.h:37`: `malloc`'s result is not looked at; addresses near NULL are handed out.

## 4. Proofs

Every theorem holds for all values of the constants that meet the named
assumptions: any sets of connections, objects, threads and handles, any sizes,
bounds, garbage and faults. A hypothesis beyond those is in the table.

### The echo server

| theorem | statement | hypothesis |
|---|---|---|
| `Typing` | `Spec => []TypeOK` | |
| `BuffersSafe` | `Spec => []BufferSafe`: no read or write beyond a buffer | |
| `CompletionsDrained` | `Spec => []Drained`: no completion is left behind | |
| `NoDanglingPointer` | `Spec => []MemorySafe`: no pointer of the loop dangles | |
| `CallsReachLiveObjects` | `Spec => CallsLiveObject`: only living objects are called | |
| `OneOperationAtATime` | `Spec => []OneOperation`: one operation per client, one link per finished one | |
| `EchoRefinement` | `Spec => EchoContract`: it implements `EchoService` | `Backend = "epoll"` |
| `NoDescriptorLeak` | `Spec => []NoLeak`: one client per descriptor, but for those `_accept` lost | |
| `TimersInOrder` | `Spec => []TimersSound` | |
| `NoEarlyTimeout` | `Spec => TimeoutOnTime` | |
| `ReadEdgeKept` | `Spec => [](pc # "stopped" => ReadResumes)` | |
| `WriteEdgeKept` | `Spec => [](pc # "stopped" => WriteResumes)` | `Backend = "epoll"` |
| `AcceptEdgeKept` | `Spec => [](pc # "stopped" => AcceptResumes)` | a descriptor for each connection; `AcceptFaults = {}` |

`AioSocketProofs` has the lemmas about the library's procedures: each keeps a record S
`Sound` (in `Library`, with `ioSize <= bufSize <= max` for each token), what it adds to
the completion queue, which sizes it leaves alone, what exactly it puts into its token
(`Puts`), and that the tokens of other objects stay `Apart`.

These theorems are in `AioEchoProofs`. The first inductive invariant is
`TypeInv == TypeOK /\ BufferSafe /\ ReadyWatched`. `TypeOK` is not inductive alone: that a
short write's sum stays within the buffer (so that `sendBuf[from + i]` is a byte, and
`out` stays a sequence of numbers) needs `BufferSafe`; and that an event's handler is an
object, not Null, needs `ReadyWatched`: an edge is kept only for a watched connection.
Each action of `Next` has a lemma; the temporal step is PTL. `Drained` follows with
`TypeInv`: each action either keeps the queue empty or leads to a `pc` where it may be
non-empty.

The pointers rest on `MemInv`, which has three parts. `Owned` relates the library's data
to the clients: the queue is injective and holds exactly the tokens in mode D or E
(`QueueExact`), timers and links are of living clients only, no linked token's client
has an event waiting, and each client has one operation under way (`Busy`). `WatchInv`:
the interest list and `_soc` agree, so that `epoll_wait` cannot report a handler twice.
`BatchInv`: a handler has one event per round, the one being dispatched has none left,
and no event waits while timers are processed. `MemorySafe` alone is not inductive. A
completion or an expiry deletes its client without looking at the events still waiting,
which is safe because none of them is that client's; `_remove` takes a deleted client's
token out once, which is enough because it is linked once; and that, in turn, needs
`_enqueue` never to get a linked token, hence the modes, hence one operation at a time.
Each procedure of the library is a `Step` on the socket of one object, which keeps
`QueueExact` and touches no other object's tokens, and `~Socket` leaves its object
`Forgotten`. `Drained` is needed too: no token is linked when `epoll_wait` brings new
events, or when a timer expires.

The other seven go on from there. The refinement maps the state as `AioEcho` does
(`Service`), and each action is shown to be a step of `EchoService` or to change nothing
its peers see. That needs `StreamInv`, the bytes: of each connection, what is written
back are its first bytes, no more than were read (`ConnInv`); of each client, where the
rest of them is: a pending read has nothing left to echo, a finished one has the bytes
that follow `out` in `recvBuf`, a pending or finished write has them in `sendBuf` behind
`ioSize` (`ReadInv`, `WriteInv`). That a connection is hung up on only for a reason needs
where the hang-up comes from: a waiting HUP event is a reset (`HupInv`, on epoll only),
an expired token had its time (`ClockInv`). `NoLeak` follows from it because a
connection is open, and not just `blocking`, exactly if it is watched.

The edges need `EdgeInv`: a client that waits for what is there `Resumes`, that is, has its
edge in the poller or its event in the array. The cases that are not obvious: a handler
that goes back to waiting has just met EAGAIN, so nothing is there; a `read` or `write`
that takes only part belongs to an operation that does not wait afterwards, or leaves
nothing; `epoll_ctl` raises an edge for a socket that is ready when it is added; and a
deleted client's edge goes with its descriptor, so an object that is made at its address
does not lose one of its own. After `stop()` the array is abandoned, so these three
theorems end where `run()` does. `AcceptEdgeKept` has its hypothesis because a failed
`accept` uses the edge up (section 3); `WriteEdgeKept` because the kqueue build never asks.

### The server of whole messages

| theorem | statement | hypothesis |
|---|---|---|
| `WholeMessagesEchoed` | `AllSpec => []EchoesWholeMessages` | `Backend = "epoll"` |
| `RepliesAreWhole` | `AllSpec => []RepliesWhole`: the first two conjuncts of it | |
| `MessageEdgeKept` | `AllSpec => [](pc # "stopped" => DataResumes)` | |
| `MessageServerSafe` | `AllSpec => [](TypeOK /\ BufferSafe /\ TerminatorSafe /\ MemorySafe /\ OneOperation /\ NoLeak)` | |
| `MessageCallsReachLiveObjects` | `AllSpec => CallsLiveObject` | |

In `AioReadAllProofs`. A step of this server is a step of `Next` or one of those that
`AioReadAll` replaces (`AllSteps`: accept in its three outcomes, the read event, the
completion), so `RunInv`, the invariant of types, queue and pointers, needs only those looked
at. The bytes need an invariant of their own, `WholeInv`. `out` ends
at a message `Boundary` whenever a read is under way; a pending read has the first `ioSize`
bytes of the message that follows in `recvBuf` and waits for the other
`MsgSize - ioSize`; a finished one has all of it, or 0 bytes, and then the peer has finished
with less than a message since the boundary (`ReadAllInv`); a write is that of `AioEcho` of bytes
that end at a boundary (`WriteAllInv`). Hence what is written is never more than the whole
messages read (`WholeConn`), and at the end of the stream it is all of them (`WholeWithin`: the
largest multiple of `MsgSize` that is not above `sent` is where `out` ends). The lemmas on
quotients and remainders are there for that. The 0 stored behind a message is behind the bytes
these speak of, and in the buffer (`TerminatorSafe`) because an operation that is done has
at most `MsgSize` bytes. The third conjunct of `EchoesWholeMessages` fails
on kqueue for the reason `EchoContract` does.

The edges are `AllWait`. `onRead` makes one `read()` of what is missing and not another one
until EAGAIN, so `Quiet` of `AioEcho` (nothing is readable when a client waits) is too much here:
the end of the stream may have arrived behind the last byte that `read()` took, and raised its
edge. What is kept is `QuietRead`: a client that goes back to waiting has left no byte,
because a `read()` that leaves some has filled the message.

### main and the pool

| theorem | module | statement |
|---|---|---|
| `MainTyping` | `AioMainProofs` | `Spec => []TypeOK` |
| `ListenerReady` | | `Spec => []AcceptNeverBlocks` |
| `ExitHonest` | | `Spec => []ReturnsTruth` |
| `SignalsSafe` | | `Spec => SignalsHandled` |
| `PoolTyping` | `MemoryPoolProofs` | `Spec => []TypeOK` |
| `PoolBlocks`, `PoolLosesNothing` | | `Spec => [](Exclusive /\ NothingLost)` |
| `PoolGrowsWhenNeeded` | | `Spec => []NoWaste` |

`AioMain`: what has been done to the listening socket is a function of where `main` is
(`SetupInv`), the handlers and `g_proactor` likewise (`SignalInv`), and `code` is 0 only
after a stop or before the end (`CodeInv`). `MemoryPool`: `Exclusive` needs that `_free` and the
objects hold blocks of allocated chunks only (`OnlyInstances`), so that a new chunk's blocks
are new; `NoWaste` counts: with every block of the chunks free or in use, and none twice, a
pool with an empty free list has exactly `chunks * ChunkSize` objects, which is where the
lemmas on cardinality come in.

### The loggers

| theorem | module | statement | hypothesis |
|---|---|---|---|
| `LoggerTyping` | `LoggerProofs` | `Spec => []TypeOK` | |
| `LogReached` | | `Spec => []WritesReachLog` | |
| `DescriptorKept` | | `Spec => []OneDescriptor` | |
| `FilesBounded` | | `Spec => []SizeBounded` | |
| `LineInBuffer` | | `TerminatorAt(B, h, m) < B` | `h + 2 <= B` |
| `NoLineLost` | | `Spec => LinesKept`: it implements `LogStore` | the lock |
| `PeriodsKeptApart` | | `Spec => []OnePeriod` | the lock; one `init`; no failing `rename`; always something to rotate by; whole hours in a day |
| `WinLoggerTyping` | `WinLoggerProofs` | `Spec => []TypeOK` | |
| `HandleKept` | | `Spec => []OneHandle` | |
| `WrittenBehind` | | `Spec => []AppendsToLog` | |
| `NothingOverwritten` | | `Spec => NoneOverwritten` | the lock |
| `PeriodsDivided` | | `Spec => []PeriodsApart` | the lock; always something to rotate by; whole hours |

`LogFilesProofs` has what both need: what `open`, a rename (to a free name or onto a file) and
an append do to the lines that are kept and to the periods of the files, and the arithmetic of
hours and days.

`LockInv` is the base of both. Only the owner of `_mtx` (`_cs`) is past the lock and a logger in
use is locked (`TurnInv`); a thread that rotates does so in a logger that has a file
(`RotatingInv`); and outside the gap of a rotation the one descriptor of the log is `_fd`,
open, and stands for the file called `_logFile`, while in the gap there is none (`FileInv`,
`HandleInv`). `WritesReachLog` alone is not inductive: what another thread does between a
thread's `open` and its `write` is excluded by the turns only, and `close()` of the logger by
the threads being idle. For the size there is `SizeInv` on top of it: who is about to write
has found the file short enough, or has opened a new one, since after a `rename` that
succeeds there is no file called `_logFile` until the same thread makes it.

No line is lost. A file that has a name is a file (`FilesExist`), and a rename is the only
step that takes a name away. What it may replace is known from the `stat` before it: the
name it uses is not `_logFile`, and is free or ends in ".1" (`NameInv`). That needs the lock:
the name is looked at in one step and used in another, and only the turns keep a second
thread from taking it in between. So a file that is replaced is the ".1" file of a second that
has two already, and its lines are those `replaced` records. Any number of lines in a
second, of threads, failures and restarts is allowed.

Periods. `OnePeriod` needs that between two turns `_prev` is the time of the last line of
the file, and that the line about to be written goes with it (`PeriodInv`); that a logger in
use has a descriptor if it has a file, and something to rotate by (`OnceInv`, `AskedInv`),
since otherwise `_checkRotate` leaves `_prev` as it is; and that days are whole hours, since
with both flags set only the hour is looked at. The hypotheses are each needed: the first
line of a process is not compared with the last one of the process before, nor the first
one after a time without rotation, and a failed `rename` keeps the old lines. `init(file)`
passes on `hourly` as `daily` and leaves `hourly` at its default, so what was asked for has
to be hourly.

On Windows the position of the handle is one more thing to keep: `EndInv`, until `over` it is
at the end of its file, the file is gone when a rotation is about to make it again (so that
`CreateFile` starts an empty one), and a log that is there is open. `NameInv` is needed for
the second of these: after a `MoveFile` that finds its name taken the file is still there, and
that is the case `over` records.

### Assumptions, and what is not proved

`KernelAssumption`, `TimeoutAssumption`, `ProactorAssumption`, `AioEchoAssumption`,
`AioReadAllAssumption`, `AioMainAssumption`, `PoolAssumption`, `LogFilesAssumption`,
`LoggerAssumption`, `WinLoggerAssumption` (handles, addresses, descriptors, records and absent
values are different values; sizes are positive). TLC evaluates them in every run of their
module.

Every safety property of a passing run is proved, under the hypotheses above.
`TerminatorSafe` is proved and is no property of a run. `EchoContract`, `EchoesWholeMessages` and
`WriteResumes` do not hold on kqueue. Out of this prover's
reach are the liveness properties (`EchoedEventually`, `ReleasedEventually`,
`StopsEventually`, `ExpiresEventually`, `StopHonoured`, `MessageEchoed`, `CallReturns`): they
rest on fairness and ENABLED.

## 5. Not modelled

- The servers on Boost.Asio, Java and Kotlin NIO, Netty, Node, Go, .NET and uvloop: some tens of
  lines each, in which the queues, the readiness and the short writes are the runtime's. What is
  left is "read, then write what was read"; their faults (a byte past the buffer,
  `src/boost/test.cpp:39`; the rest of a short write dropped or an exception of one connection
  that ends the program, `src/java_nio/EchoServer.java`) are seen by reading and do not depend
  on an order of events.
- `tester`: a client that measures. Towards a server it does what the peers of `Kernel` do.
- The modes of `aio/test` other than 1, its start-up, and the code of `proactor.cpp` and
  `proactor.h` that is commented out (`connect`, `readv`, `writev`, `IoVec`): not compiled.
- `Logger::write` with `now == NULL`: nothing calls it. The copies of `cpl_log.h` differ only in
  whether the result of `::write` is looked at (558), for a warning.
- A clock that is set back or forward (`gettimeofday`): the model's clock only advances.
- A peer that never lets `_processCompletion` return: `MaxSend` bounds what a peer sends.

## 6. Next

The peer that never lets `_processCompletion` return (`proactor.cpp:1104`), and a logger without the
lock: what of `WritesReachLog` and `LinesKept` is left of it when threads do not take turns.
