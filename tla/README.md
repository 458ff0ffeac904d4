# A TLA+ model of sznet

sznet is a C++ network library in the reactor style: one `EventLoop` per
thread, channels (file descriptors with callbacks) served by a poller, timers,
TCP servers and clients, and a KCP (reliable UDP) layer that uses a TCP
connection for its handshake.  These modules model the parts of it that are
hard to test: what threads, callbacks and messages can do to each other.

## 1. Inventory

| Component | Source (`src/sznet/`) | State | Operations | Interacts with |
|---|---|---|---|---|
| EventLoop | `net/EventLoop.*` | `m_quit`, `m_looping`, `m_callingPendingFunctors`, `m_pendingFunctors` (under `m_mutex`), wakeup descriptor | `loop`, `quit`, `runInLoop`, `queueInLoop`, `wakeup`, `handleRead`, `doPendingFunctors`, destructor | everything: any thread queues functors, the loop thread runs timers, events, functors |
| EventLoopThread and pools | `net/EventLoopThread*.*`, `net/KcpTcpEventLoopThread*.*` | `m_loop` (under `m_mutex`), `m_exiting`, thread | `startLoop`, `threadFunc`, destructor; pool `start`, `getNextLoop` | creates a loop in a new thread and stops it |
| TimerQueue, Timer, MinHeap | `time/Timer*.*`, `ds/MinHeap.h` | heap of `Timer*`, set of active `(Timer*, sequence)` | `addTimer`, `cancel`, `expiredProcess` | callbacks add and cancel timers; other threads go through `queueInLoop` |
| Channel, SelectPoller | `net/Channel.*`, `net/SelectPoller.*` | `m_events`, `m_index`; `m_pollfds`, `m_channels` | `enable*`/`disable*`, `remove`, `updateChannel`, `removeChannel`, `poll` | loop thread only |
| TcpConnection, TcpServer, Acceptor | `net/TcpConnection.*`, `net/TcpServer.*`, `net/Acceptor.*` | `m_state`, buffers; `m_connections` | `send`, `shutdown`, `forceClose`, `handleRead/Write/Close`, `connectEstablished`, `connectDestroyed`; `newConnection`, `removeConnection` | base loop, I/O loops and user threads, by `runInLoop`/`queueInLoop` |
| Connector, TcpClient | `net/Connector.*`, `net/TcpClient.*` | `m_state`, `m_connect`, `m_channel`, `m_retryDelayMs` | `start`, `stop`, `restart`, `connecting`, `retry`, `handleWrite/Error` | retry timers, queued `resetChannel` |
| KcpTcpEventLoop, KcpWithTcpServer, KcpConnection | `net/Kcp*.*` | `m_tcpConnections`, `m_kcpConnections`, `m_addrConns`, `m_crypts`; connection state and timers | TCP accept, UDP handshake, KCP messages, removal of either side | base loop and I/O loops, UDP datagrams |
| KcpWithTcpClient | `net/KcpWithTcpClient.*` | `m_tcpConnection`, `m_kcpConnection` | `connectTcp`, `handleTcpMessage`, `handleUdpMessage`, removal | handshake with the server |
| AsyncLogging, LogFile | `log/AsyncLogging.*`, `log/LogFile.*` | current, next and full buffers under `m_mutex` | `append`, `threadFunc`, `start`, `stop` | any thread appends, one thread writes |
| ThreadPool, Thread, CountDownLatch, Condition | `thread/*` | task queue, `m_running` | `run`, `take`, `stop`; `start`, `join`; `wait`, `countDown` | worker threads |
| Buffer, codec | `net/Buffer.*`, `net/Codec.h` | reader and writer index over a vector | `append`, `retrieve`, `prepend`, `ensureWritable`, `shrink`, `readvFd`; `send`, `onMessage` | owned by a connection |
| KCP | `src/3rd/kcp/ikcp.*`, driven by `net/KcpConnection.*` | control block: four queues of segments, windows, probe flags, timers | `ikcp_send`, `ikcp_recv`, `ikcp_input`, `ikcp_update`, `ikcp_flush` | loop thread only; UDP |
| the rest | `base`, `io`, `process`, `string` | none of their own | | |

What makes each of them correct:

* EventLoop: a functor is executed at most once, in the order queued, in the
  loop thread, and soon; `quit` stops the loop; the destructor loses nothing.
* EventLoopThread: `startLoop` returns the loop of the new thread; the
  destructor ends that thread.
* TimerQueue: heap and active set hold the same timers; no timer runs early,
  after its cancellation, or through a freed or reused address.
* SelectPoller: index, slot and map agree for every registered channel, and no
  callback takes a channel away from the batch it is in.
* TcpServer: every accepted connection is established and destroyed once, each
  in its own loop; close is reported once, after all data that arrived.
* KcpWithTcpServer: the four tables agree with each other and with the state of
  the connections, whichever of the two transports ends first.
* TcpClient, KcpWithTcpClient: one attempt or connection at a time; `stop` holds;
  a client that may retry connects again; TCP and KCP end together.
* KCP: what was sent arrives once and in order, whatever UDP does; the windows hold;
  nobody waits for ever.
* Buffer and codec: no byte is lost or moved, and the messages that come out are those
  that went in, whatever the pieces.
* AsyncLogging: no entry is lost or reordered except those it says it drops.
* ThreadPool: a task runs once; `stop` ends every worker.

## 2. Plan

In this order, the most important behaviour first.  Done:

1. `EventLoop`, which implements the abstract `TaskQueue`; proofs.
2. `EventLoopThread`: start, quit and join of several loop threads; proofs.
3. `TimerQueue`, and `MinHeap`, which implements the abstract `PriorityQueue`; proofs of
   both in `TimerQueueProofs`.
4. `SelectPoller` and `Channel`, with proofs.
5. `TcpServer`: acceptor, server and the life of connections over a base loop,
   I/O loops and user threads; `TcpConnection`: the data of one connection,
   which implements the abstract `ByteStream`; proofs about both.
6. `KcpServer`: the tables of the KCP server, handshake and removal, with proofs of its
   safety.
7. `AsyncLogging` over `LogFile`, with proofs.
8. `Kcp`: the protocol between two ends, which implements `ByteStream` too, with proofs.
9. `Connector`, and `Client` over it: `TcpClient` and `KcpWithTcpClient`, with proofs of
    their safety.
10. `Buffer`, and `Codec` over it: messages through the buffers of two connections,
    with proofs.

Left, in this order:

11. `Acceptor`'s spare descriptor (which another thread may take away between `close`
    and `accept`, after which a client that cannot be served keeps the loop busy),
    and the destruction of `KcpWithTcpServer` with live connections.
12. `ThreadPool`, which the library itself does not use.

## 3. Modules

One action stands for one stretch of code between two points at which another
thread can be seen, that is, between lock and unlock, before and after a write
of a variable that several threads read, or between two callbacks of one loop.
What runs inside one mutex is one step; what a loop thread does alone between
two functors or events is one step where no other thread reads or writes
anything of it.  Variables carry the names of the source without `m_`;
variables that the program does not have are histories or the program counter
of a thread, and are commented so.

**TaskQueue.tla** (abstract).  Functors are queued once and executed at most
once, in order; the queue may end with some of them left.

**EventLoop.tla** refines it.  `phase` is where the loop thread is: the test of
`m_quit`, poll, event callbacks, timers, functors, the destructor.
`queueInLoop` is two steps, `QueueInLoop` (under `m_mutex`) and `Wakeup`, because
another thread's `wakeup()` comes after the unlock and reads `isInLoopThread()`
and `m_callingPendingFunctors` there.  The wakeup descriptor is a counter up to
`WakeupCapacity`; a read takes it to zero (`eventfd`) or takes one (the socket
pair of Windows, where `recv` reads 8 bytes).  Callbacks of all kinds may queue
functors, arm timers and call `quit`.

**EventLoopThread.tla**.  The owner constructs a pool of `N` threads, starts
them one after another, may use them, and destroys them in order; each thread
goes through `Thread::start`'s latch, the construction of the loop, the
publication of `m_loop` under the mutex, `loop()` (which resets `m_quit`), and
the end, where it sets `m_loop` to null under the mutex.  The two accesses of
the destructor to `m_loop` are without the mutex, as in the code.

**TimerQueue.tla**.  Timers are objects at addresses; an address is reused as
soon as its timer is deleted, which is why a `TimerId` also has a sequence
number.  The heap is the set of its addresses (what it returns is a least one
by expiration, whichever).  `addTimer` and `cancel` from other threads go
through `pending`, the queue of the loop; from callbacks, they act at once.  The
`addTimer` of another thread is two steps, `AddTimer` and `ReadId`: it queues the Timer
and reads its number afterwards, when the loop may be done with it.  `ids` are the
`TimerId`s handed out, each with the timer it is meant for.  A pass of
`expiredProcess` is split around each callback.

**MinHeap.tla** shows the heap itself, one iteration of `shiftUp_` or
`shiftDown_` per step, with the capacity that doubles and each element's
`min_heap_idx`.  It refines **PriorityQueue.tla**: a set from which `pop` takes
a least element and `erase` the named one.

**SelectPoller.tla**.  `m_pollfds`, `m_channels`, the index and the life of each
channel object; `select` reports a subset of what is asked for, the batch is
handed to the channels one callback at a time, and a callback may construct, enable,
disable, remove and destroy any channel, its own, one of the batch or another, in
any state.  What an assertion of the code catches ends the run: with the fault
`owner` where it is the call itself that is refused (`Channel::remove` of a channel
that asks for something, `EventLoop::removeChannel` of one of the batch, a use of one
that has been removed, `~Channel` of one that is registered or in its callback), and
with `assert` where the tables themselves are wrong, which the properties exclude.  The
build is the one with assertions, CMake's default here (CMakeLists.txt:5).

**TcpServer.tla**.  Loop 0 is the base loop; with `numThreads = 0` it also
serves the connections, otherwise loops 1..numThreads do, in turn.  Each loop
has a queue of functors (`connectEstablished`, `removeConnection`,
`connectDestroyed`, `closeInLoop` ...), which it executes one per step; each
connection has its state, its channel and the references that keep it alive
(table, functors, the handler that runs).  `SetState` is split from the call
it belongs to, since `m_state` is tested and assigned in the caller's thread.
`~TcpServer` runs in the base loop and then joins the I/O loops, whose
destructors run what is still queued.

**TcpConnection.tla**.  One established connection: `send`, `shutdown` and the
close from the loop and from other threads, `sendInLoop`, `handleWrite`,
`handleRead`, `handleClose`, the high-water mark and write-complete callbacks,
and a kernel buffer of `Capacity` bytes that takes any part of what it is
offered.  A byte is named by the thread, the number of its message and its
place in it, so that loss, repetition and mixing can be told.  It refines
**ByteStream.tla** (abstract): a stream that is extended by whole messages, none of which
is in it already; what the other side has got is a beginning of it and only grows; and it
ends after all of it was got unless it is abandoned.  No two bytes of the messages are the
same one, so that a functor executed twice or a message delivered twice breaks it.

**KcpServer.tla**.  A client is a TCP connection and, after a handshake over
UDP, a KCP connection in one I/O loop (which may be the base loop).  The four
tables of `KcpTcpEventLoop` (`m_tcpConnections`, `m_kcpConnections`, `m_crypts`,
`m_addrConns`) and the server's `m_connections` are changed by the TCP
callbacks, by datagrams of known and unknown addresses, by functors of both
loops, and by the user's `forceClose` and `forceCloseWithDelay` of either
connection.  An address of UDP goes by the first client that had it: two
clients may have the same, one after the other or at once.  Failed assertions
are recorded in `fault` and do not end the run (the library is also built
without them); the use of a freed connection does.

**Kcp.tla**.  Two ends, each with the control block of `ikcp.c` (`snd_queue`, `snd_buf`,
`rcv_buf`, `rcv_queue`, `una`, windows, congestion window, acknowledgements to send, probe
flags), and two directions of UDP that lose, double and reorder whole datagrams.  An
action is a handler of `KcpConnection`: `sendInLoop`, the update timer with
`ikcp_update` and `ikcp_flush`, a datagram with `ikcp_input` and the one
`ikcp_recv` that follows it.  Bytes are numbers, a segment holds at most `Mss` of
them, and `ikcp_flush` packs segments into datagrams of the mtu as the code does.
Time is abstracted: any segment in `snd_buf` may be overdue at a flush.  It refines
`ByteStream`, with the stream read off the queues, buffers and windows of both ends.

**Connector.tla** is operators on a record, one for each function of the class:
attempts, `retry` with a delay that doubles, `stop`, `restart`, the channel that is
removed at once and reset by a functor.  **Client.tla** composes it with the loop
(timers, then events, then functors, with the batch swapped as in
`doPendingFunctors`), the connection, which may be made again when it ends, the KCP
connection that goes with it, and a user's thread that calls `connect`, `disconnect`,
`stop`, `forceClose` of KCP and the destructor.  `kind` chooses between
`TcpClient` and `KcpWithTcpClient`.  Calls that write `m_connect` of the client and then
call the connector are two steps.

**Buffer.tla** is operators on a record: the vector `cells`, the two indices and
`sound`, which an assertion that fails makes false.  `makeSpace` wraps or grows,
`shrink` swaps with a copy, `readvFd` reads past the room there is into `extrabuf`.
**Codec.tla** sends messages through two of them and a kernel with little room;
`onMessage` is split at the callback, which may shrink the buffer that is being
read.  Its refinement is to `ByteStream` with numbered messages in the place of bytes.

**LogFile.tla** is operators on a record: append, flush (every `FlushInterval` or
when stdio's buffer is full), and `rollFile` by day and by size.  A file has the name
of the second in which it is opened, as in the code.  **AsyncLogging.tla** extends it.
A line is its number.  `append` is one step (it holds `m_mutex`).  The logging thread
is split where it tests `m_running`, where it waits, where it swaps the buffers under the
mutex, where it drops what exceeds 25 buffers (`DropOver`) and writes the notice of that,
at each buffer it writes (which may fail in part, or roll the file), and where it takes
two buffers back and flushes.

**MC\*.tla** only give bounds: no state constraint is used, since the bounds
are in the guards of the modules, and an MC module defines the values that a
configuration file cannot write.  **\*Proofs.tla** hold the theorems, each about
the module it is named after.  Three have a second subject: `EventLoopProofs` has the
theorems about `EventLoopThread` and `SelectPoller` too, `TimerQueueProofs` those about
`MinHeap`, `KcpProofs` those about `KcpServer`.

## 4. Runs

| Run | Bounds | Why they are enough |
|---|---|---|
| `event_loop` | 2 functors, 2 other threads, 1 timer, wakeup counter of 2, one wakeup per read | two functors show order and a second queueing while the first is executed; two threads can both be between `QueueInLoop` and `Wakeup`; the counter can be full |
| `thread_pool` | 3 threads | a first, a middle and a last one to start and to destroy |
| `timer_queue` | 2 addresses, 3 timers, 1 other thread, time 0..1, 2 queued functors | the third timer must reuse an address while ids of the earlier one are still around, or while the thread that made the earlier one has yet to read its number; a timer repeats once |
| `min_heap` | 8 elements with equal keys, 7 in the heap, capacity 2 | three full levels: `erase` goes up as well as down; the array grows twice |
| `select_poller` | 3 channels over 2 descriptors | a swap with the last slot, a descriptor used again while its last channel still exists, an address used again in the middle of a batch that its first channel was in |
| `tcp_server` | 0 or 1 I/O loop, 1 other thread, 2 connections, 1 functor from users | the two connections can be in different phases of each other's handlers; base and I/O loop are the same or different |
| `tcp_connection` | 2 threads, 2 messages of 2 bytes each, kernel buffer of 2, high water 3, 1 byte from the peer | a message is cut in the middle, the mark is crossed from both sides, two threads send at once |
| `kcp_server` | 2 clients, 2 calls by users | a client and another one in mid-handshake, or of the same address; a call on each of the two connections |
| `kcp` | one end sends 3 messages of 1 or 4 bytes in segments of 3, windows of 2, three losses, copies or overtakings, a receive buffer of 3; both `KcpSettings`, scaled | messages that share a segment, one that takes two, and one with too many fragments; segments of 1 and 2 bytes arrive, one of 3 and a datagram of two segments are cut; three faults are what it takes to shut the window (a segment overtaken or lost fills `rcv_queue`), to lose the datagram that opens it again, and to lose the probe that follows; both happen with data waiting in `snd_queue` and nothing else on the way |
| `client` | both classes, 2 starts, 2 other calls, delays of 1 and 2, 2 connections at once | `connect` after `connect`, `stop` or `disconnect`; an old connection that is not yet gone while a new one is made; the delay reaches its limit |
| `codec` | 3 messages of no, 3 or 5 bytes, header of 2 numbers of base 3, buffers of 2 that grow, kernel of 2 bytes, `extrabuf` of 2, 1 shrink | an empty message; one whose length does not fit and is read as negative; a header cut in two; a read into room, past it, and past `extrabuf`; wrapping and growing |
| `async_logging` | 6 lines, buffers of 2, drop over 2, files of 2 lines, days of 2 s, clock up to 4, flush after 1 s | both spare buffers used up, more buffers than the limit, lines appended during the write and after `stop`; a file changes by day, by size, and twice in a second |

What they show:

* **event_loop.**  `NothingForgotten`: the loop does not sleep on a functor or a
  `quit`, whoever it comes from, even when one read takes only one wakeup and
  when the wakeup is written before the functor is looked at (a timer callback
  that queues is left out, see section 7); and what was queued before the destructor
  is executed by it.  `ImplementsTaskQueue`; `RequestsServed`: a functor is
  executed and `quit` ends `loop()`.
* **thread_pool.**  `Sound`: what `startLoop` returns is a running loop, and neither
  side uses an object the other one has destroyed, as long as only the owner ends
  loops.  `NothingHangs`: under the same condition starting the pool returns, and a
  loop that is asked to quit while it runs ends, and its thread too.
* **timer_queue.**  `TimersAccounted`: heap and active set hold the same timers
  (TimerQueue.h:83-85), no Timer leaks or is owned twice, and none is used after its
  deletion, but by an `addTimer` that reads the number of a Timer that is over (section 6).
  `CancelExact`: an id names the timer it is for or, read too late, a younger one; a timer
  that a cancel found never comes back, one nobody cancelled stays until it has run, a
  stale id hits nothing.  `RunsAsAsked`: none runs early or,
  unless it repeats, twice; a repeating one stays; a pass ends.
* **min_heap.**  `WellFormed` (order, indices, capacity) between two calls and
  `ImplementsPriorityQueue`.
* **select_poller.**  `ChannelsAgree`: index, slot and map tell the same, and no channel
  is looked up in vain or used after its end.  `BatchRegistered`: whatever the callbacks
  do, the loop has no removed or destroyed channel ahead of it in the batch, nor one
  with the events of another; without the assertion of `EventLoop::removeChannel`, in a
  build with `NDEBUG`, it would, which is what the mutant shows.
* **tcp_server.**  `TableAgrees` (table, base queue and state of a connection tell the
  same story), `LifeInOrder` (one UP, one DOWN, one destruction, in this order),
  `ConnectionsSettle` (an accepted connection comes up, a queued `forceClose`
  brings it down, and what is down leaves table and poller).  `Sound` says which
  assertions can fail, and after what.
* **tcp_connection.**  `SendingAgrees` (output buffer, write interest and callbacks; the
  messages of one thread stay in order and are there once), `ImplementsByteStream`, `DataServed`
  (accepted data is taken, a half close happens and what arrives is handed on,
  unless the connection is closed or reading is stopped).
* **kcp_server.**  `TablesAgree` gives the exact membership of a client in the four
  tables between two handlers; `Sound` the assertions that can fail and what
  must have come before; `EndTogether` that the end of one connection brings
  about the end of the other.
* **kcp.**  `WindowsHold`: no more than `snd_wnd` is on the way, what is acknowledged
  is at the other end, `rcv_buf` and `rcv_queue` keep within `rcv_wnd`.
  `ImplementsByteStream`: the callbacks get the bytes `ikcp_send` accepted, in order and
  once.  `AllAcknowledged`: all of them are acknowledged in the end, also when the datagram
  that opens a shut window and a probe are lost (without probing it fails), unless one of three
  things stops the sender for good: a datagram that the receiver's buffer cuts, a segment
  greater than the room in `m_inputBuffer`, or an abort (section 7).
* **client.**  `OneAttempt`: state, channel and queued `resetChannel` agree, and with one
  `connect` there is one attempt, retry, start or connection at a time.  `StopHolds`: no
  connection is made after `stop`, unless `restart` undoes it.  `EndTogether`,
  `Connects` (left alone, a client that may retry connects again and again), and `Sound`:
  which assertion can fail, which destroyed object can be used, and after which call.
* **codec.**  `WellFormed` (the assertions of `Buffer`, indices in order), `BytesKept` (no
  byte lost, doubled or moved), `ImplementsMessageStream`, `AllDelivered` (a message
  before one that is too long is delivered, and that one closes the connection).
* **async_logging.**  `BuffersSuffice` (the assertions of `threadFunc`), `LinesInOrder`
  (each line once and in order over all files, what the FILE and the buffers still hold
  included, or dropped with its buffer, or refused by `fwrite`), `FilesRoll` (a line goes
  to a file of its day that is at most a buffer too long), `LinesWritten` (a line
  reaches the disk unless `stop` is called before the thread's next look at the buffers, and `stop`
  returns).

Deadlock is checked only for the heap: all others may stop, because a loop or a
thread ends, because the bounds are used up, or because nobody has to call.

### Fairness

Only what a scheduler, a timer and a level-triggered poll give is assumed: a thread
that can take a step of its own takes one.  What users, peers, clients and callbacks
may do is not owed, except where it is said.

* `EventLoop`: WF of the loop thread, with the exception that poll is not assumed
  to return by itself, neither after its 10 s nor for other I/O: liveness must
  come from the wakeup.  WF of `Wakeup(u)`: a thread that has queued goes on to
  the next statement.
* `EventLoopThread`: WF of each thread and of the owner, except that the owner
  need never destroy the pool.
* `TimerQueue`: WF of the loop thread while it is inside a pass; timers are not
  assumed to become due, nor queued functors to be executed.
* `TcpServer`: WF of each loop's functors and of the second half of a user's
  call.  `TcpConnection`: in addition, events that are ready are reported
  (select is level triggered) and the peer reads.  `Codec`: both ends serve their
  events, and `onMessage` ends.
* `KcpServer`: WF of the functors of each loop, of the delayed close (a timer of a
  running loop expires) and of the second half of a user's call.
* `Kcp`: WF of the update timer at a time when all segments are overdue and the probe is
  due (`resendts` and `ts_probe` are passed in the end, since the timer is armed again and
  again), written with the predicate `CanUpdate` for ENABLED, and UDP is fair: a
  direction is empty again and again, or datagrams go on arriving.  Losing and doubling
  are bounded.
* `Client`: WF of the loop's turn and of the second half of a call; SF of the retry timer,
  of poll reporting the attempt, and of its success: a server that is always asked again
  answers once.  Only `Connects` needs the last one.
* `AsyncLogging`: WF of the logging thread, whose wait has a timeout
  (`m_flushInterval`), and of `join`.
* `MinHeap`, `SelectPoller`: none; their properties are safety.

## 5. Proofs

All are for every value of the constants that satisfies the module's named
assumption (types of the constants, and that the "nothing" values are none of
the others).  Beyond that only sets are assumed finite that are finite in a program:
the channels and descriptors of `SelectPoller`, the users' threads of `TcpServer`, the
lengths of messages in `Kcp` (a length is an `int`).

**EventLoopProofs.**  `TypeCorrect`; `NeverAsleep`; `DestructorComplete`; from both
`NeverForgets`, which is `NothingForgotten`; `LoopImplementsTaskQueue`.
`NeverAsleepOnWork` is not inductive: it speaks of the
loop in poll, and what makes it true happened before.  `WInv` and `QuitInv`
say, for every phase, who still owes the wakeup: a functor in the queue means a
wakeup in the descriptor, or a thread between `QueueInLoop` and `Wakeup`, or that the
loop will pass `doPendingFunctors` before it polls, or that functors are being
called (and the caller will see `m_callingPendingFunctors`).  `KInv` says
which functors existed when the destructor began and that they are executed or
in the queue.  The refinement maps each step to a step of `TaskQueue` or a stutter;
the batch being executed followed by the queue is the abstract queue.

`PoolSound` is `Sound` of `EventLoopThread`, for any number of threads.  `PoolInv` adds
how far the owner has got and which threads it has started by then (`OwnerInv`), and for
each thread (`ThreadInv`) when its loop is published, and that a loop ends only if its
own code quits it or the owner has asked it to (`AskedToQuit`).

The third part is about `SelectPoller`: `PollerTypeCorrect`, `SlotsAlwaysAgree`,
`NeverFaults`, the last two together as `AlwaysAgree`, and `BatchStaysRegistered`.  Its
invariant says besides that a descriptor is in `m_channels` only for a registered channel
of that descriptor (`MapInv`) and that channels in use differ in it (`FdInv`).  Every call
of an owner either passes the assertions that are about it, and then all the others
hold, or ends the run with the tables as they were (`FailsKeeps`).

**TimerQueueProofs.**  `Core`, the greater part of `IInv`, has a part for the active set,
the heap, each of the two kinds of queued functors, the running pass and the
histories: every address in use is owned by exactly one of them, sequence
numbers are unique and bounded by the counter, and a timer found by a cancel
is nowhere.  `AddingInv` and `IdsInv` are about the ids: the Timer whose number a thread
has yet to read is there still or is over, and a number names at most the Timer it
was given to or a younger one.  From it `TypeCorrect`, `ContainersAgree`, `NeverFaults`, `OneOwner`, the last
three together as `AllAccounted`, and `CancelIsExact`.  With what has run besides (`RanInv`: a
timer that has run and does not repeat is gone or in its callback) and the clock of a pass
(`PollInv`), `TimersRunOnTime` and `RepeatingTimersStay`, the two action properties in
`RunsAsAsked`, whose third part is liveness.

Its second half is the heap: `HeapTypeCorrect`, `HeapWellFormed`,
`HeapImplementsPriorityQueue`.
Inside the loops the array is a heap except around the hole: `OrderInv` says that
it is ordered if the hole is skipped (each child of the hole is not less than the
parent of the hole, and the element in hand fits on the side it has come from),
`PlaceInv` that indices agree except at the hole, `PopInv` that what
`pop` returns was least.  The step lemmas are arithmetic about parent and children.

**AsyncLoggingProofs.**  `TypeCorrect`, `AssertionsHold` and `FilesAreRolled`.
`BuffersSuffice` says that the thread gets two buffers back from what it writes; that
there are two follows because the spare is given away only when a full buffer was put in
front (`SpareUsed`), and the thread never writes before it has started (`NotStarted`).
`FilesRoll` is an action property: the invariant says that what is in hand has no more
lines than a buffer, and that the period that is kept is the one of the file's name.

`LinesAlwaysInOrder` is about the concatenation of all files, the FILE, and the buffers
of three owners.  Two lemmas take it apart: the lines of a concatenation are those of its
parts, and it is in order if its parts are and all of the first come before all of the
second (`LinesInConcat`, with `LinesOfConcat` for one chunk); both are about indices and
need no induction.  `LogInOrder` is the same for a log by itself (files after the open one
are empty), kept by each operator of `LogFile`.  `OrderInv` then says for every state that
log, buffers ahead, filled buffers and the current one are in order and behind each other
(`Ordered`), and that they, what was given up and what was refused are all that was
appended and have nothing in common (`Complete`).

**CodecProofs.**  `BuffersWellFormed` and `NoByteLost`, for every size of the buffers, of
the prefix, of the header and of messages.  First one lemma for each operator of
`Buffer`: under `InUse` (indices in order, within the vector) it keeps `InUse` and
changes the contents as its name says; `WrapFacts` and `ResizedFacts` are the two ways
of `makeSpace`.  The inductive invariant is the two properties together, with the length
of the message in hand; its step lemmas only cite those of the operators.

`CodecImplementsByteStream` needs more than bytes: where packets end.  `MessagesKept` says
that there are ends, one after the other, such that the bytes between two of them are
the packet of one message (`Packets`), and that the receiver stands at one of them, with as
many messages behind it as it has handed on (`Received`).  A prefix that is read is then the
prefix of a message that was sent, and the message that is cut out is that one.  The
messages are numbered as sent, so that one handed on twice would not be the next one.

**TcpConnectionProofs.**  `TypeCorrect`, `SendingAlwaysAgrees` and
`ConnectionImplementsByteStream`, for any threads, messages, capacity and mark.
`QueueInv` says of the queued functors what was true when they were queued and still is
(a `sendInLoop` of a thread holds the messages after those already sent, in their order),
`ShutInv` who may still shut down, and four parts of `OrderInv` are for the refinement:
what of each thread is in the stream and in the queue adds up to what it has sent
(`StreamCounted`, `QueueCounted`), queued sends are in the order of the calls
(`QueueOrder`), and the stream has the first of them (`StreamFirst`).  All comparisons are
strict: so the message that `sendInLoop` adds is new to the stream (`FreshMessage`).

**TcpServerProofs.**  `ServerSound` (`Sound` with its named exceptions), `TableAlwaysAgrees`
and `LifeAlwaysInOrder`, for any number of loops, connections and users' threads (the
threads are finitely many, as the assumption says, because functors are counted).  The
invariant puts every connection at one stage, unborn, pending, up, down or worn out, and
says for each how many functors of each kind are under way for it, in which loop, and which
is first; how table, state and channel stand follows from the stage.  That life is in
order is an action property: a step takes the histories of a connection one phase
forward (`Forward`), and what is destroyed does not come back (`GoneForGood`).

**ClientProofs.**  `ClientSound` (`Sound`, each failure with its cause),
`OneAttemptAtATime` and `StopAlwaysHolds`, for both clients, any delays and any numbers of
calls and connections.  The invariant speaks of what waits in the loop, `Q`: the rest of the
batch and then the queue, and of nothing after a failure, since the run ends there.
`AttemptInv` ties a removed channel to the one `resetChannel` that is queued for it,
`ResetInv` says that this functor runs before the new connection can end and
`restart` finds the channel (`assert(!m_channel)`), `TableInv` and `DestroyInv` that the
client knows the one open connection and that no functor outlives its object.
`OneInv`, `FirstInv`, `ForcedInv` and `OtherInv` are for one `connect`: no retry
is set while there is an attempt or a connection, and a close of an old KCP connection is
run before there is a new TCP connection (`Harmless`), so it cannot close that one.
`KcpInv` is for clients nobody closes, `StopInv` for `stop`.  The lemmas about functors
are two: one that is queued adds itself behind all others (`AppendAdds`), one that runs
takes itself away and disturbs only the part it is there for (`TakenFacts`); what is in
front of what is kept as a relation (`NotAhead`), so that no induction is needed.
`CloseKeeps` is the longest: `handleClose`, common to the peer's close and to `forceClose`.

**KcpProofs.**  `KcpTypeCorrect`, `WindowsAlwaysHold` and `KcpImplementsByteStream`, for
any windows, sizes, modes and messages, and a network that loses, doubles and reorders.
The operators of the model are recursive functions; what they compute, and that a step of
an end leaves the rest alone, is proved by induction over sets of arguments
(`SetInduction`).  That windows hold does not follow from one end alone: that
nothing is received which was not sent, and nothing acknowledged which was not received,
needs the segments on the way.  So `KcpIInv` is stated for both directions of the
connection.  `End`: each end by itself; `Agree`: what a sender no longer holds is at the
receiver, and what both hold is the same; `PushOk`, `AckOk`: a segment on the way has
arrived before or is still held, an acknowledgement is of something received; `Moved`:
`rcv_buf` moves on as soon as it can; `Sent1`: what is in `snd_buf` has been sent.

For the refinement `Chain` is all that an end has accepted and the other user has not got:
the receiver's queue, what lies between `rcv_nxt` and `snd_nxt`, wherever it is held, and
the sender's queue.  Each operation of the protocol keeps its concatenation (`Kept`), `send`
puts a message at its end, `recv` takes from its front; together with what the user
has got this is the abstract stream.  Its bytes are numbered up to what the end has been
given (`BytesNumbered`), so that a message accepted is new to it.

The second half of `KcpProofs` is `KcpServer`: `ServerSound` (`Sound` with its named
exceptions) and `ServerTablesAgree`, for any number of clients and of calls.  `TablesAgree`
is not inductive, since it says nothing of what is queued.  `ServerIInv` does: each functor
that moves a TCP connection on waits once (`QueuesOnce`); which of them owes the next
phase (`TcpLife`); a KCP connection is in its table from the handshake to its first close,
and its secret in another to the end of TCP or that close (`KcpLife`); what only a user's
call explains, such as a close that has been asked for or one that is overwritten by
another (`UserLife`); addresses lead to clients in both tables, and an address of one
client alone leads back (`AddrsLead`).  `assertVessels` compares sizes of tables: they
are equal because addresses and clients are in one-to-one correspondence when no other
client is in a part of the tables (`SameSize`, `VesselsFail`).

Every invariant of the runs is stated by a theorem, and so is every action property and
refinement.  Not proved, only model-checked, is liveness: `RequestsServed`,
`NothingHangs`, the part of `RunsAsAsked` that a pass ends, `ConnectionsSettle`,
`DataServed`, `AllAcknowledged`, `EndTogether` of `KcpServer` and of `Client`, `Connects`,
`AllDelivered`, `LinesWritten`.  The prover has neither ENABLED nor the rules for
fairness that such proofs need.

## 6. Where the code disagrees with what it says

* `loop()` resets `m_quit` (EventLoop.cpp:92).  A `quit()` that falls between the
  publication of `m_loop` and `loop()` is forgotten, and `~EventLoopThread` joins for
  ever; `startLoop` and the destructor read as if every loop that is published could
  be ended.  `NothingHangs` says "while it runs" for that reason.
* `addTimer` "must be thread-safe, can be called across threads, and usually is called by
  other threads" (TimerQueue.h:37-38).  It queues the Timer and then reads
  `timer->sequence()` (TimerQueue.cpp:58-59).  The loop thread may have run and deleted the
  Timer by then: the read is a use after free or, if the address is in use again, gives
  an id that names another timer, which a later `cancel` then hits.  `NoFault` and
  `IdsName` of `TimerQueue` name this exception.
* `cancelInLoop` calls `erase` inside `assert` (TimerQueue.cpp:85).  Without assertions the
  heap keeps a Timer that is deleted, against TimerQueue.h:83-85.
  `TimerQueue` has the build with assertions.
* `m_state` is tested and assigned in two steps by another thread
  (TcpConnection.cpp:192, "FIXME: use compare and swap"); a close in between
  is undone, reported a second time, and the second removal fails
  `assert(n == 1)` (TcpServer.cpp:100).  `Sound` of `TcpServer` names this exception
  (`misused`).
* The name of a log file is made of local time where the comment says UTC
  (LogFile.cpp:111-112), while the day ends in UTC (LogFile.cpp:67): away from UTC a file may
  hold lines of two days by its name.

## 7. Behaviours the models include, which a reader may not expect

The properties are stated so that they hold with these; each is an exception
named in the module.

* Loop: `queueInLoop` called by a *timer* callback writes no wakeup
  (EventLoop.cpp:160-165), since the loop thread is not calling functors; the
  functor waits for the next event or the poll timeout, unlike one queued by an
  event callback, which is followed by `doPendingFunctors` in the same round.
* `startLoop` waits while `m_loop` is null; a loop whose own code ends it before the
  owner has looked sets it back to null, and the owner waits on.
* Timers: a repeating timer that cancels itself in its callback is not found in
  the active set and is armed again (TimerQueue.cpp:118; EventLoop.h:73).
  `addTimer` from another thread is only queued, so that a `cancel` of the loop thread
  can overtake it and hits nothing (TimerQueue.h:40-42).
* Poller: the test for `kNoneEvent` (SelectPoller.cpp:36) is never true for a channel
  that asks for anything, and the index of a removed channel keeps its value, so that
  enabling it again fails an assertion (SelectPoller.cpp:129).  `disableAll` registers a
  channel that was never enabled.  EventLoop.cpp:212 compares addresses: a channel made
  where one of the batch was cannot be removed before the batch ends.
* TcpConnection: bytes that arrive with the FIN in one round are read into the buffer
  but not given to the message callback.  The message callback can run after
  DOWN.  `sendInLoop` and `shutdownInLoop` are queued with a raw `this`.
  `connectDestroyed` accepts `kDisconnecting`.  A removal that an I/O loop asks for
  while `~TcpServer` waits uses the server after its destruction ("FIXME:
  unsafe").
* KCP server: `assertVessels` (KcpTcpEventLoop.h:157-163) expects equal sizes
  of all tables, and fails when another client is between its TCP connection and
  its handshake.  A datagram between the close of TCP and its removal fails the
  assertion that TCP is connected (KcpTcpEventLoop.cpp:150).  The id of the
  first update timer is not kept (KcpConnection.cpp:352), so a connection that ends
  before it expires is not rid of it.  `forceClose` and `forceCloseWithDelay` leave a
  state that `kcpUpdateManual` asserts against.  A connection closed before it was
  established reports DOWN without UP.  A client that takes the UDP address of a
  closing client loses its entry in `m_addrConns`.
* KCP: `newKCP` passes `m_resend` as the send window (KcpConnection.cpp:367).  What
  is over the threshold of `sendInLoop` goes to `m_outputBuffer`, which nobody drains (:147);
  a message of 128 fragments aborts the program (:154).  A datagram is followed by one
  `ikcp_recv` (:378), so segments that came together wait for later datagrams.
  `m_inputBuffer` has 1024 bytes and grows only in the message callback: a segment or
  message greater than the room makes `ikcp_recv` return -3 from then on (:377).  The
  buffer a datagram is received into has 1024 bytes too (KcpTcpEventLoop.h:172,
  KcpConnection.cpp:285) while the mtu is 1400: a full segment is cut every time and never
  acknowledged.  `dead_link` sets a state nobody reads.
* Client: `connect` of a client that is connecting, waiting or connected fails an assertion
  (Connector.cpp:44, :132); `stop` then `connect` makes the queued `stopInLoop` retry, and
  the retry timer is not cancelled (Connector.cpp:59); `disconnect` does nothing to an
  attempt.  An error of the second kind (`EACCES` and others, Connector.cpp:111) is not
  retried.  A `stop` between the test of `m_connect` and `restart` is undone
  (TcpClient.cpp:162, Connector.cpp:125).  `disconnectTcp` then `connectTcp` lets the end of the
  old KCP connection close the new TCP connection (KcpWithTcpClient.cpp:200).  The
  destructor in another thread can meet `newConnection` or `removeConnection`
  (TcpClient.cpp:68), and destroys a KCP connection that is up, which asserts otherwise
  (KcpConnection.cpp:61).  KCP closed by the user and end of TCP in one batch destroys a
  channel that is active, which the assertion at EventLoop.cpp:212 catches where there are
  assertions.  A handshake that fails leaves KCP connecting with its timer
  cancelled (KcpConnection.cpp:322).
* Codec: lengths of more than `INT_MAX` are refused by the receiver; 4 GiB and more would
  wrap to a positive length, and are left out.
* AsyncLogging: `stop` loses the lines appended after the last swap; its `notify` is made
  without the mutex and may fall before the wait, so that it returns only after the
  flush interval.  A roll within the second in which the file was opened opens the same
  file again with `m_writtenBytes` 0, so that a file's size is not bounded by `rollSize`.
  Bytes that `fwrite` refuses are counted as written.

Known to matter, and in no property: `m_revents`, which is of the time of `select` and may be
stale when a later callback of the batch uses it (Channel.cpp:107); descriptors of
`FD_SETSIZE` and more (SelectPoller.cpp:42); `assert(nextTime >= curTime)`, which fails when
the 32 bits of milliseconds wrap (KcpConnection.cpp:271); `ThreadPool::run`, which tests
`m_queue` without the mutex and has the caller execute the first task of an empty queue
(ThreadPool.cpp:77).

## 8. Not modelled

* Round trip times and the clock of KCP (when a segment is overdue is left open),
  sequence numbers that wrap, conversion of segments to bytes, the contents of the
  handshake and encryption.
* `KcpServer` has the server's side of KCP connections and their timers only, `Client` the
  client's; the messages between them are what each can receive, in any order.
* Destruction of `KcpWithTcpServer` with connections in its tables.
* `Buffer`: typed reads and writes, `findCRLF`, `readFd` and `recvFrom` (one datagram or
  nothing).  `LengthHeaderCodec::send` of a `Buffer` in place, which would need an assumption on
  what precedes the buffer's data.
* `LogFile` shared by threads, names of files, `ReadSmallFile`; a clock that goes back.
* `ThreadPool`: the library does not use it.
* `TcpServer::start` and `listen`, accept errors and the spare descriptor, setters and
  statistics: one-shot or without effect on the rest.
* The hup and nval branches of `Channel::handleEvent`, which `SelectPoller`, the
  only poller there is, never raises.
* Relaxed memory: variables read without a lock (`m_quit`, `m_state`, `m_loop`,
  `m_running`) are read as of one moment; where a plain variable is tested and then
  assigned, the two are separate steps (one in `Client`, whose subject is elsewhere, except
  for `m_connect`).
* In `Client`, a retry delay and the second for which a destroyed client's connector is held
  are longer than one turn of the loop.
* Formatting of time and log lines, wrappers of system calls, string, file and
  process utilities, tests and examples.
