# swift-uv in TLA+

A verification project for [swift-uv](../src/README.md): the Swift wrapper
`UVCore` (a thread that runs a libuv event loop, an executor for Swift actors on
it, scheduled tasks, TCP), the sample server `UVServer`, and the vendored
libuv 1.49 below them, as far as its Unix part has control of its own.

Paths below are relative to `src/Sources/` unless they start with `src/`; `uv/`
stands for `Clibuv/src/`.

## 1. The system

### Components

| Component | Code | State it keeps | Operations | Modelled in |
|---|---|---|---|---|
| Wakeup of the loop | `uv/unix/async.c` | `pending` and busy flag, event in the eventfd or pipe | `uv_async_send` (any thread), `uv__async_io`, `uv__async_close` | `UVAsync` |
| Execution thread | `UVCore/UVExecutionThread.swift`, `UVCore/Jobs/` | loop, command queue, `isCancelled`, the lock `running`, `stop_flag` | start, main, cancel, join, submit, deinit; `handleJobs`, `stop` | `UVExecutionThread` |
| Command queue | `UVCore/Utilities/UVFIFOQueue.swift` | a deque under an `NSCondition` | enqueue, dequeue, waitForNextItem | `UVFIFOQueue`, `UVExecutionThread` |
| Executor | `UVCore/UVExecutor.swift` | a thread | enqueue, stop | `UVExecutionThread`; its promise is `SerialExecutor` |
| Scheduled tasks | `UVCore/Scheduled/` | a container of timers | submit in / at, run, stop, delete | `UVTimers` |
| TCP manager, servers, connections, writes | `UVCore/TCP/` | containers under ids, the objects, their `uv_tcp_t`, responses | listen, connect, read, write, close, release | `UVTcp` |
| Server actor | `UVServer/UVServer.swift` | an executor, its thread, continuations | start, deinit, read / write / close | `UVExecutionThread`, `UVTcp` (in part) |
| Values and casts | `UVError`, `UVTcpServerSetup`, `UVTcpBuffer`, `Utilities/*Representable` | none or a buffer | conversions, iterator | not modelled |
| libuv timers | `uv/timer.c`, `heap-inl.h` | heap, `timer_counter`, `loop->time` | start, stop, run, next timeout | `UVTimers`, `UVHeap` |
| Loop core | `uv/unix/core.c`, `uv-common.c` | phase, `stop_flag`, closing handles, watchers | `uv_run`, `uv_close`, `uv_walk`, `uv__io_start/stop/close` | `UVExecutionThread`, `UVTimers`, `UVWatchers` |
| Poll | `uv/unix/linux.c`, `kqueue.c` | epoll set / filters, the batch of events | `uv__io_poll`, `uv__platform_invalidate_fd` | `UVWatchers`, `UVKqueue` |
| Streams | `uv/unix/stream.c` | write queue, flags, accepted descriptor | read, write, shutdown, accept, close | `UVStream`, `UVListen`, `UVSelectThread`; promise `StreamWrites` |
| UDP | `uv/unix/udp.c` | queues of datagrams | send, receive, close | `UVUdp` |
| Thread pool | `uv/threadpool.c` | queues, two mutexes, idle count | submit, worker, cancel, done, cleanup | `UVThreadPool` |
| Barrier, semaphore | `uv/thread-common.c`, `unix/thread.c` | counters under a mutex | wait, destroy; wait, post | `UVBarrier`, `UVSemaphore` |
| Signals | `uv/unix/signal.c` | tree of handles, pipe, counts | the handler, start, stop, close, dispatch | `UVSignals` |
| Processes | `uv/unix/process.c` | list of children; descriptors of a child | spawn, wait, close; `uv__process_child_init`, posix_spawn | `UVProcess`, `UVSpawnStdio` |
| File watching | `uv/unix/linux.c` (inotify), `fsevents.c`, `kqueue.c`, `fs-poll.c` | watch lists; a second run loop; contexts | start, stop, events | `UVFsEvent`, `UVFsEvents`, `UVKqueue`, `UVFsPoll` |
| Idle, prepare, check | `uv/unix/loop-watcher.c` | a queue each | start, stop, round | `UVLoopWatchers` |
| io_uring | `uv/unix/linux.c` | two rings shared with the kernel | submit, poll | `UVUring` |
| Addresses, names | `uv/inet.c`, `idna.c` | none | both directions of an address; UTF-8, Punycode, UTF-16 | `UVInet`, `UVIdna` |
| fs, dns, tty, pipes, other kernels, Windows | rest of `Clibuv` | | | not modelled, section 6 |

External to the repository, and modelled only as far as the code above uses
them: `Thread`, `NSLock`, `NSCondition`, `Deque`, `MAContainer`, pthreads, and the
kernel.

### How they interact

```
 any thread                             loop thread (UVExecutionThread.main)
 ----------                             ------------------------------------
 submitBlocking / startListening /      uv_run:  timers -> pending -> poll -> closing ...
 controller.write / actor enqueue                           |
   UVJobs.add                                               | event on the descriptor
     UVFIFOQueue.enqueue   (lock)                           v
     uv_async_send         (lock-free) ------------->  uv__async_io
                                                         clear `pending`
 cancel:  isCancelled := true, add(.stop)                UVJobs.handleJobs
 join:    lock `running`                                   drain the queue
 deinit:  uv_loop_close x 15, else fatalError              .stop: uv_close, uv_walk, uv_stop
                                                           .tcp: UVTcpManager -> stream.c
```

* Commands reach the loop through a queue and a wakeup; the two are not one
  atomic step, and the wakeup coalesces.
* `handleJobs` does not end at a stop command: it drains the queue behind it too.
* The stop closes every handle there is; the closes finish in the *next* phase,
  and the loop ends after it.
* A thread object is kept alive by the static container `all` until `main` ends;
  connection controllers keep `UVJobs` (with the handle) alive for longer.
* `deinit` of `UVServer` and `UVExecutor` joins the loop thread, on whatever
  thread drops the last reference.
* Servers and connections are known to the C callbacks and to controllers by
  ids, which are released and used again; libuv uses the `uv_tcp_t` inside an
  object until the close callback.
* Streams, UDP handles, signals, file watchers and children meet the loop in one
  place, the watchers of `uv__io_poll`; the pool, the run loop's thread and the
  select thread meet it through async handles.

### What is hard, and what makes it correct

The complete list of hazards, with their lines and the properties that cover
them, is in `PROJECT.json`. In short:

* *wakeup*: no command is left in the queue unannounced, although senders skip
  the write when the flag is set and read it with relaxed order; after a close
  nobody writes to the descriptor; the spin of the close ends;
* *thread*: commands are taken in order and once; a cancel ends the thread; join
  means what it says; the process dies only for the causes known;
* *timers*: never early with respect to the loop's time, in order, never
  forgotten by the poll, whatever the size of the timeout;
* *TCP*: before a stop no handle is closed twice, and after it only one that
  `uv_walk` closed can be; an object goes only after its handle, and data and
  closes reach the connection they are for, until a handle is *cut* off from its
  id: then it may go too early, and the new owner of the id gets what was meant
  for it; the continuation of a write is never resumed twice, and once if a
  connection took the write;
* *callbacks from the middle of a loop* (streams, UDP, poll batches, children,
  inotify, idle handles): the user may stop, close and start anything there,
  and the loop goes on with what it saved before;
* *several threads* (pool, barrier, semaphore, signals, FSEvents, select):
  nothing told twice, or touched after it is gone, nothing lost and nobody left
  waiting but for the exceptions that the modules name;
* *numbers and texts* (heap, rings, addresses, names, descriptors of a child):
  boundaries that few inputs reach.

## 2. The modules

```
 AsyncSignal <- implements - UVAsync <- INSTANCE - UVExecutionThread - implements -> SerialExecutor
                                ^                        ^
                        UVAsyncProofs <- INSTANCE - UVExecutionThreadProofs    UVTimers <- UVTimersProofs

 StreamWrites <- implements - UVStream          StreamWrites <- implements - UVTcp
                                 ^                                            ^
                          UVStreamProofs                                 UVTcpProofs

 UVFIFOQueue <- UVFIFOQueueProofs    UVThreadPool <- UVThreadPoolProofs    UVListen <- UVListenProofs

 MCQueueThread = UVFIFOQueue | UVExecutionThread
 MCThreadParts = UVAsync | UVThreadPool | UVBarrier | UVSemaphore
 MCLoopState   = UVExecutionThread | UVWatchers | UVKqueue | UVSignals | UVUdp | UVHeap | UVSpawnStdio | UVInet | UVIdna
 MCLoopParts   = UVListen | UVLoopWatchers | UVFsPoll | UVProcess | UVFsEvent | UVUring | UVFsEvents | UVSelectThread
 MCTimersTcp   = UVTimers | UVTcp
```

`MC*.tla` give the constants of an instance for TLC, `MC*.cfg` are its runs, and
`*Proofs.tla` hold theorems and proofs. Some definitions are *variants* of the
one that follows them, with a fault a maintainer might introduce (`JoinTries`,
`DequeueLast`, ...). `Next` uses none of them; replacing the original by the
variant must make TLC find a violation, which is how each property is shown to be
able to fail.

**Sums.** Components that share no state are checked in one run. The five modules
drawn with `|` extend their first part, whose properties are checked under their
own names, the names theorems state them by, and hold instances of the others;
the variable `part` is chosen in the initial state, only that part moves, and each
property speaks of its part alone. The number of states is the sum, not the
product, and fairness is stated for each part under `part = ...`. Renamings in
these modules (`pevents <- uPevents`) keep the variables of the parts apart.
`UVExecutionThread` is in two sums: its safety in `MCLoopState`, with the loop among
those that may join it, and its liveness in `MCQueueThread`, without.

### UVAsync, AsyncSignal

One action per atomic access of `uv_async_send`: the relaxed read (`Load`), the
fetch-and-add (`Inc`), the exchange (`Xchg`), the write (`Write`), the decrement
(`Dec`). The loop's side is the poll (`Wakeup`, `PollOther`), the drain of a pipe
(`Drain`), the exchange and the callback (`Exchange`, `CallbackReturn`), and
the close (`Close`, `SpinDone`, `FinishClose`). `EdgeTriggered` selects the
eventfd of Linux, which is registered with `EPOLLET` and never read, and which
EVFILT_USER with EV_CLEAR on macOS is like, or the pipe of other systems. That
the descriptor is readable is a Boolean: an eventfd's counter and a pipe's bytes
carry nothing else, and a write to a full pipe (EAGAIN) leaves it readable. The
loop's other async handle, `wq_async` of the thread pool, shares the descriptor;
the program starts no work, so its flag is never set and it is left out.

`AsyncSignal` is the promise: a call is followed by a run of the callback that
begins after it, unless the handle is shut; calls coalesce.

### UVExecutionThread, SerialExecutor

Every thread is a sequence of small steps: `EnqLock` and `Enqueue` (the queue
under its lock), `SendLoad` and `SendRest` (the steps of `UVAsync`), `AddReturn`;
`Cancel`, the test and the act of `UVExecutor.stop` (`StopSeesFlag`,
`StopSeesNoFlag`, `StopCancel`), `Join`. The loop thread goes through the phases
of `uv_run`, and calls the same operations from the tasks it executes.

* The read of `pending` is relaxed, so the processor may perform it before the
  unlock of the queue that precedes it in the program. The unlock is a release,
  so nothing moves the read before the *lock*. `EnqLock` therefore begins the
  send, and `SendLoad` is enabled before `Enqueue` as well as after it.
* A *timer* stands for any handle that a command creates on the loop. It may
  fire in any timer phase here; `UVTimers` says when.
* `deinit` is possible when `main` has ended and no thread is inside a call on
  the thread object. *Controllers* hold `UVJobs` but not the thread, and may add
  commands even later.
* `fatal` is `fatalError` in `deinit`, `aborted` the assertion of `uv_close`: both
  end the process, so no other action is enabled.

`SerialExecutor` is what actors rely on: commands are taken one at a time, in the
order accepted, each at most once, and sooner or later unless the thread was
cancelled and halts. The refinement mapping is in the module: `taken` is what is
accepted but no longer in the queue, `current` the command in execution.

### UVTimers, UVHeap

Two clocks: `clock` passes at any moment (`Tick`), also while a task runs, and
`time` is `loop->time`, brought up to date after the poll and before the timers.
A command is *queued*, then *armed* (`TakeJob`), *ready* (`Collect`: the first
loop of `uv__run_timers`), *firing* (`Fire`), *closing* (`TaskEnd`) and *closed*
(`RunClosing`: `closeScheduledJob`). The heap is abstracted to the order
`timer_less_than` and its minimum. Integers have a width: `Deadline` adds modulo
`Top + 1` and clamps, as `uv_timer_start` does with `uint64_t`.

`UVHeap` is the heap itself, pointer by pointer: one step is one turn of a loop
of `heap_insert` or `heap_remove`. Its properties are what `UVTimers` takes for
granted.

### UVTcp, StreamWrites

A handler of the loop is one action. For each server and connection three lives
are kept apart: its place in a container under an id (`id`), the Swift object
(`held` and what else keeps it: the writes in flight), and the `uv_tcp_t` inside it
(`hnd`: none, open, closing, closed), which libuv uses until the close callback.
`cut` remembers the handles whose id was released while they were not closed: by
a close command, a start or accept that failed, or the close callback of another
handle under the same id. Freed memory is either still intact or crashes the
process (`Crash`); `uv_walk` closes handles in any order; a new id is any that is
free. Commands come in the order of the queue of `UVExecutionThread`, in one step.
`twice` remembers the handles that `uv_close` was called for a second time.

What the properties say, and what they do not:

* `OnlyWalkedClosedTwice`: a second `uv_close`, which fails the assertion at
  `core.c:158`, is called only after a stop, for a handle that `uv_walk` closed and
  whose object still takes it for open. `tcp_twice` shows one.
* `OnlyCutDoHarm`: who is freed while its handle closes, or goes deaf, was cut off.
  The callbacks of a handle that was not cut find that handle and no other
  (`StraysNeedCut`). Those of one that was cut may find the new owner of its id:
  this one, cut or not, then hears the data and the end of another stream and is
  closed by it (`TcpBuffer.swift:26, 34-41`).
* `AnsweredInTheEnd`: a write that a connection took is pending until its callback
  is called, once, and none is pending when the loop has ended. A write that found
  no connection (`UVTcpManager.swift:93`, `UVTcpServer.swift:76`), or is still in the
  queue when the loop ends, is never answered: who awaits `UVTcpConn.write`
  (`UVServer.swift:65-70`) is never resumed.

`StreamWrites` is the promise to those whose write was taken: callbacks once, in
order, none after the close callback. Left out: `stopListeningTcp`, which no code adds; the
retain cycle of manager and jobs, which only keeps memory; the pointer made from
an `inout` and re-entrancy into `MAContainer`, whose meaning lies outside.

### UVStream, UVListen, UVSelectThread

`UVStream` is one connected stream. One thread is at work, and `pc` says where in
`uv__stream_io` a callback returns to; the user may call anything from there. The
phases of `uv_run` are abstracted to "any": pending callbacks, polls and
destruction come in any order that the loop allows. The peer and the kernel are
free. Connecting, pipes that pass descriptors, blocking writes and calls from the
alloc callback are left out. Callbacks of writes in `UVTcp` rest on it: both
implement `StreamWrites`.

`UVListen` is a listening stream with the connection it holds for `uv_accept`, and
the limit of descriptors with the spare one (`uv__emfile_trick`), while other
threads open and close descriptors too. Two exceptions are named: a stream goes
deaf when an accept fails after the callback (`failedLate`), and the spare is lost
when another thread takes the descriptor first (`raced`).

`UVSelectThread` is `uv__stream_osx_select`: a thread that selects for a stream
that kqueue cannot watch, its socket pair and its two semaphores. As kqueue
reports the socket pair writable at all times, a stream that wants to write is
called by the poll as well.

### UVWatchers, UVKqueue, UVSignals, UVUdp

`UVWatchers` is `uv__io_poll` over epoll and the calls that change watchers.
Descriptors are numbers that are used again at once; a file inherited by another
process stays in epoll when it is closed here. `UVKqueue` is the same over kqueue
filters, with the file watchers whose filter fires once. Its properties name two
exceptions, both reachable: a filter that is lost when its direction stops, has
an event, and is asked for again within a batch; and the assertion at
`kqueue.c:382`, which fails behind a full array of events.

`UVSignals`: the handler of a signal writes a message per handle to the pipe, and
counts it in a second step; the loop reads in between. The flag ONE_SHOT is never
cleared by a regular start, and a one-shot handle started while the signal of
another is dispatched may be left without a handler: `HandlersFit` promises one
only while a regular handle watches.

`UVUdp`: the batches of `sendmmsg`, the loop of up to 32 receptions. An error of
`sendmmsg` is given to all requests of its batch. That a datagram is sent at last
is not stated: it depends on the kernel alone. `recvmmsg`, `uv_udp_try_send`,
connected sockets and the deferred bind are left out.

### UVFIFOQueue, UVThreadPool, UVBarrier, UVSemaphore

What lies between lock and unlock, or a wait, is one action; waits may end without
a signal. `UVFIFOQueue` has all operations, and a timed wait that ends at the
moment of a signal may have consumed it, as POSIX allows. In `UVThreadPool` both
mutexes are variables, because `uv__work_cancel` holds both. `UVBarrier` includes
its destruction by the thread that was told it was the last. `UVSemaphore` is the
one libuv makes itself: two posts before the first woken waiter runs may leave a
waiter asleep beside a value, which the property names (`piled`).

### UVLoopWatchers, UVFsPoll, UVProcess, UVFsEvent, UVFsEvents

Lists that are walked while callbacks change them. `UVProcess` and `UVFsEvent` keep
the pointers of `queue.h` that a removed element still has. In `UVFsPoll` a stop
cannot take back a stat in flight; a start after it leaves an older context that
arms its timer again, and the assertion at `fs-poll.c:177` may fail
(`AbortNeedsRestart`: it needs such a restart). `UVFsEvents` is the thread with the
CFRunLoop of macOS: what one side does under a mutex is one step. A handle that is
started again may be told of changes queued for its earlier start, and changes
between two streams are lost, as a stream begins now; both are the code's, and
the properties do not promise more.

### UVUring

Submission ring, kernel thread, completion ring and overflow, with counters that
wrap. The mode is opt-in and not enabled by the wrapper. `uv__iou_submit` stores
the tail with release and loads the flags with acquire: the load may come first,
and then the kernel thread goes to sleep beside the entry. `StrandedByReordering`
says that nothing else strands a request; the next submission frees it.

### UVSpawnStdio, UVInet, UVIdna

`UVSpawnStdio` moves the files of a child to their places, in the forked child or
through the file actions of posix_spawn. Its properties name two exceptions: the
slot search of posix_spawn (section 3), and the number of the error pipe, which
may be a place of the child; its failure is then written to that file, or lost.
Failures of dup and open, ids, directories and signal masks are left out.

`UVInet` and `UVIdna` are pure functions, checked against definitions written
down from RFC 4291, 3492 and 3629; their state machines only make the inputs. In
`inet_ntop6` the case of an embedded IPv4 address behind seven zeros cannot occur.
The UTF-8 decoder accepts a character that the text ends in the middle of
(`CutShort`), and, as it looks at the marks of all bytes together, bytes whose wrong
marks undo each other (`WrongTogether`): two that are wrong in the same way, or
three that are wrong in the three ways there are, as in F1 20 41 C3. U+10000
and U+10FFFF fail the assertions of `uv_wtf8_to_utf16`, which only Windows calls.
Zone ids, sizes of outputs and the overflow of Punycode are left out.

## 3. The runs

Each name below is an INVARIANT or PROPERTY of the run's cfg. Most are
conjunctions; the conjuncts and what each says are where the name is defined.

| Run | Instance | Properties | Outcome |
|---|---|---|---|
| `thread_live` | three threads and three items; loop, owner, user, a task, two stops | `QueueServes`; `ImplementsExecutor` (with liveness), `StopsAtLast` (a cancel ends the thread, a join by another thread returns, a wait for an item ends) | hold (240 000 states) |
| `thread_fatal` | 2 threads; a timer, a stop | `LoopClosesCleanly` | violated |
| `timers_writes` | 2 timers, 3-bit integers, timeouts 0, 2, 6, clock to 3; one connection with two writes | `NotBeforeDue`, `FiringOrder`, `ArmedFires`; `EndsComplete` | hold (630 000 states) |
| `tcp_conns` | 3 servers, 2 connections, 2 writes, 3 ids | `OnlyWalkedClosedTwice`, `OnlyCutDoHarm`, `EndIsLast`, `AnsweredInTheEnd`, `WritesKeepPromise` | hold (1.8 million states) |
| `tcp_twice` | a server, a connection | `NoSecondClose` | violated |
| `tcp_freed` | a server, a connection | `HandleOutlivesClose` | violated |
| `tcp_stale` | a server, two connections | `WritesOwnPeer` | violated |
| `stream` | 2 requests of 2 bytes, bursts of one write and two reads, a peer that reads | `RequestsKept`, `HonoursFlags`, `KeepsPromise`, `RequestsAnswered` | hold |
| `thread_parts` | the sum of 4 parts | `AsyncSafe`, `PoolAnswers`, `PrimitivesHold`, `EveryoneServed` (liveness of all of them) | hold (230 000 states) |
| `loop_state` | the sum of 9 parts; for the thread: loop, owner, controller, a task, a timer, two stops, and the loop may join itself | `NothingStranded`, `NoUseAfterFree`, `OnlyLateTimersSurvive`, `DeathHasCause`, `JoinSeesEnd`; `WatchersHear`, `KqueueHears`, `SignalsCounted`, `DatagramsKept`, `HeapIsHeap`, `StdioPlaced`, `TextsReadBack` | hold (2.6 million states) |
| `loop_parts` | the sum of 8 parts | `ListenServes`, `RoundIsFair`, `PollEndsClean`, `DeathsTold`, `EventsTold`, `MacThreadsServe`, `EndsAtLast` (liveness of these six), `RingAnswers` | hold (260 000 states) |
| `spawn_mixed` | 3 places, descriptors to 4 | `FilesStayApart` | violated |

**Bounds.** *Senders*: one writes, others see the flag, one is overtaken anywhere;
three threads take all these roles at once and may send again and again.
*Commands*: each is added once; a task, a timer and two stops allow every order of
the kinds the handler distinguishes, on either side of a stop. *Timers*: two
suffice for an order and for a collected timer beside an armed one; `Top = 7` with
`MaxClock = 3` lets timeout 6 overflow and timeout 2 come due within the run;
`IntMax = 2` makes the cut-off of the poll's timeout happen. *TCP*: an id is taken
over by a second connection, or by a second and third server; the constraint
`ServersOrConns` leaves out the behaviours that have several of both, since a
server and a connection meet in a container only through an accept, and those
with more than two calls of read, write and close beside the closes of deinit:
two are enough for a connection that is read, kept open by a write and released,
for one that is closed or read twice, and for two writes of which the second
follows or crosses the close; with one server and one connection both writes and
another call are taken.
*Stream*: two bytes let a write take a part, two requests one wait behind another.
*Pool*: two workers, so one may run slow work; two slow requests, so one waits for
the threshold. *Barrier, queue, semaphore*: a third party to come in between.
*Listen*: three connections against a limit of three descriptors, one of which is
the spare one. *Watchers*: four
take turns at two descriptors, so a number is used again twice in a batch.
*Kqueue*: an array of two, so that it is full. *Signals*: a pipe of two messages,
which fills. *UDP*: three datagrams against batches of two. *Heap*: six nodes are
the least at which the node that replaces a removed one may have to go up; seven
are taken. *Spawn*: four places, one beyond the standard three, and a descriptor
beyond what a copy may take. *Inet*: three words over all eight places, every text
of colons and words that the reader has not refused. *Idna*: every name of four
characters out of nine, so that a label has three numbers to insert with a bias
that has adapted twice; texts of five bytes out of eight, two for each pair of
first bits, among them one for each number of bytes that a first byte may ask
for, so that marks may be wrong in every combination. *FsPoll*, *Uring*, *FsEvents*: three starts; rings of two
with counters of two bits; two starts per handle.

**Symmetry** is used where only safety is checked: in `tcp_conns` for servers,
connections and writes, in `loop_state` for watchers and descriptors. Where something must
happen at last, threads, connections, children and requests are alike, and the
property names one of them (`SleeperServed(t1)`).

**Deadlock.** The thread runs, TCP and the sums set `CHECK_DEADLOCK FALSE`: these
systems really stop, with the thread freed or the process dead, everything used
up, or a handle closed for good. That nothing stops too early is what the
liveness properties say.

**Fairness.** Weak, unless said otherwise, and only for what the code goes on with
by itself: threads inside a call, the loop, callbacks that return, a clock that
passes. Nobody has to submit, send, close or cancel, and `deinit` has no fairness.
In particular the close of the wakeup ends against threads that never stop
sending. Strong fairness is used where something stays due while the loop does
other things in turn: `TakeCommands` of `UVTcp` (the event of the wakeup stays
until it is taken, so each poll would report it), the pending queue and the closing
handles of `UVStream` (each iteration of `uv_run` comes to both), and callback and
return in `UVSelectThread`. `RequestsAnswered` of the stream also needs a peer that
reads: the socket becomes writable again and again, and a write takes something.

### What the violations show

* `thread_fatal`. `UVExecutionThread.swift:52` ends the process when the loop
  cannot be closed. The shortest behaviours are ordinary ones: a thread is
  started and cancelled at once, `main` finds `isCancelled` set (line 61), never
  calls `uv_run`, and the stop command that would have closed the async handle is
  never taken; `uv_loop_close` returns EBUSY fifteen times, as nothing changes
  between the attempts. The same end is reached when a command that creates a
  handle is dequeued behind a stop in one drain. `DeathHasCause`, which holds, says
  that these are all, with two stops that close the same handle.
* `tcp_twice`. A stop closes every socket through `uv_walk`, without a word to its
  object: `opened` stays true. A close command behind the stop in the same drain
  of the queue releases the connection, `deinit` finds `opened` and calls `uv_close`
  again: the assertion at `core.c:158`. A thread that is cancelled while a
  controller is dropped is enough. A response that was all that held the
  connection may do the same when the close cancels its write.
  `OnlyWalkedClosedTwice`, which holds, says that no other handle is closed twice.
* `tcp_freed`. A close command releases the connection; without a write in flight
  that was its last reference, and `deinit` hands libuv a `uv_tcp_t` in memory that
  goes away. Every controller adds such a command in its `deinit`.
* `tcp_stale`. A controller names its connection by an id. When the connection is
  gone and the id belongs to another, a late write goes to the wrong peer.
* `spawn_mixed`. The search of a free number in
  `uv__spawn_set_posix_spawn_file_actions` restarts with `fd2 = 0`, and the loop
  then counts it up: `pipes[0]` is not compared again. With the files 4, 0, 0 for
  three places, place 2 gives its copy of 0 the number 4, and places 0 and 2 end up
  with the same file. It takes a descriptor just above the places, and two places
  that name a lower one.

## 4. The proofs

All theorems hold for every value of the constants under the assumptions named
in the modules: finite sets of threads, workers, handles and requests; special
values that are not members of them (`NoneIsNobody`, `ConstantsOK`); ids enough
for all handles; widths and bursts that are natural numbers; and `MaxClock < Top`,
that is, a run shorter than 2^64 ms. TLC evaluates each of them in a run. The
bounds of the models (`MaxCalls`, `MaxHeard`, `MaxCancels`) are arbitrary in the
theorems. Each proof has the same plan: an inductive invariant, one lemma that it
holds initially, one per group of actions that it is kept, and theorems that
follow from it.

**UVAsyncProofs.** The inductive invariant joins the types, `BusyCounts` (so that
`busy = 0` means no thread is between the fetch-and-adds), the flag being set from
the close on, and where an event can be while the flag is set. Neither
`QuietAfterClose` nor `FlagIsBacked` is inductive without them. Proved:
`AsyncTypeCorrect`, `NoWriteAfterClose`, `NoLostWakeup`, `AsyncIsSafe` (the
property `AsyncSafe` of `thread_parts` as a whole), and `AsyncImplementsSignal`,
the safety part of the refinement.

**UVExecutionThreadProofs.** The invariant of `UVAsync` is taken over through an
instance of its proofs: every step of the thread is a step of `UVAsync` on the
position `IoOf(lp)` or leaves its variables alone. On top of it come the
agreement of a thread's place in a call with its place in the send, the lock of
the queue with its holder, the position of the loop with the command in
execution, and of the queue with the history. Proved: `ThreadTypeCorrect`,
`NoCommandStranded` (the join of the queue with the wakeup: a sender reads the
flag after the lock, the handler clears it before the dequeue),
`NoUseOfFreedLoop`, `JoinWaitsForMain`, `SelfJoinNeverReturns`, and
`ThreadImplementsExecutor`, the safety part of the refinement. For
`SurvivorsAreLate` and `DeathIsExplained` the invariant also follows the teardown:
the place of each stop and timer command in the history against what has been
taken, and the state of each timer against the position of the loop. They show
that there is no third way for a timer to survive a stop or for `deinit` to give
up.

**UVTimersProofs.** `DeadlineIsClampedSum` says what the wrapping addition and the
clamp compute. The invariant: the cached time is not ahead of the clock, the two
queues hold exactly the timers in the states named and each once, a deadline is
at least what was asked for, what was collected was due, and the ready queue is
in the order of the heap and before everything left in it. Proved:
`TimersTypeCorrect`, `NeverBeforeDue`, `FiresInOrder`.

**UVFIFOQueueProofs.** `QueueServes` is inductive as it stands: a signal and its
item are counted in one action. The work is in counting, with cardinalities, the
threads in each state of `waitForNextItem`. Proved: `QueueServesAll`, and
`NilOnlyAtLimit`, an action property.

**UVThreadPoolProofs.** The invariant says who holds a mutex by where it is; that
each queue has an element once and a request is in one place at a time, with what
its fields are there; that a worker's request is its own; that `slowRunning`
counts the workers at slow work; and that, while one sleeps, there are as many
workers awake as there is work they may take. The last is what the one signal of
`post` relies on, and it needs all the others: a worker that comes back from slow
work is not among the awake, and what its return makes room for is the exception
that `PoolAnswers` names. Proved: `PoolServes` (`thread_parts` checks
`PoolAnswers` on an instance of the module).

**UVListenProofs.** `ListenServes` is inductive with three additions: a server is
polled while `uv__server_io` runs for it, nothing is held during the trick with
the spare descriptor, and there is room for a new one behind it unless another
thread took it. Proved: `ServerServes`.

**UVTcpProofs.** The invariant follows the life of a handle (`HandleInv`: ids are
unique among what is held, what libuv uses is held or cut off, what closes is in
one of two lists, once), a command (`QueueInv`), a write to its answer
(`WriteInv`) and what a connection hears (`HeardInv`). `OnlyCutDoHarm` is not
inductive: that harm *now* needs a cut depends on where every handle was listed
before. Proved: `TcpInvariance`, `SecondCloseIsWalked`, `HarmNeedsCut`,
`DisconnectIsLast`, `WritesAreAnswered` and `TcpKeepsPromise`, which is the
refinement of `StreamWrites` by every connection, fairness left out as in the
property. After an abort or a crash nothing moves, and the parts of the invariant
that only the next step would need are claimed of a running process.

**UVStreamProofs.** The invariant has two halves. The queues: each request is in
one of three queues, once, and was accepted; one that failed is completed; and
`size` is the number of bytes left of the queued and the failed, as a cardinality
(`BytesOf`), which the lemmas `BytesJoin`, `BytesAdds` and `BytesSame` compute
with. The places: what the flags exclude, what is empty once the stream is closed,
and that what waits in an open stream is announced *wherever the loop is*, by the
watcher or by the events `uv__stream_io` has still to look at; `NothingStranded`,
which speaks of an idle loop, is not inductive without it. `WriteOutKeeps` says
of `uv__write` that it keeps the order of requests, whatever the kernel takes.
Proved: `StreamKeepsRequests`, `FlagsHonoured`, and `StreamKeepsOrder`, the safety
part of the refinement of `StreamWrites`: a step appends to what is owed, takes
its first element, or leaves it alone.

Type correctness is part of each invariant; where it has a theorem of its own, as
has `SelfJoinHangs` (a loop thread that joins itself never goes on: the run with
liveness leaves that join out, and `SelfJoinNeverReturns` proves it), it is not a
property of a run.

**Only model-checked.** Liveness and the fairness of refinements, which the
prover does not reach: `ImplementsExecutor` and `KeepsPromise` as far as they say
that something happens, `StopsAtLast`, `ArmedFires`, `EveryoneServed`,
`EndsComplete`, `RequestsAnswered`, `EndsAtLast`. The pure functions of `UVInet` and
`UVIdna`, and `UVHeap`, which are recursive or need induction over a tree. For now
also `PrimitivesHold`, `WatchersHear`, `KqueueHears`, `SignalsCounted`,
`DatagramsKept`, `StdioPlaced`, `RingAnswers`, `RoundIsFair`, `PollEndsClean`,
`DeathsTold`, `EventsTold` and `MacThreadsServe`: they are safety, and their
modules have no proofs. The sums state them over instances, so a proof would come
with a part taken out of its sum.

## 5. Plan

Done: the models of section 2, and the safety of the wakeup, the thread and its
executor, the queue, the timers, the pool, TCP, the listening and the connected
stream, for every value of the constants. What remains is to prove, in this order:

1. `PrimitivesHold`: the barrier's counts of threads inside against its rounds,
   and the semaphore's value against its sleepers, both by cardinalities as in
   `UVFIFOQueueProofs`.
2. `KernelKnows` and `OwnEvents` of `UVWatchers`: the batch of events against
   watchers that stop and descriptors that are used again within it.
3. `DatagramsKept` of `UVUdp`, with the lemmas on queues of `UVStreamProofs`.

Left to model if wanted: the WTF-8 reader of `idna.c`, `recvmmsg`, pipes that pass
descriptors, and fork handling.

## 6. Not modelled, and why

* Windows, and the polls of other systems (AIX, z/OS, SunOS, Haiku, QNX): other
  programs behind the same interface. `Package.swift` declares macOS; each of
  these sources compiles only on its own system.
* `fs.c` and `getaddrinfo.c`: one system call per request, whose ordering is that
  of the pool or the ring. `tty.c`, `pipe.c`, `dl.c`, `getnameinfo.c`,
  `random-*.c`, `strscpy.c` and the like: no control of their own, or not reached.
* `fork` with a live loop (`uv_loop_fork`, `uv__io_fork`, `uv__async_fork`,
  `uv__inotify_fork`): the wrapper never forks.
* Values and casts of the wrapper (`UVError`, `UVTcpServerSetup`,
  `*Representable`): no behaviour. `UVTcpBuffer.read(next:)` compares positions
  with the length alone, so that a second chunk comes out empty; it has no caller.
* The storage of `MAContainer` and the static container `all`: external code whose
  behaviour cannot be read from the repository. Pointers into its slots are listed
  as a hazard.
* Failures to allocate memory, and memory orders beyond the relaxed load of the
  wakeup and the release / acquire pair of io_uring: every other access of the
  protocols modelled is sequentially consistent or under a mutex.
* `timeNow`, logging, formatting of error names.
