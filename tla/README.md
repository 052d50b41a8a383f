# TLA+ models of the muduo-style server

This directory holds TLA+ specifications of the network library in `net/`
(a C++17 reactor library after muduo) and of the log lines in `base/log`, the TLC
configurations that check them on small instances, and TLAPS proofs about eight of
them. `PROJECT.json` maps every definition to the lines it models.

## 1. The system

| component | state | operations | interacts with |
|---|---|---|---|
| `EventLoop` | `quit_`, `looping_`, `callingPendingFunctors_`, `pendingFunctors_` (under `mutex_`), `activeChannels_`, the eventfd | `loop`, `quit`, `runInLoop`, `queueInLoop`, `wakeup`, `handleRead`, `doPendingFunctors` | called by every thread; owns poller and timer queue |
| `Channel`, `Poller`, `EPollPoller` | `events_`, `index_`, `addedToLoop_`; `channels_`; the kernel's interest list | `enable*`, `disable*`, `remove`, `handleEvent`; `updateChannel`, `removeChannel`, `poll` | raw `Channel*` in `channels_`, in epoll and in `activeChannels_` |
| `EventLoopThread`, `EventLoopThreadPool` | `loop_`, `mutex_`, `cond_`; `loops_`, `next_`, `numThreads_` | `startLoop`, `threadFunc`, destructor; `setThreadNum`, `start`, `getNextLoop` | creates loops on the stacks of their threads |
| `TimerQueue`, `Timer`, `TimerId` | `timers_`, `activeTimers_`, `cancelingTimers_`, `callingExpiredTimers_`, the timerfd | `addTimer`, `cancel`, `handleRead`, `getExpired`, `reset`, `insert`, destructor | callbacks add and cancel timers; other threads add timers |
| `Buffer` | `buffer_`, `readerIndex_`, `writerIndex_` | `append`, `prepend`, `retrieve*`, `getLine`, `readFd`, `ensureWritableBytes`, copy, move, swap | input and output of a connection |
| `TcpConnection` | `state_`, `reading_`, its channel, `outputBuffer_` | `connectEstablished`, `send`, `forceClose`, `startRead`, `stopRead`, `handleRead/Write/Close`, `connectDestroyed` | its I/O loop, the base loop, user threads |
| `TcpServer` | `connections_`, `nextConnId_` | `start`, `newConnection`, `removeConnection(InLoop)`, destructor | base loop, thread pool, acceptor |
| `TcpClient` | `connection_`, `mutex_`, `cond_` | `connect`, `retry`, `connection`, `newConnection`, `removeConnection` | its loop, user threads |
| `Acceptor` | `listening_`, `idleFd_` | `listen`, `handleRead` | base loop |
| `Logger`, `LogStream` | one `FixedBuffer` per log line | constructor, `operator<<`, destructor with output and `abort()` | used everywhere; `LOG_FATAL` ends the program |
| `Socket`, `InetAddress`, `Timestamp` | none that outlives a call | wrappers and formatting | – |

What is hard here, and what the properties are for: functors and `quit()` from
other threads against a loop about to block; raw pointers in three lists while
callbacks remove channels; a close that takes four hops between two loops while
threads still send; timers that cancel each other while they are being called;
a start-up and a shut-down of threads that share a stack object; connections that
pass between the base loop and the pool while descriptors run out; a client that
retries, reconnects and is waited for by several threads. The build type
in `CMakeLists.txt` is empty, so `assert` is on: an assertion that fails ends the
program, and the models treat it so (`failed`, `fault`). The hazards are listed one by
one, with the line and the property, in `PROJECT.json`.

## 2. Modules

| module | models | abstracts |
|---|---|---|
| `EventLoop` | one loop, its owner thread and other threads | all channels but the eventfd are one channel `io` |
| `TaskQueue` | what a loop promises: a serial executor | – |
| `EPollPoller` | `Channel`, `EPollPoller` and the dispatch in `loop()` | owners are arbitrary callers on the loop's thread |
| `TimerQueue` | the timer queue, its timerfd and two clocks | callbacks are arbitrary calls of `addTimer` and `cancel` |
| `Buffer` | one or more buffers | `extrabuf` has `ExtraSize` bytes, the strings come from a set |
| `ByteQueue` | what a buffer promises: a queue of bytes | – |
| `TcpConnection` | one connection of a server, its I/O loop, the base loop, user threads, the peer | the loop by `TaskQueue`'s promise, the poller by `EPollPoller`'s, the buffer by `ByteQueue`'s: `outputBuffer` is a sequence of bytes |
| `EventLoopThreadPool` | pool, loop threads, and the skeleton of `loop()` | work of the loops |
| `Acceptor` | the listening socket, `idleFd_`, the kernel's backlog | descriptors are counted |
| `TcpServer` | the server: composes `EventLoopThreadPool` and `Acceptor` (`INSTANCE`) and adds the connections that pass between the loops | a connection is its `state_`, its channel and its pointers |
| `TcpClient` | the client, its loop, user threads, the peer | the same of a connection |
| `LogStream` | `FixedBuffer`, `LogStream`, `Logger` | of a text the length, of an integer `W` bits |
| `ConnectionLife` | what connections promise their user: up once, then down once, one stream in between, and there all that time | – |
| `EventLoopProofs`, `EPollPollerProofs`, `BufferProofs`, `TcpConnectionProofs`, `TimerQueueProofs`, `TcpServerProofs`, `TcpClientProofs`, `LogStreamProofs` | theorems | – |
| `MC*` | instances for TLC | – |

Names follow the source without the trailing underscore. A definition called
`X_something` is `X` as a plausible mistake would have it; nothing uses it.

**EventLoop.** `pc` is the place in `loop()`. The swap in `doPendingFunctors`, each
functor and each callback are steps of their own, so other threads act between
any two. A call from another thread is two steps, as in the code: the push (or
the store to `quit_`), then the write to the eventfd. `early` marks functors the
owner queued before it entered `loop()`: `queueInLoop` does not write the eventfd
for those, and they wait until the first poll ends (at most `kPollTimeMs`).

**EPollPoller.** `epoll` is the kernel's list; a refused `epoll_ctl` leaves it
alone, as `update()` only logs the error. Descriptors and addresses are reused.
`failed` names the function whose assertion stopped the program.

**TcpConnection.** The variable `client` is the kind of program that uses the
connection, chosen in `Init` from the constant `Clients`. `functors` is the queue of
the I/O loop, `removals` that of the base loop; `Alive` says that somebody still
has a `shared_ptr`. `forceClose()` on another thread is three steps (test, store,
push). The initial state is the one `TcpServer::newConnection` leaves behind. The
user has set all callbacks, `writeCompleteCallback_` and `highWaterMarkCallback_`
included. A write that the kernel announced room for takes at least one byte.

**TimerQueue.** Addresses are numbers, because `timers_` is ordered by expiration and
address. `Tick` moves the monotonic and the wall clock, `Jump` sets the wall clock
alone. `AddTimerReturns` reads the object after the loop may have deleted it; the
value read is then the old one or that of the timer that lives there now.
`Destruct` is `~TimerQueue`: it deletes what is in `timers_`, and only that. Functors
that other threads pushed after the loop's last swap go with the loop (`EventLoop.cc:97`), and
the `Timer*` bound in each (`TimerQueue.cc:115`) is never deleted: `leaked` holds these.
`program` says whether other threads add timers and how often the clock is set.

**EventLoopThreadPool.** The owner's steps are those of `setThreadNum()`, `start()`,
`getNextLoop()` and the destructors; `quit()` is again a store and a write. A use of
a null or destroyed loop ends the behaviour with `failed`. The module has no
next-state relation of its own: `TcpServer` takes its steps.

**Acceptor.** `handleRead`'s answer to `EMFILE` is four steps (close, accept, close,
open), because other threads can open descriptors between any two. `free` is how
many descriptors are left. The constructor opens `"dev/null"`, a relative path;
`opens` says whether that worked.

**TcpServer.** Loop 0 is the base loop. A loop is in `poll`, handles its channels
(`accept` first, then `handle`), and then runs the functors it took (`run`); it holds
their pointers until the last has run, as the local vector of
`doPendingFunctors` does. So a connection dies at the end of a batch, when the map
and all queues have let go of it. With no threads every `runInLoop` is a call in place.
`program` is a record: number of threads, connections that arrive, limit of
descriptors, those of other threads, and when the server is destroyed. `fault` is the
assertion that failed. `forceClose()` and `KDisconnecting` are left to `TcpConnection`.

**TcpClient.** A thread in `connect()` is `dialing` (the socket blocks), one in
`connection()` is `locking` or `asleep`; a dial ends in a functor, in a retry timer or in
`LOG_FATAL`. `newConnection` is two steps, because waiting threads get the pointer
before `connectEstablished` has run, and `handleClose` and the close callback are two, because
a thread may reconnect between them. `forceClose()` on a thread is three steps (test, store,
push), as in `TcpConnection`; in a callback, on the loop's thread, it is one, since only the loop's
thread and threads in those three steps write `state_`. `told` records each call of `connectionCallback_`. `Destroy` is all of `~TcpClient`,
its `forceClose()` included; what is bound to the raw `this` and runs later sets `fault` to
`"dangling"`. `program`, one of the constant `Programs`, says which connections the loop's side may
end, how often threads call `forceClose()` on each, and whether the client is destroyed
whatever is under way. `Disciplined` says which programs the properties are for. When the
program may call `connect()` is said in the head of the module.

**ConnectionLife.** The abstract life of connections: `exists`, `told`, `accepted` and `sent`, each a
function of the connection. A connection is made, announced, streams, is closed and destroyed; a
step may move several at once. `TcpConnection` implements it for its one connection with the
bytes, `told` read off the calls of `connectionCallback_` that it counts (a second call of either
kind has no place in the abstract life). `TcpClient` records the calls as well, for each of its
connections; `TcpServer` reads `told` off `state_`, next to whose assignments the code makes those
calls. Nobody sends in these two modules, so `accepted` and `sent` stay empty. In all three `exists` is
`Alive`: somebody has a `TcpConnectionPtr`.

**LogStream.** A line is its length and the furthest byte written: the number formats
write in place and `snprintf` adds a `'\0'`. `Generated` is the digit loop of
`formatInteger` with C's division.

**Buffer.** Every call is an action; calls are made within the preconditions they
assert. `result` is what the last call returned.

## 3. Runs

All bounds are in the `.cfg` files. `pass` runs end without error.

| run | cfg | instance | shows |
|---|---|---|---|
| `event_loop` | `MCEventLoop.cfg` | 2 threads, 3 functors, 2 quits; 70 272 states | `NoLostWakeup`, `NoLostQuit`; refinement `SerialExecutor`; `EveryFunctorRuns`, `QuitTakesEffect`; no deadlock |
| `poller` | `MCEPollPoller.cfg` | 3 channels, 3 descriptors, symmetry; 4 799 states | `KernelAgrees`, `NoDanglingPointer`, `RecordsAgree` |
| `connection` | `MCTcpConnection.cfg` | 6 kinds of programs, 2 threads, 2 messages of 2 bytes; 95 216 states | `StreamIntact`, `WriteInterest`, `ReadInterest`, `NoAssertFails`; refinement `ImplementsLife`; `ConnectionReleased`, `BacklogDrains` |
| `timer_queue` | `MCTimerQueue.cfg` | 2 addresses, 3 timers, clock up to 2, other threads or 1 jump; 459 694 states | `SetsAgree`, `OneOwner`, `ArmedInTime`, `CancelledStaysOut`, `TimerFires` |
| `server` | `MCTcpServer.cfg` | no threads and 2 threads, 3 connections, 3 descriptors of which another thread may take 1; 91 345 states | `NoAssertFails`, `LoopsAlive`, `IdleKept`; refinement `ImplementsLife`; `BacklogServed`, `PoolReturns` |
| `client` | `MCTcpClient.cfg` | 4 programs, 3 threads, 3 connects; 26 764 states | `NoAssertFails`, `ConnectionCurrent`; refinement `ImplementsLife`; `WaiterReturns` |
| `log_stream` | `MCLogStream.cfg` | 6 bits, a buffer of 16; 191 361 states | `FormatsExactly`, `StaysInside` |
| `buffer` | `MCBuffer.cfg` | 2 buffers, 2 bytes each, `extrabuf` of 2; 37 548 states | `AssertsHold`, `BoundedCapacity`, `ImplementsByteQueue` |
| `forceclose_race` | `MCTcpConnectionRace.cfg` | | violates `CallbacksPaired` |
| `stop_read_close` | `MCTcpConnectionStopRead.cfg` | | violates `NoAssertFails` |
| `idle_missing` | `MCTcpServerNoIdle.cfg` | | violates `BacklogServed` |
| `server_teardown` | `MCTcpServerTeardown.cfg` | | violates `NoAssertFails` |

The runs of modules with a type invariant check it as well, but for `server` and `client`, whose
`TypeOK` is left to the theorems `TypeCorrect`.

Why the bounds are enough. Two threads make every pair of calls race, three
functors put work before, in and behind a swap, and a second quit follows a loop
that has returned. Three channels are the current one, one later in the batch and
one outside it. Two messages of two bytes with a high-water mark of three put every
split of a write next to every split of another. Two addresses with three timers
force an address to be reused while the other timer waits or is called. Three
connections on two loops make `next_` wrap, put two connections on one loop, and with
three descriptors the third meets `EMFILE`. Three threads of a client are one that
dials, one that waits and one that holds the last connection; three connects
are a connection, the next one made while the first is still held, and one more; the programs
let the loop's side end all of them, a thread all of them, or one the first and the other the second. Six bits
give integers of one and two digits with and without sign and all pointers of
two digits; the buffer of 16 is filled at every offset. Sizes of the byte buffer are
chosen so that the data fills, wraps and overflows it within two bytes, and a read of two
bytes into a new buffer is split, one in the vector and one in `extrabuf`; the theorems
cover the other sizes.

### What the failing runs show

- `forceclose_race`: `forceClose()` on another thread tests `state_`; the peer closes
  and `handleClose()` sets `KDisconnected`; the thread stores `KDisconnecting`, and
  `forceCloseInLoop` runs `handleClose()` once more. The user is told twice, and
  `TcpServer` is asked twice to remove the connection.
- `stop_read_close`: after `stopRead()` the channel is `kDeleted`; `disableAll()` in
  `handleClose()` puts it back into epoll with no events (`EPollPoller.cc:62-76`), the
  kernel reports `EPOLLHUP` of a peer that reset, and `handleClose()` meets its own
  assertion.
- `idle_missing`: `Acceptor` opens `"dev/null"` relative to the working directory
  (`Acceptor.cc`). Where that fails there is no reserve, and once descriptors have run out
  the connection that waits is reported for ever, which the comment on `idleFd_` says
  it prevents. The constructor prints an error and goes on (`Acceptor.cc:17-20`).
- `server_teardown`: `~TcpServer` queues `connectDestroyed` in the loops of the pool, and
  then the pool quits them. A loop that tests `quit_` before its next poll drops the
  functor, and the connection is destroyed while it is connected.

### What the passing runs assume

The models hold these behaviours too, and the passing runs leave them out:

- A thread keeps its `TcpConnectionPtr` until its `send()` and `startRead()` functors
  have run (they are bound to the raw `this`).
- Of several threads and the peer, only one may end a connection unless all
  closing happens on the I/O loop; otherwise `forceclose_race` applies. With a `TcpClient` it is
  worse: the second `handleClose()` runs `removeConnection` again, and its
  `connection_.reset()` (`TcpClient.cc:122`) drops the next connection while it is connected. TLC finds
  this for the program `MCRacing` (`NoAssertFails`, `ConnectionCurrent` and `ImplementsLife` fail).
- A client is destroyed when it has no connection and no retry and no functor pending: all are bound to the raw
  `this`. A program that leaves while connected, as `examples/cli.cc` does, comes to the close
  callback of the destroyed client if its loop runs on (`MCLeaving`: `NoAssertFails` and `ConnectionCurrent` fail).
- No `startRead()` of another thread is queued when the connection closes, and no
  `forceClose()` is under way when the server is destroyed: both leave an event
  enabled for `Channel::remove()`.
- Where the peer may reset the connection, `stopRead()` is only called by functors, and
  not on a connection that is closing; otherwise `stop_read_close` applies.
- `forceClose()` drops what is in `outputBuffer_`; `StreamIntact` is about order, not
  about delivery.
- A server with threads is destroyed when it has no connection left; otherwise
  `server_teardown` applies. `setThreadNum()` comes before `start()`.
- `quit()` before the thread has entered `loop()` is erased by `quit_ = false`
  (`EventLoop.cc:94`), so `~EventLoopThread` may then wait for ever: `PoolReturns` is about
  pools whose threads have come to their loops. It also excuses a loop destroyed between the two steps
  of `quit()` (`failed = "dangling"`).
- Another thread may take the place that `idleFd_` has just left, and the reserve is lost:
  `IdleKept` and `BacklogServed` excuse that (`stolen`).
- A timer cancelled by an earlier callback of its own batch is still called
  (`TimerQueue.cc:233`), where `net/timer/README.md:16` says it is taken out:
  `CancelledStaysOut` is about the sets and the timers that come back.
- Timers that another thread adds while the loop quits may leak: `OneOwner` excepts those whose functor was
  dropped, and no others.
- `EPIPE` comes back from a write. The source never ignores `SIGPIPE`, so a program that does not do so itself
  may be killed by the write that meets a reset connection.

These are left out of the models, because the program must avoid them:

- A client that calls `connect()` in the callback that says the connection is down, or a second time
  while one is up: the new connection is reset, or the old one dropped, while connected.
- `connection()` on the loop's own thread, which never returns before a connection is there.
- The most negative integer: `formatInteger` negates it. It is streamed in the model, and
  `FormatsExactly` leaves it out.

### Fairness

- Loops run when they can (`WF` of the loop's step); callbacks return. No property
  relies on I/O or on the poll timeout: `PollOther` has no fairness. A thread inside
  `queueInLoop` or `quit` finishes its call.
- In `TcpConnection` the socket of a peer that stays becomes writable again and again,
  so a poll that reports `EPOLLOUT` happens (`SF`); before the end of file there is
  finitely much to read (`SF` of `HandleReadClose`); threads drop their pointers.
- In `TimerQueue` time passes and the loop runs. The wall clock is set finitely often.
- In `TcpServer` the base loop and the threads of the pool run, and a pool loop whose eventfd was
  written leaves poll. `SF` of `AcceptNext` and of `ShedTakes`, the
  accept that sheds: neither meets `EINTR` and the like every time.
  Peers need not leave and other threads need not close anything.
- In `TcpClient` the loop and the threads run, and a server that is dialled again and
  again answers in the end (`SF` of `LoopDialed`). The peer need not close.

## 4. Proofs

`tlapm X.tla` checks them, for each of the eight `*Proofs` modules; `TcpServerProofs` takes
some minutes. A theorem holds for every value of the constants that the named assumptions
allow: any number of threads, functors, connections, timers, addresses, channels and bytes. The
inductive invariants of `TcpConnection`, `TimerQueue`, `TcpServer` and `TcpClient` were checked with TLC on the
instances of the runs before they were proved.

**EventLoop**, for any sets of threads and functors and any number of quits.
`NoLostWakeup` is not inductive: it speaks of `poll` only. `WorkAnnounced` extends it
to every place from the swap to the next poll, where a functor not taken must have a
wakeup on its way; while channels are handled the eventfd may have been emptied, but
then the swap is still ahead and takes the functor. This needs `Control`:
`callingPendingFunctors_` is up exactly between the swap and the end of the functors
(that is why a push by a functor writes the eventfd, and one by a channel's callback
need not), and no user code runs on the owner's thread at `check` or `poll`.
`Inv == TypeOK /\ Control /\ WorkAnnounced /\ NoLostQuit` is inductive (`Invariance`);
`TypeCorrect`, `WakeupNeverLost` and `QuitNeverLost` follow. `LoopImplementsTaskQueue`
proves the safety refinement with `queue = functors \o pendingFunctors`: a push
appends, the swap stutters because the local vector is empty, starting a functor
takes the head.

**EPollPoller**, for any sets of channels and descriptors, from `NoneAssumption`. The three
invariants `KernelAgrees`, `NoDanglingPointer` and `RecordsAgree` need each other and two more
facts. `DistinctFds`: live channels have different descriptors, so an entry of
`channels_` or of epoll for a channel's descriptor is that channel's own. `Batch`: what is still
to be handled is registered, and the current channel has had its turn, so the assertion
in `removeChannel` keeps `remove()`, and with it the destructor, away from the rest of the
batch. `LiveChannel` draws from these what each action needs: the kernel has an entry exactly
for `kAdded`, hence ADD, MOD and DEL are never refused. `UpdateAssertsHold` follows as
well: of the assertions, only those that guard against misuse can fail.

**Buffer**, for any strings and any sizes with the named assumption on the
constants. `Inv == TypeOK /\ BoundedCapacity`: the order of the two indices and the
size is what every assertion needs. Lemmas say what each helper does to the readable
bytes (`ContentsProperties`, `CopiedProperties`, `ResizedProperties`, ...), and the
theorems `AssertsNeverFail`, `CapacityIsBounded` and `BufferImplementsByteQueue` combine
them per action.

**TcpConnection**, for any messages, threads, sizes and programs, from `ConstantsAssumption`. For
every program, also those of the failing runs, `Inv` is inductive: `Iteration` (callbacks
are due only between the poll and the functors), `Stream`, `Establishment` (until
`connectEstablished` has run nothing else happens to the connection, and then it never
runs again) and `ReadInterest`. `StreamStaysIntact` and `ReadInterestKept` follow. The rest is
false for some programs, as two of the failing runs show, and is proved for programs that obey
the rules of `Disciplined` (in `TcpConnection`): a thread that forces the close is the only one to
close; a server that dies, or a thread that starts reading, has a connection that nobody closes;
where the peer may reset, reading stops only in functors and only if nobody else closes. `RulesAssumption` in
`MCTcpConnection` makes TLC evaluate that all programs of the passing run obey the rules, and those of the
failing runs do not. `DisciplinedInv` follows the connection on its way out: `Told` (the
user was told that it is down exactly when it is), `Ownership` (closed, then one removal in the
base loop, then one `connectDestroyed`, each at most once), `Closing` (who may be inside
`forceClose()`), `Watched` and `Reports` (which callbacks can still be due, and on
what channel). `WriteInterestKept`, `CallbacksStayPaired` and `AssertionsHold` follow, and
`ConnectionImplementsLife`: every step does one of the things of `Moves` to the two counters of callbacks and the two
ends of the stream (bytes move only between the first callback and the second), and a
connection without pointers is left alone (`GoneStays`); with `Told` and the stream of
`Inv` each is a step of `ConnectionLife`.

**TimerQueue**, for any addresses, timers, intervals and programs, from `ConstantsAssumption`.
`Owners` says that an address holds a timer exactly when it is in `timers_`, in the vector of
`handleRead` or in a functor, queued or dropped, in one of them and once; `DroppedAtEnd`, an
invariant by itself, says that functors are dropped only when the loop goes, and then all. `Agree` ties `activeTimers_` to
`timers_` entry by entry. The two need each other: `cancel` finds a timer by address and
sequence number, and only `Agree` makes it the one to delete. `Cancelled` says that a cancelled
timer is gone or still in the batch and remembered in `cancelingTimers_`, so that `reset()`
deletes it although its address may be reused later (sequence numbers never are). `Armed`
is `ArmedInTime` without the choice of the earliest entry, and has a clause for the time
inside `handleRead`: there the timerfd may be spent, and `reset()` sets it again for any time
but 0, which it takes for an invalid one. `TypeCorrect`, `SetsStayAgreed`, `OwnersStayUnique`,
`StaysArmedInTime` and `CancelledNeverWaits` follow. The hazard of `addTimer` on another thread, which reads
the timer after the loop may have deleted it, stays: `OneOwner` is about deletions.

**TcpServer** with its pool and its acceptor, for any number of threads and connections and any
limit of descriptors, from `ProgramsAssumption`. `Inv` holds for every program.
`OwnerInv` and `ThreadInv` say where the owner is in its loops over the threads and what
the place of a thread says of its loop: it is alive from before `loop_` is published until
after `quit()`. `PoolLoopsAlive` follows. `Batches`, `Phases` and `Numbers` say what is queued
where. `Held` says that a channel in a poller belongs to a connection that is in the map or
has its `connectDestroyed` ahead, unless its loop is gone: a connection with events to come
is alive. `Descriptors` counts: while `idleFd_` is given up the descriptors of
connections and others leave its place, unless one of the others took it, so the last
step can open it again; `ReserveKept` follows. `QuietInv` is for programs that do not destroy a server with a pool
while it has connections (`AllQuiet`; `server_teardown` shows why). It adds `Life`: each
connection is up, or not there, or waits for exactly one functor in one loop, and finds
there the state that this functor asserts; and `Teardown`: once the pool quits, no
connection is left. That a functor enters at the end of a queue and leaves at the front,
whatever the batch, is one lemma (`Follows`) for all steps. `AssertionsHold` and `LoopsOutlive` follow.
For the same programs `ServerImplementsLife`: `InOrder` draws from `Life` and `Numbers` that a connection not accepted yet
has no pointer and one that is not down has; `Advances` says of each step that a connection is
accepted under a number never used, goes up, goes down, and is not picked up again once the last
functor or the map has let go of it.

**LogStream**, for any width of the integers, any size of the buffer and any texts, from `LogAssumption` and
`NumbersAssumption`. The latter asks for room, `2^W <= 10^(kMaxNumericSize - 2)` and the same for base 16
(true of 64 bits and 32 characters, and nothing in the code tests it), and for two laws of powers that the
provers do not know; TLC evaluates it for six bits. The digit loops are recursive functions, so what
they compute is shown by induction, written with a set of the values for which the claim may fail
(`LeastExists`, `Induction`): a loop exists and has the type of a text (`LoopExists`, `LoopTyped`), its
digits are those of the number in the notation of `Values`, which reads a text from the left
(`LoopDenotes`), and there are no more of them than the base needs (`LoopLength`). `NumbersExact`: a number
that is not dropped stands in the line as its usual notation. `NothingOutside`: a number starts
only where `kMaxNumericSize` bytes are left, so that also its `'\0'` is inside.

**TcpClient**, for any set of threads, any number of connects and any programs that are `Disciplined`
(`AllDisciplined`), from `ClientAssumption`: the peer and callbacks on the loop's thread end a connection, or
one `forceClose()` of one thread does, and the client is destroyed at rest. `RulesAssumption` in `MCTcpClient` makes
TLC evaluate that the programs of the run obey the rules, and `MCRacing` and `MCLeaving` do not. `ConnectionCurrent` alone is not inductive: `newConnection` overwrites
`connection_` without a test, so one must know that the last connection is gone when it
runs. `OneAttempt` says that between `connect()` and `newConnection` the attempt is in one
place (a thread, the loop, a timer or a functor) and that then `connects = made + 1`;
`LastOnly` says that in this time all connections are `KDisconnected`, that only the
last one made can be in `connection_` or have its channel in the poller, and what is
true inside `newConnection` and between `handleClose` and `removeConnection`. With the functor
`newConnection` run only when no `handleClose` is under way, `connection_` is then empty. `Closers` is what makes
the late store harmless: a thread between its test and its push is the only one there for its connection, which stays
open, because no functor that would close it is queued and the loop's side may not end it. `Gone`: once the
client is destroyed nothing that is bound to it is left. `Telling`: the callbacks so far agree with `state_`.
`TypeCorrect`, `ConnectionIsCurrent` and `AssertsNeverFail` follow. `ClientImplementsLife` adds `Known` (nobody has a pointer
to a connection that was not made yet) and shows with `Advances`, as for the server, that each step takes
each connection one step on in its life or leaves it; a pointer comes from
`connection_` or from another holder, never from nothing.

Only model-checked:

- All liveness (`EveryFunctorRuns`, `QuitTakesEffect`, `ConnectionReleased`, `BacklogDrains`,
  `TimerFires`, `BacklogServed`, `PoolReturns`, `WaiterReturns`): temporal reasoning under fairness and
  `ENABLED` are out of the prover's reach.
- That an instance which breaks the rules of `Disciplined` or `AllQuiet` fails: the four failing
  runs show it by example, and `MCRacing` and `MCLeaving` do when they are given to `TcpClient`.

## 5. Not modelled

- The wrappers in `Socket` and `InetAddress`, but for the outcomes of `accept` and
  `connect`: they have no state of their own, and addresses and names of connections do
  not matter to what is checked.
- Of the log: the filter by level, `setOutput`, `setFlush`, and what the texts say.
- `Timestamp` beyond its order, and its formatting.
- Growth of the array of `epoll_event`, which changes how many events a poll returns.
- `TcpClient::disconnect()` and `stop()`, which are declared and have no body.
- The example programs; they were read for how callbacks use the library.

## 6. Plan

Every safety property that a run checks is stated by a theorem, the five refinements
included. What is left: a detailed connection (`TcpConnection`) in the place of the short one
inside `TcpServer` and `TcpClient`, which now meet only in `ConnectionLife`; the programs that the
passing runs leave out, once the code handles them; and shorter proofs of `TcpServerProofs`.
