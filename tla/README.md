# LuxPolaris in TLA+

LuxPolaris is a C++ network library in the reactor style: one `EventLoop` per thread, non-blocking
sockets behind `Channel`s, timers on a timerfd, `TCPConnection`s shared between loops, and clients and
servers on top.  This directory holds TLA+ specifications of its core, TLC configurations that check
them on small instances, and TLAPS proofs.  Paths below are relative to `LuxPolaris/src`.

    tlc -config EventLoop.cfg EventLoop          # one run; PROJECT.json lists them all
    tlapm EventLoopProofs.tla                    # the proofs

## 1. Inventory

| Component | State | Operations | Meets the others through |
|---|---|---|---|
| `EventLoop` | `looping_`, `quit_`, `callingPendingFunctors_`, `pendingFunctors_` (under `mutex_`), the wakeup eventfd, `activeChannels_` | `loop`, `quit`, `runInLoop`, `queueInLoop`, `wakeup`, `handleRead`, `doPendingFunctors`, channel and timer calls that it forwards | functors queued by any thread; callbacks of channels |
| `Channel` | `events_`, `index_`, `addedToLoop_`, `tie_` | enable/disable, `remove`, `handleEvent` | registers itself with the loop's poller; calls its owner back |
| `EPollPoller`, `Poller` | `channels_` (fd to channel), the kernel's epoll set | `poll`, `updateChannel`, `removeChannel` | called by channels through the loop; fills `activeChannels_` |
| `TimerQueue`, `Timer` | `timers_`, `activeTimers_`, `cancelingTimers_`, the timerfd, raw `Timer*` | `addTimer`, `cancel`, `handleRead`, `reset` | other threads through `runInLoop`; a channel of the loop |
| `TCPConnection` | `state_`, `reading_`, its channel and socket, two buffers | `send`, `shutdown`, `forceClose(WithDelay)`, `startRead`, `stopRead`, `connectEstablished`, `connectDestroyed`, the four event handlers | its loop; its owner's map (`closeCallback_`); any thread holding a `shared_ptr`; timers |
| `TCPServer`, `Acceptor` | connection map, thread pool, listening socket, `idleFd_` | `start`, `newConnection`, `removeConnection`, accept | connections in other loops |
| `EventLoopThread`, `EventLoopThreadPool` | `loop_` under a mutex and condition, `exiting_`; loops and `next_` | `startLoop`, `threadFunc`, destructor; `getNextLoop` | starts and quits loops |
| `Connector`, `TCPClient` | `state_`, `connect_`, `retryDelayMs_`, a channel; `connection_` | `start`, `stop`, `restart`, `retry`; `connect`, `disconnect`, destructor | functors and retry timers bound to raw `this` |
| `Buffer` | byte vector, two indices | append, prepend, retrieve, `readFd` | owned by connections |
| `Sockets`, `InetAddress`, `LuxAny` | none of interest | wrappers | — |

What is hard here, and what correctness means for each part:

* **Threads and the wakeup.**  Everything another thread wants goes into `pendingFunctors_`, followed by
  a write to an eventfd that the loop reads at another time.  Nothing may be left in the queue while the
  loop sleeps; functors run once and in order; `quit()` ends the loop.
* **A batch of events.**  Handlers of one channel may close, remove and delete others that are in the
  same batch, and fds come back from the kernel under another channel.
* **Time.**  Timers are kept by the wall clock and fired by a monotonic one; they are cancelled from
  their own callbacks and each other's, and identified by addresses that are used again.
* **A connection's end.**  The peer's FIN, a hangup, a reset, `forceClose`, a timer and the owner's
  destructor race; each must lead through one DOWN callback to a clean destruction.  Until then the
  stream must reach the kernel in order and the FIN after it.
* **Starting and stopping threads.**  The owner waits for a loop that lives on another thread's stack,
  hands it out, and at last makes it quit and joins, reading `loop_` without its mutex.
* **Reconnecting.**  Retry timers, queued functors and handlers of an attempt that is over outlive one
  another and, some of them, the client; there must be one attempt or connection at a time.
* **Serving.**  A connection is made in the server's loop, lives in another and is removed through both;
  accepting goes on when the process has run out of descriptors.
* **A buffer's indices** under operations at both ends, a vector that grows or moves, and reads that
  overflow into a second buffer.

`PROJECT.json` lists the hazards line by line with the properties that watch them.

## 2. Modules

| Module | What it is |
|---|---|
| `TaskExecutor` | abstract: what `queueInLoop` and `runInLoop` promise |
| `EventLoop` | `EventLoop.cc`, threads included; implements `TaskExecutor` |
| `EventLoopProofs` | theorems about `EventLoop` |
| `Channel` | `Channel` and `updateChannel` as operators on a record; used by the next two |
| `Poller` | `EPollPoller.cc` over several channels, fds and the kernel's set |
| `PollerProofs` | theorems about `Poller` |
| `TCPConnection`, `MCTCPConnection` | one connection with its loop, owner, peer and users; `MC` holds the users |
| `TCPConnectionProofs` | theorems about `TCPConnection` |
| `TimerQueue` | `TimerQueue.cc`, `Timer.cc`, the clocks and the callers |
| `TimerQueueProofs` | theorems about `TimerQueue` |
| `EventLoopThread` | `EventLoopThread.cc` around an instance of `EventLoop` |
| `EventLoopThreadProofs` | theorems about `EventLoopThread`, over those of `EventLoopProofs` |
| `Connector` | `Connector.cc` and its loop, as operators |
| `TCPClient` | `TCPClient.cc` over `Connector`, the connection reduced, and the users |
| `TCPClientProofs` | theorems about `TCPClient` and its connector |
| `EventLoopThreadPool`, `Acceptor` | `EventLoopThreadPool.cc`, `Acceptor.cc`, as operators; peers and other users of descriptors |
| `TCPServer` | `TCPServer.cc` over these two, with several connections and loops |
| `TCPServerProofs` | theorems about `TCPServer`, its acceptor and its pool |
| `ByteQueue` | abstract: what a `Buffer` promises |
| `Buffer`, `MCBuffer` | `Buffer.h`, `Buffer.cc`, beside a `ByteQueue`; `MC` holds the inputs |
| `BufferProofs` | theorems about `Buffer` |

Definitions whose comment says "a mutant" are not part of any specification: each is a wrong version
of the definition that follows it, and `PROJECT.json` says which property notices it.

### EventLoop

The loop thread is a program counter `lpc` over `loop()`: `outside`, `entered` (after
`looping_ = true`), `while`, `poll`, `events`, `io` (in a user's channel callback), `functors`, `task`
(in a functor), `exiting`.  Each access to something two threads share is its own step: `looping_` and
`quit_` are read and written one at a time, the push and the swap are the critical sections of
`mutex_`, the eventfd is written and read.  `quit()` of another thread is therefore up to three steps
(`QuitTest`, `QuitSet` or `QuitReset`, `Wakeup`).  A *task* is one call of `queueInLoop`; it is queued
at most once because a functor object is.  `unwoken` is a history variable: tasks that the loop thread
queues outside `loop()` get no wakeup (`EventLoop.cc:150`).

### Channel and Poller

`Channel` gives the record of one channel and what `updateChannel` and `removeChannel` do to it,
including the case that surprises: a channel that is `kDeleted` is *added* again by any update, even
`disableAll()`.  `Poller` puts several such records under `channels_` and a kernel set keyed by fd, with
an arbitrary user that opens and closes fds and constructs, changes, removes and deletes channels,
in handlers or between iterations.  The assertions of the code are the contract of that user and
appear as guards: in particular that of `EventLoop::removeChannel`, that a channel among the active ones
is removed only by its own handler.  Accordingly `Poller` says what the assertions suffice for, not
that callers keep them; for connections that is `AssertsHold` of `TCPConnection`.
`KernelAgrees` also shows that the `kernel` field by which `TCPConnection` knows its registration is
the entry in the shared epoll set.

### TCPConnection

The I/O thread is in `poll`, among active channels of which this connection's is none (`others`) or one
(`batch`), in this connection's `event`, or in the `functors`; `cb` is the user callback it is in.  Bytes are counted in units numbered in the order in
which `sendInLoop` took them, so `wire \o outBuf` can be compared with the sequence 1, 2, 3...  The
kernel takes any number of units at a write; the peer sends, closes and resets at any time.  The owner
is the map entry of `TCPServer` (or `connection_` of `TCPClient`): `holds`, `removing` after
`closeCallback_`, `gone`.  `Held` is the union of everything that holds a `shared_ptr`; functors are
split into those that bind one (`Owning`) and those that bind `this` (`Raw`).  One of the latter that is called
when nothing holds the connection any more uses freed memory; the model lets it act on the members as they
were, and `connection_release` shows that it happens.  An assertion of `handleClose`, `connectEstablished`,
`Channel::remove` or `removeConnectionInLoop` that would fail is recorded in `aborted`; those of the destructors
are `CleanDestruction`, that of `EventLoop::removeChannel` (`EventLoop.cc:170`) is a guard of `OwnerDtor`.

A run fixes which operations the user mixes (`contract`); `CleanContracts` are six programs that keep
to what the header asks ("NOT thread safe, no simultaneous calling"), in each of which the user lets its
`TCPConnectionPtr` go at some time, and for which every property holds.  What they leave out, and why:

* `startRead`/`stopRead` are called in the loop thread for a connection that is not down, and from another
  channel's callback only if this connection's turn in the same batch is not still to come: a `stopRead()`
  before a hangup of that batch leads where `connection_stop_read` leads.
* The server is destroyed in a functor or in a callback of a batch in which this connection is not active
  (`OwnerDtor`): in any other callback `EventLoop::removeChannel` asserts (`EventLoop.cc:170`).
* Another thread's `shutdown()` may store `kDisconnecting` after `handleClose` has run (`TCPConnection.cc:194-195`).
  `OtherCloser` has this, with the last reference going afterwards: then `~TCPConnection` fails its assertion
  (line 64), and `CleanDestruction` excepts this case, `StoredLate`, and nothing else.  It is a fault of the code,
  reported in section 5.  `AssertsHold` and `Lifecycle` do not notice the late store: nothing else looks at
  `state_` any more.
* Another thread's `shutdown()` beside its `send()`s: a `send` functor queued before would, after the late
  store, enable writing on the dead connection.
* Another thread's `forceClose()`: in the module (`forceCloseOther`), in no passing contract.  Its late store makes
  `forceCloseInLoop` call `handleClose` again, with a second DOWN callback and a failing assertion in
  `removeConnectionInLoop`.

### TimerQueue

A `Timer` is an address in `heap`, reused after deletion, and a `TimerId` is the address with its
sequence number.  The wall clock `now` and the timerfd's countdown `armed` tick together; `Jump` sets
the wall clock only.  Requests of other threads pass through `queue`, the loop's functors; calls of the
loop thread act at once, also in a timer's callback.  `handleRead` is three kinds of step: the head
(`HandleRead`), one per callback, and `Reset`.  A timer that a callback cancels while its own turn in the batch
is still to come is called once more (`TimerQueue.cc:180-182` goes through the vector whatever was cancelled):
`asked` holds it until that call and `dead` after it, while any other that `cancelInLoop` finds is `dead` at once.
`requested`, `asked`, `dead`, `ran`, `made` and `current` are history.  `CallsArePrompt` keeps apart the race of `addTimer` with the loop, which has a run of its own.

### EventLoopThread

The variables of `EventLoop` with four more: `loop_`, the program counters of `threadFunc()` and of the
owner, and whether anybody but the destructor called `quit()`.  Each thread step is an action of
`EventLoop` conjoined with where `threadFunc` is; the owner is one of the loop's callers, so that the
`quit()` of the destructor is the same three steps as anyone's.  The destructor's two reads of `loop_`
are two steps.  If somebody else made the loop quit, the second may find null and the program crashes:
the comment of `EventLoopThread.cc:31` admits as much, and `DestructorFindsLoop` speaks of the other case.
`startLoop` returns unless somebody made the loop quit: it may have run and ended (a callback that calls
`quit()`) before the waiter saw it, and then the wait is for ever.  The destructor's join ends unless its `quit()`
was lost between `EventLoop.cc:96` and 97 or undone by one that read `looping_` false (`Forgotten`); then it is
for ever too, which section 5 reports.

### Connector and TCPClient

`Connector`'s operators are the member functions; `place`, `todo`, `pend` and `run` are the loop, as in
`TCPConnection`.  A step is one callback or functor, or one call of a user; a call of another thread is
two, the flags and the functor (the two `connect_`, the client's and the connector's, are stored in one step).
Between the test of `removeConnection()` and the store of `restart()` the loop's thread waits at `cb = "restart"`,
where the other thread may call `stop()` or `disconnect()`; `overtaken` remembers that `connect_` was set again
between a `stop()` and its `stopInLoop()`.  An assertion that fails ends the program.  `timers` counts the retry timers, each of which holds the connector;
`hack` is the destructor's, set for one second.  Errors of `connect()` are all three of the code's
classes: under way, try again, and give up with a line in the log (`gaveUp`; no callback tells the user).

The users' contract, where the code asserts or uses freed memory beyond it:

* `connect()` is called once ("FIXME: check state", `TCPClient.cc:94`), `stop()` and `disconnect()` at any time,
  before it too.  Called during an attempt or a
  connection it fails the assertion of `startInLoop`; called during a retry's delay it makes two attempts,
  the second of which fails it.
* A client with a connection is destroyed in the loop's thread, outside the connection's callbacks but the one for
  DOWN, and with no functor of the connector queued (`Settled`): those bind `this`, and the client may be
  the last to hold the connector.  In the UP callback `channel_` is not yet reset and `~Connector` asserts.
* The destructor's timer is longer than the iterations that functors already queued need (`LoopPoll`): the
  code relies on it ("FIXME: HACK"), in a loop that is held up for more than a second it need not be so.
* A retry timer does not expire in the batch of events whose handler set it: it waits for 500 ms at
  least, which a handler before it would have to take.

### Acceptor, EventLoopThreadPool, TCPServer

Each loop is a queue of functors called in order, which is what `EventLoop` implements.  `spare` is the
program counter of `handleRead` in the EMFILE path, so that other threads open and close descriptors
between any two of its system calls; the server's loop does nothing else meanwhile.  A connection has
its state, its loop and its descriptor.  `setThreadNum` is the choice of `numThreads` in `Init`.
Errors of `accept()` that are logged as fatal (`Sockets.cc:129-143`, ENFILE and ENOMEM among them) end the
process and are no step.  A server is destroyed in a functor or in a callback of a batch in which neither its
acceptor nor one of its connections is active (`EventLoop.cc:170`).  Destroying it is guarded by `MayDestroy`: with threads in the pool, only when it has no
connections.  Otherwise the code destroys the pool after queueing `connectDestroyed` to its loops, one
that has quit never calls it, and a connection that closes meanwhile calls `removeConnection` on the
server that is gone.

### Buffer

A buffer is a record of the vector and the two indices, and the members are functions from buffer to
buffer; each action also takes the `ByteQueue` operation that it is meant to be, and `ContentsKept` says
that the two agree.  The assertions on arguments are the user's contract and so guards; those on the
buffer's own state are `TypeOK` and `SpaceFound`.  The assertion of `peekInt16` on the bytes (line 101) is a guard of
`ReadInt`, so no property watches it; `ContentsKept` has the conversion right for every value, those included for
which the assertion would end the program (section 5).  A byte has `Base` values and an integer two bytes, its
order in memory that of a little-endian host.

## 3. Runs

| Run | Shows | States |
|---|---|---|
| `event_loop` | types, `NoLostWakeup`, `EveryTaskRuns`, `QuitStops`, refinement of `TaskExecutor` | 69 000 |
| `connection` | types, `AssertsHold`, `StreamInOrder`, `WritingIffBuffered`, `Lifecycle`, `CleanDestruction`, `FinAfterData`, `ShutdownSendsFin`, `ClosesComplete` | 213 000 |
| `connection_stop_read`, `connection_release`, `connection_server_exit` | violated, see section 5 | |
| `timers` | types, `HeapOwned`, `TimersAccounted`, `TimerfdArmed`, `CancelledStaysCancelled`, `OnceAndNotEarly`, `DueTimersRun` | 329 000 |
| `timers_add` | violated: `addTimer` reads a deleted timer | |
| `poller` | types, `KernelAgrees`, `MapAgrees`, `ActiveAlive` | 1 400 |
| `client` | types, `AssertsHold`, `OneAtATime`, `StopStays`, `KeepsTrying` | 31 000 |
| `loop_thread` | types, `DestructorFindsLoop`, `WaitsEnd` | 34 000 |
| `server` | types, `HeldOnce`, `FdsAccounted`, `EveryoneServed` | 17 000 |
| `buffer` | types, `SpaceFound`, `ContentsKept` | 39 000 |

**Bounds.**  `EventLoop`: two callers and three tasks; with three tasks one can be in the local vector,
one pending, and one on its way, and two callers make two `quit()`s race.  `TCPConnection`: three calls
of two units each and a high-water mark of three, so that the buffer holds a rest, grows across the
mark and drains in pieces; one message from the peer (the code treats all alike).  `TimerQueue`: two
addresses and two timers, so that an address is reused and two timers share a batch; one cancel, one
wall-clock jump, three instants.  `Poller`: two channels, two fds, so that two channels meet on one fd
and one stays on each.  `TCPClient`: two calls besides `connect()`, which with the
destructor is enough for a stop during an attempt, a retry and a connection; the delay doubles from 1 to
its maximum of 3.  `EventLoopThread`: the owner, one more caller and two tasks.  `TCPServer`: four peers,
more than the three descriptors, one of which is the spare; up to two pool threads, so that the server's
loop alone, one other and a round of two occur.  `Buffer`: a header of one byte, an initial size of two, an
`extrabuf` of two and a vector of at most six, so that it grows, moves, overflows and loses its header
within a few operations; inputs are a half line end, a byte after it, and four bytes, a negative integer is written.
The bounds `MaxPeers`, `MaxSize`, `MaxCalls`, `MaxIn`, `MaxTimers`, `MaxTime`, `MaxCancels`, `MaxJumps`
are guards of the user's, peer's and clock's actions only (`MaxSize` of all that would grow the vector).

**Deadlock** is checked except in `timers`, where all timers may have been used up, in `loop_thread` and
`server`, where thread and server have an end, in `client`, where the assertion that `AssertsHold` excepts ends
the program, and in the violation runs of bounded users.

**What the properties except.**  Where the code does go wrong, the property names the case, and section 5 tells it:
`QuitStops` and `WaitsEnd` the forgotten `quit()`, `CleanDestruction` the late store (`StoredLate`), `AssertsHold` of
`TCPClient` the overtaken `stop()`.  `FinAfterData` is about what `sendInLoop` took: a `send()` of another thread
still queued when the loop's thread calls `shutdown()` is not counted.  `StopStays` is about the loop's thread: a
`stop()` of another thread can be overwritten by `restart()`.  `CancelledStaysCancelled` allows the one call
of a timer whose turn in the batch is still to come.

**Fairness.**  A thread that runs takes its next step (callbacks return, calls once begun finish):
weak fairness of `LoopStep`, `CallerStep` and their likes.  `epoll_wait` returns when a descriptor is
ready, which for `EventLoop` is the eventfd; neither other descriptors nor the ten-second timeout are
counted on, because a wakeup that only the timeout repairs is lost.  For a connection, the peer that
neither closes nor resets keeps reading, so there is room again and again (strong fairness of
`Poll(TRUE)`); the owner's loop runs its functors; the timer expires while its loop goes on (strong,
because it fires only among the events of an iteration).  For timers, time passes.  For a client, an
attempt ends, a timer fires, and a server tried again and again is reached at last: `KeepsTrying` is
about the client, not about the network.  For a server, its loop handles the listening socket while
somebody is waiting there, and each loop calls its functors (strong, since the server's may be in
`handleRead` now and then).  That `accept()` fails with ECONNABORTED is not fair.  Starting a
loop, calling, sending and closing are never fair: nothing obliges anyone to do them.

## 4. Proofs

`EventLoopProofs`, for any sets of callers and tasks, from no assumption on either:

* `TypeCorrect`: `TypeOK` is inductive.
* `NoWakeupLost`: `NoLostWakeup` speaks of the loop at `poll` only.  The strengthening `WakeupCovers`
  says that outside the phase of events any pending functor that was to wake the loop is covered by a
  wakeup, readable or under way.  The phase of events is exempt because the eventfd is read there; the
  swap that follows takes every functor pushed before the read, and `callingPendingFunctors_` makes the
  pushes of the loop thread after it wake the loop again, which is why that flag exists.
* `Implements`: every step maps to a step of `TaskExecutor` or leaves it alone, with
  `functors \o pendingFunctors` for the queue: the swap is a stutter.
* `NoTaskTwice`: the executor's `AtMostOnce` is carried over by the same mapping.

`PollerProofs`, for any sets of channels and fds, assuming only that the markers `NoFd` and `NoChannel`
are not among them (`NamesAssumption`): `PollerType`, `KernelInStep`, `MapInStep` and `NoDeadChannel` say that `TypeOK`,
`KernelAgrees`, `MapAgrees` and `ActiveAlive` hold in every reachable state.  The four are inductive only
together, and with `CurrentHandled` (the channel whose handler runs is among the active ones and not
to be handled again): the map shows that a channel that is updated or removed shares its fd with no
other registered one, so the kernel's entry changes for it alone; the kernel's entries point at
registered channels, so `poll()` reports live ones; and `CurrentHandled` with the assertion of
`removeChannel` keeps removal away from channels whose turn is still to come.

`BufferProofs`, for every size of header, first vector, `extrabuf` and bound, every base of at least 2 and
every set of inputs (`SizesAssumption`, `InputsAssumption`): `BufferType`, `RoomFound` and `BytesKept` say that
`TypeOK`, `SpaceFound` and `ContentsKept` hold in every reachable state.  All three follow from one
invariant, `Shows(buf, content)`: the bytes of the byte queue lie between the indices, and the vector is
at least as long as the header.  The last part is what `TypeOK` lacks to be inductive, as `retrieveAll()`
sets both indices to `kCheapPrepend` without a look at the vector.  Below the operations stand lemmas on
bytes in a vector that is grown, moved, written to and cut (`BytesResized` to `BytesBetween`), on the two
digits of a number, for the conversions, and on the first line, which `findCRLF()` and `RemoveLine` agree on.

`EventLoopThreadProofs`, for any sets of callers and tasks, the owner being one of the callers
(`OwnerAssumption`).  `LoopIsEventLoop` says that what the thread runs is an `EventLoop`: every step of the
thread, the owner or a caller is a step of `EL!Next` or leaves the loop alone.  So the theorems of
`EventLoopProofs` hold of it unchanged; `ThreadLosesNoWakeup` is one of them, carried over.
`ThreadTypeCorrect` and `DestructorSafe` (`DestructorFindsLoop`) then need only what the owner and
`threadFunc()` add: as long as nobody but the destructor called `quit()` (`NobodyQuits`), `quit_` stays
false and the loop is not left until the destructor stores to `quit_`, so that `loop_`, once `startLoop()` has
returned, is still set at both reads.

`TimerQueueProofs`, for any sets of addresses, callers, delays and intervals and any bounds, whether or not
calls are prompt (`TimeAssumption`): `TimerTypeCorrect`, `TimersOwned`, `NoTimerLost`, `TimerfdStaysArmed`
and the action properties `CancelIsFinal` (`CancelledStaysCancelled`) and `CalledOnceInTime` (`OnceAndNotEarly`).  The invariant
joins `Owning` (each `Timer` is in exactly one of `timers_`, the vector of expired timers and the queued
additions), `Seqs` (a sequence number is that of one `Timer`), `Called` (one that was called and
does not repeat is still in the vector, so `reset()` will delete it), `Cancelled`, `Armed` and `Accounted`.
`Cancelled` is where the design shows: a cancellation by a callback is kept in `cancelingTimers_` under
address *and* sequence number, so that an address used again is another timer; a cancelled timer is deleted
already (`Deleted`), or called and to be dropped by `reset()` (`Dropped`), or has one call to come (`LastCall`).

`TCPConnectionProofs`, for messages and a high-water mark of any positive size and any bounds
(`UnitsAssumption`, `BoundsAssumption`), has two invariants.

* `DataInv` is about the stream and asks nothing of the users: any set of contracts, disciplined or not.  It gives
  `ConnectionTypeCorrect`, `StreamKeepsOrder`, `WritesWhatIsBuffered` and the action property `FinComesLast`.
  Beside the order of `wire \o outBuf` it says that nothing accepted is missing from the two unless the
  write side was lost to a reset or was shut down (`Stream`); with `WritingIffBuffered` that is what makes
  `shutdownInLoop()` right to test `isWriting()` for an empty buffer.
* `LifeInv` is about the life cycle: a connection is before UP, up, or in one of five stages after DOWN
  (`Before`, `Up`, `Down`), each with its state, channel, owner, callback and queued functors; handlers that may
  close it are due only while it is up (`HandlersDue`).  It gives `NoAssertionFails`,
  `CallbacksInOrder` and `DestroyedClean`.  These have the hypothesis `AllDisciplined`: the users mix only calls
  that `Disciplined` allows: either those of the loop thread and `send()` of others, without
  `forceClose()` beside `stopRead()` or a destroyed owner, nor `shutdown()` beside the latter (`InLoopUse`), or another
  thread's `shutdown()` with the loop thread's `send()` and `shutdown()` and a last reference that goes at any time
  (`OtherThreadUse`; `DestroyedClean` then says that the destructor finds either `kDisconnected` or a `state_` that
  was stored late).  Without it the theorems are false: `connection_stop_read` and
  `connection_server_exit` are two of the mixes left out, and the late store of `state_` described
  under TCPConnection above is the reason for the third.  `CleanAssumption` of
  `MCTCPConnection` has TLC confirm that the six contracts of the run `connection` satisfy the hypothesis.

`TCPServerProofs`, for any number of descriptors, peers and threads (`FdsAssumption`, `ThreadsAssumption`):
`ServerTypeCorrect`, `ConnectionsHeldOnce` (`HeldOnce`) and `DescriptorsAccounted` (`FdsAccounted`).  The
invariant says of each connection what its state, the map and the three functors that carry it say of
one another (`Places`), that a functor is once in the queue of its own loop (`Queues`), where
the spare descriptor is at each step of `handleRead()` (`Listening`), and that `free` is what nobody holds (`Counted`).
`Listening` excepts the case that another thread took the last descriptor between `close(idleFd_)` and
`open()` (`raced`), as the code must.

`TCPClientProofs`, for any number of calls and any delays with 0 < `InitDelay` <= `MaxDelay` (`CallsAssumption`,
`DelayAssumption`): `ClientTypeCorrect`, `OneSocket` (`OneAtATime`), `ClientAssertsHold` and the action
property `StopIsFinal` (`StopStays`).  The invariant counts: a queued or half-made start, a retry
timer, a connecting channel and a connection are together at most one (`OneThing`).  That is kept because whoever may
start again does it with none of them there: a `resetChannel` still pending outside a batch, or a retry timer or a
close in a batch with the channel not yet reset, is there only if nothing will start again or a `stop()` was
overtaken (`Stopping`, `BatchDue`); and a client that is gone leaves nothing bound to its connector
(`Ending`).  What an overtaken `stop()` can lead to besides is the end of the program in `connecting()`, a state
of its own (`Ended`).  `Occurrences` counts functors in a queue, and four lemmas say what a push and a pop do to it.

So every invariant and every safety action property that the passing runs check is proved.  Assumptions
on constants are evaluated by TLC in each run.  Only model-checked are the liveness properties (`EveryTaskRuns`,
`QuitStops`, `ClosesComplete`, `ShutdownSendsFin`, `DueTimersRun`, `KeepsTrying`, `WaitsEnd`, `EveryoneServed`):
they rest on fairness, which is out of the prover's reach.  The proofs are about the models with the
users' contracts of section 2: what those leave out, they leave out too.

## 5. Where code and documentation part

* `loop()` clears `quit_` after it has set `looping_`, so a `quit()` in between does nothing, although
  "Quits loop." (`include/EventLoop.h:83`).  `QuitStops` says what does hold.  When it is the `quit()` of
  `~EventLoopThread`, the join waits for ever.
* `shutdown()` of another thread ("FIXME: use compare and swap", `TCPConnection.cc:193`; `TCPClient::disconnect`
  calls it) may store `kDisconnecting` after the connection went down, and `~TCPConnection` then asserts
  (line 64).  The same in `forceClose()` leads to a second DOWN callback.  TLC finds the first when `StoredLate` is
  taken out of `CleanDestruction`, the second when `forceCloseOther` is put into a contract.
* `Connector::stop()` "can be called in any thread" (`include/Connector.h:63`), but one that falls between the test
  of `TCPClient::removeConnection` (`TCPClient.cc:155`) and `connect_ = true` in `restart()` (`Connector.cc:114`)
  is lost: its `stopInLoop` closes the new attempt and, `connect_` being set, has it tried again.  In a loop held up
  for the 500 ms of that timer the attempt may moreover start before `resetChannel`, and `connecting()` asserts
  (`Connector.cc:120`).  A `stop()` with a `connect()` right after it does the same.
* `stopRead()` then a close: `disableAll()` puts the fd of a `kDeleted` channel back into the epoll set; a
  hangup then calls `handleClose` again and its assertion fails.
* `send()` is "thread safe" (`TCPConnection.cc:91`), but the functor it queues binds `this`.
* `~TCPServer` under a connection in `kDisconnecting`: `connectDestroyed` removes a channel that still
  has its events, and `Channel::remove` asserts.
* `addTimer` "must be thread safe" (`include/TimerQueue.h:73`), but reads the timer after handing it over.
* `peekInt16` and its likes assert that the bytes, read in host order *before* the conversion, are not
  negative (`include/Buffer.h:81`, `92`, `101`).  On a little-endian host that is the sign of the value's
  low byte: `Buffer_test.cc:132` appends -2 as FF FE and reads it back at 136, which aborts in a build
  with assertions.
* `TCPServer::start` is "Thread safe." (`include/TCPServer.h:90`), but starts the pool in the calling
  thread, which asserts that it is the loop's (`EventLoopThreadPool.cc:37`).

## 6. Plan

Done: `TaskExecutor`, `EventLoop`, `Channel`, `Poller`, `TCPConnection`, `TimerQueue`, `EventLoopThread`,
`Connector`, `TCPClient`, `Acceptor`, `EventLoopThreadPool`, `TCPServer`, `ByteQueue`, `Buffer`, and the safety proofs
of all of them.  Next: theorems that tie components together, first that the queues of functors
in `TCPServer` and `TCPConnection` are those of `TaskExecutor`, and that a connection of `TCPServer` is a
`TCPConnection` with less detail; and wider contracts for `TCPConnection` where the code bears them.

Not modelled, and why: `InetAddress`, most of `Sockets`, `LuxAny` and the umbrella header have no state
that the rest depends on; logging, threads, mutexes and conditions belong to a library outside the
repository; the destructors of `EventLoop` and `TimerQueue` run when nothing is left to interleave with; the errors
of `accept()` that end the process;
`startRead` and `stopRead` from other threads, `forceClose` mixed with them, and the clients and servers
that break the contracts named above are described but not run.
