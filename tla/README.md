# Verification of mayday

mayday is a C++ reactor library (a descendant of muduo): an event loop per
thread, timers, TCP servers, clients and connections.  The repository has no
tests.  The TLA+ modules in this directory model its core, TLC checks them on
small instances, and TLAPS proves every invariant and action property those runs
check for every instance.

## 1. The system

| component | source | state | operations | interacts with |
|---|---|---|---|---|
| NetworkLoop | `net/NetworkLoop.*` | stage of `loop()`, `quit_`, `looping_`, `eventHandling_`, `callingPendingFunctors_`, active channels, pending functors, event descriptor | `loop`, `quit`, `runInLoop`, `queueInLoop`, `wakeup`, `updateChannel`, `removeChannel` | polls a Poller, dispatches Channels, drives a TimerManager; other threads queue functors |
| NetworkLoopThread | `net/NetworkLoopThread.*`, `base/Thread.*`, `base/Semaphore.h` | `loop_`, semaphore | `startLoop`, `threadFunc`, destructor | owns the thread a NetworkLoop lives in |
| Channel | `net/Channel.*` | `events_`, `revents_`, `index_`, `addedToLoop_`, `eventHandling_` | `enable…`, `disable…`, `remove`, `handleEvent` | registers with the poller, calls the owner's handlers |
| Poller, EPollPoller, PollPoller | `net/*Poller.*` | `channels_`; the kernel's epoll set, or the `pollfd` array | `poll`, `updateChannel`, `removeChannel` | return channels to the loop |
| TimerManager | `base/TimerManager.*` | wheels, `timerMap_`, `readyTimers_`, `checkTime_` | `runAfter`, `runEvery`, `removeTimer`, `detectTimer` | called by the loop once per iteration |
| TcpServer, Acceptor | `net/TcpServer.*`, `net/Acceptor.*` | `connections_`, `nextConnId_`, the listening socket | `start`, `listen`, `handleRead` (`::accept()`), `newConnection`, `removeConnection`, destructors | creates and forgets TcpConnections |
| TcpConnection | `net/TcpConnection.*` | `state_`, `destroyed_`, buffers, delayed-send flags | `send`, `delaySend`, `setSendParam`, `forceClose`, the four handlers, `connectEstablished`, `connectDestroyed` | a Channel, functors and timers of the loop, user callbacks, its server or client |
| TcpClient, Connector | `net/TcpClient.*`, `net/Connector.*` | `connectors_`, `connections_`; state, channel and timeout of each attempt | `connect`, `delayConnect`, destructor; `start`, `stop`, handlers | a Connector answers to its client, which makes a TcpConnection |
| Buffer | `net/Buffer.*` | an array and two indices | `append`, `retrieve`, `move`, `readFd` | used by TcpConnection in both directions |
| Socket, SocketOps | `net/Socket.*`, `net/SocketOps.*` | a descriptor, until the destructor closes it | `accept`, `listen`, `close`, options | owned by connections, the acceptor and connectors |
| InetAddress, Timestamp, Mutex, logging, definitions | the rest of `net/` and `base/` | none of their own | conversions, platform wrappers | not modelled |

What is hard here:

* *Threads.*  Only `queueInLoop()` and `quit()` cross threads, and
  `queueInLoop()` releases its mutex before it wakes the loop.
* *User code inside handlers.*  Every callback may send, close, keep or drop a
  connection, connect again, or destroy the client or server, and returns into
  a handler that goes on with what it knew before.
* *What arrives late.*  Events already polled, functors already queued and
  timers already started reach a connection, a connector or a client that has
  moved on, been closed or been destroyed.
* *Failure.*  Partial writes, `EWOULDBLOCK`, errors, hang-ups and timeouts come
  in any order and together; `::accept()` runs out of descriptors; the clock is
  set back.
* *Descriptors are used again.*  A closed socket's number belongs to the next one
  that is opened, and the pollers know channels by that number.
* *Records of the same thing that must agree.*  `index_`, `channels_` and the
  kernel's set (or the `pollfd` array); the wheels and `timerMap_`; names and
  connections in the server's map; `connectors_`, `connections_` and the
  lives of what is in them.

`PROJECT.json` lists these as hazards with their lines and the properties that
cover them.

## 2. Modules

`MCx.tla` holds the constants of the runs of `x.tla`, and `xProofs.tla` the theorems
about it (`NetworkLoopProofs` those of NetworkLoopThread too).  Definitions keep the names of the source.  Mutated forms of a definition, each a plausible bug of the code
beside it, are commented "bug:" and are used by no specification.

### NetworkLoop (`NetworkLoop.tla`, `FunctorQueue.tla`)

`pc` is the owner thread's place in `loop()`: `while`, `poll`, `events`,
`timers`, `pending` (before the swap of `doPendingFunctors()`), `functor` (from
the swap to the end of the batch), `timeout`.  Each place has its action
(`LoopTest`, `PollReady`, `PollTimeout`, `HandleChannel`, …).  User code on the
owner thread may queue functors and register or remove channels at any point
where the code runs it (`UserCode`).  A thread's `queueInLoop()` is `QueueRemote`
(the critical section) and later `Wakeup` (the write), with anything in between.
The event descriptor is a Boolean, for reading an eventfd resets its count.
`FunctorQueue` is the abstract specification: one FIFO queue.

### NetworkLoopThread (`NetworkLoopThread.tla`)

Extends `NetworkLoop` with the owner's steps (`startLoop()` and the destructor)
and `threadFunc()`'s, so that the loop is always run as the library runs it: on a
thread that constructs it, publishes its address, loops, and destroys it.  The
init callback and user code on the loop's thread queue functors and change
channels, and other threads queue functors once they have the address.
`userQuits` is chosen in the initial state: does anybody
but the destructor call `quit()`?  The guarantees about the address handed out
are for the case in which nobody does, because otherwise a user can end the loop
at any time and has to know it.

### Pollers (`Channel.tla`, `Poller.tla`, `EPollPoller.tla`, `PollPoller.tla`)

`Channel` has the part of class Channel that talks to a poller, with the
constant `Uses` naming what callers do beyond enable, disable, remove.
`EPollPoller` has one action per branch of `updateChannel()` and the kernel's set
as a variable, in which adding what is there, or changing or deleting what is
not, fails; the kernel returns the raw pointers it was given.  `PollPoller` has
the array with its removal by swapping and its hidden entries (`-fd-1`).
`Poller` is what both promise: only registered channels are reported, and
(with `ReportsDisabled` FALSE, as for `poll(2)`) only those that ask for something.
The loop's own model assumes just the first.

### TimerManager (`TimerManager.tla`)

One step per tick of wheel 0, one per call of `cascade()`, one per callback and
its return.  The clock advances while user code runs, so that timers are placed
in wheels that are behind it, and it may be set back once (`SetBack`), which leaves
the wheels in front of it; `lag` records by how much, above or below zero, the
wheels were off when a timer was placed.  The ticks per spoke of each wheel, shifts
by constants in the code, are the recursive function `Threshold`.  One call is left out by a guard:
removing a timer that already waits in `readyTimers_` (the vector keeps a pointer to
the deleted node).

### TcpConnection (`TcpConnection.tla`)

One connection from `TcpServer::newConnection()` to its release, with the
server's part in it.  Everything runs on one thread, so the model is a call
stack: `stack` holds the user callbacks being run, `todo` the callbacks
`handleEvent()` has still to make, `queue` and `timers` what will arrive later.
User code may call `send`, `delaySend`, `setSendParam`, `forceClose`, keep or drop
its pointer, and destroy the server.  Every `::send()` may write a part, fail
with `EWOULDBLOCK` or fail.  A byte is its number in the order of the calls.
Both ways of sending may be called with no bytes.  `Alive` is the existence of a
`shared_ptr`.  `past` records what has happened that the properties of the stream need
to know: that the user has sent without delay (`"now"`) and with (`"delayed"`), which
together are `mixed`; that an empty `delaySend()` has started a timer for nothing
(`"empty"`); and that `handleWrite()` has left `isStartDelayTask_` set with no timer
(`"stale"`).  No property leaves out a user who keeps to one way of sending.

### TcpServer (`TcpServer.tla`)

The server, its Acceptor and, reduced to their life, several connections, on the
same abstraction of the loop as TcpConnection.  What TcpConnection cannot show with
one connection is the subject here: channels of the acceptor and of connections
reported together; descriptors that the kernel gives out again, of which there are
only `MaxDescriptors`, so that `::accept()` fails; names made from `nextConnId_`; the
destructor, which goes through the map while the callbacks of `connectDestroyed()`
run user code.  A descriptor is in use while its connection is alive (`~Socket()`
closes it), and being alive is the existence of a `shared_ptr`, as in TcpConnection.
`start()` may come from the loop's thread or from another, which queues `listen()`.

Two uses are left out by the guard of `Destroy`: the server destroyed while events
are handled, where it can free the channel that is in `handleEvent()`, and the
server destroyed while `listen()` is queued with a plain pointer to its acceptor.

### TcpClient (`TcpClient.tla`)

The client with the Connectors and, reduced to their life, the TcpConnections
it creates, in the same style.  Errors, writability and the timeout of an
attempt are independent.  The destructor is a frame on the stack, whose
callbacks may call `connect()` again.  `sockets` has the socket of every call of
`connect()`, those that `::connect()` refuses at once and nobody closes too (`Refused`).
The destructor is not run while events are handled,
nor while `delayConnect()` timers (which hold a plain pointer) are pending.

### The life of a connection (`ConnectionLife.tla`)

What an owner, a TcpServer or a TcpClient with its map `connections_`, and a
TcpConnection promise each other: the connection is established once and closed
once; until it is closed its owner has it or has destroyed it; the owner forgets
it only when it is closed; `connectDestroyed()` finds it established and leaves it
out of the map and not connected.  Three modules that see different parts of the
code implement it: `TcpConnection` with one connection in detail (`IsConnectionLife`),
`TcpServer` and `TcpClient` for each connection they make (`AreConnectionLives`).  No
run lists these properties, because they are theorems (section 5).

### Buffer (`Buffer.tla`, `ByteQueue.tla`)

The array and the two indices with the operations as `TcpConnection` combines
them.  `ByteQueue` is the abstract specification: a FIFO queue of bounded
capacity, which the bytes enter with the numbers in which they arrive, and which
refuses a write only when it would not fit.

## 3. Runs

Every run explores its whole state space.

| run | question | instance |
|---|---|---|
| NetworkLoopThread | are wakeups, removed channels, the order of functors and fairness to channels safe under concurrent use; does the thread's owner always meet a loop that exists, and does the destructor return? | 2 outside threads, 2 functors, 2 channels |
| TimerManager | is a timer ever lost, doubled, late, or earlier than the lag? | 2 timers, delays 5 and 9 ms, 3 wheels of 2 spokes, 2 ms a tick, 13 ms of time, lag up to 4 ms, clock set back by 3 ms |
| TcpConnection | stream, assertions, lifetime, termination of one connection | buffer of 2 bytes, 3 bytes sent, empty sends while nothing is pending |
| EPollPoller | do channel, map and kernel agree under every use? | 3 channels, 2 sharing a descriptor |
| PollPoller | the same for the array, without re-enabling and without disabling a new channel | same |
| TcpServer | do map, poller, descriptors and call stack agree, is nothing left behind, and are waiting peers served? | 4 peers, 2 descriptors |
| TcpClient | is each attempt answered once, to a live client, and where is its socket? | 2 attempts |
| Buffer | is the buffer a bounded FIFO queue of the bytes written? | gap 2, capacity 4, 6 bytes told apart |
| NetworkLoopThreadAsserted, TcpConnectionMixed, PollPollerReenabled, TcpClientImmediate | the findings below: TLC finds the counterexample | |

Why these bounds.  Two threads and two functors are enough for each race on the
pending vector: one functor in the batch, one queued meanwhile, one thread between
push and write while the other does both.  `OnePendingCopy` keeps one copy of a
functor waiting, which makes the queue finite without limiting how often a
functor is queued.  Three wheels are the least that cascade into one another
(the code has five); the two delays put timers on the second and on the third
wheel, the time is most of a turn of the largest, the lag is two ticks, and a step
back of 3 ms is more than a tick and no multiple of it.  A buffer of 2 and 3 bytes
gives partial writes, a write that fits the rest, one that does not, and one
that waits behind another.  Sends of no bytes start functors and timers without
using up the bytes: `MaxPending` allows one only while no other functor or timer is
pending, which is enough for a timer with nothing to send to meet everything else.  Two channels on a descriptor make it change hands
with the third beside them in the array.  Four peers on two descriptors make
`::accept()` fail, each descriptor be given out again, and connections be reported
together with the acceptor.  Two attempts let one be answered
while another is under way and let the destructor's callbacks start one.  Period
6 exceeds the capacity, so bytes in the buffer are never confused.

Deadlock is checked except in the NetworkLoopThread runs, where `startLoop()`'s
assertion may abort the owner.

Fairness is what the code's scheduling gives.  In `NetworkLoopThread` threads are
scheduled and callbacks return, `poll()` returns once the event descriptor is
readable, and a thread between push and wakeup gets to its write; the owner need
never destroy the thread, and the timeout of `poll()` (5 ms, `kPollTimeMs`) is *not*
assumed: `WokenFunctorRuns` and `IOServed` do without it.  `JoinReturns` has it as a
premise of its own, since `quit()` wakes nobody.  In `TcpConnection`, `TcpServer` and
`TcpClient` callbacks return, `poll()` returns,
each stage of the loop deals with finitely many events, timers and functors, so
the loop goes round, and what is queued is run: this is what `NetworkLoop` is
checked and proved for (`IsFunctorQueue`, `WokenFunctorRuns`, `IOServed`).  The stages
and the functors have strong fairness, because they wait while user code runs: the
user may enter callbacks again and again, but not keep the loop from ever going
on.  Timers
fire, which `TimerManager` checks as safety (`NotTooLate`).  That a socket becomes
writable again and again is assumed of a peer that reads (`BufferDrains`).

## 4. What the checks show

* No functor queued from another thread, or by a functor, is left in a loop
  that sleeps; functors run once each in order of queueing; a batch ends even
  if functors queue functors; removing channels within handlers is safe
  under the assertion of `removeChannel()`.
* With only the destructor quitting the loop, the address `startLoop()` returned
  is good whenever it is used; the destructor returns from a join.
* Timers are linked in exactly one place, late by no more than a tick and what the
  wheels were ahead of a clock set back, and early by no more than the wheels were
  behind when they were placed.
* A user who always or never delays has the bytes delivered in order; however the
  user sends, buffered bytes have somebody to send them, and a timer has something to
  do, except in the three ways that `SomebodySends` names and the list below explains;
  `handleWrite()` and `handleClose()` never meet the states they assert
  against; callbacks come in order; the connection outlives its registration and
  its event; closes and releases happen.
* Both pollers keep their records in agreement, under all uses for epoll and
  under those without re-enabling, or disabling a new channel, for poll.
* A server's map has each open connection under its name, and every removal finds
  its entry; connections that live never share a descriptor, so that no descriptor is
  registered twice; no handler removes the channel of another connection; a
  destroyed server leaves nothing in the poller but connections about to remove
  themselves; a peer that waits is served unless open connections, or the user's
  pointers, keep every descriptor.
* Attempts that get as far as waiting for the peer are answered once, by a
  client that still exists, and leave no socket or channel behind; the sockets that
  are left are those that `::connect()` refused at once.
* A Buffer is a bounded FIFO queue of the bytes that are written to it.

### Findings

Each is shown by a violation run.

1. `startLoop()` asserts `loop_` (`NetworkLoopThread.cpp:34`) although a loop that
   quits at once has cleared it by then.
2. `send()` asserts an empty buffer when it is not writing
   (`TcpConnection.cpp:123`); after `delaySend()` bytes wait there for the timer.
3. `PollPoller::updateChannel()` never restores the descriptor of a hidden entry
   (`PollPoller.cpp:105`): a channel enabled again is not watched.
4. A `::connect()` that fails at once is answered by neither callback
   (`Connector.cpp:80-83`), and its socket is never closed.

Also met while modelling, and either modelled as it is or left out by a guard (the
hazards say which): a timer placed while the wheels are behind the clock comes early
(`TimerManager.cpp:115`), and one placed after the clock has been set back late;
`removeTimer()` of a timer in `readyTimers_`; a `quit()`
that comes before `loop()` is forgotten (`NetworkLoop.cpp:151`); a server destroyed
in a handler of its own connection frees the channel that is handling the event;
a channel disabled twice goes back into the epoll set (`EPollPoller.cpp:87`);
`~Acceptor()` of a server never started fails an assertion of PollPoller
(`PollPoller.cpp:124`); `connectionCallback` of a client is also called for the
connection that comes up, against the comment in `TcpClient.h:74`;
`setSendParam()` ignores its argument; `delaySend()` without `setSendParam()` can strand
bytes, because `handleWrite()`, when it drains what the timer left, resets
`isStartDelayTask_` only for the other mode (`TcpConnection.cpp:316-320`), and the next
`delaySend()` then starts no timer (`:213`); `delaySend()` of no bytes starts a timer whose
0 from `::send()` closes a healthy connection (`:213`, `:243`, `:263`); `EWOULDBLOCK` in `handleWrite()` and
`handDelaySend()` closes the connection.

## 5. What is proved

All theorems hold for every value of the constants, under the assumptions that
the modules state (sizes and bounds are natural numbers, the sentinel values are
not among the others).  None of them counts on the bounds of the runs.

| module | theorem | statement |
|---|---|---|
| `NetworkLoopProofs` | `TypeCorrect`, `StagesCorrect`, `WakeupInvariant` | `Spec => []TypeOK`, `[]StagesOK`, `[]WakeupInv` |
| | `NoWakeupIsLost` | `Spec => []NoLostWakeup` |
| | `DispatchIsSafe` | `Spec => []NoStaleDispatch` |
| | `ImplementsFunctorQueue` | `Spec => IsFunctorQueue` |
| | `ImplementsNetworkLoop` | `ThreadSpec => Spec` |
| | `ThreadKeepsFunctorQueue`, `ThreadLosesNoWakeup`, `ThreadDispatchIsSafe` | the loop's theorems, of `ThreadSpec` |
| | `ThreadInvariant` | `ThreadSpec => []ThreadInv` |
| | `LoopIsPublished`, `LoopIsAlive`, `DestructorIsSafe` | `ThreadSpec => []LoopPublished`, `[]NoDeadLoop`, `[]DestructorWaits` |
| `EPollPollerProofs` | `TypeCorrect`, `RecordsAgree` | `Spec => []TypeOK`, `[]Inv` |
| | `MapIsRight`, `CtlSucceeds`, `PointersAreGood`, `KernelWatches` | `Spec => []MapMatches`, `[]NoCtlFailure`, `[]KernelPointsToChannels`, `[]WatchedAsAsked` |
| | `ImplementsPoller` | `Spec => IsPoller` |
| `PollPollerProofs` | `RecordsAgree` | `Spec => []Inv`, if `Ordinary` |
| | `EveryEntryMatches`, `KernelIsAsked` | `Spec => []EntriesMatch`, `[]WatchedAsAsked`, if `Ordinary` |
| | `ImplementsPoller` | `Spec => IsPoller`, if `Ordinary` |
| `TcpServerProofs` | `RecordsAgree` | `Spec => []ServerInv` |
| | `MapIsRight`, `DescriptorsAreExclusive`, `NothingIsLeft` | `Spec => []ConnectionsTracked`, `[]DescriptorsExclusive`, `[]LeavesNothingBehind` |
| | `HandlersRemoveThemselves` | `Spec => RemovesOnlyItself` |
| | `ConnectionsLive` | `Spec => AreConnectionLives` |
| `TcpClientProofs` | `RecordsAgree` | `Spec => [](Inv /\ QueueFits)` |
| | `AnswersAreSafe`, `AnswersAreSingle`, `NoSocketIsLost`, `ChannelsOutlive`, `ClosesAreSafe` | `Spec => []AnswersReachClient`, `[]AnsweredOnce`, `[]SocketsAccounted`, `[]ChannelOutlivesEvent`, `[]ClosesIntoClient` |
| | `ConnectionsLive` | `Spec => AreConnectionLives` |
| `TcpConnectionProofs` | `RecordsAgree`, `TypeCorrect` | `Spec => [](Control /\ Output)`, `[]TypeOK` |
| | `StreamIsIntact`, `SomebodyAlwaysSends` | `Spec => []StreamIntact`, `[]SomebodySends` |
| | `WritesAreFresh`, `HangUpClosesOnce` | `Spec => []NoStaleWrite`, `[]CloseOnlyOnce` |
| | `CallbacksKeepOrder`, `UseIsSafe` | `Spec => []CallbacksInOrder`, `[]UsedIsAlive` |
| | `SendMeetsItsAssertion` | `Spec => []("delayed" \notin past => SendAsserts)` |
| | `ImplementsConnectionLife` | `Spec => IsConnectionLife` |
| `TimerManagerProofs` | `RecordsAgree`, `TypeCorrect` | `Spec => []Inv`, `[]TypeOK` |
| | `NoTimerIsLost`, `NeverTooLate`, `EarlyByLagOnly` | `Spec => []EachInOnePlace`, `[]NotTooLate`, `[]EarlyOnlyByLag` |
| | `OverflowIsHarmless` | an index that overflows its width names the same spoke, if the width is whole turns of the wheel |
| `BufferProofs` | `TypeCorrect` | `Spec => []TypeOK` |
| | `ImplementsByteQueue` | `Spec => IsByteQueue` |

### NetworkLoop

`TypeOK` is inductive by itself.  `StagesOK` is inductive given `TypeOK`: it ties
each flag to the stages in which the code holds it.  `NoLostWakeup` speaks of
`poll` only and is not inductive: the event descriptor may have been read in the
same iteration, before the swap.  `WakeupInv` strengthens it: a functor queued
with a wakeup has it readable, under way, or a loop in one of the stages that
lead to the swap.  Its critical step is a functor queued by a functor: `StagesOK`
gives `callingPendingFunctors_`, so the owner wakes itself.  `NoStaleDispatch`
needs `DispatchInv`: the channel being dispatched is behind the iterator, so that
the assertion of `removeChannel()` (the current channel, or one that is not
active) covers all that are still to come.  `ImplementsFunctorQueue` maps the
abstract queue to `functors \o pendingFunctors_`: `SwapPending` runs on an empty batch
(`StagesOK`), hence stutters; `RunFunctor` takes the head of the concatenation;
queueing appends to it.

### NetworkLoopThread

Every step of the thread, its owner and its users is a step of `NetworkLoop` or
leaves the loop's variables alone (`ImplementsNetworkLoop`), so the loop's theorems
hold of a loop that is constructed, shared and destroyed.  `ThreadInv` relates the
two program counters: the owner passes the semaphore only after `threadFunc()` has
set `loop_` and released it, and as long as nobody quits the loop, `threadFunc()` has
not left it.  `LoopPublished` and `NoDeadLoop` follow; `DestructorWaits` is a part of
`ThreadInv` because it needs to know what the destructor's test of `loop_` saw.

### Pollers

None of the properties of `EPollPoller` is inductive alone: whether `epoll_ctl()`
succeeds depends
on what the kernel's set holds, which only `index_` records.  `Inv` adds that a
registered channel with index `kAdded` is in the kernel's set with what it asks
for, that one with `kDeleted` is not and asks for nothing, and that the map keeps
every channel under its own descriptor.  The proof turns on two lemmas: a channel
about to be added has its descriptor to itself (`NobodyElse`, from the rule that
owners do not share a descriptor, `MayAsk`), and registered channels never have the
same descriptor (`OwnDescriptors`, from the map).  The proof of `ImplementsPoller`
shows that the pointers `poll()` gets from the kernel are those of registered
channels.

In `PollPoller`, `Inv` says that the map, the array and the channels' `index_` are
records of the same channels: each registered channel's place holds its entry
(`Placed`), each place has an owner, and there are as many entries as registered
channels.  The step that matters is a removal, which overwrites the removed entry
with the last one and tells the channel that owned it, found by the descriptor in
the entry, hidden or not (`HiddenIsFound`).  The theorems are under `Ordinary`: nobody
enables a channel again that is disabled but not removed, or disables a new one.
Without it they are false: the run PollPollerReenabled shows the first.

### TcpServer

The properties say little about the queue and the call stack, and everything
depends on them.  `ServerInv` says which calls can be nested in which (`StackFits`),
that connections are numbered in the order of their names (`NamesFit`), that
connections that live have descriptors of their own (`DescriptorsFit`, kept by
`::accept()` handing out one that is free), that the poller has exactly the
open connections, that a closing connection has its functor queued, and that each
open connection is in the map of a living server (`LifeFits`), and that one that is
about to report its end is still there (`ReportFits`).  `LeavesNothingBehind` follows
because a destroyed server's map is empty, so that no connection is `kConnected`.

`ConnectionsLive` shows that every step of the server is, for each connection, a step of
`ConnectionLife` or leaves it alone.  Beyond `ServerInv` it needs `LetGo`: a connection that is
being closed is still in the map or has been destroyed, and a queued
`connectDestroyed()` is for a connection that is out of the map and disconnected.  A
new connection is adopted and established in one step, a destroyed server
destroys those in its map one by one, and a forced close that was queued before that
finds its connection destroyed, which `Close` of the abstraction allows.

### TcpClient

`Inv` has a part for each attempt (`AttemptFits`): its socket and channel are where its
state says, an attempt that waits for the peer and has not been stopped is in the
map of a client that exists, an answered one in neither, and an open connection is
in the map or marked destroyed.  The destructor is what the rest is about: it stops
connectors and marks connections while callbacks run, so `FramesFit` says of every
call on the stack what it relies on when it returns, `EventsFit` that events are for
channels that have not been freed, and `QueueFits` that a `resetChannel()` that is
queued finds a channel that was removed.

`ConnectionsLive` needs more (`OwnerFits`).  The client puts a connection into its map before
it establishes it, with a user callback in between, so it must be shown that the
destructor never meets one that is not established: an unestablished connection is in
`connectSuccess()`, which is called while events are handled, when no destructor runs
(`CallFits`).  `MapFits` says what the map holds, and `LetGo` what has left it.

### TcpConnection

Two invariants, the second of which uses the first.  `Control` is about the life of
the connection: who keeps it in each state (`LifeFits`: the server while it is
connected, its functor while it is being closed), what each callback on the stack
takes for granted (`CallsFit`), and that events are for a connection that is open or
is being handled (`EventsFit`).  `NoStaleWrite` is inductive only with the rule that a
step never stops the writing of a connection that stays open while an event is on its
way (`SendingStep`).  `CloseOnlyOnce` holds because `handleEvent()` looks at the
hang-up before anything else.  `Output` is about the bytes: unless the ways of sending
are mixed, what the kernel was given and what is buffered are the numbers from 1 to
`accepted`, and `ModeFits` says who sends the rest, whatever the user mixes:
`isStartDelayTask_` stands for a timer or for the poller that took over from one, unless
`handleWrite()` has left it set; bytes without it are being written; and of a user who only
delays there is one timer at most, with bytes to send unless it was started for none.  It
needs `Control` where the timer locks its weak pointer.

`SendMeetsItsAssertion` belongs to the finding about `send()`: the run
TcpConnectionMixed shows the assertion fail, the theorem that a delayed send is the
only way to it, for any number of bytes, calls and timers.  `ImplementsConnectionLife`
follows from `Control` and `LetGo`: the functor of a closed connection, from
`removeConnection()` on, concerns a connection out of the map and disconnected.

### TimerManager

The theorems hold for any number of wheels above one, any sizes, any granularity and
all delays that fit into one turn of the last wheel (`DelaysFit`; with the code's
constants every `uint32` does).  `EachInOnePlace` is inductive with little help
(`Filed`).  The two properties of time are not: they speak of the ready timers, and
when a timer gets there was decided by every wheel it passed through.

* `StagesFit` ties `nowTime_`, `checkTime_` and the ticks still to be made together,
  and `ClocksFit` bounds what the clock and the deadlines are ahead of the wheels, so
  that a timer that is cascaded always fits below (`SlotFits`).
* `EarlySpokes` and `EarlyReady` are behind `EarlyOnlyByLag`: a timer in wheel 0 is due, but
  for its lag, by the end of the tick in which its spoke is reached, and what is in
  `readyTimers_` is due.  Nothing is needed of the other wheels, since `cascade()` places by the
  deadline again.
* `TurnsAgree` is behind `NotTooLate`.  The program has no count of the turns a wheel has
  made, only `spokeIndex_`, which wraps; so the invariant says that there are counts with
  which all agrees.  `TurnsFit`: wheel k has been turned `Size(k)` times for each spoke of
  wheel k+1, plus its index, except that during a cascade one wheel is owed its step
  (`Owed`), and no wheel has been turned more often than the time allows.  `LateSpokes`:
  with these counts, the tick in which a spoke is reached (`TickOf`) is not after the
  deadline of any timer in it, but for what the wheels were ahead when it was placed.

The step that matters is the placing (`PlacedInTime`): the spoke `addTimerNode()` chooses by
dividing the delay is reached no later than the deadline, because the remainder
is dropped and the time wheel k has been turned to is never after that of wheel 0.  A tick
turns one count up (`TickTurns`), a cascade the next (`CascadeTurns`).  `WheelsKeepUp` is the
converse bound between ticks: no wheel is behind the time by a whole spoke.  It goes from wheel
to wheel, as do the facts about the table of thresholds (`ThresholdsPositive`,
`ThresholdsMultiply`) and the existence of a wheel for each delay (`WheelChosen`).  These are
inductions over the wheels, written as the least wheel for which the claim
fails (`Least`), since the library's induction theorem takes an operator.

The model's arithmetic is unbounded and the code's is `uint32`, in which the sum that
`addTimerNode()` reduces to a spoke may overflow.  `OverflowIsHarmless` is why this does not
matter: the spoke is the same, as long as the width is a whole number of turns of
the wheel, which holds for sizes that are powers of two, as the code's are.

### Buffer

`ImplementsByteQueue` maps the abstract queue to the bytes between the two indices
(`Content`).  A write extends it at the end by the bytes that arrive (`Incoming`), a
retrieval drops its head, a `move()` leaves it as it is: the last is where overlapping ranges and the unsigned
differences of indices matter, and needs `TypeOK` (the indices in order, after
the gap, within the array).

### Only model-checked

Liveness: `WokenFunctorRuns`, `IOServed`, `JoinReturns`, `ForcedCloseHappens`,
`EventuallyReleased`, `BufferDrains`, `PeersServed`, `AttemptAnswered` and
`ChannelsAreReset`.  They rest on fairness, hence on ENABLED, which is beyond the prover.
Every other property of a passing run is a theorem; `EntriesMatch` and `IsPoller` of
PollPoller under `Ordinary`, which the constants of the run fulfil.

## 6. Not modelled

* Addresses, byte order, logging, thread ids: conversions and wrappers without
  state that a property could be about.
* System calls other than those named above; their outcomes are choices in the
  modules.  Clock readings are the variable `clock` of TimerManager.
* `Mutex.h` is a wrapper of the platform's mutex, and a critical section is one
  step; `Atomic.h` is used by nothing.
* Constructors and destructors that only set fields.
* Payloads: a byte is its number, a message is that something arrived.
* Uses that end in undefined behaviour or an assertion and that no line of the
  repository promises to support: they are left out by guards, named in section 2 and
  listed with their lines among the hazards.

## 7. Plan

Order of construction, most important first; all are done.

1. `NetworkLoop` with `FunctorQueue`: everything else is run by it.
2. `NetworkLoopProofs` and `EPollPollerProofs`.
3. `NetworkLoopThread`, composed with `NetworkLoop`, and its proofs.
4. `TcpConnection`, on the abstraction of the loop that 1 justifies.
5. `EPollPoller` and `PollPoller`, both implementing `Poller`.
6. `TimerManager`.
7. `TcpClient` with Connector.
8. `Buffer`, implementing `ByteQueue`.
9. `TcpServer`: `start()`, the Acceptor with failing `accept()`, several
   connections, removal during the destructor.
10. Proofs of PollPoller, Buffer, TcpClient, TcpServer and TcpConnection.
11. Proofs of TimerManager, the last invariants that were only model-checked.
12. `ConnectionLife`, the common abstraction of the three modules with connections,
    and the proofs that they implement it.
