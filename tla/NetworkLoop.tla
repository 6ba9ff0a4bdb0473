---------------------------- MODULE NetworkLoop -----------------------------
(***************************************************************************)
(* The reactor of src/net/NetworkLoop.cpp: one thread runs loop(), which   *)
(* polls, dispatches the active channels, runs the timers, runs the        *)
(* functors queued with queueInLoop() and calls the timeout functor; any   *)
(* thread may queue functors and ask the loop to quit.                     *)
(*                                                                         *)
(* A critical section under mutex_ is one step.  queueInLoop() of another  *)
(* thread is two, because mutex_ is released before wakeup() writes to the *)
(* event descriptor.  The descriptor is a Boolean: reading an eventfd      *)
(* returns its counter and resets it, so all that can be observed of it is *)
(* whether it is readable.                                                 *)
(***************************************************************************)
EXTENDS Naturals, Sequences, Functions

CONSTANTS
  Threads,         \* threads other than the one that owns the loop
  Functors,        \* callbacks handed to queueInLoop()
  Channels,        \* channels of the user: connections, acceptors, ...
  WakeupChannel,   \* wakeupChannel_
  None             \* NULL

ASSUME NamesDiffer ==
  /\ None \notin Functors
  /\ None \notin Channels
  /\ WakeupChannel \notin Channels
  /\ WakeupChannel # None

VARIABLES
  pc,                      \* where the owner thread is in loop()
  looping_, quit_, eventHandling_, callingPendingFunctors_,
  registered,              \* the user's channels the poller watches
  activeChannels_,         \* what poll() returned, as a set
  toHandle,                \* the part of it the iterator has not reached
  currentActiveChannel_,
  wakeupFd_,               \* is the event descriptor readable?
  pendingFunctors_,
  functors,                \* the rest of doPendingFunctors()'s local batch
  running,                 \* functors[i] during its call
  waking,                  \* threads between push_back() and wakeup()
  quiet                    \* history: pending functors queued without a wakeup

flags == <<looping_, quit_, eventHandling_, callingPendingFunctors_>>
io    == <<registered, activeChannels_, toHandle, currentActiveChannel_>>
work  == <<pendingFunctors_, functors, running, quiet>>
vars  == <<pc, flags, io, wakeupFd_, work, waking>>

\* "functor" lasts from the swap to the end of the batch
Places == {"idle", "while", "poll", "events", "timers",
           "pending", "functor", "timeout"}

Init ==
  /\ pc = "idle"
  /\ looping_ = FALSE
  /\ quit_ = FALSE
  /\ eventHandling_ = FALSE
  /\ callingPendingFunctors_ = FALSE
  /\ registered = {}
  /\ activeChannels_ = {}
  /\ toHandle = {}
  /\ currentActiveChannel_ = None
  /\ wakeupFd_ = FALSE
  /\ pendingFunctors_ = <<>>
  /\ functors = <<>>
  /\ running = None
  /\ waking = {}
  /\ quiet = {}

-----------------------------------------------------------------------------
(***************************************************************************)
(* The owner thread.                                                       *)
(***************************************************************************)

\* loop() up to the while: a quit() that came before is forgotten
Loop ==
  /\ pc = "idle"
  /\ looping_' = TRUE
  /\ quit_' = FALSE
  /\ pc' = "while"
  /\ UNCHANGED <<eventHandling_, callingPendingFunctors_, io, wakeupFd_, work, waking>>

\* the condition of the while; bug: functors are used up first
MustQuitDrained == quit_ /\ pendingFunctors_ = <<>>
MustQuit == quit_

LoopTest ==
  /\ pc = "while"
  /\ \/ /\ MustQuit
        /\ looping_' = FALSE
        /\ pc' = "idle"
        /\ UNCHANGED <<activeChannels_, toHandle>>
     \/ /\ ~MustQuit
        /\ activeChannels_' = {}
        /\ toHandle' = {}
        /\ pc' = "poll"
        /\ UNCHANGED looping_
  /\ UNCHANGED <<quit_, eventHandling_, callingPendingFunctors_, registered,
                 currentActiveChannel_, wakeupFd_, work, waking>>

Readable == registered \cup (IF wakeupFd_ THEN {WakeupChannel} ELSE {})

\* fillActiveChannels()
FillActiveChannels(active) == activeChannels_' = active /\ toHandle' = active

PollReturns(active) ==
  /\ pc = "poll"
  /\ FillActiveChannels(active)
  /\ eventHandling_' = TRUE
  /\ pc' = "events"
  /\ UNCHANGED <<looping_, quit_, callingPendingFunctors_, registered,
                 currentActiveChannel_, wakeupFd_, work, waking>>

\* poll() returns some of what is ready (as many as its event array holds)
PollReady == \E active \in (SUBSET Readable) \ {{}} : PollReturns(active)

\* kPollTimeMs passed and no descriptor was ready
PollTimeout == ~wakeupFd_ /\ PollReturns({})

\* for each active channel: handleEvent(); the wakeup channel's is handleRead()
HandleChannel(ch) ==
  /\ pc = "events"
  /\ ch \in toHandle
  /\ toHandle' = toHandle \ {ch}
  /\ currentActiveChannel_' = ch
  /\ wakeupFd_' = (wakeupFd_ /\ ch # WakeupChannel)
  /\ UNCHANGED <<pc, flags, registered, activeChannels_, work, waking>>

EventsDone ==
  /\ pc = "events"
  /\ toHandle = {}
  /\ currentActiveChannel_' = None
  /\ eventHandling_' = FALSE
  /\ pc' = "timers"
  /\ UNCHANGED <<looping_, quit_, callingPendingFunctors_, registered,
                 activeChannels_, toHandle, wakeupFd_, work, waking>>

\* timerManager_->detectTimer() returns, doPendingFunctors() begins
TimersDone ==
  /\ pc = "timers"
  /\ callingPendingFunctors_' = TRUE
  /\ pc' = "pending"
  /\ UNCHANGED <<looping_, quit_, eventHandling_, io, wakeupFd_, work, waking>>

SwapPending ==
  /\ pc = "pending"
  /\ functors' = pendingFunctors_
  /\ pendingFunctors_' = <<>>
  /\ quiet' = {}
  /\ pc' = "functor"
  /\ UNCHANGED <<flags, io, wakeupFd_, running, waking>>

\* functors[i]; bugs: the last one first, and functors queued meanwhile as well
TakeLast ==
  /\ functors # <<>>
  /\ running' = functors[Len(functors)]
  /\ functors' = SubSeq(functors, 1, Len(functors) - 1)
  /\ UNCHANGED pendingFunctors_
TakeAny ==
  LET all == functors \o pendingFunctors_
  IN  /\ all # <<>>
      /\ running' = Head(all)
      /\ functors' = Tail(all)
      /\ pendingFunctors_' = <<>>
TakeFunctor ==
  /\ functors # <<>>
  /\ running' = Head(functors)
  /\ functors' = Tail(functors)
  /\ UNCHANGED pendingFunctors_

RunFunctor ==
  /\ pc = "functor"
  /\ running = None
  /\ TakeFunctor
  /\ UNCHANGED <<pc, flags, io, wakeupFd_, quiet, waking>>

FunctorReturns ==
  /\ running # None
  /\ running' = None
  /\ UNCHANGED <<pc, flags, io, wakeupFd_, pendingFunctors_, functors, quiet, waking>>

FunctorsDone ==
  /\ pc = "functor"
  /\ running = None
  /\ functors = <<>>
  /\ callingPendingFunctors_' = FALSE
  /\ pc' = "timeout"
  /\ UNCHANGED <<looping_, quit_, eventHandling_, io, wakeupFd_, work, waking>>

\* timeoutFunctor_() returns, or there is none
TimeoutDone ==
  /\ pc = "timeout"
  /\ pc' = "while"
  /\ UNCHANGED <<flags, io, wakeupFd_, work, waking>>

-----------------------------------------------------------------------------
(***************************************************************************)
(* Calls made by user code on the owner thread: around loop(), in a        *)
(* channel's handlers, in timers, in functors and in the timeout functor.  *)
(***************************************************************************)
UserCode ==
  \/ pc \in {"idle", "timers", "timeout"}
  \/ pc = "events" /\ currentActiveChannel_ \in Channels
  \/ pc = "functor" /\ running # None

Posted == Range(functors) \cup Range(pendingFunctors_)

\* Bound: at most one copy of a functor waits at any time
OnePendingCopy(f) == f \notin Posted

\* isInLoopThread() holds: the owner wakes itself up
WakesItself == callingPendingFunctors_

QueueLocal(f) ==
  /\ UserCode
  /\ OnePendingCopy(f)
  /\ pendingFunctors_' = Append(pendingFunctors_, f)
  /\ wakeupFd_' = (wakeupFd_ \/ WakesItself)
  /\ quiet' = IF pc \in {"idle", "timeout"} THEN quiet \cup {f} ELSE quiet
  /\ UNCHANGED <<pc, flags, io, functors, running, waking>>

UpdateChannel(ch) ==
  /\ UserCode
  /\ registered' = registered \cup {ch}
  /\ UNCHANGED <<pc, flags, activeChannels_, toHandle, currentActiveChannel_,
                 wakeupFd_, work, waking>>

\* what removeChannel() asserts of its caller; bug: nothing
MayRemoveAny(ch) == TRUE
MayRemove(ch) ==
  eventHandling_ => (currentActiveChannel_ = ch \/ ch \notin activeChannels_)

RemoveChannel(ch) ==
  /\ UserCode
  /\ ch \in registered
  /\ MayRemove(ch)
  /\ registered' = registered \ {ch}
  /\ UNCHANGED <<pc, flags, activeChannels_, toHandle, currentActiveChannel_,
                 wakeupFd_, work, waking>>

-----------------------------------------------------------------------------
(***************************************************************************)
(* Calls of other threads.                                                 *)
(***************************************************************************)

\* queueInLoop() and runInLoop() of another thread, up to the unlock; bug: the
\* wakeup is left out
LeaveAsleep(t) == UNCHANGED waking
WillWake(t) == waking' = waking \cup {t}

QueueRemote(t, f) ==
  /\ t \notin waking
  /\ OnePendingCopy(f)
  /\ pendingFunctors_' = Append(pendingFunctors_, f)
  /\ WillWake(t)
  /\ UNCHANGED <<pc, flags, io, wakeupFd_, functors, running, quiet>>

\* ... and its wakeup(); bug: the write is lost
WriteLost == UNCHANGED wakeupFd_
WriteWakeup == wakeupFd_' = TRUE

Wakeup(t) ==
  /\ t \in waking
  /\ WriteWakeup
  /\ waking' = waking \ {t}
  /\ UNCHANGED <<pc, flags, io, work>>

\* quit(), from any thread: it does not wake the loop up
Quit ==
  /\ quit_' = TRUE
  /\ UNCHANGED <<pc, looping_, eventHandling_, callingPendingFunctors_, io,
                 wakeupFd_, work, waking>>

-----------------------------------------------------------------------------
\* the owner thread's own steps that wait for nothing
ThreadStep ==
  \/ LoopTest
  \/ \E ch \in Channels \cup {WakeupChannel} : HandleChannel(ch)
  \/ EventsDone
  \/ TimersDone
  \/ SwapPending
  \/ RunFunctor
  \/ FunctorReturns
  \/ FunctorsDone
  \/ TimeoutDone

Next ==
  \/ Loop
  \/ ThreadStep
  \/ PollReady
  \/ PollTimeout
  \/ \E f \in Functors : QueueLocal(f)
  \/ \E ch \in Channels : UpdateChannel(ch) \/ RemoveChannel(ch)
  \/ \E t \in Threads, f \in Functors : QueueRemote(t, f)
  \/ \E t \in Threads : Wakeup(t)
  \/ Quit

Spec == Init /\ [][Next]_vars

-----------------------------------------------------------------------------
(***************************************************************************)
(* Safety.                                                                 *)
(***************************************************************************)

\* Types, and the flags as functions of the place in loop(): they are true
\* exactly where the code says that they protect something.
TypeOK ==
  /\ pc \in Places
  /\ looping_ \in BOOLEAN /\ quit_ \in BOOLEAN
  /\ eventHandling_ \in BOOLEAN /\ callingPendingFunctors_ \in BOOLEAN
  /\ registered \subseteq Channels
  /\ activeChannels_ \subseteq Channels \cup {WakeupChannel}
  /\ toHandle \subseteq activeChannels_
  /\ currentActiveChannel_ \in Channels \cup {WakeupChannel, None}
  /\ wakeupFd_ \in BOOLEAN
  /\ pendingFunctors_ \in Seq(Functors)
  /\ functors \in Seq(Functors)
  /\ running \in Functors \cup {None}
  /\ waking \subseteq Threads
  /\ quiet \subseteq Functors

\* The flags that queueInLoop() and removeChannel() decide by agree with the
\* stage loop() is in, and a batch or a dispatch is never left half done.
StagesOK ==
  /\ looping_ <=> pc # "idle"
  /\ eventHandling_ <=> pc = "events"
  /\ callingPendingFunctors_ <=> pc \in {"pending", "functor"}
  /\ (functors # <<>> \/ running # None) => pc = "functor"
  /\ (currentActiveChannel_ # None \/ toHandle # {}) => pc = "events"

\* While the owner thread is blocked in poll(), a functor queued by another
\* thread or by a running functor has a wakeup under way or already readable
\* (queueInLoop() pushes before it wakes, handleRead() clears before the swap).
NoLostWakeup ==
  pc = "poll" =>
    \A f \in Range(pendingFunctors_) : f \notin quiet => wakeupFd_ \/ waking # {}

\* The same with the stages in which the swap is still to come: inductive.
WakeupInv ==
  \A f \in Range(pendingFunctors_) :
     f \notin quiet =>
        \/ wakeupFd_
        \/ waking # {}
        \/ pc \in {"events", "timers", "pending"}

\* A channel the iteration over activeChannels_ has still to dispatch has not
\* been removed from the poller: removeChannel()'s assertion is enough for it.
NoStaleDispatch == toHandle \ {WakeupChannel} \subseteq registered

\* What makes it inductive: the channel being dispatched is behind the iterator.
DispatchInv == NoStaleDispatch /\ currentActiveChannel_ \notin toHandle

\* The two-stage queue (batch and pending vector) is one FIFO queue.
Queue == INSTANCE FunctorQueue WITH queue <- functors \o pendingFunctors_
IsFunctorQueue == Queue!Spec

-----------------------------------------------------------------------------
(***************************************************************************)
(* Liveness.                                                               *)
(***************************************************************************)

\* Without any timeout of poll(), a functor queued with a wakeup is run unless
\* the loop ends: no queueing is lost to the race with the swap or the read.
WokenFunctorRuns ==
  \A f \in Functors :
    (looping_ /\ f \in Range(pendingFunctors_) \ quiet)
      ~> (running = f \/ ~looping_)

\* Functors that queue functors for ever do not keep the loop from polling.
IOServed == []<>(pc \in {"poll", "idle"})
=============================================================================
