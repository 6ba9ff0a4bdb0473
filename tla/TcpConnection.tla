--------------------------- MODULE TcpConnection ----------------------------
(***************************************************************************)
(* One connection of a TcpServer, from newConnection() to its release:     *)
(* src/net/TcpConnection.cpp with the dispatch of its Channel, the server's*)
(* share in its life, and the user code its callbacks run.  All of it runs *)
(* on the loop's thread; what makes it hard is that user code runs in the  *)
(* middle of handlers, and that what it starts (functors, timers, events   *)
(* already polled) arrives when the connection has moved on.               *)
(*                                                                         *)
(* The loop is the cycle poll, events, timers, functors of NetworkLoop; its*)
(* functors are the one FIFO queue NetworkLoop implements.  A byte is its  *)
(* number in the order of the send() calls.                                *)
(***************************************************************************)
EXTENDS Integers, Sequences, FiniteSets

CONSTANTS
  CacheSize,       \* capacity of sendBuffer_
  MaxBytes,        \* bound: bytes sent in the life of the connection
  MaxPending       \* bound: functors and timers before an empty send adds one

ASSUME BoundsAreSound ==
  /\ CacheSize \in Nat \ {0}
  /\ MaxBytes \in Nat
  /\ MaxPending \in Nat

VARIABLES
  stage,             \* where NetworkLoop::loop() is
  state_, destroyed_,
  events,            \* the channel's events_
  addedToLoop_, eventHandling_,
  revents,           \* polled and not dispatched yet
  todo,              \* the callbacks handleEvent() has still to make
  stack,             \* user code being run, and who called it; innermost last
  queue,             \* functors queued for the connection
  timers,            \* delayed-send timers that have not fired
  isDelaySend_, isStartDelayTask_,
  sendBuffer_,
  wire,              \* what the kernel has been given
  accepted,          \* bytes that have been taken over from the user
  serverAlive, owned,  \* is there a server, is it in its connections_?
  held,              \* does the user keep a TcpConnectionPtr?
  ups, downs,        \* history: calls of connectionCallback_
  past               \* history: what has happened of Events

life    == <<state_, destroyed_, ups, downs>>
channel == <<events, addedToLoop_, eventHandling_, revents, todo>>
output  == <<isDelaySend_, past, isStartDelayTask_, sendBuffer_, wire, accepted,
             timers>>
refs    == <<serverAlive, owned, held>>
vars    == <<stage, life, channel, stack, queue, output, refs>>

States == {"kConnecting", "kConnected", "kDisconnecting", "kDisconnected"}
Frames == {"up", "message", "complete", "down", "downDestroyed", "other"}
Tasks == {"forceCloseInLoop", "writeComplete", "connectDestroyed"}
\* The user has sent without delay; has delayed bytes, by delaySend() or in the
\* mode of setSendParam(); has delayed no bytes with none buffered, and never sent
\* without delay.  A drained buffer has left isStartDelayTask_ set and no timer.
Events == {"now", "delayed", "empty", "stale"}
mixed == {"now", "delayed"} \subseteq past
\* the order of Channel::handleEvent(); bug: errors before hang-ups
ErrorFirst == [error |-> 1, close |-> 2, read |-> 3, write |-> 4]
Handlers == [close |-> 1, error |-> 2, read |-> 3, write |-> 4]

Init ==
  /\ stage = "poll"
  /\ state_ = "kConnecting"
  /\ destroyed_ = FALSE
  /\ events = {}
  /\ addedToLoop_ = FALSE
  /\ eventHandling_ = FALSE
  /\ revents = {}
  /\ todo = {}
  /\ stack = <<>>
  /\ queue = <<>>
  /\ timers = 0
  /\ isDelaySend_ = FALSE
  /\ past = {}
  /\ isStartDelayTask_ = FALSE
  /\ sendBuffer_ = <<>>
  /\ wire = <<>>
  /\ accepted = 0
  /\ serverAlive = TRUE
  /\ owned = FALSE
  /\ held = FALSE
  /\ ups = 0
  /\ downs = 0

isWriting == "write" \in events

\* shared_ptrs: the server's, the user's, those bound in functors, and those
\* that the caller of a callback passes to it.
Alive ==
  \/ owned
  \/ held
  \/ queue # <<>>
  \/ \E i \in DOMAIN stack : stack[i] # "other"

-----------------------------------------------------------------------------
(***************************************************************************)
(* Building blocks.                                                        *)
(***************************************************************************)
QueueInLoop(task) == queue' = Append(queue, task)

\* bug: the state is set and nothing queued
LeaveUnqueued == UNCHANGED queue
QueueForceClose == QueueInLoop("forceCloseInLoop")

\* forceClose(): once, and only from kConnected
ForceClose ==
  IF state_ = "kConnected"
  THEN state_' = "kDisconnecting" /\ QueueForceClose
  ELSE UNCHANGED <<state_, queue>>

\* bug: the channel is disabled and not removed
LeaveRegistered == UNCHANGED addedToLoop_
RemoveFromLoop == addedToLoop_' = FALSE

\* disableAll(), remove(), connectionCallback_ as a frame of the given name
Disconnect(frame) ==
  /\ state_' = "kDisconnected"
  /\ events' = {}
  /\ RemoveFromLoop
  /\ downs' = downs + 1
  /\ stack' = Append(stack, frame)
  /\ UNCHANGED ups

handleClose == Disconnect("down") /\ UNCHANGED destroyed_

connectDestroyed ==
  /\ destroyed_' = TRUE
  /\ IF state_ = "kConnected"
     THEN Disconnect("downDestroyed")
     ELSE UNCHANGED <<state_, events, addedToLoop_, stack, ups, downs>>

Again == -1   \* ::send() or ::recv() fails with EWOULDBLOCK
Fault == -2   \* ... with another error
Outcomes(len) == (IF len = 0 THEN {0} ELSE 1 .. len) \cup {Again, Fault}

\* retrieve(n)
Retrieve(n) == sendBuffer_' = SubSeq(sendBuffer_, n + 1, Len(sendBuffer_))

\* bug: the poller is not asked for writability
EnableNothing == UNCHANGED events
EnableWriting == events' = events \cup {"write"}

\* handleWrite() and handDelaySend() send from the buffer: the rest waits for
\* the socket to be writable, and whatever is not a success closes.
SendBuffered(Drained, Rest) ==
  \E n \in Outcomes(Len(sendBuffer_)) :
    \/ /\ n > 0
       /\ wire' = wire \o SubSeq(sendBuffer_, 1, n)
       /\ Retrieve(n)
       /\ IF sendBuffer_' = <<>>
          THEN Drained /\ QueueInLoop("writeComplete")
          ELSE Rest /\ UNCHANGED <<isStartDelayTask_, past, queue>>
       /\ UNCHANGED state_
    \/ /\ n <= 0
       /\ ForceClose
       /\ UNCHANGED <<sendBuffer_, wire, isStartDelayTask_, past, events>>

NothingSent ==
  UNCHANGED <<state_, events, queue, sendBuffer_, wire, isStartDelayTask_, past>>

-----------------------------------------------------------------------------
(***************************************************************************)
(* The loop, and TcpServer::newConnection() in the acceptor's handler.     *)
(***************************************************************************)
Idle == stack = <<>> /\ ~eventHandling_

\* newConnection() and connectEstablished(), which it calls through runInLoop()
NewConnection ==
  /\ stage = "events" /\ Idle
  /\ serverAlive
  /\ state_ = "kConnecting"
  /\ owned' = TRUE
  /\ state_' = "kConnected"
  /\ events' = {"read"}
  /\ addedToLoop_' = TRUE
  /\ ups' = ups + 1
  /\ stack' = <<"up">>
  /\ UNCHANGED <<stage, destroyed_, downs, eventHandling_, revents, todo, queue,
                 output, serverAlive, held>>

\* What is asked for may be reported, and errors and hang-ups always.
Reported ==
  {"HUP", "ERR"} \cup (IF "read" \in events THEN {"IN"} ELSE {})
                 \cup (IF isWriting THEN {"OUT"} ELSE {})

Poll(ready) ==
  /\ stage = "poll"
  /\ addedToLoop_ \/ ready = {}
  /\ ready \subseteq Reported
  /\ revents' = ready
  /\ stage' = "events"
  /\ UNCHANGED <<life, events, addedToLoop_, eventHandling_, todo, stack, queue,
                 output, refs>>

\* Channel::handleEvent(): revents_ decides which callbacks are made
Wanted(handler) ==
  CASE handler = "close" -> "HUP" \in revents /\ "IN" \notin revents
    [] handler = "error" -> "ERR" \in revents
    [] handler = "read"  -> "IN" \in revents
    [] handler = "write" -> "OUT" \in revents

HandleEvent ==
  /\ stage = "events" /\ Idle
  /\ revents # {}
  /\ eventHandling_' = TRUE
  /\ todo' = {handler \in DOMAIN Handlers : Wanted(handler)}
  /\ revents' = {}
  /\ UNCHANGED <<stage, life, events, addedToLoop_, stack, queue, output, refs>>

HandleEventReturns ==
  /\ eventHandling_ /\ stack = <<>>
  /\ todo = {}
  /\ eventHandling_' = FALSE
  /\ UNCHANGED <<stage, life, events, addedToLoop_, revents, todo, stack, queue,
                 output, refs>>

Goes(from, to) ==
  /\ stage = from /\ Idle
  /\ stage' = to
  /\ UNCHANGED <<life, channel, stack, queue, output, refs>>

EventsDone == revents = {} /\ Goes("events", "timers")
TimersDone == Goes("timers", "functors")
FunctorsDone == Goes("functors", "poll")

-----------------------------------------------------------------------------
(***************************************************************************)
(* The handlers.                                                           *)
(***************************************************************************)
Handler(name) ==
  /\ eventHandling_ /\ stack = <<>>
  /\ name \in todo
  /\ \A other \in todo : Handlers[name] <= Handlers[other]
  /\ todo' = todo \ {name}
  /\ UNCHANGED <<stage, eventHandling_, revents, refs>>

HandleClose ==
  /\ Handler("close")
  /\ handleClose
  /\ UNCHANGED <<queue, output>>

HandleError ==
  /\ Handler("error")
  /\ IF state_ = "kConnected"
     THEN handleClose
     ELSE UNCHANGED <<life, events, addedToLoop_, stack>>
  /\ UNCHANGED <<queue, output>>

\* bug: the state is not looked at
ReadsAlways == TRUE
Reads == state_ = "kConnected"

\* data; end of file or an error; EAGAIN, or a state that does not read
HandleRead ==
  /\ Handler("read")
  /\ \/ /\ Reads
        /\ stack' = Append(stack, "message")
        /\ UNCHANGED <<life, events, addedToLoop_>>
     \/ /\ Reads
        /\ handleClose
     \/ UNCHANGED <<life, events, addedToLoop_, stack>>
  /\ UNCHANGED <<queue, output>>

\* handleWrite() has emptied the buffer; bug: writing is not disabled
DrainedStillWriting ==
  /\ isStartDelayTask_' = (isStartDelayTask_ /\ ~isDelaySend_)
  /\ UNCHANGED <<past, events>>
DrainedByWrite ==
  /\ isStartDelayTask_' = (isStartDelayTask_ /\ ~isDelaySend_)
  /\ past' = IF isStartDelayTask_' /\ timers = 0 THEN past \cup {"stale"} ELSE past
  /\ events' = events \ {"write"}

HandleWrite ==
  /\ Handler("write")
  /\ IF state_ = "kConnected" /\ isWriting
     THEN SendBuffered(DrainedByWrite, UNCHANGED events)
     ELSE NothingSent
  /\ UNCHANGED <<destroyed_, ups, downs, addedToLoop_, stack, isDelaySend_,
                 accepted, timers>>

DrainedByTimer == isStartDelayTask_' = FALSE /\ UNCHANGED <<past, events>>

\* handDelaySend(), through a weak pointer
TimerFires ==
  /\ stage = "timers" /\ Idle
  /\ timers > 0
  /\ timers' = timers - 1
  /\ IF Alive /\ state_ = "kConnected" /\ ~isWriting
     THEN SendBuffered(DrainedByTimer, EnableWriting)
     ELSE NothingSent
  /\ UNCHANGED <<stage, destroyed_, ups, downs, addedToLoop_, eventHandling_,
                 revents, todo, stack, isDelaySend_, accepted, refs>>

-----------------------------------------------------------------------------
(***************************************************************************)
(* Functors.                                                               *)
(***************************************************************************)
Runs(task) ==
  /\ stage = "functors" /\ Idle
  /\ queue # <<>>
  /\ Head(queue) = task
  /\ queue' = Tail(queue)
  /\ UNCHANGED <<stage, eventHandling_, revents, todo, output, refs>>

\* nothing else has closed it meanwhile
StillClosing == state_ = "kDisconnecting"

ForceCloseInLoop ==
  /\ Runs("forceCloseInLoop")
  /\ IF StillClosing
     THEN handleClose
     ELSE UNCHANGED <<life, events, addedToLoop_, stack>>

WriteComplete ==
  /\ Runs("writeComplete")
  /\ stack' = <<"complete">>
  /\ UNCHANGED <<life, events, addedToLoop_>>

ConnectDestroyed == Runs("connectDestroyed") /\ connectDestroyed

-----------------------------------------------------------------------------
(***************************************************************************)
(* User code: in the connection's callbacks, or with a kept pointer in any *)
(* other callback of the loop.                                             *)
(***************************************************************************)
EnterOther ==
  /\ stage # "poll" /\ Idle
  /\ held
  /\ stack' = <<"other">>
  /\ UNCHANGED <<stage, life, channel, queue, output, refs>>

UserHasConnection ==
  /\ stack # <<>>
  /\ stack[Len(stack)] # "other" \/ held

\* closeCallback_, TcpServer::_removeConnection() and removeConnectionInLoop();
\* bug: the server is not told
TellNobody == UNCHANGED <<owned, queue>>
RemoveConnection == owned' = FALSE /\ QueueInLoop("connectDestroyed")

\* A callback returns.  The one of handleClose() returns into the report to the
\* server, unless connectDestroyed() has been called.
Return ==
  /\ stack # <<>>
  /\ stack' = SubSeq(stack, 1, Len(stack) - 1)
  /\ IF stack[Len(stack)] = "down" /\ ~destroyed_ /\ serverAlive
     THEN RemoveConnection
     ELSE UNCHANGED <<owned, queue>>
  /\ UNCHANGED <<stage, life, channel, output, serverAlive, held>>

\* the user starts or stops to keep a TcpConnectionPtr
Keep ==
  /\ UserHasConnection
  /\ held' = ~held
  /\ UNCHANGED <<stage, life, channel, stack, queue, output, serverAlive, owned>>

\* Bounds: MaxBytes, MaxPending
MaySend(len) ==
  /\ UserHasConnection
  /\ accepted + len <= MaxBytes
  /\ len > 0 \/ Len(queue) + timers < MaxPending
Bytes(len) == [i \in 1 .. len |-> accepted + i]

\* room for len bytes, after move() if need be
Fits(len) == Len(sendBuffer_) + len <= CacheSize

\* runAfter(_handDelaySend), once per batch
StartDelayTask ==
  /\ isStartDelayTask_' = TRUE
  /\ timers' = IF isStartDelayTask_ THEN timers ELSE timers + 1

delaySend(len) ==
  /\ past' = past \cup {"delayed"}
                  \cup IF len = 0 /\ sendBuffer_ = <<>> /\ "now" \notin past
                       THEN {"empty"} ELSE {}
  /\ IF Fits(len)
     THEN /\ sendBuffer_' = sendBuffer_ \o Bytes(len)
          /\ accepted' = accepted + len
          /\ StartDelayTask
          /\ UNCHANGED <<state_, queue>>
     ELSE ForceClose /\ UNCHANGED <<sendBuffer_, accepted, isStartDelayTask_, timers>>
  /\ UNCHANGED <<wire, events>>

\* data + nwrote; bug: all of the data again
WholeData(len, nwrote) == Bytes(len)
RestOfData(len, nwrote) == SubSeq(Bytes(len), nwrote + 1, len)

\* send() once nwrote of the len bytes have gone out; nothing to do for no rest
SendRest(len, nwrote) ==
  IF Fits(len - nwrote)
  THEN /\ sendBuffer_' = sendBuffer_ \o RestOfData(len, nwrote)
       /\ accepted' = accepted + len
       /\ IF nwrote < len THEN EnableWriting ELSE UNCHANGED events
       /\ UNCHANGED <<state_, queue>>
  ELSE /\ accepted' = accepted + nwrote
       /\ ForceClose
       /\ UNCHANGED <<sendBuffer_, events>>

\* bug: the buffer is flushed, and the writing under way is stopped
SendFlushing(len) ==
  /\ wire' = wire \o sendBuffer_ \o Bytes(len)
  /\ sendBuffer_' = <<>>
  /\ accepted' = accepted + len
  /\ events' = events \ {"write"}
  /\ UNCHANGED <<state_, queue>>
SendQueued(len) == SendRest(len, 0) /\ UNCHANGED wire

SendNow(len) ==
  \E n \in Outcomes(len) :
    LET nwrote == IF n > 0 THEN n ELSE 0
    IN  /\ wire' = wire \o SubSeq(Bytes(len), 1, nwrote)
        /\ \/ /\ n = Fault
              /\ ForceClose
              /\ UNCHANGED <<sendBuffer_, accepted, events>>
           \/ /\ n = len
              /\ accepted' = accepted + len
              /\ QueueInLoop("writeComplete")
              /\ UNCHANGED <<sendBuffer_, state_, events>>
           \/ /\ n \notin {len, Fault}
              /\ SendRest(len, nwrote)

Send(len) ==
  /\ MaySend(len)
  /\ state_ = "kConnected"
  /\ IF isDelaySend_
     THEN delaySend(len)
     ELSE /\ past' = (past \ {"empty"}) \cup {"now"}
          /\ IF isWriting THEN SendQueued(len) ELSE SendNow(len)
          /\ UNCHANGED <<isStartDelayTask_, timers>>
  /\ UNCHANGED <<stage, destroyed_, ups, downs, addedToLoop_, eventHandling_,
                 revents, todo, stack, isDelaySend_, refs>>

DelaySend(len) ==
  /\ MaySend(len)
  /\ delaySend(len)
  /\ UNCHANGED <<stage, destroyed_, ups, downs, addedToLoop_, eventHandling_,
                 revents, todo, stack, isDelaySend_, refs>>

\* whatever its first argument
SetSendParam ==
  /\ UserHasConnection
  /\ isDelaySend_' = TRUE
  /\ UNCHANGED <<stage, life, channel, stack, queue, past, isStartDelayTask_,
                 sendBuffer_, wire, accepted, timers, refs>>

UserForceClose ==
  /\ UserHasConnection
  /\ ForceClose
  /\ UNCHANGED <<stage, destroyed_, ups, downs, channel, stack, output, refs>>

\* ~TcpServer(), from code on the loop's thread that is not in an event handler
\* (where the connection's own channel would go with it): connectDestroyed() is
\* called for the connection at once.
DestroyServer ==
  /\ serverAlive
  /\ stage \in {"timers", "functors"}
  /\ Len(stack) <= 1
  /\ Idle \/ stack # <<>>
  /\ serverAlive' = FALSE
  /\ owned' = FALSE
  /\ IF owned
     THEN connectDestroyed
     ELSE UNCHANGED <<life, events, addedToLoop_, stack>>
  /\ UNCHANGED <<stage, eventHandling_, revents, todo, queue, output, held>>

-----------------------------------------------------------------------------
HandlerStep == HandleClose \/ HandleError \/ HandleRead \/ HandleWrite
RunFunctor == ForceCloseInLoop \/ WriteComplete \/ ConnectDestroyed
CallStep == HandlerStep \/ HandleEventReturns \/ Return
StageStep == HandleEvent \/ EventsDone \/ TimersDone \/ FunctorsDone

Next ==
  \/ NewConnection
  \/ \E ready \in SUBSET {"IN", "OUT", "HUP", "ERR"} : Poll(ready)
  \/ CallStep
  \/ StageStep
  \/ TimerFires
  \/ RunFunctor
  \/ EnterOther
  \/ Keep
  \/ \E len \in 0 .. MaxBytes : Send(len) \/ DelaySend(len)
  \/ SetSendParam
  \/ UserForceClose
  \/ DestroyServer

Spec == Init /\ [][Next]_vars

\* Callbacks return.  A stage calls finitely many of them (the active channels,
\* the timers out of the wheels, one batch), so that every stage ends, what is
\* queued is run and a timer fires.  A peer that reads makes the socket
\* writable again and again.
FairSpec ==
  /\ Spec
  /\ WF_vars(CallStep)
  /\ SF_vars(StageStep)
  /\ WF_vars(Poll({}))
  /\ SF_vars(RunFunctor)
  /\ SF_vars(TimerFires)
  /\ SF_vars(Poll({"OUT"}))

-----------------------------------------------------------------------------
(***************************************************************************)
(* Properties.                                                             *)
(***************************************************************************)

\* Types of the connection's state.
TypeOK ==
  /\ stage \in {"poll", "events", "timers", "functors"}
  /\ state_ \in States
  /\ destroyed_ \in BOOLEAN /\ addedToLoop_ \in BOOLEAN /\ eventHandling_ \in BOOLEAN
  /\ events \subseteq {"read", "write"}
  /\ revents \subseteq {"IN", "OUT", "HUP", "ERR"}
  /\ todo \subseteq DOMAIN Handlers
  /\ stack \in Seq(Frames) /\ Len(stack) <= 2
  /\ queue \in Seq(Tasks)
  /\ timers \in Nat
  /\ isDelaySend_ \in BOOLEAN /\ isStartDelayTask_ \in BOOLEAN /\ past \subseteq Events
  /\ sendBuffer_ \in Seq(Nat) /\ wire \in Seq(Nat)
  /\ Len(sendBuffer_) <= CacheSize
  /\ accepted \in 0 .. MaxBytes
  /\ serverAlive \in BOOLEAN /\ owned \in BOOLEAN /\ held \in BOOLEAN
  /\ ups \in 0 .. 1 /\ downs \in 0 .. 1

\* The peer is sent what the user sent, in order, each byte once, whichever of
\* send(), handleWrite() and handDelaySend() writes and however little they can,
\* for a user who always or never delays: send() overtakes the bytes that wait
\* for a timer (see SendAsserts).
StreamIntact == mixed \/ wire \o sendBuffer_ = [i \in 1 .. accepted |-> i]

\* Bytes in the buffer of an open connection have somebody to send them, the
\* poller or a delayed-send timer, however the user delays or not.  The poller
\* is asked only while there are bytes; and a timer that does not find them being
\* written finds some, so that it closes no healthy connection for having
\* nothing to send.  The code breaks this in three ways, each named here:
\*  - without setSendParam(), handleWrite() drains what the timer left and keeps
\*    isStartDelayTask_ (:316), after which delaySend() starts no timer (:213):
\*    "stale";
\*  - an empty delaySend() starts a timer (:213) with nothing to send, whose 0 from
\*    ::send() closes the connection (:243, :263): "empty";
\*  - the bytes the timer is for have gone out behind those of send(): mixed.
SomebodySends ==
  state_ = "kConnected" =>
     /\ sendBuffer_ # <<>> => isWriting \/ timers > 0 \/ "stale" \in past
     /\ isWriting => sendBuffer_ # <<>>
     /\ timers > 0 /\ ~isWriting => sendBuffer_ # <<>> \/ mixed \/ "empty" \in past

\* send()'s assertions: what is buffered is being written, and conversely.
SendAsserts ==
  (state_ = "kConnected" /\ ~isDelaySend_) => (isWriting <=> sendBuffer_ # <<>>)

\* handleWrite()'s assertion: a writable event does not arrive at an open
\* connection that has stopped writing since it was polled.
NoStaleWrite ==
  ("OUT" \in revents \/ "write" \in todo) =>
     (state_ = "kConnected" => isWriting)

\* handleClose()'s assertion, when it is the hang-up that calls it.
CloseOnlyOnce ==
  ("HUP" \in revents \/ "close" \in todo) =>
     state_ \in {"kConnected", "kDisconnecting"}

\* The user sees a connection come up once, go down once at most and after
\* that, and messages only in between.
CallbacksInOrder ==
  /\ downs <= ups /\ ups <= 1
  /\ (stack # <<>> /\ stack[1] \in {"up", "message"}) => downs = 0

\* A connection exists for as long as the loop may use its channel: while the
\* poller keeps it, and until handleEvent() returns to it (~Channel() asserts both).
UsedIsAlive == (addedToLoop_ \/ eventHandling_) => Alive

\* The connection, with its buffers, callbacks and what it shares with the loop,
\* lives as its server counts on, and as TcpServer and TcpClient have it.
LifeHere == INSTANCE ConnectionLife WITH state <- state_, destroyed <- destroyed_
IsConnectionLife == LifeHere!Spec

\* A forced close is carried out, whatever else closes the connection first.
ForcedCloseHappens == (state_ = "kDisconnecting") ~> (downs = 1)

\* Once down, everybody but the user lets go of the connection.
EventuallyReleased == (downs = 1) ~> (~owned /\ queue = <<>>)

\* Buffered bytes of a connection that stays open go out, however the user delays
\* or not, unless handleWrite() has left isStartDelayTask_ set (see SomebodySends).
BufferDrains ==
  (state_ = "kConnected" /\ sendBuffer_ # <<>>)
    ~> (sendBuffer_ = <<>> \/ state_ # "kConnected" \/ "stale" \in past)
=============================================================================
