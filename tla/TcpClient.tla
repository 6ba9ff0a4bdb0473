----------------------------- MODULE TcpClient ------------------------------
(***************************************************************************)
(* Outgoing connections: TcpClient.cpp and the Connector (Connector.cpp)   *)
(* that each connect() creates.  A connector watches a socket until it is  *)
(* writable, fails or takes too long, and answers with one of the user's   *)
(* two callbacks; an answer of success makes the socket a TcpConnection.   *)
(* Connectors call the client through a plain pointer, so what matters is  *)
(* what is still under way when the client is destroyed.                   *)
(*                                                                         *)
(* The loop is the cycle of NetworkLoop with one FIFO queue of functors,   *)
(* as in TcpConnection; of the connections only their life is kept.        *)
(***************************************************************************)
EXTENDS Naturals, Sequences, FiniteSets

CONSTANT MaxConnects   \* bound: calls of connect() and delayConnect()

ASSUME BoundIsSound == MaxConnects \in Nat \ {0}

\* the calls of connect(), their connectors and their connections
Attempts == 1 .. MaxConnects
None == 0

VARIABLES
  stage,           \* where NetworkLoop::loop() is
  stack,           \* calls under way, the innermost last: user code and ~TcpClient
  queue,           \* functors
  handling, todo,  \* the connector whose channel handles an event, what is left
  revents,         \* polled and not dispatched: of the connectors' channels,
  hangups,         \* ... and connections whose handler is going to close them
  timers,          \* connectors whose timeout has not fired
  delayed,         \* delayConnect() timers
  client, nextConnectorId_, connectors_, connections_,
  connect_, state_,
  channel_,        \* "none", "added" to the poller, or "removed" from it
  sockets,         \* who has each connector's socket
  conn, destroyed_,  \* state_ and destroyed_ of the TcpConnections
  answers          \* history: how often each connect() has been answered

loop      == <<stage, stack, queue>>
events    == <<handling, todo, revents, hangups>>
clocks    == <<timers, delayed>>
maps      == <<client, nextConnectorId_, connectors_, connections_>>
connector == <<connect_, state_, channel_, sockets>>
conns     == <<conn, destroyed_>>
vars == <<loop, events, clocks, maps, connector, conns, answers>>

Init ==
  /\ stage = "poll"
  /\ stack = <<>> /\ queue = <<>>
  /\ handling = None /\ todo = <<>>
  /\ revents = [i \in Attempts |-> {}]
  /\ hangups = {}
  /\ timers = {} /\ delayed = 0
  /\ client = "alive"
  /\ nextConnectorId_ = 1
  /\ connectors_ = {} /\ connections_ = {}
  /\ connect_ = [i \in Attempts |-> FALSE]
  /\ state_ = [i \in Attempts |-> "kDisconnected"]
  /\ channel_ = [i \in Attempts |-> "none"]
  /\ sockets = [i \in Attempts |-> "none"]
  /\ conn = [i \in Attempts |-> "none"]
  /\ destroyed_ = [i \in Attempts |-> FALSE]
  /\ answers = [i \in Attempts |-> 0]

-----------------------------------------------------------------------------
(***************************************************************************)
(* Calls and the queue.                                                    *)
(***************************************************************************)
Frame(name, i) == [name |-> name, id |-> i]
Top == stack[Len(stack)]
Below == SubSeq(stack, 1, Len(stack) - 1)
Call(name, i) == stack' = Append(stack, Frame(name, i))

\* queue' for a call made while the functors of before are still to run
After(before, task, i) == queue' = Append(before, Frame(task, i))
QueueInLoop(task, i) == After(queue, task, i)

Idle == stack = <<>> /\ handling = None
UserCode == stack # <<>> /\ Top.name # "dtor"

Set(f, i, v) == [f EXCEPT ![i] = v]

-----------------------------------------------------------------------------
(***************************************************************************)
(* Connector.                                                              *)
(***************************************************************************)
\* the timeout task; bug: it is not started
NoTimeout(i) == UNCHANGED timers
ArmTimeout(i) == timers' = timers \cup {i}

connecting(i) ==
  /\ state_' = Set(state_, i, "kConnecting")
  /\ channel_' = Set(channel_, i, "added")
  /\ sockets' = Set(sockets, i, "connector")
  /\ ArmTimeout(i)

\* TcpClient::connect() down to Connector::connect(): start() runs at once.
\* ::connect() may refuse at once: then nothing more happens, the socket made for
\* the call included (and assertions abort).
Refused(i) ==
  /\ sockets' = Set(sockets, i, "refused")
  /\ UNCHANGED <<state_, channel_, timers>>

Connect(i) ==
  /\ i = nextConnectorId_
  /\ nextConnectorId_' = i + 1
  /\ connectors_' = connectors_ \cup {i}
  /\ connect_' = Set(connect_, i, TRUE)
  /\ connecting(i) \/ Refused(i)

\* bugs: the channel is freed at once, or left
FreeAtOnce(i, before) == channel_' = Set(channel_, i, "none") /\ queue' = before
LeaveUnfreed(i, before) == channel_' = Set(channel_, i, "removed") /\ queue' = before
RemoveAndResetChannel(i, before) ==
  /\ channel_' = Set(channel_, i, "removed")
  /\ After(before, "resetChannel", i)

\* bug: the state is not changed
StayConnecting(i) == UNCHANGED state_
GiveUp(i) == state_' = Set(state_, i, "kDisconnected")

\* bug: the socket is not closed
LeaveOpen(i) == UNCHANGED sockets
CloseSocket(i) == sockets' = Set(sockets, i, "closed")

\* connectComplete() with -1
AnswerFailed(i) ==
  /\ connectors_' = connectors_ \ {i}
  /\ answers' = Set(answers, i, answers[i] + 1)
  /\ Call("failed", i)

\* stopInLoop(), handleError(), connectTimeoutCheck() and a failed handleWrite()
ConnectFailed(i, before) ==
  /\ GiveUp(i)
  /\ RemoveAndResetChannel(i, before)
  /\ CloseSocket(i)
  /\ IF connect_[i]
     THEN AnswerFailed(i)
     ELSE UNCHANGED <<connectors_, answers, stack>>
  /\ UNCHANGED connections_

\* all four do nothing unless the connector is connecting
Unconcerned(before) ==
  /\ queue' = before
  /\ UNCHANGED <<state_, channel_, sockets, connectors_, connections_, answers, stack>>

FailIfConnecting(i, before) ==
  IF state_[i] = "kConnecting" THEN ConnectFailed(i, before) ELSE Unconcerned(before)

\* connectSuccess() and connectComplete() with a socket.  A peer that has gone by
\* then fails an assertion of getPeerAddr() (SocketOps.cpp:142); a build without
\* assertions goes on with an address it has not got, as here.
ConnectSucceeded(i) ==
  /\ state_' = Set(state_, i, "kConnected")
  /\ RemoveAndResetChannel(i, queue)
  /\ IF connect_[i]
     THEN /\ connectors_' = connectors_ \ {i}
          /\ connections_' = connections_ \cup {i}
          /\ sockets' = Set(sockets, i, "connection")
          /\ conn' = Set(conn, i, "kConnecting")
          /\ answers' = Set(answers, i, answers[i] + 1)
          /\ Call("success", i)
     ELSE /\ CloseSocket(i)
          /\ UNCHANGED <<connectors_, connections_, conn, answers, stack>>

-----------------------------------------------------------------------------
(***************************************************************************)
(* The loop.                                                               *)
(***************************************************************************)
Connected(i) == conn[i] \in {"kConnected", "kDisconnecting"}

Poll(ready, hang) ==
  /\ stage = "poll"
  /\ revents' = ready
  /\ \A i \in Attempts : ready[i] # {} => channel_[i] = "added"
  /\ hangups' = hang
  /\ \A i \in hang : Connected(i)
  /\ stage' = "events"
  /\ UNCHANGED <<stack, queue, handling, todo, clocks, maps, connector, conns, answers>>

Quiet == [i \in Attempts |-> {}]

HandleEvent(i) ==
  /\ stage = "events" /\ Idle
  /\ revents[i] # {}
  /\ handling' = i
  /\ todo' = SelectSeq(<<"ERR", "OUT">>, LAMBDA e : e \in revents[i])
  /\ revents' = Set(revents, i, {})
  /\ UNCHANGED <<loop, hangups, clocks, maps, connector, conns, answers>>

Handler(event) ==
  /\ handling # None /\ stack = <<>>
  /\ todo # <<>>
  /\ Head(todo) = event
  /\ todo' = Tail(todo)
  /\ UNCHANGED <<stage, handling, revents, hangups, clocks, client,
                 nextConnectorId_, connect_, destroyed_>>

HandleError ==
  /\ Handler("ERR")
  /\ FailIfConnecting(handling, queue)
  /\ UNCHANGED conn

HandleWrite ==
  /\ Handler("OUT")
  /\ \/ /\ state_[handling] = "kConnecting"
        /\ ConnectSucceeded(handling)
     \/ FailIfConnecting(handling, queue) /\ UNCHANGED conn

HandleEventReturns ==
  /\ handling # None /\ stack = <<>>
  /\ todo = <<>>
  /\ handling' = None
  /\ UNCHANGED <<loop, todo, revents, hangups, clocks, maps, connector, conns, answers>>

\* a connection's channel: handleClose(), from one handler or another
HandleClose(i) ==
  /\ stage = "events" /\ Idle
  /\ i \in hangups
  /\ hangups' = hangups \ {i}
  /\ conn' = Set(conn, i, "kDisconnected")
  /\ Call("down", i)
  /\ UNCHANGED <<stage, queue, handling, todo, revents, clocks, maps, connector,
                 destroyed_, answers>>

Goes(from, to) ==
  /\ stage = from /\ Idle
  /\ stage' = to
  /\ UNCHANGED <<stack, queue, events, clocks, maps, connector, conns, answers>>

EventsDone == revents = Quiet /\ hangups = {} /\ Goes("events", "timers")
TimersDone == Goes("timers", "functors")
FunctorsDone == Goes("functors", "poll")

\* _connectTimeoutCheck(): a weak pointer, and a connector that is gone is not
\* connecting
ConnectTimeoutCheck(i) ==
  /\ stage = "timers" /\ Idle
  /\ i \in timers
  /\ timers' = timers \ {i}
  /\ FailIfConnecting(i, queue)
  /\ UNCHANGED <<stage, events, delayed, client, nextConnectorId_, connect_, conns>>

DelayedConnect(i) ==
  /\ stage = "timers" /\ Idle
  /\ delayed > 0
  /\ delayed' = delayed - 1
  /\ Connect(i)
  /\ UNCHANGED <<loop, events, client, connections_, conns, answers>>

-----------------------------------------------------------------------------
(***************************************************************************)
(* Functors.                                                               *)
(***************************************************************************)
Runs(task) ==
  /\ stage = "functors" /\ Idle
  /\ queue # <<>>
  /\ Head(queue).name = task

Task == Head(queue).id

StopInLoop ==
  /\ Runs("stopInLoop")
  /\ FailIfConnecting(Task, Tail(queue))
  /\ UNCHANGED <<stage, events, clocks, client, nextConnectorId_, connect_, conns>>

ResetChannel ==
  /\ Runs("resetChannel")
  /\ queue' = Tail(queue)
  /\ channel_' = Set(channel_, Task, "none")
  /\ UNCHANGED <<stage, stack, events, clocks, maps, connect_, state_, sockets,
                 conns, answers>>

ForceCloseInLoop ==
  /\ Runs("forceCloseInLoop")
  /\ queue' = Tail(queue)
  /\ IF conn[Task] = "kDisconnecting"
     THEN conn' = Set(conn, Task, "kDisconnected") /\ Call("down", Task)
     ELSE UNCHANGED <<conn, stack>>
  /\ UNCHANGED <<stage, events, clocks, maps, connector, destroyed_, answers>>

\* bug: only an open connection is told that its client has let it go
MarkOpen(i) ==
  destroyed_' = Set(destroyed_, i, destroyed_[i] \/ conn[i] = "kConnected")
MarkDestroyed(i) == destroyed_' = Set(destroyed_, i, TRUE)

\* TcpConnection::connectDestroyed()
ConnDestroyed(i) ==
  /\ MarkDestroyed(i)
  /\ IF conn[i] = "kConnected"
     THEN conn' = Set(conn, i, "kDisconnected") /\ Call("downDestroyed", i)
     ELSE UNCHANGED <<conn, stack>>

ConnectDestroyed ==
  /\ Runs("connectDestroyed")
  /\ queue' = Tail(queue)
  /\ ConnDestroyed(Task)
  /\ UNCHANGED <<stage, events, clocks, maps, connector, answers>>

-----------------------------------------------------------------------------
(***************************************************************************)
(* User code: the four callbacks, and any other callback of the loop.      *)
(***************************************************************************)
EnterOther ==
  /\ stage # "poll" /\ Idle
  /\ client # "gone"
  /\ Call("other", None)
  /\ UNCHANGED <<stage, queue, events, clocks, maps, connector, conns, answers>>

\* Bound: MaxConnects
MayConnect ==
  /\ UserCode
  /\ client # "gone"
  /\ nextConnectorId_ + delayed <= MaxConnects

UserConnect(i) ==
  /\ MayConnect
  /\ Connect(i)
  /\ UNCHANGED <<loop, events, delayed, client, connections_, conns, answers>>

DelayConnect ==
  /\ MayConnect
  /\ client = "alive"
  /\ delayed' = delayed + 1
  /\ UNCHANGED <<loop, events, timers, maps, connector, conns, answers>>

ForceClose(i) ==
  /\ UserCode
  /\ conn[i] = "kConnected"
  /\ conn' = Set(conn, i, "kDisconnecting")
  /\ QueueInLoop("forceCloseInLoop", i)
  /\ UNCHANGED <<stage, stack, events, clocks, maps, connector, destroyed_, answers>>

\* connectSuccessCallback_ is followed by connectEstablished() and its callback,
\* the callback of handleClose() by removeConnection() unless connectDestroyed()
\* has been called; the others return to code that does nothing more.
SuccessReturns ==
  /\ stack # <<>> /\ Top.name = "success"
  /\ stack' = Append(Below, Frame("up", Top.id))
  /\ conn' = Set(conn, Top.id, "kConnected")
  /\ UNCHANGED <<stage, queue, events, clocks, maps, connector, destroyed_, answers>>

Reports == Top.name = "down" /\ ~destroyed_[Top.id]

DownReturns ==
  /\ stack # <<>> /\ Reports
  /\ stack' = Below
  /\ connections_' = connections_ \ {Top.id}
  /\ QueueInLoop("connectDestroyed", Top.id)
  /\ UNCHANGED <<stage, events, clocks, client, nextConnectorId_, connectors_,
                 connector, conns, answers>>

OtherReturns ==
  /\ stack # <<>>
  /\ Top.name \notin {"success", "dtor"}
  /\ ~Reports
  /\ stack' = Below
  /\ UNCHANGED <<stage, queue, events, clocks, maps, connector, conns, answers>>

-----------------------------------------------------------------------------
(***************************************************************************)
(* ~TcpClient(): not while events are handled (the channels it removes may *)
(* be active), and not while delayConnect() timers hold a plain pointer.   *)
(* The callbacks it makes may call connect() again.                        *)
(***************************************************************************)
MayDestroy == UserCode /\ client = "alive"

Destroy ==
  /\ MayDestroy
  /\ stage \in {"timers", "functors"}
  /\ delayed = 0
  /\ client' = "dying"
  /\ Call("dtor", None)
  /\ UNCHANGED <<stage, queue, events, clocks, nextConnectorId_, connectors_,
                 connections_, connector, conns, answers>>

InDestructor == stack # <<>> /\ Top.name = "dtor"

DestroyConnection(i) ==
  /\ InDestructor
  /\ i \in connections_
  /\ connections_' = connections_ \ {i}
  /\ ConnDestroyed(i)
  /\ UNCHANGED <<stage, queue, events, clocks, client, nextConnectorId_,
                 connectors_, connector, answers>>

\* stop(); bug: the connector goes on
GoOn(i) == UNCHANGED connect_
StopConnecting(i) == connect_' = Set(connect_, i, FALSE)

StopConnector(i) ==
  /\ InDestructor
  /\ connections_ = {}
  /\ i \in connectors_
  /\ connectors_' = connectors_ \ {i}
  /\ StopConnecting(i)
  /\ QueueInLoop("stopInLoop", i)
  /\ UNCHANGED <<stage, stack, events, clocks, client, nextConnectorId_,
                 connections_, state_, channel_, sockets, conns, answers>>

DestructorReturns ==
  /\ InDestructor
  /\ connections_ = {} /\ connectors_ = {}
  /\ client' = "gone"
  /\ stack' = Below
  /\ UNCHANGED <<stage, queue, events, clocks, nextConnectorId_, connectors_,
                 connections_, connector, conns, answers>>

-----------------------------------------------------------------------------
CallStep ==
  \/ HandleError \/ HandleWrite \/ HandleEventReturns
  \/ SuccessReturns \/ DownReturns \/ OtherReturns
  \/ \E i \in Attempts : DestroyConnection(i) \/ StopConnector(i)
  \/ DestructorReturns

StageStep ==
  \/ \E i \in Attempts : HandleEvent(i) \/ HandleClose(i)
  \/ EventsDone \/ TimersDone \/ FunctorsDone

RunFunctor == StopInLoop \/ ResetChannel \/ ForceCloseInLoop \/ ConnectDestroyed

Next ==
  \/ \E ready \in [Attempts -> SUBSET {"ERR", "OUT"}], hang \in SUBSET Attempts :
       Poll(ready, hang)
  \/ CallStep
  \/ StageStep
  \/ RunFunctor
  \/ \E i \in Attempts :
       ConnectTimeoutCheck(i) \/ DelayedConnect(i) \/ UserConnect(i) \/ ForceClose(i)
  \/ DelayConnect
  \/ EnterOther
  \/ Destroy

Spec == Init /\ [][Next]_vars

\* Callbacks return; every stage of the loop ends, a batch of functors gets to
\* every functor queued, and a timer fires once its time has come.
FairSpec ==
  /\ Spec
  /\ WF_vars(CallStep)
  /\ SF_vars(StageStep)
  /\ WF_vars(Poll(Quiet, {}))
  /\ SF_vars(RunFunctor)
  /\ \A i \in Attempts : SF_vars(ConnectTimeoutCheck(i))

-----------------------------------------------------------------------------
(***************************************************************************)
(* Properties.                                                             *)
(***************************************************************************)
Frames == {"failed", "success", "up", "down", "downDestroyed", "other", "dtor"}
Tasks == {"resetChannel", "stopInLoop", "forceCloseInLoop", "connectDestroyed"}
ConnStates == {"none", "kConnecting", "kConnected", "kDisconnecting", "kDisconnected"}

\* Types; calls are nested three deep at most (a callback, the destructor in it,
\* and a callback in that).
TypeOK ==
  /\ stage \in {"poll", "events", "timers", "functors"}
  /\ stack \in Seq([name : Frames, id : Attempts \cup {None}]) /\ Len(stack) <= 3
  /\ queue \in Seq([name : Tasks, id : Attempts])
  /\ handling \in Attempts \cup {None} /\ todo \in Seq({"ERR", "OUT"})
  /\ revents \in [Attempts -> SUBSET {"ERR", "OUT"}]
  /\ hangups \subseteq Attempts /\ timers \subseteq Attempts
  /\ delayed \in 0 .. MaxConnects
  /\ client \in {"alive", "dying", "gone"}
  /\ nextConnectorId_ \in 1 .. MaxConnects + 1
  /\ connectors_ \subseteq Attempts /\ connections_ \subseteq Attempts
  /\ connect_ \in [Attempts -> BOOLEAN]
  /\ state_ \in [Attempts -> {"kDisconnected", "kConnecting", "kConnected"}]
  /\ channel_ \in [Attempts -> {"none", "added", "removed"}]
  /\ sockets \in [Attempts -> {"none", "connector", "connection", "closed", "refused"}]
  /\ conn \in [Attempts -> ConnStates] /\ destroyed_ \in [Attempts -> BOOLEAN]
  /\ answers \in [Attempts -> Nat]

\* connectComplete()'s assertion and its plain pointer: a connector that could
\* still answer is in the map of a client that still exists.
AnswersReachClient ==
  \A i \in Attempts :
    (connect_[i] /\ state_[i] = "kConnecting") => client # "gone" /\ i \in connectors_

\* A call of connect() is answered once at most, by one callback or the other,
\* though an error, writability and the timeout can all be under way for it.
AnsweredOnce ==
  \A i \in Attempts :
    /\ answers[i] <= 1
    /\ answers[i] = 1 => i \notin connectors_ /\ state_[i] # "kConnecting"

\* Every call of connect() has a socket.  The poller watches it exactly while its
\* connector is connecting; afterwards it is closed or a connection's, and never
\* closed while it is watched.  The only sockets that leak are those for which
\* ::connect() failed at once (Connector.cpp:80): nobody has them, and their call is
\* never answered.
SocketsAccounted ==
  \A i \in Attempts :
    /\ sockets[i] = "none" <=> i >= nextConnectorId_
    /\ channel_[i] = "added" <=> state_[i] = "kConnecting"
    /\ sockets[i] = "connector" <=> state_[i] = "kConnecting"
    /\ sockets[i] = "connection" <=> conn[i] # "none"
    /\ sockets[i] = "refused" =>
         /\ state_[i] = "kDisconnected" /\ channel_[i] = "none" /\ answers[i] = 0
         /\ client = "alive" => i \in connectors_

\* ~Channel()'s assertion: a connector's channel is not freed while it is in
\* handleEvent(), whose handler may have removed it.
ChannelOutlivesEvent == handling # None => channel_[handling] # "none"

\* closeCallback_ holds a plain pointer and removeConnection() asserts that the
\* connection is in the map: both are good when handleClose() comes to use them.
ClosesIntoClient ==
  (stack # <<>> /\ Reports) => client # "gone" /\ Top.id \in connections_

\* Each connection lives as ConnectionLife says, from the socket of its attempt on.
LifeOf(i) ==
  INSTANCE ConnectionLife
  WITH state     <- IF conn[i] = "none" THEN "kConnecting" ELSE conn[i],
       destroyed <- destroyed_[i],
       owned     <- i \in connections_
LivesBegin == \A i \in Attempts : LifeOf(i)!Init
LivesGoOn == \A i \in Attempts : [LifeOf(i)!Next]_(LifeOf(i)!vars)
AreConnectionLives == LivesBegin /\ [][LivesGoOn]_vars

\* A connector that is watching its socket gets to an answer, at the latest by
\* its timeout, if its client stays.
AttemptAnswered ==
  \A i \in Attempts :
    (state_[i] = "kConnecting") ~> (answers[i] = 1 \/ client # "alive")

\* connect()'s comments in TcpClient.h, a callback for the connection that fails
\* and one for the connection that succeeds: an attempt of a client that stays
\* ends in one of them.
EveryConnectAnswered ==
  \A i \in Attempts : (i \in connectors_) ~> (answers[i] = 1 \/ client # "alive")

\* The channel of a connector that has finished is freed, and with it the
\* connector that its callbacks refer to.
ChannelsAreReset ==
  \A i \in Attempts : (channel_[i] = "added") ~> (channel_[i] = "none")
=============================================================================
