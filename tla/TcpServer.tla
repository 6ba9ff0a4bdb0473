----------------------------- MODULE TcpServer ------------------------------
(***************************************************************************)
(* A TcpServer with its Acceptor (TcpServer.cpp, Acceptor.cpp) and the     *)
(* connections it has accepted, in one loop.  Descriptors are numbers that *)
(* the kernel gives out again once they have been closed, and there are    *)
(* only so many of them: ::accept() fails when they are used up.           *)
(*                                                                         *)
(* The loop is the cycle of NetworkLoop with one FIFO queue of functors,   *)
(* as in TcpConnection; of a connection only its life is kept.             *)
(***************************************************************************)
EXTENDS Integers, Sequences, FiniteSets

CONSTANTS
  MaxPeers,       \* bound: peers that ever connect
  MaxDescriptors  \* the process's limit, what the rest of it uses left aside

ASSUME BoundsAreSound ==
  /\ MaxPeers \in Nat \ {0}
  /\ MaxDescriptors \in Nat \ {0}

Conns == 1 .. MaxPeers
Ids == 1 .. MaxPeers              \* values of nextConnId_, as parts of names
Descriptors == 1 .. MaxDescriptors
None == 0
Acceptor == -1                    \* acceptChannel_, among the channels

VARIABLES
  stage,         \* where NetworkLoop::loop() is
  stack,         \* calls under way, the innermost last: user code and ~TcpServer
  queue,         \* functors
  handling,      \* the channel in handleEvent()
  polled,        \* channels reported by poll() and not dispatched
  registered,    \* channels in the poller
  server,        \* "alive", "dying" in its destructor, or "gone"
  started_, nextConnId_,
  connections_,  \* from the id in a name to the connection of that name
  listening,     \* has Acceptor::listen() been called?
  backlog,       \* peers the kernel has queued for ::accept()
  arrived,       \* how many peers have tried to connect
  state_, destroyed_,
  name_,         \* the id in each connection's name_
  fd_,           \* the descriptor of each connection's socket_
  held           \* connections the user keeps a pointer to

loop  == <<stage, stack, queue, handling, polled>>
names == <<nextConnId_, connections_>>
peers == <<listening, backlog, arrived>>
given == <<name_, fd_>>
life  == <<state_, destroyed_>>
vars == <<loop, registered, server, started_, names, peers, given, life, held>>

Init ==
  /\ stage = "poll"
  /\ stack = <<>> /\ queue = <<>>
  /\ handling = None
  /\ polled = {} /\ registered = {}
  /\ server = "alive" /\ started_ = FALSE
  /\ nextConnId_ = 1
  /\ connections_ = [n \in Ids |-> None]
  /\ listening = FALSE /\ backlog = 0 /\ arrived = 0
  /\ state_ = [i \in Conns |-> "none"]
  /\ destroyed_ = [i \in Conns |-> FALSE]
  /\ name_ = [i \in Conns |-> None]
  /\ fd_ = [i \in Conns |-> None]
  /\ held = {}

-----------------------------------------------------------------------------
(***************************************************************************)
(* Calls, the queue, pointers and descriptors.                             *)
(***************************************************************************)
Frame(name, i) == [name |-> name, id |-> i]
Top == stack[Len(stack)]
Below == SubSeq(stack, 1, Len(stack) - 1)
Call(name, i) == stack' = Append(stack, Frame(name, i))
QueueInLoop(task, i) == queue' = Append(queue, Frame(task, i))

Idle == stack = <<>> /\ handling = None
UserCode == stack # <<>> /\ Top.name # "dtor"

Set(f, i, v) == [f EXCEPT ![i] = v]

\* shared_ptrs: the server's, the user's, those bound in functors, and those of
\* the callers of callbacks
Alive(i) ==
  \/ \E n \in Ids : connections_[n] = i
  \/ i \in held
  \/ \E k \in DOMAIN queue : queue[k].id = i
  \/ \E k \in DOMAIN stack : stack[k].id = i

\* ~Socket() closes the descriptor, so it is in use as long as its connection lives
InUse(f) == \E i \in Conns : Alive(i) /\ fd_[i] = f
Free == {f \in Descriptors : ~InUse(f)}

\* ::accept() hands out the lowest one
Lowest(S) == CHOOSE f \in S : \A g \in S : f <= g

-----------------------------------------------------------------------------
(***************************************************************************)
(* The peers, and start().                                                 *)
(***************************************************************************)
\* Bound: MaxPeers
PeerArrives ==
  /\ listening
  /\ arrived < MaxPeers
  /\ arrived' = arrived + 1
  /\ backlog' = backlog + 1
  /\ UNCHANGED <<loop, registered, server, started_, names, listening, given,
                 life, held>>

\* also an ::accept() that fails with ECONNABORTED
PeerGivesUp ==
  /\ backlog > 0
  /\ backlog' = backlog - 1
  /\ UNCHANGED <<loop, registered, server, started_, names, listening, arrived,
                 given, life, held>>

\* Acceptor::listen()
listen ==
  /\ listening' = TRUE
  /\ registered' = registered \cup {Acceptor}
  /\ UNCHANGED <<backlog, arrived>>

MayStart == server = "alive" /\ ~started_

\* start() in the loop's thread
Start ==
  /\ UserCode
  /\ MayStart
  /\ started_' = TRUE
  /\ listen
  /\ UNCHANGED <<loop, server, names, given, life, held>>

\* ... and in another, where runInLoop() queues
StartRemote ==
  /\ MayStart
  /\ started_' = TRUE
  /\ QueueInLoop("listen", None)
  /\ UNCHANGED <<stage, stack, handling, polled, registered, server, names, peers,
                 given, life, held>>

-----------------------------------------------------------------------------
(***************************************************************************)
(* The loop.                                                               *)
(***************************************************************************)
\* what is ready of the connections is up to their peers; the acceptor's socket
\* is readable while peers wait
Waiting == IF backlog > 0 THEN registered \cap {Acceptor} ELSE {}

Poll(ready) ==
  /\ stage = "poll"
  /\ ready \subseteq registered \ {Acceptor}
  /\ polled' = ready \cup Waiting
  /\ stage' = "events"
  /\ UNCHANGED <<stack, queue, handling, registered, server, started_, names,
                 peers, given, life, held>>

Goes(from, to) ==
  /\ stage = from /\ Idle
  /\ stage' = to
  /\ UNCHANGED <<stack, queue, handling, polled, registered, server, started_,
                 names, peers, given, life, held>>

EventsDone == polled = {} /\ Goes("events", "timers")
TimersDone == Goes("timers", "functors")
FunctorsDone == Goes("functors", "poll")

\* handleEvent() of a channel enters one of its callbacks
HandleEvent(channel) ==
  /\ stage = "events" /\ Idle
  /\ channel \in polled
  /\ polled' = polled \ {channel}
  /\ handling' = channel
  /\ UNCHANGED <<stage, queue, server, started_, held>>

HandleEventReturns ==
  /\ stack = <<>> /\ handling # None
  /\ handling' = None
  /\ UNCHANGED <<stage, stack, queue, polled, registered, server, started_, names,
                 peers, given, life, held>>

-----------------------------------------------------------------------------
(***************************************************************************)
(* Acceptor::handleRead().                                                 *)
(***************************************************************************)
\* bug: the next connection gets the same name
SameId == UNCHANGED nextConnId_
NextId == nextConnId_' = nextConnId_ + 1

\* newConnection(), and connectEstablished(), which it calls through runInLoop()
newConnection(i, f) ==
  /\ state_[i] = "none"
  /\ \A j \in 1 .. i - 1 : state_[j] # "none"
  /\ fd_' = Set(fd_, i, f)
  /\ name_' = Set(name_, i, nextConnId_)
  /\ connections_' = Set(connections_, nextConnId_, i)
  /\ NextId
  /\ state_' = Set(state_, i, "kConnected")
  /\ registered' = registered \cup {i}
  /\ Call("up", i)
  /\ UNCHANGED destroyed_

Accept(i) ==
  /\ HandleEvent(Acceptor)
  /\ backlog > 0
  /\ Free # {}
  /\ newConnection(i, Lowest(Free))
  /\ backlog' = backlog - 1
  /\ UNCHANGED <<listening, arrived>>

\* bug: the acceptor stops reading
StopAccepting == registered' = registered \ {Acceptor}
GoOnAccepting == UNCHANGED registered

\* EMFILE, which is logged, or EAGAIN
AcceptFails ==
  /\ HandleEvent(Acceptor)
  /\ backlog > 0 => Free = {}
  /\ GoOnAccepting
  /\ UNCHANGED <<stack, names, peers, given, life>>

-----------------------------------------------------------------------------
(***************************************************************************)
(* The connections' handlers.                                              *)
(***************************************************************************)
\* bug: the channel is not removed from the poller
LeaveRegistered(i) == UNCHANGED registered
Unregister(i) == registered' = registered \ {i}

\* setState( kDisconnected ), disableAll(), remove() and connectionCallback_
Disconnect(i, frame) ==
  /\ state_' = Set(state_, i, "kDisconnected")
  /\ Unregister(i)
  /\ Call(frame, i)

handleClose(i) == Disconnect(i, "down") /\ UNCHANGED destroyed_

\* connectDestroyed(); bug: the connection is left as it is
LeaveConnected(i) ==
  /\ destroyed_' = Set(destroyed_, i, TRUE)
  /\ UNCHANGED <<state_, registered, stack>>
connectDestroyed(i) ==
  /\ destroyed_' = Set(destroyed_, i, TRUE)
  /\ IF state_[i] = "kConnected"
     THEN Disconnect(i, "downDestroyed")
     ELSE UNCHANGED <<state_, registered, stack>>

\* handleRead() with data
HandleRead(i) ==
  /\ HandleEvent(i)
  /\ state_[i] = "kConnected"
  /\ Call("message", i)
  /\ UNCHANGED <<registered, names, peers, given, life>>

\* hang-up, or in a connected state an error or end of file as well
HandleClose(i) ==
  /\ HandleEvent(i)
  /\ state_[i] \in {"kConnected", "kDisconnecting"}
  /\ handleClose(i)
  /\ UNCHANGED <<names, peers, given>>

HandleNothing(i) ==
  /\ HandleEvent(i)
  /\ UNCHANGED <<stack, registered, names, peers, given, life>>

\* bug: the connection is closed without waiting for the functors
CloseAtOnce(i) ==
  /\ Disconnect(i, "down")
  /\ UNCHANGED queue
CloseLater(i) ==
  /\ state_' = Set(state_, i, "kDisconnecting")
  /\ QueueInLoop("forceCloseInLoop", i)
  /\ UNCHANGED <<registered, stack>>

\* forceClose()
forceClose(i) ==
  /\ state_[i] = "kConnected"
  /\ CloseLater(i)
  /\ UNCHANGED <<stage, handling, polled, server, started_, names, peers, given,
                 destroyed_, held>>

\* ::send() fails in handleWrite(), after the other handlers of the same event,
\* or in the timer of a delaySend()
SendFails(i) ==
  /\ \/ stack = <<>> /\ handling = i
     \/ stage = "timers" /\ Idle /\ Alive(i)
  /\ forceClose(i)

-----------------------------------------------------------------------------
(***************************************************************************)
(* Functors.                                                               *)
(***************************************************************************)
Runs(task) ==
  /\ stage = "functors" /\ Idle
  /\ queue # <<>>
  /\ Head(queue).name = task
  /\ queue' = Tail(queue)
  /\ UNCHANGED <<stage, handling, polled, server, started_, names, given, held>>

Task == Head(queue).id

Listen ==
  /\ Runs("listen")
  /\ listen
  /\ UNCHANGED <<stack, life>>

ForceCloseInLoop ==
  /\ Runs("forceCloseInLoop")
  /\ IF state_[Task] = "kDisconnecting"
     THEN handleClose(Task)
     ELSE UNCHANGED <<life, registered, stack>>
  /\ UNCHANGED peers

ConnectDestroyed ==
  /\ Runs("connectDestroyed")
  /\ connectDestroyed(Task)
  /\ UNCHANGED peers

-----------------------------------------------------------------------------
(***************************************************************************)
(* User code: in the connections' callbacks, and in any other callback of  *)
(* the loop.                                                               *)
(***************************************************************************)
EnterOther ==
  /\ stage # "poll" /\ Idle
  /\ server # "gone" \/ held # {}
  /\ Call("other", None)
  /\ UNCHANGED <<stage, queue, handling, polled, registered, server, started_,
                 names, peers, given, life, held>>

Keep(i) ==
  /\ UserCode
  /\ i = Top.id
  /\ held' = held \cup {i}
  /\ UNCHANGED <<loop, registered, server, started_, names, peers, given, life>>

Drop(i) ==
  /\ UserCode
  /\ i \in held
  /\ held' = held \ {i}
  /\ UNCHANGED <<loop, registered, server, started_, names, peers, given, life>>

UserForceClose(i) ==
  /\ UserCode
  /\ i = Top.id \/ i \in held
  /\ forceClose(i)

\* a closed connection tells its server, if it has not been destroyed and the
\* weak pointer can be locked
Reports == Top.name = "down" /\ ~destroyed_[Top.id] /\ server = "alive"

\* removeConnection(), removeConnectionInLoop()
DownReturns ==
  /\ stack # <<>> /\ Reports
  /\ stack' = Below
  /\ connections_' = Set(connections_, name_[Top.id], None)
  /\ QueueInLoop("connectDestroyed", Top.id)
  /\ UNCHANGED <<stage, handling, polled, registered, server, started_,
                 nextConnId_, peers, given, life, held>>

OtherReturns ==
  /\ UserCode
  /\ ~Reports
  /\ stack' = Below
  /\ UNCHANGED <<stage, queue, handling, polled, registered, server, started_,
                 names, peers, given, life, held>>

-----------------------------------------------------------------------------
(***************************************************************************)
(* ~TcpServer(): not while events are handled, where it could free the     *)
(* channel in handleEvent(), and not while listen() is queued with a plain *)
(* pointer to the acceptor.                                                *)
(***************************************************************************)
ListenQueued == \E k \in DOMAIN queue : queue[k].name = "listen"

Destroy ==
  /\ UserCode
  /\ server = "alive"
  /\ stage \in {"timers", "functors"}
  /\ ~ListenQueued
  /\ server' = "dying"
  /\ Call("dtor", None)
  /\ UNCHANGED <<stage, queue, handling, polled, registered, started_, names,
                 peers, given, life, held>>

InDestructor == stack # <<>> /\ Top.name = "dtor"

\* the order is that of the names as strings
DestroyConnection(n) ==
  /\ InDestructor
  /\ connections_[n] # None
  /\ connections_' = Set(connections_, n, None)
  /\ connectDestroyed(connections_[n])
  /\ UNCHANGED <<stage, queue, handling, polled, server, started_, nextConnId_,
                 peers, given, held>>

\* ~Acceptor()
DestructorReturns ==
  /\ InDestructor
  /\ \A n \in Ids : connections_[n] = None
  /\ server' = "gone"
  /\ stack' = Below
  /\ registered' = registered \ {Acceptor}
  /\ listening' = FALSE
  /\ backlog' = 0
  /\ UNCHANGED <<stage, queue, handling, polled, started_, names, arrived, given,
                 life, held>>

-----------------------------------------------------------------------------
Dispatch ==
  \/ \E i \in Conns : Accept(i) \/ HandleRead(i) \/ HandleClose(i) \/ HandleNothing(i)
  \/ AcceptFails

CallStep ==
  \/ HandleEventReturns
  \/ DownReturns \/ OtherReturns
  \/ \E n \in Ids : DestroyConnection(n)
  \/ DestructorReturns

StageStep == Dispatch \/ EventsDone \/ TimersDone \/ FunctorsDone

RunFunctor == Listen \/ ForceCloseInLoop \/ ConnectDestroyed

UserStep ==
  \/ EnterOther
  \/ Start
  \/ \E i \in Conns : Keep(i) \/ Drop(i) \/ UserForceClose(i)
  \/ Destroy

Polls == \E ready \in SUBSET Conns : Poll(ready)

Next ==
  \/ PeerArrives \/ PeerGivesUp \/ StartRemote
  \/ Polls
  \/ CallStep
  \/ StageStep
  \/ \E i \in Conns : SendFails(i)
  \/ RunFunctor
  \/ UserStep

Spec == Init /\ [][Next]_vars

\* Callbacks return, poll() returns, every stage of the loop ends, and a batch of
\* functors gets to every functor queued.
FairSpec ==
  /\ Spec
  /\ WF_vars(Polls)
  /\ WF_vars(CallStep)
  /\ SF_vars(StageStep)
  /\ SF_vars(RunFunctor)

-----------------------------------------------------------------------------
(***************************************************************************)
(* Properties.                                                             *)
(***************************************************************************)
Frames == {"up", "message", "down", "downDestroyed", "other", "dtor"}
Tasks == {"listen", "forceCloseInLoop", "connectDestroyed"}
States == {"none", "kConnected", "kDisconnecting", "kDisconnected"}
Channels == Conns \cup {Acceptor}

\* Types; calls are nested three deep at most (a callback, the destructor in it,
\* and a callback in that).
TypeOK ==
  /\ stage \in {"poll", "events", "timers", "functors"}
  /\ stack \in Seq([name : Frames, id : Conns \cup {None}]) /\ Len(stack) <= 3
  /\ queue \in Seq([name : Tasks, id : Conns \cup {None}])
  /\ handling \in Channels \cup {None}
  /\ polled \subseteq Channels /\ registered \subseteq Channels
  /\ server \in {"alive", "dying", "gone"}
  /\ started_ \in BOOLEAN /\ listening \in BOOLEAN
  /\ nextConnId_ \in 1 .. MaxPeers + 1
  /\ connections_ \in [Ids -> Conns \cup {None}]
  /\ backlog \in Nat /\ arrived \in Nat /\ backlog <= arrived
  /\ state_ \in [Conns -> States]
  /\ destroyed_ \in [Conns -> BOOLEAN]
  /\ name_ \in [Conns -> Ids \cup {None}]
  /\ fd_ \in [Conns -> Descriptors \cup {None}]
  /\ held \subseteq Conns

Open(i) == state_[i] \in {"kConnected", "kDisconnecting"}
Registered == registered \ {Acceptor}

\* The map of a living server has each of its open connections under its own
\* name, whatever closed, forced or unfinished ones are around it, and
\* removeConnectionInLoop() finds what it erases ("assert( n == 1 )").
ConnectionsTracked ==
  /\ server = "alive" =>
       \A i \in Conns : Open(i) => connections_[name_[i]] = i
  /\ (stack # <<>> /\ Reports) => connections_[name_[Top.id]] = Top.id

\* What the pollers take for granted of their clients: a registered channel's
\* socket is open, and no descriptor, reused or not, is registered twice.
DescriptorsExclusive ==
  /\ \A i \in Registered : Alive(i)
  /\ \A i, j \in Registered : fd_[i] = fd_[j] => i = j

\* NetworkLoop::removeChannel()'s assertion, whichever channels have been reported
\* together: while events are dispatched, no channel is removed by the handler of
\* another, because a connection closes others only with a functor.
RemovesOnlyItself ==
  [][stage = "events" => registered \ registered' \subseteq {handling'}]_vars

\* A server leaves nothing in the poller but connections whose forced close it
\* finds under way and that are certain to remove themselves.
LeavesNothingBehind ==
  server = "gone" =>
    \A c \in registered :
      \E k \in DOMAIN queue : queue[k] = Frame("forceCloseInLoop", c)

\* Each connection lives as ConnectionLife says, whatever happens to the others and
\* to the server: a connection that is destroyed is not in the map any more.
LifeOf(i) ==
  INSTANCE ConnectionLife
  WITH state     <- IF state_[i] = "none" THEN "kConnecting" ELSE state_[i],
       destroyed <- destroyed_[i],
       owned     <- \E n \in Ids : connections_[n] = i
LivesBegin == \A i \in Conns : LifeOf(i)!Init
LivesGoOn == \A i \in Conns : [LifeOf(i)!Next]_(LifeOf(i)!vars)
AreConnectionLives == LivesBegin /\ [][LivesGoOn]_vars

\* Peers that wait are accepted, given up, or wait for descriptors that open
\* connections and the user keep: failures of ::accept() are got over, and
\* connections that have been closed give their descriptors back.
PeersServed ==
  (server = "alive" /\ backlog > 0) ~>
     \/ backlog = 0
     \/ server # "alive"
     \/ \A f \in Descriptors :
          \E i \in Conns : fd_[i] = f /\ (Open(i) \/ i \in held)
=============================================================================
