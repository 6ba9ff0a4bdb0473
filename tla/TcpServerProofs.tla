-------------------------- MODULE TcpServerProofs ---------------------------
(***************************************************************************)
(* Safety of the server for any number of peers and descriptors.           *)
(***************************************************************************)
EXTENDS TcpServer, Functions, SequenceTheorems, WellFoundedInduction, TLAPS

-----------------------------------------------------------------------------
(* What the operators on sequences do to the range of a queue or a stack. *)

\* push_back() adds the pushed functor to the queue's elements, nothing else.
LEMMA RangeOfAppend ==
  ASSUME NEW S, NEW s \in Seq(S), NEW x \in S
  PROVE  Range(Append(s, x)) = Range(s) \cup {x}
<1>1. /\ Append(s, x) \in Seq(S)
      /\ Len(Append(s, x)) = Len(s) + 1
      /\ \A i \in 1 .. Len(s) : Append(s, x)[i] = s[i]
      /\ Append(s, x)[Len(s) + 1] = x
  BY AppendProperties
<1>2. /\ DOMAIN Append(s, x) = 1 .. (Len(s) + 1)
      /\ DOMAIN s = 1 .. Len(s)
      /\ Len(s) \in Nat
  BY <1>1, LenProperties
<1>3. QED
  BY <1>1, <1>2 DEF Range

\* The empty vector has no elements.
LEMMA RangeOfEmpty == Range(<<>>) = {}
BY DEF Range

\* The functor at the front, and those behind it, are what the queue holds.
LEMMA RangeOfTail ==
  ASSUME NEW S, NEW s \in Seq(S), s # <<>>
  PROVE  /\ Head(s) \in Range(s)
         /\ Range(s) = {Head(s)} \cup Range(Tail(s))
<1>1. /\ Head(s) = s[1]
      /\ Tail(s) \in Seq(S)
      /\ Len(Tail(s)) = Len(s) - 1
      /\ \A i \in 1 .. Len(Tail(s)) : Tail(s)[i] = s[i + 1]
  BY HeadTailProperties
<1>2. /\ Len(s) \in Nat \ {0}
      /\ DOMAIN s = 1 .. Len(s)
      /\ DOMAIN Tail(s) = 1 .. Len(s) - 1
  BY <1>1, EmptySeq, LenProperties
<1>3. Head(s) \in Range(s) /\ Range(Tail(s)) \subseteq Range(s)
  BY <1>1, <1>2 DEF Range
<1>4. ASSUME NEW i \in 1 .. Len(s), i # 1
      PROVE  s[i] \in Range(Tail(s))
  <2>1. i - 1 \in 1 .. Len(s) - 1 /\ s[i] = Tail(s)[i - 1]
    BY <1>1, <1>2, <1>4
  <2>2. QED
    BY <1>2, <2>1 DEF Range
<1>5. QED
  BY <1>1, <1>2, <1>3, <1>4 DEF Range

\* Popping a call leaves the calls below it.
LEMMA RangeOfFront ==
  ASSUME NEW S, NEW s \in Seq(S), s # <<>>
  PROVE  /\ s[Len(s)] \in Range(s)
         /\ SubSeq(s, 1, Len(s) - 1) \in Seq(S)
         /\ Len(SubSeq(s, 1, Len(s) - 1)) = Len(s) - 1
         /\ \A i \in 1 .. Len(s) - 1 : SubSeq(s, 1, Len(s) - 1)[i] = s[i]
         /\ Range(SubSeq(s, 1, Len(s) - 1)) \subseteq Range(s)
<1> DEFINE front == SubSeq(s, 1, Len(s) - 1)
<1>1. Len(s) \in Nat \ {0} /\ DOMAIN s = 1 .. Len(s)
  BY EmptySeq, LenProperties
<1>2. /\ front \in Seq(S)
      /\ Len(front) = Len(s) - 1
      /\ \A i \in 1 .. Len(s) - 1 : front[i] = s[i]
  BY <1>1, SubSeqProperties
<1>3. DOMAIN front = 1 .. Len(s) - 1
  BY <1>2, LenProperties
<1>4. QED
  BY <1>1, <1>2, <1>3 DEF Range

-----------------------------------------------------------------------------
FrameType == [name : Frames, id : Conns \cup {None}]
TaskType == [name : Tasks, id : Conns \cup {None}]

\* The invariant, in parts.
LoopTypes ==
  /\ stage \in {"poll", "events", "timers", "functors"}
  /\ stack \in Seq(FrameType)
  /\ queue \in Seq(TaskType)
  /\ handling \in Channels \cup {None}
  /\ polled \subseteq Channels /\ registered \subseteq Channels
PeerTypes ==
  /\ started_ \in BOOLEAN /\ listening \in BOOLEAN
  /\ backlog \in Nat /\ arrived \in Nat /\ backlog <= arrived
ConnTypes ==
  /\ server \in {"alive", "dying", "gone"}
  /\ nextConnId_ \in 1 .. MaxPeers + 1
  /\ connections_ \in [Ids -> Conns \cup {None}]
  /\ state_ \in [Conns -> States]
  /\ destroyed_ \in [Conns -> BOOLEAN]
  /\ name_ \in [Conns -> Ids \cup {None}]
  /\ fd_ \in [Conns -> Descriptors \cup {None}]
  /\ held \subseteq Conns

\* Only the calls and functors that concern no connection have none.
FramesFit ==
  /\ \A x \in Range(stack) : x.name \notin {"other", "dtor"} => x.id \in Conns
  /\ \A x \in Range(queue) : x.name # "listen" => x.id \in Conns

\* A callback, the destructor in it, and a callback in that.
StackFits ==
  /\ Len(stack) <= 3
  /\ server = "dying" <=> Len(stack) \in {2, 3}
  /\ Len(stack) >= 1 => stack[1].name # "dtor"
  /\ Len(stack) >= 2 => stack[2].name = "dtor"
  /\ Len(stack) = 3 => stack[3].name = "downDestroyed"
  /\ server = "dying" => stage \in {"timers", "functors"}

\* Connections are numbered in the order of their names.
NamesFit ==
  /\ \A i \in Conns : state_[i] = "none" <=> i >= nextConnId_
  /\ \A i \in Conns : i < nextConnId_ => name_[i] = i
  /\ \A n \in Ids : connections_[n] \in {None, n}

PointersFit == \A i \in Conns : Alive(i) => i < nextConnId_

\* No two connections that live have one descriptor.
DescriptorsFit ==
  \A i, j \in Conns : Alive(i) /\ Alive(j) /\ fd_[i] = fd_[j] => i = j

\* The poller, the map and the queue know of each open connection.
LifeFits ==
  /\ \A i \in Conns : i \in registered <=> Open(i)
  /\ \A i \in Conns : state_[i] = "kConnected" => connections_[i] = i
  /\ \A i \in Conns :
       state_[i] = "kDisconnecting" => Frame("forceCloseInLoop", i) \in Range(queue)
  /\ server = "alive" => \A i \in Conns : Open(i) => connections_[i] = i

\* A connection that is about to report its end is closed, and still in the map.
ReportFits ==
  Len(stack) >= 1 /\ stack[1].name = "down" =>
     /\ state_[stack[1].id] = "kDisconnected"
     /\ server = "alive" => connections_[stack[1].id] = stack[1].id

\* What a server that has been destroyed has left.
ServerFits ==
  /\ Acceptor \in registered => server # "gone"
  /\ server = "gone" => \A n \in Ids : connections_[n] = None
  /\ (\E x \in Range(queue) : x.name = "listen") => server = "alive"
  /\ Acceptor \in polled => server = "alive"
  /\ stage # "events" => polled = {}

ServerInv ==
  /\ LoopTypes /\ PeerTypes /\ ConnTypes
  /\ FramesFit /\ StackFits /\ NamesFit /\ PointersFit /\ DescriptorsFit
  /\ LifeFits /\ ReportFits /\ ServerFits

-----------------------------------------------------------------------------
(* Calls, the queue and pointers. *)

LEMMA FrameTypes ==
  ASSUME NEW name, NEW i
  PROVE  /\ Frame(name, i).name = name /\ Frame(name, i).id = i
         /\ name \in Frames /\ i \in Conns \cup {None} => Frame(name, i) \in FrameType
         /\ name \in Tasks /\ i \in Conns \cup {None} => Frame(name, i) \in TaskType
BY DEF Frame, FrameType, TaskType

\* a call is pushed
LEMMA CallEffect ==
  ASSUME LoopTypes, NEW name \in Frames, NEW i \in Conns \cup {None}, Call(name, i)
  PROVE  /\ stack' \in Seq(FrameType)
         /\ Len(stack') = Len(stack) + 1 /\ Len(stack) \in Nat
         /\ stack'[Len(stack) + 1] = Frame(name, i)
         /\ \A k \in 1 .. Len(stack) : stack'[k] = stack[k]
         /\ Range(stack') = Range(stack) \cup {Frame(name, i)}
<1>1. Frame(name, i) \in FrameType /\ stack \in Seq(FrameType)
  BY FrameTypes DEF LoopTypes
<1>2. QED
  BY <1>1, RangeOfAppend, AppendProperties, LenProperties DEF Call

\* ... and returns
LEMMA ReturnEffect ==
  ASSUME LoopTypes, stack # <<>>, stack' = Below
  PROVE  /\ Top \in Range(stack) /\ Top \in FrameType /\ Top = stack[Len(stack)]
         /\ stack' \in Seq(FrameType)
         /\ Len(stack') = Len(stack) - 1 /\ Len(stack) \in Nat \ {0}
         /\ \A k \in 1 .. Len(stack) - 1 : stack'[k] = stack[k]
         /\ Range(stack') \subseteq Range(stack)
<1>1. stack \in Seq(FrameType)
  BY DEF LoopTypes
<1>2. Len(stack) \in Nat \ {0}
  BY <1>1, EmptySeq, LenProperties
<1>3. Top \in FrameType
  BY <1>1, <1>2, ElementOfSeq DEF Top
<1>4. QED
  BY <1>1, <1>2, <1>3, RangeOfFront DEF Below, Top

\* a functor is queued
LEMMA QueueEffect ==
  ASSUME LoopTypes, NEW task \in Tasks, NEW i \in Conns \cup {None}, QueueInLoop(task, i)
  PROVE  /\ queue' \in Seq(TaskType)
         /\ Range(queue') = Range(queue) \cup {Frame(task, i)}
<1>1. Frame(task, i) \in TaskType /\ queue \in Seq(TaskType)
  BY FrameTypes DEF LoopTypes
<1>2. QED
  BY <1>1, RangeOfAppend, AppendProperties DEF QueueInLoop

\* ... and taken
LEMMA TakeEffect ==
  ASSUME LoopTypes, queue # <<>>, queue' = Tail(queue)
  PROVE  /\ queue' \in Seq(TaskType)
         /\ Head(queue) \in Range(queue) /\ Head(queue) \in TaskType
         /\ Range(queue) = {Head(queue)} \cup Range(queue')
<1>1. queue \in Seq(TaskType)
  BY DEF LoopTypes
<1>2. QED
  BY <1>1, RangeOfTail, HeadTailProperties

LEMMA AliveIs ==
  ASSUME NEW i
  PROVE  Alive(i) <=> \/ \E n \in Ids : connections_[n] = i
                      \/ i \in held
                      \/ \E x \in Range(queue) : x.id = i
                      \/ \E x \in Range(stack) : x.id = i
BY DEF Alive, Range

LEMMA AliveWillBe ==
  ASSUME NEW i
  PROVE  Alive(i)' <=> \/ \E n \in Ids : connections_'[n] = i
                       \/ i \in held'
                       \/ \E x \in Range(queue') : x.id = i
                       \/ \E x \in Range(stack') : x.id = i
BY DEF Alive, Range

\* Pointers are copied from pointers: but for the ones to new connections, none
\* to a connection appears that had none.
LEMMA AliveShrinks ==
  ASSUME PointersFit, DescriptorsFit, UNCHANGED <<fd_, nextConnId_>>,
         \A n \in Ids : connections_'[n] \in {connections_[n], None},
         \A i \in held' : i \in held \/ Alive(i),
         \A x \in Range(queue') : x \in Range(queue) \/ x.id \notin Conns \/ Alive(x.id),
         \A x \in Range(stack') : x \in Range(stack) \/ x.id \notin Conns \/ Alive(x.id)
  PROVE  PointersFit' /\ DescriptorsFit'
<1>1. None \notin Conns
  BY BoundsAreSound DEF BoundsAreSound, None, Conns
<1>2. ASSUME NEW i \in Conns, Alive(i)'
      PROVE  Alive(i)
  <2>1. CASE \E n \in Ids : connections_'[n] = i
    BY <1>1, <2>1, AliveIs
  <2>2. CASE i \in held'
    BY <2>2, AliveIs
  <2>3. CASE \E x \in Range(queue') : x.id = i
    BY <2>3, AliveIs
  <2>4. CASE \E x \in Range(stack') : x.id = i
    BY <2>4, AliveIs
  <2>5. QED
    BY <1>2, <2>1, <2>2, <2>3, <2>4, AliveWillBe
<1>3. QED
  BY <1>2 DEF PointersFit, DescriptorsFit

\* An open connection has its pointer in the map, or in the functor that will
\* close it.
LEMMA OpenIsAlive ==
  ASSUME LifeFits, NEW i \in Conns, Open(i)
  PROVE  Alive(i)
<1>1. CASE state_[i] = "kConnected"
  BY <1>1, AliveIs DEF LifeFits, Conns, Ids
<1>2. CASE state_[i] = "kDisconnecting"
  BY <1>2, AliveIs, FrameTypes DEF LifeFits
<1>3. QED
  BY <1>1, <1>2 DEF Open

-----------------------------------------------------------------------------
(* Steps that leave the connections as they are. *)

LEMMA ConnsSteady ==
  ASSUME ServerInv, UNCHANGED <<names, given, state_>>,
         destroyed_' \in [Conns -> BOOLEAN],
         server' \in {"alive", "dying", "gone"}, server' = "alive" => server = "alive",
         held' \subseteq Conns,
         \A i \in Conns : i \in registered' <=> i \in registered,
         \A i \in Conns :
           state_[i] = "kDisconnecting" /\ Frame("forceCloseInLoop", i) \in Range(queue)
             => Frame("forceCloseInLoop", i) \in Range(queue'),
         Len(stack') >= 1 /\ stack'[1].name = "down"
           => Len(stack) >= 1 /\ stack'[1] = stack[1]
  PROVE  ConnTypes' /\ NamesFit' /\ LifeFits' /\ ReportFits'
<1> USE DEF ServerInv, names, given
<1>1. ConnTypes'
  BY DEF ConnTypes
<1>2. NamesFit'
  BY DEF NamesFit
<1>3. LifeFits'
  BY DEF LifeFits, Open
<1>4. ReportFits'
  BY DEF ReportFits
<1>5. QED
  BY <1>1, <1>2, <1>3, <1>4

LEMMA SteadyKeeps ==
  ASSUME ServerInv, UNCHANGED <<stack, queue, server, names, given, life, held>>,
         LoopTypes', PeerTypes', ServerFits',
         \A i \in Conns : i \in registered' <=> i \in registered,
         server = "dying" => stage' \in {"timers", "functors"}
  PROVE  ServerInv'
<1>1. ConnTypes' /\ NamesFit' /\ LifeFits' /\ ReportFits'
  BY ConnsSteady DEF ServerInv, ConnTypes, life
<1>2. FramesFit' /\ StackFits'
  BY DEF ServerInv, FramesFit, StackFits
<1>3. PointersFit' /\ DescriptorsFit'
  BY AliveShrinks DEF ServerInv, names, given
<1>4. QED
  BY <1>1, <1>2, <1>3 DEF ServerInv

LEMMA PeersKeep ==
  ASSUME ServerInv, PeerArrives \/ PeerGivesUp \/ Start
  PROVE  ServerInv'
<1> USE DEF ServerInv, PeerArrives, PeerGivesUp, Start, listen, MayStart, loop, names,
            given, life, peers, vars
<1>1. UNCHANGED <<stack, queue, server, names, given, life, held, stage, polled, handling>>
  OBVIOUS
<1>2. registered' \in {registered, registered \cup {Acceptor}}
  OBVIOUS
<1>3. LoopTypes'
  BY <1>1, <1>2 DEF LoopTypes, Channels
<1>4. PeerTypes'
  <2>1. started_' \in {started_, TRUE} /\ listening' \in {listening, TRUE}
    OBVIOUS
  <2>2. started_' \in BOOLEAN /\ listening' \in BOOLEAN
    BY <2>1 DEF PeerTypes
  <2>3. backlog' \in Nat /\ arrived' \in Nat /\ backlog' <= arrived'
    BY DEF PeerTypes
  <2>4. QED
    BY <2>2, <2>3 DEF PeerTypes
<1>5. \A i \in Conns : i \in registered' <=> i \in registered
  BY <1>2, BoundsAreSound DEF Conns, Acceptor, BoundsAreSound
<1>6. ServerFits'
  BY <1>1, <1>2 DEF ServerFits
<1>7. QED
  BY <1>1, <1>3, <1>4, <1>5, <1>6, SteadyKeeps DEF StackFits

LEMMA StagesKeep ==
  ASSUME ServerInv,
         \/ \E ready \in SUBSET Conns : Poll(ready)
         \/ EventsDone \/ TimersDone \/ FunctorsDone
         \/ HandleEventReturns \/ AcceptFails \/ \E i \in Conns : HandleNothing(i)
  PROVE  ServerInv'
<1> USE DEF ServerInv, Poll, EventsDone, TimersDone, FunctorsDone, Goes,
            HandleEventReturns, AcceptFails, HandleNothing, HandleEvent, GoOnAccepting,
            loop, names, given, life, peers, vars
<1>1. UNCHANGED <<stack, queue, server, names, given, life, held, registered, peers>>
  OBVIOUS
<1>2. /\ stage' \in {"poll", "events", "timers", "functors"}
      /\ polled' \subseteq Channels /\ handling' \in Channels \cup {None}
  BY DEF LoopTypes, Waiting, Channels
<1>3. LoopTypes'
  BY <1>1, <1>2 DEF LoopTypes
<1>4. PeerTypes'
  <2>1. started_' = started_
    OBVIOUS
  <2>2. QED
    BY <1>1, <2>1 DEF PeerTypes
<1>5. server = "dying" => stage' \in {"timers", "functors"}
  BY DEF StackFits, Idle, LoopTypes
<1>6. ServerFits'
  BY <1>1, BoundsAreSound
  DEF ServerFits, StackFits, Waiting, LoopTypes, Conns, Acceptor, BoundsAreSound, ConnTypes
<1>7. QED
  BY <1>1, <1>3, <1>4, <1>5, <1>6, SteadyKeeps

-----------------------------------------------------------------------------
(* Steps that only add or end a call, a functor or a pointer of the user. *)

LEMMA CallsKeep ==
  ASSUME ServerInv,
         \/ \E i \in Conns : HandleRead(i)
         \/ EnterOther
  PROVE  ServerInv'
<1> USE DEF ServerInv, names, given, life, peers, vars, loop
<1>1. PICK f \in {"message", "other"}, i \in Conns \cup {None} :
         /\ Call(f, i)
         /\ f = "message" => i \in Conns /\ Open(i)
         /\ f = "other" => i = None
  BY DEF HandleRead, EnterOther, Open
<1>2. /\ UNCHANGED <<queue, server, names, given, life, held, registered, peers, stage, started_>>
      /\ stack = <<>>
      /\ polled' \subseteq polled
      /\ handling' \in Channels \cup {None}
  BY DEF HandleRead, HandleEvent, EnterOther, Idle, Channels, LoopTypes
<1>3. /\ stack' \in Seq(FrameType)
      /\ Len(stack') = 1 /\ Len(stack) = 0
      /\ stack'[1] = Frame(f, i)
      /\ Range(stack') = Range(stack) \cup {Frame(f, i)}
  <2>1. f \in Frames
    BY DEF Frames
  <2>2. Len(stack) = 0
    BY <1>2
  <2>3. QED
    BY <1>1, <2>1, <2>2, CallEffect
<1>4. LoopTypes'
  BY <1>2, <1>3 DEF LoopTypes
<1>5. PeerTypes'
  BY <1>2 DEF PeerTypes
<1>6. FramesFit' /\ StackFits'
  BY <1>1, <1>2, <1>3, FrameTypes DEF FramesFit, StackFits
<1>7. ConnTypes' /\ NamesFit' /\ LifeFits' /\ ReportFits'
  <2>1. stack'[1].name # "down"
    BY <1>1, <1>3, FrameTypes
  <2>2. QED
    BY <1>2, <2>1, ConnsSteady DEF ConnTypes
<1>8. PointersFit' /\ DescriptorsFit'
  <2>1. i \in Conns => Alive(i)
    BY <1>1, OpenIsAlive, BoundsAreSound DEF None, Conns, BoundsAreSound
  <2>2. QED
    BY <1>2, <1>3, <2>1, AliveShrinks, FrameTypes
<1>9. ServerFits'
  BY <1>2 DEF ServerFits
<1>10. QED
  BY <1>4, <1>5, <1>6, <1>7, <1>8, <1>9

LEMMA OtherReturnsKeeps ==
  ASSUME ServerInv, OtherReturns
  PROVE  ServerInv'
<1> USE DEF ServerInv, names, given, life, peers, vars
<1>1. /\ UNCHANGED <<queue, server, names, given, life, held, registered, peers, stage,
                     started_, polled, handling>>
      /\ stack # <<>> /\ stack' = Below /\ Top.name # "dtor"
  BY DEF OtherReturns, UserCode
<1>2. /\ Top = stack[Len(stack)]
      /\ stack' \in Seq(FrameType)
      /\ Len(stack') = Len(stack) - 1 /\ Len(stack) \in Nat \ {0}
      /\ \A k \in 1 .. Len(stack) - 1 : stack'[k] = stack[k]
      /\ Range(stack') \subseteq Range(stack)
  BY <1>1, ReturnEffect
<1>3. LoopTypes' /\ PeerTypes'
  BY <1>1, <1>2 DEF LoopTypes, PeerTypes
<1>4. Len(stack) \in {1, 3}
  BY <1>1, <1>2 DEF StackFits
<1>5. FramesFit' /\ StackFits'
  BY <1>1, <1>2, <1>4 DEF FramesFit, StackFits
<1>6. ConnTypes' /\ NamesFit' /\ LifeFits' /\ ReportFits'
  BY <1>1, <1>2, ConnsSteady DEF ConnTypes
<1>7. PointersFit' /\ DescriptorsFit'
  BY <1>1, <1>2, AliveShrinks
<1>8. ServerFits'
  BY <1>1 DEF ServerFits
<1>9. QED
  BY <1>3, <1>5, <1>6, <1>7, <1>8

LEMMA PointersKeep ==
  ASSUME ServerInv, NEW i \in Conns, Keep(i) \/ Drop(i)
  PROVE  ServerInv'
<1> USE DEF ServerInv, names, given, life, peers, vars, loop
<1>1. /\ UNCHANGED <<loop, server, names, given, life, registered, peers, started_>>
      /\ held' \subseteq held \cup {i}
      /\ i \in held' => i \in held \/ (i = Top.id /\ stack # <<>>)
  BY DEF Keep, Drop, UserCode
<1>2. LoopTypes' /\ PeerTypes'
  BY <1>1 DEF LoopTypes, PeerTypes
<1>3. FramesFit' /\ StackFits'
  BY <1>1 DEF FramesFit, StackFits
<1>4. ConnTypes' /\ NamesFit' /\ LifeFits' /\ ReportFits'
  BY <1>1, ConnsSteady DEF ConnTypes
<1>5. PointersFit' /\ DescriptorsFit'
  <2>1. ASSUME stack # <<>>
        PROVE  Alive(Top.id)
    <3>1. Top \in Range(stack)
      BY <2>1, RangeOfFront DEF LoopTypes, Top
    <3>2. QED
      BY <3>1, AliveIs
  <2>2. QED
    BY <1>1, <2>1, AliveShrinks
<1>6. ServerFits'
  BY <1>1 DEF ServerFits
<1>7. QED
  BY <1>2, <1>3, <1>4, <1>5, <1>6

\* start() in another thread, and listen() when its turn comes
LEMMA RemoteStartKeeps ==
  ASSUME ServerInv, StartRemote \/ Listen
  PROVE  ServerInv'
<1> USE DEF ServerInv, names, given, life, peers, vars, loop
<1>1. /\ UNCHANGED <<stage, stack, handling, polled, server, names, given, life, held,
                     backlog, arrived>>
      /\ server = "alive"
      /\ registered' \in {registered, registered \cup {Acceptor}}
      /\ started_' \in {started_, TRUE} /\ listening' \in {listening, TRUE}
      /\ queue' \in Seq(TaskType)
      /\ Range(queue) \ {Frame("listen", None)} \subseteq Range(queue') \cup
           {x \in Range(queue) : x.name = "listen"}
      /\ \A x \in Range(queue') : x \in Range(queue) \/ x = Frame("listen", None)
  <2>1. CASE StartRemote
    BY <2>1, QueueEffect DEF StartRemote, MayStart, Tasks
  <2>2. CASE Listen
    BY <2>2, TakeEffect DEF Listen, Runs, listen, ServerFits
  <2>3. QED
    BY <2>1, <2>2
<1>2. None \notin Conns /\ Acceptor \notin Conns
  BY BoundsAreSound DEF BoundsAreSound, Conns, None, Acceptor
<1>3. LoopTypes'
  BY <1>1 DEF LoopTypes, Channels
<1>4. PeerTypes'
  <2>1. started_' \in BOOLEAN /\ listening' \in BOOLEAN
    BY <1>1 DEF PeerTypes
  <2>2. QED
    BY <1>1, <2>1 DEF PeerTypes
<1>5. FramesFit' /\ StackFits'
  BY <1>1, FrameTypes DEF FramesFit, StackFits
<1>6. ConnTypes' /\ NamesFit' /\ LifeFits' /\ ReportFits'
  <2>1. ASSUME NEW i \in Conns, Frame("forceCloseInLoop", i) \in Range(queue)
        PROVE  Frame("forceCloseInLoop", i) \in Range(queue')
    BY <1>1, <2>1, FrameTypes
  <2>2. QED
    BY <1>1, <1>2, <2>1, ConnsSteady DEF ConnTypes
<1>7. PointersFit' /\ DescriptorsFit'
  BY <1>1, <1>2, FrameTypes, AliveShrinks
<1>8. ServerFits'
  BY <1>1 DEF ServerFits
<1>9. QED
  BY <1>3, <1>4, <1>5, <1>6, <1>7, <1>8

LEMMA DestroyKeeps ==
  ASSUME ServerInv, Destroy
  PROVE  ServerInv'
<1> USE DEF ServerInv, names, given, life, peers, vars, loop
<1>1. /\ UNCHANGED <<queue, names, given, life, held, registered, peers, stage,
                     started_, polled, handling>>
      /\ stack # <<>> /\ Top.name # "dtor" /\ Call("dtor", None)
      /\ server = "alive" /\ server' = "dying"
      /\ stage \in {"timers", "functors"}
      /\ ~ListenQueued
  BY DEF Destroy, UserCode
<1>2. /\ stack' \in Seq(FrameType)
      /\ Len(stack') = Len(stack) + 1 /\ Len(stack) \in Nat
      /\ stack'[Len(stack) + 1] = Frame("dtor", None)
      /\ \A k \in 1 .. Len(stack) : stack'[k] = stack[k]
      /\ Range(stack') = Range(stack) \cup {Frame("dtor", None)}
  BY <1>1, CallEffect DEF Frames
<1>3. Len(stack) = 1
  <2>1. Len(stack) # 0
    BY <1>1, EmptySeq DEF LoopTypes
  <2>2. Len(stack) <= 3 /\ Len(stack) # 2 /\ Len(stack) # 3
    BY <1>1 DEF StackFits
  <2>3. Len(stack) \in Nat
    BY <1>2
  <2>4. \A n \in Nat : n <= 3 /\ n # 0 /\ n # 2 /\ n # 3 => n = 1
    OBVIOUS
  <2>5. QED
    BY <2>1, <2>2, <2>3, <2>4
<1>4. LoopTypes' /\ PeerTypes'
  BY <1>1, <1>2 DEF LoopTypes, PeerTypes
<1>5. FramesFit' /\ StackFits'
  BY <1>1, <1>2, <1>3, FrameTypes DEF FramesFit, StackFits
<1>6. ConnTypes' /\ NamesFit' /\ LifeFits' /\ ReportFits'
  BY <1>1, <1>2, <1>3, ConnsSteady DEF ConnTypes
<1>7. PointersFit' /\ DescriptorsFit'
  BY <1>1, <1>2, FrameTypes, AliveShrinks, BoundsAreSound DEF None, Conns, BoundsAreSound
<1>8. ServerFits'
  <2>1. \A x \in Range(queue) : x.name # "listen"
    BY <1>1 DEF ListenQueued, Range
  <2>2. QED
    BY <1>1, <2>1 DEF ServerFits
<1>9. QED
  BY <1>4, <1>5, <1>6, <1>7, <1>8

LEMMA DestructorReturnsKeeps ==
  ASSUME ServerInv, DestructorReturns
  PROVE  ServerInv'
<1> USE DEF ServerInv, names, given, life, peers, vars, loop
<1>1. /\ UNCHANGED <<queue, names, given, life, held, arrived, stage,
                     started_, polled, handling>>
      /\ stack # <<>> /\ Top.name = "dtor" /\ stack' = Below
      /\ server' = "gone" /\ registered' = registered \ {Acceptor}
      /\ \A n \in Ids : connections_[n] = None
      /\ listening' = FALSE /\ backlog' = 0
  BY DEF DestructorReturns, InDestructor
<1>2. /\ Top = stack[Len(stack)]
      /\ stack' \in Seq(FrameType)
      /\ Len(stack') = Len(stack) - 1 /\ Len(stack) \in Nat \ {0}
      /\ \A k \in 1 .. Len(stack) - 1 : stack'[k] = stack[k]
      /\ Range(stack') \subseteq Range(stack)
  BY <1>1, ReturnEffect
<1>3. Len(stack) = 2 /\ server = "dying"
  BY <1>1, <1>2 DEF StackFits
<1>4. LoopTypes' /\ PeerTypes'
  <2>1. LoopTypes'
    BY <1>1, <1>2 DEF LoopTypes
  <2>2. started_' \in BOOLEAN /\ listening' \in BOOLEAN
    BY <1>1 DEF PeerTypes
  <2>3. QED
    BY <1>1, <2>1, <2>2 DEF PeerTypes
<1>5. FramesFit' /\ StackFits'
  BY <1>1, <1>2, <1>3 DEF FramesFit, StackFits
<1>6. ConnTypes' /\ NamesFit' /\ LifeFits' /\ ReportFits'
  BY <1>1, <1>2, <1>3, ConnsSteady, BoundsAreSound
  DEF ConnTypes, Conns, Acceptor, BoundsAreSound
<1>7. PointersFit' /\ DescriptorsFit'
  BY <1>1, <1>2, AliveShrinks
<1>8. ServerFits'
  BY <1>1, <1>3 DEF ServerFits, StackFits
<1>9. QED
  BY <1>4, <1>5, <1>6, <1>7, <1>8

-----------------------------------------------------------------------------
(* Steps that close connections. *)

\* forceClose(), by the user or after a failed ::send()
LEMMA ForceCloseKeeps ==
  ASSUME ServerInv, NEW i \in Conns, SendFails(i) \/ UserForceClose(i)
  PROVE  ServerInv'
<1> USE DEF ServerInv, names, given, peers, vars
<1>1. /\ UNCHANGED <<stage, stack, handling, polled, server, started_, names, peers, given,
                     destroyed_, held, registered>>
      /\ state_[i] = "kConnected"
      /\ state_' = [state_ EXCEPT ![i] = "kDisconnecting"]
      /\ QueueInLoop("forceCloseInLoop", i)
  BY DEF SendFails, UserForceClose, forceClose, CloseLater, Set
<1>2. /\ queue' \in Seq(TaskType)
      /\ Range(queue') = Range(queue) \cup {Frame("forceCloseInLoop", i)}
  BY <1>1, QueueEffect DEF Tasks
<1>3. LoopTypes' /\ PeerTypes' /\ ConnTypes'
  <2>1. LoopTypes' /\ PeerTypes'
    BY <1>1, <1>2 DEF LoopTypes, PeerTypes
  <2>2. state_' \in [Conns -> States]
    BY <1>1 DEF ConnTypes, States
  <2>3. QED
    BY <1>1, <2>1, <2>2 DEF ConnTypes
<1>4. FramesFit' /\ StackFits'
  BY <1>1, <1>2, FrameTypes DEF FramesFit, StackFits
<1>5. \A j \in Conns : state_'[j] = IF j = i THEN "kDisconnecting" ELSE state_[j]
  BY <1>1 DEF ConnTypes
<1>6. NamesFit'
  BY <1>1, <1>5 DEF NamesFit
<1>7. LifeFits'
  BY <1>1, <1>2, <1>5 DEF LifeFits, Open
<1>8. ReportFits'
  <2>1. ASSUME Len(stack) >= 1, stack[1].name = "down"
        PROVE  stack[1].id \in Conns \ {i}
    <3>1. stack[1] \in Range(stack)
      BY <2>1, LenProperties DEF Range, LoopTypes
    <3>2. QED
      BY <1>1, <2>1, <3>1 DEF FramesFit, ReportFits
  <2>2. QED
    BY <1>1, <1>5, <2>1 DEF ReportFits
<1>9. PointersFit' /\ DescriptorsFit'
  <2>1. Alive(i)
    BY <1>1, OpenIsAlive DEF Open
  <2>2. QED
    BY <1>1, <1>2, <2>1, FrameTypes, AliveShrinks
<1>10. ServerFits'
  BY <1>1, <1>2, FrameTypes DEF ServerFits
<1>11. QED
  BY <1>3, <1>4, <1>6, <1>7, <1>8, <1>9, <1>10

\* handleClose(), wherever it is called
LEMMA DisconnectKeeps ==
  ASSUME ServerInv, NEW i \in Conns, Open(i), NEW frame \in {"down", "downDestroyed"},
         Disconnect(i, frame),
         UNCHANGED <<stage, server, started_, nextConnId_, peers, given, held>>,
         destroyed_' \in [Conns -> BOOLEAN],
         polled' \subseteq polled, handling' \in Channels \cup {None},
         queue' \in Seq(TaskType), Range(queue') \subseteq Range(queue),
         \A j \in Conns \ {i} :
           state_[j] = "kDisconnecting" /\ Frame("forceCloseInLoop", j) \in Range(queue)
             => Frame("forceCloseInLoop", j) \in Range(queue'),
         \/ UNCHANGED connections_
         \/ server = "dying" /\ connections_' = Set(connections_, i, None),
         \/ Len(stack) = 0
         \/ Len(stack) = 2 /\ frame = "downDestroyed"
  PROVE  ServerInv'
<1> USE DEF ServerInv, given, peers
<1>1. /\ state_' = [state_ EXCEPT ![i] = "kDisconnected"]
      /\ registered' = registered \ {i}
      /\ Call(frame, i)
  BY DEF Disconnect, Unregister, Set
<1>2. /\ stack' \in Seq(FrameType)
      /\ Len(stack') = Len(stack) + 1
      /\ stack'[Len(stack) + 1] = Frame(frame, i)
      /\ \A k \in 1 .. Len(stack) : stack'[k] = stack[k]
      /\ Range(stack') = Range(stack) \cup {Frame(frame, i)}
  BY <1>1, CallEffect DEF Frames
<1>3. \A j \in Conns : state_'[j] = IF j = i THEN "kDisconnected" ELSE state_[j]
  BY <1>1 DEF ConnTypes
<1>4. /\ connections_' \in [Ids -> Conns \cup {None}]
      /\ \A n \in Ids : connections_'[n] \in {connections_[n], None}
      /\ \A n \in Ids : n # i => connections_'[n] = connections_[n]
      /\ server # "dying" => connections_' = connections_
  BY DEF ConnTypes, Set
<1>5. LoopTypes' /\ PeerTypes' /\ ConnTypes'
  <2>1. LoopTypes' /\ PeerTypes'
    BY <1>1, <1>2 DEF LoopTypes, PeerTypes
  <2>2. state_' \in [Conns -> States]
    BY <1>1 DEF ConnTypes, States
  <2>3. QED
    BY <1>4, <2>1, <2>2 DEF ConnTypes
<1>6. FramesFit' /\ StackFits'
  BY <1>2, FrameTypes DEF FramesFit, StackFits
<1>7. NamesFit'
  BY <1>3, <1>4 DEF NamesFit, Open
<1>8. LifeFits'
  BY <1>1, <1>3, <1>4 DEF LifeFits, Open, Conns, Ids
<1>9. ReportFits'
  <2>1. CASE Len(stack) = 0
    <3>1. stack'[1] = Frame(frame, i)
      BY <1>2, <2>1
    <3>2. server = "alive" => connections_'[i] = i
      BY <1>4 DEF LifeFits
    <3>3. state_'[i] = "kDisconnected"
      BY <1>3
    <3>4. QED
      BY <3>1, <3>2, <3>3, FrameTypes DEF ReportFits
  <2>2. CASE Len(stack) = 2
    <3>1. stack'[1] = stack[1] /\ stack[1] \in Range(stack) /\ server = "dying"
      BY <1>2, <2>2, LenProperties DEF Range, LoopTypes, StackFits
    <3>2. stack[1].name = "down" => state_'[stack[1].id] = "kDisconnected"
      BY <1>3, <2>2, <3>1 DEF FramesFit, ReportFits
    <3>3. QED
      BY <3>1, <3>2 DEF ReportFits
  <2>3. QED
    BY <2>1, <2>2
<1>10. PointersFit' /\ DescriptorsFit'
  <2>1. Alive(i)
    BY OpenIsAlive
  <2>2. QED
    BY <1>2, <1>4, <2>1, FrameTypes, AliveShrinks
<1>11. ServerFits'
  BY <1>1, <1>4 DEF ServerFits
<1>12. QED
  BY <1>5, <1>6, <1>7, <1>8, <1>9, <1>10, <1>11

LEMMA HandleCloseKeeps ==
  ASSUME ServerInv, NEW i \in Conns, HandleClose(i)
  PROVE  ServerInv'
<1>1. /\ Open(i) /\ Len(stack) = 0 /\ Disconnect(i, "down")
      /\ UNCHANGED <<stage, server, started_, nextConnId_, peers, given, held, queue,
                     connections_, destroyed_>>
      /\ polled' \subseteq polled /\ handling' = i
  BY DEF HandleClose, HandleEvent, handleClose, Idle, Open, names, given, peers
<1>2. /\ queue' \in Seq(TaskType) /\ destroyed_' \in [Conns -> BOOLEAN]
      /\ handling' \in Channels \cup {None}
  BY <1>1 DEF ServerInv, LoopTypes, ConnTypes, Channels
<1>3. QED
  BY <1>1, <1>2, DisconnectKeeps

\* A functor has been taken and has found nothing to close.
LEMMA TaskKeeps ==
  ASSUME ServerInv, NEW task \in {"forceCloseInLoop", "connectDestroyed"}, Runs(task),
         task = "forceCloseInLoop" => state_[Task] # "kDisconnecting",
         UNCHANGED <<state_, registered, stack, peers>>,
         destroyed_' \in [Conns -> BOOLEAN]
  PROVE  ServerInv'
<1> USE DEF ServerInv, names, given, peers
<1>1. /\ UNCHANGED <<stage, handling, polled, server, started_, names, given, held>>
      /\ queue' \in Seq(TaskType) /\ Task = Head(queue).id /\ Head(queue).name = task
      /\ Range(queue) = {Head(queue)} \cup Range(queue')
  BY TakeEffect DEF Runs, Task
<1>2. LoopTypes' /\ PeerTypes'
  BY <1>1 DEF LoopTypes, PeerTypes
<1>3. FramesFit' /\ StackFits'
  BY <1>1 DEF FramesFit, StackFits
<1>4. ConnTypes' /\ NamesFit' /\ LifeFits' /\ ReportFits'
  <2>1. ASSUME NEW i \in Conns, state_[i] = "kDisconnecting",
               Frame("forceCloseInLoop", i) \in Range(queue)
        PROVE  Frame("forceCloseInLoop", i) \in Range(queue')
    BY <1>1, <2>1, FrameTypes
  <2>2. QED
    BY <1>1, <2>1, ConnsSteady DEF ConnTypes
<1>5. PointersFit' /\ DescriptorsFit'
  BY <1>1, AliveShrinks
<1>6. ServerFits'
  BY <1>1 DEF ServerFits
<1>7. QED
  BY <1>2, <1>3, <1>4, <1>5, <1>6

LEMMA ForceCloseInLoopKeeps ==
  ASSUME ServerInv, ForceCloseInLoop
  PROVE  ServerInv'
<1>1. Runs("forceCloseInLoop") /\ UNCHANGED peers
  BY DEF ForceCloseInLoop
<1>2. destroyed_' \in [Conns -> BOOLEAN]
  BY DEF ForceCloseInLoop, handleClose, life, ServerInv, ConnTypes
<1>3. CASE state_[Task] # "kDisconnecting"
  BY <1>1, <1>2, <1>3, TaskKeeps DEF ForceCloseInLoop, life
<1>4. CASE state_[Task] = "kDisconnecting"
  <2>1. /\ queue' \in Seq(TaskType)
        /\ Head(queue) \in Range(queue) /\ Head(queue) \in TaskType
        /\ Head(queue).id = Task /\ Head(queue).name = "forceCloseInLoop"
        /\ Range(queue) = {Head(queue)} \cup Range(queue')
    BY <1>1, TakeEffect DEF Runs, Task, ServerInv
  <2>2. Task \in Conns
    BY <2>1 DEF ServerInv, FramesFit
  <2>3. \A j \in Conns \ {Task} :
          Frame("forceCloseInLoop", j) \in Range(queue)
            => Frame("forceCloseInLoop", j) \in Range(queue')
    BY <2>1, FrameTypes
  <2>4. /\ Open(Task) /\ Disconnect(Task, "down") /\ Len(stack) = 0
        /\ UNCHANGED <<stage, server, started_, nextConnId_, peers, given, held,
                       polled, handling, connections_>>
    BY <1>1, <1>4 DEF ForceCloseInLoop, handleClose, Runs, Idle, Open, names, given
  <2>5. handling' \in Channels \cup {None}
    BY <2>4 DEF ServerInv, LoopTypes
  <2>6. QED
    BY <1>2, <2>1, <2>2, <2>3, <2>4, <2>5, DisconnectKeeps
<1>5. QED
  BY <1>3, <1>4

LEMMA ConnectDestroyedKeeps ==
  ASSUME ServerInv, ConnectDestroyed
  PROVE  ServerInv'
<1>1. Runs("connectDestroyed") /\ connectDestroyed(Task) /\ UNCHANGED peers
  BY DEF ConnectDestroyed
<1>2. /\ queue' \in Seq(TaskType)
      /\ Head(queue) \in Range(queue) /\ Head(queue) \in TaskType
      /\ Head(queue).id = Task /\ Head(queue).name = "connectDestroyed"
      /\ Range(queue) = {Head(queue)} \cup Range(queue')
  BY <1>1, TakeEffect DEF Runs, Task, ServerInv
<1>3. Task \in Conns
  BY <1>2 DEF ServerInv, FramesFit
<1>4. destroyed_' \in [Conns -> BOOLEAN]
  BY <1>1, <1>3 DEF connectDestroyed, Set, ServerInv, ConnTypes
<1>5. CASE state_[Task] # "kConnected"
  BY <1>1, <1>4, <1>5, TaskKeeps DEF connectDestroyed
<1>6. CASE state_[Task] = "kConnected"
  <2>1. \A j \in Conns :
          Frame("forceCloseInLoop", j) \in Range(queue)
            => Frame("forceCloseInLoop", j) \in Range(queue')
    BY <1>2, FrameTypes
  <2>2. /\ Open(Task) /\ Disconnect(Task, "downDestroyed") /\ Len(stack) = 0
        /\ UNCHANGED <<stage, server, started_, nextConnId_, peers, given, held,
                       polled, handling, connections_>>
    BY <1>1, <1>6 DEF connectDestroyed, Runs, Idle, Open, names, given
  <2>3. handling' \in Channels \cup {None}
    BY <2>2 DEF ServerInv, LoopTypes
  <2>4. QED
    BY <1>2, <1>3, <1>4, <2>1, <2>2, <2>3, DisconnectKeeps
<1>7. QED
  BY <1>5, <1>6

-----------------------------------------------------------------------------
(* The other steps: connections come and go. *)

\* ::accept() has a lowest descriptor to give, if there is one.
LEMMA LowestIsFree ==
  ASSUME Free # {}
  PROVE  Lowest(Free) \in Free
<1>1. Free \subseteq Nat
  BY BoundsAreSound DEF Free, Descriptors, BoundsAreSound
<1>2. PICK f \in Free : \A g \in Free : ~(<<g, f>> \in OpToRel(<, Nat))
  BY <1>1, NatLessThanWellFounded, WFMin
<1>3. ASSUME NEW g \in Free PROVE f <= g
  <2>1. ASSUME g < f PROVE <<g, f>> \in OpToRel(<, Nat)
    <3>1. <<g, f>> \in Nat \X Nat /\ <<g, f>>[1] = g /\ <<g, f>>[2] = f
      BY <1>1
    <3>2. <<g, f>>[1] < <<g, f>>[2]
      BY <2>1, <3>1
    <3>3. QED
      BY <3>1, <3>2 DEF OpToRel
  <2>2. f \in Nat /\ g \in Nat
    BY <1>1
  <2>3. ~(g < f)
    BY <1>2, <2>1, Zenon
  <2>4. QED
    BY <2>2, <2>3
<1>4. QED
  BY <1>3 DEF Lowest

\* the next connection takes the next number
LEMMA NextIsNext ==
  ASSUME ConnTypes, NamesFit, NEW i \in Conns,
         state_[i] = "none", \A j \in 1 .. i - 1 : state_[j] # "none"
  PROVE  i = nextConnId_ /\ i \in Ids
<1>1. i \in 1 .. MaxPeers /\ MaxPeers \in Nat /\ nextConnId_ \in 1 .. MaxPeers + 1
  BY BoundsAreSound DEF BoundsAreSound, Conns, ConnTypes
<1>2. i >= nextConnId_
  BY DEF NamesFit
<1>3. ASSUME i > nextConnId_ PROVE FALSE
  <2>1. nextConnId_ \in Conns /\ nextConnId_ \in 1 .. i - 1
    BY <1>1, <1>3 DEF Conns
  <2>2. state_[nextConnId_] = "none"
    BY <1>1, <2>1 DEF NamesFit
  <2>3. QED
    BY <2>1, <2>2
<1>4. QED
  BY <1>1, <1>2, <1>3 DEF Ids

LEMMA AcceptKeeps ==
  ASSUME ServerInv, NEW i \in Conns, Accept(i)
  PROVE  ServerInv'
<1> USE DEF ServerInv
<1> DEFINE f == Lowest(Free)
<1>1. /\ UNCHANGED <<stage, queue, server, started_, held, listening, arrived, destroyed_>>
      /\ stage = "events" /\ stack = <<>> /\ Acceptor \in polled
      /\ polled' \subseteq polled /\ handling' = Acceptor
      /\ backlog > 0 /\ backlog' = backlog - 1
      /\ Free # {} /\ state_[i] = "none"
      /\ \A j \in 1 .. i - 1 : state_[j] # "none"
      /\ fd_' = [fd_ EXCEPT ![i] = f]
      /\ name_' = [name_ EXCEPT ![i] = nextConnId_]
      /\ connections_' = [connections_ EXCEPT ![nextConnId_] = i]
      /\ nextConnId_' = nextConnId_ + 1
      /\ state_' = [state_ EXCEPT ![i] = "kConnected"]
      /\ registered' = registered \cup {i}
      /\ Call("up", i)
  BY DEF Accept, HandleEvent, Idle, newConnection, NextId, Set
<1>2. i = nextConnId_ /\ i \in Ids
  BY <1>1, NextIsNext
<1>3. f \in Descriptors /\ ~InUse(f)
  BY <1>1, LowestIsFree DEF Free
<1>4. /\ stack' \in Seq(FrameType)
      /\ Len(stack') = 1 /\ Len(stack) = 0
      /\ stack'[1] = Frame("up", i)
      /\ Range(stack') = Range(stack) \cup {Frame("up", i)}
  <2>1. Len(stack) = 0
    BY <1>1
  <2>2. QED
    BY <1>1, <2>1, CallEffect DEF Frames
<1>5. /\ \A j \in Conns : state_'[j] = IF j = i THEN "kConnected" ELSE state_[j]
      /\ \A j \in Conns : fd_'[j] = IF j = i THEN f ELSE fd_[j]
      /\ \A j \in Conns : name_'[j] = IF j = i THEN i ELSE name_[j]
      /\ \A n \in Ids : connections_'[n] = IF n = i THEN i ELSE connections_[n]
  BY <1>1, <1>2 DEF ConnTypes
<1>6. LoopTypes'
  BY <1>1, <1>4 DEF LoopTypes, Channels
<1>7. PeerTypes'
  <2>1. backlog' \in Nat /\ arrived' \in Nat /\ backlog' <= arrived'
    BY <1>1 DEF PeerTypes
  <2>2. QED
    BY <1>1, <2>1 DEF PeerTypes
<1>8. ConnTypes'
  <2>1. nextConnId_' \in 1 .. MaxPeers + 1
    BY <1>1, <1>2, BoundsAreSound DEF Conns, BoundsAreSound
  <2>2. /\ state_' \in [Conns -> States]
        /\ name_' \in [Conns -> Ids \cup {None}]
        /\ fd_' \in [Conns -> Descriptors \cup {None}]
        /\ connections_' \in [Ids -> Conns \cup {None}]
    BY <1>1, <1>2, <1>3 DEF ConnTypes, States
  <2>3. QED
    BY <1>1, <2>1, <2>2 DEF ConnTypes
<1>9. FramesFit' /\ StackFits'
  BY <1>1, <1>4, FrameTypes DEF FramesFit, StackFits
<1>10. NamesFit'
  <2>1. \A j \in Conns : j \in Nat
    BY BoundsAreSound DEF Conns, BoundsAreSound
  <2>2. \A j \in Conns : (j < nextConnId_') <=> (j < nextConnId_ \/ j = i)
    BY <1>1, <1>2, <2>1
  <2>3. \A j \in Conns : (j >= nextConnId_') <=> (j >= nextConnId_ /\ j # i)
    BY <1>1, <1>2, <2>1
  <2>4. \A j \in Conns : state_'[j] = "none" <=> j >= nextConnId_'
    BY <1>5, <2>3 DEF NamesFit
  <2>5. \A j \in Conns : j < nextConnId_' => name_'[j] = j
    BY <1>5, <2>2 DEF NamesFit
  <2>6. \A n \in Ids : connections_'[n] \in {None, n}
    BY <1>5 DEF NamesFit
  <2>7. QED
    BY <2>4, <2>5, <2>6 DEF NamesFit
<1>11. ASSUME NEW j \in Conns, Alive(j)'
       PROVE  j = i \/ Alive(j)
  <2>1. \/ \E n \in Ids : connections_'[n] = j
        \/ j \in held'
        \/ \E x \in Range(queue') : x.id = j
        \/ \E x \in Range(stack') : x.id = j
    BY <1>11, AliveWillBe
  <2>2. QED
    BY <1>1, <1>4, <1>5, <2>1, AliveIs, FrameTypes
<1>12. PointersFit' /\ DescriptorsFit'
  <2>1. PointersFit'
    <3>1. \A j \in Conns : j < nextConnId_ => j < nextConnId_ + 1
      BY <1>2, BoundsAreSound DEF Conns, BoundsAreSound
    <3>2. i < nextConnId_ + 1
      BY <1>2, BoundsAreSound DEF Conns, BoundsAreSound
    <3>3. QED
      BY <1>1, <1>11, <3>1, <3>2 DEF PointersFit
  <2>2. \A j \in Conns : Alive(j) => fd_[j] # f
    BY <1>3 DEF InUse
  <2>3. DescriptorsFit'
    BY <1>5, <1>11, <2>2 DEF DescriptorsFit
  <2>4. QED
    BY <2>1, <2>3
<1>13. LifeFits'
  <2>1. i \in Conns => i # Acceptor
    BY BoundsAreSound DEF Conns, Acceptor, BoundsAreSound
  <2>2. QED
    BY <1>1, <1>2, <1>5 DEF LifeFits, Open, Conns, Ids
<1>14. ReportFits'
  BY <1>4, FrameTypes DEF ReportFits
<1>15. ServerFits'
  BY <1>1, BoundsAreSound DEF ServerFits, Conns, Acceptor, BoundsAreSound
<1>16. QED
  BY <1>6, <1>7, <1>8, <1>9, <1>10, <1>12, <1>13, <1>14, <1>15

\* a closed connection is taken out of the map
LEMMA DownReturnsKeeps ==
  ASSUME ServerInv, DownReturns
  PROVE  ServerInv'
<1> USE DEF ServerInv, peers, given, life
<1> DEFINE i == Top.id
<1>1. /\ UNCHANGED <<stage, handling, polled, registered, server, started_, nextConnId_,
                     peers, given, life, held>>
      /\ stack # <<>> /\ stack' = Below /\ Top.name = "down" /\ server = "alive"
      /\ connections_' = [connections_ EXCEPT ![name_[i]] = None]
      /\ QueueInLoop("connectDestroyed", i)
  BY DEF DownReturns, Reports, Set
<1>2. /\ Top \in Range(stack) /\ Top \in FrameType /\ Top = stack[Len(stack)]
      /\ stack' \in Seq(FrameType)
      /\ Len(stack') = Len(stack) - 1 /\ Len(stack) \in Nat \ {0}
      /\ Range(stack') \subseteq Range(stack)
  BY <1>1, ReturnEffect
<1>3. Len(stack) = 1
  <2>1. Len(stack) <= 3 /\ Len(stack) # 2 /\ Len(stack) # 3
    BY <1>1 DEF StackFits
  <2>2. \A n \in Nat \ {0} : n <= 3 /\ n # 2 /\ n # 3 => n = 1
    OBVIOUS
  <2>3. QED
    BY <1>2, <2>1, <2>2
<1>4. i \in Conns /\ state_[i] = "kDisconnected"
  BY <1>1, <1>2, <1>3 DEF FramesFit, ReportFits
<1>5. Alive(i)
  BY <1>2, AliveIs
<1>6. name_[i] = i
  BY <1>4, <1>5 DEF PointersFit, NamesFit
<1>7. /\ connections_' \in [Ids -> Conns \cup {None}]
      /\ \A n \in Ids : connections_'[n] = IF n = i THEN None ELSE connections_[n]
  BY <1>1, <1>6 DEF ConnTypes
<1>8. /\ queue' \in Seq(TaskType)
      /\ Range(queue') = Range(queue) \cup {Frame("connectDestroyed", i)}
  BY <1>1, <1>4, QueueEffect DEF Tasks
<1>9. LoopTypes' /\ PeerTypes' /\ ConnTypes'
  BY <1>1, <1>2, <1>7, <1>8 DEF LoopTypes, PeerTypes, ConnTypes
<1>10. FramesFit' /\ StackFits'
  <2>1. FramesFit'
    BY <1>2, <1>4, <1>8, FrameTypes DEF FramesFit
  <2>2. StackFits'
    BY <1>1, <1>2, <1>3 DEF StackFits
  <2>3. QED
    BY <2>1, <2>2
<1>11. NamesFit'
  BY <1>1, <1>7 DEF NamesFit
<1>12. LifeFits'
  BY <1>1, <1>4, <1>7, <1>8 DEF LifeFits, Open, Conns, Ids
<1>13. ReportFits'
  BY <1>2, <1>3 DEF ReportFits
<1>14. PointersFit' /\ DescriptorsFit'
  BY <1>1, <1>2, <1>5, <1>7, <1>8, FrameTypes, AliveShrinks
<1>15. ServerFits'
  BY <1>1, <1>8, FrameTypes DEF ServerFits
<1>16. QED
  BY <1>9, <1>10, <1>11, <1>12, <1>13, <1>14, <1>15

\* the destructor takes a connection out of the map and destroys it
LEMMA DestroyConnectionKeeps ==
  ASSUME ServerInv, NEW n \in Ids, DestroyConnection(n)
  PROVE  ServerInv'
<1> USE DEF ServerInv, given, peers
<1>1. /\ UNCHANGED <<stage, queue, handling, polled, server, started_, nextConnId_,
                     peers, given, held>>
      /\ stack # <<>> /\ Top.name = "dtor"
      /\ connections_[n] # None
      /\ connections_' = Set(connections_, n, None)
      /\ connectDestroyed(connections_[n])
  BY DEF DestroyConnection, InDestructor
<1>2. connections_[n] = n /\ n \in Conns
  BY <1>1 DEF NamesFit, Ids, Conns
<1>3. Len(stack) = 2 /\ server = "dying"
  <2>1. stack \in Seq(FrameType) /\ Top = stack[Len(stack)]
    BY DEF LoopTypes, Top
  <2>2. Len(stack) \in Nat \ {0}
    BY <1>1, <2>1, EmptySeq, LenProperties
  <2>3. Len(stack) # 1 /\ Len(stack) # 3 /\ Len(stack) <= 3
    BY <1>1, <2>1, <2>2 DEF StackFits
  <2>4. \A k \in Nat \ {0} : k <= 3 /\ k # 1 /\ k # 3 => k = 2
    OBVIOUS
  <2>5. Len(stack) = 2
    BY <2>2, <2>3, <2>4
  <2>6. QED
    BY <2>5 DEF StackFits
<1>4. destroyed_' \in [Conns -> BOOLEAN]
  BY <1>1, <1>2 DEF connectDestroyed, Set, ConnTypes
<1>5. CASE state_[n] = "kConnected"
  <2>1. Disconnect(n, "downDestroyed") /\ Open(n)
    BY <1>1, <1>2, <1>5 DEF connectDestroyed, Open
  <2>2. queue' \in Seq(TaskType) /\ handling' \in Channels \cup {None} /\ polled' \subseteq polled
    BY <1>1 DEF LoopTypes
  <2>3. QED
    BY <1>1, <1>2, <1>3, <1>4, <2>1, <2>2, DisconnectKeeps
<1>6. CASE state_[n] # "kConnected"
  <2>1. UNCHANGED <<state_, registered, stack>>
    BY <1>1, <1>2, <1>6 DEF connectDestroyed
  <2>2. /\ connections_' \in [Ids -> Conns \cup {None}]
        /\ \A m \in Ids : connections_'[m] = IF m = n THEN None ELSE connections_[m]
    BY <1>1 DEF ConnTypes, Set
  <2>3. LoopTypes' /\ PeerTypes' /\ ConnTypes'
    BY <1>1, <1>4, <2>1, <2>2 DEF LoopTypes, PeerTypes, ConnTypes
  <2>4. FramesFit' /\ StackFits' /\ ReportFits'
    BY <1>1, <1>3, <2>1 DEF FramesFit, StackFits, ReportFits
  <2>5. NamesFit'
    BY <1>1, <2>1, <2>2 DEF NamesFit
  <2>6. LifeFits'
    BY <1>1, <1>3, <1>6, <2>1, <2>2 DEF LifeFits, Open, Conns, Ids
  <2>7. PointersFit' /\ DescriptorsFit'
    BY <1>1, <2>1, <2>2, AliveShrinks
  <2>8. ServerFits'
    BY <1>1, <1>3, <2>1 DEF ServerFits
  <2>9. QED
    BY <2>3, <2>4, <2>5, <2>6, <2>7, <2>8
<1>7. QED
  BY <1>5, <1>6

-----------------------------------------------------------------------------
(* Theorems. *)

LEMMA InitKeeps == Init => ServerInv
<1> SUFFICES ASSUME Init PROVE ServerInv
  OBVIOUS
<1> USE DEF Init
<1>1. Range(stack) = {} /\ Range(queue) = {} /\ Len(stack) = 0
  BY RangeOfEmpty
<1>2. LoopTypes
  BY EmptySeq DEF LoopTypes
<1>3. PeerTypes
  <2>1. backlog \in Nat /\ arrived \in Nat /\ backlog <= arrived
    OBVIOUS
  <2>2. started_ \in BOOLEAN /\ listening \in BOOLEAN
    BY Zenon
  <2>3. QED
    BY <2>1, <2>2 DEF PeerTypes
<1>4. ConnTypes
  BY BoundsAreSound DEF ConnTypes, BoundsAreSound, States
<1>5. FramesFit /\ StackFits /\ ReportFits
  <2>1. FramesFit
    BY <1>1 DEF FramesFit
  <2>2. server # "dying"
    OBVIOUS
  <2>3. StackFits /\ ReportFits
    BY <1>1, <2>2, SMT DEF StackFits, ReportFits
  <2>4. QED
    BY <2>1, <2>3
<1>6. NamesFit
  BY BoundsAreSound DEF NamesFit, BoundsAreSound, Conns, Ids
<1>7. \A i \in Conns : ~Alive(i)
  BY <1>1, AliveIs, BoundsAreSound DEF BoundsAreSound, Conns, Ids, None
<1>8. PointersFit /\ DescriptorsFit
  BY <1>7 DEF PointersFit, DescriptorsFit
<1>9. LifeFits
  BY DEF LifeFits, Open
<1>10. ServerFits
  BY <1>1 DEF ServerFits
<1>11. QED
  BY <1>2, <1>3, <1>4, <1>5, <1>6, <1>8, <1>9, <1>10 DEF ServerInv

LEMMA StutterKeeps ==
  ASSUME ServerInv, UNCHANGED vars
  PROVE  ServerInv'
<1> USE DEF ServerInv, vars, loop, names, peers, given, life
<1>1. LoopTypes' /\ PeerTypes' /\ ServerFits'
  BY DEF LoopTypes, PeerTypes, ServerFits
<1>2. QED
  BY <1>1, SteadyKeeps DEF StackFits

LEMMA StepKeeps ==
  ASSUME ServerInv, [Next]_vars
  PROVE  ServerInv'
<1>1. CASE PeerArrives \/ PeerGivesUp \/ StartRemote
  BY <1>1, PeersKeep, RemoteStartKeeps
<1>2. CASE Polls
  BY <1>2, StagesKeep DEF Polls
<1>3. CASE CallStep
  BY <1>3, StagesKeep, DownReturnsKeeps, OtherReturnsKeeps, DestroyConnectionKeeps,
     DestructorReturnsKeeps DEF CallStep
<1>4. CASE StageStep
  BY <1>4, StagesKeep, AcceptKeeps, CallsKeep, HandleCloseKeeps DEF StageStep, Dispatch
<1>5. CASE \E i \in Conns : SendFails(i)
  BY <1>5, ForceCloseKeeps
<1>6. CASE RunFunctor
  BY <1>6, RemoteStartKeeps, ForceCloseInLoopKeeps, ConnectDestroyedKeeps DEF RunFunctor
<1>7. CASE UserStep
  BY <1>7, CallsKeep, PeersKeep, PointersKeep, ForceCloseKeeps, DestroyKeeps DEF UserStep
<1>8. CASE UNCHANGED vars
  BY <1>8, StutterKeeps
<1>9. QED
  BY <1>1, <1>2, <1>3, <1>4, <1>5, <1>6, <1>7, <1>8 DEF Next

\* The map, the poller, the queue and the calls under way agree about every
\* connection: the inductive invariant of the server.
THEOREM RecordsAgree == Spec => []ServerInv
<1>1. Init => ServerInv
  BY InitKeeps
<1>2. ServerInv /\ [Next]_vars => ServerInv'
  BY StepKeeps
<1>3. QED
  BY <1>1, <1>2, PTL DEF Spec

\* The map of a living server has each open connection under its own name, and
\* removeConnectionInLoop() finds what it erases.
THEOREM MapIsRight == Spec => []ConnectionsTracked
<1>1. ServerInv => ConnectionsTracked
  <2> SUFFICES ASSUME ServerInv PROVE ConnectionsTracked
    OBVIOUS
  <2> USE DEF ServerInv
  <2>1. ASSUME NEW i \in Conns, Open(i) PROVE name_[i] = i
    BY <2>1, BoundsAreSound DEF NamesFit, Open, ConnTypes, Conns, BoundsAreSound
  <2>2. server = "alive" => \A i \in Conns : Open(i) => connections_[name_[i]] = i
    BY <2>1 DEF LifeFits
  <2>3. ASSUME stack # <<>>, Reports
        PROVE  connections_[name_[Top.id]] = Top.id
    <3>1. Top = stack[Len(stack)] /\ Len(stack) \in Nat \ {0} /\ Top \in Range(stack)
      BY <2>3, EmptySeq, LenProperties, RangeOfFront DEF Top, LoopTypes
    <3>2. Len(stack) <= 3 /\ Len(stack) # 2 /\ Len(stack) # 3
      BY <2>3 DEF StackFits, Reports
    <3>3. \A n \in Nat \ {0} : n <= 3 /\ n # 2 /\ n # 3 => n = 1
      OBVIOUS
    <3>4. Len(stack) = 1
      BY <3>1, <3>2, <3>3
    <3>5. connections_[Top.id] = Top.id /\ Top.id \in Conns
      BY <2>3, <3>1, <3>4 DEF ReportFits, FramesFit, Reports
    <3>6. name_[Top.id] = Top.id
      BY <3>1, <3>5, AliveIs DEF PointersFit, NamesFit
    <3>7. QED
      BY <3>5, <3>6
  <2>4. QED
    BY <2>2, <2>3 DEF ConnectionsTracked
<1>2. QED
  BY <1>1, RecordsAgree, PTL

\* Every registered channel's descriptor is open, and its own.
THEOREM DescriptorsAreExclusive == Spec => []DescriptorsExclusive
<1>1. ServerInv => DescriptorsExclusive
  <2> SUFFICES ASSUME ServerInv PROVE DescriptorsExclusive
    OBVIOUS
  <2> USE DEF ServerInv
  <2>1. ASSUME NEW i \in Registered PROVE i \in Conns /\ Alive(i)
    <3>1. i \in Conns
      BY <2>1 DEF Registered, LoopTypes, Channels
    <3>2. QED
      BY <2>1, <3>1, OpenIsAlive DEF LifeFits, Registered
  <2>2. QED
    BY <2>1 DEF DescriptorsExclusive, DescriptorsFit
<1>2. QED
  BY <1>1, RecordsAgree, PTL

\* After the destructor, only connections whose forced close is queued are left.
THEOREM NothingIsLeft == Spec => []LeavesNothingBehind
<1>1. ServerInv => LeavesNothingBehind
  <2> SUFFICES ASSUME ServerInv, server = "gone", NEW c \in registered
               PROVE  \E k \in DOMAIN queue : queue[k] = Frame("forceCloseInLoop", c)
    BY DEF LeavesNothingBehind
  <2> USE DEF ServerInv
  <2>1. c \in Conns /\ Open(c)
    BY DEF LoopTypes, Channels, ServerFits, LifeFits
  <2>2. state_[c] # "kConnected"
    BY <2>1, BoundsAreSound DEF LifeFits, ServerFits, Conns, Ids, None, BoundsAreSound
  <2>3. Frame("forceCloseInLoop", c) \in Range(queue)
    BY <2>1, <2>2 DEF LifeFits, Open
  <2>4. QED
    BY <2>3 DEF Range
<1>2. QED
  BY <1>1, RecordsAgree, PTL

\* While events are dispatched, a handler removes no channel but its own, which
\* is what NetworkLoop::removeChannel() asserts.
THEOREM HandlersRemoveThemselves == Spec => RemovesOnlyItself
<1>1. ASSUME ServerInv, Next, stage = "events"
      PROVE  registered \ registered' \subseteq {handling'}
  <2> USE DEF ServerInv
  <2>1. server # "dying" /\ Len(stack) \notin {2, 3}
    BY <1>1 DEF StackFits
  <2>2. ~InDestructor
    <3>1. ASSUME InDestructor PROVE FALSE
      <4>1. stack # <<>> /\ stack[Len(stack)].name = "dtor" /\ Len(stack) \in Nat \ {0}
        BY <1>1, <3>1, EmptySeq, LenProperties DEF InDestructor, Top, LoopTypes
      <4>2. Len(stack) # 1 /\ Len(stack) <= 3
        BY <1>1, <4>1 DEF StackFits
      <4>3. Len(stack) # 2 /\ Len(stack) # 3
        BY <2>1
      <4>4. \A n \in Nat \ {0} : n <= 3 => n = 1 \/ n = 2 \/ n = 3
        OBVIOUS
      <4>5. QED
        BY <4>1, <4>2, <4>3, <4>4
    <3>2. QED
      BY <3>1
  <2>3. CASE PeerArrives \/ PeerGivesUp \/ StartRemote \/ UserStep
    BY <2>3 DEF PeerArrives, PeerGivesUp, StartRemote, UserStep, EnterOther, Start, Keep,
                Drop, UserForceClose, forceClose, CloseLater, Destroy, listen
  <2>4. CASE Polls \/ EventsDone \/ TimersDone \/ FunctorsDone
    BY <2>4 DEF Polls, Poll, EventsDone, TimersDone, FunctorsDone, Goes
  <2>5. CASE CallStep
    BY <2>2, <2>5 DEF CallStep, HandleEventReturns, DownReturns, OtherReturns,
                      DestroyConnection, DestructorReturns
  <2>6. CASE Dispatch
    BY <2>6 DEF Dispatch, Accept, newConnection, HandleRead, HandleClose, handleClose,
                Disconnect, Unregister, HandleNothing, AcceptFails, GoOnAccepting, HandleEvent
  <2>7. CASE \E i \in Conns : SendFails(i)
    BY <2>7 DEF SendFails, forceClose, CloseLater
  <2>8. CASE RunFunctor
    BY <1>1, <2>8 DEF RunFunctor, Listen, ForceCloseInLoop, ConnectDestroyed, Runs
  <2>9. QED
    BY <1>1, <2>3, <2>4, <2>5, <2>6, <2>7, <2>8 DEF Next, StageStep
<1>2. ServerInv /\ [Next]_vars
        => [stage = "events" => registered \ registered' \subseteq {handling'}]_vars
  BY <1>1
<1>3. QED
  BY <1>2, RecordsAgree, PTL DEF Spec, RemovesOnlyItself

-----------------------------------------------------------------------------
(* Each connection's life, whatever happens to the others. *)

\* A connection under a forced close is in the map or has been destroyed, and
\* connectDestroyed() is queued for connections that were taken out of the map.
LetGo ==
  /\ \A i \in Conns : state_[i] = "kDisconnecting" => connections_[i] = i \/ destroyed_[i]
  /\ \A x \in Range(queue) :
       x.name = "connectDestroyed"
         => connections_[x.id] = None /\ state_[x.id] = "kDisconnected"

LivesStep(i) == [LifeOf(i)!Next]_(LifeOf(i)!vars)
LivesKept == LivesGoOn /\ LetGo'

\* The server owns a connection if the map has it under its name.
LEMMA OwnedIs ==
  ASSUME NamesFit, NEW i \in Conns
  PROVE  (\E n \in Ids : connections_[n] = i) <=> connections_[i] = i
BY BoundsAreSound DEF NamesFit, BoundsAreSound, Conns, Ids, None

\* A step of others leaves a connection's life as it is.
LEMMA LifeSame ==
  ASSUME NamesFit, NamesFit', NEW i \in Conns, state_'[i] = state_[i],
         destroyed_'[i] = destroyed_[i], connections_'[i] = connections_[i]
  PROVE  LivesStep(i)
<1>1. (\E n \in Ids : connections_'[n] = i) <=> (\E n \in Ids : connections_[n] = i)
  <2>1. (\E n \in Ids : connections_'[n] = i) <=> connections_'[i] = i
    BY BoundsAreSound DEF NamesFit, BoundsAreSound, Conns, Ids, None
  <2>2. QED
    BY <2>1, OwnedIs
<1>2. UNCHANGED LifeOf(i)!vars
  BY <1>1 DEF LifeOf!vars
<1>3. QED
  BY <1>2 DEF LivesStep

LEMMA OwnedWillBe ==
  ASSUME NamesFit', NEW i \in Conns
  PROVE  (\E n \in Ids : connections_'[n] = i) <=> connections_'[i] = i
BY BoundsAreSound DEF NamesFit, BoundsAreSound, Conns, Ids, None

\* Nothing but a report of a closed connection queues connectDestroyed().
NoneLetGo ==
  \A x \in Range(queue') : x \in Range(queue) \/ x.name # "connectDestroyed"

LEMMA AllSame ==
  ASSUME ServerInv, ServerInv', LetGo, NoneLetGo,
         UNCHANGED <<state_, destroyed_, connections_>>
  PROVE  LivesKept
<1>1. \A i \in Conns : LivesStep(i)
  BY LifeSame DEF ServerInv
<1>2. LetGo'
  BY DEF LetGo, NoneLetGo
<1>3. QED
  BY <1>1, <1>2 DEF LivesKept, LivesGoOn, LivesStep

\* A step concerns one connection.
LEMMA OneLife ==
  ASSUME ServerInv, ServerInv', NEW i \in Conns, LivesStep(i), LetGo',
         \A j \in Conns \ {i} : /\ state_'[j] = state_[j]
                                /\ destroyed_'[j] = destroyed_[j]
                                /\ connections_'[j] = connections_[j]
  PROVE  LivesKept
<1>1. ASSUME NEW j \in Conns, j # i PROVE LivesStep(j)
  BY <1>1, LifeSame DEF ServerInv
<1>2. QED
  BY <1>1 DEF LivesKept, LivesGoOn, LivesStep

\* A functor's connection has been accepted.
LEMMA QueuedIsAccepted ==
  ASSUME ServerInv, NEW x \in Range(queue), x.name # "listen"
  PROVE  x.id \in Conns /\ state_[x.id] # "none" /\ x.id < nextConnId_
<1>1. x.id \in Conns
  BY DEF ServerInv, FramesFit
<1>2. Alive(x.id)
  BY AliveIs
<1>3. x.id < nextConnId_
  BY <1>1, <1>2 DEF ServerInv, PointersFit
<1>4. ~(x.id >= nextConnId_)
  BY <1>1, <1>3, BoundsAreSound DEF ServerInv, ConnTypes, Conns, BoundsAreSound
<1>5. QED
  BY <1>1, <1>3, <1>4 DEF ServerInv, NamesFit

LEMMA AcceptLives ==
  ASSUME ServerInv, ServerInv', LetGo, NEW i \in Conns, Accept(i)
  PROVE  LivesKept
<1>1. /\ UNCHANGED <<queue, destroyed_>>
      /\ state_[i] = "none" /\ \A j \in 1 .. i - 1 : state_[j] # "none"
      /\ connections_' = [connections_ EXCEPT ![nextConnId_] = i]
      /\ state_' = [state_ EXCEPT ![i] = "kConnected"]
  BY DEF Accept, HandleEvent, newConnection, Set
<1>2. i = nextConnId_ /\ i \in Ids
  BY <1>1, NextIsNext DEF ServerInv
<1>3. /\ \A j \in Conns : state_'[j] = IF j = i THEN "kConnected" ELSE state_[j]
      /\ \A n \in Ids : connections_'[n] = IF n = i THEN i ELSE connections_[n]
      /\ Conns = Ids
  BY <1>1, <1>2 DEF ServerInv, ConnTypes, Conns, Ids
<1>4. LifeOf(i)!Establish
  <2>1. connections_'[i] = i
    BY <1>2, <1>3
  <2>2. \E n \in Ids : connections_'[n] = i
    BY <1>2, <2>1
  <2>3. state_'[i] = "kConnected" /\ destroyed_'[i] = destroyed_[i]
    BY <1>1, <1>3
  <2>4. QED
    BY <1>1, <2>2, <2>3 DEF LifeOf!Establish
<1>5. LivesStep(i)
  BY <1>4 DEF LivesStep, LifeOf!Next
<1>6. LetGo'
  <2>1. ASSUME NEW x \in Range(queue), x.name = "connectDestroyed"
        PROVE  connections_'[x.id] = None /\ state_'[x.id] = "kDisconnected"
    BY <1>1, <1>3, <2>1, QueuedIsAccepted DEF LetGo
  <2>2. \A j \in Conns :
          state_'[j] = "kDisconnecting" => connections_'[j] = j \/ destroyed_'[j]
    BY <1>1, <1>3 DEF LetGo
  <2>3. QED
    BY <1>1, <2>1, <2>2 DEF LetGo
<1>7. QED
  BY <1>1, <1>3, <1>5, <1>6, OneLife

\* forceClose()
LEMMA ForceCloseLives ==
  ASSUME ServerInv, ServerInv', LetGo, NEW i \in Conns, SendFails(i) \/ UserForceClose(i)
  PROVE  LivesKept
<1>1. /\ UNCHANGED <<connections_, destroyed_>>
      /\ state_[i] = "kConnected"
      /\ state_' = [state_ EXCEPT ![i] = "kDisconnecting"]
      /\ QueueInLoop("forceCloseInLoop", i)
  BY DEF SendFails, UserForceClose, forceClose, CloseLater, Set, names
<1>2. \A j \in Conns : state_'[j] = IF j = i THEN "kDisconnecting" ELSE state_[j]
  BY <1>1 DEF ServerInv, ConnTypes
<1>3. Range(queue') = Range(queue) \cup {Frame("forceCloseInLoop", i)}
  BY <1>1, QueueEffect DEF ServerInv, Tasks
<1>4. connections_[i] = i
  BY <1>1 DEF ServerInv, LifeFits
<1>5. LifeOf(i)!ForceClose
  <2>1. \E n \in Ids : connections_[n] = i
    BY <1>4 DEF Conns, Ids
  <2>2. state_'[i] = "kDisconnecting"
    BY <1>2
  <2>3. QED
    BY <1>1, <2>1, <2>2 DEF LifeOf!ForceClose
<1>6. LivesStep(i)
  BY <1>5 DEF LivesStep, LifeOf!Next
<1>7. LetGo'
  <2>1. ASSUME NEW x \in Range(queue'), x.name = "connectDestroyed"
        PROVE  connections_'[x.id] = None /\ state_'[x.id] = "kDisconnected"
    <3>1. x \in Range(queue)
      BY <1>3, <2>1, FrameTypes
    <3>2. state_[x.id] = "kDisconnected" /\ connections_[x.id] = None /\ x.id \in Conns
      BY <2>1, <3>1, QueuedIsAccepted DEF LetGo
    <3>3. QED
      BY <1>1, <1>2, <3>2
  <2>2. \A j \in Conns :
          state_'[j] = "kDisconnecting" => connections_'[j] = j \/ destroyed_'[j]
    BY <1>1, <1>2, <1>4 DEF LetGo
  <2>3. QED
    BY <2>1, <2>2 DEF LetGo
<1>8. QED
  BY <1>1, <1>2, <1>6, <1>7, OneLife

\* handleClose()
LEMMA CloseLives ==
  ASSUME ServerInv, ServerInv', LetGo, NEW i \in Conns, Open(i), handleClose(i),
         UNCHANGED connections_, Range(queue') \subseteq Range(queue)
  PROVE  LivesKept
<1>1. state_' = [state_ EXCEPT ![i] = "kDisconnected"] /\ UNCHANGED destroyed_
  BY DEF handleClose, Disconnect, Set
<1>2. \A j \in Conns : state_'[j] = IF j = i THEN "kDisconnected" ELSE state_[j]
  BY <1>1 DEF ServerInv, ConnTypes
<1>3. connections_[i] = i \/ destroyed_[i]
  BY DEF ServerInv, LifeFits, LetGo, Open
<1>4. LifeOf(i)!Close
  <2>1. (\E n \in Ids : connections_[n] = i) \/ destroyed_[i]
    BY <1>3 DEF Conns, Ids
  <2>2. state_'[i] = "kDisconnected" /\ state_[i] # "none"
    BY <1>2 DEF Open
  <2>3. state_[i] \in {"kConnected", "kDisconnecting"}
    BY DEF Open
  <2>4. QED
    BY <1>1, <2>1, <2>2, <2>3 DEF LifeOf!Close, LifeOf!Open
<1>5. LivesStep(i)
  BY <1>4 DEF LivesStep, LifeOf!Next
<1>6. LetGo'
  <2>1. ASSUME NEW x \in Range(queue'), x.name = "connectDestroyed"
        PROVE  connections_'[x.id] = None /\ state_'[x.id] = "kDisconnected"
    BY <1>2, <2>1, QueuedIsAccepted DEF LetGo
  <2>2. \A j \in Conns :
          state_'[j] = "kDisconnecting" => connections_'[j] = j \/ destroyed_'[j]
    BY <1>1, <1>2 DEF LetGo
  <2>3. QED
    BY <2>1, <2>2 DEF LetGo
<1>7. QED
  BY <1>1, <1>2, <1>5, <1>6, OneLife

\* connectDestroyed() of a connection that is not in the map any more
LEMMA DestroyLives ==
  ASSUME ServerInv, ServerInv', LetGo, NEW i \in Conns, state_[i] # "none",
         connectDestroyed(i), connections_'[i] = None,
         \A j \in Conns \ {i} : connections_'[j] = connections_[j],
         Range(queue') \subseteq Range(queue)
  PROVE  LivesKept
<1>1. /\ destroyed_' = [destroyed_ EXCEPT ![i] = TRUE]
      /\ state_' = IF state_[i] = "kConnected"
                   THEN [state_ EXCEPT ![i] = "kDisconnected"] ELSE state_
  BY DEF connectDestroyed, Disconnect, Set
<1>2. \A j \in Conns :
        /\ destroyed_'[j] = IF j = i THEN TRUE ELSE destroyed_[j]
        /\ state_'[j] = IF j = i /\ state_[i] = "kConnected"
                        THEN "kDisconnected" ELSE state_[j]
  BY <1>1 DEF ServerInv, ConnTypes
<1>3. LifeOf(i)!Destroy
  <2>1. ~\E n \in Ids : connections_'[n] = i
    <3>1. connections_'[i] # i
      BY BoundsAreSound DEF BoundsAreSound, Conns, None
    <3>2. QED
      BY <3>1, OwnedWillBe DEF ServerInv
  <2>2. destroyed_'[i] = TRUE
    BY <1>2
  <2>3. state_'[i] = (IF state_[i] = "kConnected" THEN "kDisconnected" ELSE state_[i])
    BY <1>2
  <2>4. state_'[i] # "none" /\ state_[i] # "kConnecting"
    BY <2>3 DEF ServerInv, ConnTypes, States
  <2>5. QED
    BY <2>1, <2>2, <2>3, <2>4 DEF LifeOf!Destroy
<1>4. LivesStep(i)
  BY <1>3 DEF LivesStep, LifeOf!Next
<1>5. LetGo'
  <2>1. ASSUME NEW x \in Range(queue'), x.name = "connectDestroyed"
        PROVE  connections_'[x.id] = None /\ state_'[x.id] = "kDisconnected"
    BY <1>2, <2>1, QueuedIsAccepted DEF LetGo
  <2>2. \A j \in Conns :
          state_'[j] = "kDisconnecting" => connections_'[j] = j \/ destroyed_'[j]
    BY <1>2 DEF LetGo
  <2>3. QED
    BY <2>1, <2>2 DEF LetGo
<1>6. QED
  BY <1>2, <1>4, <1>5, OneLife

\* removeConnection()
LEMMA DownLives ==
  ASSUME ServerInv, ServerInv', LetGo, DownReturns
  PROVE  LivesKept
<1>1. /\ UNCHANGED <<state_, destroyed_>>
      /\ stack # <<>> /\ stack' = Below /\ Top.name = "down" /\ server = "alive"
      /\ destroyed_[Top.id] = FALSE \/ Top.id \notin Conns
      /\ connections_' = [connections_ EXCEPT ![name_[Top.id]] = None]
      /\ QueueInLoop("connectDestroyed", Top.id)
  BY DEF DownReturns, Reports, Set, life, ServerInv, ConnTypes
<1>2. Top = stack[Len(stack)] /\ Top \in Range(stack) /\ Len(stack) \in Nat \ {0}
  BY <1>1, ReturnEffect DEF ServerInv
<1>3. Len(stack) = 1
  <2>1. Len(stack) <= 3 /\ Len(stack) # 2 /\ Len(stack) # 3
    BY <1>1 DEF ServerInv, StackFits
  <2>2. \A n \in Nat \ {0} : n <= 3 /\ n # 2 /\ n # 3 => n = 1
    OBVIOUS
  <2>3. QED
    BY <1>2, <2>1, <2>2
<1>4. PICK i \in Conns : i = Top.id
  BY <1>1, <1>2 DEF ServerInv, FramesFit
<1>5. state_[i] = "kDisconnected" /\ connections_[i] = i /\ destroyed_[i] = FALSE
  <2>1. stack[1].name = "down" /\ stack[1].id = i /\ Len(stack) >= 1
    <3>1. Top = stack[1] /\ Len(stack) >= 1
      BY <1>2, <1>3
    <3>2. Top.name = "down" /\ Top.id = i
      BY <1>1, <1>4
    <3>3. QED
      BY <3>1, <3>2
  <2>2. state_[i] = "kDisconnected" /\ connections_[i] = i
    BY <1>1, <2>1 DEF ServerInv, ReportFits
  <2>3. destroyed_[i] = FALSE
    BY <1>1, <1>4
  <2>4. QED
    BY <2>2, <2>3
<1>6. name_[i] = i
  BY <1>5, BoundsAreSound DEF ServerInv, NamesFit, ConnTypes, Conns, BoundsAreSound
<1>7. /\ \A n \in Ids : connections_'[n] = IF n = i THEN None ELSE connections_[n]
      /\ Conns = Ids
  BY <1>1, <1>4, <1>6 DEF ServerInv, ConnTypes, Conns, Ids
<1>8. Range(queue') = Range(queue) \cup {Frame("connectDestroyed", i)}
  BY <1>1, <1>4, QueueEffect DEF ServerInv, Tasks
<1>9. LifeOf(i)!Forget
  <2>1. \E n \in Ids : connections_[n] = i
    BY <1>5, <1>7
  <2>2. ~\E n \in Ids : connections_'[n] = i
    <3>1. connections_'[i] # i
      BY <1>7, BoundsAreSound DEF BoundsAreSound, Conns, None
    <3>2. QED
      BY <3>1, OwnedWillBe DEF ServerInv
  <2>3. QED
    BY <1>1, <1>5, <2>1, <2>2 DEF LifeOf!Forget
<1>10. LivesStep(i)
  BY <1>9 DEF LivesStep, LifeOf!Next
<1>11. LetGo'
  <2>1. ASSUME NEW x \in Range(queue'), x.name = "connectDestroyed"
        PROVE  connections_'[x.id] = None /\ state_'[x.id] = "kDisconnected"
    <3>1. CASE x = Frame("connectDestroyed", i)
      BY <1>1, <1>5, <1>7, <3>1, FrameTypes
    <3>2. CASE x \in Range(queue)
      BY <1>1, <1>7, <2>1, <3>2, QueuedIsAccepted DEF LetGo
    <3>3. QED
      BY <1>8, <3>1, <3>2
  <2>2. \A j \in Conns :
          state_'[j] = "kDisconnecting" => connections_'[j] = j \/ destroyed_'[j]
    BY <1>1, <1>5, <1>7 DEF LetGo
  <2>3. QED
    BY <2>1, <2>2 DEF LetGo
<1>12. QED
  BY <1>1, <1>7, <1>10, <1>11, OneLife

\* ~TcpServer()
LEMMA DestructorLives ==
  ASSUME ServerInv, ServerInv', LetGo, NEW n \in Ids, DestroyConnection(n)
  PROVE  LivesKept
<1>1. /\ UNCHANGED queue
      /\ connections_[n] # None
      /\ connections_' = [connections_ EXCEPT ![n] = None]
      /\ connectDestroyed(connections_[n])
  BY DEF DestroyConnection, Set
<1>2. connections_[n] = n /\ n \in Conns
  BY <1>1 DEF ServerInv, NamesFit, Ids, Conns
<1>3. state_[n] # "none"
  <2>1. Alive(n)
    BY <1>2, AliveIs
  <2>2. n < nextConnId_
    BY <1>2, <2>1 DEF ServerInv, PointersFit
  <2>3. ~(n >= nextConnId_)
    BY <1>2, <2>2, BoundsAreSound DEF ServerInv, ConnTypes, Conns, BoundsAreSound
  <2>4. QED
    BY <1>2, <2>3 DEF ServerInv, NamesFit
<1>4. connections_'[n] = None /\ \A j \in Conns \ {n} : connections_'[j] = connections_[j]
  BY <1>1 DEF ServerInv, ConnTypes, Conns, Ids
<1>5. QED
  BY <1>1, <1>2, <1>3, <1>4, DestroyLives

LEMMA FunctorLives ==
  ASSUME ServerInv, ServerInv', LetGo, RunFunctor
  PROVE  LivesKept
<1>1. /\ queue # <<>> /\ queue' = Tail(queue) /\ UNCHANGED connections_
  BY DEF RunFunctor, Listen, ForceCloseInLoop, ConnectDestroyed, Runs, names
<1>2. /\ Head(queue) \in Range(queue)
      /\ Range(queue') \subseteq Range(queue)
  BY <1>1, TakeEffect DEF ServerInv
<1>3. NoneLetGo
  BY <1>2 DEF NoneLetGo
<1>4. CASE Listen
  BY <1>1, <1>3, <1>4, AllSame DEF Listen, life
<1>5. CASE ForceCloseInLoop
  <2>1. CASE state_[Task] = "kDisconnecting"
    <3>1. handleClose(Task)
      BY <1>5, <2>1 DEF ForceCloseInLoop
    <3>2. Task \in Conns /\ Open(Task)
      BY <1>2, <1>5, <2>1, QueuedIsAccepted DEF ForceCloseInLoop, Runs, Task, Open
    <3>3. QED
      BY <1>1, <1>2, <3>1, <3>2, CloseLives
  <2>2. CASE state_[Task] # "kDisconnecting"
    BY <1>1, <1>3, <1>5, <2>2, AllSame DEF ForceCloseInLoop, life
  <2>3. QED
    BY <2>1, <2>2
<1>6. CASE ConnectDestroyed
  <2>1. connectDestroyed(Task) /\ Head(queue).name = "connectDestroyed"
    BY <1>6 DEF ConnectDestroyed, Runs
  <2>2. Task \in Conns /\ state_[Task] # "none" /\ connections_[Task] = None
    BY <1>2, <2>1, QueuedIsAccepted DEF Task, LetGo
  <2>3. connections_'[Task] = None
    BY <1>1, <2>2
  <2>4. \A j \in Conns \ {Task} : connections_'[j] = connections_[j]
    BY <1>1
  <2>5. QED
    BY <1>2, <2>1, <2>2, <2>3, <2>4, DestroyLives
<1>7. QED
  BY <1>4, <1>5, <1>6 DEF RunFunctor

\* Everything else concerns the calls, the kernel and the user's pointers.
Elsewhere ==
  \/ PeerArrives \/ PeerGivesUp \/ StartRemote \/ Start
  \/ Polls \/ EventsDone \/ TimersDone \/ FunctorsDone
  \/ HandleEventReturns \/ OtherReturns \/ DestructorReturns
  \/ AcceptFails \/ \E i \in Conns : HandleRead(i) \/ HandleNothing(i)
  \/ EnterOther \/ Destroy
  \/ \E i \in Conns : Keep(i) \/ Drop(i)
  \/ UNCHANGED vars

LEMMA ElsewhereLives ==
  ASSUME ServerInv, ServerInv', LetGo, Elsewhere
  PROVE  LivesKept
<1>1. UNCHANGED <<state_, destroyed_, connections_>>
  BY DEF Elsewhere, PeerArrives, PeerGivesUp, StartRemote, Start, Polls, Poll, EventsDone,
         TimersDone, FunctorsDone, Goes, HandleEventReturns, OtherReturns,
         DestructorReturns, AcceptFails, HandleRead, HandleNothing, EnterOther, Destroy,
         Keep, Drop, vars, life, names
<1>2. CASE StartRemote
  <2>1. Range(queue') = Range(queue) \cup {Frame("listen", None)}
    BY <1>2, QueueEffect DEF StartRemote, ServerInv, Tasks
  <2>2. NoneLetGo
    BY <2>1, FrameTypes DEF NoneLetGo
  <2>3. QED
    BY <1>1, <2>2, AllSame
<1>3. CASE ~StartRemote
  <2>1. UNCHANGED queue
    BY <1>3
    DEF Elsewhere, PeerArrives, PeerGivesUp, Start, Polls, Poll, EventsDone,
        TimersDone, FunctorsDone, Goes, HandleEventReturns, OtherReturns, HandleEvent,
        DestructorReturns, AcceptFails, HandleRead, HandleNothing, EnterOther, Destroy,
        Keep, Drop, vars, loop
  <2>2. QED
    BY <1>1, <2>1, AllSame DEF NoneLetGo
<1>4. QED
  BY <1>2, <1>3

LEMMA StepLives ==
  ASSUME ServerInv, LetGo, [Next]_vars
  PROVE  LivesKept
<1>1. ServerInv'
  BY StepKeeps
<1>2. CASE Elsewhere
  BY <1>1, <1>2, ElsewhereLives
<1>3. CASE \E i \in Conns : Accept(i)
  BY <1>1, <1>3, AcceptLives
<1>4. ASSUME NEW i \in Conns, HandleClose(i)
      PROVE  LivesKept
  BY <1>1, <1>4, CloseLives DEF HandleClose, HandleEvent, Open, names
<1>5. CASE \E i \in Conns : SendFails(i) \/ UserForceClose(i)
  BY <1>1, <1>5, ForceCloseLives
<1>6. CASE RunFunctor
  BY <1>1, <1>6, FunctorLives
<1>7. CASE DownReturns \/ \E n \in Ids : DestroyConnection(n)
  BY <1>1, <1>7, DownLives, DestructorLives
<1>8. QED
  BY <1>2, <1>3, <1>4, <1>5, <1>6, <1>7
  DEF Next, CallStep, StageStep, Dispatch, UserStep, Elsewhere

\* Each connection of the server lives as ConnectionLife says: it is closed once, is in
\* the map until it is closed unless it has been destroyed, is taken out when it reports
\* its end, and connectDestroyed() finds it out of the map.
THEOREM ConnectionsLive == Spec => AreConnectionLives
<1>1. Init => LivesBegin /\ LetGo
  <2> SUFFICES ASSUME Init PROVE LivesBegin /\ LetGo
    OBVIOUS
  <2>1. ASSUME NEW i \in Conns PROVE LifeOf(i)!Init
    <3>1. state_[i] = "none" /\ destroyed_[i] = FALSE
      BY DEF Init
    <3>2. ~\E n \in Ids : connections_[n] = i
      BY BoundsAreSound DEF Init, BoundsAreSound, Conns, None
    <3>3. QED
      BY <3>1, <3>2 DEF LifeOf!Init
  <2>2. LetGo
    BY RangeOfEmpty DEF Init, LetGo
  <2>3. QED
    BY <2>1, <2>2 DEF LivesBegin
<1>2. ServerInv /\ LetGo /\ [Next]_vars
        => LetGo' /\ [LivesGoOn]_vars
  BY StepLives DEF LivesKept
<1>3. QED
  BY <1>1, <1>2, RecordsAgree, PTL DEF Spec, AreConnectionLives
=============================================================================
