-------------------------- MODULE TcpClientProofs ---------------------------
(***************************************************************************)
(* Theorems about TcpClient, for any number of calls of connect().         *)
(***************************************************************************)
EXTENDS TcpClient, Functions, SequenceTheorems, TLAPS

-----------------------------------------------------------------------------
(* What the operators on sequences do to the range of a queue or a stack. *)

\* push_back() adds the pushed functor to the queue's elements, nothing else.
LEMMA RangeOfAppend ==
  ASSUME NEW S, NEW s \in Seq(S), NEW x \in S
  PROVE  Range(Append(s, x)) = Range(s) \cup {x}
<1>1. /\ Append(s, x) \in Seq(S)
      /\ Len(Append(s, x)) = Len(s) + 1
      /\ \A i \in 1 .. Len(s) : Append(s, x)[i] = s[i]
      /\ Append(s, x)[Len(s) + 1] = x
  BY AppendProperties
<1>2. /\ DOMAIN Append(s, x) = 1 .. (Len(s) + 1)
      /\ DOMAIN s = 1 .. Len(s)
      /\ Len(s) \in Nat
  BY <1>1, LenProperties
<1>3. QED
  BY <1>1, <1>2 DEF Range

\* The empty vector has no elements.
LEMMA RangeOfEmpty == Range(<<>>) = {}
BY DEF Range

\* The functor at the front, and those behind it, are what the queue holds.
LEMMA RangeOfTail ==
  ASSUME NEW S, NEW s \in Seq(S), s # <<>>
  PROVE  /\ Head(s) \in Range(s)
         /\ Range(s) = {Head(s)} \cup Range(Tail(s))
<1>1. /\ Head(s) = s[1]
      /\ Tail(s) \in Seq(S)
      /\ Len(Tail(s)) = Len(s) - 1
      /\ \A i \in 1 .. Len(Tail(s)) : Tail(s)[i] = s[i + 1]
  BY HeadTailProperties
<1>2. /\ Len(s) \in Nat \ {0}
      /\ DOMAIN s = 1 .. Len(s)
      /\ DOMAIN Tail(s) = 1 .. Len(s) - 1
  BY <1>1, EmptySeq, LenProperties
<1>3. Head(s) \in Range(s) /\ Range(Tail(s)) \subseteq Range(s)
  BY <1>1, <1>2 DEF Range
<1>4. ASSUME NEW i \in 1 .. Len(s), i # 1
      PROVE  s[i] \in Range(Tail(s))
  <2>1. i - 1 \in 1 .. Len(s) - 1 /\ s[i] = Tail(s)[i - 1]
    BY <1>1, <1>2, <1>4
  <2>2. QED
    BY <1>2, <2>1 DEF Range
<1>5. QED
  BY <1>1, <1>2, <1>3, <1>4 DEF Range

\* Popping a call leaves the calls below it.
LEMMA RangeOfFront ==
  ASSUME NEW S, NEW s \in Seq(S), s # <<>>
  PROVE  /\ s[Len(s)] \in Range(s)
         /\ SubSeq(s, 1, Len(s) - 1) \in Seq(S)
         /\ Len(SubSeq(s, 1, Len(s) - 1)) = Len(s) - 1
         /\ \A i \in 1 .. Len(s) - 1 : SubSeq(s, 1, Len(s) - 1)[i] = s[i]
         /\ Range(SubSeq(s, 1, Len(s) - 1)) \subseteq Range(s)
<1> DEFINE front == SubSeq(s, 1, Len(s) - 1)
<1>1. Len(s) \in Nat \ {0} /\ DOMAIN s = 1 .. Len(s)
  BY EmptySeq, LenProperties
<1>2. /\ front \in Seq(S)
      /\ Len(front) = Len(s) - 1
      /\ \A i \in 1 .. Len(s) - 1 : front[i] = s[i]
  BY <1>1, SubSeqProperties
<1>3. DOMAIN front = 1 .. Len(s) - 1
  BY <1>2, LenProperties
<1>4. QED
  BY <1>1, <1>2, <1>3 DEF Range

-----------------------------------------------------------------------------
LoopTypes ==
  /\ stack \in Seq([name : Frames, id : Attempts \cup {None}])
  /\ queue \in Seq([name : Tasks, id : Attempts])
  /\ handling \in Attempts \cup {None}
  /\ revents \in [Attempts -> SUBSET {"ERR", "OUT"}]
CountTypes == delayed \in Nat /\ nextConnectorId_ \in Nat
ConnectorTypes ==
  /\ connect_ \in [Attempts -> BOOLEAN]
  /\ state_ \in [Attempts -> {"kDisconnected", "kConnecting", "kConnected"}]
  /\ channel_ \in [Attempts -> {"none", "added", "removed"}]
  /\ sockets \in [Attempts -> {"none", "connector", "connection", "closed", "refused"}]
  /\ answers \in [Attempts -> {0, 1}]
ConnTypes ==
  /\ conn \in [Attempts -> ConnStates]
  /\ destroyed_ \in [Attempts -> BOOLEAN]
Types == LoopTypes /\ CountTypes /\ ConnectorTypes /\ ConnTypes

-----------------------------------------------------------------------------
(***************************************************************************)
(* The inductive invariant: of every attempt, of every call under way, of  *)
(* every event that is still to be handled, and of the client.             *)
(***************************************************************************)
SocketFits(i) ==
  /\ channel_[i] = "added" <=> state_[i] = "kConnecting"
  /\ sockets[i] = "connector" <=> state_[i] = "kConnecting"
  /\ sockets[i] = "connection" <=> conn[i] # "none"
  /\ sockets[i] = "none" <=> i >= nextConnectorId_
RefusedFits(i) ==
  sockets[i] = "refused" =>
    /\ state_[i] = "kDisconnected" /\ channel_[i] = "none" /\ answers[i] = 0
    /\ client = "alive" => i \in connectors_
AnswerFits(i) ==
  /\ (connect_[i] /\ state_[i] = "kConnecting") => client # "gone" /\ i \in connectors_
  /\ answers[i] = 1 => i \notin connectors_ /\ state_[i] # "kConnecting"
Fresh(i) ==
  /\ state_[i] = "kDisconnected" /\ channel_[i] = "none"
  /\ conn[i] = "none"
  /\ answers[i] = 0
\* A connection that is not closed is in the map, or has been told that it is not.
Held(i) == i \in connections_ \/ destroyed_[i]
Open(i) == conn[i] \in {"kConnecting", "kConnected", "kDisconnecting"}

AttemptFits(i) ==
  /\ SocketFits(i)
  /\ RefusedFits(i)
  /\ AnswerFits(i)
  /\ i >= nextConnectorId_ => Fresh(i)
  /\ Open(i) => Held(i)

Late == {"timers", "functors"}
FrameFits(f, k) ==
  /\ f.name \in {"down", "success"} => k = 1 /\ f.id \in Attempts /\ Held(f.id)
  /\ f.name = "down" => conn[f.id] = "kDisconnected"
  /\ f.name = "success" => conn[f.id] = "kConnecting"
  /\ f.name = "dtor" => stage \in Late /\ client # "alive"
FramesFit == \A k \in 1 .. Len(stack) : FrameFits(stack[k], k)

EventsFit ==
  /\ \A i \in Attempts : revents[i] # {} => stage = "events" /\ channel_[i] # "none"
  /\ \A i \in hangups : i \in Attempts /\ stage = "events" /\ Connected(i)
  /\ handling # None => stage = "events" /\ channel_[handling] # "none"

ClientFits ==
  /\ client = "gone" => connectors_ = {} /\ connections_ = {}
  /\ delayed > 0 => client = "alive"

Inv ==
  /\ Types
  /\ \A i \in Attempts : AttemptFits(i)
  /\ FramesFit /\ EventsFit /\ ClientFits

-----------------------------------------------------------------------------
(***************************************************************************)
(* What keeps each part.                                                   *)
(***************************************************************************)
\* A step that concerns other attempts.
Steady(i) ==
  /\ connect_'[i] = connect_[i] /\ state_'[i] = state_[i]
  /\ channel_'[i] = channel_[i] /\ sockets'[i] = sockets[i]
  /\ answers'[i] = answers[i] /\ conn'[i] = conn[i] /\ destroyed_'[i] = destroyed_[i]
  /\ i \in connectors_' <=> i \in connectors_
  /\ i \in connections_' <=> i \in connections_
  /\ client' = "gone" => client = "gone"
  /\ client' = "alive" => client = "alive"
  /\ (i >= nextConnectorId_)' <=> i >= nextConnectorId_

LEMMA SteadyFits ==
  ASSUME NEW i \in Attempts, AttemptFits(i), Steady(i)
  PROVE  AttemptFits(i)'
<1>1. SocketFits(i)'
  BY DEF AttemptFits, SocketFits, Steady
<1>0. RefusedFits(i)'
  BY DEF AttemptFits, RefusedFits, Steady
<1>2. AnswerFits(i)'
  BY DEF AttemptFits, AnswerFits, Steady
<1>3. (i >= nextConnectorId_ => Fresh(i))'
  BY DEF AttemptFits, Fresh, Steady
<1>4. (Open(i) => Held(i))'
  BY DEF AttemptFits, Open, Held, Steady
<1>5. QED
  BY <1>0, <1>1, <1>2, <1>3, <1>4 DEF AttemptFits

\* A refused socket stays with its connector, while the client does.
LEMMA RefusedStays ==
  ASSUME NEW i \in Attempts, AttemptFits(i),
         sockets'[i] = sockets[i] \/ sockets'[i] # "refused",
         sockets'[i] = "refused" =>
           UNCHANGED <<state_[i], answers[i]>> /\ channel_'[i] \in {channel_[i], "none"},
         client' = "alive" => client = "alive" /\ (i \in connectors_ => i \in connectors_')
  PROVE  RefusedFits(i)'
BY DEF AttemptFits, RefusedFits

\* A call under way finds its connection in the state that it counts on.
Kept(i) ==
  /\ conn[i] \in {"kConnecting", "kDisconnected"} => conn'[i] = conn[i]
  /\ Held(i) => Held(i)'

LEMMA SteadyKept ==
  ASSUME NEW i \in Attempts, Steady(i)
  PROVE  Kept(i)
BY DEF Steady, Kept, Held

\* ~TcpClient() is not undone.
ClientGoesOn == client # "alive" => client' # "alive"

\* A call that stays under way.
LEMMA FrameStays ==
  ASSUME NEW f, NEW k \in Nat, FrameFits(f, k), \A i \in Attempts : Kept(i),
         ClientGoesOn,
         f.name = "dtor" => (stage \in Late => stage' \in Late)
  PROVE  FrameFits(f, k)'
BY DEF FrameFits, Kept, ClientGoesOn

LEMMA SameFrames ==
  ASSUME LoopTypes, FramesFit, stack' = stack, \A i \in Attempts : Kept(i), ClientGoesOn,
         stack = <<>> \/ (stage \in Late => stage' \in Late)
  PROVE  FramesFit'
<1>1. Len(stack) \in Nat
  BY LenProperties DEF LoopTypes
<1>2. CASE stack = <<>>
  BY <1>2 DEF FramesFit
<1>3. CASE stage \in Late => stage' \in Late
  <2>1. ASSUME NEW k \in 1 .. Len(stack'), NEW f, f = stack'[k] PROVE FrameFits(f, k)'
    <3>1. FrameFits(f, k) /\ k \in Nat
      BY <1>1, <2>1 DEF FramesFit
    <3>2. QED
      BY <1>3, <3>1, FrameStays
  <2>2. QED
    BY <2>1 DEF FramesFit
<1>4. QED
  BY <1>2, <1>3

LEMMA FramesAfterCall ==
  ASSUME LoopTypes, FramesFit, NEW f \in [name : Frames, id : Attempts \cup {None}],
         NEW top, top = Len(stack) + 1,
         stack' = Append(stack, f), \A i \in Attempts : Kept(i), stage' = stage,
         ClientGoesOn, FrameFits(f, top)'
  PROVE  /\ FramesFit'
         /\ stack' \in Seq([name : Frames, id : Attempts \cup {None}])
<1>1. /\ Len(stack) \in Nat
      /\ Len(stack') = top
      /\ \A k \in 1 .. Len(stack) : stack'[k] = stack[k]
      /\ stack'[top] = f
      /\ stack' \in Seq([name : Frames, id : Attempts \cup {None}])
  BY LenProperties, AppendProperties DEF LoopTypes
<1>2. ASSUME NEW k \in 1 .. Len(stack'), NEW g, g = stack'[k] PROVE FrameFits(g, k)'
  <2>1. CASE k = top
    BY <1>1, <1>2, <2>1
  <2>2. CASE k # top
    <3>1. k \in 1 .. Len(stack) /\ g = stack[k] /\ k \in Nat
      BY <1>1, <1>2, <2>2
    <3>2. FrameFits(g, k)
      BY <3>1 DEF FramesFit
    <3>3. QED
      BY <3>1, <3>2, FrameStays
  <2>3. QED
    BY <2>1, <2>2
<1>3. QED
  BY <1>1, <1>2 DEF FramesFit

\* The calls that are left when the innermost returns.
LEMMA FramesAfterReturn ==
  ASSUME LoopTypes, FramesFit, stack # <<>>, stack' = Below,
         \A i \in Attempts : Kept(i), stage' = stage, ClientGoesOn
  PROVE  /\ FramesFit'
         /\ stack' \in Seq([name : Frames, id : Attempts \cup {None}])
<1>1. /\ Len(stack) \in Nat
      /\ Len(stack') = Len(stack) - 1
      /\ \A k \in 1 .. Len(stack) - 1 : stack'[k] = stack[k]
      /\ stack' \in Seq([name : Frames, id : Attempts \cup {None}])
  BY LenProperties, RangeOfFront DEF LoopTypes, Below
<1>2. ASSUME NEW k \in 1 .. Len(stack'), NEW g, g = stack'[k] PROVE FrameFits(g, k)'
  <2>1. k \in 1 .. Len(stack) /\ g = stack[k] /\ k \in Nat
    BY <1>1, <1>2
  <2>2. FrameFits(g, k)
    BY <2>1 DEF FramesFit
  <2>3. QED
    BY <2>1, <2>2, FrameStays
<1>3. QED
  BY <1>1, <1>2 DEF FramesFit

\* The innermost call.
LEMMA TopFits ==
  ASSUME LoopTypes, FramesFit, stack # <<>>
  PROVE  /\ Top \in [name : Frames, id : Attempts \cup {None}]
         /\ Len(stack) \in Nat \ {0}
         /\ FrameFits(Top, Len(stack))
<1>1. Len(stack) \in Nat \ {0}
  BY EmptySeq DEF LoopTypes
<1>2. Len(stack) \in 1 .. Len(stack)
  BY <1>1
<1>3. QED
  BY <1>1, <1>2, ElementOfSeq DEF LoopTypes, FramesFit, Top

\* Outside the stage "events" nothing is left of what was polled.
LEMMA NothingPolled ==
  ASSUME EventsFit, stage # "events"
  PROVE  hangups = {} /\ handling = None /\ \A i \in Attempts : revents[i] = {}
BY DEF EventsFit

\* Events that are still to be handled, while nothing is freed under them.
LEMMA EventsStay ==
  ASSUME EventsFit, LoopTypes, ConnectorTypes,
         UNCHANGED <<stage, handling>>,
         \A i \in Attempts : revents'[i] \subseteq revents[i],
         hangups' \subseteq hangups,
         stage = "events" =>
           \A i \in Attempts : channel_[i] # "none" => channel_'[i] # "none",
         \A i \in hangups' : Connected(i) => Connected(i)'
  PROVE  EventsFit'
BY DEF EventsFit, LoopTypes

\* The queue, after a functor has been run or a task has been put behind some.
LEMMA QueueTypes ==
  ASSUME LoopTypes, queue # <<>>
  PROVE  /\ Head(queue) \in [name : Tasks, id : Attempts]
         /\ Task \in Attempts
         /\ Tail(queue) \in Seq([name : Tasks, id : Attempts])
<1>1. Head(queue) \in [name : Tasks, id : Attempts]
  BY HeadTailProperties DEF LoopTypes
<1>2. QED
  BY <1>1, HeadTailProperties DEF LoopTypes, Task

LEMMA AfterTypes ==
  ASSUME NEW before \in Seq([name : Tasks, id : Attempts]), NEW i \in Attempts,
         NEW task \in Tasks, After(before, task, i)
  PROVE  queue' \in Seq([name : Tasks, id : Attempts])
<1>1. Frame(task, i) \in [name : Tasks, id : Attempts]
  BY DEF Frame
<1>2. QED
  BY <1>1, AppendProperties DEF After

-----------------------------------------------------------------------------
LEMMA InitInv == Init => Inv
<1> SUFFICES ASSUME Init PROVE Inv
  OBVIOUS
<1> USE DEF Init
<1>1. Types
  BY EmptySeq DEF Types, LoopTypes, CountTypes, ConnectorTypes, ConnTypes, ConnStates
<1>2. ASSUME NEW i \in Attempts PROVE AttemptFits(i)
  BY DEF AttemptFits, SocketFits, RefusedFits, AnswerFits, Fresh, Open
<1>3. FramesFit /\ EventsFit /\ ClientFits
  BY DEF FramesFit, EventsFit, ClientFits
<1>4. QED
  BY <1>1, <1>2, <1>3 DEF Inv

(***************************************************************************)
(* The loop and the user's calls: no attempt is concerned.                 *)
(***************************************************************************)
AttemptsStay ==
  UNCHANGED <<connectors_, connections_, nextConnectorId_, connector, conns, answers>>

LEMMA NobodyConcerned ==
  ASSUME Inv, AttemptsStay, client' = client \/ client' = "dying"
  PROVE  /\ ConnectorTypes' /\ ConnTypes' /\ nextConnectorId_' \in Nat
         /\ \A i \in Attempts : AttemptFits(i)'
         /\ \A i \in Attempts : Kept(i)
         /\ ClientGoesOn
<1>1. ASSUME NEW i \in Attempts PROVE Steady(i)
  BY DEF AttemptsStay, Steady, connector, conns
<1>2. ConnectorTypes' /\ ConnTypes' /\ nextConnectorId_' \in Nat
  BY DEF Inv, Types, CountTypes, ConnectorTypes, ConnTypes, AttemptsStay, connector, conns
<1>3. ClientGoesOn
  BY DEF ClientGoesOn
<1>4. QED
  BY <1>1, <1>2, <1>3, SteadyFits, SteadyKept DEF Inv

LEMMA PollInv ==
  ASSUME Inv, NEW ready \in [Attempts -> SUBSET {"ERR", "OUT"}],
         NEW hang \in SUBSET Attempts, Poll(ready, hang)
  PROVE  Inv'
<1>1. AttemptsStay /\ client' = client /\ delayed' = delayed
  BY DEF Poll, AttemptsStay, maps, clocks
<1>2. Types'
  BY <1>1, NobodyConcerned DEF Poll, Inv, Types, LoopTypes, CountTypes
<1>3. FramesFit'
  <2>1. stack' = stack /\ stage \notin Late
    BY DEF Poll, Late
  <2>2. QED
    BY <1>1, <2>1, NobodyConcerned, SameFrames DEF Inv, Types
<1>4. EventsFit'
  <2>1. handling' = None
    BY NothingPolled DEF Poll, Inv
  <2>2. channel_' = channel_ /\ conn' = conn
    BY <1>1 DEF AttemptsStay, connector, conns
  <2>3. \A i \in Attempts : revents'[i] # {} => stage' = "events" /\ channel_'[i] # "none"
    BY <2>2 DEF Poll
  <2>4. \A i \in hangups' : i \in Attempts /\ stage' = "events" /\ Connected(i)'
    BY <2>2 DEF Poll, Connected
  <2>5. QED
    BY <2>1, <2>3, <2>4 DEF EventsFit
<1>5. ClientFits'
  BY <1>1 DEF Inv, ClientFits, AttemptsStay
<1>6. QED
  BY <1>1, <1>2, <1>3, <1>4, <1>5, NobodyConcerned DEF Inv

LEMMA HandleEventInv ==
  ASSUME Inv, NEW i \in Attempts, HandleEvent(i)
  PROVE  Inv'
<1>1. /\ AttemptsStay /\ client' = client /\ delayed' = delayed
      /\ stack' = stack /\ queue' = queue /\ stage' = stage
  BY DEF HandleEvent, AttemptsStay, maps, clocks, loop
<1>2. Types'
  BY <1>1, NobodyConcerned DEF HandleEvent, Set, Inv, Types, LoopTypes, CountTypes
<1>3. FramesFit'
  BY <1>1, NobodyConcerned, SameFrames DEF Inv, Types
<1>4. EventsFit'
  <2>1. channel_' = channel_ /\ conn' = conn /\ hangups' = hangups
    BY <1>1 DEF HandleEvent, AttemptsStay, connector, conns
  <2>2. \A j \in Attempts : revents'[j] # {} => revents[j] # {}
    BY DEF HandleEvent, Set, Inv, Types, LoopTypes
  <2>3. handling' = i /\ revents[i] # {}
    BY DEF HandleEvent
  <2>4. QED
    BY <1>1, <2>1, <2>2, <2>3 DEF Inv, EventsFit, Connected
<1>5. ClientFits'
  BY <1>1 DEF Inv, ClientFits, AttemptsStay
<1>6. QED
  BY <1>1, <1>2, <1>3, <1>4, <1>5, NobodyConcerned DEF Inv

LEMMA HandleEventReturnsInv ==
  ASSUME Inv, HandleEventReturns
  PROVE  Inv'
<1>1. /\ AttemptsStay /\ client' = client /\ delayed' = delayed
      /\ stack' = stack /\ queue' = queue /\ stage' = stage
      /\ revents' = revents /\ hangups' = hangups /\ handling' = None
  BY DEF HandleEventReturns, AttemptsStay, maps, clocks, loop
<1>2. Types'
  BY <1>1, NobodyConcerned DEF Inv, Types, LoopTypes, CountTypes
<1>3. FramesFit'
  BY <1>1, NobodyConcerned, SameFrames DEF Inv, Types
<1>4. EventsFit'
  BY <1>1 DEF Inv, EventsFit, Connected, AttemptsStay, connector, conns
<1>5. ClientFits'
  BY <1>1 DEF Inv, ClientFits, AttemptsStay
<1>6. QED
  BY <1>1, <1>2, <1>3, <1>4, <1>5, NobodyConcerned DEF Inv

LEMMA GoesInv ==
  ASSUME Inv, EventsDone \/ TimersDone \/ FunctorsDone
  PROVE  Inv'
<1>1. /\ AttemptsStay /\ client' = client /\ delayed' = delayed
      /\ stack' = stack /\ queue' = queue /\ stack = <<>>
      /\ revents' = revents /\ hangups' = hangups
      /\ handling' = handling /\ handling = None
  BY DEF EventsDone, TimersDone, FunctorsDone, Goes, Idle, AttemptsStay, maps, clocks, events
<1>2. Types'
  BY <1>1, NobodyConcerned DEF Inv, Types, LoopTypes, CountTypes
<1>3. FramesFit'
  BY <1>1, NobodyConcerned, SameFrames DEF Inv, Types
<1>4. hangups = {} /\ \A i \in Attempts : revents[i] = {}
  <2>1. CASE EventsDone
    BY <2>1 DEF EventsDone, Quiet
  <2>2. CASE TimersDone \/ FunctorsDone
    BY <2>2, NothingPolled DEF TimersDone, FunctorsDone, Goes, Inv
  <2>3. QED
    BY <2>1, <2>2
<1>5. EventsFit'
  BY <1>1, <1>4 DEF EventsFit
<1>6. ClientFits'
  BY <1>1 DEF Inv, ClientFits, AttemptsStay
<1>7. QED
  BY <1>1, <1>2, <1>3, <1>5, <1>6, NobodyConcerned DEF Inv

\* Events, while nothing of them and no attempt is touched.
LEMMA EventsUntouched ==
  ASSUME Inv, UNCHANGED <<stage, events, channel_, conn>>
  PROVE  EventsFit' /\ handling' \in Attempts \cup {None}
         /\ revents' \in [Attempts -> SUBSET {"ERR", "OUT"}]
BY DEF Inv, Types, LoopTypes, EventsFit, Connected, events

LEMMA EnterOtherInv ==
  ASSUME Inv, EnterOther
  PROVE  Inv'
<1>1. /\ AttemptsStay /\ client' = client /\ delayed' = delayed
      /\ queue' = queue /\ stage' = stage /\ UNCHANGED events
      /\ stack' = Append(stack, Frame("other", None))
  BY DEF EnterOther, Call, AttemptsStay, maps, clocks
<1>2. FramesFit' /\ stack' \in Seq([name : Frames, id : Attempts \cup {None}])
  <2>1. Frame("other", None) \in [name : Frames, id : Attempts \cup {None}]
    BY DEF Frame, Frames
  <2>2. ASSUME NEW top PROVE FrameFits(Frame("other", None), top)'
    BY DEF FrameFits, Frame
  <2>3. PICK top : top = Len(stack) + 1
    OBVIOUS
  <2>4. QED
    BY <1>1, <2>1, <2>2, <2>3, NobodyConcerned, FramesAfterCall DEF Inv, Types
<1>3. EventsFit' /\ Types'
  BY <1>1, <1>2, NobodyConcerned, EventsUntouched
     DEF Inv, Types, LoopTypes, CountTypes, AttemptsStay, connector, conns
<1>4. ClientFits'
  BY <1>1 DEF Inv, ClientFits, AttemptsStay
<1>5. QED
  BY <1>1, <1>2, <1>3, <1>4, NobodyConcerned DEF Inv

LEMMA OtherReturnsInv ==
  ASSUME Inv, OtherReturns
  PROVE  Inv'
<1>1. /\ AttemptsStay /\ client' = client /\ delayed' = delayed
      /\ queue' = queue /\ stage' = stage /\ UNCHANGED events
      /\ stack # <<>> /\ stack' = Below
  BY DEF OtherReturns, AttemptsStay, maps, clocks
<1>2. FramesFit' /\ stack' \in Seq([name : Frames, id : Attempts \cup {None}])
  BY <1>1, NobodyConcerned, FramesAfterReturn DEF Inv, Types
<1>3. EventsFit' /\ Types'
  BY <1>1, <1>2, NobodyConcerned, EventsUntouched
     DEF Inv, Types, LoopTypes, CountTypes, AttemptsStay, connector, conns
<1>4. ClientFits'
  BY <1>1 DEF Inv, ClientFits, AttemptsStay
<1>5. QED
  BY <1>1, <1>2, <1>3, <1>4, NobodyConcerned DEF Inv

LEMMA DelayConnectInv ==
  ASSUME Inv, DelayConnect
  PROVE  Inv'
<1>1. /\ AttemptsStay /\ client' = client /\ client = "alive" /\ delayed' = delayed + 1
      /\ queue' = queue /\ stage' = stage /\ UNCHANGED events /\ stack' = stack
  BY DEF DelayConnect, AttemptsStay, maps, loop
<1>2. FramesFit'
  BY <1>1, NobodyConcerned, SameFrames DEF Inv, Types
<1>3. delayed' \in Nat
  BY <1>1 DEF Inv, Types, CountTypes
<1>4. EventsFit' /\ Types'
  BY <1>1, <1>3, NobodyConcerned, EventsUntouched
     DEF Inv, Types, LoopTypes, CountTypes, AttemptsStay, connector, conns
<1>5. ClientFits'
  BY <1>1 DEF ClientFits
<1>6. QED
  BY <1>1, <1>2, <1>4, <1>5, NobodyConcerned DEF Inv

LEMMA StutterInv ==
  ASSUME Inv, UNCHANGED vars
  PROVE  Inv'
<1>1. /\ AttemptsStay /\ client' = client /\ delayed' = delayed
      /\ queue' = queue /\ stage' = stage /\ UNCHANGED events /\ stack' = stack
  BY DEF vars, AttemptsStay, maps, clocks, loop
<1>2. FramesFit'
  BY <1>1, NobodyConcerned, SameFrames DEF Inv, Types
<1>3. EventsFit' /\ Types'
  BY <1>1, NobodyConcerned, EventsUntouched
     DEF Inv, Types, LoopTypes, CountTypes, AttemptsStay, connector, conns
<1>4. ClientFits'
  BY <1>1 DEF Inv, ClientFits, AttemptsStay
<1>5. QED
  BY <1>1, <1>2, <1>3, <1>4, NobodyConcerned DEF Inv

LEMMA DestroyInv ==
  ASSUME Inv, Destroy
  PROVE  Inv'
<1>1. /\ AttemptsStay /\ client' = "dying" /\ delayed' = delayed /\ delayed = 0
      /\ queue' = queue /\ stage' = stage /\ UNCHANGED events /\ stage \in Late
      /\ stack' = Append(stack, Frame("dtor", None))
  BY DEF Destroy, Call, AttemptsStay, clocks, Late
<1>2. FramesFit' /\ stack' \in Seq([name : Frames, id : Attempts \cup {None}])
  <2>1. Frame("dtor", None) \in [name : Frames, id : Attempts \cup {None}]
    BY DEF Frame, Frames
  <2>2. ASSUME NEW top PROVE FrameFits(Frame("dtor", None), top)'
    BY <1>1 DEF FrameFits, Frame
  <2>3. PICK top : top = Len(stack) + 1
    OBVIOUS
  <2>4. QED
    BY <1>1, <2>1, <2>2, <2>3, NobodyConcerned, FramesAfterCall DEF Inv, Types
<1>3. EventsFit' /\ Types'
  BY <1>1, <1>2, NobodyConcerned, EventsUntouched
     DEF Inv, Types, LoopTypes, CountTypes, AttemptsStay, connector, conns
<1>4. ClientFits'
  BY <1>1 DEF ClientFits
<1>5. QED
  BY <1>1, <1>2, <1>3, <1>4, NobodyConcerned DEF Inv

\* When the destructor returns no connector can answer any more: each is in the
\* map while it could.
LEMMA DestructorReturnsInv ==
  ASSUME Inv, DestructorReturns
  PROVE  Inv'
<1>1. /\ AttemptsStay /\ client' = "gone" /\ delayed' = delayed
      /\ connectors_ = {} /\ connections_ = {}
      /\ queue' = queue /\ stage' = stage /\ UNCHANGED events
      /\ stack # <<>> /\ stack' = Below /\ Top.name = "dtor"
  BY DEF DestructorReturns, InDestructor, AttemptsStay, clocks
<1>2. UNCHANGED <<connect_, state_, channel_, sockets, conn, destroyed_, answers,
                  connectors_, connections_, nextConnectorId_>>
  BY <1>1 DEF AttemptsStay, connector, conns
<1>3. client # "alive"
  BY <1>1, TopFits DEF FrameFits, Inv, Types
<1>4. ASSUME NEW i \in Attempts PROVE AttemptFits(i)' /\ Kept(i)
  <2>1. AttemptFits(i)
    BY DEF Inv
  <2>2. SocketFits(i)' /\ AnswerFits(i)'
    BY <1>1, <1>2, <2>1 DEF AttemptFits, SocketFits, AnswerFits
  <2>0. RefusedFits(i)'
    BY <1>1, <1>2, <2>1, RefusedStays
  <2>3. (i >= nextConnectorId_ => Fresh(i))' /\ (Open(i) => Held(i))'
    BY <1>2, <2>1 DEF AttemptFits, Fresh, Open, Held
  <2>4. Kept(i)
    BY <1>2 DEF Kept, Held
  <2>5. QED
    BY <2>0, <2>2, <2>3, <2>4 DEF AttemptFits
<1>5. FramesFit' /\ stack' \in Seq([name : Frames, id : Attempts \cup {None}])
  BY <1>1, <1>4, FramesAfterReturn DEF Inv, Types, ClientGoesOn
<1>6. EventsFit' /\ Types'
  BY <1>1, <1>2, <1>5, EventsUntouched
     DEF Inv, Types, LoopTypes, CountTypes, ConnectorTypes, ConnTypes
<1>7. ClientFits'
  BY <1>1, <1>2, <1>3 DEF Inv, ClientFits
<1>8. QED
  BY <1>4, <1>5, <1>6, <1>7 DEF Inv

-----------------------------------------------------------------------------
(***************************************************************************)
(* Steps of one attempt.                                                   *)
(***************************************************************************)
OthersSteady(i) == \A j \in Attempts \ {i} : Steady(j)

LEMMA OthersFit ==
  ASSUME Inv, NEW i \in Attempts, OthersSteady(i)
  PROVE  \A j \in Attempts \ {i} : AttemptFits(j)' /\ Kept(j)
BY SteadyFits, SteadyKept DEF OthersSteady, Inv

\* When all but one attempt are left alone, that one decides.
LEMMA OneConcerned ==
  ASSUME Inv, NEW i \in Attempts, OthersSteady(i), AttemptFits(i)', Kept(i)
  PROVE  \A j \in Attempts : AttemptFits(j)' /\ Kept(j)
BY OthersFit

\* connect(): a new attempt.
LEMMA ConnectAttempt ==
  ASSUME Inv, NEW i \in Attempts, Connect(i), client # "gone",
         UNCHANGED <<client, connections_, conns, answers>>
  PROVE  /\ ConnectorTypes' /\ ConnTypes' /\ nextConnectorId_' \in Nat
         /\ \A j \in Attempts : AttemptFits(j)' /\ Kept(j)
         /\ \A j \in Attempts : channel_[j] # "none" => channel_'[j] # "none"
<1>1. ConnectorTypes /\ ConnTypes /\ nextConnectorId_ \in Nat /\ i = nextConnectorId_
  BY DEF Inv, Types, CountTypes, Connect
<1>2. /\ connect_' \in [Attempts -> BOOLEAN]
      /\ \A j \in Attempts \ {i} : connect_'[j] = connect_[j]
  BY <1>1 DEF Connect, Set, ConnectorTypes
<1>3. /\ state_' \in [Attempts -> {"kDisconnected", "kConnecting", "kConnected"}]
      /\ channel_' \in [Attempts -> {"none", "added", "removed"}]
      /\ sockets' \in [Attempts -> {"none", "connector", "connection", "closed", "refused"}]
      /\ \A j \in Attempts \ {i} : /\ state_'[j] = state_[j]
                                  /\ channel_'[j] = channel_[j]
                                  /\ sockets'[j] = sockets[j]
      /\ \/ /\ state_'[i] = "kConnecting" /\ channel_'[i] = "added"
            /\ sockets'[i] = "connector"
         \/ /\ state_'[i] = state_[i] /\ channel_'[i] = channel_[i]
            /\ sockets'[i] = "refused"
  <2>1. CASE connecting(i)
    BY <1>1, <2>1 DEF connecting, Set, ConnectorTypes
  <2>2. CASE Refused(i)
    BY <1>1, <2>2 DEF Refused, Set, ConnectorTypes
  <2>3. QED
    BY <2>1, <2>2 DEF Connect
<1>4. /\ nextConnectorId_' = i + 1 /\ connectors_' = connectors_ \cup {i}
      /\ client' = client /\ connections_' = connections_ /\ answers' = answers
      /\ conn' = conn /\ destroyed_' = destroyed_
  BY DEF Connect, conns
<1>5. ConnectorTypes' /\ ConnTypes' /\ nextConnectorId_' \in Nat
  BY <1>1, <1>2, <1>3, <1>4 DEF ConnectorTypes, ConnTypes
<1>6. OthersSteady(i)
  <2> SUFFICES ASSUME NEW j \in Attempts \ {i} PROVE Steady(j)
    BY DEF OthersSteady
  <2>1. (j >= nextConnectorId_)' <=> j >= nextConnectorId_
    BY <1>1, <1>4 DEF Attempts
  <2>2. QED
    BY <1>2, <1>3, <1>4, <2>1 DEF Steady
<1>7. AttemptFits(i) /\ Fresh(i)
  BY <1>1 DEF Inv, AttemptFits
<1>8. AttemptFits(i)' /\ Kept(i)
  <2>3. ~(i >= nextConnectorId_)'
    BY <1>1, <1>4
  <2>1. SocketFits(i)'
    BY <1>3, <1>4, <1>7, <2>3 DEF AttemptFits, SocketFits, Fresh
  <2>0. RefusedFits(i)'
    BY <1>3, <1>4, <1>7 DEF RefusedFits, Fresh
  <2>2. AnswerFits(i)'
    BY <1>4, <1>7 DEF AnswerFits, Fresh
  <2>4. (Open(i) => Held(i))' /\ Kept(i)
    BY <1>4, <1>7 DEF Open, Held, Fresh, Kept
  <2>5. QED
    BY <2>0, <2>1, <2>2, <2>3, <2>4 DEF AttemptFits
<1>9. \A j \in Attempts : channel_[j] # "none" => channel_'[j] # "none"
  BY <1>3
<1>10. QED
  BY <1>5, <1>6, <1>8, <1>9, OneConcerned

LEMMA ConnectInv ==
  ASSUME Inv, NEW i \in Attempts, UserConnect(i) \/ DelayedConnect(i)
  PROVE  Inv'
<1>1. /\ Connect(i) /\ UNCHANGED <<client, connections_, conns, answers>>
      /\ stage' = stage /\ stack' = stack /\ queue' = queue
      /\ handling' = handling /\ revents' = revents /\ hangups' = hangups
  BY DEF UserConnect, DelayedConnect, loop, events
<1>2. /\ client # "gone"
      /\ delayed' \in Nat
      /\ delayed' > 0 => delayed > 0
  <2>1. CASE UserConnect(i)
    BY <2>1 DEF UserConnect, MayConnect, Inv, Types, CountTypes
  <2>2. CASE DelayedConnect(i)
    BY <2>2 DEF DelayedConnect, Inv, Types, CountTypes, ClientFits
  <2>3. QED
    BY <2>1, <2>2
<1>3. /\ ConnectorTypes' /\ ConnTypes' /\ nextConnectorId_' \in Nat
      /\ \A j \in Attempts : AttemptFits(j)' /\ Kept(j)
      /\ \A j \in Attempts : channel_[j] # "none" => channel_'[j] # "none"
  BY <1>1, <1>2, ConnectAttempt
<1>4. Types'
  BY <1>1, <1>2, <1>3 DEF Inv, Types, LoopTypes, CountTypes
<1>5. FramesFit'
  BY <1>1, <1>3, SameFrames DEF Inv, Types, ClientGoesOn
<1>6. EventsFit'
  BY <1>1, <1>3, EventsStay DEF Inv, Types, Connected, conns
<1>7. ClientFits'
  BY <1>1, <1>2 DEF Inv, ClientFits
<1>8. QED
  BY <1>3, <1>4, <1>5, <1>6, <1>7 DEF Inv

\* The connector gives up: its answer, if it is to give one, is its first.
LEMMA FailedAttempt ==
  ASSUME Inv, NEW i \in Attempts, NEW before \in Seq([name : Tasks, id : Attempts]),
         ConnectFailed(i, before), state_[i] = "kConnecting",
         UNCHANGED <<client, nextConnectorId_, connect_, conn, destroyed_, stage>>
  PROVE  /\ ConnectorTypes' /\ ConnTypes'
         /\ \A j \in Attempts : AttemptFits(j)' /\ Kept(j)
         /\ \A j \in Attempts : channel_[j] # "none" => channel_'[j] # "none"
         /\ FramesFit' /\ stack' \in Seq([name : Frames, id : Attempts \cup {None}])
         /\ queue' \in Seq([name : Tasks, id : Attempts])
         /\ connectors_' \subseteq connectors_ /\ connections_' = connections_
<1>1. ConnectorTypes /\ ConnTypes /\ AttemptFits(i)
  BY DEF Inv, Types
<1>2. /\ state_' \in [Attempts -> {"kDisconnected", "kConnecting", "kConnected"}]
      /\ channel_' \in [Attempts -> {"none", "added", "removed"}]
      /\ sockets' \in [Attempts -> {"none", "connector", "connection", "closed", "refused"}]
      /\ \A j \in Attempts \ {i} : /\ state_'[j] = state_[j]
                                  /\ channel_'[j] = channel_[j]
                                  /\ sockets'[j] = sockets[j]
      /\ state_'[i] = "kDisconnected" /\ channel_'[i] = "removed" /\ sockets'[i] = "closed"
  BY <1>1 DEF ConnectFailed, GiveUp, RemoveAndResetChannel, CloseSocket, Set, ConnectorTypes
<1>3. answers[i] = 0
  BY <1>1 DEF AttemptFits, AnswerFits, ConnectorTypes
<1>4. /\ connectors_' \subseteq connectors_ /\ connections_' = connections_
      /\ connectors_ \subseteq connectors_' \cup {i}
      /\ answers' \in [Attempts -> {0, 1}]
      /\ \A j \in Attempts \ {i} : answers'[j] = answers[j]
      /\ answers'[i] = 1 => i \notin connectors_'
  <2>1. CASE connect_[i]
    BY <1>1, <1>3, <2>1 DEF ConnectFailed, AnswerFailed, Set, ConnectorTypes
  <2>2. CASE ~connect_[i]
    BY <1>1, <1>3, <2>2 DEF ConnectFailed, ConnectorTypes
  <2>3. QED
    BY <2>1, <2>2
<1>5. ConnectorTypes' /\ ConnTypes'
  BY <1>1, <1>2, <1>4 DEF ConnectorTypes, ConnTypes
<1>6. OthersSteady(i)
  BY <1>2, <1>4 DEF OthersSteady, Steady
<1>7. AttemptFits(i)' /\ Kept(i)
  <2>3. ~(i >= nextConnectorId_)'
    BY <1>1 DEF AttemptFits, Fresh
  <2>1. SocketFits(i)'
    BY <1>1, <1>2, <2>3 DEF AttemptFits, SocketFits
  <2>0. RefusedFits(i)'
    BY <1>2 DEF RefusedFits
  <2>2. AnswerFits(i)'
    BY <1>2, <1>4 DEF AnswerFits
  <2>4. (Open(i) => Held(i))' /\ Kept(i)
    BY <1>1, <1>4 DEF AttemptFits, Open, Held, Kept
  <2>5. QED
    BY <2>0, <2>1, <2>2, <2>3, <2>4 DEF AttemptFits
<1>8. \A j \in Attempts : AttemptFits(j)' /\ Kept(j)
  BY <1>6, <1>7, OneConcerned
<1>9. \A j \in Attempts : channel_[j] # "none" => channel_'[j] # "none"
  BY <1>2
<1>10. FramesFit' /\ stack' \in Seq([name : Frames, id : Attempts \cup {None}])
  <2>1. CASE connect_[i]
    <3>1. stack' = Append(stack, Frame("failed", i))
      BY <2>1 DEF ConnectFailed, AnswerFailed, Call
    <3>2. Frame("failed", i) \in [name : Frames, id : Attempts \cup {None}]
      BY DEF Frame, Frames
    <3>3. ASSUME NEW top PROVE FrameFits(Frame("failed", i), top)'
      BY DEF FrameFits, Frame
    <3>4. PICK top : top = Len(stack) + 1
      OBVIOUS
    <3>5. QED
      BY <1>8, <3>1, <3>2, <3>3, <3>4, FramesAfterCall DEF Inv, Types, ClientGoesOn
  <2>2. CASE ~connect_[i]
    <3>1. stack' = stack
      BY <2>2 DEF ConnectFailed
    <3>2. FramesFit'
      BY <1>8, <3>1, SameFrames DEF Inv, Types, ClientGoesOn
    <3>3. QED
      BY <3>1, <3>2 DEF Inv, Types, LoopTypes
  <2>3. QED
    BY <2>1, <2>2
<1>11. queue' \in Seq([name : Tasks, id : Attempts])
  BY AfterTypes DEF ConnectFailed, RemoveAndResetChannel, Tasks
<1>12. QED
  BY <1>4, <1>5, <1>8, <1>9, <1>10, <1>11

LEMMA FailIfConnectingFits ==
  ASSUME Inv, NEW i \in Attempts, NEW before \in Seq([name : Tasks, id : Attempts]),
         FailIfConnecting(i, before),
         UNCHANGED <<client, nextConnectorId_, connect_, conn, destroyed_, stage>>
  PROVE  /\ ConnectorTypes' /\ ConnTypes'
         /\ \A j \in Attempts : AttemptFits(j)' /\ Kept(j)
         /\ \A j \in Attempts : channel_[j] # "none" => channel_'[j] # "none"
         /\ FramesFit' /\ stack' \in Seq([name : Frames, id : Attempts \cup {None}])
         /\ queue' \in Seq([name : Tasks, id : Attempts])
         /\ connectors_' \subseteq connectors_ /\ connections_' = connections_
<1>1. CASE state_[i] = "kConnecting"
  BY <1>1, FailedAttempt DEF FailIfConnecting
<1>2. CASE state_[i] # "kConnecting"
  <2>1. queue' = before /\ stack' = stack /\ AttemptsStay /\ client' = client
    BY <1>2 DEF FailIfConnecting, Unconcerned, AttemptsStay, connector, conns
  <2>2. channel_' = channel_ /\ connectors_' = connectors_ /\ connections_' = connections_
    BY <2>1 DEF AttemptsStay, connector
  <2>3. FramesFit'
    BY <2>1, NobodyConcerned, SameFrames DEF Inv, Types
  <2>4. stack' \in Seq([name : Frames, id : Attempts \cup {None}])
    BY <2>1 DEF Inv, Types, LoopTypes
  <2>5. QED
    BY <2>1, <2>2, <2>3, <2>4, NobodyConcerned
<1>3. QED
  BY <1>1, <1>2

LEMMA FailInv ==
  ASSUME Inv, NEW i \in Attempts, NEW before \in Seq([name : Tasks, id : Attempts]),
         FailIfConnecting(i, before),
         UNCHANGED <<client, nextConnectorId_, connect_, conn, destroyed_, stage,
                     delayed, handling, revents, hangups>>
  PROVE  Inv'
<1>1. /\ ConnectorTypes' /\ ConnTypes'
      /\ \A j \in Attempts : AttemptFits(j)' /\ Kept(j)
      /\ \A j \in Attempts : channel_[j] # "none" => channel_'[j] # "none"
      /\ FramesFit' /\ stack' \in Seq([name : Frames, id : Attempts \cup {None}])
      /\ queue' \in Seq([name : Tasks, id : Attempts])
      /\ connectors_' \subseteq connectors_ /\ connections_' = connections_
  BY FailIfConnectingFits
<1>2. Types'
  BY <1>1 DEF Inv, Types, LoopTypes, CountTypes
<1>3. EventsFit'
  BY <1>1, EventsStay DEF Inv, Types, Connected
<1>4. ClientFits'
  BY <1>1 DEF Inv, ClientFits
<1>5. QED
  BY <1>1, <1>2, <1>3, <1>4 DEF Inv

LEMMA FailuresInv ==
  ASSUME Inv, StopInLoop \/ HandleError \/ \E i \in Attempts : ConnectTimeoutCheck(i)
  PROVE  Inv'
<1>0. queue \in Seq([name : Tasks, id : Attempts]) /\ handling \in Attempts \cup {None}
  BY DEF Inv, Types, LoopTypes
<1>1. CASE StopInLoop
  <2>1. Task \in Attempts /\ Tail(queue) \in Seq([name : Tasks, id : Attempts])
    BY <1>1, QueueTypes DEF StopInLoop, Runs, Inv, Types
  <2>2. FailIfConnecting(Task, Tail(queue))
    BY <1>1 DEF StopInLoop
  <2>3. UNCHANGED <<client, nextConnectorId_, connect_, conn, destroyed_, stage,
                    delayed, handling, revents, hangups>>
    BY <1>1 DEF StopInLoop, events, clocks, conns
  <2>4. QED
    BY <2>1, <2>2, <2>3, FailInv
<1>2. CASE HandleError
  <2>1. handling \in Attempts
    BY <1>0, <1>2 DEF HandleError, Handler
  <2>2. UNCHANGED <<client, nextConnectorId_, connect_, conn, destroyed_, stage,
                    delayed, handling, revents, hangups>>
    BY <1>2 DEF HandleError, Handler, clocks
  <2>3. FailIfConnecting(handling, queue)
    BY <1>2 DEF HandleError
  <2>4. QED
    BY <1>0, <2>1, <2>2, <2>3, FailInv
<1>3. ASSUME NEW i \in Attempts, ConnectTimeoutCheck(i) PROVE Inv'
  <2>1. UNCHANGED <<client, nextConnectorId_, connect_, conn, destroyed_, stage,
                    delayed, handling, revents, hangups>>
    BY <1>3 DEF ConnectTimeoutCheck, events, conns
  <2>2. QED
    BY <1>0, <1>3, <2>1, FailInv DEF ConnectTimeoutCheck
<1>4. QED
  BY <1>1, <1>2, <1>3

\* The connector succeeds: the first answer, and a connection in the map.
LEMMA SucceededAttempt ==
  ASSUME Inv, NEW i \in Attempts, ConnectSucceeded(i), state_[i] = "kConnecting",
         stack = <<>>,
         UNCHANGED <<client, nextConnectorId_, connect_, destroyed_, stage>>
  PROVE  /\ ConnectorTypes' /\ ConnTypes'
         /\ \A j \in Attempts : AttemptFits(j)' /\ Kept(j)
         /\ \A j \in Attempts : channel_[j] # "none" => channel_'[j] # "none"
         /\ \A j \in Attempts : Connected(j) => Connected(j)'
         /\ FramesFit' /\ stack' \in Seq([name : Frames, id : Attempts \cup {None}])
         /\ queue' \in Seq([name : Tasks, id : Attempts])
         /\ delayed' = delayed => ClientFits'
<1>1. ConnectorTypes /\ ConnTypes /\ AttemptFits(i)
  BY DEF Inv, Types
<1>2. conn[i] = "none" /\ answers[i] = 0
  BY <1>1 DEF AttemptFits, SocketFits, AnswerFits, ConnectorTypes
<1>3. /\ state_' \in [Attempts -> {"kDisconnected", "kConnecting", "kConnected"}]
      /\ channel_' \in [Attempts -> {"none", "added", "removed"}]
      /\ sockets' \in [Attempts -> {"none", "connector", "connection", "closed", "refused"}]
      /\ \A j \in Attempts \ {i} : /\ state_'[j] = state_[j]
                                  /\ channel_'[j] = channel_[j]
                                  /\ sockets'[j] = sockets[j]
      /\ state_'[i] = "kConnected" /\ channel_'[i] = "removed"
      /\ sockets'[i] = IF connect_[i] THEN "connection" ELSE "closed"
  <2>1. CASE connect_[i]
    BY <1>1, <2>1 DEF ConnectSucceeded, RemoveAndResetChannel, Set, ConnectorTypes
  <2>2. CASE ~connect_[i]
    BY <1>1, <2>2 DEF ConnectSucceeded, RemoveAndResetChannel, CloseSocket, Set, ConnectorTypes
  <2>3. QED
    BY <2>1, <2>2
<1>4. /\ connectors_' \subseteq connectors_ /\ connectors_ \subseteq connectors_' \cup {i}
      /\ connections_ \subseteq connections_' /\ connections_' \subseteq connections_ \cup {i}
      /\ answers' \in [Attempts -> {0, 1}]
      /\ conn' \in [Attempts -> ConnStates]
      /\ \A j \in Attempts \ {i} : answers'[j] = answers[j] /\ conn'[j] = conn[j]
      /\ answers'[i] = 1 => i \notin connectors_'
      /\ connect_[i] => conn'[i] = "kConnecting" /\ i \in connections_'
      /\ ~connect_[i] => conn'[i] = "none" /\ UNCHANGED <<connectors_, connections_>>
  <2>1. CASE connect_[i]
    BY <1>1, <1>2, <2>1 DEF ConnectSucceeded, Set, ConnectorTypes, ConnTypes, ConnStates
  <2>2. CASE ~connect_[i]
    BY <1>1, <1>2, <2>2 DEF ConnectSucceeded, ConnectorTypes, ConnTypes
  <2>3. QED
    BY <2>1, <2>2
<1>5. ConnectorTypes' /\ ConnTypes'
  BY <1>1, <1>3, <1>4 DEF ConnectorTypes, ConnTypes
<1>6. OthersSteady(i)
  BY <1>3, <1>4 DEF OthersSteady, Steady
<1>7. AttemptFits(i)' /\ Kept(i)
  <2>3. ~(i >= nextConnectorId_)'
    BY <1>1 DEF AttemptFits, Fresh
  <2>1. SocketFits(i)'
    BY <1>1, <1>3, <1>4, <2>3 DEF AttemptFits, SocketFits
  <2>0. RefusedFits(i)'
    BY <1>3 DEF RefusedFits
  <2>2. AnswerFits(i)'
    BY <1>3, <1>4 DEF AnswerFits
  <2>4. (Open(i) => Held(i))' /\ Kept(i)
    BY <1>2, <1>4 DEF Open, Held, Kept
  <2>5. QED
    BY <2>0, <2>1, <2>2, <2>3, <2>4 DEF AttemptFits
<1>8. \A j \in Attempts : AttemptFits(j)' /\ Kept(j)
  BY <1>6, <1>7, OneConcerned
<1>9. /\ \A j \in Attempts : channel_[j] # "none" => channel_'[j] # "none"
      /\ \A j \in Attempts : Connected(j) => Connected(j)'
  BY <1>2, <1>3, <1>4 DEF Connected
<1>10. FramesFit' /\ stack' \in Seq([name : Frames, id : Attempts \cup {None}])
  <2>1. CASE connect_[i]
    <3>1. stack' = Append(stack, Frame("success", i))
      BY <2>1 DEF ConnectSucceeded, Call
    <3>2. Frame("success", i) \in [name : Frames, id : Attempts \cup {None}]
      BY DEF Frame, Frames
    <3>4. PICK top : top = Len(stack) + 1
      OBVIOUS
    <3>3. FrameFits(Frame("success", i), top)'
      BY <1>4, <2>1, <3>4 DEF FrameFits, Frame, Held
    <3>5. QED
      BY <1>8, <3>1, <3>2, <3>3, <3>4, FramesAfterCall DEF Inv, Types, ClientGoesOn
  <2>2. CASE ~connect_[i]
    <3>1. stack' = stack
      BY <2>2 DEF ConnectSucceeded
    <3>2. FramesFit'
      BY <1>8, <3>1, SameFrames DEF Inv, Types, ClientGoesOn
    <3>3. QED
      BY <3>1, <3>2 DEF Inv, Types, LoopTypes
  <2>3. QED
    BY <2>1, <2>2
<1>11. queue' \in Seq([name : Tasks, id : Attempts])
  BY AfterTypes DEF ConnectSucceeded, RemoveAndResetChannel, Tasks, Inv, Types, LoopTypes
<1>12. delayed' = delayed => ClientFits'
  <2>1. connect_[i] => client # "gone"
    BY <1>1 DEF AttemptFits, AnswerFits
  <2>2. QED
    BY <1>4, <2>1 DEF Inv, ClientFits
<1>13. QED
  BY <1>5, <1>8, <1>9, <1>10, <1>11, <1>12

LEMMA HandleWriteInv ==
  ASSUME Inv, HandleWrite
  PROVE  Inv'
<1>1. /\ handling \in Attempts /\ stack = <<>>
      /\ UNCHANGED <<client, nextConnectorId_, connect_, destroyed_, stage,
                     delayed, handling, revents, hangups>>
      /\ queue \in Seq([name : Tasks, id : Attempts])
  BY DEF HandleWrite, Handler, clocks, Inv, Types, LoopTypes
<1>2. CASE FailIfConnecting(handling, queue) /\ UNCHANGED conn
  BY <1>1, <1>2, FailInv
<1>3. CASE state_[handling] = "kConnecting" /\ ConnectSucceeded(handling)
  <2>1. /\ ConnectorTypes' /\ ConnTypes'
        /\ \A j \in Attempts : AttemptFits(j)' /\ Kept(j)
        /\ \A j \in Attempts : channel_[j] # "none" => channel_'[j] # "none"
        /\ \A j \in Attempts : Connected(j) => Connected(j)'
        /\ FramesFit' /\ stack' \in Seq([name : Frames, id : Attempts \cup {None}])
        /\ queue' \in Seq([name : Tasks, id : Attempts])
        /\ ClientFits'
    BY <1>1, <1>3, SucceededAttempt
  <2>2. Types'
    BY <1>1, <2>1 DEF Inv, Types, LoopTypes, CountTypes
  <2>3. \A j \in hangups' : j \in Attempts
    BY <1>1 DEF Inv, EventsFit
  <2>4. EventsFit'
    BY <1>1, <2>1, <2>3, EventsStay DEF Inv, Types
  <2>5. QED
    BY <2>1, <2>2, <2>4 DEF Inv
<1>4. QED
  BY <1>2, <1>3 DEF HandleWrite

\* Another state for a connection that has one.
ConnBecomes(i, state) == conn' = [conn EXCEPT ![i] = state]

LEMMA ConnAttempt ==
  ASSUME Inv, NEW i \in Attempts, NEW state \in ConnStates \ {"none"},
         conn[i] # "none", ConnBecomes(i, state),
         state # "kDisconnected" => Held(i),
         UNCHANGED <<client, nextConnectorId_, connectors_, connections_,
                     connector, destroyed_, answers>>
  PROVE  /\ ConnectorTypes' /\ ConnTypes'
         /\ conn'[i] = state
         /\ \A j \in Attempts \ {i} : conn'[j] = conn[j]
         /\ \A j \in Attempts : AttemptFits(j)'
         /\ Connected(i) => \A j \in Attempts : Kept(j)
         /\ ClientGoesOn
<1>1. ConnectorTypes /\ ConnTypes /\ AttemptFits(i)
  BY DEF Inv, Types
<1>2. /\ conn' \in [Attempts -> ConnStates]
      /\ conn'[i] = state
      /\ \A j \in Attempts \ {i} : conn'[j] = conn[j]
  BY <1>1 DEF ConnBecomes, ConnTypes
<1>3. UNCHANGED <<connect_, state_, channel_, sockets>>
  BY DEF connector
<1>4. ConnectorTypes' /\ ConnTypes'
  BY <1>1, <1>2, <1>3 DEF ConnectorTypes, ConnTypes
<1>5. OthersSteady(i)
  BY <1>2, <1>3 DEF OthersSteady, Steady
<1>6. AttemptFits(i)' /\ (Connected(i) => Kept(i))
  <2>1. SocketFits(i)'
    BY <1>1, <1>2, <1>3 DEF AttemptFits, SocketFits
  <2>0. RefusedFits(i)'
    BY <1>1, <1>3, RefusedStays
  <2>2. AnswerFits(i)'
    BY <1>1, <1>3 DEF AttemptFits, AnswerFits
  <2>3. ~(i >= nextConnectorId_')
    BY <1>1 DEF AttemptFits, Fresh
  <2>4. (Open(i) => Held(i))'
    BY <1>2 DEF Open, Held
  <2>5. Connected(i) => Kept(i)
    BY DEF Connected, Held, Kept
  <2>6. QED
    BY <2>0, <2>1, <2>2, <2>3, <2>4, <2>5 DEF AttemptFits
<1>7. ClientGoesOn
  BY DEF ClientGoesOn
<1>8. QED
  BY <1>2, <1>4, <1>5, <1>6, <1>7, OthersFit

\* An open connection closes: nobody has forgotten it yet.
LEMMA HandleCloseInv ==
  ASSUME Inv, NEW i \in Attempts, HandleClose(i)
  PROVE  Inv'
<1>1. /\ UNCHANGED <<client, nextConnectorId_, connectors_, connections_,
                     connector, destroyed_, answers, stage, queue, delayed,
                     handling, revents>>
      /\ hangups' = hangups \ {i} /\ i \in hangups /\ stack = <<>>
      /\ ConnBecomes(i, "kDisconnected")
      /\ stack' = Append(stack, Frame("down", i))
  BY DEF HandleClose, Idle, Call, Set, ConnBecomes, maps, clocks
<1>2. Connected(i) /\ conn[i] # "none" /\ Held(i)
  BY <1>1 DEF Inv, EventsFit, Connected, AttemptFits, Open
<1>3. /\ ConnectorTypes' /\ ConnTypes'
      /\ conn'[i] = "kDisconnected"
      /\ \A j \in Attempts \ {i} : conn'[j] = conn[j]
      /\ \A j \in Attempts : AttemptFits(j)' /\ Kept(j)
      /\ ClientGoesOn
  BY <1>1, <1>2, ConnAttempt DEF ConnStates
<1>4. FramesFit' /\ stack' \in Seq([name : Frames, id : Attempts \cup {None}])
  <2>1. Frame("down", i) \in [name : Frames, id : Attempts \cup {None}]
    BY DEF Frame, Frames
  <2>2. PICK top : top = Len(stack) + 1
    OBVIOUS
  <2>3. top = 1
    BY <1>1, <2>2
  <2>4. FrameFits(Frame("down", i), top)'
    BY <1>1, <1>2, <1>3, <2>3 DEF FrameFits, Frame, Held
  <2>5. QED
    BY <1>1, <1>3, <2>1, <2>2, <2>4, FramesAfterCall DEF Inv, Types
<1>5. Types'
  BY <1>1, <1>3, <1>4 DEF Inv, Types, LoopTypes, CountTypes
<1>6. EventsFit'
  <2>1. channel_' = channel_ /\ \A j \in hangups' : j \in Attempts \ {i}
    BY <1>1 DEF connector, Inv, EventsFit
  <2>2. \A j \in hangups' : Connected(j) => Connected(j)'
    BY <1>3, <2>1 DEF Connected
  <2>3. QED
    BY <1>1, <2>1, <2>2, EventsStay DEF Inv, Types
<1>7. ClientFits'
  BY <1>1 DEF Inv, ClientFits
<1>8. QED
  BY <1>3, <1>4, <1>5, <1>6, <1>7 DEF Inv

LEMMA ForceCloseInLoopInv ==
  ASSUME Inv, ForceCloseInLoop
  PROVE  Inv'
<1> DEFINE i == Task
<1>1. /\ UNCHANGED <<client, nextConnectorId_, connectors_, connections_,
                     connector, destroyed_, answers, stage, events, delayed>>
      /\ stack = <<>> /\ queue # <<>> /\ queue' = Tail(queue) /\ stage = "functors"
  BY DEF ForceCloseInLoop, Runs, Idle, maps, clocks
<1>2. i \in Attempts /\ queue' \in Seq([name : Tasks, id : Attempts])
  BY <1>1, QueueTypes DEF Inv, Types
<1>3. hangups' = {} /\ handling' = None /\ revents' = revents
      /\ \A j \in Attempts : revents[j] = {}
  BY <1>1, NothingPolled DEF events, Inv
<1>4. EventsFit'
  BY <1>3 DEF EventsFit
<1>5. ClientFits'
  BY <1>1 DEF Inv, ClientFits
<1>6. CASE conn[i] = "kDisconnecting"
  <2>1. ConnBecomes(i, "kDisconnected") /\ stack' = Append(stack, Frame("down", i))
    BY <1>6 DEF ForceCloseInLoop, Set, Call, ConnBecomes
  <2>2. Held(i) /\ Connected(i)
    BY <1>2, <1>6 DEF Inv, AttemptFits, Open, Connected
  <2>3. /\ ConnectorTypes' /\ ConnTypes'
        /\ conn'[i] = "kDisconnected"
        /\ \A j \in Attempts : AttemptFits(j)' /\ Kept(j)
        /\ ClientGoesOn
    BY <1>1, <1>2, <1>6, <2>1, <2>2, ConnAttempt DEF ConnStates
  <2>4. FramesFit' /\ stack' \in Seq([name : Frames, id : Attempts \cup {None}])
    <3>0. PICK f \in [name : Frames, id : Attempts \cup {None}] :
             f = Frame("down", i)
      BY <1>2 DEF Frame, Frames
    <3>2. PICK top : top = Len(stack) + 1
      OBVIOUS
    <3>3. top = 1
      BY <1>1, <3>2
    <3>4. FrameFits(f, top)'
      <4>1. f.name = "down" /\ f.id = i
        BY <3>0 DEF Frame
      <4>2. PICK t \in Attempts : t = i /\ f.id = t
        BY <1>2, <4>1
      <4>3. conn'[t] = "kDisconnected" /\ Held(t)'
        BY <1>1, <2>2, <2>3, <4>2 DEF Held
      <4>4. QED
        BY <3>3, <4>1, <4>2, <4>3 DEF FrameFits
    <3>5. QED
      BY <1>1, <2>1, <2>3, <3>0, <3>2, <3>4, FramesAfterCall DEF Inv, Types
  <2>5. Types'
    BY <1>1, <1>2, <1>3, <2>3, <2>4 DEF Inv, Types, LoopTypes, CountTypes
  <2>6. QED
    BY <1>4, <1>5, <2>3, <2>4, <2>5 DEF Inv
<1>7. CASE conn[i] # "kDisconnecting"
  <2>1. AttemptsStay /\ stack' = stack
    BY <1>1, <1>7 DEF ForceCloseInLoop, AttemptsStay, conns
  <2>2. FramesFit'
    BY <1>1, <2>1, NobodyConcerned, SameFrames DEF Inv, Types
  <2>3. Types'
    BY <1>1, <1>2, <1>3, <2>1, NobodyConcerned DEF Inv, Types, LoopTypes, CountTypes
  <2>4. QED
    BY <1>1, <1>4, <1>5, <2>1, <2>2, <2>3, NobodyConcerned DEF Inv
<1>8. QED
  BY <1>6, <1>7

LEMMA ForceCloseInv ==
  ASSUME Inv, NEW i \in Attempts, ForceClose(i)
  PROVE  Inv'
<1>1. /\ UNCHANGED <<client, nextConnectorId_, connectors_, connections_,
                     connector, destroyed_, answers, stage, stack, delayed,
                     handling, revents, hangups>>
      /\ conn[i] = "kConnected" /\ ConnBecomes(i, "kDisconnecting")
      /\ After(queue, "forceCloseInLoop", i)
  BY DEF ForceClose, QueueInLoop, Set, ConnBecomes, maps, clocks, events
<1>2. Held(i) /\ Connected(i)
  BY <1>1 DEF Inv, AttemptFits, Open, Connected
<1>3. /\ ConnectorTypes' /\ ConnTypes'
      /\ conn'[i] = "kDisconnecting"
      /\ \A j \in Attempts \ {i} : conn'[j] = conn[j]
      /\ \A j \in Attempts : AttemptFits(j)' /\ Kept(j)
      /\ ClientGoesOn
  BY <1>1, <1>2, ConnAttempt DEF ConnStates
<1>4. FramesFit'
  BY <1>1, <1>3, SameFrames DEF Inv, Types
<1>5. queue' \in Seq([name : Tasks, id : Attempts])
  BY <1>1, AfterTypes DEF Tasks, Inv, Types, LoopTypes
<1>6. Types'
  BY <1>1, <1>3, <1>5 DEF Inv, Types, LoopTypes, CountTypes
<1>7. EventsFit'
  <2>1. channel_' = channel_ /\ \A j \in hangups' : j \in Attempts
    BY <1>1 DEF connector, Inv, EventsFit
  <2>2. \A j \in hangups' : Connected(j) => Connected(j)'
    BY <1>3, <2>1 DEF Connected
  <2>3. QED
    BY <1>1, <2>1, <2>2, EventsStay DEF Inv, Types
<1>8. ClientFits'
  BY <1>1 DEF Inv, ClientFits
<1>9. QED
  BY <1>3, <1>4, <1>6, <1>7, <1>8 DEF Inv

\* After the success callback the connection is established.
LEMMA SuccessReturnsInv ==
  ASSUME Inv, SuccessReturns
  PROVE  Inv'
<1>1. /\ UNCHANGED <<client, nextConnectorId_, connectors_, connections_,
                     connector, destroyed_, answers, stage, queue, delayed,
                     handling, revents, hangups>>
      /\ stack # <<>> /\ Top.name = "success"
      /\ stack' = Append(Below, Frame("up", Top.id))
  BY DEF SuccessReturns, maps, clocks, events
<1>2. /\ Len(stack) = 1
      /\ \E i \in Attempts : i = Top.id /\ conn[i] = "kConnecting" /\ Held(i)
  BY <1>1, TopFits DEF FrameFits, Inv, Types
<1> PICK i \in Attempts : i = Top.id /\ conn[i] = "kConnecting" /\ Held(i)
  BY <1>2
<1>3. ConnBecomes(i, "kConnected")
  BY DEF SuccessReturns, ConnBecomes, Set
<1>4. /\ ConnectorTypes' /\ ConnTypes'
      /\ conn'[i] = "kConnected"
      /\ \A j \in Attempts \ {i} : conn'[j] = conn[j]
      /\ \A j \in Attempts : AttemptFits(j)'
  BY <1>1, <1>3, ConnAttempt DEF ConnStates
<1>5. FramesFit' /\ stack' \in Seq([name : Frames, id : Attempts \cup {None}])
  <2> DEFINE Fs == [name : Frames, id : Attempts \cup {None}]
  <2>1. PICK f \in Fs : f = Frame("up", i)
    BY DEF Frame, Frames
  <2>2. Below \in Seq(Fs) /\ Len(Below) = 0
    <3>1. \A n \in Nat : n = 1 => n - 1 = 0
      OBVIOUS
    <3>2. QED
      BY <1>1, <1>2, <3>1, RangeOfFront DEF Below, Inv, Types, LoopTypes
  <2>3. stack' \in Seq(Fs) /\ Len(stack') = 1 /\ stack'[1] = f
    <3>1. stack' = Append(Below, f)
      BY <1>1, <2>1
    <3>2. 0 + 1 = 1
      OBVIOUS
    <3>3. QED
      BY <2>2, <3>1, <3>2, AppendProperties
  <2>4. ASSUME NEW k \in 1 .. Len(stack'), NEW g, g = stack'[k] PROVE FrameFits(g, k)'
    <3>1. g.name = "up"
      BY <2>1, <2>3, <2>4 DEF Frame
    <3>2. QED
      BY <3>1 DEF FrameFits
  <2>5. QED
    BY <2>3, <2>4 DEF FramesFit
<1>6. Types'
  BY <1>1, <1>4, <1>5 DEF Inv, Types, LoopTypes, CountTypes
<1>7. EventsFit'
  <2>1. channel_' = channel_ /\ \A j \in hangups' : j \in Attempts
    BY <1>1 DEF connector, Inv, EventsFit
  <2>2. \A j \in hangups' : Connected(j) => Connected(j)'
    BY <1>4, <2>1 DEF Connected
  <2>3. QED
    BY <1>1, <2>1, <2>2, EventsStay DEF Inv, Types
<1>8. ClientFits'
  BY <1>1 DEF Inv, ClientFits
<1>9. QED
  BY <1>4, <1>5, <1>6, <1>7, <1>8 DEF Inv

\* connectDestroyed(), by a functor or by the destructor: the connection knows
\* from now on that its client has let it go.
LEMMA ConnDestroyedFits ==
  ASSUME Inv, NEW i \in Attempts, ConnDestroyed(i), stage \in Late,
         UNCHANGED <<client, nextConnectorId_, connectors_, connector, answers,
                     stage, events, delayed>>,
         connections_' \subseteq connections_, connections_ \subseteq connections_' \cup {i},
         queue' \in Seq([name : Tasks, id : Attempts])
  PROVE  Inv'
<1>1. ConnectorTypes /\ ConnTypes /\ AttemptFits(i)
  BY DEF Inv, Types
<1>2. /\ destroyed_' \in [Attempts -> BOOLEAN]
      /\ destroyed_'[i] = TRUE
      /\ \A j \in Attempts \ {i} : destroyed_'[j] = destroyed_[j]
  BY <1>1 DEF ConnDestroyed, MarkDestroyed, Set, ConnTypes
<1>3. /\ conn' \in [Attempts -> ConnStates]
      /\ \A j \in Attempts \ {i} : conn'[j] = conn[j]
      /\ conn'[i] = "none" <=> conn[i] = "none"
      /\ conn[i] # "kConnected" => conn'[i] = conn[i]
  <2>1. CASE conn[i] = "kConnected"
    BY <1>1, <2>1 DEF ConnDestroyed, Set, ConnTypes, ConnStates
  <2>2. CASE conn[i] # "kConnected"
    BY <1>1, <2>2 DEF ConnDestroyed, ConnTypes
  <2>3. QED
    BY <2>1, <2>2
<1>4. UNCHANGED <<connect_, state_, channel_, sockets>>
  BY DEF connector
<1>5. ConnectorTypes' /\ ConnTypes'
  BY <1>1, <1>2, <1>3, <1>4 DEF ConnectorTypes, ConnTypes
<1>6. OthersSteady(i)
  BY <1>2, <1>3, <1>4 DEF OthersSteady, Steady
<1>7. AttemptFits(i)' /\ Kept(i)
  <2>1. SocketFits(i)'
    BY <1>1, <1>3, <1>4 DEF AttemptFits, SocketFits
  <2>0. RefusedFits(i)'
    BY <1>1, <1>4, RefusedStays
  <2>2. AnswerFits(i)'
    BY <1>1, <1>4 DEF AttemptFits, AnswerFits
  <2>3. (i >= nextConnectorId_ => Fresh(i))'
    BY <1>1, <1>3, <1>4 DEF AttemptFits, Fresh
  <2>4. (Open(i) => Held(i))' /\ Kept(i)
    BY <1>2, <1>3 DEF Held, Kept
  <2>5. QED
    BY <2>0, <2>1, <2>2, <2>3, <2>4 DEF AttemptFits
<1>8. \A j \in Attempts : AttemptFits(j)' /\ Kept(j)
  BY <1>6, <1>7, OneConcerned
<1>9. FramesFit' /\ stack' \in Seq([name : Frames, id : Attempts \cup {None}])
  <2>1. CASE conn[i] = "kConnected"
    <3>1. stack' = Append(stack, Frame("downDestroyed", i))
      BY <2>1 DEF ConnDestroyed, Call
    <3>2. Frame("downDestroyed", i) \in [name : Frames, id : Attempts \cup {None}]
      BY DEF Frame, Frames
    <3>3. ASSUME NEW top PROVE FrameFits(Frame("downDestroyed", i), top)'
      BY DEF FrameFits, Frame
    <3>4. PICK top : top = Len(stack) + 1
      OBVIOUS
    <3>5. QED
      BY <1>8, <3>1, <3>2, <3>3, <3>4, FramesAfterCall DEF Inv, Types, ClientGoesOn
  <2>2. CASE conn[i] # "kConnected"
    <3>1. stack' = stack
      BY <2>2 DEF ConnDestroyed
    <3>2. FramesFit'
      BY <1>8, <3>1, SameFrames DEF Inv, Types, ClientGoesOn
    <3>3. QED
      BY <3>1, <3>2 DEF Inv, Types, LoopTypes
  <2>3. QED
    BY <2>1, <2>2
<1>10. hangups' = {} /\ handling' = None /\ revents' = revents
       /\ \A j \in Attempts : revents[j] = {}
  BY NothingPolled DEF events, Inv, Late
<1>11. EventsFit'
  BY <1>10 DEF EventsFit
<1>12. Types'
  BY <1>5, <1>9, <1>10 DEF Inv, Types, LoopTypes, CountTypes
<1>13. ClientFits'
  BY DEF Inv, ClientFits
<1>14. QED
  BY <1>8, <1>9, <1>11, <1>12, <1>13 DEF Inv

LEMMA ConnectDestroyedInv ==
  ASSUME Inv, ConnectDestroyed
  PROVE  Inv'
<1>1. PICK i \in Attempts : i = Task
  BY QueueTypes DEF ConnectDestroyed, Runs, Inv, Types
<1>2. queue' \in Seq([name : Tasks, id : Attempts])
  BY QueueTypes DEF ConnectDestroyed, Runs, Inv, Types
<1>3. /\ ConnDestroyed(i) /\ stage \in Late
      /\ UNCHANGED <<client, nextConnectorId_, connectors_, connections_, connector,
                     answers, stage, events, delayed>>
  BY <1>1 DEF ConnectDestroyed, Runs, Late, maps, clocks
<1>4. QED
  BY <1>2, <1>3, ConnDestroyedFits

LEMMA DestroyConnectionInv ==
  ASSUME Inv, NEW i \in Attempts, DestroyConnection(i)
  PROVE  Inv'
<1>1. stage \in Late
  BY TopFits DEF DestroyConnection, InDestructor, FrameFits, Inv, Types
<1>2. /\ ConnDestroyed(i)
      /\ connections_' = connections_ \ {i}
      /\ UNCHANGED <<client, nextConnectorId_, connectors_, connector,
                     answers, stage, events, delayed, queue>>
  BY DEF DestroyConnection, clocks
<1>3. queue' \in Seq([name : Tasks, id : Attempts])
  BY <1>2 DEF Inv, Types, LoopTypes
<1>4. QED
  BY <1>1, <1>2, <1>3, ConnDestroyedFits

\* stop(): the connector will not answer.
LEMMA StopConnectorInv ==
  ASSUME Inv, NEW i \in Attempts, StopConnector(i)
  PROVE  Inv'
<1>1. /\ UNCHANGED <<client, nextConnectorId_, connections_, state_, channel_,
                     sockets, conn, destroyed_, answers, stage, stack, delayed,
                     handling, revents, hangups>>
      /\ connectors_' = connectors_ \ {i}
      /\ After(queue, "stopInLoop", i)
  BY DEF StopConnector, QueueInLoop, clocks, events, conns
<1>0. client # "alive"
  BY TopFits DEF StopConnector, InDestructor, FrameFits, Inv, Types
<1>2. ConnectorTypes /\ ConnTypes /\ AttemptFits(i)
  BY DEF Inv, Types
<1>3. /\ connect_' \in [Attempts -> BOOLEAN]
      /\ connect_'[i] = FALSE
      /\ \A j \in Attempts \ {i} : connect_'[j] = connect_[j]
  BY <1>2 DEF StopConnector, StopConnecting, Set, ConnectorTypes
<1>4. ConnectorTypes' /\ ConnTypes'
  BY <1>1, <1>2, <1>3 DEF ConnectorTypes, ConnTypes
<1>5. OthersSteady(i)
  BY <1>1, <1>3 DEF OthersSteady, Steady
<1>6. AttemptFits(i)' /\ Kept(i)
  <2>1. SocketFits(i)'
    BY <1>1, <1>2 DEF AttemptFits, SocketFits
  <2>0. RefusedFits(i)'
    BY <1>0, <1>1, <1>2, RefusedStays
  <2>2. AnswerFits(i)'
    BY <1>1, <1>2, <1>3 DEF AttemptFits, AnswerFits
  <2>3. (i >= nextConnectorId_ => Fresh(i))'
    BY <1>1, <1>2 DEF AttemptFits, Fresh
  <2>4. (Open(i) => Held(i))' /\ Kept(i)
    BY <1>1, <1>2 DEF AttemptFits, Open, Held, Kept
  <2>5. QED
    BY <2>0, <2>1, <2>2, <2>3, <2>4 DEF AttemptFits
<1>7. \A j \in Attempts : AttemptFits(j)' /\ Kept(j)
  BY <1>5, <1>6, OneConcerned
<1>8. FramesFit'
  BY <1>1, <1>7, SameFrames DEF Inv, Types, ClientGoesOn
<1>9. queue' \in Seq([name : Tasks, id : Attempts])
  BY <1>1, AfterTypes DEF Tasks, Inv, Types, LoopTypes
<1>10. Types'
  BY <1>1, <1>4, <1>9 DEF Inv, Types, LoopTypes, CountTypes
<1>11. EventsFit'
  BY <1>1, EventsStay DEF Inv, Types, Connected
<1>12. ClientFits'
  BY <1>1 DEF Inv, ClientFits
<1>13. QED
  BY <1>7, <1>8, <1>10, <1>11, <1>12 DEF Inv

\* The last callback of a connection has returned: it is closed, and out of the map.
LEMMA DownReturnsInv ==
  ASSUME Inv, DownReturns
  PROVE  Inv'
<1>1. /\ UNCHANGED <<client, nextConnectorId_, connectors_, connector, conns,
                     answers, stage, events, delayed>>
      /\ stack # <<>> /\ Top.name = "down" /\ stack' = Below
      /\ connections_' = connections_ \ {Top.id}
      /\ After(queue, "connectDestroyed", Top.id)
  BY DEF DownReturns, Reports, QueueInLoop, clocks
<1>2. /\ Len(stack) = 1
      /\ \E i \in Attempts : i = Top.id /\ conn[i] = "kDisconnected"
  BY <1>1, TopFits DEF FrameFits, Inv, Types
<1> PICK i \in Attempts : i = Top.id /\ conn[i] = "kDisconnected"
  BY <1>2
<1>3. UNCHANGED <<connect_, state_, channel_, sockets, conn, destroyed_>>
  BY <1>1 DEF connector, conns
<1>4. OthersSteady(i)
  BY <1>1, <1>3 DEF OthersSteady, Steady
<1>5. AttemptFits(i)'
  <2>1. AttemptFits(i)
    BY DEF Inv
  <2>2. SocketFits(i)' /\ AnswerFits(i)'
    BY <1>1, <1>3, <2>1 DEF AttemptFits, SocketFits, AnswerFits
  <2>0. RefusedFits(i)'
    BY <1>1, <1>3, <2>1, RefusedStays
  <2>3. (i >= nextConnectorId_ => Fresh(i))'
    BY <1>1, <1>3, <2>1 DEF AttemptFits, Fresh
  <2>4. ~Open(i)'
    BY <1>3 DEF Open
  <2>5. QED
    BY <2>0, <2>2, <2>3, <2>4 DEF AttemptFits
<1>6. \A j \in Attempts : AttemptFits(j)'
  BY <1>4, <1>5, OthersFit
<1>7. FramesFit' /\ stack' \in Seq([name : Frames, id : Attempts \cup {None}])
  <2>1. \A n \in Nat : n = 1 => n - 1 = 0
    OBVIOUS
  <2>2. stack' \in Seq([name : Frames, id : Attempts \cup {None}]) /\ Len(stack') = 0
    BY <1>1, <1>2, <2>1, RangeOfFront DEF Below, Inv, Types, LoopTypes
  <2>3. QED
    BY <2>2 DEF FramesFit
<1>8. queue' \in Seq([name : Tasks, id : Attempts])
  BY <1>1, AfterTypes DEF Tasks, Inv, Types, LoopTypes
<1>9. EventsFit' /\ Types'
  BY <1>1, <1>3, <1>7, <1>8, EventsUntouched
     DEF Inv, Types, LoopTypes, CountTypes, ConnectorTypes, ConnTypes
<1>10. ClientFits'
  BY <1>1 DEF Inv, ClientFits
<1>11. QED
  BY <1>6, <1>7, <1>9, <1>10 DEF Inv

-----------------------------------------------------------------------------
(***************************************************************************)
(* The functors that free channels are those of connectors that have       *)
(* finished, and a connector that has finished does not start again.       *)
(***************************************************************************)
Finished(i) == i < nextConnectorId_ /\ state_[i] # "kConnecting"
QueueFits == \A f \in Range(queue) : f.name = "resetChannel" => Finished(f.id)

LEMMA FinishedStays ==
  ASSUME Inv, [Next]_vars, NEW i \in Attempts, Finished(i)
  PROVE  Finished(i)'
<1>1. ConnectorTypes /\ nextConnectorId_ \in Nat
  BY DEF Inv, Types, CountTypes
<1>2. ASSUME NEW j \in Attempts, Connect(j) PROVE Finished(i)'
  <2>1. nextConnectorId_' = nextConnectorId_ + 1 /\ j = nextConnectorId_ /\ i # j
    BY <1>1, <1>2 DEF Connect, Finished, Attempts
  <2>2. state_'[i] = state_[i]
    BY <1>1, <1>2, <2>1 DEF Connect, connecting, Refused, Set, ConnectorTypes
  <2>3. QED
    BY <1>1, <2>1, <2>2 DEF Finished, Attempts
<1>3. ASSUME nextConnectorId_' = nextConnectorId_, UNCHANGED state_ PROVE Finished(i)'
  BY <1>3 DEF Finished
<1>4. ASSUME NEW j, NEW v \in {"kDisconnected", "kConnected"},
             nextConnectorId_' = nextConnectorId_, state_' = Set(state_, j, v)
      PROVE  Finished(i)'
  BY <1>1, <1>4 DEF Finished, Set, ConnectorTypes
<1>5. ASSUME NEW j, NEW before, FailIfConnecting(j, before),
             nextConnectorId_' = nextConnectorId_
      PROVE  Finished(i)'
  BY <1>3, <1>4, <1>5 DEF FailIfConnecting, ConnectFailed, GiveUp, Unconcerned
<1>6. CASE HandleWrite
  BY <1>4, <1>5, <1>6 DEF HandleWrite, Handler, ConnectSucceeded
<1>7. CASE HandleError \/ StopInLoop \/ \E j \in Attempts : ConnectTimeoutCheck(j)
  BY <1>5, <1>7 DEF HandleError, Handler, StopInLoop, ConnectTimeoutCheck
<1>8. CASE \E j \in Attempts : UserConnect(j) \/ DelayedConnect(j)
  BY <1>2, <1>8 DEF UserConnect, DelayedConnect
<1>9. CASE \/ HandleEventReturns \/ SuccessReturns \/ DownReturns \/ OtherReturns
           \/ DestructorReturns \/ EventsDone \/ TimersDone \/ FunctorsDone
           \/ DelayConnect \/ EnterOther \/ Destroy \/ UNCHANGED vars
  BY <1>3, <1>9 DEF HandleEventReturns, SuccessReturns, DownReturns, OtherReturns,
     DestructorReturns, EventsDone, TimersDone, FunctorsDone, Goes, DelayConnect,
     EnterOther, Destroy, vars, maps, connector
<1>10. CASE \/ \E j \in Attempts : \/ DestroyConnection(j) \/ StopConnector(j)
                                 \/ HandleEvent(j) \/ HandleClose(j) \/ ForceClose(j)
            \/ ResetChannel \/ ForceCloseInLoop \/ ConnectDestroyed
  BY <1>3, <1>10 DEF DestroyConnection, StopConnector, HandleEvent, HandleClose,
     ForceClose, ResetChannel, ForceCloseInLoop, ConnectDestroyed, maps, connector
<1>11. ASSUME NEW ready, NEW hang, Poll(ready, hang) PROVE Finished(i)'
  BY <1>3, <1>11 DEF Poll, maps, connector
<1>12. QED
  BY <1>6, <1>7, <1>8, <1>9, <1>10, <1>11 DEF Next, CallStep, StageStep, RunFunctor

\* The tasks in the queue, after those that a step may put there.
LEMMA QueueStays ==
  ASSUME Inv, QueueFits, [Next]_vars,
         \A f \in Range(queue') :
           \/ f \in Range(queue)
           \/ f.name = "resetChannel" => f.id \in Attempts /\ Finished(f.id)'
  PROVE  QueueFits'
<1> SUFFICES ASSUME NEW f \in Range(queue'), f.name = "resetChannel"
             PROVE  Finished(f.id)'
  BY DEF QueueFits
<1>1. CASE f \in Range(queue)
  <2>1. PICK k \in DOMAIN queue : f = queue[k]
    BY <1>1 DEF Range
  <2>2. queue \in Seq([name : Tasks, id : Attempts]) /\ k \in 1 .. Len(queue)
    BY <2>1, LenProperties DEF Inv, Types, LoopTypes
  <2>3. f \in [name : Tasks, id : Attempts]
    BY <2>1, <2>2, ElementOfSeq
  <2>4. f.id \in Attempts /\ Finished(f.id)
    BY <1>1, <2>3 DEF QueueFits
  <2>5. QED
    BY <2>4, FinishedStays
<1>2. CASE f \notin Range(queue)
  BY <1>2
<1>3. QED
  BY <1>1, <1>2

LEMMA SameQueue ==
  ASSUME Inv, QueueFits, [Next]_vars, queue' = queue
  PROVE  QueueFits'
BY QueueStays

LEMMA ShorterQueue ==
  ASSUME Inv, QueueFits, [Next]_vars, queue # <<>>, queue' = Tail(queue)
  PROVE  QueueFits'
BY QueueStays, RangeOfTail DEF Inv, Types, LoopTypes

LEMMA LongerQueue ==
  ASSUME Inv, QueueFits, [Next]_vars,
         NEW before \in Seq([name : Tasks, id : Attempts]),
         Range(before) \subseteq Range(queue),
         NEW i \in Attempts, NEW task \in Tasks, After(before, task, i),
         task = "resetChannel" => Finished(i)'
  PROVE  QueueFits'
<1>1. PICK f \in [name : Tasks, id : Attempts] : f = Frame(task, i)
  BY DEF Frame
<1>2. f.name = task /\ f.id = i
  BY <1>1 DEF Frame
<1>3. queue' = Append(before, f)
  BY <1>1 DEF After
<1>4. Range(queue') = Range(before) \cup {f}
  <2> DEFINE Ts == [name : Tasks, id : Attempts]
  <2>1. before \in Seq(Ts) /\ f \in Ts
    OBVIOUS
  <2> HIDE DEF Ts
  <2>2. QED
    BY <1>3, <2>1, RangeOfAppend
<1>5. ASSUME NEW g \in Range(queue')
      PROVE  \/ g \in Range(queue)
             \/ g.name = "resetChannel" => g.id \in Attempts /\ Finished(g.id)'
  <2>1. CASE g \in Range(before)
    BY <2>1
  <2>2. CASE g = f
    BY <1>2, <2>2
  <2>3. QED
    BY <1>4, <2>1, <2>2
<1>6. QED
  BY <1>5, QueueStays

\* A connector that gives up or succeeds leaves its channel to a functor.
LEMMA QueueAfterReset ==
  ASSUME Inv, QueueFits, [Next]_vars,
         NEW before \in Seq([name : Tasks, id : Attempts]),
         Range(before) \subseteq Range(queue),
         NEW i \in Attempts, NEW v \in {"kDisconnected", "kConnected"},
         state_[i] = "kConnecting", state_' = Set(state_, i, v),
         RemoveAndResetChannel(i, before),
         nextConnectorId_' = nextConnectorId_
  PROVE  QueueFits'
<1>1. ~(i >= nextConnectorId_) /\ nextConnectorId_ \in Nat
  BY DEF Inv, AttemptFits, Fresh, Types, CountTypes
<1>2. i < nextConnectorId_'
  BY <1>1 DEF Attempts
<1>3. state_'[i] # "kConnecting"
  BY DEF Set, Inv, Types, ConnectorTypes
<1>4. Finished(i)'
  BY <1>2, <1>3 DEF Finished
<1>5. QED
  BY <1>4, LongerQueue DEF RemoveAndResetChannel, Tasks

LEMMA QueueAfterFailure ==
  ASSUME Inv, QueueFits, [Next]_vars,
         NEW before \in Seq([name : Tasks, id : Attempts]),
         Range(before) \subseteq Range(queue),
         NEW i \in Attempts, FailIfConnecting(i, before),
         nextConnectorId_' = nextConnectorId_
  PROVE  QueueFits'
<1>1. CASE state_[i] = "kConnecting"
  BY <1>1, QueueAfterReset DEF FailIfConnecting, ConnectFailed, GiveUp
<1>2. CASE state_[i] # "kConnecting"
  <2>1. queue' = before
    BY <1>2 DEF FailIfConnecting, Unconcerned
  <2>2. QED
    BY <2>1, QueueStays
<1>3. QED
  BY <1>1, <1>2

LEMMA StepQueueFits ==
  ASSUME Inv, QueueFits, [Next]_vars
  PROVE  QueueFits'
<1>0. queue \in Seq([name : Tasks, id : Attempts])
  BY DEF Inv, Types, LoopTypes
<1>1. CASE HandleError
  <2>1. handling \in Attempts /\ nextConnectorId_' = nextConnectorId_
        /\ FailIfConnecting(handling, queue)
    BY <1>1 DEF HandleError, Handler, Inv, Types, LoopTypes
  <2>2. QED
    BY <1>0, <2>1, QueueAfterFailure
<1>2. CASE HandleWrite
  <2>1. handling \in Attempts /\ nextConnectorId_' = nextConnectorId_
    BY <1>2 DEF HandleWrite, Handler, Inv, Types, LoopTypes
  <2>2. CASE FailIfConnecting(handling, queue)
    BY <1>0, <2>1, <2>2, QueueAfterFailure
  <2>3. CASE state_[handling] = "kConnecting" /\ ConnectSucceeded(handling)
    BY <1>0, <2>1, <2>3, QueueAfterReset DEF ConnectSucceeded
  <2>4. QED
    BY <1>2, <2>2, <2>3 DEF HandleWrite
<1>3. CASE StopInLoop
  <2>1. queue # <<>> /\ nextConnectorId_' = nextConnectorId_
        /\ FailIfConnecting(Task, Tail(queue))
    BY <1>3 DEF StopInLoop, Runs
  <2>2. /\ Task \in Attempts /\ Tail(queue) \in Seq([name : Tasks, id : Attempts])
        /\ Range(Tail(queue)) \subseteq Range(queue)
    BY <1>0, <2>1, QueueTypes, RangeOfTail DEF Inv, Types
  <2>3. QED
    BY <2>1, <2>2, QueueAfterFailure
<1>4. ASSUME NEW i \in Attempts, ConnectTimeoutCheck(i) PROVE QueueFits'
  BY <1>0, <1>4, QueueAfterFailure DEF ConnectTimeoutCheck
<1>5. CASE ResetChannel \/ ForceCloseInLoop \/ ConnectDestroyed
  BY <1>5, ShorterQueue DEF ResetChannel, ForceCloseInLoop, ConnectDestroyed, Runs
<1>6. ASSUME NEW i \in Attempts, StopConnector(i) \/ ForceClose(i) PROVE QueueFits'
  BY <1>0, <1>6, LongerQueue DEF StopConnector, ForceClose, QueueInLoop, Tasks
<1>7. CASE DownReturns
  <2>1. PICK i \in Attempts : i = Top.id
    BY <1>7, TopFits DEF DownReturns, Reports, FrameFits, Inv, Types
  <2>2. After(queue, "connectDestroyed", i)
    BY <1>7, <2>1 DEF DownReturns, QueueInLoop
  <2>3. QED
    BY <1>0, <2>2, LongerQueue DEF Tasks
<1>8. CASE \/ HandleEventReturns \/ SuccessReturns \/ OtherReturns
           \/ DestructorReturns \/ EventsDone \/ TimersDone \/ FunctorsDone
           \/ DelayConnect \/ EnterOther \/ Destroy \/ UNCHANGED vars
  BY <1>8, SameQueue DEF HandleEventReturns, SuccessReturns, OtherReturns,
     DestructorReturns, EventsDone, TimersDone, FunctorsDone, Goes, DelayConnect,
     EnterOther, Destroy, vars, loop
<1>9. ASSUME NEW i \in Attempts,
             \/ DestroyConnection(i) \/ HandleEvent(i) \/ HandleClose(i)
             \/ UserConnect(i) \/ DelayedConnect(i)
      PROVE  QueueFits'
  BY <1>9, SameQueue DEF DestroyConnection, HandleEvent, HandleClose,
     UserConnect, DelayedConnect, loop
<1>10. ASSUME NEW ready, NEW hang, Poll(ready, hang) PROVE QueueFits'
  BY <1>10, SameQueue DEF Poll
<1>11. QED
  BY <1>1, <1>2, <1>3, <1>4, <1>5, <1>6, <1>7, <1>8, <1>9, <1>10
     DEF Next, CallStep, StageStep, RunFunctor

\* A channel is freed by a functor, when no event is being handled.
LEMMA ResetChannelInv ==
  ASSUME Inv, QueueFits, ResetChannel
  PROVE  Inv'
<1>1. queue # <<>> /\ stage = "functors" /\ Head(queue).name = "resetChannel"
  BY DEF ResetChannel, Runs
<1>2. PICK i \in Attempts : i = Task
  BY <1>1, QueueTypes DEF Inv, Types
<1>3. state_[i] # "kConnecting"
  <2>1. Head(queue) \in Range(queue)
    BY <1>1, RangeOfTail DEF Inv, Types, LoopTypes
  <2>2. QED
    BY <1>1, <1>2, <2>1 DEF QueueFits, Finished, Task
<1>4. /\ UNCHANGED <<client, nextConnectorId_, connectors_, connections_, connect_,
                     state_, sockets, conn, destroyed_, answers, stage, stack,
                     delayed, events>>
      /\ channel_' = Set(channel_, i, "none")
      /\ queue' \in Seq([name : Tasks, id : Attempts])
  BY <1>1, <1>2, QueueTypes DEF ResetChannel, clocks, maps, conns, Inv, Types
<1>5. ConnectorTypes /\ ConnTypes /\ AttemptFits(i)
  BY DEF Inv, Types
<1>6. /\ channel_' \in [Attempts -> {"none", "added", "removed"}]
      /\ channel_'[i] = "none"
      /\ \A j \in Attempts \ {i} : channel_'[j] = channel_[j]
  BY <1>4, <1>5 DEF Set, ConnectorTypes
<1>7. ConnectorTypes' /\ ConnTypes'
  BY <1>4, <1>5, <1>6 DEF ConnectorTypes, ConnTypes
<1>8. OthersSteady(i)
  BY <1>4, <1>6 DEF OthersSteady, Steady
<1>9. AttemptFits(i)' /\ Kept(i)
  <2>1. SocketFits(i)'
    BY <1>3, <1>4, <1>5, <1>6 DEF AttemptFits, SocketFits
  <2>0. RefusedFits(i)'
    BY <1>4, <1>5, <1>6, RefusedStays
  <2>2. AnswerFits(i)'
    BY <1>4, <1>5 DEF AttemptFits, AnswerFits
  <2>3. (i >= nextConnectorId_ => Fresh(i))'
    BY <1>4, <1>5, <1>6 DEF AttemptFits, Fresh
  <2>4. (Open(i) => Held(i))' /\ Kept(i)
    BY <1>4, <1>5 DEF AttemptFits, Open, Held, Kept
  <2>5. QED
    BY <2>0, <2>1, <2>2, <2>3, <2>4 DEF AttemptFits
<1>10. \A j \in Attempts : AttemptFits(j)' /\ Kept(j)
  BY <1>8, <1>9, OneConcerned
<1>11. FramesFit'
  BY <1>4, <1>10, SameFrames DEF Inv, Types, ClientGoesOn
<1>12. hangups' = {} /\ handling' = None /\ revents' = revents
       /\ \A j \in Attempts : revents[j] = {}
  BY <1>1, <1>4, NothingPolled DEF events, Inv
<1>13. EventsFit'
  BY <1>12 DEF EventsFit
<1>14. Types'
  BY <1>4, <1>7, <1>12 DEF Inv, Types, LoopTypes, CountTypes
<1>15. ClientFits'
  BY <1>4 DEF Inv, ClientFits
<1>16. QED
  BY <1>10, <1>11, <1>13, <1>14, <1>15 DEF Inv

-----------------------------------------------------------------------------
LEMMA StepInv ==
  ASSUME Inv, QueueFits, [Next]_vars
  PROVE  Inv'
<1>1. CASE CallStep
  BY <1>1, FailuresInv, HandleWriteInv, HandleEventReturnsInv, SuccessReturnsInv,
     DownReturnsInv, OtherReturnsInv, DestroyConnectionInv, StopConnectorInv,
     DestructorReturnsInv
     DEF CallStep
<1>2. CASE StageStep
  BY <1>2, HandleEventInv, HandleCloseInv, GoesInv DEF StageStep
<1>3. CASE RunFunctor
  BY <1>3, FailuresInv, ResetChannelInv, ForceCloseInLoopInv, ConnectDestroyedInv
     DEF RunFunctor
<1>4. ASSUME NEW i \in Attempts,
             ConnectTimeoutCheck(i) \/ DelayedConnect(i) \/ UserConnect(i) \/ ForceClose(i)
      PROVE  Inv'
  BY <1>4, FailuresInv, ConnectInv, ForceCloseInv
<1>5. CASE DelayConnect \/ EnterOther \/ Destroy \/ UNCHANGED vars
  BY <1>5, DelayConnectInv, EnterOtherInv, DestroyInv, StutterInv
<1>6. QED
  BY <1>1, <1>2, <1>3, <1>4, <1>5, PollInv DEF Next

\* The inductive invariant: attempts, the calls under way, the events that are
\* still to be handled, the functors and the client agree.
THEOREM RecordsAgree == Spec => [](Inv /\ QueueFits)
<1>1. Init => QueueFits
  BY RangeOfEmpty DEF Init, QueueFits
<1>2. QED
  BY <1>1, InitInv, StepInv, StepQueueFits, PTL DEF Spec

\* connectComplete() finds its connector in the map of a client that exists.
THEOREM AnswersAreSafe == Spec => []AnswersReachClient
<1>1. Inv => AnswersReachClient
  BY DEF Inv, AttemptFits, AnswerFits, AnswersReachClient
<1>2. QED
  BY <1>1, RecordsAgree, PTL

\* Error, writability, timeout and stop() give one answer between them.
THEOREM AnswersAreSingle == Spec => []AnsweredOnce
<1>1. Inv => AnsweredOnce
  <2> SUFFICES ASSUME Inv, NEW i \in Attempts
               PROVE  /\ answers[i] <= 1
                      /\ answers[i] = 1 => i \notin connectors_ /\ state_[i] # "kConnecting"
    BY DEF AnsweredOnce
  <2>1. answers[i] \in {0, 1}
    BY DEF Inv, Types, ConnectorTypes
  <2>2. answers[i] <= 1
    BY <2>1
  <2>3. QED
    BY <2>2 DEF Inv, AttemptFits, AnswerFits
<1>2. QED
  BY <1>1, RecordsAgree, PTL

\* Every socket that a connector has made is watched, closed or a connection's, as its
\* connector's state says, or was refused at once and stays with an idle connector,
\* which the client keeps.
THEOREM NoSocketIsLost == Spec => []SocketsAccounted
<1>1. Inv => SocketsAccounted
  BY DEF Inv, AttemptFits, SocketFits, RefusedFits, SocketsAccounted
<1>2. QED
  BY <1>1, RecordsAgree, PTL

\* No channel is freed under its own handleEvent().
THEOREM ChannelsOutlive == Spec => []ChannelOutlivesEvent
<1>1. Inv => ChannelOutlivesEvent
  BY DEF Inv, EventsFit, ChannelOutlivesEvent
<1>2. QED
  BY <1>1, RecordsAgree, PTL

\* A connection that reports its end finds its client and itself in the map.
THEOREM ClosesAreSafe == Spec => []ClosesIntoClient
<1>1. Inv => ClosesIntoClient
  <2> SUFFICES ASSUME Inv, stack # <<>>, Reports
               PROVE  client # "gone" /\ Top.id \in connections_
    BY DEF ClosesIntoClient
  <2>1. Top.name = "down" /\ ~destroyed_[Top.id]
    BY DEF Reports
  <2>2. Held(Top.id)
    BY <2>1, TopFits DEF FrameFits, Inv, Types
  <2>3. Top.id \in connections_
    BY <2>1, <2>2 DEF Held
  <2>4. QED
    BY <2>3 DEF Inv, ClientFits
<1>2. QED
  BY <1>1, RecordsAgree, PTL

-----------------------------------------------------------------------------
(* Each connection's life, from the attempt that makes it to its end. *)

\* A connection that is not established yet is in connectSuccess(), under which
\* nothing else is called but in the same event.
CallFits(i) ==
  conn[i] = "kConnecting" =>
    /\ i \in connections_
    /\ stage = "events"
    /\ stack # <<>> /\ stack[1] = Frame("success", i)
\* A connection in the map is known, and the ones that have not begun to close are there.
MapFits(i) ==
  /\ conn[i] = "kConnected" => i \in connections_
  /\ i \in connections_ => conn[i] # "none"
\* connectDestroyed() is queued for connections that have been taken out of the map.
LetGo ==
  \A x \in Range(queue) :
    x.name = "connectDestroyed" => x.id \notin connections_ /\ conn[x.id] = "kDisconnected"
OwnerFits == (\A i \in Attempts : CallFits(i) /\ MapFits(i)) /\ LetGo

LivesStep(i) == [LifeOf(i)!Next]_(LifeOf(i)!vars)
LivesKept == LivesGoOn /\ OwnerFits'

LEMMA QueuedIsAttempt ==
  ASSUME LoopTypes, NEW x \in Range(queue)
  PROVE  x.id \in Attempts
<1>1. x \in [name : Tasks, id : Attempts]
  <2>1. PICK k \in DOMAIN queue : x = queue[k]
    BY DEF Range
  <2>2. k \in 1 .. Len(queue)
    BY LenProperties DEF LoopTypes
  <2>3. QED
    BY <2>1, <2>2, ElementOfSeq DEF LoopTypes
<1>2. QED
  BY <1>1

\* What a step of others leaves as it is.
SameLife(i) ==
  /\ conn'[i] = conn[i] /\ destroyed_'[i] = destroyed_[i]
  /\ i \in connections_' <=> i \in connections_

LEMMA SameLifeStep ==
  ASSUME NEW i \in Attempts, SameLife(i)
  PROVE  LivesStep(i)
BY DEF SameLife, LivesStep, LifeOf!vars

LEMMA SameMapFits ==
  ASSUME NEW i \in Attempts, MapFits(i), SameLife(i)
  PROVE  MapFits(i)'
BY DEF MapFits, SameLife

\* A step that concerns one connection.
LEMMA OneLife ==
  ASSUME OwnerFits, NEW i \in Attempts, LivesStep(i), MapFits(i)', LetGo',
         \A j \in Attempts : CallFits(j)',
         \A j \in Attempts \ {i} : SameLife(j)
  PROVE  LivesKept
<1>1. ASSUME NEW j \in Attempts PROVE LivesStep(j) /\ MapFits(j)'
  BY SameLifeStep, SameMapFits DEF OwnerFits
<1>2. LivesGoOn
  BY <1>1 DEF LivesGoOn, LivesStep
<1>3. OwnerFits'
  BY <1>1 DEF OwnerFits
<1>4. QED
  BY <1>2, <1>3 DEF LivesKept

\* Nothing but the report of a closed connection queues connectDestroyed().
NoneLetGo == \A x \in Range(queue') : x \in Range(queue) \/ x.name # "connectDestroyed"

LEMMA NoneLetGoIf ==
  ASSUME NEW before \in Seq([name : Tasks, id : Attempts]),
         Range(before) \subseteq Range(queue),
         \/ queue' = before
         \/ \E task \in Tasks \ {"connectDestroyed"}, i \in Attempts : After(before, task, i)
  PROVE  NoneLetGo
<1>1. CASE queue' = before
  BY <1>1 DEF NoneLetGo
<1>2. ASSUME NEW task \in Tasks \ {"connectDestroyed"}, NEW i \in Attempts,
             After(before, task, i)
      PROVE  NoneLetGo
  <2>1. PICK f \in [name : Tasks, id : Attempts] : f = Frame(task, i)
    BY DEF Frame
  <2>2. f.name # "connectDestroyed" /\ queue' = Append(before, f)
    BY <1>2, <2>1 DEF Frame, After
  <2>3. Range(queue') = Range(before) \cup {f}
    <3> DEFINE Ts == [name : Tasks, id : Attempts]
    <3>1. before \in Seq(Ts) /\ f \in Ts
      OBVIOUS
    <3> HIDE DEF Ts
    <3>2. QED
      BY <2>2, <3>1, RangeOfAppend
  <2>4. QED
    BY <2>2, <2>3 DEF NoneLetGo
<1>3. QED
  BY <1>1, <1>2

\* connectSuccess() stays under way.
CallStays ==
  stack # <<>> /\ stack[1].name = "success" /\ stage = "events" =>
    stage' = stage /\ stack' # <<>> /\ stack'[1] = stack[1]

LEMMA CallStaysIf ==
  ASSUME LoopTypes,
         \/ stack = <<>>
         \/ stage # "events"
         \/ UNCHANGED <<stage, stack>>
         \/ stage' = stage /\ stack # <<>> /\ stack' = Below /\ Top.name # "success"
  PROVE  CallStays
<1>1. CASE stack = <<>> \/ stage # "events" \/ UNCHANGED <<stage, stack>>
  BY <1>1 DEF CallStays
<1>2. CASE stage' = stage /\ stack # <<>> /\ stack' = Below /\ Top.name # "success"
  <2>1. /\ Len(stack) \in Nat \ {0}
        /\ Len(stack') = Len(stack) - 1
        /\ \A k \in 1 .. Len(stack) - 1 : stack'[k] = stack[k]
    BY <1>2, EmptySeq, LenProperties, RangeOfFront DEF LoopTypes, Below
  <2>2. CASE Len(stack) = 1
    BY <1>2, <2>2 DEF CallStays, Top
  <2>3. CASE Len(stack) # 1
    <3>1. 1 \in 1 .. Len(stack) - 1 /\ Len(stack') # 0
      BY <2>1, <2>3
    <3>2. stack' # <<>>
      BY <3>1, EmptySeq
    <3>3. QED
      BY <1>2, <2>1, <3>1, <3>2 DEF CallStays
  <2>4. QED
    BY <2>2, <2>3
<1>3. QED
  BY <1>1, <1>2

LEMMA AllSame ==
  ASSUME Inv, OwnerFits, NoneLetGo, CallStays,
         UNCHANGED <<conn, destroyed_, connections_>>
  PROVE  LivesKept
<1>1. ASSUME NEW i \in Attempts PROVE LivesStep(i) /\ MapFits(i)'
  BY SameLifeStep, SameMapFits DEF OwnerFits, SameLife
<1>2. ASSUME NEW i \in Attempts PROVE CallFits(i)'
  <2>1. CallFits(i)
    BY DEF OwnerFits
  <2>2. Frame("success", i).name = "success"
    BY DEF Frame
  <2>3. QED
    BY <2>1, <2>2 DEF CallFits, CallStays
<1>3. LetGo'
  BY DEF OwnerFits, LetGo, NoneLetGo
<1>4. QED
  BY <1>1, <1>2, <1>3 DEF LivesKept, LivesGoOn, LivesStep, OwnerFits

\* Where no call of connectSuccess() can be under way, every connection is established.
LEMMA NoneConnecting ==
  ASSUME OwnerFits, stack = <<>> \/ stage # "events" \/ stack[1].name # "success"
  PROVE  \A i \in Attempts : conn[i] # "kConnecting"
<1>1. \A i : Frame("success", i).name = "success"
  BY DEF Frame
<1>2. QED
  BY <1>1 DEF OwnerFits, CallFits

\* What is left of the functors, while a connection changes its state.
LEMMA LetGoStays ==
  ASSUME Inv, OwnerFits, NoneLetGo, connections_' \subseteq connections_,
         \A j \in Attempts : conn[j] = "kDisconnected" => conn'[j] = "kDisconnected"
  PROVE  LetGo'
<1>1. ASSUME NEW x \in Range(queue'), x.name = "connectDestroyed"
      PROVE  x.id \notin connections_' /\ conn'[x.id] = "kDisconnected"
  <2>1. x \in Range(queue)
    BY <1>1 DEF NoneLetGo
  <2>2. x.id \in Attempts
    BY <2>1, QueuedIsAttempt DEF Inv, Types
  <2>3. x.id \notin connections_ /\ conn[x.id] = "kDisconnected"
    BY <1>1, <2>1 DEF OwnerFits, LetGo
  <2>4. QED
    BY <2>2, <2>3
<1>2. QED
  BY <1>1 DEF LetGo

\* connectSuccess() makes the connection and keeps it.
LEMMA SucceedLives ==
  ASSUME Inv, OwnerFits, NEW i \in Attempts, ConnectSucceeded(i), connect_[i],
         state_[i] = "kConnecting", stack = <<>>, stage = "events",
         UNCHANGED <<stage, destroyed_>>
  PROVE  LivesKept
<1>1. /\ connections_' = connections_ \cup {i}
      /\ conn' = [conn EXCEPT ![i] = "kConnecting"]
      /\ stack' = <<Frame("success", i)>>
      /\ After(queue, "resetChannel", i)
  BY DEF ConnectSucceeded, RemoveAndResetChannel, Call, Set
<1>2. conn[i] = "none"
  BY DEF Inv, AttemptFits, SocketFits
<1>3. conn'[i] = "kConnecting" /\ \A j \in Attempts \ {i} : SameLife(j)
  BY <1>1 DEF SameLife, Inv, Types, ConnTypes
<1>4. LifeOf(i)!Adopt
  BY <1>1, <1>2, <1>3 DEF LifeOf!Adopt
<1>5. LivesStep(i)
  BY <1>4 DEF LivesStep, LifeOf!Next
<1>6. MapFits(i)'
  BY <1>3 DEF MapFits
<1>7. ASSUME NEW j \in Attempts PROVE CallFits(j)'
  <2>1. CASE j = i
    BY <1>1, <2>1 DEF CallFits
  <2>2. CASE j # i
    BY <1>3, <2>2, NoneConnecting DEF SameLife, CallFits
  <2>3. QED
    BY <2>1, <2>2
<1>8. LetGo'
  <2>1. NoneLetGo
    <3>1. queue \in Seq([name : Tasks, id : Attempts])
      BY DEF Inv, Types, LoopTypes
    <3>2. "resetChannel" \in Tasks \ {"connectDestroyed"}
      BY DEF Tasks
    <3>3. QED
      BY <1>1, <3>1, <3>2, NoneLetGoIf
  <2>2. ASSUME NEW x \in Range(queue'), x.name = "connectDestroyed"
        PROVE  x.id \notin connections_' /\ conn'[x.id] = "kDisconnected"
    <3>1. x \in Range(queue)
      BY <2>1, <2>2 DEF NoneLetGo
    <3>2. x.id \in Attempts
      BY <3>1, QueuedIsAttempt DEF Inv, Types
    <3>3. x.id \notin connections_ /\ conn[x.id] = "kDisconnected"
      BY <2>2, <3>1 DEF OwnerFits, LetGo
    <3>4. x.id # i
      BY <1>2, <3>3
    <3>5. QED
      BY <1>3, <3>2, <3>3, <3>4 DEF SameLife
  <2>3. QED
    BY <2>2 DEF LetGo
<1>9. QED
  BY <1>3, <1>5, <1>6, <1>7, <1>8, OneLife

\* connectEstablished()
LEMMA EstablishLives ==
  ASSUME Inv, OwnerFits, SuccessReturns
  PROVE  LivesKept
<1>1. /\ stack # <<>> /\ Top.name = "success"
      /\ conn' = [conn EXCEPT ![Top.id] = "kConnected"]
      /\ UNCHANGED <<stage, queue, connections_, destroyed_>>
  BY DEF SuccessReturns, Set, maps
<1>2. Len(stack) = 1 /\ Top.id \in Attempts /\ conn[Top.id] = "kConnecting"
  BY <1>1, TopFits DEF FrameFits, Inv, Types
<1>3. PICK i \in Attempts : i = Top.id
  BY <1>2
<1>4. stack[1].id = i
  BY <1>2, <1>3 DEF Top
<1>5. conn[i] = "kConnecting" /\ i \in connections_
  BY <1>2, <1>3 DEF OwnerFits, CallFits
<1>6. conn'[i] = "kConnected" /\ \A j \in Attempts \ {i} : SameLife(j)
  BY <1>1, <1>3 DEF SameLife, Inv, Types, ConnTypes
<1>7. LifeOf(i)!Establish
  BY <1>1, <1>5, <1>6 DEF LifeOf!Establish
<1>8. LivesStep(i)
  BY <1>7 DEF LivesStep, LifeOf!Next
<1>9. MapFits(i)'
  BY <1>1, <1>5 DEF MapFits, OwnerFits
<1>10. ASSUME NEW j \in Attempts PROVE conn'[j] # "kConnecting"
  <2>1. CASE j = i
    BY <1>6, <2>1
  <2>2. CASE j # i
    <3>1. Frame("success", j).id = j
      BY DEF Frame
    <3>2. conn[j] # "kConnecting"
      BY <1>4, <2>2, <3>1 DEF OwnerFits, CallFits
    <3>3. QED
      BY <1>6, <2>2, <3>2 DEF SameLife
  <2>3. QED
    BY <2>1, <2>2
<1>11. LetGo'
  <2>1. \A j \in Attempts : conn[j] = "kDisconnected" => conn'[j] = "kDisconnected"
    BY <1>5, <1>6 DEF SameLife
  <2>2. NoneLetGo
    BY <1>1 DEF NoneLetGo
  <2>3. QED
    BY <1>1, <2>1, <2>2, LetGoStays
<1>12. QED
  BY <1>6, <1>8, <1>9, <1>10, <1>11, OneLife DEF CallFits

\* A connection moves on, and its place in the map is not concerned: forceClose(), or
\* handleClose() and forceCloseInLoop().
LEMMA MoveLives ==
  ASSUME Inv, OwnerFits, NoneLetGo, NEW i \in Attempts,
         NEW state \in {"kDisconnecting", "kDisconnected"}, Connected(i),
         state = "kDisconnecting" => conn[i] = "kConnected",
         conn' = Set(conn, i, state),
         stack = <<>> \/ UNCHANGED stack, UNCHANGED <<stage, connections_, destroyed_>>
  PROVE  LivesKept
<1>1. conn'[i] = state /\ \A j \in Attempts \ {i} : SameLife(j)
  BY DEF Set, SameLife, Inv, Types, ConnTypes
<1>2. i \in connections_ \/ destroyed_[i]
  BY DEF Inv, AttemptFits, Open, Held, Connected
<1>3. conn[i] = "kConnected" => i \in connections_
  BY DEF OwnerFits, MapFits
<1>4. LivesStep(i)
  <2>1. CASE state = "kDisconnecting"
    <3>1. LifeOf(i)!ForceClose
      BY <1>1, <1>3, <2>1 DEF LifeOf!ForceClose
    <3>2. QED
      BY <3>1 DEF LivesStep, LifeOf!Next
  <2>2. CASE state = "kDisconnected"
    <3>1. conn[i] # "none" /\ conn[i] \in {"kConnected", "kDisconnecting"}
      BY DEF Connected
    <3>2. LifeOf(i)!Close
      BY <1>1, <1>2, <2>2, <3>1 DEF LifeOf!Close, LifeOf!Open
    <3>3. QED
      BY <3>2 DEF LivesStep, LifeOf!Next
  <2>3. QED
    BY <2>1, <2>2
<1>5. MapFits(i)'
  BY <1>1 DEF MapFits
<1>6. ASSUME NEW j \in Attempts PROVE CallFits(j)'
  <2>1. CASE j = i
    BY <1>1, <2>1 DEF CallFits
  <2>2. CASE j # i
    <3>1. CallFits(j) /\ SameLife(j)
      BY <1>1, <2>2 DEF OwnerFits
    <3>2. QED
      BY <3>1 DEF CallFits, SameLife
  <2>3. QED
    BY <2>1, <2>2
<1>7. LetGo'
  <2>1. \A j \in Attempts : conn[j] = "kDisconnected" => conn'[j] = "kDisconnected"
    BY <1>1 DEF SameLife, Connected
  <2>2. QED
    BY <2>1, LetGoStays
<1>8. QED
  BY <1>1, <1>4, <1>5, <1>6, <1>7, OneLife

\* removeConnection()
LEMMA DownLives ==
  ASSUME Inv, OwnerFits, DownReturns
  PROVE  LivesKept
<1>1. /\ UNCHANGED <<stage, conn, destroyed_>>
      /\ stack # <<>> /\ Top.name = "down" /\ ~destroyed_[Top.id]
      /\ connections_' = connections_ \ {Top.id}
      /\ After(queue, "connectDestroyed", Top.id)
  BY DEF DownReturns, Reports, QueueInLoop, conns
<1>2. /\ Len(stack) = 1 /\ Top.id \in Attempts
      /\ conn[Top.id] = "kDisconnected" /\ Held(Top.id)
  BY <1>1, TopFits DEF FrameFits, Inv, Types
<1>3. PICK i \in Attempts : i = Top.id
  BY <1>2
<1>4. conn[i] = "kDisconnected" /\ i \in connections_ /\ destroyed_[i] = FALSE
  BY <1>1, <1>2, <1>3 DEF Held, Inv, Types, ConnTypes
<1>5. \A j \in Attempts \ {i} : SameLife(j)
  BY <1>1, <1>3 DEF SameLife
<1>6. LifeOf(i)!Forget
  BY <1>1, <1>3, <1>4 DEF LifeOf!Forget
<1>7. LivesStep(i)
  BY <1>6 DEF LivesStep, LifeOf!Next
<1>8. MapFits(i)'
  BY <1>1, <1>3, <1>4 DEF MapFits
<1>9. ASSUME NEW j \in Attempts PROVE conn'[j] # "kConnecting"
  <2>1. stack[1].name # "success"
    BY <1>1, <1>2 DEF Top
  <2>2. QED
    BY <1>1, <2>1, NoneConnecting
<1>10. LetGo'
  <2>1. PICK f \in [name : Tasks, id : Attempts] : f = Frame("connectDestroyed", i)
    BY DEF Frame, Tasks
  <2>2. Range(queue') = Range(queue) \cup {f}
    <3> DEFINE Ts == [name : Tasks, id : Attempts]
    <3>1. queue \in Seq(Ts) /\ f \in Ts
      BY DEF Inv, Types, LoopTypes
    <3>2. queue' = Append(queue, f)
      BY <1>1, <1>3, <2>1 DEF After
    <3> HIDE DEF Ts
    <3>3. QED
      BY <3>1, <3>2, RangeOfAppend
  <2>3. ASSUME NEW x \in Range(queue'), x.name = "connectDestroyed"
        PROVE  x.id \notin connections_' /\ conn'[x.id] = "kDisconnected"
    <3>1. CASE x = f
      <4>1. x.id = i
        BY <2>1, <3>1 DEF Frame
      <4>2. QED
        BY <1>1, <1>3, <1>4, <4>1
    <3>2. CASE x \in Range(queue)
      BY <1>1, <2>3, <3>2 DEF OwnerFits, LetGo
    <3>3. QED
      BY <2>2, <3>1, <3>2
  <2>4. QED
    BY <2>3 DEF LetGo
<1>11. QED
  BY <1>5, <1>7, <1>8, <1>9, <1>10, OneLife DEF CallFits

\* connectDestroyed() of a connection that is not in the map any more
LEMMA DestroyLives ==
  ASSUME Inv, OwnerFits, NoneLetGo, NEW i \in Attempts, ConnDestroyed(i),
         conn[i] # "none", stack = <<>> \/ stage # "events",
         i \notin connections_', connections_' \subseteq connections_,
         connections_ \subseteq connections_' \cup {i}
  PROVE  LivesKept
<1>1. /\ destroyed_' = [destroyed_ EXCEPT ![i] = TRUE]
      /\ conn' = IF conn[i] = "kConnected"
                 THEN [conn EXCEPT ![i] = "kDisconnected"] ELSE conn
  BY DEF ConnDestroyed, MarkDestroyed, Set
<1>2. /\ destroyed_'[i] = TRUE
      /\ conn'[i] = IF conn[i] = "kConnected" THEN "kDisconnected" ELSE conn[i]
      /\ \A j \in Attempts \ {i} : SameLife(j)
  BY <1>1 DEF SameLife, Inv, Types, ConnTypes
<1>3. \A j \in Attempts : conn[j] # "kConnecting"
  BY NoneConnecting
<1>4. LifeOf(i)!Destroy
  BY <1>2, <1>3 DEF LifeOf!Destroy
<1>5. LivesStep(i)
  BY <1>4 DEF LivesStep, LifeOf!Next
<1>6. MapFits(i)'
  BY <1>2 DEF MapFits
<1>7. ASSUME NEW j \in Attempts PROVE conn'[j] # "kConnecting"
  BY <1>2, <1>3 DEF SameLife
<1>8. LetGo'
  <2>1. \A j \in Attempts : conn[j] = "kDisconnected" => conn'[j] = "kDisconnected"
    BY <1>2 DEF SameLife
  <2>2. QED
    BY <2>1, LetGoStays
<1>9. QED
  BY <1>2, <1>5, <1>6, <1>7, <1>8, OneLife DEF CallFits

\* A connector that fails makes no connection.
LEMMA FailureLives ==
  ASSUME Inv, OwnerFits, NEW i \in Attempts,
         NEW before \in Seq([name : Tasks, id : Attempts]),
         Range(before) \subseteq Range(queue), FailIfConnecting(i, before),
         stack = <<>>, UNCHANGED <<conn, destroyed_>>
  PROVE  LivesKept
<1>1. connections_' = connections_
  BY DEF FailIfConnecting, ConnectFailed, Unconcerned
<1>2. queue' = before \/ After(before, "resetChannel", i)
  BY DEF FailIfConnecting, ConnectFailed, Unconcerned, RemoveAndResetChannel
<1>3. NoneLetGo
  <2>1. "resetChannel" \in Tasks \ {"connectDestroyed"}
    BY DEF Tasks
  <2>2. QED
    BY <1>2, <2>1, NoneLetGoIf
<1>4. CallStays
  BY DEF CallStays
<1>5. QED
  BY <1>1, <1>3, <1>4, AllSame

LEMMA HandlersLive ==
  ASSUME Inv, OwnerFits, HandleError \/ HandleWrite
  PROVE  LivesKept
<1>1. /\ handling \in Attempts /\ stack = <<>> /\ stage = "events"
      /\ UNCHANGED <<stage, destroyed_, connect_>>
  BY DEF HandleError, HandleWrite, Handler, Inv, Types, LoopTypes, EventsFit
<1>2. queue \in Seq([name : Tasks, id : Attempts])
  BY DEF Inv, Types, LoopTypes
<1>3. CASE FailIfConnecting(handling, queue) /\ UNCHANGED conn
  BY <1>1, <1>2, <1>3, FailureLives
<1>4. CASE state_[handling] = "kConnecting" /\ ConnectSucceeded(handling)
  <2>1. CASE connect_[handling]
    BY <1>1, <1>4, <2>1, SucceedLives
  <2>2. CASE ~connect_[handling]
    <3>1. UNCHANGED <<connections_, conn>> /\ After(queue, "resetChannel", handling)
      BY <1>4, <2>2 DEF ConnectSucceeded, RemoveAndResetChannel
    <3>2. "resetChannel" \in Tasks \ {"connectDestroyed"}
      BY DEF Tasks
    <3>3. NoneLetGo
      BY <1>1, <1>2, <3>1, <3>2, NoneLetGoIf
    <3>4. CallStays
      BY <1>1 DEF CallStays
    <3>5. QED
      BY <1>1, <3>1, <3>3, <3>4, AllSame
  <2>3. QED
    BY <2>1, <2>2
<1>5. QED
  BY <1>3, <1>4 DEF HandleError, HandleWrite

LEMMA FunctorLives ==
  ASSUME Inv, OwnerFits, RunFunctor
  PROVE  LivesKept
<1>1. queue # <<>> /\ stage = "functors" /\ stack = <<>>
  BY DEF RunFunctor, StopInLoop, ResetChannel, ForceCloseInLoop, ConnectDestroyed, Runs, Idle
<1>2. /\ Head(queue) \in Range(queue) /\ Task \in Attempts
      /\ Tail(queue) \in Seq([name : Tasks, id : Attempts])
      /\ Range(Tail(queue)) \subseteq Range(queue)
  BY <1>1, QueueTypes, RangeOfTail DEF Inv, Types, LoopTypes
<1>3. CASE StopInLoop
  BY <1>1, <1>2, <1>3, FailureLives DEF StopInLoop, conns
<1>4. CASE ResetChannel \/ ForceCloseInLoop \/ ConnectDestroyed
  <2>1. queue' = Tail(queue)
    BY <1>4 DEF ResetChannel, ForceCloseInLoop, ConnectDestroyed
  <2>2. NoneLetGo
    BY <1>2, <2>1 DEF NoneLetGo
  <2>3. CallStays
    BY <1>1 DEF CallStays
  <2>4. CASE ResetChannel
    BY <2>2, <2>3, <2>4, AllSame DEF ResetChannel, conns, maps
  <2>5. CASE ForceCloseInLoop
    <3>1. UNCHANGED <<stage, connections_, destroyed_>>
      BY <2>5 DEF ForceCloseInLoop, maps
    <3>2. CASE conn[Task] = "kDisconnecting"
      <4>1. conn' = Set(conn, Task, "kDisconnected") /\ Connected(Task)
        BY <2>5, <3>2 DEF ForceCloseInLoop, Connected
      <4>2. QED
        BY <1>1, <1>2, <2>2, <3>1, <4>1, MoveLives
    <3>3. CASE conn[Task] # "kDisconnecting"
      BY <2>2, <2>3, <2>5, <3>1, <3>3, AllSame DEF ForceCloseInLoop
    <3>4. QED
      BY <3>2, <3>3
  <2>6. CASE ConnectDestroyed
    <3>1. ConnDestroyed(Task) /\ connections_' = connections_
      BY <2>6 DEF ConnectDestroyed, maps
    <3>2. Task \notin connections_ /\ conn[Task] = "kDisconnected"
      BY <1>2, <2>6 DEF ConnectDestroyed, Runs, Task, OwnerFits, LetGo
    <3>3. QED
      BY <1>1, <1>2, <2>2, <3>1, <3>2, DestroyLives
  <2>7. QED
    BY <1>4, <2>4, <2>5, <2>6
<1>5. QED
  BY <1>3, <1>4 DEF RunFunctor

LEMMA ConnectionLives ==
  ASSUME Inv, OwnerFits, NEW i \in Attempts,
         HandleClose(i) \/ ForceClose(i) \/ DestroyConnection(i)
  PROVE  LivesKept
<1>1. queue \in Seq([name : Tasks, id : Attempts])
  BY DEF Inv, Types, LoopTypes
<1>2. CASE HandleClose(i)
  <2>1. /\ conn' = Set(conn, i, "kDisconnected") /\ stack = <<>> /\ i \in hangups
        /\ UNCHANGED <<stage, queue, connections_, destroyed_>>
    BY <1>2 DEF HandleClose, Idle, maps
  <2>2. Connected(i)
    BY <2>1 DEF Inv, EventsFit
  <2>3. NoneLetGo
    BY <2>1 DEF NoneLetGo
  <2>4. QED
    BY <2>1, <2>2, <2>3, MoveLives
<1>3. CASE ForceClose(i)
  <2>1. /\ conn[i] = "kConnected" /\ conn' = Set(conn, i, "kDisconnecting")
        /\ After(queue, "forceCloseInLoop", i)
        /\ UNCHANGED <<stage, stack, connections_, destroyed_>>
    BY <1>3 DEF ForceClose, QueueInLoop, maps
  <2>2. "forceCloseInLoop" \in Tasks \ {"connectDestroyed"}
    BY DEF Tasks
  <2>3. NoneLetGo
    BY <1>1, <2>1, <2>2, NoneLetGoIf
  <2>4. Connected(i)
    BY <2>1 DEF Connected
  <2>5. QED
    BY <2>1, <2>3, <2>4, MoveLives
<1>4. CASE DestroyConnection(i)
  <2>1. /\ ConnDestroyed(i) /\ i \in connections_ /\ connections_' = connections_ \ {i}
        /\ queue' = queue
    BY <1>4 DEF DestroyConnection
  <2>2. stage # "events"
    BY <1>4, TopFits DEF DestroyConnection, InDestructor, FrameFits, Late, Inv, Types
  <2>3. conn[i] # "none"
    BY <2>1 DEF OwnerFits, MapFits
  <2>4. NoneLetGo
    BY <2>1 DEF NoneLetGo
  <2>5. QED
    BY <2>1, <2>2, <2>3, <2>4, DestroyLives
<1>5. QED
  BY <1>2, <1>3, <1>4

\* Everything else concerns the calls, the connectors and the timers.
Elsewhere ==
  \/ \E ready \in [Attempts -> SUBSET {"ERR", "OUT"}], hang \in SUBSET Attempts :
       Poll(ready, hang)
  \/ HandleEventReturns \/ OtherReturns \/ DestructorReturns
  \/ EventsDone \/ TimersDone \/ FunctorsDone
  \/ \E i \in Attempts :
       \/ HandleEvent(i) \/ StopConnector(i) \/ DelayedConnect(i) \/ UserConnect(i)
  \/ DelayConnect \/ EnterOther \/ Destroy
  \/ UNCHANGED vars

LEMMA ElsewhereLives ==
  ASSUME Inv, OwnerFits, Elsewhere
  PROVE  LivesKept
<1>1. UNCHANGED <<conn, destroyed_, connections_>>
  BY DEF Elsewhere, Poll, HandleEventReturns, OtherReturns, DestructorReturns, EventsDone,
         TimersDone, FunctorsDone, Goes, HandleEvent, StopConnector, DelayedConnect,
         UserConnect, DelayConnect, EnterOther, Destroy, vars, maps, conns
<1>2. CallStays
  <2>1. \/ stack = <<>> \/ stage # "events" \/ UNCHANGED <<stage, stack>>
        \/ stage' = stage /\ stack # <<>> /\ stack' = Below /\ Top.name # "success"
    BY DEF Elsewhere, Poll, HandleEventReturns, OtherReturns, DestructorReturns, EventsDone,
           TimersDone, FunctorsDone, Goes, HandleEvent, StopConnector, DelayedConnect,
           UserConnect, DelayConnect, EnterOther, Destroy, vars, loop, Idle, InDestructor
  <2>2. QED
    BY <2>1, CallStaysIf DEF Inv, Types
<1>3. NoneLetGo
  <2>1. CASE \E i \in Attempts : StopConnector(i)
    <3>1. PICK i \in Attempts : After(queue, "stopInLoop", i)
      BY <2>1 DEF StopConnector, QueueInLoop
    <3>2. "stopInLoop" \in Tasks \ {"connectDestroyed"}
      BY DEF Tasks
    <3>3. queue \in Seq([name : Tasks, id : Attempts])
      BY DEF Inv, Types, LoopTypes
    <3>4. QED
      BY <3>1, <3>2, <3>3, NoneLetGoIf
  <2>2. CASE ~\E i \in Attempts : StopConnector(i)
    <3>1. queue' = queue
      BY <2>2
      DEF Elsewhere, Poll, HandleEventReturns, OtherReturns, DestructorReturns, EventsDone,
          TimersDone, FunctorsDone, Goes, HandleEvent, DelayedConnect, UserConnect,
          DelayConnect, EnterOther, Destroy, vars, loop
    <3>2. QED
      BY <3>1 DEF NoneLetGo
  <2>3. QED
    BY <2>1, <2>2
<1>4. QED
  BY <1>1, <1>2, <1>3, AllSame

LEMMA StepLives ==
  ASSUME Inv, OwnerFits, [Next]_vars
  PROVE  LivesKept
<1>1. CASE Elsewhere
  BY <1>1, ElsewhereLives
<1>2. CASE HandleError \/ HandleWrite
  BY <1>2, HandlersLive
<1>3. CASE RunFunctor
  BY <1>3, FunctorLives
<1>4. CASE SuccessReturns \/ DownReturns
  BY <1>4, EstablishLives, DownLives
<1>5. CASE \E i \in Attempts : HandleClose(i) \/ ForceClose(i) \/ DestroyConnection(i)
  BY <1>5, ConnectionLives
<1>6. ASSUME NEW i \in Attempts, ConnectTimeoutCheck(i)
      PROVE  LivesKept
  <2>1. queue \in Seq([name : Tasks, id : Attempts])
    BY DEF Inv, Types, LoopTypes
  <2>2. FailIfConnecting(i, queue) /\ stack = <<>> /\ UNCHANGED <<conn, destroyed_>>
    BY <1>6 DEF ConnectTimeoutCheck, Idle, conns
  <2>3. QED
    BY <2>1, <2>2, FailureLives
<1>7. QED
  BY <1>1, <1>2, <1>3, <1>4, <1>5, <1>6
  DEF Next, CallStep, StageStep, Elsewhere

\* The client's connections live as ConnectionLife says, like those of a server: each is
\* kept before it is established, which happens in the event that made it, is in the map
\* until it has reported its end or has been destroyed, and is destroyed outside the map.
THEOREM ConnectionsLive == Spec => AreConnectionLives
<1>1. Init => LivesBegin /\ OwnerFits
  <2> SUFFICES ASSUME Init PROVE LivesBegin /\ OwnerFits
    OBVIOUS
  <2>1. ASSUME NEW i \in Attempts
        PROVE  LifeOf(i)!Init /\ CallFits(i) /\ MapFits(i)
    <3>1. conn[i] = "none" /\ destroyed_[i] = FALSE /\ i \notin connections_
      BY DEF Init
    <3>2. QED
      BY <3>1 DEF LifeOf!Init, CallFits, MapFits
  <2>2. LetGo
    BY RangeOfEmpty DEF Init, LetGo
  <2>3. QED
    BY <2>1, <2>2 DEF LivesBegin, OwnerFits
<1>2. Inv /\ OwnerFits /\ [Next]_vars => OwnerFits' /\ [LivesGoOn]_vars
  BY StepLives DEF LivesKept
<1>3. QED
  BY <1>1, <1>2, RecordsAgree, PTL DEF Spec, AreConnectionLives
=============================================================================
