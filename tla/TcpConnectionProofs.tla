------------------------ MODULE TcpConnectionProofs -------------------------
(***************************************************************************)
(* Theorems about TcpConnection, for every capacity of its buffer and any  *)
(* number of bytes sent.                                                   *)
(***************************************************************************)
EXTENDS TcpConnection, Functions, SequenceTheorems, TLAPS

-----------------------------------------------------------------------------
(* What the operators on sequences do to the range of a queue or a stack. *)

\* push_back() adds the pushed functor to the queue's elements, nothing else.
LEMMA RangeOfAppend ==
  ASSUME NEW S, NEW s \in Seq(S), NEW x \in S
  PROVE  Range(Append(s, x)) = Range(s) \cup {x}
<1>1. /\ Append(s, x) \in Seq(S)
      /\ Len(Append(s, x)) = Len(s) + 1
      /\ \A i \in 1 .. Len(s) : Append(s, x)[i] = s[i]
      /\ Append(s, x)[Len(s) + 1] = x
  BY AppendProperties
<1>2. /\ DOMAIN Append(s, x) = 1 .. (Len(s) + 1)
      /\ DOMAIN s = 1 .. Len(s)
      /\ Len(s) \in Nat
  BY <1>1, LenProperties
<1>3. QED
  BY <1>1, <1>2 DEF Range

\* The empty vector has no elements.
LEMMA RangeOfEmpty == Range(<<>>) = {}
BY DEF Range

\* The functor at the front, and those behind it, are what the queue holds.
LEMMA RangeOfTail ==
  ASSUME NEW S, NEW s \in Seq(S), s # <<>>
  PROVE  /\ Head(s) \in Range(s)
         /\ Range(s) = {Head(s)} \cup Range(Tail(s))
<1>1. /\ Head(s) = s[1]
      /\ Tail(s) \in Seq(S)
      /\ Len(Tail(s)) = Len(s) - 1
      /\ \A i \in 1 .. Len(Tail(s)) : Tail(s)[i] = s[i + 1]
  BY HeadTailProperties
<1>2. /\ Len(s) \in Nat \ {0}
      /\ DOMAIN s = 1 .. Len(s)
      /\ DOMAIN Tail(s) = 1 .. Len(s) - 1
  BY <1>1, EmptySeq, LenProperties
<1>3. Head(s) \in Range(s) /\ Range(Tail(s)) \subseteq Range(s)
  BY <1>1, <1>2 DEF Range
<1>4. ASSUME NEW i \in 1 .. Len(s), i # 1
      PROVE  s[i] \in Range(Tail(s))
  <2>1. i - 1 \in 1 .. Len(s) - 1 /\ s[i] = Tail(s)[i - 1]
    BY <1>1, <1>2, <1>4
  <2>2. QED
    BY <1>2, <2>1 DEF Range
<1>5. QED
  BY <1>1, <1>2, <1>3, <1>4 DEF Range

\* Popping a call leaves the calls below it.
LEMMA RangeOfFront ==
  ASSUME NEW S, NEW s \in Seq(S), s # <<>>
  PROVE  /\ s[Len(s)] \in Range(s)
         /\ SubSeq(s, 1, Len(s) - 1) \in Seq(S)
         /\ Len(SubSeq(s, 1, Len(s) - 1)) = Len(s) - 1
         /\ \A i \in 1 .. Len(s) - 1 : SubSeq(s, 1, Len(s) - 1)[i] = s[i]
         /\ Range(SubSeq(s, 1, Len(s) - 1)) \subseteq Range(s)
<1> DEFINE front == SubSeq(s, 1, Len(s) - 1)
<1>1. Len(s) \in Nat \ {0} /\ DOMAIN s = 1 .. Len(s)
  BY EmptySeq, LenProperties
<1>2. /\ front \in Seq(S)
      /\ Len(front) = Len(s) - 1
      /\ \A i \in 1 .. Len(s) - 1 : front[i] = s[i]
  BY <1>1, SubSeqProperties
<1>3. DOMAIN front = 1 .. Len(s) - 1
  BY <1>2, LenProperties
<1>4. QED
  BY <1>1, <1>2, <1>3 DEF Range

-----------------------------------------------------------------------------
ControlTypes ==
  /\ stage \in {"poll", "events", "timers", "functors"}
  /\ state_ \in States
  /\ destroyed_ \in BOOLEAN /\ addedToLoop_ \in BOOLEAN /\ eventHandling_ \in BOOLEAN
  /\ events \subseteq {"read", "write"}
  /\ revents \subseteq {"IN", "OUT", "HUP", "ERR"}
  /\ todo \subseteq {"close", "error", "read", "write"}
  /\ stack \in Seq(Frames) /\ Len(stack) <= 2
  /\ queue \in Seq(Tasks)
  /\ serverAlive \in BOOLEAN /\ owned \in BOOLEAN /\ held \in BOOLEAN

OutputTypes ==
  /\ timers \in Nat
  /\ isDelaySend_ \in BOOLEAN /\ isStartDelayTask_ \in BOOLEAN /\ past \subseteq Events
  /\ sendBuffer_ \in Seq(Nat) /\ wire \in Seq(Nat)
  /\ Len(sendBuffer_) <= CacheSize
  /\ accepted \in 0 .. MaxBytes

-----------------------------------------------------------------------------
(***************************************************************************)
(* The inductive invariant of the connection's life.                       *)
(***************************************************************************)
Open == state_ \in {"kConnected", "kDisconnecting"}

\* Nobody knows of a connection that has not come up.
Unknown ==
  /\ stack = <<>> /\ queue = <<>>
  /\ revents = {} /\ todo = {} /\ ~eventHandling_
  /\ ~owned /\ ~held
  /\ ups = 0

\* An open connection is registered, and its server or a functor that is going to
\* close it keeps it.
LifeFits ==
  /\ state_ = "kConnecting" => Unknown
  /\ state_ # "kConnecting" => ups = 1
  /\ downs = IF state_ = "kDisconnected" THEN 1 ELSE 0
  /\ addedToLoop_ <=> Open
  /\ state_ = "kConnected" => owned
  /\ state_ = "kDisconnecting" => "forceCloseInLoop" \in Range(queue)

\* What a callback under way takes for granted.
FrameFits(name) ==
  /\ name \in {"down", "downDestroyed"} => state_ = "kDisconnected"
  /\ name \in {"up", "message"} => stage = "events" /\ state_ # "kDisconnected"
CallsFit == \A k \in 1 .. Len(stack) : FrameFits(stack[k])

\* An event that is reported or being handled finds its connection, and a hang-up
\* is the first thing it finds.
EventsFit ==
  /\ revents # {} => stage = "events" /\ Open
  /\ eventHandling_ => stage = "events" /\ revents = {} /\ (owned \/ queue # <<>>)
  /\ todo # {} => eventHandling_
  /\ "close" \in todo => stack = <<>> /\ Open
  /\ NoStaleWrite

Control == ControlTypes /\ LifeFits /\ CallsFit /\ EventsFit

-----------------------------------------------------------------------------
(* Calls and functors. *)

LEMMA Pushed ==
  ASSUME Control, NEW name \in Frames, stack' = Append(stack, name)
  PROVE  /\ stack' \in Seq(Frames)
         /\ Len(stack') = Len(stack) + 1 /\ Len(stack) \in Nat
         /\ \A k \in 1 .. Len(stack) : stack'[k] = stack[k]
         /\ stack'[Len(stack) + 1] = name
BY AppendProperties, LenProperties DEF Control, ControlTypes

LEMMA Queued ==
  ASSUME Control, NEW task \in Tasks, QueueInLoop(task)
  PROVE  /\ queue' \in Seq(Tasks)
         /\ queue' # <<>>
         /\ Range(queue') = Range(queue) \cup {task}
<1>1. queue \in Seq(Tasks)
  BY DEF Control, ControlTypes
<1>2. Range(queue') = Range(queue) \cup {task} /\ queue' \in Seq(Tasks)
  BY <1>1, RangeOfAppend, AppendProperties DEF QueueInLoop
<1>3. QED
  BY <1>2, RangeOfEmpty

LEMMA NotEmpty ==
  ASSUME NEW S, NEW s \in Seq(S), s # <<>>
  PROVE  Len(s) \in Nat /\ Len(s) # 0
BY EmptySeq, LenProperties

LEMMA InRange ==
  ASSUME NEW x, x \in Range(queue)
  PROVE  queue # <<>>
BY RangeOfEmpty

\* While an event is handled or a functor run, nothing else has been called.
LEMMA EmptyFits ==
  ASSUME stack = <<>>
  PROVE  Len(stack) = 0 /\ CallsFit
BY DEF CallsFit

-----------------------------------------------------------------------------
(* The ways in which a step changes the state of the connection. *)

\* ForceClose and the ends of the sending functions: a connection may begin to
\* close, or report that everything has gone out.
Reports(task) == UNCHANGED state_ /\ QueueInLoop(task)
Closes == state_ = "kConnected" /\ state_' = "kDisconnecting" /\ QueueForceClose
Moves ==
  \/ UNCHANGED <<state_, queue>>
  \/ Reports("writeComplete")
  \/ Closes

LEMMA ForceCloseMoves == ForceClose => Moves
BY DEF ForceClose, Moves, Closes

\* What happens to a connection while bytes are sent or it is forced to close.
SendingStep ==
  /\ state_ # "kConnecting"
  /\ Moves
  /\ events' \subseteq {"read", "write"}
  /\ todo' \subseteq todo
  /\ ("write" \in todo' \/ "OUT" \in revents) /\ isWriting => isWriting'
  /\ UNCHANGED <<stage, destroyed_, ups, downs, addedToLoop_, eventHandling_,
                 revents, stack, refs>>

LEMMA SendingStepControl ==
  ASSUME Control, SendingStep
  PROVE  Control'
<1> USE DEF SendingStep, refs
<1>1. queue' \in Seq(Tasks) /\ Range(queue) \subseteq Range(queue')
      /\ (queue # <<>> => queue' # <<>>)
      /\ state_' \in States /\ state_' # "kConnecting"
      /\ (state_' = state_ \/ Closes)
  <2>1. CASE UNCHANGED <<state_, queue>>
    BY <2>1 DEF Control, ControlTypes
  <2>2. CASE Reports("writeComplete")
    BY <2>2, Queued DEF Control, ControlTypes, Reports, Tasks
  <2>3. CASE Closes
    BY <2>3, Queued DEF Control, ControlTypes, Closes, QueueForceClose, Tasks, States
  <2>4. QED
    BY <2>1, <2>2, <2>3 DEF Moves
<1>2. Closes => state_ = "kConnected" /\ state_' = "kDisconnecting"
                /\ "forceCloseInLoop" \in Range(queue')
  BY Queued DEF Closes, QueueForceClose, Tasks
<1>3. ControlTypes'
  BY <1>1 DEF Control, ControlTypes
<1>4. LifeFits'
  BY <1>1, <1>2 DEF Control, LifeFits, Open
<1>5. CallsFit'
  BY <1>1, <1>2 DEF Control, CallsFit, FrameFits
<1>6. EventsFit'
  BY <1>1, <1>2 DEF Control, EventsFit, NoStaleWrite, Open
<1>7. QED
  BY <1>3, <1>4, <1>5, <1>6 DEF Control

\* ... and when it goes down, from an open state.
DownStep(frame) ==
  /\ Open
  /\ Disconnect(frame)
  /\ Len(stack) <= 1
  /\ \A k \in 1 .. Len(stack) : stack[k] \notin {"up", "message"}
  /\ revents' = {}
  /\ todo' \subseteq todo \ {"close"}
  /\ queue' \in Seq(Tasks)
  /\ eventHandling_ => owned' \/ queue' # <<>>
  /\ destroyed_' \in BOOLEAN /\ serverAlive' \in BOOLEAN /\ owned' \in BOOLEAN
  /\ UNCHANGED <<stage, eventHandling_, held>>

LEMMA DownStepControl ==
  ASSUME Control, NEW frame \in {"down", "downDestroyed"}, DownStep(frame)
  PROVE  Control'
<1> USE DEF DownStep, Disconnect, RemoveFromLoop
<1>1. frame \in Frames
  BY DEF Frames
<1>2. ControlTypes'
  <2>1. stack' \in Seq(Frames) /\ Len(stack') <= 2
    BY <1>1, Pushed
  <2>2. todo' \subseteq todo
    OBVIOUS
  <2>3. QED
    BY <2>1, <2>2 DEF Control, ControlTypes, States
<1>3. LifeFits'
  BY DEF Control, LifeFits, Open
<1>4. CallsFit'
  <2> SUFFICES ASSUME NEW k \in 1 .. Len(stack')
               PROVE  FrameFits(stack[k])'
    BY DEF CallsFit
  <2>1. CASE k \in 1 .. Len(stack)
    BY <1>1, <2>1, Pushed DEF Control, CallsFit, FrameFits
  <2>2. CASE k = Len(stack) + 1
    BY <1>1, <2>2, Pushed DEF FrameFits
  <2>3. QED
    BY <1>1, <2>1, <2>2, Pushed
<1>5. EventsFit'
  BY DEF Control, EventsFit, NoStaleWrite, Open
<1>6. QED
  BY <1>2, <1>3, <1>4, <1>5 DEF Control

-----------------------------------------------------------------------------
(***************************************************************************)
(* Each step keeps the invariant of the connection's life.                 *)
(***************************************************************************)
LEMMA InitControl ==
  ASSUME Init
  PROVE  Control
<1>1. /\ stack \in Seq(Frames) /\ Len(stack) <= 2
      /\ queue \in Seq(Tasks)
  BY EmptySeq DEF Init
<1>2. ControlTypes
  <2>1. /\ stage = "poll" /\ state_ = "kConnecting"
        /\ destroyed_ = FALSE /\ addedToLoop_ = FALSE /\ eventHandling_ = FALSE
        /\ events = {} /\ revents = {} /\ todo = {}
        /\ serverAlive = TRUE /\ owned = FALSE /\ held = FALSE
    BY DEF Init
  <2>2. QED
    BY <1>1, <2>1 DEF ControlTypes, States
<1> USE DEF Init
<1>3. LifeFits
  BY DEF LifeFits, Unknown, Open
<1>4. CallsFit
  BY EmptyFits
<1>5. EventsFit
  BY DEF EventsFit, NoStaleWrite
<1>6. QED
  BY <1>2, <1>3, <1>4, <1>5 DEF Control

LEMMA NewConnectionControl ==
  ASSUME Control, NewConnection
  PROVE  Control'
<1> USE DEF NewConnection, output
<1>1. "up" \in Frames
  BY DEF Frames
<1>2. stack' \in Seq(Frames) /\ Len(stack') = 1 /\ stack'[1] = "up"
  BY <1>1
<1>3. Unknown
  BY DEF Control, LifeFits
<1>4. ControlTypes'
  <2>1. /\ stack' \in Seq(Frames) /\ Len(stack') <= 2
        /\ state_' \in States /\ events' \subseteq {"read", "write"}
        /\ addedToLoop_' \in BOOLEAN /\ owned' \in BOOLEAN
    BY <1>2 DEF States
  <2>2. UNCHANGED <<stage, destroyed_, eventHandling_, revents, todo, queue,
                    serverAlive, held>>
    OBVIOUS
  <2>3. QED
    BY <2>1, <2>2 DEF Control, ControlTypes
<1>5. LifeFits'
  BY <1>3 DEF Control, LifeFits, Open, Unknown
<1>6. CallsFit'
  BY <1>2 DEF CallsFit, FrameFits
<1>7. EventsFit'
  BY <1>3 DEF Control, EventsFit, NoStaleWrite, Open, Unknown
<1>8. QED
  BY <1>4, <1>5, <1>6, <1>7 DEF Control

LEMMA PollControl ==
  ASSUME Control, NEW ready \in SUBSET {"IN", "OUT", "HUP", "ERR"}, Poll(ready)
  PROVE  Control'
<1> USE DEF Poll, life, refs
<1>1. ControlTypes'
  BY DEF Control, ControlTypes
<1>2. LifeFits'
  BY DEF Control, LifeFits, Open, Unknown
<1>3. CallsFit'
  BY DEF Control, CallsFit, FrameFits
<1>4. EventsFit'
  BY DEF Control, LifeFits, EventsFit, NoStaleWrite, Open, Reported, isWriting
<1>5. QED
  BY <1>1, <1>2, <1>3, <1>4 DEF Control

\* While an event is handled with a kConnecting connection: there is none.
LEMMA HandleEventControl ==
  ASSUME Control, HandleEvent
  PROVE  Control'
<1> USE DEF HandleEvent, life, refs, Idle
<1>1. todo' \subseteq {"close", "error", "read", "write"}
      /\ ("close" \in todo' => "HUP" \in revents)
      /\ ("write" \in todo' => "OUT" \in revents)
  BY DEF Handlers, Wanted
<1>2. Open /\ stage = "events"
  BY DEF Control, EventsFit
<1>3. owned \/ queue # <<>>
  BY <1>2, InRange DEF Control, LifeFits, Open
<1>4. ControlTypes'
  BY <1>1 DEF Control, ControlTypes
<1>5. LifeFits'
  BY <1>2 DEF Control, LifeFits, Open
<1>6. CallsFit'
  BY DEF Control, CallsFit, FrameFits
<1>7. EventsFit'
  BY <1>1, <1>2, <1>3 DEF Control, EventsFit, NoStaleWrite, Open, isWriting
<1>8. QED
  BY <1>4, <1>5, <1>6, <1>7 DEF Control

\* The loop goes on, and handleEvent() returns.
LEMMA LoopControl ==
  ASSUME Control,
         HandleEventReturns \/ EventsDone \/ TimersDone \/ FunctorsDone
           \/ UNCHANGED vars
  PROVE  Control'
<1> USE DEF HandleEventReturns, EventsDone, TimersDone, FunctorsDone, Goes, Idle,
            vars, life, channel, refs
<1>1. ControlTypes'
  BY DEF Control, ControlTypes
<1>2. LifeFits'
  BY DEF Control, LifeFits, Open, Unknown
<1>3. CallsFit'
  BY DEF Control, CallsFit, FrameFits
<1>4. EventsFit'
  BY DEF Control, EventsFit, NoStaleWrite, Open, isWriting
<1>5. QED
  BY <1>1, <1>2, <1>3, <1>4 DEF Control

\* A handler is called in a connection that has come up, and not twice.
LEMMA HandlerCalled ==
  ASSUME Control, NEW name, Handler(name)
  PROVE  /\ state_ # "kConnecting"
         /\ stack = <<>> /\ Len(stack) = 0
         /\ eventHandling_ /\ stage = "events" /\ revents = {}
         /\ owned \/ queue # <<>>
         /\ todo' \subseteq todo
         /\ name = "close" => Open
         /\ "close" \notin todo'
         /\ name \notin todo'
         /\ UNCHANGED <<stage, eventHandling_, revents, refs>>
<1>1. name \in todo /\ todo' = todo \ {name}
      /\ \A other \in todo : Handlers[name] <= Handlers[other]
  BY DEF Handler
<1>2. todo \subseteq DOMAIN Handlers
  BY DEF Control, ControlTypes, Handlers
<1>3. "close" \in todo => name = "close"
  BY <1>1, <1>2 DEF Handlers
<1>4. state_ # "kConnecting"
  BY <1>1 DEF Control, LifeFits, Unknown
<1>5. QED
  BY <1>1, <1>3, <1>4, EmptyFits DEF Handler, Control, EventsFit

LEMMA HandlerDownControl ==
  ASSUME Control, NEW name, Handler(name), Open, handleClose, UNCHANGED queue
  PROVE  Control'
<1>1. DownStep("down")
  <2>1. /\ Len(stack) = 0 /\ revents' = {}
        /\ todo' \subseteq todo \ {"close"}
        /\ owned \/ queue # <<>>
        /\ UNCHANGED <<stage, eventHandling_, refs>>
    BY HandlerCalled
  <2>2. /\ queue \in Seq(Tasks)
        /\ destroyed_ \in BOOLEAN /\ serverAlive \in BOOLEAN /\ owned \in BOOLEAN
    BY DEF Control, ControlTypes
  <2>3. QED
    BY <2>1, <2>2 DEF DownStep, handleClose, refs
<1>2. QED
  BY <1>1, DownStepControl

LEMMA HandlerIdleControl ==
  ASSUME Control, NEW name, Handler(name),
         UNCHANGED <<life, events, addedToLoop_, stack, queue>>
  PROVE  Control'
<1>1. SendingStep
  BY HandlerCalled DEF SendingStep, Moves, isWriting, life, Control, ControlTypes
<1>2. QED
  BY <1>1, SendingStepControl

LEMMA MessageControl ==
  ASSUME Control, Handler("read"), Reads, stack' = Append(stack, "message"),
         UNCHANGED <<life, events, addedToLoop_, queue>>
  PROVE  Control'
<1> USE DEF life, refs
<1>1. "message" \in Frames
  BY DEF Frames
<1>2. /\ stack' \in Seq(Frames) /\ Len(stack') = 1
      /\ stack'[1] = "message"
  BY <1>1, Pushed, HandlerCalled
<1>3. ControlTypes'
  <2>1. /\ todo' \subseteq todo
        /\ UNCHANGED <<stage, state_, destroyed_, addedToLoop_, eventHandling_, events,
                      revents, queue, refs>>
    BY HandlerCalled
  <2>2. Len(stack') <= 2
    BY <1>2
  <2>3. QED
    BY <1>2, <2>1, <2>2 DEF Control, ControlTypes
<1>4. LifeFits'
  BY HandlerCalled DEF Control, LifeFits, Open
<1>5. CallsFit'
  BY <1>2, HandlerCalled DEF CallsFit, FrameFits, Reads
<1>6. EventsFit'
  BY HandlerCalled DEF Control, EventsFit, NoStaleWrite, Open, isWriting
<1>7. QED
  BY <1>3, <1>4, <1>5, <1>6 DEF Control

LEMMA HandleWriteControl ==
  ASSUME Control, HandleWrite
  PROVE  Control'
<1>1. Handler("write")
  BY DEF HandleWrite
<1>2. Moves
  BY ForceCloseMoves
     DEF HandleWrite, SendBuffered, NothingSent, Moves, Reports
<1>3. events' \subseteq {"read", "write"}
  BY DEF HandleWrite, SendBuffered, NothingSent, DrainedByWrite, Control, ControlTypes
<1>4. SendingStep
  BY <1>1, <1>2, <1>3, HandlerCalled DEF SendingStep, HandleWrite
<1>5. QED
  BY <1>4, SendingStepControl

LEMMA HandlersControl ==
  ASSUME Control, HandlerStep
  PROVE  Control'
<1>1. CASE HandleClose
  BY <1>1, HandlerDownControl, HandlerCalled DEF HandleClose
<1>2. CASE HandleError
  BY <1>2, HandlerDownControl, HandlerIdleControl DEF HandleError, Open
<1>3. CASE HandleRead
  BY <1>3, HandlerDownControl, HandlerIdleControl, MessageControl
     DEF HandleRead, Reads, Open
<1>4. CASE HandleWrite
  BY <1>4, HandleWriteControl
<1>5. QED
  BY <1>1, <1>2, <1>3, <1>4 DEF HandlerStep

-----------------------------------------------------------------------------
(* Timers and functors. *)

LEMMA TimerFiresControl ==
  ASSUME Control, TimerFires
  PROVE  Control'
<1>0. CASE state_ = "kConnecting" \/ ~(Alive /\ state_ = "kConnected" /\ ~isWriting)
  <2>1. UNCHANGED <<stage, life, channel, stack, queue, refs>>
    BY <1>0 DEF TimerFires, NothingSent, life, channel
  <2>2. ControlTypes' /\ CallsFit'
    BY <2>1 DEF Control, ControlTypes, CallsFit, FrameFits, life, channel, refs
  <2>3. LifeFits'
    BY <2>1 DEF Control, LifeFits, Open, Unknown, life, channel, refs
  <2>4. EventsFit'
    BY <2>1 DEF Control, EventsFit, NoStaleWrite, Open, isWriting, life, channel, refs
  <2>5. QED
    BY <2>2, <2>3, <2>4 DEF Control
<1>1. CASE state_ # "kConnecting" /\ Alive /\ state_ = "kConnected" /\ ~isWriting
  <2>1. SendBuffered(DrainedByTimer, EnableWriting)
    BY <1>1 DEF TimerFires
  <2>2. Moves
    BY <2>1, ForceCloseMoves DEF SendBuffered, Moves, Reports
  <2>3. events' \subseteq {"read", "write"}
    BY <2>1 DEF SendBuffered, DrainedByTimer, EnableWriting, Control, ControlTypes
  <2>4. SendingStep
    BY <1>1, <2>2, <2>3 DEF TimerFires, SendingStep
  <2>5. QED
    BY <2>4, SendingStepControl
<1>2. QED
  BY <1>0, <1>1

\* A functor is taken from the front, between the events.
LEMMA FunctorTaken ==
  ASSUME Control, NEW task, Runs(task)
  PROVE  /\ state_ # "kConnecting"
         /\ stack = <<>> /\ Len(stack) = 0
         /\ stage = "functors" /\ ~eventHandling_ /\ revents = {} /\ todo = {}
         /\ queue' \in Seq(Tasks)
         /\ Range(queue) = {task} \cup Range(queue')
         /\ UNCHANGED <<stage, eventHandling_, revents, todo, refs>>
<1>1. queue \in Seq(Tasks) /\ queue # <<>>
      /\ Head(queue) = task /\ queue' = Tail(queue)
  BY DEF Runs, Control, ControlTypes
<1>2. queue' \in Seq(Tasks) /\ Range(queue) = {task} \cup Range(queue')
  BY <1>1, HeadTailProperties, RangeOfTail
<1>3. state_ # "kConnecting"
  BY <1>1 DEF Control, LifeFits, Unknown
<1>4. stage = "functors" /\ stack = <<>> /\ ~eventHandling_
  BY DEF Runs, Idle
<1>5. QED
  BY <1>2, <1>3, <1>4, EmptyFits DEF Runs, Control, EventsFit

LEMMA FunctorDownControl ==
  ASSUME Control, NEW task, Runs(task), Open,
         NEW frame \in {"down", "downDestroyed"}, Disconnect(frame),
         destroyed_' \in BOOLEAN
  PROVE  Control'
<1>1. DownStep(frame)
  <2>1. /\ Len(stack) = 0 /\ revents' = {} /\ todo' = {}
        /\ queue' \in Seq(Tasks) /\ ~eventHandling_
        /\ UNCHANGED <<stage, eventHandling_, refs>>
    BY FunctorTaken
  <2>2. serverAlive \in BOOLEAN /\ owned \in BOOLEAN
    BY DEF Control, ControlTypes
  <2>3. QED
    BY <2>1, <2>2 DEF DownStep, refs
<1>2. QED
  BY <1>1, DownStepControl

\* ... and leaves the connection as it is, unless it was about to close it.
LEMMA FunctorIdleControl ==
  ASSUME Control, NEW task, Runs(task),
         task = "forceCloseInLoop" => state_ # "kDisconnecting",
         UNCHANGED <<state_, ups, downs, events, addedToLoop_>>,
         destroyed_' \in BOOLEAN,
         stack' \in {<<>>, <<"complete">>}
  PROVE  Control'
<1> USE DEF refs
<1>0. "complete" \in Frames
  BY DEF Frames
<1>1. /\ stack' \in Seq(Frames) /\ Len(stack') <= 2
      /\ \A k \in 1 .. Len(stack') : stack'[k] = "complete"
  <2>1. CASE stack' = <<>>
    BY <2>1, EmptySeq
  <2>2. CASE stack' = <<"complete">>
    BY <1>0, <2>2
  <2>3. QED
    BY <2>1, <2>2
<1>2. ControlTypes'
  <2>1. /\ queue' \in Seq(Tasks)
        /\ UNCHANGED <<stage, eventHandling_, revents, todo, refs>>
    BY FunctorTaken
  <2>2. QED
    BY <1>1, <2>1 DEF Control, ControlTypes
<1>3. LifeFits'
  BY FunctorTaken DEF Control, LifeFits, Open
<1>4. CallsFit'
  BY <1>1 DEF CallsFit, FrameFits
<1>5. EventsFit'
  BY FunctorTaken DEF Control, EventsFit, NoStaleWrite
<1>6. QED
  BY <1>2, <1>3, <1>4, <1>5 DEF Control

LEMMA FunctorsControl ==
  ASSUME Control, RunFunctor
  PROVE  Control'
<1>0. destroyed_ \in BOOLEAN
  BY DEF Control, ControlTypes
<1>1. CASE ForceCloseInLoop
  <2>1. CASE StillClosing
    BY <1>0, <1>1, <2>1, FunctorDownControl
       DEF ForceCloseInLoop, StillClosing, Open, handleClose
  <2>2. CASE ~StillClosing
    BY <1>0, <1>1, <2>2, FunctorIdleControl, FunctorTaken
       DEF ForceCloseInLoop, StillClosing, life
  <2>3. QED
    BY <2>1, <2>2
<1>2. CASE WriteComplete
  BY <1>0, <1>2, FunctorIdleControl DEF WriteComplete, life
<1>3. CASE ConnectDestroyed
  <2>1. CASE state_ = "kConnected"
    BY <1>3, <2>1, FunctorDownControl DEF ConnectDestroyed, connectDestroyed, Open
  <2>2. CASE state_ # "kConnected"
    BY <1>3, <2>2, FunctorIdleControl, FunctorTaken
       DEF ConnectDestroyed, connectDestroyed
  <2>3. QED
    BY <2>1, <2>2
<1>4. QED
  BY <1>1, <1>2, <1>3 DEF RunFunctor

-----------------------------------------------------------------------------
(* User code. *)

LEMMA EnterOtherControl ==
  ASSUME Control, EnterOther
  PROVE  Control'
<1> USE DEF EnterOther, life, channel, refs
<1>1. "other" \in Frames
  BY DEF Frames
<1>2. stack' \in Seq(Frames) /\ Len(stack') = 1 /\ stack'[1] = "other"
  BY <1>1
<1>3. held /\ stack = <<>> /\ ~eventHandling_ /\ stage # "poll"
  BY DEF Idle
<1>4. ControlTypes'
  <2>1. Len(stack') <= 2
    BY <1>2
  <2>2. UNCHANGED <<stage, state_, destroyed_, addedToLoop_, eventHandling_, events,
                    revents, todo, queue, refs>>
    OBVIOUS
  <2>3. QED
    BY <1>2, <2>1, <2>2 DEF Control, ControlTypes
<1>5. LifeFits'
  BY <1>3 DEF Control, LifeFits, Open, Unknown
<1>6. CallsFit'
  BY <1>2 DEF CallsFit, FrameFits
<1>7. EventsFit'
  BY <1>3 DEF Control, EventsFit, NoStaleWrite, Open, isWriting
<1>8. QED
  BY <1>4, <1>5, <1>6, <1>7 DEF Control

LEMMA CallsNested ==
  ASSUME Control, stack # <<>>
  PROVE  Len(stack) \in 1 .. 2
<1>1. stack \in Seq(Frames)
  BY DEF Control, ControlTypes
<1>2. Len(stack) <= 2
  BY DEF Control, ControlTypes
<1>3. Len(stack) \in Nat /\ Len(stack) # 0
  BY <1>1, NotEmpty
<1>4. \A n \in Nat : n # 0 /\ n <= 2 => n \in 1 .. 2
  OBVIOUS
<1>5. QED
  BY <1>2, <1>3, <1>4, Zenon

\* User code that has a connection runs after it has come up.
LEMMA UserComesLater ==
  ASSUME Control, stack # <<>>
  PROVE  state_ # "kConnecting"
BY DEF Control, LifeFits, Unknown

LEMMA UserSendsControl ==
  ASSUME Control,
         SetSendParam \/ UserForceClose
           \/ \E len \in 0 .. MaxBytes : Send(len) \/ DelaySend(len)
  PROVE  Control'
<1>1. state_ # "kConnecting"
  BY UserComesLater
     DEF SetSendParam, UserForceClose, Send, DelaySend, MaySend, UserHasConnection
<1>2. events \subseteq {"read", "write"}
  BY DEF Control, ControlTypes
<1>3. CASE SetSendParam
  <2>1. SendingStep
    BY <1>1, <1>2, <1>3 DEF SetSendParam, SendingStep, Moves, isWriting, life, channel
  <2>2. QED
    BY <2>1, SendingStepControl
<1>4. CASE UserForceClose
  <2>1. SendingStep
    BY <1>1, <1>2, <1>4, ForceCloseMoves
       DEF UserForceClose, SendingStep, isWriting, channel
  <2>2. QED
    BY <2>1, SendingStepControl
<1>5. ASSUME NEW len \in 0 .. MaxBytes, Send(len)
      PROVE  Control'
  <2>1. Moves /\ events' \subseteq {"read", "write"} /\ events \subseteq events'
    <3>1. CASE isDelaySend_
      BY <1>2, <1>5, <3>1, ForceCloseMoves DEF Send, delaySend, Moves
    <3>2. CASE ~isDelaySend_ /\ isWriting
      BY <1>2, <1>5, <3>2, ForceCloseMoves
         DEF Send, SendQueued, SendRest, EnableWriting, Moves
    <3>3. CASE ~isDelaySend_ /\ ~isWriting
      <4>1. PICK n \in Outcomes(len) :
              \/ ForceClose /\ UNCHANGED events
              \/ QueueInLoop("writeComplete") /\ UNCHANGED <<state_, events>>
              \/ SendRest(len, IF n > 0 THEN n ELSE 0)
        BY <1>5, <3>3 DEF Send, SendNow
      <4>2. QED
        BY <1>2, <4>1, ForceCloseMoves DEF SendRest, EnableWriting, Moves, Reports
    <3>4. QED
      BY <3>1, <3>2, <3>3
  <2>2. SendingStep
    BY <1>1, <1>5, <2>1 DEF Send, SendingStep, isWriting
  <2>3. QED
    BY <2>2, SendingStepControl
<1>6. ASSUME NEW len \in 0 .. MaxBytes, DelaySend(len)
      PROVE  Control'
  <2>1. Moves /\ UNCHANGED events
    BY <1>6, ForceCloseMoves DEF DelaySend, delaySend, Moves
  <2>2. SendingStep
    BY <1>1, <1>2, <1>6, <2>1 DEF DelaySend, SendingStep, isWriting
  <2>3. QED
    BY <2>2, SendingStepControl
<1>7. QED
  BY <1>3, <1>4, <1>5, <1>6

LEMMA KeepControl ==
  ASSUME Control, Keep
  PROVE  Control'
<1> USE DEF Keep, life, channel
<1>1. state_ # "kConnecting"
  BY UserComesLater DEF UserHasConnection
<1>2. ControlTypes' /\ CallsFit'
  BY DEF Control, ControlTypes, CallsFit, FrameFits
<1>3. LifeFits' /\ EventsFit'
  BY <1>1 DEF Control, LifeFits, EventsFit, NoStaleWrite, Open, isWriting
<1>4. QED
  BY <1>2, <1>3 DEF Control

\* A callback returns; if it reports the end of the connection, the server lets go
\* of it, and the functor keeps it.
LEMMA ReturnControl ==
  ASSUME Control, Return
  PROVE  Control'
<1> USE DEF Return, life, channel
<1>1. stack \in Seq(Frames) /\ stack # <<>>
  BY DEF Control, ControlTypes
<1>2. /\ stack' \in Seq(Frames)
      /\ Len(stack') = Len(stack) - 1
      /\ \A k \in 1 .. Len(stack) - 1 : stack'[k] = stack[k]
  BY <1>1, RangeOfFront
<1>3. Len(stack) \in 1 .. 2
  BY <1>1, CallsNested
<1>4. state_ # "kConnecting"
  BY <1>1, UserComesLater
<1>5. CallsFit'
  BY <1>2, <1>3 DEF Control, CallsFit, FrameFits
<1>6. \/ UNCHANGED <<owned, queue>>
      \/ owned' = FALSE /\ QueueInLoop("connectDestroyed") /\ state_ = "kDisconnected"
  <2>1. stack[Len(stack)] = "down" => state_ = "kDisconnected"
    BY <1>3 DEF Control, CallsFit, FrameFits
  <2>2. QED
    BY <2>1 DEF RemoveConnection
<1>7. /\ queue' \in Seq(Tasks) /\ owned' \in BOOLEAN
      /\ owned' = owned \/ (queue' # <<>> /\ state_ = "kDisconnected")
      /\ queue # <<>> => queue' # <<>>
      /\ Range(queue) \subseteq Range(queue')
  BY <1>6, Queued DEF Tasks, Control, ControlTypes
<1>8. ControlTypes'
  BY <1>2, <1>3, <1>7 DEF Control, ControlTypes
<1>9. LifeFits'
  BY <1>4, <1>7 DEF Control, LifeFits, Open
<1>10. EventsFit'
  BY <1>1, <1>7 DEF Control, EventsFit, NoStaleWrite, Open, isWriting
<1>11. QED
  BY <1>5, <1>8, <1>9, <1>10 DEF Control

LEMMA DestroyServerControl ==
  ASSUME Control, DestroyServer
  PROVE  Control'
<1> USE DEF DestroyServer
<1>1. stage \in {"timers", "functors"} /\ ~eventHandling_ /\ revents = {} /\ todo = {}
  BY DEF Control, EventsFit
<1>2. CASE owned /\ state_ = "kConnected"
  <2>1. \A k \in 1 .. Len(stack) : stack[k] \notin {"up", "message"}
    BY <1>1 DEF Control, CallsFit, FrameFits
  <2>2. queue' \in Seq(Tasks)
    BY DEF Control, ControlTypes
  <2>3. DownStep("downDestroyed")
    BY <1>1, <1>2, <2>1, <2>2 DEF connectDestroyed, DownStep, Open
  <2>4. QED
    BY <2>3, DownStepControl
<1>3. CASE ~(owned /\ state_ = "kConnected")
  <2>1. /\ UNCHANGED <<stage, state_, events, addedToLoop_, stack, ups, downs, eventHandling_,
                      revents, todo, queue, held>>
        /\ owned' = FALSE /\ serverAlive' = FALSE
        /\ destroyed_' \in BOOLEAN
    BY <1>3 DEF connectDestroyed, life, Control, ControlTypes
  <2>2. state_ # "kConnected"
    BY <1>3 DEF Control, LifeFits
  <2>3. ControlTypes' /\ CallsFit'
    BY <2>1 DEF Control, ControlTypes, CallsFit, FrameFits
  <2>4. LifeFits'
    BY <2>1, <2>2 DEF Control, LifeFits, Open, Unknown
  <2>5. EventsFit'
    BY <1>1, <2>1 DEF Control, EventsFit, NoStaleWrite
  <2>6. QED
    BY <2>3, <2>4, <2>5 DEF Control
<1>4. QED
  BY <1>2, <1>3

LEMMA StepControl ==
  ASSUME Control, [Next]_vars
  PROVE  Control'
<1>1. CASE CallStep \/ StageStep
  BY <1>1, HandlersControl, LoopControl, ReturnControl, HandleEventControl
     DEF CallStep, StageStep
<1>2. CASE NewConnection \/ TimerFires \/ RunFunctor \/ EnterOther \/ Keep
             \/ DestroyServer
  BY <1>2, NewConnectionControl, TimerFiresControl, FunctorsControl,
     EnterOtherControl, KeepControl, DestroyServerControl
<1>3. CASE SetSendParam \/ UserForceClose
             \/ \E len \in 0 .. MaxBytes : Send(len) \/ DelaySend(len)
  BY <1>3, UserSendsControl
<1>4. CASE UNCHANGED vars
  BY <1>4, LoopControl
<1>5. QED
  BY <1>1, <1>2, <1>3, <1>4, PollControl DEF Next

-----------------------------------------------------------------------------
(***************************************************************************)
(* The inductive invariant of the bytes.                                   *)
(***************************************************************************)
Count(n) == [i \in 1 .. n |-> i]

NothingYet ==
  /\ timers = 0 /\ ~isDelaySend_ /\ ~isStartDelayTask_ /\ past = {}
  /\ sendBuffer_ = <<>> /\ wire = <<>> /\ accepted = 0

\* isStartDelayTask_ stands for a timer under way or what it has left to the
\* poller; bytes that it does not stand for are being written.  Who never delays
\* has no timer, and who always delays has one at most, whose bytes wait for it.
ModeFits ==
  /\ isStartDelayTask_ => timers > 0 \/ isWriting \/ "stale" \in past
  /\ ~isStartDelayTask_ /\ sendBuffer_ # <<>> => isWriting
  /\ isWriting => sendBuffer_ # <<>>
  /\ "delayed" \notin past => timers = 0 /\ ~isStartDelayTask_
  /\ "now" \notin past /\ timers > 0 =>
       /\ timers = 1 /\ isStartDelayTask_ /\ ~isWriting
       /\ sendBuffer_ # <<>> \/ "empty" \in past
  /\ "now" \notin past /\ isWriting => isStartDelayTask_

Output ==
  /\ OutputTypes
  /\ state_ = "kConnecting" => NothingYet
  /\ ~mixed => wire \o sendBuffer_ = Count(accepted)
  /\ state_ = "kConnected" => ModeFits

-----------------------------------------------------------------------------
(* Numbered bytes. *)

LEMMA Numbered ==
  ASSUME NEW a \in Nat, NEW n \in Nat, NEW f, f = [i \in 1 .. n |-> a + i]
  PROVE  f \in Seq(Nat) /\ Len(f) = n /\ \A i \in 1 .. n : f[i] = a + i
OBVIOUS

LEMMA Counted ==
  ASSUME NEW n \in Nat
  PROVE  Count(n) \in Seq(Nat) /\ Len(Count(n)) = n /\ \A i \in 1 .. n : Count(n)[i] = i
BY DEF Count

LEMMA CountedOn ==
  ASSUME NEW a \in Nat, NEW n \in Nat
  PROVE  Count(a) \o [i \in 1 .. n |-> a + i] = Count(a + n)
<1> DEFINE f == [i \in 1 .. n |-> a + i]
<1> HIDE DEF f
<1>1. f \in Seq(Nat) /\ Len(f) = n /\ \A i \in 1 .. n : f[i] = a + i
  BY Numbered DEF f
<1>2. Count(a) \in Seq(Nat) /\ Len(Count(a)) = a /\ \A i \in 1 .. a : Count(a)[i] = i
  BY Counted
<1>3. /\ Count(a + n) \in Seq(Nat) /\ Len(Count(a + n)) = a + n
      /\ \A i \in 1 .. a + n : Count(a + n)[i] = i
  BY Counted
<1>4. /\ Count(a) \o f \in Seq(Nat)
      /\ Len(Count(a) \o f) = a + n
      /\ \A i \in 1 .. a + n :
           (Count(a) \o f)[i] = IF i <= a THEN Count(a)[i] ELSE f[i - a]
  <2>1. /\ Count(a) \o f \in Seq(Nat)
        /\ Len(Count(a) \o f) = Len(Count(a)) + Len(f)
        /\ \A i \in 1 .. Len(Count(a)) + Len(f) :
             (Count(a) \o f)[i] =
                IF i <= Len(Count(a)) THEN Count(a)[i] ELSE f[i - Len(Count(a))]
    BY <1>1, <1>2, ConcatProperties
  <2>2. QED
    BY <1>1, <1>2, <2>1
<1>5. ASSUME NEW i \in 1 .. a + n
      PROVE  (Count(a) \o f)[i] = Count(a + n)[i]
  <2>1. CASE i <= a
    BY <1>2, <1>3, <1>4, <2>1
  <2>2. CASE ~(i <= a)
    <3>1. i - a \in 1 .. n /\ a + (i - a) = i
      BY <2>2
    <3>2. QED
      BY <1>1, <1>3, <1>4, <2>2, <3>1
  <2>3. QED
    BY <2>1, <2>2
<1>6. Count(a) \o f = Count(a + n)
  BY <1>3, <1>4, <1>5, SeqEqual
<1>7. QED
  BY <1>6 DEF f

LEMMA BytesNumbered ==
  ASSUME accepted \in Nat, NEW n \in Nat
  PROVE  /\ Bytes(n) \in Seq(Nat) /\ Len(Bytes(n)) = n
         /\ \A i \in 1 .. n : Bytes(n)[i] = accepted + i
         /\ Count(accepted) \o Bytes(n) = Count(accepted + n)
BY Numbered, CountedOn DEF Bytes

\* Cutting a sequence of bytes in two loses nothing.
LEMMA Cut ==
  ASSUME NEW b \in Seq(Nat), NEW n \in 0 .. Len(b)
  PROVE  /\ SubSeq(b, 1, n) \in Seq(Nat) /\ Len(SubSeq(b, 1, n)) = n
         /\ SubSeq(b, n + 1, Len(b)) \in Seq(Nat)
         /\ Len(SubSeq(b, n + 1, Len(b))) = Len(b) - n
         /\ \A w \in Seq(Nat) :
              (w \o SubSeq(b, 1, n)) \o SubSeq(b, n + 1, Len(b)) = w \o b
<1>1. Len(b) \in Nat /\ n \in Nat /\ n <= Len(b) /\ \A i \in 1 .. Len(b) : b[i] \in Nat
  BY LenProperties, ElementOfSeq
<1>2. SubSeq(b, 1, n) \in Seq(Nat) /\ Len(SubSeq(b, 1, n)) = n
  BY <1>1, SubSeqProperties
<1>3. /\ SubSeq(b, n + 1, Len(b)) \in Seq(Nat)
      /\ Len(SubSeq(b, n + 1, Len(b))) = Len(b) - n
  BY <1>1, SubSeqProperties
<1>4. SubSeq(b, 1, n) \o SubSeq(b, n + 1, Len(b)) = b
  <2>1. SubSeq(b, 1, n) \o SubSeq(b, n + 1, Len(b)) = SubSeq(b, 1, Len(b))
    <3>1. 1 \in 1 .. Len(b) + 1 /\ n \in 1 - 1 .. Len(b) /\ Len(b) \in n .. Len(b)
      BY <1>1
    <3>2. QED
      BY <3>1, ConcatAdjacentSubSeq
  <2>2. QED
    BY <2>1, SubSeqFull
<1>5. ASSUME NEW w \in Seq(Nat)
      PROVE  (w \o SubSeq(b, 1, n)) \o SubSeq(b, n + 1, Len(b)) = w \o b
  <2>1. (w \o SubSeq(b, 1, n)) \o SubSeq(b, n + 1, Len(b))
          = w \o (SubSeq(b, 1, n) \o SubSeq(b, n + 1, Len(b)))
    <3> DEFINE first == SubSeq(b, 1, n)
               rest == SubSeq(b, n + 1, Len(b))
    <3>1. first \in Seq(Nat) /\ rest \in Seq(Nat)
      BY <1>2, <1>3
    <3> HIDE DEF first, rest
    <3>2. (w \o first) \o rest = w \o (first \o rest)
      BY <3>1, ConcatAssociative
    <3>3. QED
      BY <3>2 DEF first, rest
  <2>2. QED
    BY <1>4, <2>1
<1>6. QED
  BY <1>2, <1>3, <1>5

LEMMA JoinedBytes ==
  ASSUME NEW s \in Seq(Nat), NEW t \in Seq(Nat), NEW u \in Seq(Nat)
  PROVE  (s \o t) \o u = s \o (t \o u)
BY ConcatAssociative

LEMMA FirstBytes ==
  ASSUME accepted \in Nat, NEW len \in Nat, NEW n \in 0 .. len
  PROVE  SubSeq(Bytes(len), 1, n) = Bytes(n)
<1>1. /\ Bytes(len) \in Seq(Nat) /\ Len(Bytes(len)) = len
      /\ \A i \in 1 .. len : Bytes(len)[i] = accepted + i
  BY BytesNumbered
<1>2. n \in Nat /\ n <= len
  OBVIOUS
<1>3. /\ Bytes(n) \in Seq(Nat) /\ Len(Bytes(n)) = n
      /\ \A i \in 1 .. n : Bytes(n)[i] = accepted + i
  BY <1>2, BytesNumbered
<1>4. /\ SubSeq(Bytes(len), 1, n) \in Seq(Nat)
      /\ Len(SubSeq(Bytes(len), 1, n)) = n
      /\ \A i \in 1 .. n : SubSeq(Bytes(len), 1, n)[i] = Bytes(len)[i]
  <2>1. \A i \in 1 .. n : Bytes(len)[i] \in Nat
    BY <1>1, <1>2
  <2>2. /\ SubSeq(Bytes(len), 1, n) \in Seq(Nat)
        /\ Len(SubSeq(Bytes(len), 1, n)) = IF 1 <= n THEN n - 1 + 1 ELSE 0
        /\ \A i \in 1 .. n - 1 + 1 :
             SubSeq(Bytes(len), 1, n)[i] = Bytes(len)[1 + i - 1]
    BY <1>2, <2>1, SubSeqProperties
  <2>3. QED
    BY <1>2, <2>2
<1>5. \A i \in 1 .. n : SubSeq(Bytes(len), 1, n)[i] = Bytes(n)[i]
  BY <1>1, <1>2, <1>3, <1>4
<1>6. QED
  BY <1>3, <1>4, <1>5, SeqEqual

-----------------------------------------------------------------------------
(***************************************************************************)
(* Each step keeps the invariant of the bytes.                             *)
(***************************************************************************)
LEMMA InitOutput ==
  ASSUME Init
  PROVE  Output
<1>1. /\ timers = 0 /\ isDelaySend_ = FALSE /\ isStartDelayTask_ = FALSE
      /\ past = {}
      /\ sendBuffer_ = <<>> /\ wire = <<>> /\ accepted = 0
      /\ state_ = "kConnecting"
  BY DEF Init
<1>2. /\ sendBuffer_ \in Seq(Nat) /\ wire \in Seq(Nat) /\ Len(sendBuffer_) = 0
      /\ wire \o sendBuffer_ = <<>>
  BY <1>1, EmptySeq, ConcatEmptySeq
<1>3. OutputTypes
  <2>1. timers \in Nat /\ accepted \in 0 .. MaxBytes
    <3>1. timers = 0 /\ accepted = 0 /\ MaxBytes \in Nat
      BY BoundsAreSound DEF Init
    <3>2. QED
      BY <3>1
  <2>2. Len(sendBuffer_) <= CacheSize
    <3>1. Len(sendBuffer_) = 0 /\ CacheSize \in Nat
      BY <1>2, BoundsAreSound
    <3>2. QED
      BY <3>1
  <2>3. isDelaySend_ \in BOOLEAN /\ isStartDelayTask_ \in BOOLEAN /\ past \subseteq Events
    BY <1>1
  <2>4. sendBuffer_ \in Seq(Nat) /\ wire \in Seq(Nat)
    BY <1>2
  <2>5. QED
    BY <2>1, <2>2, <2>3, <2>4, Zenon DEF OutputTypes
<1>4. Count(0) = <<>>
  <2>1. Count(0) \in Seq(Nat) /\ Len(Count(0)) = 0
    BY Counted
  <2>2. QED
    BY <2>1, NotEmpty
<1>5. QED
  BY <1>1, <1>2, <1>3, <1>4 DEF Output, NothingYet

\* Most steps send nothing.
LEMMA OutputKept ==
  ASSUME Output, UNCHANGED output,
         UNCHANGED <<state_, events>> \/ state_' \in {"kDisconnecting", "kDisconnected"}
  PROVE  Output'
<1>1. UNCHANGED <<timers, isDelaySend_, past, isStartDelayTask_, sendBuffer_, wire,
                  accepted>>
  BY DEF output
<1>2. OutputTypes'
  BY <1>1 DEF Output, OutputTypes
<1>3. UNCHANGED <<NothingYet, mixed, Count(accepted)>>
  BY <1>1 DEF NothingYet, mixed, Count
<1>4. UNCHANGED <<state_, events>> => UNCHANGED ModeFits
  BY <1>1 DEF ModeFits, isWriting
<1>5. QED
  BY <1>1, <1>2, <1>3, <1>4 DEF Output

LEMMA NewConnectionOutput ==
  ASSUME Output, NewConnection
  PROVE  Output'
<1> USE DEF NewConnection
<1>1. UNCHANGED <<timers, isDelaySend_, past, isStartDelayTask_, sendBuffer_, wire,
                  accepted>>
  BY DEF output
<1>2. OutputTypes'
  BY <1>1 DEF Output, OutputTypes
<1>3. UNCHANGED <<mixed, Count(accepted)>>
  BY <1>1 DEF mixed, Count
<1>4. NothingYet /\ ~isWriting'
  BY DEF Output, isWriting
<1>5. ModeFits'
  BY <1>1, <1>4 DEF ModeFits, NothingYet
<1>6. QED
  BY <1>1, <1>2, <1>3, <1>5 DEF Output

\* What a step leaves that sends: everything it has taken, in order.
Sent ==
  /\ OutputTypes'
  /\ ~mixed' => (wire \o sendBuffer_ = Count(accepted))'

LEMMA SentOutput ==
  ASSUME Output, Sent, state_ # "kConnecting", state_' # "kConnecting",
         state_' = "kConnected" => ModeFits'
  PROVE  Output'
BY DEF Output, Sent

LEMMA FailedSent ==
  ASSUME Output, timers' \in Nat, past \subseteq past', past' \subseteq Events,
         UNCHANGED <<isDelaySend_, sendBuffer_, wire, isStartDelayTask_, accepted>>
  PROVE  Sent
<1>1. OutputTypes'
  BY DEF Output, OutputTypes
<1>2. UNCHANGED Count(accepted)
  BY DEF Count
<1>3. ~mixed' => ~mixed
  BY DEF mixed
<1>4. QED
  BY <1>1, <1>2, <1>3 DEF Output, Sent

\* handleWrite() and handDelaySend(): a part, or all, of the buffer goes out.
LEMMA BufferSent ==
  ASSUME Output, NEW n \in 1 .. Len(sendBuffer_),
         wire' = wire \o SubSeq(sendBuffer_, 1, n), Retrieve(n),
         isStartDelayTask_' \in BOOLEAN, timers' \in Nat,
         past \subseteq past', past' \subseteq Events, UNCHANGED <<isDelaySend_, accepted>>
  PROVE  Sent
<1>1. /\ sendBuffer_ \in Seq(Nat) /\ wire \in Seq(Nat)
      /\ Len(sendBuffer_) \in Nat /\ Len(sendBuffer_) <= CacheSize
      /\ CacheSize \in Nat
  BY BoundsAreSound DEF Output, OutputTypes
<1>2. n \in 0 .. Len(sendBuffer_)
  OBVIOUS
<1>3. sendBuffer_' = SubSeq(sendBuffer_, n + 1, Len(sendBuffer_))
  BY DEF Retrieve
<1>4. /\ SubSeq(sendBuffer_, 1, n) \in Seq(Nat)
      /\ sendBuffer_' \in Seq(Nat) /\ Len(sendBuffer_') = Len(sendBuffer_) - n
  BY <1>1, <1>2, <1>3, Cut
<1>5. wire' \in Seq(Nat)
  BY <1>1, <1>4, ConcatProperties
<1>6. wire' \o sendBuffer_' = wire \o sendBuffer_
  BY <1>1, <1>2, <1>3, Cut
<1>7. Len(sendBuffer_') <= CacheSize
  BY <1>1, <1>2, <1>4
<1>8. OutputTypes'
  BY <1>4, <1>5, <1>7 DEF Output, OutputTypes
<1>9. UNCHANGED Count(accepted)
  BY DEF Count
<1>10. ~mixed' => ~mixed
  BY DEF mixed
<1>11. QED
  BY <1>6, <1>8, <1>9, <1>10 DEF Output, Sent

LEMMA ForceCloseState ==
  ForceClose => /\ state_' # "kConnected"
                /\ state_ # "kConnecting" => state_' # "kConnecting"
BY DEF ForceClose

LEMMA HandleWriteOutput ==
  ASSUME Control, Output, HandleWrite
  PROVE  Output'
<1>1. /\ UNCHANGED <<isDelaySend_, accepted, timers>>
      /\ timers \in Nat /\ timers' \in Nat /\ past \subseteq Events
  BY DEF HandleWrite, Output, OutputTypes
<1>2. CASE ~(state_ = "kConnected" /\ isWriting)
  BY <1>1, <1>2, OutputKept DEF HandleWrite, NothingSent, output
<1>3. CASE state_ = "kConnected" /\ isWriting
  <2>1. PICK n \in Outcomes(Len(sendBuffer_)) :
          \/ /\ n > 0
             /\ wire' = wire \o SubSeq(sendBuffer_, 1, n)
             /\ Retrieve(n)
             /\ IF sendBuffer_' = <<>>
                THEN DrainedByWrite
                ELSE UNCHANGED <<events, isStartDelayTask_, past>>
             /\ UNCHANGED state_
          \/ /\ ForceClose
             /\ UNCHANGED <<sendBuffer_, wire, isStartDelayTask_, past, events>>
    BY <1>3 DEF HandleWrite, SendBuffered
  <2>2. CASE ForceClose /\ UNCHANGED <<sendBuffer_, wire, isStartDelayTask_, past, events>>
    BY <1>1, <1>3, <2>2, FailedSent, SentOutput, ForceCloseState
  <2>3. CASE /\ n > 0
             /\ wire' = wire \o SubSeq(sendBuffer_, 1, n)
             /\ Retrieve(n)
             /\ IF sendBuffer_' = <<>>
                THEN DrainedByWrite
                ELSE UNCHANGED <<events, isStartDelayTask_, past>>
             /\ UNCHANGED state_
    <3>1. n \in 1 .. Len(sendBuffer_)
      BY <2>3 DEF Outcomes, Again, Fault
    <3>2. /\ isStartDelayTask_' \in BOOLEAN
          /\ past \subseteq past' /\ past' \subseteq past \cup {"stale"}
      BY <2>3 DEF DrainedByWrite, Output, OutputTypes
    <3>3. past' \subseteq Events
      BY <1>1, <3>2 DEF Events
    <3>4. Sent
      BY <1>1, <2>3, <3>1, <3>2, <3>3, BufferSent
    <3>5. ModeFits
      BY <1>3 DEF Output
    <3>6. CASE sendBuffer_' = <<>>
      <4>1. /\ isStartDelayTask_' = (isStartDelayTask_ /\ ~isDelaySend_)
            /\ past' = IF isStartDelayTask_' /\ timers = 0
                       THEN past \cup {"stale"} ELSE past
            /\ ~isWriting'
        BY <2>3, <3>6 DEF DrainedByWrite, isWriting
      <4>2. isStartDelayTask_' => timers' > 0 \/ "stale" \in past'
        BY <1>1, <4>1
      <4>3. "delayed" \notin past' => timers' = 0 /\ ~isStartDelayTask_'
        BY <1>1, <3>2, <3>5, <4>1 DEF ModeFits
      <4>4. "now" \notin past' => ~(timers' > 0)
        BY <1>1, <1>3, <3>2, <3>5 DEF ModeFits
      <4>5. ModeFits'
        BY <3>6, <4>1, <4>2, <4>3, <4>4, Zenon DEF ModeFits
      <4>6. QED
        BY <1>3, <2>3, <3>4, <4>5, SentOutput
    <3>7. CASE sendBuffer_' # <<>>
      <4>1. sendBuffer_ # <<>>
        BY <3>1, EmptySeq
      <4>2. UNCHANGED <<events, isStartDelayTask_, past, timers>>
        BY <1>1, <2>3, <3>7
      <4>3. ModeFits'
        BY <3>5, <3>7, <4>1, <4>2 DEF ModeFits, isWriting
      <4>4. QED
        BY <1>3, <2>3, <3>4, <4>3, SentOutput
    <3>8. QED
      BY <3>6, <3>7
  <2>4. QED
    BY <2>1, <2>2, <2>3
<1>4. QED
  BY <1>2, <1>3

\* A connection that is open belongs to its server, so that the weak pointer of
\* the timer can be locked.
LEMMA TimerFiresOutput ==
  ASSUME Control, Output, TimerFires
  PROVE  Output'
<1>1. /\ UNCHANGED <<isDelaySend_, accepted>>
      /\ timers \in Nat /\ timers > 0 /\ timers' = timers - 1 /\ timers' \in Nat
      /\ past \subseteq Events
  BY DEF TimerFires, Output, OutputTypes
<1>2. state_ # "kConnecting"
  BY <1>1 DEF Output, NothingYet
<1>3. state_ = "kConnected" => "delayed" \in past
  BY <1>1 DEF Output, ModeFits
<1>4. CASE ~(Alive /\ state_ = "kConnected" /\ ~isWriting)
  <2>1. UNCHANGED <<state_, events, sendBuffer_, wire, isStartDelayTask_, past>>
    BY <1>4 DEF TimerFires, NothingSent
  <2>2. Sent
    BY <1>1, <2>1, FailedSent
  <2>3. ASSUME state_ = "kConnected"
        PROVE  ModeFits'
    <3>1. Alive
      BY <2>3 DEF Control, LifeFits, Alive
    <3>2. isWriting /\ isWriting'
      BY <1>4, <2>1, <2>3, <3>1 DEF isWriting
    <3>3. ModeFits
      BY <2>3 DEF Output
    <3>4. "now" \in past
      BY <1>1, <3>2, <3>3 DEF ModeFits
    <3>5. QED
      BY <1>3, <2>1, <2>3, <3>2, <3>3, <3>4, Zenon DEF ModeFits
  <2>4. QED
    BY <1>2, <2>1, <2>2, <2>3, SentOutput
<1>5. CASE Alive /\ state_ = "kConnected" /\ ~isWriting
  <2>1. PICK n \in Outcomes(Len(sendBuffer_)) :
          \/ /\ n > 0
             /\ wire' = wire \o SubSeq(sendBuffer_, 1, n)
             /\ Retrieve(n)
             /\ IF sendBuffer_' = <<>>
                THEN DrainedByTimer
                ELSE EnableWriting /\ UNCHANGED <<isStartDelayTask_, past>>
             /\ UNCHANGED state_
          \/ /\ ForceClose
             /\ UNCHANGED <<sendBuffer_, wire, isStartDelayTask_, past, events>>
    BY <1>5 DEF TimerFires, SendBuffered
  <2>2. CASE ForceClose /\ UNCHANGED <<sendBuffer_, wire, isStartDelayTask_, past, events>>
    BY <1>1, <1>5, <2>2, FailedSent, SentOutput, ForceCloseState
  <2>3. CASE /\ n > 0
             /\ wire' = wire \o SubSeq(sendBuffer_, 1, n)
             /\ Retrieve(n)
             /\ IF sendBuffer_' = <<>>
                THEN DrainedByTimer
                ELSE EnableWriting /\ UNCHANGED <<isStartDelayTask_, past>>
             /\ UNCHANGED state_
    <3>1. n \in 1 .. Len(sendBuffer_)
      BY <2>3 DEF Outcomes, Again, Fault
    <3>2. isStartDelayTask_' \in BOOLEAN /\ UNCHANGED past
      BY <2>3 DEF DrainedByTimer, Output, OutputTypes
    <3>3. Sent
      BY <1>1, <2>3, <3>1, <3>2, BufferSent
    <3>4. ModeFits /\ "delayed" \in past
      BY <1>3, <1>5 DEF Output
    <3>5. "now" \notin past => timers' = 0 /\ isStartDelayTask_
      BY <1>1, <3>4 DEF ModeFits
    <3>6. "now" \notin past => ~(timers' > 0)
      BY <3>5
    <3>7. CASE sendBuffer_' = <<>>
      <4>1. ~isStartDelayTask_' /\ ~isWriting'
        BY <1>5, <2>3, <3>7 DEF DrainedByTimer, isWriting
      <4>2. ModeFits'
        BY <3>2, <3>4, <3>6, <3>7, <4>1, Zenon DEF ModeFits
      <4>3. QED
        BY <1>5, <2>3, <3>3, <4>2, SentOutput
    <3>8. CASE sendBuffer_' # <<>>
      <4>1. isWriting' /\ UNCHANGED isStartDelayTask_
        BY <2>3, <3>8 DEF EnableWriting, isWriting
      <4>2. ModeFits'
        BY <3>2, <3>4, <3>5, <3>6, <3>8, <4>1, Zenon DEF ModeFits
      <4>3. QED
        BY <1>5, <2>3, <3>3, <4>2, SentOutput
    <3>9. QED
      BY <3>7, <3>8
  <2>4. QED
    BY <2>1, <2>2, <2>3
<1>6. QED
  BY <1>4, <1>5

-----------------------------------------------------------------------------
(* send(), delaySend() and setSendParam(). *)

\* All of the bytes go behind those in the buffer.
LEMMA Buffered ==
  ASSUME Output, NEW len \in Nat, Fits(len), accepted + len <= MaxBytes,
         sendBuffer_' = sendBuffer_ \o Bytes(len), accepted' = accepted + len,
         UNCHANGED wire
  PROVE  /\ sendBuffer_' \in Seq(Nat) /\ Len(sendBuffer_') <= CacheSize
         /\ Len(sendBuffer_') = Len(sendBuffer_) + len /\ Len(sendBuffer_) \in Nat
         /\ wire' \in Seq(Nat) /\ accepted' \in 0 .. MaxBytes
         /\ ~mixed => wire' \o sendBuffer_' = Count(accepted')
<1>1. /\ sendBuffer_ \in Seq(Nat) /\ wire \in Seq(Nat)
      /\ accepted \in Nat /\ Len(sendBuffer_) \in Nat /\ MaxBytes \in Nat
  BY BoundsAreSound DEF Output, OutputTypes
<1>2. /\ Bytes(len) \in Seq(Nat) /\ Len(Bytes(len)) = len
      /\ Count(accepted) \o Bytes(len) = Count(accepted + len)
  BY <1>1, BytesNumbered
<1>3. sendBuffer_' \in Seq(Nat) /\ Len(sendBuffer_') = Len(sendBuffer_) + len
  <2>1. /\ sendBuffer_ \o Bytes(len) \in Seq(Nat)
        /\ Len(sendBuffer_ \o Bytes(len)) = Len(sendBuffer_) + Len(Bytes(len))
    BY <1>1, <1>2, ConcatProperties
  <2>2. QED
    BY <1>2, <2>1
<1>4. wire \o (sendBuffer_ \o Bytes(len)) = (wire \o sendBuffer_) \o Bytes(len)
  <2> DEFINE data == Bytes(len)
  <2>1. data \in Seq(Nat)
    BY <1>2
  <2> HIDE DEF data
  <2>2. (wire \o sendBuffer_) \o data = wire \o (sendBuffer_ \o data)
    BY <1>1, <2>1, JoinedBytes
  <2>3. QED
    BY <2>2 DEF data
<1>5. ~mixed => wire' \o sendBuffer_' = Count(accepted')
  BY <1>2, <1>4 DEF Output
<1>6. Len(sendBuffer_') <= CacheSize
  <2>1. Len(sendBuffer_) + len <= CacheSize
    BY DEF Fits
  <2>2. QED
    BY <1>3, <2>1, Zenon
<1>7. accepted' \in 0 .. MaxBytes
  <2>1. accepted' = accepted + len /\ accepted + len <= MaxBytes
    OBVIOUS
  <2>2. QED
    BY <1>1, <2>1
<1>8. wire' \in Seq(Nat)
  BY <1>1
<1>9. QED
  BY <1>1, <1>3, <1>5, <1>6, <1>7, <1>8, Zenon

\* Nothing is buffered: some of the bytes go out at once and the rest, if there is
\* room for it, behind them; or, without room, only the former count.
LEMMA SplitSent ==
  ASSUME Output, NEW len \in Nat, NEW n \in 0 .. len, accepted + len <= MaxBytes,
         wire' = wire \o SubSeq(Bytes(len), 1, n),
         \/ /\ Fits(len - n)
            /\ sendBuffer_' = sendBuffer_ \o SubSeq(Bytes(len), n + 1, len)
            /\ accepted' = accepted + len
         \/ UNCHANGED sendBuffer_ /\ accepted' = accepted + n
  PROVE  /\ sendBuffer_' \in Seq(Nat) /\ Len(sendBuffer_') <= CacheSize
         /\ wire' \in Seq(Nat) /\ accepted' \in 0 .. MaxBytes
         /\ \/ UNCHANGED sendBuffer_
            \/ Len(sendBuffer_') = Len(sendBuffer_) + (len - n)
         /\ ~mixed /\ sendBuffer_ = <<>> => wire' \o sendBuffer_' = Count(accepted')
<1>1. /\ sendBuffer_ \in Seq(Nat) /\ wire \in Seq(Nat)
      /\ accepted \in Nat /\ Len(sendBuffer_) \in Nat /\ MaxBytes \in Nat
      /\ Len(sendBuffer_) <= CacheSize
      /\ n \in Nat /\ n <= len
  BY BoundsAreSound DEF Output, OutputTypes
<1> DEFINE data == Bytes(len)
           first == SubSeq(data, 1, n)
           rest == SubSeq(data, n + 1, len)
<1>2. /\ data \in Seq(Nat) /\ Len(data) = len
      /\ Count(accepted) \o data = Count(accepted + len)
  BY <1>1, BytesNumbered
<1>3. /\ first \in Seq(Nat) /\ rest \in Seq(Nat) /\ Len(rest) = len - n
      /\ (wire \o first) \o rest = wire \o data
  BY <1>1, <1>2, Cut
<1>4. Count(accepted) \o first = Count(accepted + n)
  BY <1>1, FirstBytes, BytesNumbered
<1> HIDE DEF data, first, rest
<1>5. wire' = wire \o first
  BY DEF first, data
<1>6. wire' \in Seq(Nat)
  BY <1>1, <1>3, <1>5, ConcatProperties
<1>7. ~mixed /\ sendBuffer_ = <<>> => wire = Count(accepted)
  BY <1>1, ConcatEmptySeq DEF Output
<1>8. CASE Fits(len - n) /\ sendBuffer_' = sendBuffer_ \o rest /\ accepted' = accepted + len
  <2>1. /\ sendBuffer_ \o rest \in Seq(Nat)
        /\ Len(sendBuffer_ \o rest) = Len(sendBuffer_) + Len(rest)
    BY <1>1, <1>3, ConcatProperties
  <2>2. sendBuffer_ = <<>> => sendBuffer_ \o rest = rest
    BY <1>3, ConcatEmptySeq
  <2>3. ~mixed /\ sendBuffer_ = <<>> => wire' \o sendBuffer_' = Count(accepted')
    BY <1>2, <1>3, <1>5, <1>7, <1>8, <2>2
  <2>4. sendBuffer_' \in Seq(Nat) /\ Len(sendBuffer_') = Len(sendBuffer_) + (len - n)
    BY <1>3, <1>8, <2>1, Zenon
  <2>5. Len(sendBuffer_') <= CacheSize
    <3>1. Len(sendBuffer_) + (len - n) <= CacheSize
      BY <1>8 DEF Fits
    <3>2. QED
      BY <2>4, <3>1, Zenon
  <2>6. accepted' \in 0 .. MaxBytes
    <3>1. accepted' = accepted + len /\ accepted + len <= MaxBytes
      BY <1>8
    <3>2. QED
      BY <1>1, <3>1
  <2>7. QED
    BY <1>6, <2>3, <2>4, <2>5, <2>6, Zenon
<1>9. CASE UNCHANGED sendBuffer_ /\ accepted' = accepted + n
  <2>1. sendBuffer_ = <<>> => wire' \o sendBuffer_' = wire'
    BY <1>6, <1>9, ConcatEmptySeq
  <2>2. ~mixed /\ sendBuffer_ = <<>> => wire' \o sendBuffer_' = Count(accepted')
    BY <1>4, <1>5, <1>7, <1>9, <2>1
  <2>3. accepted' \in 0 .. MaxBytes
    <3>1. accepted' = accepted + n /\ accepted + len <= MaxBytes
      BY <1>9
    <3>2. QED
      BY <1>1, <3>1
  <2>4. sendBuffer_' \in Seq(Nat) /\ Len(sendBuffer_') <= CacheSize
    BY <1>1, <1>9, Zenon
  <2>5. QED
    BY <1>6, <1>9, <2>2, <2>3, <2>4, Zenon
<1>10. QED
  BY <1>8, <1>9 DEF rest, data

\* delaySend(): when there is room, a timer is under way, or has been, until they
\* are sent.
LEMMA DelayedFits ==
  ASSUME ModeFits, timers \in Nat,
         "now" \notin past' => "now" \notin past,
         "delayed" \in past', past \subseteq past',
         isStartDelayTask_' = TRUE,
         timers' = IF isStartDelayTask_ THEN timers ELSE timers + 1,
         UNCHANGED events,
         sendBuffer_ # <<>> => sendBuffer_' # <<>>,
         sendBuffer_' # <<>> \/ "now" \in past' \/ "empty" \in past'
  PROVE  ModeFits'
<1>1. UNCHANGED isWriting
  BY DEF isWriting
<1>2. isStartDelayTask_' => timers' > 0 \/ isWriting' \/ "stale" \in past'
  <2>1. CASE isStartDelayTask_
    <3>1. timers' = timers
      BY <2>1
    <3>2. QED
      BY <1>1, <2>1, <3>1 DEF ModeFits
  <2>2. CASE ~isStartDelayTask_
    <3>1. timers' = timers + 1
      BY <2>2
    <3>2. QED
      BY <3>1
  <2>3. QED
    BY <2>1, <2>2
<1>3. isWriting' => sendBuffer_' # <<>>
  BY <1>1 DEF ModeFits
<1>4. ASSUME "now" \notin past', timers' > 0
      PROVE  timers' = 1 /\ ~isWriting'
  <2>1. CASE isStartDelayTask_
    <3>1. timers' = timers
      BY <2>1
    <3>2. QED
      BY <1>1, <1>4, <3>1 DEF ModeFits
  <2>2. CASE ~isStartDelayTask_
    <3>1. timers' = timers + 1
      BY <2>2
    <3>2. ~(timers > 0) /\ ~isWriting
      BY <1>4, <2>2 DEF ModeFits
    <3>3. QED
      BY <1>1, <3>1, <3>2
  <2>3. QED
    BY <2>1, <2>2
<1>5. QED
  BY <1>2, <1>3, <1>4, Zenon DEF ModeFits

LEMMA DelayedOutput ==
  ASSUME Output, NEW len \in 0 .. MaxBytes, delaySend(len), accepted + len <= MaxBytes,
         state_ # "kConnecting", UNCHANGED isDelaySend_
  PROVE  Output'
<1>1. len \in Nat
  BY BoundsAreSound
<1>2. /\ timers \in Nat /\ isDelaySend_ \in BOOLEAN /\ past \subseteq Events
      /\ isStartDelayTask_ \in BOOLEAN
  BY DEF Output, OutputTypes
<1>3. /\ past \subseteq past' /\ "delayed" \in past' /\ past' \subseteq Events
      /\ ~mixed' => ~mixed
      /\ len = 0 /\ sendBuffer_ = <<>> /\ "now" \notin past' => "empty" \in past'
  BY <1>2 DEF delaySend, Events, mixed
<1>4. CASE Fits(len)
  <2>1. /\ sendBuffer_' = sendBuffer_ \o Bytes(len)
        /\ accepted' = accepted + len
        /\ isStartDelayTask_' = TRUE
        /\ timers' = IF isStartDelayTask_ THEN timers ELSE timers + 1
        /\ UNCHANGED <<state_, wire, events>>
    BY <1>4 DEF delaySend, StartDelayTask
  <2>2. /\ sendBuffer_' \in Seq(Nat) /\ Len(sendBuffer_') <= CacheSize
        /\ Len(sendBuffer_') = Len(sendBuffer_) + len /\ Len(sendBuffer_) \in Nat
        /\ wire' \in Seq(Nat) /\ accepted' \in 0 .. MaxBytes
        /\ ~mixed => wire' \o sendBuffer_' = Count(accepted')
    BY <1>1, <1>4, <2>1, Buffered
  <2>3. timers' \in Nat
    BY <1>2, <2>1
  <2>4. OutputTypes'
    BY <1>2, <1>3, <2>1, <2>2, <2>3, Zenon DEF OutputTypes
  <2>5. sendBuffer_ # <<>> \/ len # 0 => sendBuffer_' # <<>>
    <3>1. sendBuffer_ # <<>> => Len(sendBuffer_) # 0
      BY NotEmpty DEF Output, OutputTypes
    <3>2. sendBuffer_ # <<>> \/ len # 0 => Len(sendBuffer_') # 0
      BY <1>1, <2>2, <3>1
    <3>3. QED
      BY <3>2, EmptySeq
  <2>6. ASSUME state_ = "kConnected"
        PROVE  ModeFits'
    <3>1. ModeFits
      BY <2>6 DEF Output
    <3>2. "now" \notin past' => "now" \notin past
      BY <1>3
    <3>3. sendBuffer_' # <<>> \/ "now" \in past' \/ "empty" \in past'
      BY <1>3, <2>5
    <3>4. QED
      BY <1>2, <1>3, <2>1, <2>5, <3>1, <3>2, <3>3, DelayedFits
  <2>7. ~mixed' => wire' \o sendBuffer_' = Count(accepted')
    BY <1>3, <2>2
  <2>8. Count(accepted)' = Count(accepted')
    BY DEF Count
  <2>9. Sent
    BY <2>4, <2>7, <2>8, Zenon DEF Sent
  <2>10. QED
    BY <2>1, <2>6, <2>9, SentOutput
<1>5. CASE ~Fits(len)
  <2>1. /\ ForceClose
        /\ UNCHANGED <<sendBuffer_, accepted, isStartDelayTask_, timers, wire>>
    BY <1>5 DEF delaySend
  <2>2. Sent
    BY <1>2, <1>3, <2>1, FailedSent
  <2>3. QED
    BY <2>1, <2>2, ForceCloseState, SentOutput
<1>6. QED
  BY <1>4, <1>5

\* send(): ... and without delay, the poller is asked for as long as there is a rest.
SendsNow ==
  /\ past' = (past \ {"empty"}) \cup {"now"}
  /\ UNCHANGED <<isDelaySend_, isStartDelayTask_, timers>>

LEMMA NowFits ==
  ASSUME ModeFits, SendsNow,
         \/ isWriting' /\ sendBuffer_' # <<>>
         \/ UNCHANGED <<events, sendBuffer_>>
  PROVE  ModeFits'
<1>1. /\ "now" \in past'
      /\ "stale" \in past => "stale" \in past'
      /\ "delayed" \notin past' => "delayed" \notin past
  BY DEF SendsNow
<1>2. UNCHANGED <<isStartDelayTask_, timers>>
  BY DEF SendsNow
<1>3. CASE isWriting' /\ sendBuffer_' # <<>>
  BY <1>1, <1>2, <1>3, Zenon DEF ModeFits
<1>4. CASE UNCHANGED <<events, sendBuffer_>>
  <2>1. UNCHANGED <<isWriting, sendBuffer_>>
    BY <1>4 DEF isWriting
  <2>2. QED
    BY <1>1, <1>2, <2>1, Zenon DEF ModeFits
<1>5. QED
  BY <1>3, <1>4

\* Who never delays sends in order: what is buffered is being written.
LEMMA NowUnmixed ==
  ASSUME Output, SendsNow, state_ = "kConnected", ~mixed'
  PROVE  ~mixed /\ (~isWriting => sendBuffer_ = <<>>)
<1>1. "delayed" \notin past
  BY DEF SendsNow, mixed
<1>2. ~isStartDelayTask_ /\ ModeFits
  BY <1>1 DEF Output, ModeFits
<1>3. ~isWriting => sendBuffer_ = <<>>
  BY <1>2, Zenon DEF ModeFits
<1>4. QED
  BY <1>1, <1>3 DEF mixed

LEMMA NowTypes ==
  ASSUME Output, SendsNow,
         sendBuffer_' \in Seq(Nat), Len(sendBuffer_') <= CacheSize,
         wire' \in Seq(Nat), accepted' \in 0 .. MaxBytes,
         ~mixed' => wire' \o sendBuffer_' = Count(accepted')
  PROVE  Sent
<1>1. /\ timers' \in Nat /\ isDelaySend_' \in BOOLEAN /\ isStartDelayTask_' \in BOOLEAN
      /\ past' \subseteq Events
  BY DEF Output, OutputTypes, SendsNow, Events
<1>2. OutputTypes'
  BY <1>1, Zenon DEF OutputTypes
<1>3. Count(accepted)' = Count(accepted')
  BY DEF Count
<1>4. QED
  BY <1>2, <1>3, Zenon DEF Sent

LEMMA SendRestOutput ==
  ASSUME Output, NEW len \in Nat, NEW n \in 0 .. len, accepted + len <= MaxBytes,
         wire' = wire \o SubSeq(Bytes(len), 1, n), SendRest(len, n), n < len \/ len = 0,
         state_ = "kConnected", ~isWriting, SendsNow
  PROVE  Output'
<1>1. /\ sendBuffer_' \in Seq(Nat) /\ Len(sendBuffer_') <= CacheSize
      /\ wire' \in Seq(Nat) /\ accepted' \in 0 .. MaxBytes
      /\ ~mixed /\ sendBuffer_ = <<>> => wire' \o sendBuffer_' = Count(accepted')
  BY SplitSent DEF SendRest, RestOfData
<1>2. Sent
  <2>1. ~mixed' => wire' \o sendBuffer_' = Count(accepted')
    BY <1>1, NowUnmixed
  <2>2. QED
    BY <1>1, <2>1, NowTypes
<1>3. CASE Fits(len - n)
  <2>1. /\ sendBuffer_' = sendBuffer_ \o SubSeq(Bytes(len), n + 1, len)
        /\ IF n < len THEN "write" \in events' ELSE UNCHANGED events
        /\ UNCHANGED state_
    BY <1>3 DEF SendRest, RestOfData, EnableWriting
  <2>2. /\ sendBuffer_ \in Seq(Nat)
        /\ SubSeq(Bytes(len), n + 1, len) \in Seq(Nat)
        /\ Len(SubSeq(Bytes(len), n + 1, len)) = len - n
    <3>1. Bytes(len) \in Seq(Nat) /\ Len(Bytes(len)) = len
      BY BytesNumbered DEF Output, OutputTypes
    <3>2. QED
      BY <3>1, Cut DEF Output, OutputTypes
  <2>3. CASE n < len
    <3>1. sendBuffer_' # <<>>
      <4>1. Len(sendBuffer_ \o SubSeq(Bytes(len), n + 1, len)) = Len(sendBuffer_) + (len - n)
        BY <2>2, ConcatProperties
      <4>2. Len(sendBuffer_) \in Nat
        BY <2>2, LenProperties
      <4>3. Len(sendBuffer_') # 0
        BY <2>1, <2>3, <4>1, <4>2
      <4>4. QED
        BY <4>3, EmptySeq
    <3>2. ModeFits' /\ UNCHANGED state_
      BY <2>1, <2>3, <3>1, NowFits DEF Output, isWriting
    <3>3. QED
      BY <1>2, <3>2, SentOutput
  <2>4. CASE ~(n < len)
    <3>1. Len(SubSeq(Bytes(len), n + 1, len)) = 0
      BY <2>2, <2>4
    <3>2. SubSeq(Bytes(len), n + 1, len) = <<>>
      BY <2>2, <3>1, NotEmpty
    <3>3. sendBuffer_' = sendBuffer_
      BY <2>1, <2>2, <3>2, ConcatEmptySeq
    <3>4. ModeFits' /\ UNCHANGED state_
      BY <2>1, <2>4, <3>3, NowFits DEF Output
    <3>5. QED
      BY <1>2, <3>4, SentOutput
  <2>5. QED
    BY <2>3, <2>4
<1>4. CASE ~Fits(len - n)
  <2>1. ForceClose
    BY <1>4 DEF SendRest
  <2>2. QED
    BY <1>2, <2>1, SentOutput, ForceCloseState
<1>5. QED
  BY <1>3, <1>4

\* What is sent while the poller is writing goes behind what it has to write.
LEMMA SendQueuedOutput ==
  ASSUME Output, NEW len \in 0 .. MaxBytes, accepted + len <= MaxBytes,
         SendQueued(len), isWriting, state_ = "kConnected", SendsNow
  PROVE  Output'
<1>1. /\ len \in Nat /\ 0 \in 0 .. len /\ len \in 0 .. len
  BY BoundsAreSound
<1>2. accepted \in Nat /\ sendBuffer_ \in Seq(Nat)
  BY DEF Output, OutputTypes
<1>3. len - 0 = len /\ 0 + 1 = 1 /\ accepted + 0 = accepted
  BY <1>1, <1>2
<1>4. ModeFits
  BY DEF Output
<1>5. CASE Fits(len)
  <2>1. /\ sendBuffer_' = sendBuffer_ \o SubSeq(Bytes(len), 1, len)
        /\ accepted' = accepted + len
        /\ events \subseteq events'
        /\ UNCHANGED <<state_, wire>>
    BY <1>3, <1>5 DEF SendQueued, SendRest, RestOfData, EnableWriting
  <2>2. sendBuffer_' = sendBuffer_ \o Bytes(len)
    <3>1. SubSeq(Bytes(len), 1, len) = Bytes(len)
      BY <1>1, <1>2, FirstBytes
    <3>2. QED
      BY <2>1, <3>1
  <2>3. /\ sendBuffer_' \in Seq(Nat) /\ Len(sendBuffer_') <= CacheSize
        /\ Len(sendBuffer_') = Len(sendBuffer_) + len /\ Len(sendBuffer_) \in Nat
        /\ wire' \in Seq(Nat) /\ accepted' \in 0 .. MaxBytes
        /\ ~mixed => wire' \o sendBuffer_' = Count(accepted')
    BY <1>1, <1>5, <2>1, <2>2, Buffered
  <2>4. Sent
    <3>1. ~mixed' => wire' \o sendBuffer_' = Count(accepted')
      BY <2>3, NowUnmixed
    <3>2. QED
      BY <2>3, <3>1, NowTypes
  <2>5. sendBuffer_' # <<>>
    <3>1. sendBuffer_ # <<>>
      BY <1>4 DEF ModeFits
    <3>2. Len(sendBuffer_) # 0
      BY <1>2, <3>1, NotEmpty
    <3>3. Len(sendBuffer_') # 0
      BY <1>1, <2>3, <3>2
    <3>4. QED
      BY <3>3, EmptySeq
  <2>6. isWriting'
    BY <2>1 DEF isWriting
  <2>7. ModeFits'
    BY <1>4, <2>5, <2>6, NowFits
  <2>8. QED
    BY <2>1, <2>4, <2>7, SentOutput
<1>6. CASE ~Fits(len)
  <2>1. ForceClose /\ UNCHANGED <<sendBuffer_, wire, accepted>>
    BY <1>3, <1>6 DEF SendQueued, SendRest
  <2>2. Sent
    <3>1. /\ sendBuffer_' \in Seq(Nat) /\ Len(sendBuffer_') <= CacheSize
          /\ wire' \in Seq(Nat) /\ accepted' \in 0 .. MaxBytes
      BY <2>1 DEF Output, OutputTypes
    <3>2. ~mixed' => wire' \o sendBuffer_' = Count(accepted')
      BY <2>1, NowUnmixed DEF Output
    <3>3. QED
      BY <3>1, <3>2, NowTypes
  <2>3. QED
    BY <2>1, <2>2, SentOutput, ForceCloseState
<1>7. QED
  BY <1>5, <1>6

\* What is sent when nothing is buffered is given to the kernel, as far as it goes.
LEMMA SendNowOutput ==
  ASSUME Output, NEW len \in 0 .. MaxBytes, accepted + len <= MaxBytes,
         SendNow(len), ~isWriting, state_ = "kConnected", SendsNow
  PROVE  Output'
<1>1. /\ len \in Nat /\ 0 \in 0 .. len /\ len \in 0 .. len
  BY BoundsAreSound
<1>2. accepted \in Nat /\ ModeFits
  BY DEF Output, OutputTypes
<1>3. PICK n \in Outcomes(len) :
        /\ wire' = wire \o SubSeq(Bytes(len), 1, IF n > 0 THEN n ELSE 0)
        /\ \/ n = Fault /\ ForceClose /\ UNCHANGED <<sendBuffer_, accepted, events>>
           \/ /\ n = len
              /\ accepted' = accepted + len
              /\ UNCHANGED <<sendBuffer_, state_, events>>
           \/ n \notin {len, Fault} /\ SendRest(len, IF n > 0 THEN n ELSE 0)
  BY DEF SendNow
<1> DEFINE nwrote == IF n > 0 THEN n ELSE 0
<1>4. /\ nwrote \in 0 .. len
      /\ n \notin {len, Fault} => nwrote < len \/ len = 0
      /\ n = len => nwrote = len
      /\ n = Fault => nwrote = 0
  BY <1>1 DEF Outcomes, Again, Fault
<1>5. wire' = wire \o SubSeq(Bytes(len), 1, nwrote)
  BY <1>3
<1> HIDE DEF nwrote
<1>6. CASE \/ n = Fault /\ ForceClose /\ UNCHANGED <<sendBuffer_, accepted, events>>
           \/ /\ n = len
              /\ accepted' = accepted + len
              /\ UNCHANGED <<sendBuffer_, state_, events>>
  <2>1. accepted' = accepted + nwrote /\ UNCHANGED <<sendBuffer_, events>>
    BY <1>2, <1>4, <1>6
  <2>2. /\ sendBuffer_' \in Seq(Nat) /\ Len(sendBuffer_') <= CacheSize
        /\ wire' \in Seq(Nat) /\ accepted' \in 0 .. MaxBytes
        /\ ~mixed /\ sendBuffer_ = <<>> => wire' \o sendBuffer_' = Count(accepted')
    BY <1>1, <1>4, <1>5, <2>1, SplitSent
  <2>3. Sent
    <3>1. ~mixed' => wire' \o sendBuffer_' = Count(accepted')
      BY <2>2, NowUnmixed
    <3>2. QED
      BY <2>2, <3>1, NowTypes
  <2>4. ModeFits'
    BY <1>2, <2>1, NowFits
  <2>5. state_' # "kConnecting"
    BY <1>6, ForceCloseState
  <2>6. QED
    BY <2>3, <2>4, <2>5, SentOutput
<1>7. CASE n \notin {len, Fault} /\ SendRest(len, nwrote)
  BY <1>1, <1>4, <1>5, <1>7, SendRestOutput
<1>8. QED
  BY <1>3, <1>6, <1>7 DEF nwrote

LEMMA UserSendsOutput ==
  ASSUME Control, Output, NEW len \in 0 .. MaxBytes, Send(len) \/ DelaySend(len)
  PROVE  Output'
<1>1. CASE Send(len)
  <2>1. /\ accepted + len <= MaxBytes /\ state_ = "kConnected"
        /\ UNCHANGED isDelaySend_
    BY <1>1 DEF Send, MaySend
  <2>2. CASE isDelaySend_
    <3>1. delaySend(len)
      BY <1>1, <2>2 DEF Send
    <3>2. QED
      BY <2>1, <3>1, DelayedOutput
  <2>3. CASE ~isDelaySend_
    <3>1. SendsNow
      BY <1>1, <2>3 DEF Send, SendsNow
    <3>2. CASE isWriting
      BY <1>1, <2>1, <2>3, <3>1, <3>2, SendQueuedOutput DEF Send
    <3>3. CASE ~isWriting
      BY <1>1, <2>1, <2>3, <3>1, <3>3, SendNowOutput DEF Send
    <3>4. QED
      BY <3>2, <3>3
  <2>4. QED
    BY <2>2, <2>3
<1>2. CASE DelaySend(len)
  <2>1. accepted + len <= MaxBytes /\ delaySend(len) /\ UNCHANGED isDelaySend_
    BY <1>2 DEF DelaySend, MaySend
  <2>2. state_ # "kConnecting"
    BY <1>2, UserComesLater DEF DelaySend, MaySend, UserHasConnection
  <2>3. QED
    BY <2>1, <2>2, DelayedOutput
<1>3. QED
  BY <1>1, <1>2

\* The mode may be chosen at any time: it moves no bytes.
LEMMA SetSendParamOutput ==
  ASSUME Control, Output, SetSendParam
  PROVE  Output'
<1>1. /\ isDelaySend_' = TRUE
      /\ UNCHANGED <<state_, events, past, isStartDelayTask_, sendBuffer_, wire, accepted,
                     timers>>
  BY DEF SetSendParam, life, channel
<1>2. state_ # "kConnecting"
  BY UserComesLater DEF SetSendParam, UserHasConnection
<1>3. OutputTypes'
  BY <1>1 DEF Output, OutputTypes
<1>4. UNCHANGED <<mixed, Count(accepted)>>
  BY <1>1 DEF mixed, Count
<1>5. UNCHANGED ModeFits
  BY <1>1 DEF ModeFits, isWriting
<1>6. QED
  BY <1>1, <1>2, <1>3, <1>4, <1>5 DEF Output

-----------------------------------------------------------------------------
(* The steps that send nothing. *)

LEMMA DisconnectState ==
  ASSUME NEW frame, Disconnect(frame)
  PROVE  state_' = "kDisconnected"
BY DEF Disconnect

LEMMA QuietOutput ==
  ASSUME Control, Output,
         \/ \E ready \in SUBSET {"IN", "OUT", "HUP", "ERR"} : Poll(ready)
         \/ StageStep \/ RunFunctor \/ EnterOther \/ Keep
         \/ HandleEventReturns \/ Return \/ HandleClose \/ HandleError \/ HandleRead
         \/ UserForceClose \/ DestroyServer \/ UNCHANGED vars
  PROVE  Output'
<1>1. UNCHANGED output
  BY DEF Poll, StageStep, HandleEvent, EventsDone, TimersDone, FunctorsDone, Goes,
         RunFunctor, ForceCloseInLoop, WriteComplete, ConnectDestroyed, Runs, EnterOther,
         Keep, HandleEventReturns, Return, HandleClose, HandleError, HandleRead,
         UserForceClose, DestroyServer, vars
<1>2. UNCHANGED <<state_, events>> \/ state_' \in {"kDisconnecting", "kDisconnected"}
  <2>1. CASE \/ \E ready \in SUBSET {"IN", "OUT", "HUP", "ERR"} : Poll(ready)
             \/ StageStep \/ EnterOther \/ Keep \/ HandleEventReturns \/ Return
             \/ UserForceClose \/ UNCHANGED vars
    BY <2>1 DEF Poll, StageStep, HandleEvent, EventsDone, TimersDone, FunctorsDone, Goes,
         EnterOther, Keep, HandleEventReturns, Return, UserForceClose, ForceClose, vars,
         life, channel
  <2>2. CASE HandleClose \/ HandleError \/ HandleRead
    BY <2>2, DisconnectState DEF HandleClose, HandleError, HandleRead, handleClose, life
  <2>3. CASE RunFunctor
    BY <2>3, DisconnectState
       DEF RunFunctor, ForceCloseInLoop, WriteComplete, ConnectDestroyed,
           connectDestroyed, handleClose, life
  <2>4. CASE DestroyServer
    BY <2>4, DisconnectState DEF DestroyServer, connectDestroyed, life
  <2>5. QED
    BY <2>1, <2>2, <2>3, <2>4
<1>3. QED
  BY <1>1, <1>2, OutputKept

LEMMA StepOutput ==
  ASSUME Control, Output, [Next]_vars
  PROVE  Output'
<1>1. CASE NewConnection \/ TimerFires \/ HandleWrite \/ SetSendParam
  BY <1>1, NewConnectionOutput, TimerFiresOutput, HandleWriteOutput, SetSendParamOutput
<1>2. CASE \E len \in 0 .. MaxBytes : Send(len) \/ DelaySend(len)
  BY <1>2, UserSendsOutput
<1>3. CASE \/ \E ready \in SUBSET {"IN", "OUT", "HUP", "ERR"} : Poll(ready)
           \/ StageStep \/ RunFunctor \/ EnterOther \/ Keep
           \/ HandleEventReturns \/ Return \/ HandleClose \/ HandleError \/ HandleRead
           \/ UserForceClose \/ DestroyServer \/ UNCHANGED vars
  BY <1>3, QuietOutput
<1>4. QED
  BY <1>1, <1>2, <1>3 DEF Next, CallStep, HandlerStep

-----------------------------------------------------------------------------
(***************************************************************************)
(* Theorems.                                                               *)
(***************************************************************************)

\* The state of a connection, its registration with the poller, the references to
\* it, the callbacks under way and the bytes it has taken always fit together.
THEOREM RecordsAgree == Spec => [](Control /\ Output)
<1>1. Init => Control /\ Output
  BY InitControl, InitOutput
<1>2. Control /\ Output /\ [Next]_vars => (Control /\ Output)'
  BY StepControl, StepOutput
<1>3. QED
  BY <1>1, <1>2, PTL DEF Spec

\* The connection's state keeps its types; at most two callbacks are nested, the
\* buffer does not outgrow its capacity, and a connection comes up and goes down
\* once at most.
THEOREM TypeCorrect == Spec => []TypeOK
<1>1. ASSUME Control, Output
      PROVE  TypeOK
  <2>1. ups \in 0 .. 1 /\ downs \in 0 .. 1
    <3>1. ups \in {0, 1} /\ downs \in {0, 1}
      BY <1>1 DEF Control, LifeFits, Unknown
    <3>2. QED
      BY <3>1
  <2>2. todo \subseteq DOMAIN Handlers
    BY <1>1 DEF Control, ControlTypes, Handlers
  <2>3. QED
    BY <1>1, <2>1, <2>2, Zenon DEF Control, ControlTypes, Output, OutputTypes, TypeOK
<1>2. QED
  BY <1>1, RecordsAgree, PTL

\* The peer is sent what the user sent, in order and each byte once, whichever of
\* send(), handleWrite() and handDelaySend() writes it and however little the kernel
\* takes, whatever the capacity of the buffer.
THEOREM StreamIsIntact == Spec => []StreamIntact
<1>1. Control /\ Output => StreamIntact
  BY DEF Output, StreamIntact, Count
<1>2. QED
  BY <1>1, RecordsAgree, PTL

\* send() meets the buffer it asserts, empty unless the poller is asked, whatever the
\* kernel took before, as long as no send has been delayed, by hand or in the mode of
\* setSendParam(): what the run TcpConnectionMixed finds needs one.
THEOREM SendMeetsItsAssertion == Spec => []("delayed" \notin past => SendAsserts)
<1>1. ASSUME Control, Output, "delayed" \notin past, state_ = "kConnected"
      PROVE  isWriting <=> sendBuffer_ # <<>>
  <2>1. ModeFits
    BY <1>1 DEF Output
  <2>2. ~isStartDelayTask_
    BY <1>1, <2>1, Zenon DEF ModeFits
  <2>3. QED
    BY <2>1, <2>2, Zenon DEF ModeFits
<1>2. Control /\ Output => ("delayed" \notin past => SendAsserts)
  BY <1>1 DEF SendAsserts
<1>3. QED
  BY <1>2, RecordsAgree, PTL

\* Bytes in the buffer of an open connection have somebody to send them, the
\* poller or a delayed-send timer, and neither finds the buffer empty, whatever the
\* user calls and with no bytes too, except in the three ways that SomebodySends
\* names.
THEOREM SomebodyAlwaysSends == Spec => []SomebodySends
<1>1. ASSUME Control, Output
      PROVE  SomebodySends
  <2> SUFFICES ASSUME state_ = "kConnected"
               PROVE  /\ sendBuffer_ # <<>> => isWriting \/ timers > 0 \/ "stale" \in past
                      /\ isWriting => sendBuffer_ # <<>>
                      /\ timers > 0 /\ ~isWriting =>
                           sendBuffer_ # <<>> \/ mixed \/ "empty" \in past
    BY DEF SomebodySends
  <2>1. ModeFits /\ timers \in Nat
    BY <1>1 DEF Output, OutputTypes
  <2>2. sendBuffer_ # <<>> => isWriting \/ timers > 0 \/ "stale" \in past
    BY <2>1, Zenon DEF ModeFits
  <2>3. isWriting => sendBuffer_ # <<>>
    BY <2>1, Zenon DEF ModeFits
  <2>4. ASSUME timers > 0, ~mixed
        PROVE  sendBuffer_ # <<>> \/ "empty" \in past
    <3>1. "delayed" \in past
      <4>1. timers # 0
        BY <2>1, <2>4
      <4>2. QED
        BY <2>1, <4>1, Zenon DEF ModeFits
    <3>2. "now" \notin past
      BY <2>4, <3>1 DEF mixed
    <3>3. QED
      BY <2>1, <2>4, <3>2, Zenon DEF ModeFits
  <2>5. QED
    BY <2>2, <2>3, <2>4
<1>2. QED
  BY <1>1, RecordsAgree, PTL

\* handleWrite() finds an open connection still writing: nothing that happens between
\* poll() and the handler stops the writing of a connection that stays open.
THEOREM WritesAreFresh == Spec => []NoStaleWrite
<1>1. Control /\ Output => NoStaleWrite
  BY DEF Control, EventsFit
<1>2. QED
  BY <1>1, RecordsAgree, PTL

\* The hang-up that closes a connection finds it open, whatever has been called
\* since it was polled.
THEOREM HangUpClosesOnce == Spec => []CloseOnlyOnce
<1>1. Control /\ Output => CloseOnlyOnce
  BY DEF Control, EventsFit, Open, CloseOnlyOnce
<1>2. QED
  BY <1>1, RecordsAgree, PTL

\* The user is told of a connection that comes up before anything else, and of
\* nothing but its end after that.
THEOREM CallbacksKeepOrder == Spec => []CallbacksInOrder
<1>1. ASSUME Control, Output
      PROVE  CallbacksInOrder
  <2>1. downs <= ups /\ ups <= 1
    <3>1. /\ ups = IF state_ = "kConnecting" THEN 0 ELSE 1
          /\ downs = IF state_ = "kDisconnected" THEN 1 ELSE 0
      BY <1>1 DEF Control, LifeFits, Unknown
    <3>2. QED
      BY <3>1
  <2>2. ASSUME stack # <<>>, stack[1] \in {"up", "message"}
        PROVE  downs = 0
    <3>1. 1 \in 1 .. Len(stack)
      <4>1. Len(stack) \in 1 .. 2
        BY <1>1, <2>2, CallsNested
      <4>2. QED
        BY <4>1
    <3>2. state_ # "kDisconnected"
      BY <1>1, <2>2, <3>1 DEF Control, CallsFit, FrameFits
    <3>3. QED
      BY <1>1, <3>2 DEF Control, LifeFits
  <2>3. QED
    BY <2>1, <2>2 DEF CallbacksInOrder
<1>2. QED
  BY <1>1, RecordsAgree, PTL

\* A connection outlives every use the loop makes of its channel: while it is
\* registered and until handleEvent() has returned, somebody refers to it.
THEOREM UseIsSafe == Spec => []UsedIsAlive
<1>1. ASSUME Control, Output
      PROVE  UsedIsAlive
  <2>1. CASE addedToLoop_
    <3>1. owned \/ "forceCloseInLoop" \in Range(queue)
      BY <1>1, <2>1 DEF Control, LifeFits, Open
    <3>2. QED
      BY <3>1, InRange DEF UsedIsAlive, Alive
  <2>2. CASE eventHandling_
    BY <1>1, <2>2 DEF Control, EventsFit, UsedIsAlive, Alive
  <2>3. QED
    BY <2>1, <2>2 DEF UsedIsAlive
<1>2. QED
  BY <1>1, RecordsAgree, PTL

-----------------------------------------------------------------------------
(***************************************************************************)
(* The connection's life, as its server counts on it.                      *)
(***************************************************************************)
\* An open connection has its server or has been destroyed, and connectDestroyed()
\* is queued for a connection that the server has let go.
LetGo ==
  /\ state_ = "kDisconnecting" => owned \/ destroyed_
  /\ "connectDestroyed" \in Range(queue) => ~owned /\ state_ = "kDisconnected"

LifeStep == [LifeHere!Next]_(LifeHere!vars) /\ LetGo'

SameLife == UNCHANGED <<state_, destroyed_, owned>>
NothingQueued == Range(queue') \subseteq Range(queue)

\* Most steps do not concern the server.
LEMMA SameLifeStep ==
  ASSUME LetGo, SameLife, NothingQueued
  PROVE  LifeStep
BY DEF LetGo, SameLife, NothingQueued, LifeStep, LifeHere!vars

\* Bytes are sent, or a close begins.
LEMMA MovesLifeStep ==
  ASSUME Control, LetGo, Moves, UNCHANGED <<destroyed_, owned>>
  PROVE  LifeStep
<1>1. CASE UNCHANGED <<state_, queue>>
  BY <1>1, SameLifeStep DEF SameLife, NothingQueued
<1>2. CASE Reports("writeComplete")
  <2>1. Range(queue') = Range(queue) \cup {"writeComplete"} /\ UNCHANGED state_
    BY <1>2, Queued DEF Reports, Tasks
  <2>2. QED
    BY <2>1 DEF LetGo, LifeStep, LifeHere!vars
<1>3. CASE Closes
  <2>1. Range(queue') = Range(queue) \cup {"forceCloseInLoop"}
    BY <1>3, Queued DEF Closes, QueueForceClose, Tasks
  <2>2. state_ = "kConnected" /\ state_' = "kDisconnecting" /\ owned
    BY <1>3 DEF Closes, Control, LifeFits
  <2>3. LifeHere!ForceClose
    BY <2>2 DEF LifeHere!ForceClose
  <2>4. LetGo'
    BY <2>1, <2>2 DEF LetGo
  <2>5. QED
    BY <2>3, <2>4 DEF LifeStep, LifeHere!Next
<1>4. QED
  BY <1>1, <1>2, <1>3 DEF Moves

\* handleClose()
LEMMA CloseLifeStep ==
  ASSUME Control, LetGo, Open, handleClose, NothingQueued, UNCHANGED owned
  PROVE  LifeStep
<1>1. state_' = "kDisconnected" /\ UNCHANGED destroyed_
  BY DEF handleClose, Disconnect
<1>2. owned \/ destroyed_
  BY DEF Open, Control, LifeFits, LetGo
<1>3. LifeHere!Close
  BY <1>1, <1>2 DEF LifeHere!Close, LifeHere!Open, Open
<1>4. LetGo'
  BY <1>1 DEF LetGo, NothingQueued
<1>5. QED
  BY <1>3, <1>4 DEF LifeStep, LifeHere!Next

\* connectDestroyed()
LEMMA DestroyLifeStep ==
  ASSUME LetGo, state_ # "kConnecting", connectDestroyed, NothingQueued, owned' = FALSE
  PROVE  LifeStep
<1>1. destroyed_' = TRUE
      /\ state_' = IF state_ = "kConnected" THEN "kDisconnected" ELSE state_
  BY DEF connectDestroyed, Disconnect
<1>2. LifeHere!Destroy
  BY <1>1 DEF LifeHere!Destroy
<1>3. LetGo'
  BY <1>1 DEF LetGo, NothingQueued
<1>4. QED
  BY <1>2, <1>3 DEF LifeStep, LifeHere!Next

LEMMA HandlersLifeStep ==
  ASSUME Control, LetGo, HandlerStep
  PROVE  LifeStep
<1>1. CASE HandleClose
  <2>1. Open /\ handleClose /\ UNCHANGED <<queue, owned>>
    BY <1>1 DEF HandleClose, Handler, Control, EventsFit, refs
  <2>2. QED
    BY <2>1, CloseLifeStep DEF NothingQueued
<1>2. CASE HandleError
  <2>1. UNCHANGED <<queue, owned>>
    BY <1>2 DEF HandleError, Handler, refs
  <2>2. CASE state_ = "kConnected"
    BY <1>2, <2>1, <2>2, CloseLifeStep DEF HandleError, NothingQueued, Open
  <2>3. CASE state_ # "kConnected"
    BY <1>2, <2>1, <2>3, SameLifeStep DEF HandleError, NothingQueued, SameLife, life
  <2>4. QED
    BY <2>2, <2>3
<1>3. CASE HandleRead
  <2>1. UNCHANGED <<queue, owned>>
    BY <1>3 DEF HandleRead, Handler, refs
  <2>2. CASE UNCHANGED life
    BY <2>1, <2>2, SameLifeStep DEF NothingQueued, SameLife, life
  <2>3. CASE state_ = "kConnected" /\ handleClose
    BY <2>1, <2>3, CloseLifeStep DEF NothingQueued, Open
  <2>4. QED
    BY <1>3, <2>2, <2>3 DEF HandleRead, Reads
<1>4. CASE HandleWrite
  <2>1. UNCHANGED <<destroyed_, owned>>
    BY <1>4 DEF HandleWrite, Handler, refs
  <2>2. Moves
    <3>1. CASE SendBuffered(DrainedByWrite, UNCHANGED events)
      BY <3>1, ForceCloseMoves DEF SendBuffered, Moves, Reports
    <3>2. CASE NothingSent
      BY <3>2 DEF NothingSent, Moves
    <3>3. QED
      BY <1>4, <3>1, <3>2 DEF HandleWrite
  <2>3. QED
    BY <2>1, <2>2, MovesLifeStep
<1>5. QED
  BY <1>1, <1>2, <1>3, <1>4 DEF HandlerStep

LEMMA TimerLifeStep ==
  ASSUME Control, LetGo, TimerFires
  PROVE  LifeStep
<1>1. Moves
  <2>1. CASE SendBuffered(DrainedByTimer, EnableWriting)
    BY <2>1, ForceCloseMoves DEF SendBuffered, Moves, Reports
  <2>2. CASE NothingSent
    BY <2>2 DEF NothingSent, Moves
  <2>3. QED
    BY <2>1, <2>2 DEF TimerFires
<1>2. UNCHANGED <<destroyed_, owned>>
  BY DEF TimerFires, refs
<1>3. QED
  BY <1>1, <1>2, MovesLifeStep

LEMMA FunctorsLifeStep ==
  ASSUME Control, LetGo, RunFunctor
  PROVE  LifeStep
<1>1. ASSUME NEW task, Runs(task)
      PROVE  NothingQueued /\ task \in Range(queue) /\ UNCHANGED owned /\ state_ # "kConnecting"
  <2>1. Range(queue) = {task} \cup Range(queue') /\ UNCHANGED refs /\ state_ # "kConnecting"
    BY <1>1, FunctorTaken
  <2>2. QED
    BY <2>1 DEF NothingQueued, refs
<1>2. CASE ForceCloseInLoop
  <2>1. NothingQueued /\ UNCHANGED owned
    BY <1>1, <1>2 DEF ForceCloseInLoop
  <2>2. CASE StillClosing
    BY <1>2, <2>1, <2>2, CloseLifeStep DEF ForceCloseInLoop, StillClosing, Open
  <2>3. CASE ~StillClosing
    BY <1>2, <2>1, <2>3, SameLifeStep DEF ForceCloseInLoop, SameLife, life
  <2>4. QED
    BY <2>2, <2>3
<1>3. CASE WriteComplete
  BY <1>1, <1>3, SameLifeStep DEF WriteComplete, SameLife, life
<1>4. CASE ConnectDestroyed
  <2>1. /\ NothingQueued /\ "connectDestroyed" \in Range(queue)
        /\ UNCHANGED owned /\ state_ # "kConnecting"
    BY <1>1, <1>4 DEF ConnectDestroyed
  <2>2. owned' = FALSE
    BY <2>1 DEF LetGo, Control, ControlTypes
  <2>3. QED
    BY <1>4, <2>1, <2>2, DestroyLifeStep DEF ConnectDestroyed
<1>5. QED
  BY <1>2, <1>3, <1>4 DEF RunFunctor

LEMMA UserSendsLifeStep ==
  ASSUME Control, LetGo, \E len \in 0 .. MaxBytes : Send(len) \/ DelaySend(len)
  PROVE  LifeStep
<1>1. ASSUME NEW len \in 0 .. MaxBytes, Send(len)
      PROVE  Moves
  <2>1. CASE isDelaySend_
    BY <1>1, <2>1, ForceCloseMoves DEF Send, delaySend, Moves
  <2>2. CASE ~isDelaySend_ /\ isWriting
    BY <1>1, <2>2, ForceCloseMoves DEF Send, SendQueued, SendRest, Moves
  <2>3. CASE ~isDelaySend_ /\ ~isWriting
    <3>1. PICK n \in Outcomes(len) :
            \/ ForceClose
            \/ QueueInLoop("writeComplete") /\ UNCHANGED state_
            \/ SendRest(len, IF n > 0 THEN n ELSE 0)
      BY <1>1, <2>3 DEF Send, SendNow
    <3>2. QED
      BY <3>1, ForceCloseMoves DEF SendRest, Moves, Reports
  <2>4. QED
    BY <2>1, <2>2, <2>3
<1>2. ASSUME NEW len \in 0 .. MaxBytes, DelaySend(len)
      PROVE  Moves
  BY <1>2, ForceCloseMoves DEF DelaySend, delaySend, Moves
<1>3. Moves /\ UNCHANGED <<destroyed_, owned>>
  BY <1>1, <1>2 DEF Send, DelaySend, refs
<1>4. QED
  BY <1>3, MovesLifeStep

\* A callback returns, perhaps into the report to the server.
LEMMA ReturnLifeStep ==
  ASSUME Control, LetGo, Return
  PROVE  LifeStep
<1>1. CASE stack[Len(stack)] = "down" /\ ~destroyed_ /\ serverAlive
  <2>1. Len(stack) \in 1 .. Len(stack)
    BY CallsNested DEF Return
  <2>2. state_ = "kDisconnected"
    BY <1>1, <2>1 DEF Control, CallsFit, FrameFits
  <2>3. owned' = FALSE /\ QueueInLoop("connectDestroyed") /\ UNCHANGED <<state_, destroyed_>>
    BY <1>1 DEF Return, RemoveConnection, life
  <2>4. [LifeHere!Next]_(LifeHere!vars)
    <3>1. CASE owned
      BY <1>1, <2>2, <2>3, <3>1 DEF LifeHere!Next, LifeHere!Forget
    <3>2. CASE ~owned
      <4>1. owned = FALSE
        BY <3>2 DEF Control, ControlTypes
      <4>2. QED
        BY <2>3, <4>1 DEF LifeHere!vars
    <3>3. QED
      BY <3>1, <3>2
  <2>5. LetGo'
    BY <2>2, <2>3 DEF LetGo
  <2>6. QED
    BY <2>4, <2>5 DEF LifeStep
<1>2. CASE ~(stack[Len(stack)] = "down" /\ ~destroyed_ /\ serverAlive)
  BY <1>2, SameLifeStep DEF Return, SameLife, NothingQueued, life
<1>3. QED
  BY <1>1, <1>2

\* The server takes the connection in, and lets it go at its end.
LEMMA ServerLifeStep ==
  ASSUME Control, LetGo, NewConnection \/ DestroyServer
  PROVE  LifeStep
<1>1. CASE NewConnection
  <2>1. LifeHere!Establish
    BY <1>1 DEF NewConnection, LifeHere!Establish
  <2>2. state_' = "kConnected" /\ queue' = <<>>
    BY <1>1 DEF NewConnection, Control, LifeFits, Unknown
  <2>3. LetGo'
    BY <2>2, RangeOfEmpty DEF LetGo
  <2>4. QED
    BY <2>1, <2>3 DEF LifeStep, LifeHere!Next
<1>2. CASE DestroyServer /\ owned
  <2>1. state_ # "kConnecting"
    BY <1>2 DEF Control, LifeFits, Unknown
  <2>2. QED
    BY <1>2, <2>1, DestroyLifeStep DEF DestroyServer, NothingQueued
<1>3. CASE DestroyServer /\ ~owned
  <2>1. owned = FALSE
    BY <1>3 DEF Control, ControlTypes
  <2>2. QED
    BY <1>3, <2>1, SameLifeStep DEF DestroyServer, SameLife, NothingQueued, life
<1>4. QED
  BY <1>1, <1>2, <1>3

LEMMA StepLife ==
  ASSUME Control, LetGo, [Next]_vars
  PROVE  LifeStep
<1>1. CASE \/ \E ready \in SUBSET {"IN", "OUT", "HUP", "ERR"} : Poll(ready)
           \/ StageStep \/ HandleEventReturns \/ EnterOther \/ Keep \/ SetSendParam
           \/ UNCHANGED vars
  <2>1. SameLife /\ UNCHANGED queue
    BY <1>1 DEF Poll, StageStep, HandleEvent, EventsDone, TimersDone, FunctorsDone, Goes,
                HandleEventReturns, EnterOther, Keep, SetSendParam, vars, SameLife, life, refs
  <2>2. QED
    BY <2>1, SameLifeStep DEF NothingQueued
<1>2. CASE UserForceClose
  <2>1. Moves /\ UNCHANGED <<destroyed_, owned>>
    BY <1>2, ForceCloseMoves DEF UserForceClose, refs
  <2>2. QED
    BY <2>1, MovesLifeStep
<1>3. CASE HandlerStep \/ TimerFires \/ RunFunctor \/ Return
  BY <1>3, HandlersLifeStep, TimerLifeStep, FunctorsLifeStep, ReturnLifeStep
<1>4. CASE \/ NewConnection \/ DestroyServer
           \/ \E len \in 0 .. MaxBytes : Send(len) \/ DelaySend(len)
  BY <1>4, ServerLifeStep, UserSendsLifeStep
<1>5. QED
  BY <1>1, <1>2, <1>3, <1>4 DEF Next, CallStep

\* However its handlers, its timer, its callbacks, forceClose() and the server's end
\* come together, the connection is established and closed once, has its server until
\* it is closed or destroyed, and connectDestroyed() comes when the server has let go.
THEOREM ImplementsConnectionLife == Spec => IsConnectionLife
<1>1. Init => LifeHere!Init
  BY DEF Init, LifeHere!Init
<1>2. Init => LetGo
  BY RangeOfEmpty DEF Init, LetGo
<1>3. Control /\ LetGo /\ [Next]_vars => [LifeHere!Next]_(LifeHere!vars) /\ LetGo'
  BY StepLife DEF LifeStep
<1>4. Control /\ Output => Control
  OBVIOUS
<1>5. QED
  BY <1>1, <1>2, <1>3, <1>4, RecordsAgree, PTL DEF Spec, IsConnectionLife, LifeHere!Spec
=============================================================================
