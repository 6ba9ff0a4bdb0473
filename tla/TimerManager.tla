---------------------------- MODULE TimerManager ----------------------------
(***************************************************************************)
(* The hierarchical timer wheel of src/base/TimerManager.cpp, driven by    *)
(* NetworkLoop::loop(): once per iteration it is told the time at which    *)
(* poll() returned, turns the wheels up to that time and runs the timers   *)
(* that came out.                                                          *)
(*                                                                         *)
(* The list of a spoke and the ready vector are sets: timers of one tick   *)
(* may fire in any order.  Wheel indices are computed in uint32; since     *)
(* 2^32 is a multiple of every threshold times the wheel's size, the mask  *)
(* takes the same value with or without the overflow.                      *)
(***************************************************************************)
EXTENDS Integers, FiniteSets

CONSTANTS
  Timers,        \* the timer ids that can be in use at the same time
  Delays,        \* the delays and intervals asked for, in milliseconds
  None,          \* no timer
  GRANULARITY,   \* milliseconds per tick
  WHEEL_SIZE1,   \* spokes of wheel 0
  WHEEL_SIZE2,   \* spokes of each other wheel
  WHEEL_NUM,     \* wheels
  Steps,         \* by how much the clock may be set back
  MaxClock,      \* bound: the last instant explored
  MaxLag         \* bound: how far the clock runs ahead of the wheels

ASSUME SizesArePositive ==
  /\ GRANULARITY \in Nat \ {0}
  /\ WHEEL_SIZE1 \in Nat \ {0}
  /\ WHEEL_SIZE2 \in Nat \ {0}
  /\ WHEEL_NUM \in Nat \ {0, 1}
  /\ Delays \subseteq Nat
  /\ Steps \subseteq Nat \ {0}
  /\ MaxLag \in Nat
  /\ None \notin Timers

Size(k) == IF k = 0 THEN WHEEL_SIZE1 ELSE WHEEL_SIZE2

\* ticks per spoke of wheel k (and, for WHEEL_NUM, per turn of the last wheel)
Threshold[k \in 0 .. WHEEL_NUM] ==
  IF k = 0 THEN 1 ELSE Size(k - 1) * Threshold[k - 1]

\* Delays are uint32 and the wheels turn once in 2^32 ticks of 10 ms.
ASSUME DelaysFit ==
  \A d \in Delays : d + MaxLag < GRANULARITY * Threshold[WHEEL_NUM]

VARIABLES
  pc,            \* where the loop's thread is
  clock,         \* Timestamp::now(), in milliseconds
  setBack,       \* has the clock been set back? bound: once
  pollReturn,    \* pollReturnTime of NetworkLoop::loop()
  checkTime_, nowTime_,
  ticksLeft,     \* loopNum - i
  cascading,     \* the wheel cascade() works on
  spokeIndex_,   \* per wheel
  spokes_,       \* per wheel and spoke: the timers in its list
  readyTimers_,  \* those whose callback has not been called yet
  current,       \* the timer whose callback is being called
  timerMap_,     \* deadline, interval and type of every timer that exists
  lag            \* history: how far the wheels were behind when it was placed,
                 \* or, below zero, ahead of a clock that had been set back

wall   == <<clock, setBack>>
times  == <<wall, pollReturn, checkTime_, nowTime_>>
wheels == <<spokeIndex_, spokes_>>
vars == <<pc, times, ticksLeft, cascading, wheels, readyTimers_, current,
          timerMap_, lag>>

Wheels == 0 .. WHEEL_NUM - 1
Slots == UNION {{k} \X (0 .. Size(k) - 1) : k \in Wheels}

Types == {"Disposable", "Every"}
Live == DOMAIN timerMap_

Init ==
  /\ pc = "outside"
  /\ clock = 0
  /\ setBack = FALSE
  /\ pollReturn = 0
  /\ checkTime_ = 0
  /\ nowTime_ = 0
  /\ ticksLeft = 0
  /\ cascading = 0
  /\ spokeIndex_ = [k \in Wheels |-> 0]
  /\ spokes_ = [slot \in Slots |-> {}]
  /\ readyTimers_ = {}
  /\ current = None
  /\ timerMap_ = [t \in {} |-> None]
  /\ lag = [t \in Timers |-> 0]

-----------------------------------------------------------------------------
\* addTimerNode(): the wheel that covers the delay, and the spoke of it
WheelOf(ticks) ==
  CHOOSE k \in Wheels :
    /\ k > 0 => ticks >= Threshold[k]
    /\ k < WHEEL_NUM - 1 => ticks < Threshold[k + 1]

\* how many spokes ahead; bug: the wheel's threshold is not subtracted
TooFar(ticks, k) == ticks
Ahead(ticks, k) == ticks - Threshold[k]

\* bug: one tick too few, for the tick under way
TooNear(delay) == IF delay < GRANULARITY THEN 0 ELSE delay \div GRANULARITY - 1
Ticks(delay) == delay \div GRANULARITY

SlotOf(delay, index) ==
  LET ticks == Ticks(delay)
      k     == WheelOf(ticks)
  IN  IF k = 0
      THEN <<0, (ticks + index[0]) % WHEEL_SIZE1>>
      ELSE <<k, ((Ahead(ticks, k) + index[k] * Threshold[k])
                   \div Threshold[k]) % WHEEL_SIZE2>>

AddTimerNode(t, delay) ==
  LET slot == SlotOf(delay, spokeIndex_)
  IN  spokes_' = [spokes_ EXCEPT ![slot] = @ \cup {t}]

-----------------------------------------------------------------------------
(***************************************************************************)
(* The environment: time, and the loop around detectTimer().               *)
(***************************************************************************)
UserCode == pc \in {"outside", "events"} \/ current # None

\* Bounds: MaxClock and MaxLag.  While the wheels turn nobody reads the clock.
Advance ==
  /\ UserCode
  /\ clock < MaxClock
  /\ clock - checkTime_ < MaxLag
  /\ clock' = clock + 1
  /\ UNCHANGED <<pc, setBack, pollReturn, checkTime_, nowTime_, ticksLeft,
                 cascading, wheels, readyTimers_, current, timerMap_, lag>>

\* the clock is not monotone: somebody sets it
SetBack(step) ==
  /\ UserCode
  /\ ~setBack
  /\ setBack' = TRUE
  /\ step <= clock
  /\ clock' = clock - step
  /\ UNCHANGED <<pc, pollReturn, checkTime_, nowTime_, ticksLeft, cascading,
                 wheels, readyTimers_, current, timerMap_, lag>>

\* poll() returns: its time is taken before the channels are handled
PollReturns ==
  /\ pc = "outside"
  /\ pollReturn' = clock
  /\ pc' = "events"
  /\ UNCHANGED <<wall, checkTime_, nowTime_, ticksLeft, cascading, wheels,
                 readyTimers_, current, timerMap_, lag>>

-----------------------------------------------------------------------------
(***************************************************************************)
(* runAfter(), runEvery() and removeTimer(), on the loop's thread.         *)
(***************************************************************************)
Run(t, delay, type) ==
  /\ UserCode
  /\ t \notin Live
  /\ timerMap_' = [u \in Live \cup {t} |->
                     IF u = t THEN [deadTime |-> clock + delay,
                                    interval |-> delay,
                                    type     |-> type]
                              ELSE timerMap_[u]]
  /\ AddTimerNode(t, delay)
  /\ lag' = [lag EXCEPT ![t] = clock - checkTime_]
  /\ UNCHANGED <<pc, times, ticksLeft, cascading, spokeIndex_, readyTimers_,
                 current>>

RunAfter(t, delay) == Run(t, delay, "Disposable")
RunEvery(t, delay) == Run(t, delay, "Every")

Erase(t) ==
  /\ timerMap_' = [u \in Live \ {t} |-> timerMap_[u]]
  /\ lag' = [lag EXCEPT ![t] = 0]

Unlink(t) == spokes_' = [slot \in Slots |-> spokes_[slot] \ {t}]

\* The caller has to know that the timer is not waiting in readyTimers_ (and is
\* not the one being called): the vector would keep a pointer to it.
RemoveTimer(t) ==
  /\ UserCode
  /\ t \in Live
  /\ t \notin readyTimers_ \cup {current}
  /\ Erase(t)
  /\ Unlink(t)
  /\ UNCHANGED <<pc, times, ticksLeft, cascading, spokeIndex_, readyTimers_,
                 current>>

-----------------------------------------------------------------------------
(***************************************************************************)
(* detectTimer(): one step per turn of wheel 0, one per call of cascade(). *)
(***************************************************************************)
Detect ==
  /\ pc = "events"
  /\ nowTime_' = pollReturn
  /\ ticksLeft' = IF pollReturn > checkTime_
                  THEN (pollReturn - checkTime_) \div GRANULARITY
                  ELSE 0
  /\ pc' = "ticks"
  /\ UNCHANGED <<wall, pollReturn, checkTime_, cascading, wheels,
                 readyTimers_, current, timerMap_, lag>>

\* the end of the loop's body
TickDone ==
  /\ checkTime_' = checkTime_ + GRANULARITY
  /\ ticksLeft' = ticksLeft - 1
  /\ cascading' = 0
  /\ pc' = "ticks"

\* bug: the spoke keeps the timers that have become ready
KeepSpoke(slot) == spokes_
ResetSpoke(slot) == [spokes_ EXCEPT ![slot] = {}]

\* is the spoke in turn the wheel's last one?
Wraps(k) == spokeIndex_[k] + 1 >= Size(k)

NextSpoke(k) == [spokeIndex_ EXCEPT ![k] = IF Wraps(k) THEN 0 ELSE @ + 1]

Tick ==
  /\ pc = "ticks"
  /\ ticksLeft > 0
  /\ LET slot == <<0, spokeIndex_[0]>>
     IN  /\ readyTimers_' = readyTimers_ \cup spokes_[slot]
         /\ spokes_' = ResetSpoke(slot)
  /\ spokeIndex_' = NextSpoke(0)
  /\ \/ /\ Wraps(0)
        /\ cascading' = 1
        /\ pc' = "cascade"
        /\ UNCHANGED <<checkTime_, ticksLeft>>
     \/ ~Wraps(0) /\ TickDone
  /\ UNCHANGED <<wall, pollReturn, nowTime_, current, timerMap_, lag>>

\* Timers that are due become ready, the others are placed again with the time
\* they have left; the emptied spoke is passed, and after the last one the next
\* wheel is turned.
Cascade ==
  /\ pc = "cascade"
  /\ LET k      == cascading
         slot   == <<k, spokeIndex_[k]>>
         index  == [spokeIndex_ EXCEPT ![k] = @ + 1]
         due    == {t \in spokes_[slot] : timerMap_[t].deadTime <= nowTime_}
         again  == spokes_[slot] \ due
         New(s) == {t \in again :
                      SlotOf(timerMap_[t].deadTime - nowTime_, index) = s}
     IN  /\ readyTimers_' = readyTimers_ \cup due
         /\ spokes_' = [s \in Slots |->
                          IF s = slot THEN {} ELSE spokes_[s] \cup New(s)]
         /\ lag' = [t \in Timers |->
                      IF t \in again THEN nowTime_ - (checkTime_ + GRANULARITY)
                                     ELSE lag[t]]
  /\ spokeIndex_' = NextSpoke(cascading)
  /\ \/ /\ Wraps(cascading) /\ cascading + 1 < WHEEL_NUM
        /\ cascading' = cascading + 1
        /\ UNCHANGED <<pc, checkTime_, ticksLeft>>
     \/ ~(Wraps(cascading) /\ cascading + 1 < WHEEL_NUM) /\ TickDone
  /\ UNCHANGED <<wall, pollReturn, nowTime_, current, timerMap_>>

TicksDone ==
  /\ pc = "ticks"
  /\ ticksLeft = 0
  /\ pc' = "ready"
  /\ UNCHANGED <<times, ticksLeft, cascading, wheels, readyTimers_, current,
                 timerMap_, lag>>

\* doReadyTimer(): a callback is called ...
CallReady(t) ==
  /\ pc = "ready"
  /\ current = None
  /\ t \in readyTimers_
  /\ current' = t
  /\ readyTimers_' = readyTimers_ \ {t}
  /\ UNCHANGED <<pc, times, ticksLeft, cascading, wheels, timerMap_, lag>>

\* ... and returns: the timer is deleted, or starts its next interval
CallbackReturns ==
  /\ current # None
  /\ current' = None
  /\ \/ /\ timerMap_[current].type = "Disposable"
        /\ Erase(current)
        /\ UNCHANGED spokes_
     \/ /\ timerMap_[current].type = "Every"
        /\ LET interval == timerMap_[current].interval
           IN  /\ timerMap_' =
                    [timerMap_ EXCEPT ![current].deadTime = nowTime_ + interval]
               /\ AddTimerNode(current, interval)
        /\ lag' = [lag EXCEPT ![current] = nowTime_ - checkTime_]
  /\ UNCHANGED <<pc, times, ticksLeft, cascading, spokeIndex_, readyTimers_>>

ReadyDone ==
  /\ pc = "ready"
  /\ current = None
  /\ readyTimers_ = {}
  /\ pc' = "outside"
  /\ UNCHANGED <<times, ticksLeft, cascading, wheels, readyTimers_, current,
                 timerMap_, lag>>

Next ==
  \/ Advance
  \/ \E step \in Steps : SetBack(step)
  \/ PollReturns
  \/ \E t \in Timers, d \in Delays : RunAfter(t, d) \/ RunEvery(t, d)
  \/ \E t \in Timers : RemoveTimer(t) \/ CallReady(t)
  \/ Detect
  \/ Tick
  \/ Cascade
  \/ TicksDone
  \/ CallbackReturns
  \/ ReadyDone

Spec == Init /\ [][Next]_vars

-----------------------------------------------------------------------------
(***************************************************************************)
(* Properties.                                                             *)
(***************************************************************************)

\* Types of everything the wheels are made of.
TypeOK ==
  /\ pc \in {"outside", "events", "ticks", "cascade", "ready"}
  /\ clock \in Nat /\ setBack \in BOOLEAN /\ pollReturn \in Nat
  /\ checkTime_ \in Nat /\ nowTime_ \in Nat
  /\ ticksLeft \in Nat
  /\ cascading \in Wheels
  /\ spokeIndex_ \in [Wheels -> Nat]
  /\ \A k \in Wheels : spokeIndex_[k] < Size(k)
  /\ spokes_ \in [Slots -> SUBSET Timers]
  /\ readyTimers_ \subseteq Timers
  /\ current \in Timers \cup {None}
  /\ Live \subseteq Timers
  /\ timerMap_ \in [Live -> [deadTime : Nat, interval : Nat, type : Types]]
  /\ lag \in [Timers -> Int]

Linked ==
  (UNION {spokes_[s] : s \in Slots}) \cup readyTimers_ \cup ({current} \ {None})

\* A timer is linked in one list only: a spoke, the ready vector or the call.
NeverInTwoPlaces ==
  /\ \A s1, s2 \in Slots : s1 # s2 => spokes_[s1] \cap spokes_[s2] = {}
  /\ \A s \in Slots : spokes_[s] \cap (readyTimers_ \cup {current}) = {}
  /\ current \notin readyTimers_

\* No timer is lost by the moves between spokes and the ready vector, none is
\* linked twice (and so called twice, or called after its deletion), and none is
\* reached after it has been deleted: the lists hold what timerMap_ holds.
EachInOnePlace == Linked = Live /\ NeverInTwoPlaces

\* A timer is never late by more than a tick and by what the wheels, in front of
\* a clock that had been set back, were ahead when it was placed: when detectTimer()
\* has turned the wheels up to nowTime_, all timers due that long ago are ready.
NotTooLate ==
  pc \in {"ready", "outside"} =>
    \A s \in Slots : \A t \in spokes_[s] :
       timerMap_[t].deadTime + GRANULARITY + (IF lag[t] < 0 THEN -lag[t] ELSE 0)
         > nowTime_

\* A timer fires early by no more than the wheels were behind the clock when it
\* was last placed (addTimerNode() counts from the wheel's own position).
EarlyOnlyByLag ==
  current # None =>
    nowTime_ + (IF lag[current] > 0 THEN lag[current] ELSE 0)
      >= timerMap_[current].deadTime
=============================================================================
