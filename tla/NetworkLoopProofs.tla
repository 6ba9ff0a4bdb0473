-------------------------- MODULE NetworkLoopProofs --------------------------
(***************************************************************************)
(* Safety of the reactor for any sets of threads, functors and channels,   *)
(* and of a loop on a thread of its own: what it does is what a            *)
(* NetworkLoop may do, and nobody reaches it before it is published or, if *)
(* only the destructor quits it, after its end.                            *)
(***************************************************************************)
EXTENDS NetworkLoopThread, Functions, SequenceTheorems, TLAPS

-----------------------------------------------------------------------------
(* What the operators on sequences do to the range of a queue, and to the  *)
(* concatenation of two queues.                                            *)

\* push_back() adds the pushed functor to the queue's elements, nothing else.
LEMMA RangeOfAppend ==
  ASSUME NEW S, NEW s \in Seq(S), NEW x \in S
  PROVE  Range(Append(s, x)) = Range(s) \cup {x}
<1>1. /\ Append(s, x) \in Seq(S)
      /\ Len(Append(s, x)) = Len(s) + 1
      /\ \A i \in 1 .. Len(s) : Append(s, x)[i] = s[i]
      /\ Append(s, x)[Len(s) + 1] = x
  BY AppendProperties
<1>2. /\ DOMAIN Append(s, x) = 1 .. (Len(s) + 1)
      /\ DOMAIN s = 1 .. Len(s)
      /\ Len(s) \in Nat
  BY <1>1, LenProperties
<1>3. QED
  BY <1>1, <1>2 DEF Range

\* The empty vector has no elements.
LEMMA RangeOfEmpty == Range(<<>>) = {}
BY DEF Range

\* push_back() on the pending vector appends to the whole queue.
LEMMA AppendOfConcat ==
  ASSUME NEW S, NEW s \in Seq(S), NEW t \in Seq(S), NEW x \in S
  PROVE  s \o Append(t, x) = Append(s \o t, x)
<1>1. s \o t \in Seq(S) /\ <<x>> \in Seq(S)
  BY ConcatProperties
<1>2. Append(t, x) = t \o <<x>> /\ Append(s \o t, x) = (s \o t) \o <<x>>
  BY <1>1, AppendIsConcat
<1>3. QED
  BY <1>1, <1>2, ConcatAssociative

\* Taking the first functor of the batch takes the first of the whole queue.
LEMMA HeadTailOfConcat ==
  ASSUME NEW S, NEW s \in Seq(S), NEW t \in Seq(S), s # <<>>
  PROVE  /\ s \o t # <<>>
         /\ Head(s \o t) = Head(s)
         /\ Tail(s \o t) = Tail(s) \o t
<1>1. /\ s \o t \in Seq(S)
      /\ Len(s \o t) = Len(s) + Len(t)
      /\ \A i \in 1 .. Len(s) + Len(t) :
            (s \o t)[i] = IF i <= Len(s) THEN s[i] ELSE t[i - Len(s)]
  BY ConcatProperties
<1>2. Len(s) \in Nat \ {0} /\ Len(t) \in Nat
  BY EmptySeq, LenProperties
<1>3. s \o t # <<>>
  BY <1>1, <1>2, EmptySeq
<1>4. Head(s \o t) = Head(s)
  BY <1>1, <1>2
<1>5. /\ Tail(s \o t) \in Seq(S)
      /\ Len(Tail(s \o t)) = Len(s \o t) - 1
      /\ \A i \in 1 .. Len(Tail(s \o t)) : Tail(s \o t)[i] = (s \o t)[i + 1]
  BY <1>1, <1>3, HeadTailProperties
<1>6. /\ Tail(s) \in Seq(S)
      /\ Len(Tail(s)) = Len(s) - 1
      /\ \A i \in 1 .. Len(Tail(s)) : Tail(s)[i] = s[i + 1]
  BY HeadTailProperties
<1>7. /\ Tail(s) \o t \in Seq(S)
      /\ Len(Tail(s) \o t) = Len(Tail(s)) + Len(t)
      /\ \A i \in 1 .. Len(Tail(s)) + Len(t) :
            (Tail(s) \o t)[i] =
               IF i <= Len(Tail(s)) THEN Tail(s)[i] ELSE t[i - Len(Tail(s))]
  BY <1>6, ConcatProperties
<1>8. Len(Tail(s \o t)) = Len(Tail(s) \o t)
  BY <1>1, <1>2, <1>5, <1>6, <1>7
<1>9. ASSUME NEW i \in 1 .. Len(Tail(s \o t))
      PROVE  Tail(s \o t)[i] = (Tail(s) \o t)[i]
  BY <1>1, <1>2, <1>5, <1>6, <1>7, <1>8
<1>10. QED
  BY <1>3, <1>4, <1>5, <1>7, <1>8, <1>9, SeqEqual

-----------------------------------------------------------------------------
-----------------------------------------------------------------------------
(* Types and stages. *)

\* Every reachable state of the reactor is well typed.
THEOREM TypeCorrect == Spec => []TypeOK
<1> USE NamesDiffer DEF NamesDiffer
<1>1. Init => TypeOK
  BY EmptySeq DEF Init, TypeOK, Places
<1>2. TypeOK /\ [Next]_vars => TypeOK'
  <2> SUFFICES ASSUME TypeOK, [Next]_vars
               PROVE  TypeOK'
    OBVIOUS
  <2> USE DEF TypeOK, Places
  <2>1. CASE Loop
    BY <2>1 DEF Loop, io, work
  <2>2. CASE LoopTest
    BY <2>2 DEF LoopTest, MustQuit, work
  <2>3. ASSUME NEW ch \in Channels \cup {WakeupChannel}, HandleChannel(ch)
        PROVE  TypeOK'
    BY <2>3 DEF HandleChannel, flags, work
  <2>4. CASE EventsDone
    BY <2>4 DEF EventsDone, work
  <2>5. CASE TimersDone
    BY <2>5 DEF TimersDone, io, work
  <2>6. CASE SwapPending
    BY <2>6 DEF SwapPending, flags, io
  <2>7. CASE RunFunctor
    BY <2>7, HeadTailProperties DEF RunFunctor, TakeFunctor, flags, io
  <2>8. CASE FunctorReturns
    BY <2>8 DEF FunctorReturns, flags, io
  <2>9. CASE FunctorsDone
    BY <2>9 DEF FunctorsDone, io, work
  <2>10. CASE TimeoutDone
    BY <2>10 DEF TimeoutDone, flags, io, work
  <2>11. ASSUME NEW active \in SUBSET (Channels \cup {WakeupChannel}),
                PollReturns(active)
         PROVE  TypeOK'
    BY <2>11 DEF PollReturns, FillActiveChannels, work
  <2>12. CASE PollReady
    BY <2>11, <2>12 DEF PollReady, Readable
  <2>13. CASE PollTimeout
    BY <2>11, <2>13 DEF PollTimeout
  <2>14. ASSUME NEW f \in Functors, QueueLocal(f)
         PROVE  TypeOK'
    BY <2>14 DEF QueueLocal, WakesItself, flags, io
  <2>15. ASSUME NEW ch \in Channels, UpdateChannel(ch) \/ RemoveChannel(ch)
         PROVE  TypeOK'
    BY <2>15 DEF UpdateChannel, RemoveChannel, flags, work
  <2>16. ASSUME NEW t \in Threads, NEW f \in Functors, QueueRemote(t, f)
         PROVE  TypeOK'
    BY <2>16 DEF QueueRemote, WillWake, flags, io
  <2>17. ASSUME NEW t \in Threads, Wakeup(t)
         PROVE  TypeOK'
    BY <2>17 DEF Wakeup, WriteWakeup, flags, io, work
  <2>18. CASE Quit
    BY <2>18 DEF Quit, io, work
  <2>19. CASE UNCHANGED vars
    BY <2>19 DEF vars, flags, io, work
  <2>20. QED
    BY <2>1, <2>2, <2>3, <2>4, <2>5, <2>6, <2>7, <2>8, <2>9, <2>10, <2>12,
       <2>13, <2>14, <2>15, <2>16, <2>17, <2>18, <2>19 DEF Next, ThreadStep
<1>3. QED
  BY <1>1, <1>2, PTL DEF Spec

\* The flags and the batch agree with the stage of loop() in every state.
THEOREM StagesCorrect == Spec => []StagesOK
<1>1. Init => StagesOK
  BY DEF Init, StagesOK
<1>2. TypeOK /\ StagesOK /\ [Next]_vars => StagesOK'
  <2> SUFFICES ASSUME TypeOK, StagesOK, [Next]_vars
               PROVE  StagesOK'
    OBVIOUS
  <2> USE DEF StagesOK
  <2>1. CASE Loop
    BY <2>1 DEF Loop, flags, io, work
  <2>2. CASE LoopTest
    BY <2>2 DEF LoopTest, MustQuit, flags, io, work
  <2>3. ASSUME NEW ch \in Channels \cup {WakeupChannel}, HandleChannel(ch)
        PROVE  StagesOK'
    BY <2>3 DEF HandleChannel, flags, io, work
  <2>4. CASE EventsDone
    BY <2>4 DEF EventsDone, flags, io, work
  <2>5. CASE TimersDone
    BY <2>5 DEF TimersDone, flags, io, work
  <2>6. CASE SwapPending
    BY <2>6 DEF SwapPending, flags, io, work
  <2>7. CASE RunFunctor
    BY <2>7 DEF RunFunctor, TakeFunctor, flags, io, work
  <2>8. CASE FunctorReturns
    BY <2>8 DEF FunctorReturns, flags, io, work
  <2>9. CASE FunctorsDone
    BY <2>9 DEF FunctorsDone, flags, io, work
  <2>10. CASE TimeoutDone
    BY <2>10 DEF TimeoutDone, flags, io, work
  <2>11. CASE PollReady
    BY <2>11 DEF PollReady, PollReturns, FillActiveChannels, flags, io, work
  <2>12. CASE PollTimeout
    BY <2>12 DEF PollTimeout, PollReturns, FillActiveChannels, flags, io, work
  <2>13. ASSUME NEW f \in Functors, QueueLocal(f)
        PROVE  StagesOK'
    BY <2>13 DEF QueueLocal, WakesItself, flags, io, work
  <2>14. ASSUME NEW ch \in Channels, UpdateChannel(ch)
        PROVE  StagesOK'
    BY <2>14 DEF UpdateChannel, flags, io, work
  <2>15. ASSUME NEW ch \in Channels, RemoveChannel(ch)
        PROVE  StagesOK'
    BY <2>15 DEF RemoveChannel, flags, io, work
  <2>16. ASSUME NEW t \in Threads, NEW f \in Functors, QueueRemote(t, f)
        PROVE  StagesOK'
    BY <2>16 DEF QueueRemote, WillWake, flags, io, work
  <2>17. ASSUME NEW t \in Threads, Wakeup(t)
        PROVE  StagesOK'
    BY <2>17 DEF Wakeup, WriteWakeup, flags, io, work
  <2>18. CASE Quit
    BY <2>18 DEF Quit, flags, io, work
  <2>19. CASE UNCHANGED vars
    BY <2>19 DEF vars, flags, io, work
  <2>20. QED
    BY <2>1, <2>2, <2>3, <2>4, <2>5, <2>6, <2>7, <2>8, <2>9, <2>10,
       <2>11, <2>12, <2>13, <2>14, <2>15, <2>16, <2>17, <2>18, <2>19 DEF Next, ThreadStep
<1>3. QED
  BY <1>1, <1>2, TypeCorrect, PTL DEF Spec

-----------------------------------------------------------------------------
(* Wakeups. *)

\* The inductive invariant behind NoLostWakeup: whoever queues a functor after
\* the swap of this iteration leaves a wakeup behind; before the swap none is
\* needed, and clearing the descriptor happens only there.
THEOREM WakeupInvariant == Spec => []WakeupInv
<1>1. Init => WakeupInv
  BY RangeOfEmpty DEF Init, WakeupInv
<1>2. TypeOK /\ StagesOK /\ WakeupInv /\ [Next]_vars => WakeupInv'
  <2> SUFFICES ASSUME TypeOK, StagesOK, WakeupInv, [Next]_vars
               PROVE  WakeupInv'
    OBVIOUS
  <2> USE DEF WakeupInv
  <2>1. CASE Loop
    BY <2>1 DEF Loop, flags, io, work
  <2>2. CASE LoopTest
    BY <2>2 DEF LoopTest, MustQuit, StagesOK, flags, io, work
  <2>3. ASSUME NEW ch \in Channels \cup {WakeupChannel}, HandleChannel(ch)
        PROVE  WakeupInv'
    BY <2>3 DEF HandleChannel, flags, io, work
  <2>4. CASE EventsDone
    BY <2>4 DEF EventsDone, flags, io, work
  <2>5. CASE TimersDone
    BY <2>5 DEF TimersDone, flags, io, work
  <2>6. CASE SwapPending
    BY <2>6, RangeOfEmpty DEF SwapPending, flags, io, work
  <2>7. CASE RunFunctor
    BY <2>7 DEF RunFunctor, TakeFunctor, flags, io, work
  <2>8. CASE FunctorReturns
    BY <2>8 DEF FunctorReturns, flags, io, work
  <2>9. CASE FunctorsDone
    BY <2>9 DEF FunctorsDone, flags, io, work
  <2>10. CASE TimeoutDone
    BY <2>10 DEF TimeoutDone, flags, io, work
  <2>11. CASE PollReady
    BY <2>11 DEF PollReady, PollReturns, FillActiveChannels, flags, io, work
  <2>12. CASE PollTimeout
    BY <2>12 DEF PollTimeout, PollReturns, FillActiveChannels, flags, io, work
  <2>13. ASSUME NEW f \in Functors, QueueLocal(f)
        PROVE  WakeupInv'
    BY <2>13, RangeOfAppend DEF QueueLocal, WakesItself, UserCode, StagesOK, TypeOK, flags, io, work
  <2>14. ASSUME NEW ch \in Channels, UpdateChannel(ch)
        PROVE  WakeupInv'
    BY <2>14 DEF UpdateChannel, flags, io, work
  <2>15. ASSUME NEW ch \in Channels, RemoveChannel(ch)
        PROVE  WakeupInv'
    BY <2>15 DEF RemoveChannel, flags, io, work
  <2>16. ASSUME NEW t \in Threads, NEW f \in Functors, QueueRemote(t, f)
        PROVE  WakeupInv'
    BY <2>16, RangeOfAppend DEF QueueRemote, WillWake, TypeOK, flags, io, work
  <2>17. ASSUME NEW t \in Threads, Wakeup(t)
        PROVE  WakeupInv'
    BY <2>17 DEF Wakeup, WriteWakeup, flags, io, work
  <2>18. CASE Quit
    BY <2>18 DEF Quit, flags, io, work
  <2>19. CASE UNCHANGED vars
    BY <2>19 DEF vars, flags, io, work
  <2>20. QED
    BY <2>1, <2>2, <2>3, <2>4, <2>5, <2>6, <2>7, <2>8, <2>9, <2>10,
       <2>11, <2>12, <2>13, <2>14, <2>15, <2>16, <2>17, <2>18, <2>19 DEF Next, ThreadStep
<1>3. QED
  BY <1>1, <1>2, TypeCorrect, StagesCorrect, PTL DEF Spec

\* A loop blocked in poll() never sits on a functor nobody is waking it for.
THEOREM NoWakeupIsLost == Spec => []NoLostWakeup
<1>1. WakeupInv => NoLostWakeup
  BY DEF WakeupInv, NoLostWakeup
<1>2. QED
  BY <1>1, WakeupInvariant, PTL

-----------------------------------------------------------------------------
(* Dispatch. *)

\* The iteration over activeChannels_ reaches only channels that are still
\* registered, if callers keep to what removeChannel() asserts.
THEOREM DispatchIsSafe == Spec => []NoStaleDispatch
<1> USE NamesDiffer DEF NamesDiffer
<1>1. Init => DispatchInv
  BY DEF Init, DispatchInv, NoStaleDispatch
<1>2. TypeOK /\ StagesOK /\ DispatchInv /\ [Next]_vars => DispatchInv'
  <2> SUFFICES ASSUME TypeOK, StagesOK, DispatchInv, [Next]_vars
               PROVE  DispatchInv'
    OBVIOUS
  <2> USE DEF DispatchInv, NoStaleDispatch
  <2>1. CASE Loop
    BY <2>1 DEF Loop, flags, io, work
  <2>2. CASE LoopTest
    BY <2>2 DEF LoopTest, MustQuit, flags, io, work
  <2>3. ASSUME NEW ch \in Channels \cup {WakeupChannel}, HandleChannel(ch)
        PROVE  DispatchInv'
    BY <2>3 DEF HandleChannel, flags, io, work
  <2>4. CASE EventsDone
    BY <2>4 DEF EventsDone, TypeOK, flags, io, work
  <2>5. CASE TimersDone
    BY <2>5 DEF TimersDone, flags, io, work
  <2>6. CASE SwapPending
    BY <2>6 DEF SwapPending, flags, io, work
  <2>7. CASE RunFunctor
    BY <2>7 DEF RunFunctor, TakeFunctor, flags, io, work
  <2>8. CASE FunctorReturns
    BY <2>8 DEF FunctorReturns, flags, io, work
  <2>9. CASE FunctorsDone
    BY <2>9 DEF FunctorsDone, flags, io, work
  <2>10. CASE TimeoutDone
    BY <2>10 DEF TimeoutDone, flags, io, work
  <2>11. CASE PollReady
    <3>1. currentActiveChannel_ = None /\ registered \subseteq Channels
      BY <2>11 DEF PollReady, PollReturns, FillActiveChannels, StagesOK, TypeOK
    <3>2. PICK active \in SUBSET Readable : PollReturns(active)
      BY <2>11 DEF PollReady
    <3>3. QED
      BY <3>1, <3>2 DEF PollReturns, FillActiveChannels, Readable
  <2>12. CASE PollTimeout
    BY <2>12 DEF PollTimeout, PollReturns, FillActiveChannels, flags, io, work
  <2>13. ASSUME NEW f \in Functors, QueueLocal(f)
        PROVE  DispatchInv'
    BY <2>13 DEF QueueLocal, WakesItself, flags, io, work
  <2>14. ASSUME NEW ch \in Channels, UpdateChannel(ch)
        PROVE  DispatchInv'
    BY <2>14 DEF UpdateChannel, flags, io, work
  <2>15. ASSUME NEW ch \in Channels, RemoveChannel(ch)
        PROVE  DispatchInv'
    BY <2>15 DEF RemoveChannel, MayRemove, StagesOK, TypeOK, flags, io, work
  <2>16. ASSUME NEW t \in Threads, NEW f \in Functors, QueueRemote(t, f)
        PROVE  DispatchInv'
    BY <2>16 DEF QueueRemote, WillWake, flags, io, work
  <2>17. ASSUME NEW t \in Threads, Wakeup(t)
        PROVE  DispatchInv'
    BY <2>17 DEF Wakeup, WriteWakeup, flags, io, work
  <2>18. CASE Quit
    BY <2>18 DEF Quit, flags, io, work
  <2>19. CASE UNCHANGED vars
    BY <2>19 DEF vars, flags, io, work
  <2>20. QED
    BY <2>1, <2>2, <2>3, <2>4, <2>5, <2>6, <2>7, <2>8, <2>9, <2>10,
       <2>11, <2>12, <2>13, <2>14, <2>15, <2>16, <2>17, <2>18, <2>19 DEF Next, ThreadStep
<1>3. QED
  <2>1. Spec => []DispatchInv
    BY <1>1, <1>2, TypeCorrect, StagesCorrect, PTL DEF Spec
  <2>2. DispatchInv => NoStaleDispatch
    BY DEF DispatchInv
  <2>3. QED
    BY <2>1, <2>2, PTL

-----------------------------------------------------------------------------
(* The batch and the pending vector implement one queue. *)

\* Functors run one at a time, each once, in the order of the push_back()s of
\* all threads, though they pass through two vectors.
THEOREM ImplementsFunctorQueue == Spec => IsFunctorQueue
<1>1. Init => Queue!Init
  BY ConcatEmptySeq, EmptySeq DEF Init, Queue!Init
<1>2. TypeOK /\ StagesOK /\ [Next]_vars => [Queue!Next]_(Queue!vars)
  <2> SUFFICES ASSUME TypeOK, StagesOK, [Next]_vars
               PROVE  Queue!Next \/ UNCHANGED <<functors \o pendingFunctors_, running>>
    BY DEF Queue!vars
  <2> DEFINE Same == UNCHANGED <<pendingFunctors_, functors, running>>
  <2>1. /\ pendingFunctors_ \in Seq(Functors)
        /\ functors \in Seq(Functors)
    BY DEF TypeOK
  <2>2. CASE Same
    BY <2>2
  <2>3. ASSUME NEW f \in Functors, QueueLocal(f) \/ (\E t \in Threads : QueueRemote(t, f))
        PROVE  Queue!Next
    <3>1. /\ pendingFunctors_' = Append(pendingFunctors_, f)
          /\ UNCHANGED <<functors, running>>
      BY <2>3 DEF QueueLocal, WakesItself, QueueRemote
    <3>2. (functors \o pendingFunctors_)' = Append(functors \o pendingFunctors_, f)
      BY <2>1, <3>1, AppendOfConcat
    <3>3. QED
      BY <3>1, <3>2 DEF Queue!Next, Queue!Post
  <2>4. CASE SwapPending
    <3>1. functors = <<>>
      BY <2>4 DEF SwapPending, StagesOK
    <3>2. functors \o pendingFunctors_ = pendingFunctors_
      BY <2>1, <3>1, ConcatEmptySeq
    <3>3. (functors \o pendingFunctors_)' = pendingFunctors_
      BY <2>1, <2>4, ConcatEmptySeq DEF SwapPending
    <3>4. QED
      BY <2>4, <3>2, <3>3 DEF SwapPending
  <2>5. CASE RunFunctor
    BY <2>1, <2>5, HeadTailOfConcat DEF RunFunctor, TakeFunctor, Queue!Next, Queue!Start
  <2>6. CASE FunctorReturns
    BY <2>6 DEF FunctorReturns, Queue!Next, Queue!Finish
  <2>7. CASE Loop \/ PollReady \/ PollTimeout \/ Quit \/ UNCHANGED vars
    <3>1. Same
      BY <2>7 DEF Loop, PollReady, PollTimeout, PollReturns, FillActiveChannels, Quit, vars, work
    <3>2. QED
      BY <2>2, <3>1
  <2>8. CASE LoopTest \/ EventsDone \/ TimersDone \/ FunctorsDone \/ TimeoutDone
    <3>1. Same
      BY <2>8 DEF LoopTest, MustQuit, EventsDone, TimersDone, FunctorsDone, TimeoutDone, work
    <3>2. QED
      BY <2>2, <3>1
  <2>9. ASSUME NEW ch \in Channels \cup {WakeupChannel},
               HandleChannel(ch) \/ UpdateChannel(ch) \/ RemoveChannel(ch)
        PROVE  Same
    BY <2>9 DEF HandleChannel, UpdateChannel, RemoveChannel, work
  <2>10. ASSUME NEW t \in Threads, Wakeup(t)
         PROVE  Same
    BY <2>10 DEF Wakeup, WriteWakeup, work
  <2>11. QED
    BY <2>2, <2>3, <2>4, <2>5, <2>6, <2>7, <2>8, <2>9, <2>10 DEF Next, ThreadStep
<1>3. QED
  BY <1>1, <1>2, TypeCorrect, StagesCorrect, PTL DEF Spec, IsFunctorQueue, Queue!Spec

-----------------------------------------------------------------------------
(* The thread's loop is a NetworkLoop. *)

\* Every step of the thread, of its owner and of the loop's users is a step of
\* the reactor or leaves it alone.
LEMMA StepIsLoopStep == [ThreadNext]_allVars => [Next]_vars
<1> SUFFICES ASSUME [ThreadNext]_allVars PROVE [Next]_vars
  OBVIOUS
<1>1. CASE ThreadFuncStep
  BY <1>1 DEF ThreadFuncStep, InitCallbackReturns, PublishLoop, Release, EnterLoop,
              LoopReturns, ClearLoop, DestroyLoop, Next
<1>2. CASE OwnerStep \/ BeginDestructor
  BY <1>2 DEF OwnerStep, StartThread, Wait, StartLoopReturns, BeginDestructor,
              DestructorTest, DestructorQuit, DestructorJoin, Next
<1>3. CASE UseLoop
  BY <1>3 DEF UseLoop, LoopRuns, InLoopThread, OutsideLoopThread, Next
<1>4. CASE Finished \/ UNCHANGED allVars
  BY <1>4 DEF Finished, allVars
<1>5. QED
  BY <1>1, <1>2, <1>3, <1>4 DEF ThreadNext

\* What is true of every NetworkLoop is true of one that lives in a
\* NetworkLoopThread: it is not run twice, nor from two threads.
THEOREM ImplementsNetworkLoop == ThreadSpec => Spec
<1>1. ThreadInit => Init
  BY DEF ThreadInit
<1>2. QED
  BY <1>1, StepIsLoopStep, PTL DEF ThreadSpec, Spec

\* The functors of a loop that others start, use and quit are one FIFO queue.
THEOREM ThreadKeepsFunctorQueue == ThreadSpec => IsFunctorQueue
BY ImplementsNetworkLoop, ImplementsFunctorQueue, PTL

\* A loop that others use from their threads sleeps on no functor of theirs.
THEOREM ThreadLosesNoWakeup == ThreadSpec => []NoLostWakeup
BY ImplementsNetworkLoop, NoWakeupIsLost, PTL

\* ... and dispatches no channel that has been removed.
THEOREM ThreadDispatchIsSafe == ThreadSpec => []NoStaleDispatch
BY ImplementsNetworkLoop, DispatchIsSafe, PTL

-----------------------------------------------------------------------------
(* Publishing, quitting and joining. *)

\* the places of threadFunc() after the release of the semaphore, and after loop()
Released == {"start", "looping", "clear", "destroy", "ended"}
Over == {"clear", "destroy", "ended"}

\* The two program counters, the pointer and the semaphore: the owner passes the
\* semaphore only after the release, and the thread has ended its loop only if
\* somebody quit it.
ThreadInv ==
  /\ ThreadTypeOK
  /\ owner = "new" <=> thread = "none"
  /\ owner \notin {"new", "wait"} => thread \in Released
  /\ loop_ <=> thread \in {"release", "start", "looping", "clear"}
  /\ sem_ = IF owner = "wait" /\ thread \in Released THEN 1 ELSE 0
  /\ thread = "looping" => looping_ \/ quit_
  /\ ~userQuits /\ owner \notin {"join", "done"} => ~quit_ /\ thread \notin Over
  /\ DestructorWaits

\* What the loop's own steps and its users do to the two flags: only a user who
\* may quit the loop sets quit_, and loop() ends only when quit_ is set.
LEMMA UseOfFlags ==
  ASSUME UseLoop
  PROVE  /\ UNCHANGED life
         /\ quit_' = quit_ \/ (userQuits /\ quit_' = TRUE)
         /\ looping_' = looping_ \/ (quit_ /\ quit_' = quit_)
<1>1. UNCHANGED life
  BY DEF UseLoop
<1>2. CASE ThreadStep
  <2>1. CASE LoopTest
    BY <1>1, <2>1 DEF LoopTest, MustQuit
  <2>2. ASSUME ~LoopTest
        PROVE  UNCHANGED <<quit_, looping_>>
    BY <1>2, <2>2
    DEF ThreadStep, HandleChannel, EventsDone, TimersDone, SwapPending,
        RunFunctor, FunctorReturns, FunctorsDone, TimeoutDone, flags
  <2>3. QED
    BY <1>1, <2>1, <2>2
<1>3. CASE PollReady \/ PollTimeout
  BY <1>1, <1>3 DEF PollReady, PollTimeout, PollReturns
<1>4. CASE InLoopThread
  BY <1>1, <1>4 DEF InLoopThread, QueueLocal, UpdateChannel, RemoveChannel, Quit, flags
<1>5. CASE OutsideLoopThread
  BY <1>1, <1>5 DEF OutsideLoopThread, QueueRemote, Wakeup, Quit, flags
<1>6. QED
  BY <1>2, <1>3, <1>4, <1>5 DEF UseLoop, LoopRuns

\* The invariant of the thread's life holds in every state.
THEOREM ThreadInvariant == ThreadSpec => []ThreadInv
<1> USE DEF Released, Over
<1>1. ThreadInit => ThreadInv
  <2> SUFFICES ASSUME ThreadInit PROVE ThreadInv
    OBVIOUS
  <2>1. /\ owner = "new" /\ thread = "none"
        /\ loop_ = FALSE /\ sem_ = 0 /\ quit_ = FALSE
        /\ userQuits \in BOOLEAN
    BY DEF ThreadInit, Init
  <2>2. ThreadTypeOK
    <3>1. sem_ \in 0 .. 1
      BY <2>1
    <3>2. QED
      BY <2>1, <3>1, Zenon DEF ThreadTypeOK, OwnerPlaces, ThreadPlaces
  <2>3. DestructorWaits
    BY <2>1 DEF DestructorWaits
  <2>4. QED
    BY <2>1, <2>2, <2>3 DEF ThreadInv
<1>2. ThreadInv /\ [ThreadNext]_allVars => ThreadInv'
  <2> SUFFICES ASSUME ThreadInv, [ThreadNext]_allVars
               PROVE  ThreadInv'
    OBVIOUS
  <2> USE DEF ThreadInv, ThreadTypeOK, OwnerPlaces, ThreadPlaces, DestructorWaits,
              OwnerGoes, ThreadGoes
  <2>1. CASE StartThread
    BY <2>1 DEF StartThread, vars, flags
  <2>2. CASE Wait
    BY <2>2 DEF Wait, vars, flags
  <2>3. CASE StartLoopReturns
    BY <2>3 DEF StartLoopReturns, vars, flags
  <2>4. CASE BeginDestructor
    BY <2>4 DEF BeginDestructor, vars, flags
  <2>5. CASE DestructorTest
    BY <2>5 DEF DestructorTest, vars, flags
  <2>6. CASE DestructorQuit
    BY <2>6 DEF DestructorQuit, Quit
  <2>7. CASE DestructorJoin
    BY <2>7 DEF DestructorJoin, vars, flags
  <2>8. CASE InitCallbackReturns
    BY <2>8 DEF InitCallbackReturns, vars, flags
  <2>9. CASE PublishLoop
    BY <2>9 DEF PublishLoop, vars, flags
  <2>10. CASE Release
    BY <2>10 DEF Release, vars, flags
  <2>11. CASE EnterLoop
    BY <2>11 DEF EnterLoop, Loop
  <2>12. CASE LoopReturns
    BY <2>12 DEF LoopReturns, vars, flags
  <2>13. CASE ClearLoop
    BY <2>13 DEF ClearLoop, vars, flags
  <2>14. CASE DestroyLoop
    BY <2>14 DEF DestroyLoop, vars, flags
  <2>15. CASE UseLoop
    <3>1. /\ owner' = owner /\ thread' = thread /\ loop_' = loop_
          /\ sem_' = sem_ /\ userQuits' = userQuits
      BY <2>15, UseOfFlags DEF life
    <3>2. (thread = "looping" => looping_ \/ quit_)'
      BY <2>15, <3>1, UseOfFlags
    <3>3. (~userQuits /\ owner \notin {"join", "done"} => ~quit_ /\ thread \notin Over)'
      BY <2>15, <3>1, UseOfFlags
    <3>4. (ThreadTypeOK /\ DestructorWaits)'
      BY <3>1
    <3>5. QED
      BY <3>1, <3>2, <3>3, <3>4
  <2>16. CASE Finished \/ UNCHANGED allVars
    BY <2>16 DEF Finished, allVars, vars, flags, life
  <2>17. QED
    BY <2>1, <2>2, <2>3, <2>4, <2>5, <2>6, <2>7, <2>8, <2>9, <2>10, <2>11,
       <2>12, <2>13, <2>14, <2>15, <2>16
    DEF ThreadNext, ThreadFuncStep, OwnerStep
<1>3. QED
  BY <1>1, <1>2, PTL DEF ThreadSpec

\* startLoop() never hands out NULL, if only the destructor quits the loop.
THEOREM LoopIsPublished == ThreadSpec => []LoopPublished
<1>1. ThreadInv => LoopPublished
  BY DEF ThreadInv, LoopPublished, Released, Over
<1>2. QED
  BY <1>1, ThreadInvariant, PTL

\* The users of the loop and the destructor's quit() find it alive, if only the
\* destructor quits it.
THEOREM LoopIsAlive == ThreadSpec => []NoDeadLoop
<1>1. ThreadInv => NoDeadLoop
  BY DEF ThreadInv, NoDeadLoop, Alive, Released, Over
<1>2. QED
  BY <1>1, ThreadInvariant, PTL

\* After the destructor, threadFunc() touches the NetworkLoopThread no more, even
\* if somebody else quit the loop and loop_ was read as NULL.
THEOREM DestructorIsSafe == ThreadSpec => []DestructorWaits
<1>1. ThreadInv => DestructorWaits
  BY DEF ThreadInv
<1>2. QED
  BY <1>1, ThreadInvariant, PTL
=============================================================================
