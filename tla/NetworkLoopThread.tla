------------------------- MODULE NetworkLoopThread --------------------------
(***************************************************************************)
(* A NetworkLoop living on a thread of its own (NetworkLoopThread.cpp):    *)
(* the owner starts the thread and waits for the loop's address, uses the  *)
(* loop, and in the destructor tells it to quit and joins the thread.  The *)
(* loop is a local variable of the thread's function, so its address is    *)
(* good only until that function returns.                                  *)
(***************************************************************************)
EXTENDS NetworkLoop

VARIABLES
  owner,        \* where the owner is: startLoop(), its own code, the destructor
  thread,       \* where threadFunc() is
  loop_,        \* is loop_ different from NULL?
  sem_,         \* the value of the semaphore
  userQuits     \* does anyone but the destructor call the loop's quit() in
                \* this behaviour?  Chosen at the start.

life == <<owner, thread, loop_, sem_, userQuits>>
allVars == <<vars, life>>

OwnerPlaces == {"new", "wait", "check", "using", "test", "quit", "join", "done"}
ThreadPlaces == {"none", "init", "publish", "release", "start", "looping",
                 "clear", "destroy", "ended"}

ThreadInit ==
  /\ Init
  /\ owner = "new"
  /\ thread = "none"
  /\ loop_ = FALSE
  /\ sem_ = 0
  /\ userQuits \in BOOLEAN

OwnerGoes(from, to) == owner = from /\ owner' = to
ThreadGoes(from, to) == thread = from /\ thread' = to

-----------------------------------------------------------------------------
(***************************************************************************)
(* The owner: startLoop() is three steps, the destructor three more.       *)
(***************************************************************************)
StartThread ==
  /\ OwnerGoes("new", "wait")
  /\ ThreadGoes("none", "init")
  /\ UNCHANGED <<vars, loop_, sem_, userQuits>>

Wait ==
  /\ OwnerGoes("wait", "check")
  /\ sem_ > 0
  /\ sem_' = sem_ - 1
  /\ UNCHANGED <<vars, thread, loop_, userQuits>>

\* assert(loop_); return loop_
StartLoopReturns ==
  /\ OwnerGoes("check", "using")
  /\ loop_
  /\ UNCHANGED <<vars, thread, loop_, sem_, userQuits>>

\* Nobody may be in a call on the loop when its owner begins to destroy it.
BeginDestructor ==
  /\ OwnerGoes("using", "test")
  /\ waking = {}
  /\ UNCHANGED <<vars, thread, loop_, sem_, userQuits>>

DestructorTest ==
  /\ owner = "test"
  /\ owner' = IF loop_ THEN "quit" ELSE "done"
  /\ UNCHANGED <<vars, thread, loop_, sem_, userQuits>>

DestructorQuit ==
  /\ OwnerGoes("quit", "join")
  /\ Quit
  /\ UNCHANGED <<thread, loop_, sem_, userQuits>>

\* Bug: the destructor does not join the thread.
DestructorJoinSkipped ==
  /\ OwnerGoes("join", "done")
  /\ UNCHANGED <<vars, thread, loop_, sem_, userQuits>>

DestructorJoin ==
  /\ OwnerGoes("join", "done")
  /\ thread = "ended"
  /\ UNCHANGED <<vars, thread, loop_, sem_, userQuits>>

-----------------------------------------------------------------------------
(***************************************************************************)
(* threadFunc().                                                           *)
(***************************************************************************)
\* Bug: the semaphore is released before loop_ is set.
InitCallbackReturnsReleasing ==
  /\ ThreadGoes("init", "publish")
  /\ sem_' = sem_ + 1
  /\ UNCHANGED <<vars, owner, loop_, userQuits>>

InitCallbackReturns ==
  /\ ThreadGoes("init", "publish")
  /\ UNCHANGED <<vars, owner, loop_, sem_, userQuits>>

PublishLoop ==
  /\ ThreadGoes("publish", "release")
  /\ loop_' = TRUE
  /\ UNCHANGED <<vars, owner, sem_, userQuits>>

Release ==
  /\ ThreadGoes("release", "start")
  /\ sem_' = sem_ + 1
  /\ UNCHANGED <<vars, owner, loop_, userQuits>>

EnterLoop ==
  /\ ThreadGoes("start", "looping")
  /\ Loop
  /\ UNCHANGED <<owner, loop_, sem_, userQuits>>

\* Bug: threadFunc() does not wait for the loop to end.
LoopReturnsEarly ==
  /\ ThreadGoes("looping", "clear")
  /\ UNCHANGED <<vars, owner, loop_, sem_, userQuits>>

LoopReturns ==
  /\ ThreadGoes("looping", "clear")
  /\ ~looping_
  /\ UNCHANGED <<vars, owner, loop_, sem_, userQuits>>

ClearLoop ==
  /\ ThreadGoes("clear", "destroy")
  /\ loop_' = FALSE
  /\ UNCHANGED <<vars, owner, sem_, userQuits>>

\* the end of the local variable's scope: ~NetworkLoop()
DestroyLoop ==
  /\ ThreadGoes("destroy", "ended")
  /\ UNCHANGED <<vars, owner, loop_, sem_, userQuits>>

-----------------------------------------------------------------------------
(***************************************************************************)
(* The loop between its construction and its destruction.                  *)
(***************************************************************************)
Alive == thread \notin {"none", "ended"}

\* steps of loop()
LoopRuns == ThreadStep \/ PollReady \/ PollTimeout

\* the init callback and the code that runs in the loop
InLoopThread ==
  /\ thread = "init" \/ (thread = "looping" /\ looping_)
  /\ \/ \E f \in Functors : QueueLocal(f)
     \/ \E ch \in Channels : UpdateChannel(ch) \/ RemoveChannel(ch)
     \/ userQuits /\ UserCode /\ Quit

\* Threads that were given the address startLoop() returned.  Where anyone may
\* quit the loop, it is for them to know that it still exists.
OutsideLoopThread ==
  /\ owner = "using"
  /\ Alive
  /\ \/ \E t \in Threads, f \in Functors : QueueRemote(t, f)
     \/ \E t \in Threads : Wakeup(t)
     \/ userQuits /\ Quit

UseLoop ==
  /\ LoopRuns \/ InLoopThread \/ OutsideLoopThread
  /\ UNCHANGED life

ThreadFuncStep ==
  \/ InitCallbackReturns
  \/ PublishLoop
  \/ Release
  \/ EnterLoop
  \/ LoopReturns
  \/ ClearLoop
  \/ DestroyLoop

OwnerStep ==
  \/ StartThread
  \/ Wait
  \/ StartLoopReturns
  \/ DestructorTest
  \/ DestructorQuit
  \/ DestructorJoin

Finished == owner = "done" /\ thread = "ended" /\ UNCHANGED allVars

ThreadNext == ThreadFuncStep \/ OwnerStep \/ BeginDestructor \/ UseLoop \/ Finished

\* Fairness.  Threads are scheduled, callbacks return, and poll() returns once the
\* event descriptor is readable; nobody has to queue, to quit or to destroy the
\* loop, no descriptor of the user has to become ready, and poll() need not time
\* out.
ThreadSpec ==
  /\ ThreadInit
  /\ [][ThreadNext]_allVars
  /\ WF_allVars(ThreadFuncStep)
  /\ WF_allVars(OwnerStep)
  /\ WF_allVars(ThreadStep /\ UNCHANGED life)
  /\ WF_allVars(wakeupFd_ /\ PollReady /\ UNCHANGED life)
  /\ \A t \in Threads :
       WF_allVars(owner = "using" /\ Alive /\ Wakeup(t) /\ UNCHANGED life)

-----------------------------------------------------------------------------
(***************************************************************************)
(* Properties.                                                             *)
(***************************************************************************)

\* Types of the two program counters and of what they share; the semaphore never
\* counts more than the one release.
ThreadTypeOK ==
  /\ owner \in OwnerPlaces
  /\ thread \in ThreadPlaces
  /\ loop_ \in BOOLEAN
  /\ sem_ \in 0 .. 1
  /\ userQuits \in BOOLEAN

\* startLoop() hands out the loop's address and never NULL, where the loop is
\* left to the destructor to quit: the semaphore is released after loop_ is set.
LoopPublished == (owner = "check" /\ ~userQuits) => loop_

\* The assertion of startLoop() as it stands.
LoopAsserted == owner = "check" => loop_

\* The address is dereferenced (by the users of the loop or by the destructor's
\* quit()) only while the loop it points to exists: nothing but the destructor
\* ends the thread.
NoDeadLoop == (owner \in {"using", "quit"} /\ ~userQuits) => Alive

\* When the destructor has returned, threadFunc(), which uses members of the
\* NetworkLoopThread to its end, has nothing more to do with them.
DestructorWaits ==
  owner = "done" => thread \in (IF userQuits THEN {"destroy"} ELSE {}) \cup {"ended"}

\* If quit() reaches a loop that has entered loop(), the join returns, though
\* quit() wakes nobody up: this is where the timeout of poll() is needed.  (A
\* quit() before that is overwritten by loop(), and the join never returns.)
JoinReturns ==
  WF_allVars(PollTimeout /\ UNCHANGED life)
    => ((owner = "join" /\ looping_ /\ quit_) ~> owner = "done")
=============================================================================
