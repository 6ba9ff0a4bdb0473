---------------------------- MODULE EPollPoller -----------------------------
(***************************************************************************)
(* src/net/EPollPoller.cpp over the kernel's epoll set.  Three records of  *)
(* the same channels have to agree: index_ in the channel, the map         *)
(* channels_, and the kernel's set, which returns raw pointers.            *)
(***************************************************************************)
EXTENDS Channel

VARIABLES
  epoll,         \* the kernel's set: descriptor -> channel pointer, events
  ctlFailed      \* history: has an epoll_ctl() failed?

vars == <<events, index_, addedToLoop_, channels_, active, epoll, ctlFailed>>

kNew == -1
kAdded == 1
kDeleted == 2

Init ==
  /\ ChannelInit
  /\ epoll = [f \in {} |-> 0]
  /\ ctlFailed = FALSE

-----------------------------------------------------------------------------
(***************************************************************************)
(* update(): epoll_ctl().  Adding what is there, and changing or deleting  *)
(* what is not, fails and changes nothing.                                 *)
(***************************************************************************)
Watched == DOMAIN epoll

Put(ch) ==
  epoll' = [f \in Watched \cup {fd[ch]} |->
              IF f = fd[ch] THEN [ptr |-> ch, events |-> events'[ch]]
                            ELSE epoll[f]]

Ctl(possible, change) ==
  \/ possible /\ change /\ UNCHANGED ctlFailed
  \/ ~possible /\ ctlFailed' = TRUE /\ UNCHANGED epoll

Add(ch) == Ctl(fd[ch] \notin Watched, Put(ch))

\* bug: the kernel is not told of the new events
ModifyNothing(ch) == UNCHANGED <<epoll, ctlFailed>>
Modify(ch) == Ctl(fd[ch] \in Watched, Put(ch))

Delete(ch) ==
  Ctl(fd[ch] \in Watched, epoll' = [f \in Watched \ {fd[ch]} |-> epoll[f]])

-----------------------------------------------------------------------------
(***************************************************************************)
(* updateChannel(): one action per branch.                                 *)
(***************************************************************************)
SetIndex(ch, i) == index_' = [index_ EXCEPT ![ch] = i]

UpdateNew(ch, new) ==
  /\ index_[ch] = kNew
  /\ Ask(ch, new)
  /\ Enter(ch)
  /\ SetIndex(ch, kAdded)
  /\ Add(ch)

UpdateDeleted(ch, new) ==
  /\ index_[ch] = kDeleted
  /\ Ask(ch, new)
  /\ SetIndex(ch, kAdded)
  /\ Add(ch)
  /\ UNCHANGED channels_

\* bug: the channel still counts as added
StillAdded == kAdded
IndexWhenDeleted == kDeleted

UpdateNone(ch) ==
  /\ index_[ch] = kAdded
  /\ Ask(ch, {})
  /\ Delete(ch)
  /\ SetIndex(ch, IndexWhenDeleted)
  /\ UNCHANGED channels_

UpdateEvents(ch, new) ==
  /\ index_[ch] = kAdded
  /\ new # {}
  /\ Ask(ch, new)
  /\ Modify(ch)
  /\ UNCHANGED <<index_, channels_>>

\* bugs of removeChannel(): an added channel is not deleted from the set, and
\* the channel is left with its index
NeverWatched(ch) == FALSE
StillWatched(ch) == index_[ch] = kAdded

KeepDeleted == kDeleted
IndexWhenRemoved == kNew

RemoveChannel(ch) ==
  /\ Leave(ch)
  /\ Erase(ch)
  /\ IF StillWatched(ch) THEN Delete(ch) ELSE UNCHANGED <<epoll, ctlFailed>>
  /\ SetIndex(ch, IndexWhenRemoved)

\* poll() and fillActiveChannels(): some of the descriptors in the set are
\* ready, and the kernel returns the pointers it was given.
PollReturns ==
  /\ MayPoll
  /\ \E ready \in SUBSET Watched : active' = {epoll[f].ptr : f \in ready}
  /\ UNCHANGED <<events, index_, addedToLoop_, channels_, epoll, ctlFailed>>

Next ==
  \/ PollReturns
  \/ \E ch \in Channels :
       \/ \E new \in SUBSET {"read", "write"} :
            UpdateNew(ch, new) \/ UpdateDeleted(ch, new) \/ UpdateEvents(ch, new)
       \/ UpdateNone(ch)
       \/ RemoveChannel(ch)

Spec == Init /\ [][Next]_vars

-----------------------------------------------------------------------------
(***************************************************************************)
(* Properties.                                                             *)
(***************************************************************************)

\* Types of the channels' fields, of the map and of the kernel's set.
TypeOK ==
  /\ ChannelTypeOK
  /\ \A ch \in Channels : index_[ch] \in {kNew, kAdded, kDeleted}
  /\ Watched \subseteq Descriptors
  /\ \A f \in Watched :
       epoll[f] \in [ptr : Channels, events : SUBSET {"read", "write"}]
  /\ ctlFailed \in BOOLEAN

\* The assertions of updateChannel(), removeChannel() and ~Channel(): the map
\* holds the channels that have been added and not removed, each under its own
\* descriptor, and index_ says for every channel where it is.
MapMatches ==
  /\ Registered = {ch \in Channels : fd[ch] \in DOMAIN channels_ /\ channels_[fd[ch]] = ch}
  /\ \A ch \in Channels : index_[ch] = kNew <=> ch \notin Registered

\* epoll_ctl() never fails, for update() aborts when ADD or MOD does: index_
\* tells ADD, MOD and DEL apart as the kernel's set requires, across reuse of
\* descriptors by other channels.
NoCtlFailure == ~ctlFailed

\* The assertions of fillActiveChannels(): the pointers the kernel keeps are
\* those of registered channels, never of one that has been destroyed.
KernelPointsToChannels ==
  \A f \in Watched : f \in DOMAIN channels_ /\ channels_[f] = epoll[f].ptr

\* The kernel watches every registered channel for exactly what it asks for.
WatchedAsAsked ==
  \A ch \in Registered :
    events[ch] # {} =>
      fd[ch] \in Watched /\ epoll[fd[ch]] = [ptr |-> ch, events |-> events[ch]]

\* It is a Poller, and one that may report a channel that asks for nothing: one
\* registered so, or disabled twice, is in the kernel's set.
AbstractPoller == INSTANCE Poller WITH registered <- Registered, ReportsDisabled <- TRUE
IsPoller == AbstractPoller!Spec
=============================================================================
