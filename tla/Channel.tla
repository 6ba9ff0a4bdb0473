------------------------------- MODULE Channel ------------------------------
(***************************************************************************)
(* The half of class Channel that talks to the poller (src/net/Channel.h   *)
(* and Channel.cpp): enable.../disable...() change events_ and call        *)
(* update(), remove() unregisters.  EPollPoller and PollPoller extend it.  *)
(*                                                                         *)
(* Channels of one descriptor follow one another: the owner of a descriptor*)
(* removes its channel before it closes the descriptor or hands it on.     *)
(***************************************************************************)
EXTENDS Integers, FiniteSets

CONSTANTS
  Channels,      \* Channel objects (one stands for all that use its storage)
  fd,            \* their descriptors
  Uses           \* what callers do with them, beside the ordinary

ASSUME DescriptorsAreNumbers == fd \in [Channels -> Nat]

(***************************************************************************)
(*  "disableNew"    disableAll() of a channel never enabled: ~Acceptor() of*)
(*                  a server that has not been started                     *)
(*  "disableTwice"  disableAll() of one that is disabled                   *)
(*  "enableAgain"   enable...() of one that is disabled and not removed    *)
(*  "pollDisabled"  poll() while a disabled channel is still registered    *)
(***************************************************************************)
ASSUME KnownUses ==
  Uses \subseteq {"disableNew", "disableTwice", "enableAgain", "pollDisabled"}

VARIABLES
  events,        \* events_ of each channel
  index_,        \* what the poller notes in each channel
  addedToLoop_,
  channels_,     \* Poller::channels_, from descriptors to channels
  active         \* activeChannels of the last poll()

Descriptors == {fd[ch] : ch \in Channels}

ChannelInit ==
  /\ events = [ch \in Channels |-> {}]
  /\ index_ = [ch \in Channels |-> -1]
  /\ addedToLoop_ = [ch \in Channels |-> FALSE]
  /\ channels_ = [f \in {} |-> 0]
  /\ active = {}

Registered == {ch \in Channels : addedToLoop_[ch]}

\* enableReading(), enableWriting(), disableReading(), disableWriting(),
\* disableAll()
Asks(ch) ==
  {events[ch] \cup {"read"}, events[ch] \cup {"write"},
   events[ch] \ {"read"}, events[ch] \ {"write"}, {}}

MayAsk(ch, new) ==
  /\ new \in Asks(ch)
  /\ \A other \in Registered : fd[other] = fd[ch] => other = ch
  /\ (new = {} /\ ch \notin Registered) => "disableNew" \in Uses
  /\ (ch \in Registered /\ events[ch] = {}) =>
       (IF new = {} THEN "disableTwice" ELSE "enableAgain") \in Uses

\* events_ is assigned, then update(): the poller's updateChannel() comes next
Ask(ch, new) ==
  /\ MayAsk(ch, new)
  /\ events' = [events EXCEPT ![ch] = new]
  /\ addedToLoop_' = [addedToLoop_ EXCEPT ![ch] = TRUE]
  /\ UNCHANGED active

\* remove(), before the poller's removeChannel(); it asserts isNoneEvent()
Leave(ch) ==
  /\ ch \in Registered
  /\ events[ch] = {}
  /\ addedToLoop_' = [addedToLoop_ EXCEPT ![ch] = FALSE]
  /\ UNCHANGED <<events, active>>

\* a new Channel in the place of one that ~Channel() has let go
Construct(ch) ==
  /\ ch \notin Registered
  /\ index_' = [index_ EXCEPT ![ch] = -1]
  /\ UNCHANGED <<events, addedToLoop_, channels_, active>>

MayPoll == "pollDisabled" \in Uses \/ \A ch \in Registered : events[ch] # {}

\* channels_.erase(fd)
Erase(ch) == channels_' = [f \in DOMAIN channels_ \ {fd[ch]} |-> channels_[f]]

\* channels_[fd] = channel
Enter(ch) ==
  channels_' = [f \in DOMAIN channels_ \cup {fd[ch]} |->
                  IF f = fd[ch] THEN ch ELSE channels_[f]]

ChannelTypeOK ==
  /\ events \in [Channels -> SUBSET {"read", "write"}]
  /\ index_ \in [Channels -> Int]
  /\ addedToLoop_ \in [Channels -> BOOLEAN]
  /\ DOMAIN channels_ \subseteq Descriptors
  /\ \A f \in DOMAIN channels_ : channels_[f] \in Channels
  /\ active \subseteq Channels
=============================================================================
