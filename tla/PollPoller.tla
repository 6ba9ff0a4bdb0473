----------------------------- MODULE PollPoller -----------------------------
(***************************************************************************)
(* src/net/PollPoller.cpp over poll(2): pollfds_ is an array that each     *)
(* registered channel knows its place in, and a removal moves the last     *)
(* entry into the gap.  A disabled channel's entry is hidden from the      *)
(* kernel by storing -fd-1 in the place of its descriptor.                 *)
(***************************************************************************)
EXTENDS Channel, Sequences

VARIABLE pollfds_        \* [fd, events], places counted from 0 in the code

vars == <<events, index_, addedToLoop_, channels_, active, pollfds_>>

Init == ChannelInit /\ pollfds_ = <<>>

Places == 0 .. Len(pollfds_) - 1
Entry(i) == pollfds_[i + 1]
Hidden(f) == -f - 1

\* channel->index() as a place of the array
Place(ch) == index_[ch] + 1

-----------------------------------------------------------------------------
(***************************************************************************)
(* updateChannel().                                                        *)
(***************************************************************************)
UpdateNew(ch, new) ==
  /\ index_[ch] < 0
  /\ Ask(ch, new)
  /\ pollfds_' = Append(pollfds_, [fd |-> fd[ch], events |-> new])
  /\ index_' = [index_ EXCEPT ![ch] = Len(pollfds_)]
  /\ Enter(ch)

\* the descriptor of an entry whose events have changed: once hidden it stays
\* hidden; bug: it is not hidden
Shown(ch, new) == Entry(index_[ch]).fd
Kept(ch, new) == IF new = {} THEN Hidden(fd[ch]) ELSE Entry(index_[ch]).fd

UpdateExisting(ch, new) ==
  /\ ch \in Registered
  /\ Ask(ch, new)
  /\ pollfds_' = [pollfds_ EXCEPT ![Place(ch)] = [fd |-> Kept(ch, new), events |-> new]]
  /\ UNCHANGED <<index_, channels_>>

-----------------------------------------------------------------------------
(***************************************************************************)
(* removeChannel().                                                        *)
(***************************************************************************)
DescriptorOf(f) == IF f < 0 THEN Hidden(f) ELSE f

\* the channel whose entry is the last
AtEnd == channels_[DescriptorOf(pollfds_[Len(pollfds_)].fd)]

\* bug: the moved channel keeps its old place
LeftBehind(ch) == index_
MovedTo(ch) == [index_ EXCEPT ![AtEnd] = index_[ch]]

\* iter_swap(), pop_back()
Swapped(ch) == [pollfds_ EXCEPT ![Place(ch)] = pollfds_[Len(pollfds_)]]
WithoutEntry(ch) == SubSeq(Swapped(ch), 1, Len(pollfds_) - 1)

RemoveChannel(ch) ==
  /\ Leave(ch)
  /\ Erase(ch)
  /\ pollfds_' = WithoutEntry(ch)
  /\ index_' = MovedTo(ch)

\* index_ outlives a removal: only a new Channel can be added again
NewChannel(ch) == index_[ch] >= 0 /\ Construct(ch) /\ UNCHANGED pollfds_

\* poll() and fillActiveChannels(): the kernel leaves hidden entries alone.  A ::poll()
\* that fails, by EINTR too, fails an assertion (PollPoller.cpp:54); without assertions
\* it reports nothing, as with no ready entry here.
PollReturns ==
  /\ MayPoll
  /\ \E ready \in SUBSET {i \in Places : Entry(i).fd >= 0} :
       active' = {channels_[Entry(i).fd] : i \in ready}
  /\ UNCHANGED <<events, index_, addedToLoop_, channels_, pollfds_>>

Next ==
  \/ PollReturns
  \/ \E ch \in Channels :
       \/ \E new \in SUBSET {"read", "write"} :
            UpdateNew(ch, new) \/ UpdateExisting(ch, new)
       \/ RemoveChannel(ch)
       \/ NewChannel(ch)

Spec == Init /\ [][Next]_vars

-----------------------------------------------------------------------------
(***************************************************************************)
(* Properties.                                                             *)
(***************************************************************************)

\* Types of the channels' fields, of the map and of the array.
TypeOK ==
  /\ ChannelTypeOK
  /\ \A i \in Places :
       /\ DescriptorOf(Entry(i).fd) \in Descriptors
       /\ Entry(i).events \subseteq {"read", "write"}
  /\ Len(pollfds_) <= Cardinality(Descriptors)

\* What is stored for a channel: asking for nothing hides its descriptor.
EntryFor(ch) ==
  [fd |-> IF events[ch] = {} THEN Hidden(fd[ch]) ELSE fd[ch], events |-> events[ch]]

\* The assertions of updateChannel() and removeChannel() on the array and the map:
\* whatever has been removed from between, every registered channel is in the map
\* under its descriptor, its index_ is the place of its own entry, which asks the
\* kernel for what the channel asks for, and nobody else has an entry.
EntriesMatch ==
  /\ Len(pollfds_) = Cardinality(Registered)
  /\ \A ch \in Registered :
       /\ fd[ch] \in DOMAIN channels_ /\ channels_[fd[ch]] = ch
       /\ index_[ch] \in Places
       /\ Entry(index_[ch]) = EntryFor(ch)

\* The comment "update existing one": what a registered channel asks for is
\* what the kernel is asked for.
WatchedAsAsked ==
  \A ch \in Registered :
    events[ch] # {} => Entry(index_[ch]) = [fd |-> fd[ch], events |-> events[ch]]

\* It is a Poller, and one that leaves channels that ask for nothing alone.
AbstractPoller == INSTANCE Poller WITH registered <- Registered, ReportsDisabled <- FALSE
IsPoller == AbstractPoller!Spec
=============================================================================
