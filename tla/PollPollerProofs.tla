-------------------------- MODULE PollPollerProofs --------------------------
(***************************************************************************)
(* Theorems about PollPoller, for every set of channels and every          *)
(* assignment of descriptors to them, as long as nobody enables a channel  *)
(* again that is disabled and not removed (the run PollPollerReenabled     *)
(* shows what happens then) or disables one that has never been enabled.   *)
(***************************************************************************)
EXTENDS PollPoller, SequenceTheorems, FiniteSetTheorems, TLAPS

Asked == {"read", "write"}
Entries == [fd : Int, events : SUBSET Asked]

Ordinary == "enableAgain" \notin Uses /\ "disableNew" \notin Uses

Types ==
  /\ events \in [Channels -> SUBSET Asked]
  /\ addedToLoop_ \in [Channels -> BOOLEAN]
  /\ index_ \in [Channels -> Int]
  /\ active \subseteq Channels
  /\ pollfds_ \in Seq(Entries)

\* The map: the registered channels, each under its descriptor.
MapHolds(ch) ==
  addedToLoop_[ch] <=> fd[ch] \in DOMAIN channels_ /\ channels_[fd[ch]] = ch
MapRecord ==
  /\ \A ch \in Channels : MapHolds(ch)
  /\ \A f \in DOMAIN channels_ : channels_[f] \in Channels /\ fd[channels_[f]] = f

\* The array: every registered channel knows the place of its entry, and every
\* place has an owner.
Placed(ch) ==
  /\ index_[ch] \in Places
  /\ pollfds_[index_[ch] + 1] = EntryFor(ch)
ArrayRecord ==
  /\ \A ch \in Channels : addedToLoop_[ch] => Placed(ch)
  /\ \A i \in Places : \E ch \in Channels : addedToLoop_[ch] /\ index_[ch] = i

\* One entry for each.
CountRecord ==
  /\ IsFiniteSet(Registered)
  /\ Len(pollfds_) = Cardinality(Registered)

Inv == Types /\ MapRecord /\ ArrayRecord /\ CountRecord

-----------------------------------------------------------------------------
(***************************************************************************)
(* What the invariant says of entries and their owners.                    *)
(***************************************************************************)
\* Hiding a descriptor loses nothing, and the sign tells the two forms apart.
LEMMA HiddenIsFound ==
  ASSUME NEW ch \in Channels
  PROVE  /\ fd[ch] \in Nat
         /\ Hidden(fd[ch]) \in Int /\ Hidden(fd[ch]) < 0
         /\ DescriptorOf(EntryFor(ch).fd) = fd[ch]
         /\ EntryFor(ch).fd >= 0 <=> events[ch] # {}
         /\ EntryFor(ch).fd >= 0 => EntryFor(ch).fd = fd[ch]
<1>1. fd[ch] \in Nat
  BY DescriptorsAreNumbers
<1>2. CASE events[ch] = {}
  BY <1>1, <1>2 DEF Hidden, DescriptorOf, EntryFor
<1>3. CASE events[ch] # {}
  BY <1>1, <1>3 DEF Hidden, DescriptorOf, EntryFor
<1>4. QED
  BY <1>2, <1>3

\* Registered channels have descriptors of their own, and places of their own.
LEMMA OwnPlaces ==
  ASSUME Inv, NEW c \in Channels, NEW d \in Channels,
         addedToLoop_[c], addedToLoop_[d],
         fd[c] = fd[d] \/ index_[c] = index_[d]
  PROVE  c = d
<1>1. CASE fd[c] = fd[d]
  BY <1>1 DEF Inv, MapRecord, MapHolds
<1>2. CASE index_[c] = index_[d]
  <2>1. EntryFor(c) = EntryFor(d)
    BY <1>2 DEF Inv, ArrayRecord, Placed
  <2>2. fd[c] = fd[d]
    BY <2>1, HiddenIsFound
  <2>3. QED
    BY <1>1, <2>2
<1>3. QED
  BY <1>1, <1>2

\* A channel that is going to be added is alone on its descriptor.
LEMMA NobodyElse ==
  ASSUME Inv, NEW ch \in Channels, NEW new, MayAsk(ch, new), ~addedToLoop_[ch]
  PROVE  fd[ch] \notin DOMAIN channels_
<1>1. SUFFICES ASSUME fd[ch] \in DOMAIN channels_ PROVE FALSE
  OBVIOUS
<1> DEFINE other == channels_[fd[ch]]
<1>2. other \in Channels /\ fd[other] = fd[ch]
  BY <1>1 DEF Inv, MapRecord
<1>3. other \in Registered
  BY <1>1, <1>2 DEF Inv, MapRecord, MapHolds, Registered
<1>4. QED
  BY <1>2, <1>3 DEF MayAsk, Registered

\* The fields that an enable...() or disable...() changes, and those it leaves.
LEMMA AfterAsk ==
  ASSUME Types, NEW ch \in Channels, NEW new \in SUBSET Asked, Ask(ch, new)
  PROVE  /\ events' \in [Channels -> SUBSET Asked]
         /\ addedToLoop_' \in [Channels -> BOOLEAN]
         /\ active' = active
         /\ events'[ch] = new
         /\ addedToLoop_'[ch] = TRUE
         /\ \A c \in Channels \ {ch} :
              events'[c] = events[c] /\ addedToLoop_'[c] = addedToLoop_[c]
BY DEF Types, Ask

\* A channel whose own fields and entry stay keeps its place.
LEMMA StaysPlaced ==
  ASSUME NEW c \in Channels, Placed(c),
         index_'[c] \in Places', events'[c] = events[c],
         pollfds_'[index_'[c] + 1] = pollfds_[index_[c] + 1]
  PROVE  Placed(c)'
BY DEF Placed, EntryFor

-----------------------------------------------------------------------------
LEMMA InitInv == Init => Inv
<1> SUFFICES ASSUME Init PROVE Inv
  OBVIOUS
<1> USE DEF Init, ChannelInit
<1>1. Types
  BY EmptySeq DEF Types
<1>2. MapRecord
  BY DEF MapRecord, MapHolds
<1>3. Len(pollfds_) = 0 /\ Registered = {}
  BY DEF Registered
<1>4. ArrayRecord
  BY <1>3 DEF ArrayRecord, Places
<1>5. CountRecord
  BY <1>3, FS_EmptySet DEF CountRecord
<1>6. QED
  BY <1>1, <1>2, <1>4, <1>5 DEF Inv

\* The first enable...() of a channel: an entry of its own at the end.
LEMMA UpdateNewInv ==
  ASSUME Inv, Ordinary, NEW ch \in Channels, NEW new \in SUBSET Asked,
         UpdateNew(ch, new)
  PROVE  Inv'
<1> DEFINE n == Len(pollfds_)
           e == [fd |-> fd[ch], events |-> new]
<1>1. Types /\ n \in Nat /\ fd[ch] \in Nat
  BY DescriptorsAreNumbers, LenProperties DEF Inv, Types
<1>2. ~addedToLoop_[ch]
  BY <1>1 DEF UpdateNew, Inv, ArrayRecord, Placed, Places
<1>3. new # {}
  BY <1>2 DEF UpdateNew, Ask, MayAsk, Ordinary, Registered
<1>4. fd[ch] \notin DOMAIN channels_
  BY <1>2, NobodyElse DEF UpdateNew, Ask
<1>5. /\ events' \in [Channels -> SUBSET Asked]
      /\ addedToLoop_' \in [Channels -> BOOLEAN]
      /\ active' = active
      /\ events'[ch] = new
      /\ addedToLoop_'[ch] = TRUE
      /\ \A c \in Channels \ {ch} :
           events'[c] = events[c] /\ addedToLoop_'[c] = addedToLoop_[c]
  BY <1>1, AfterAsk DEF UpdateNew
<1>6. /\ pollfds_' \in Seq(Entries)
      /\ Len(pollfds_') = n + 1
      /\ \A i \in 1 .. n : pollfds_'[i] = pollfds_[i]
      /\ pollfds_'[n + 1] = e
  <2>1. e \in Entries
    BY <1>1 DEF Entries
  <2>2. pollfds_ \in Seq(Entries) /\ pollfds_' = Append(pollfds_, e)
    BY DEF Inv, Types, UpdateNew
  <2>3. QED
    BY <2>1, <2>2, AppendProperties
<1>7. /\ index_' \in [Channels -> Int]
      /\ index_'[ch] = n
      /\ \A c \in Channels \ {ch} : index_'[c] = index_[c]
  BY <1>1 DEF UpdateNew, Types
<1>8. /\ DOMAIN channels_' = DOMAIN channels_ \cup {fd[ch]}
      /\ channels_'[fd[ch]] = ch
      /\ \A f \in DOMAIN channels_ : channels_'[f] = channels_[f]
  BY <1>4 DEF UpdateNew, Enter
<1>9. Types'
  BY <1>1, <1>5, <1>6, <1>7 DEF Types
<1>10. MapRecord'
  <2>1. ASSUME NEW c \in Channels PROVE MapHolds(c)'
    <3>1. CASE c = ch
      BY <1>5, <1>8, <3>1 DEF MapHolds
    <3>2. CASE c # ch
      BY <1>4, <1>5, <1>8, <3>2 DEF MapHolds, Inv, MapRecord
    <3>3. QED
      BY <3>1, <3>2
  <2>2. QED
    BY <1>8, <2>1 DEF Inv, MapRecord
<1>11. Places = 0 .. n - 1 /\ Places' = 0 .. n
  BY <1>1, <1>6 DEF Places
<1>12. ArrayRecord'
  <2>1. ASSUME NEW c \in Channels, addedToLoop_'[c] PROVE Placed(c)'
    <3>1. CASE c = ch
      <4>1. (EntryFor(c))' = e
        BY <1>3, <1>5, <3>1 DEF EntryFor
      <4>2. QED
        BY <1>1, <1>6, <1>7, <1>11, <3>1, <4>1 DEF Placed
    <3>2. CASE c # ch
      <4>1. Placed(c)
        BY <1>5, <2>1, <3>2 DEF Inv, ArrayRecord
      <4>2. index_[c] \in 0 .. n - 1 /\ index_'[c] = index_[c] /\ events'[c] = events[c]
        BY <1>5, <1>7, <1>11, <3>2, <4>1 DEF Placed
      <4>3. index_'[c] \in Places' /\ pollfds_'[index_'[c] + 1] = pollfds_[index_[c] + 1]
        BY <1>1, <1>6, <1>11, <4>2
      <4>4. QED
        BY <4>1, <4>2, <4>3, StaysPlaced
    <3>3. QED
      BY <3>1, <3>2
  <2>2. ASSUME NEW i \in Places' PROVE \E c \in Channels : addedToLoop_'[c] /\ index_'[c] = i
    <3>1. CASE i = n
      BY <1>5, <1>7, <3>1
    <3>2. CASE i # n
      <4>1. i \in Places
        BY <1>1, <1>11, <2>2, <3>2
      <4>2. PICK c \in Channels : addedToLoop_[c] /\ index_[c] = i
        BY <4>1 DEF Inv, ArrayRecord
      <4>3. c # ch
        BY <1>2, <4>2
      <4>4. QED
        BY <1>5, <1>7, <4>2, <4>3
    <3>3. QED
      BY <3>1, <3>2
  <2>3. QED
    BY <2>1, <2>2 DEF ArrayRecord
<1>13. CountRecord'
  <2>1. Registered' = Registered \cup {ch} /\ ch \notin Registered
    BY <1>2, <1>5 DEF Registered
  <2>2. QED
    BY <1>6, <2>1, FS_AddElement DEF Inv, CountRecord
<1>14. QED
  BY <1>9, <1>10, <1>12, <1>13 DEF Inv

\* A change of what a registered channel asks for: its entry, and no other.
LEMMA UpdateExistingInv ==
  ASSUME Inv, Ordinary, NEW ch \in Channels, NEW new \in SUBSET Asked,
         UpdateExisting(ch, new)
  PROVE  Inv'
<1> DEFINE n == Len(pollfds_)
           k == index_[ch] + 1
           e == [fd |-> Kept(ch, new), events |-> new]
<1>1. Types /\ n \in Nat /\ fd[ch] \in Nat /\ index_[ch] \in Int
  BY DescriptorsAreNumbers, LenProperties DEF Inv, Types
<1>2. addedToLoop_[ch] /\ Placed(ch)
  BY DEF UpdateExisting, Registered, Inv, ArrayRecord
<1>3. k \in 1 .. n
  BY <1>1, <1>2 DEF Placed, Places
<1>4. new # {} => events[ch] # {}
  BY DEF UpdateExisting, Ask, MayAsk, Ordinary
<1>5. Kept(ch, new) = IF new = {} THEN Hidden(fd[ch]) ELSE fd[ch]
  BY <1>2, <1>4 DEF Kept, Entry, Placed, EntryFor
<1>6. /\ events' \in [Channels -> SUBSET Asked]
      /\ addedToLoop_' \in [Channels -> BOOLEAN]
      /\ active' = active
      /\ events'[ch] = new
      /\ addedToLoop_'[ch] = TRUE
      /\ \A c \in Channels \ {ch} :
           events'[c] = events[c] /\ addedToLoop_'[c] = addedToLoop_[c]
  BY <1>1, AfterAsk DEF UpdateExisting
<1>7. /\ pollfds_' \in Seq(Entries)
      /\ Len(pollfds_') = n
      /\ \A j \in 1 .. n : pollfds_'[j] = IF j = k THEN e ELSE pollfds_[j]
  <2>1. Kept(ch, new) \in Int
    BY <1>1, <1>5 DEF Hidden
  <2>2. e \in Entries
    BY <2>1 DEF Entries
  <2>3. pollfds_ \in Seq(Entries) /\ pollfds_' = [pollfds_ EXCEPT ![k] = e]
    BY DEF Inv, Types, UpdateExisting, Place
  <2>4. QED
    BY <1>3, <2>2, <2>3, ExceptSeq
<1>8. index_' = index_ /\ channels_' = channels_
  BY DEF UpdateExisting
<1>9. Types'
  BY <1>1, <1>6, <1>7, <1>8 DEF Types
<1>10. \A c \in Channels : addedToLoop_'[c] = addedToLoop_[c]
  BY <1>2, <1>6
<1>11. MapRecord'
  BY <1>8, <1>10 DEF Inv, MapRecord, MapHolds
<1>12. Places' = Places /\ Places = 0 .. n - 1
  BY <1>7 DEF Places
<1>13. ArrayRecord'
  <2>1. ASSUME NEW c \in Channels, addedToLoop_'[c] PROVE Placed(c)'
    <3>1. CASE c = ch
      <4>1. (EntryFor(c))' = e
        BY <1>5, <1>6, <3>1 DEF EntryFor, Hidden
      <4>2. QED
        BY <1>2, <1>3, <1>7, <1>8, <1>12, <3>1, <4>1 DEF Placed
    <3>2. CASE c # ch
      <4>1. Placed(c) /\ addedToLoop_[c]
        BY <1>10, <2>1 DEF Inv, ArrayRecord
      <4>2. index_[c] \in 0 .. n - 1 /\ index_[c] # index_[ch]
        BY <1>2, <1>12, <3>2, <4>1, OwnPlaces DEF Placed
      <4>3. index_'[c] \in Places' /\ pollfds_'[index_'[c] + 1] = pollfds_[index_[c] + 1]
        BY <1>1, <1>7, <1>8, <1>12, <4>2
      <4>4. QED
        BY <1>6, <3>2, <4>1, <4>3, StaysPlaced
    <3>3. QED
      BY <3>1, <3>2
  <2>2. QED
    BY <1>8, <1>10, <1>12, <2>1 DEF Inv, ArrayRecord
<1>14. CountRecord'
  BY <1>7, <1>10 DEF Inv, CountRecord, Registered
<1>15. QED
  BY <1>9, <1>11, <1>13, <1>14 DEF Inv

\* The last place of the array has an owner, which is what its entry leads to.
LEMMA AtEndOwnsLast ==
  ASSUME Inv, Len(pollfds_) \in Nat \ {0}
  PROVE  /\ AtEnd \in Channels
         /\ addedToLoop_[AtEnd]
         /\ index_[AtEnd] = Len(pollfds_) - 1
         /\ pollfds_[Len(pollfds_)] = EntryFor(AtEnd)
<1>1. Len(pollfds_) - 1 \in Places /\ Len(pollfds_) - 1 + 1 = Len(pollfds_)
  BY DEF Places
<1>2. PICK c \in Channels : addedToLoop_[c] /\ index_[c] = Len(pollfds_) - 1
  BY <1>1 DEF Inv, ArrayRecord
<1>3. pollfds_[Len(pollfds_)] = EntryFor(c)
  BY <1>1, <1>2 DEF Inv, ArrayRecord, Placed
<1>4. AtEnd = c
  BY <1>2, <1>3, HiddenIsFound DEF AtEnd, Inv, MapRecord, MapHolds
<1>5. QED
  BY <1>2, <1>3, <1>4

\* A removal: the last entry moves into the gap and its owner is told.
LEMMA RemoveChannelInv ==
  ASSUME Inv, NEW ch \in Channels, RemoveChannel(ch)
  PROVE  Inv'
<1> DEFINE n == Len(pollfds_)
           k == index_[ch]
           last == AtEnd
<1>1. Types /\ n \in Nat /\ k \in Int
  BY LenProperties DEF Inv, Types
<1>2. addedToLoop_[ch] /\ Placed(ch)
  BY DEF RemoveChannel, Leave, Registered, Inv, ArrayRecord
<1>3. k \in 0 .. n - 1 /\ n \in Nat \ {0}
  BY <1>1, <1>2 DEF Placed, Places
<1>4. /\ last \in Channels
      /\ addedToLoop_[last]
      /\ index_[last] = n - 1
      /\ pollfds_[n] = EntryFor(last)
  BY <1>3, AtEndOwnsLast
<1>5. /\ events' = events
      /\ active' = active
      /\ addedToLoop_' \in [Channels -> BOOLEAN]
      /\ addedToLoop_'[ch] = FALSE
      /\ \A c \in Channels \ {ch} : addedToLoop_'[c] = addedToLoop_[c]
  BY <1>1 DEF RemoveChannel, Leave, Types
<1>6. /\ index_' \in [Channels -> Int]
      /\ index_'[last] = k
      /\ \A c \in Channels \ {last} : index_'[c] = index_[c]
  BY <1>1, <1>4 DEF RemoveChannel, MovedTo, Types
<1>7. /\ DOMAIN channels_' = DOMAIN channels_ \ {fd[ch]}
      /\ \A f \in DOMAIN channels_' : channels_'[f] = channels_[f]
  BY DEF RemoveChannel, Erase
<1>8. /\ pollfds_' \in Seq(Entries)
      /\ Len(pollfds_') = n - 1
      /\ \A j \in 1 .. n - 1 :
           pollfds_'[j] = IF j = k + 1 THEN pollfds_[n] ELSE pollfds_[j]
  <2>1. pollfds_ \in Seq(Entries) /\ k + 1 \in 1 .. n /\ n \in 1 .. n
    BY <1>1, <1>3 DEF Types
  <2>2. pollfds_[n] \in Entries
    BY <2>1, ElementOfSeq
  <2>3. /\ Swapped(ch) \in Seq(Entries)
        /\ Len(Swapped(ch)) = n
        /\ \A j \in 1 .. n :
             Swapped(ch)[j] = IF j = k + 1 THEN pollfds_[n] ELSE pollfds_[j]
    BY <2>1, <2>2, ExceptSeq DEF Swapped, Place
  <2>4. \A j \in 1 .. n - 1 : j \in 1 .. n /\ j \in 1 .. Len(Swapped(ch))
    BY <1>1, <2>3
  <2>5. \A j \in 1 .. n - 1 : Swapped(ch)[j] \in Entries
    BY <2>3, <2>4, ElementOfSeq
  <2>6. pollfds_' = SubSeq(Swapped(ch), 1, n - 1)
    BY DEF RemoveChannel, WithoutEntry
  <2>7. /\ SubSeq(Swapped(ch), 1, n - 1) \in Seq(Entries)
        /\ Len(SubSeq(Swapped(ch), 1, n - 1)) = IF 1 <= n - 1 THEN n - 1 - 1 + 1 ELSE 0
        /\ \A j \in 1 .. n - 1 - 1 + 1 :
             SubSeq(Swapped(ch), 1, n - 1)[j] = Swapped(ch)[1 + j - 1]
    BY <1>1, <2>5, SubSeqProperties
  <2>8. /\ (IF 1 <= n - 1 THEN n - 1 - 1 + 1 ELSE 0) = n - 1
        /\ n - 1 - 1 + 1 = n - 1
        /\ \A j \in 1 .. n - 1 : 1 + j - 1 = j
    <3>1. \A m \in Nat \ {0} : /\ (IF 1 <= m - 1 THEN m - 1 - 1 + 1 ELSE 0) = m - 1
                              /\ m - 1 - 1 + 1 = m - 1
                              /\ \A j \in 1 .. m - 1 : 1 + j - 1 = j
      OBVIOUS
    <3>2. QED
      BY <1>3, <3>1
  <2>9. QED
    BY <2>3, <2>4, <2>6, <2>7, <2>8
<1>9. Types'
  BY <1>1, <1>5, <1>6, <1>8 DEF Types
<1>10. MapRecord'
  <2>1. ASSUME NEW c \in Channels PROVE MapHolds(c)'
    <3>1. CASE c = ch
      BY <1>5, <1>7, <3>1 DEF MapHolds
    <3>2. CASE c # ch
      <4>1. addedToLoop_[c] => fd[c] # fd[ch]
        BY <1>2, <3>2, OwnPlaces
      <4>2. QED
        BY <1>5, <1>7, <3>2, <4>1 DEF MapHolds, Inv, MapRecord
    <3>3. QED
      BY <3>1, <3>2
  <2>2. QED
    BY <1>7, <2>1 DEF Inv, MapRecord
<1>11. Places = 0 .. n - 1 /\ Places' = 0 .. n - 2
  BY <1>1, <1>8 DEF Places
<1>12. ArrayRecord'
  <2>1. ASSUME NEW c \in Channels, addedToLoop_'[c] PROVE Placed(c)'
    <3>0. c # ch /\ addedToLoop_[c] /\ Placed(c)
      BY <1>5, <2>1 DEF Inv, ArrayRecord
    <3>1. index_[c] \in 0 .. n - 1 /\ index_[c] # k
      BY <1>2, <1>11, <3>0, OwnPlaces DEF Placed
    <3>2. CASE c = last
      <4>1. k # n - 1
        BY <1>4, <3>1, <3>2
      <4>2. index_'[c] \in Places'
        BY <1>1, <1>3, <1>6, <1>11, <3>2, <4>1
      <4>3. k + 1 \in 1 .. n - 1
        BY <1>1, <1>3, <4>1
      <4>4. pollfds_'[index_'[c] + 1] = pollfds_[index_[c] + 1]
        BY <1>1, <1>4, <1>6, <1>8, <3>2, <4>3
      <4>5. QED
        BY <1>5, <3>0, <4>2, <4>4, StaysPlaced
    <3>3. CASE c # last
      <4>1. index_[c] # n - 1
        BY <1>4, <3>0, <3>3, OwnPlaces
      <4>2. index_'[c] = index_[c]
        BY <1>6, <3>3
      <4>3. index_'[c] \in Places' /\ index_[c] + 1 \in 1 .. n - 1 /\ index_[c] + 1 # k + 1
        BY <1>1, <1>3, <1>11, <3>1, <4>1, <4>2
      <4>4. QED
        BY <1>5, <1>8, <3>0, <4>2, <4>3, StaysPlaced
    <3>4. QED
      BY <3>2, <3>3
  <2>2. ASSUME NEW i \in Places'
        PROVE  \E c \in Channels : addedToLoop_'[c] /\ index_'[c] = i
    <3>1. i \in Places /\ i # n - 1
      BY <1>1, <1>11, <2>2
    <3>2. CASE i = k
      <4>1. last # ch
        BY <1>4, <3>1, <3>2
      <4>2. QED
        BY <1>4, <1>5, <1>6, <3>2, <4>1
    <3>3. CASE i # k
      <4>1. PICK c \in Channels : addedToLoop_[c] /\ index_[c] = i
        BY <3>1 DEF Inv, ArrayRecord
      <4>2. c # ch /\ c # last
        BY <1>4, <3>1, <3>3, <4>1
      <4>3. QED
        BY <1>5, <1>6, <4>1, <4>2
    <3>4. QED
      BY <3>2, <3>3
  <2>3. QED
    BY <2>1, <2>2 DEF ArrayRecord
<1>13. CountRecord'
  <2>1. Registered' = Registered \ {ch} /\ ch \in Registered
    BY <1>2, <1>5 DEF Registered
  <2>2. QED
    BY <1>8, <2>1, FS_RemoveElement DEF Inv, CountRecord
<1>14. QED
  BY <1>9, <1>10, <1>12, <1>13 DEF Inv

\* A new Channel object in the place of an old one is not registered.
LEMMA NewChannelInv ==
  ASSUME Inv, NEW ch \in Channels, NewChannel(ch)
  PROVE  Inv'
<1>1. /\ ~addedToLoop_[ch]
      /\ UNCHANGED <<events, addedToLoop_, channels_, active, pollfds_>>
      /\ index_' \in [Channels -> Int]
      /\ \A c \in Channels \ {ch} : index_'[c] = index_[c]
  BY DEF NewChannel, Construct, Registered, Inv, Types
<1>2. Types' /\ MapRecord' /\ CountRecord'
  BY <1>1 DEF Inv, Types, MapRecord, MapHolds, CountRecord, Registered
<1>3. ArrayRecord'
  BY <1>1 DEF Inv, ArrayRecord, Placed, Places, EntryFor
<1>4. QED
  BY <1>2, <1>3 DEF Inv

\* What poll() reports: registered channels that ask for something.
LEMMA ReadyIsRegistered ==
  ASSUME Inv, PollReturns
  PROVE  active' \subseteq {ch \in Registered : events[ch] # {}}
<1> SUFFICES ASSUME NEW i \in Places, Entry(i).fd >= 0
             PROVE  channels_[Entry(i).fd] \in {ch \in Registered : events[ch] # {}}
  BY DEF PollReturns
<1>1. PICK c \in Channels : addedToLoop_[c] /\ index_[c] = i
  BY DEF Inv, ArrayRecord
<1>2. Entry(i) = EntryFor(c)
  BY <1>1 DEF Inv, ArrayRecord, Placed, Entry
<1>3. events[c] # {} /\ Entry(i).fd = fd[c]
  BY <1>2, HiddenIsFound
<1>4. channels_[fd[c]] = c
  BY <1>1 DEF Inv, MapRecord, MapHolds
<1>5. QED
  BY <1>1, <1>3, <1>4 DEF Registered

LEMMA PollReturnsInv ==
  ASSUME Inv, PollReturns
  PROVE  Inv'
<1>1. active' \subseteq Channels
  BY ReadyIsRegistered DEF Registered
<1>2. UNCHANGED <<events, index_, addedToLoop_, channels_, pollfds_>>
  BY DEF PollReturns
<1>3. Types' /\ MapRecord' /\ CountRecord'
  BY <1>1, <1>2 DEF Inv, Types, MapRecord, MapHolds, CountRecord, Registered
<1>4. ArrayRecord'
  BY <1>2 DEF Inv, ArrayRecord, Placed, Places, EntryFor
<1>5. QED
  BY <1>3, <1>4 DEF Inv

LEMMA StutterInv ==
  ASSUME Inv, UNCHANGED vars
  PROVE  Inv'
<1>1. Types' /\ MapRecord' /\ CountRecord'
  BY DEF vars, Inv, Types, MapRecord, MapHolds, CountRecord, Registered
<1>2. ArrayRecord'
  BY DEF vars, Inv, ArrayRecord, Placed, Places, EntryFor
<1>3. QED
  BY <1>1, <1>2 DEF Inv

-----------------------------------------------------------------------------
\* The inductive invariant: the map, the array and the channels' indices are
\* records of the same channels.
THEOREM RecordsAgree ==
  ASSUME Ordinary
  PROVE  Spec => []Inv
<1>1. Inv /\ [Next]_vars => Inv'
  <2> SUFFICES ASSUME Inv, [Next]_vars PROVE Inv'
    OBVIOUS
  <2>1. ASSUME NEW ch \in Channels, NEW new \in SUBSET Asked,
               UpdateNew(ch, new) \/ UpdateExisting(ch, new)
        PROVE  Inv'
    BY <2>1, UpdateNewInv, UpdateExistingInv
  <2>2. ASSUME NEW ch \in Channels, RemoveChannel(ch) \/ NewChannel(ch)
        PROVE  Inv'
    BY <2>2, RemoveChannelInv, NewChannelInv
  <2>3. QED
    BY <2>1, <2>2, PollReturnsInv, StutterInv DEF Next, Asked
<1>2. QED
  BY <1>1, InitInv, PTL DEF Spec

\* After any removals from between, every registered channel is in the map, its
\* index_ is the place of its own entry, and nobody else has an entry.
THEOREM EveryEntryMatches ==
  ASSUME Ordinary
  PROVE  Spec => []EntriesMatch
<1>1. Inv => EntriesMatch
  BY DEF Inv, MapRecord, MapHolds, ArrayRecord, Placed, CountRecord,
         EntriesMatch, Entry, Registered
<1>2. QED
  BY <1>1, RecordsAgree, PTL

\* The kernel is asked for what each registered channel asks for: without an
\* enable...() of a channel disabled before, "update existing one" says the truth.
THEOREM KernelIsAsked ==
  ASSUME Ordinary
  PROVE  Spec => []WatchedAsAsked
<1>1. Inv => WatchedAsAsked
  BY DEF Inv, ArrayRecord, Placed, EntryFor, Entry, WatchedAsAsked, Registered
<1>2. QED
  BY <1>1, RecordsAgree, PTL

\* The poll poller is a Poller, and one that never reports a channel that asks
\* for nothing.
THEOREM ImplementsPoller ==
  ASSUME Ordinary
  PROVE  Spec => IsPoller
<1>1. Init => AbstractPoller!Init
  BY DEF Init, ChannelInit, AbstractPoller!Init, Registered
<1>2. Inv /\ [Next]_vars => [AbstractPoller!Next]_(AbstractPoller!vars)
  <2> SUFFICES ASSUME Inv, [Next]_vars
               PROVE  [AbstractPoller!Next]_(AbstractPoller!vars)
    OBVIOUS
  <2>0. Types
    BY DEF Inv
  <2>1. CASE PollReturns
    <3>1. UNCHANGED <<events, Registered>>
      BY <2>1 DEF PollReturns, Registered
    <3>2. QED
      BY <2>1, <3>1, ReadyIsRegistered DEF AbstractPoller!Poll, AbstractPoller!Next
  <2>2. ASSUME NEW ch \in Channels, NEW new \in SUBSET Asked, Ask(ch, new)
        PROVE  AbstractPoller!Next
    <3>1. Registered' = Registered \cup {ch}
      BY <2>0, <2>2, AfterAsk DEF Registered
    <3>2. AbstractPoller!Update(ch)
      BY <2>0, <2>2, <3>1, AfterAsk DEF AbstractPoller!Update
    <3>3. QED
      BY <3>2 DEF AbstractPoller!Next
  <2>3. ASSUME NEW ch \in Channels, RemoveChannel(ch)
        PROVE  AbstractPoller!Next
    <3>1. Registered' = Registered \ {ch}
      BY <2>0, <2>3 DEF RemoveChannel, Leave, Registered, Types
    <3>2. AbstractPoller!Remove(ch)
      BY <2>3, <3>1 DEF RemoveChannel, Leave, AbstractPoller!Remove
    <3>3. QED
      BY <3>2 DEF AbstractPoller!Next
  <2>4. ASSUME NEW ch \in Channels, NewChannel(ch)
        PROVE  UNCHANGED AbstractPoller!vars
    BY <2>4 DEF NewChannel, Construct, AbstractPoller!vars, Registered
  <2>5. CASE UNCHANGED vars
    BY <2>5 DEF vars, AbstractPoller!vars, Registered
  <2>6. ASSUME NEW ch \in Channels, NEW new \in SUBSET Asked,
               UpdateNew(ch, new) \/ UpdateExisting(ch, new)
        PROVE  AbstractPoller!Next
    BY <2>2, <2>6 DEF UpdateNew, UpdateExisting
  <2>7. QED
    BY <2>1, <2>3, <2>4, <2>5, <2>6 DEF Next, Asked
<1>3. QED
  BY <1>1, <1>2, RecordsAgree, PTL DEF Spec, IsPoller, AbstractPoller!Spec
=============================================================================
