------------------------- MODULE EPollPollerProofs --------------------------
(***************************************************************************)
(* Theorems about EPollPoller, for every set of channels, every assignment *)
(* of descriptors to them and every set of uses.                           *)
(***************************************************************************)
EXTENDS EPollPoller, TLAPS

Asked == {"read", "write"}

\* The parts of TypeOK that change together.
FieldTypes ==
  /\ events \in [Channels -> SUBSET Asked]
  /\ addedToLoop_ \in [Channels -> BOOLEAN]
  /\ active \subseteq Channels
IndexTypes ==
  /\ index_ \in [Channels -> Int]
  /\ \A ch \in Channels : index_[ch] \in {kNew, kAdded, kDeleted}
MapTypes ==
  /\ DOMAIN channels_ \subseteq Descriptors
  /\ \A f \in DOMAIN channels_ : channels_[f] \in Channels
EpollTypes ==
  /\ Watched \subseteq Descriptors
  /\ \A f \in Watched : epoll[f] \in [ptr : Channels, events : SUBSET Asked]

LEMMA TypeParts ==
  TypeOK <=> FieldTypes /\ IndexTypes /\ MapTypes /\ EpollTypes /\ ctlFailed \in BOOLEAN
BY DEF TypeOK, ChannelTypeOK, FieldTypes, IndexTypes, MapTypes, EpollTypes, Asked

LEMMA InitTypes == Init => TypeOK
<1> SUFFICES ASSUME Init PROVE TypeOK
  OBVIOUS
<1> USE DEF Init, ChannelInit
<1>1. FieldTypes
  BY DEF FieldTypes
<1>2. IndexTypes
  BY DEF IndexTypes, kNew
<1>3. MapTypes
  BY DEF MapTypes
<1>4. EpollTypes
  BY DEF EpollTypes, Watched
<1>5. QED
  BY <1>1, <1>2, <1>3, <1>4, TypeParts

LEMMA AskTypes ==
  ASSUME FieldTypes, NEW ch \in Channels, NEW new \in SUBSET Asked, Ask(ch, new)
  PROVE  FieldTypes'
BY DEF FieldTypes, Ask

LEMMA LeaveTypes ==
  ASSUME FieldTypes, NEW ch \in Channels, Leave(ch)
  PROVE  FieldTypes'
BY DEF FieldTypes, Leave

LEMMA SetIndexTypes ==
  ASSUME IndexTypes, NEW ch \in Channels, NEW i \in {kNew, kAdded, kDeleted},
         SetIndex(ch, i)
  PROVE  IndexTypes'
BY DEF IndexTypes, SetIndex, kNew, kAdded, kDeleted

LEMMA EnterTypes ==
  ASSUME MapTypes, NEW ch \in Channels, Enter(ch)
  PROVE  MapTypes'
BY DEF MapTypes, Enter, Descriptors

LEMMA EraseTypes ==
  ASSUME MapTypes, NEW ch \in Channels, Erase(ch)
  PROVE  MapTypes'
BY DEF MapTypes, Erase, Descriptors

LEMMA PutTypes ==
  ASSUME EpollTypes, NEW ch \in Channels, FieldTypes', Put(ch)
  PROVE  EpollTypes'
<1>1. events'[ch] \in SUBSET Asked
  BY DEF FieldTypes
<1>2. [ptr |-> ch, events |-> events'[ch]] \in [ptr : Channels, events : SUBSET Asked]
  BY <1>1
<1>3. QED
  BY <1>2 DEF EpollTypes, Put, Watched, Descriptors

LEMMA DeleteTypes ==
  ASSUME EpollTypes, NEW ch \in Channels, ctlFailed \in BOOLEAN, Delete(ch)
  PROVE  EpollTypes' /\ ctlFailed' \in BOOLEAN
BY DEF EpollTypes, Delete, Ctl, Watched

LEMMA CtlTypes ==
  ASSUME EpollTypes, NEW ch \in Channels, FieldTypes', ctlFailed \in BOOLEAN,
         Add(ch) \/ Modify(ch)
  PROVE  EpollTypes' /\ ctlFailed' \in BOOLEAN
<1>1. CASE Put(ch) /\ UNCHANGED ctlFailed
  BY <1>1, PutTypes
<1>2. CASE ctlFailed' = TRUE /\ UNCHANGED epoll
  BY <1>2 DEF EpollTypes, Watched
<1>3. QED
  BY <1>1, <1>2 DEF Add, Modify, Ctl

\* The fields of the channels, the map and the kernel's set keep their types.
THEOREM TypeCorrect == Spec => []TypeOK
<1>1. TypeOK /\ [Next]_vars => TypeOK'
  <2> SUFFICES ASSUME TypeOK, [Next]_vars PROVE TypeOK'
    OBVIOUS
  <2>0. /\ FieldTypes /\ IndexTypes /\ MapTypes /\ EpollTypes
        /\ ctlFailed \in BOOLEAN
    BY TypeParts
  <2> SUFFICES /\ FieldTypes' /\ IndexTypes' /\ MapTypes' /\ EpollTypes'
               /\ ctlFailed' \in BOOLEAN
    BY DEF TypeOK, ChannelTypeOK, FieldTypes, IndexTypes, MapTypes, EpollTypes, Asked
  <2>1. CASE PollReturns
    <3>1. FieldTypes'
      BY <2>0, <2>1 DEF PollReturns, FieldTypes, EpollTypes
    <3>2. IndexTypes' /\ MapTypes' /\ EpollTypes' /\ ctlFailed' \in BOOLEAN
      BY <2>0, <2>1 DEF PollReturns, IndexTypes, MapTypes, EpollTypes, Watched
    <3>3. QED
      BY <3>1, <3>2
  <2>2. ASSUME NEW ch \in Channels, NEW new \in SUBSET Asked, UpdateNew(ch, new)
        PROVE  /\ FieldTypes' /\ IndexTypes' /\ MapTypes' /\ EpollTypes'
               /\ ctlFailed' \in BOOLEAN
    BY <2>0, <2>2, AskTypes, SetIndexTypes, EnterTypes, CtlTypes DEF UpdateNew
  <2>3. ASSUME NEW ch \in Channels, NEW new \in SUBSET Asked, UpdateDeleted(ch, new)
        PROVE  /\ FieldTypes' /\ IndexTypes' /\ MapTypes' /\ EpollTypes'
               /\ ctlFailed' \in BOOLEAN
    <3>1. MapTypes'
      BY <2>0, <2>3 DEF UpdateDeleted, MapTypes
    <3>2. QED
      BY <2>0, <2>3, <3>1, AskTypes, SetIndexTypes, CtlTypes DEF UpdateDeleted
  <2>4. ASSUME NEW ch \in Channels, NEW new \in SUBSET Asked, UpdateEvents(ch, new)
        PROVE  /\ FieldTypes' /\ IndexTypes' /\ MapTypes' /\ EpollTypes'
               /\ ctlFailed' \in BOOLEAN
    <3>1. MapTypes' /\ IndexTypes'
      BY <2>0, <2>4 DEF UpdateEvents, MapTypes, IndexTypes
    <3>2. QED
      BY <2>0, <2>4, <3>1, AskTypes, CtlTypes DEF UpdateEvents
  <2>5. ASSUME NEW ch \in Channels, UpdateNone(ch)
        PROVE  /\ FieldTypes' /\ IndexTypes' /\ MapTypes' /\ EpollTypes'
               /\ ctlFailed' \in BOOLEAN
    <3>1. MapTypes'
      BY <2>0, <2>5 DEF UpdateNone, MapTypes
    <3>2. FieldTypes'
      BY <2>0, <2>5, AskTypes DEF UpdateNone
    <3>3. IndexTypes'
      BY <2>0, <2>5, SetIndexTypes DEF UpdateNone, IndexWhenDeleted
    <3>4. QED
      BY <2>0, <2>5, <3>1, <3>2, <3>3, DeleteTypes DEF UpdateNone
  <2>6. ASSUME NEW ch \in Channels, RemoveChannel(ch)
        PROVE  /\ FieldTypes' /\ IndexTypes' /\ MapTypes' /\ EpollTypes'
               /\ ctlFailed' \in BOOLEAN
    <3>1. FieldTypes' /\ MapTypes'
      BY <2>0, <2>6, LeaveTypes, EraseTypes DEF RemoveChannel
    <3>2. IndexTypes'
      BY <2>0, <2>6, SetIndexTypes DEF RemoveChannel, IndexWhenRemoved
    <3>3. CASE Delete(ch)
      BY <2>0, <3>1, <3>2, <3>3, DeleteTypes
    <3>4. CASE UNCHANGED <<epoll, ctlFailed>>
      BY <2>0, <3>1, <3>2, <3>4 DEF EpollTypes, Watched
    <3>5. QED
      BY <2>6, <3>3, <3>4 DEF RemoveChannel
  <2>7. CASE UNCHANGED vars
    BY <2>0, <2>7 DEF vars, FieldTypes, IndexTypes, MapTypes, EpollTypes, Watched
  <2>8. QED
    BY <2>1, <2>2, <2>3, <2>4, <2>5, <2>6, <2>7 DEF Next, Asked
<1>2. QED
  BY <1>1, InitTypes, PTL DEF Spec

-----------------------------------------------------------------------------
(***************************************************************************)
(* The three records agree.                                                *)
(***************************************************************************)
\* The parts of the inductive invariant, one channel or descriptor at a time.
MapHolds(ch) ==
  addedToLoop_[ch] <=> fd[ch] \in DOMAIN channels_ /\ channels_[fd[ch]] = ch
NewIsOutside(ch) == index_[ch] = kNew <=> ~addedToLoop_[ch]
AddedIsWatched(ch) ==
  (addedToLoop_[ch] /\ index_[ch] = kAdded) =>
     fd[ch] \in Watched /\ epoll[fd[ch]] = [ptr |-> ch, events |-> events[ch]]
DeletedIsNot(ch) ==
  (addedToLoop_[ch] /\ index_[ch] = kDeleted) => fd[ch] \notin Watched /\ events[ch] = {}

Records ==
  /\ \A ch \in Channels :
       MapHolds(ch) /\ NewIsOutside(ch) /\ AddedIsWatched(ch) /\ DeletedIsNot(ch)
  /\ \A f \in DOMAIN channels_ : fd[channels_[f]] = f
  /\ \A f \in Watched : f \in DOMAIN channels_ /\ channels_[f] = epoll[f].ptr
  /\ ctlFailed = FALSE

Inv == TypeOK /\ Records

\* A channel that is going to be added is alone on its descriptor.
LEMMA NobodyElse ==
  ASSUME Inv, NEW ch \in Channels, NEW new, MayAsk(ch, new), ~addedToLoop_[ch]
  PROVE  fd[ch] \notin DOMAIN channels_ /\ fd[ch] \notin Watched
<1>1. SUFFICES ASSUME fd[ch] \in DOMAIN channels_ PROVE FALSE
  BY DEF Inv, Records
<1> DEFINE other == channels_[fd[ch]]
<1>2. other \in Channels /\ fd[other] = fd[ch]
  BY <1>1 DEF Inv, Records, TypeOK, ChannelTypeOK
<1>3. other \in Registered
  BY <1>1, <1>2 DEF Inv, Records, MapHolds, Registered
<1>4. other = ch
  BY <1>2, <1>3 DEF MayAsk
<1>5. QED
  BY <1>3, <1>4 DEF Registered

\* Registered channels have descriptors of their own.
LEMMA OwnDescriptors ==
  ASSUME Inv, NEW c \in Channels, NEW d \in Channels,
         addedToLoop_[c], addedToLoop_[d], fd[c] = fd[d]
  PROVE  c = d
BY DEF Inv, Records, MapHolds

LEMMA InitRecords == Init => Records
BY DEF Init, ChannelInit, Records, MapHolds, NewIsOutside, AddedIsWatched,
       DeletedIsNot, kNew, kAdded, kDeleted, Watched

\* epoll' after ADD or MOD of a descriptor, and of the fields it asks for.
LEMMA AfterPut ==
  ASSUME Inv, NEW ch \in Channels, NEW new \in SUBSET Asked, Ask(ch, new), Put(ch)
  PROVE  /\ DOMAIN epoll' = DOMAIN epoll \cup {fd[ch]}
         /\ epoll'[fd[ch]] = [ptr |-> ch, events |-> events'[ch]]
         /\ \A f \in DOMAIN epoll \ {fd[ch]} : epoll'[f] = epoll[f]
         /\ events'[ch] = new
         /\ addedToLoop_'[ch] = TRUE
         /\ \A c \in Channels \ {ch} :
              events'[c] = events[c] /\ addedToLoop_'[c] = addedToLoop_[c]
<1>1. events \in [Channels -> SUBSET Asked] /\ addedToLoop_ \in [Channels -> BOOLEAN]
  BY DEF Inv, TypeOK, ChannelTypeOK, Asked
<1>2. QED
  BY <1>1 DEF Put, Ask, Watched

LEMMA UpdateNewRecords ==
  ASSUME Inv, NEW ch \in Channels, NEW new \in SUBSET Asked, UpdateNew(ch, new)
  PROVE  Records'
<1>1. ~addedToLoop_[ch] /\ index_[ch] = kNew
  BY DEF UpdateNew, Inv, Records, NewIsOutside
<1>2. fd[ch] \notin DOMAIN channels_ /\ fd[ch] \notin Watched
  BY <1>1, NobodyElse DEF UpdateNew, Ask
<1>3. Put(ch) /\ ctlFailed' = ctlFailed
  BY <1>2 DEF UpdateNew, Add, Ctl
<1>4. /\ index_'[ch] = kAdded
      /\ \A c \in Channels \ {ch} : index_'[c] = index_[c]
  BY DEF UpdateNew, SetIndex, Inv, TypeOK, ChannelTypeOK
<1>5. /\ DOMAIN channels_' = DOMAIN channels_ \cup {fd[ch]}
      /\ channels_'[fd[ch]] = ch
      /\ \A f \in DOMAIN channels_ : channels_'[f] = channels_[f]
  BY <1>2 DEF UpdateNew, Enter
<1>6. /\ DOMAIN epoll' = DOMAIN epoll \cup {fd[ch]}
      /\ epoll'[fd[ch]] = [ptr |-> ch, events |-> events'[ch]]
      /\ \A f \in DOMAIN epoll \ {fd[ch]} : epoll'[f] = epoll[f]
      /\ addedToLoop_'[ch] = TRUE
      /\ \A c \in Channels \ {ch} :
           events'[c] = events[c] /\ addedToLoop_'[c] = addedToLoop_[c]
  BY <1>3, AfterPut DEF UpdateNew
<1>7. ASSUME NEW c \in Channels
      PROVE  (MapHolds(c) /\ NewIsOutside(c) /\ AddedIsWatched(c) /\ DeletedIsNot(c))'
  <2>1. CASE c = ch
    BY <1>4, <1>5, <1>6, <2>1
       DEF MapHolds, NewIsOutside, AddedIsWatched, DeletedIsNot, Watched, kNew, kAdded, kDeleted
  <2>2. CASE c # ch
    <3>1. MapHolds(c) /\ NewIsOutside(c) /\ AddedIsWatched(c) /\ DeletedIsNot(c)
      BY DEF Inv, Records
    <3>2. addedToLoop_[c] => fd[c] # fd[ch]
      BY <1>2, <3>1 DEF MapHolds
    <3>3. MapHolds(c)'
      BY <1>2, <1>5, <1>6, <2>2, <3>1 DEF MapHolds
    <3>4. QED
      BY <1>4, <1>6, <2>2, <3>1, <3>2, <3>3
         DEF NewIsOutside, AddedIsWatched, DeletedIsNot, Watched
  <2>3. QED
    BY <2>1, <2>2
<1>8. \A f \in DOMAIN channels_' : fd[channels_'[f]] = f
  BY <1>5 DEF Inv, Records
<1>9. \A f \in Watched' : f \in DOMAIN channels_' /\ channels_'[f] = epoll'[f].ptr
  BY <1>2, <1>5, <1>6 DEF Inv, Records, Watched
<1>10. QED
  BY <1>3, <1>7, <1>8, <1>9 DEF Records, Inv

\* ADD or MOD of a channel that is registered already.
LEMMA PutAgainRecords ==
  ASSUME Inv, NEW ch \in Channels, NEW new \in SUBSET Asked,
         addedToLoop_[ch], Ask(ch, new), Put(ch), UNCHANGED ctlFailed,
         UNCHANGED channels_,
         index_'[ch] = kAdded, \A c \in Channels \ {ch} : index_'[c] = index_[c]
  PROVE  Records'
<1>1. /\ DOMAIN epoll' = DOMAIN epoll \cup {fd[ch]}
      /\ epoll'[fd[ch]] = [ptr |-> ch, events |-> events'[ch]]
      /\ \A f \in DOMAIN epoll \ {fd[ch]} : epoll'[f] = epoll[f]
      /\ addedToLoop_'[ch] = TRUE
      /\ \A c \in Channels \ {ch} :
           events'[c] = events[c] /\ addedToLoop_'[c] = addedToLoop_[c]
  BY AfterPut
<1>2. fd[ch] \in DOMAIN channels_ /\ channels_[fd[ch]] = ch
  BY DEF Inv, Records, MapHolds
<1>3. ASSUME NEW c \in Channels
      PROVE  (MapHolds(c) /\ NewIsOutside(c) /\ AddedIsWatched(c) /\ DeletedIsNot(c))'
  <2>1. CASE c = ch
    BY <1>1, <1>2, <2>1
       DEF MapHolds, NewIsOutside, AddedIsWatched, DeletedIsNot, Watched, kNew, kAdded, kDeleted
  <2>2. CASE c # ch
    <3>1. MapHolds(c) /\ NewIsOutside(c) /\ AddedIsWatched(c) /\ DeletedIsNot(c)
      BY DEF Inv, Records
    <3>2. addedToLoop_[c] => fd[c] # fd[ch]
      BY <2>2, OwnDescriptors
    <3>3. QED
      BY <1>1, <2>2, <3>1, <3>2
         DEF MapHolds, NewIsOutside, AddedIsWatched, DeletedIsNot, Watched
  <2>3. QED
    BY <2>1, <2>2
<1>4. \A f \in Watched' : f \in DOMAIN channels_' /\ channels_'[f] = epoll'[f].ptr
  BY <1>1, <1>2 DEF Inv, Records, Watched
<1>5. QED
  BY <1>3, <1>4 DEF Records, Inv

LEMMA UpdateDeletedRecords ==
  ASSUME Inv, NEW ch \in Channels, NEW new \in SUBSET Asked, UpdateDeleted(ch, new)
  PROVE  Records'
<1>1. addedToLoop_[ch]
  BY DEF UpdateDeleted, Inv, Records, NewIsOutside, kNew, kDeleted
<1>2. fd[ch] \notin Watched
  BY <1>1 DEF UpdateDeleted, Inv, Records, DeletedIsNot
<1>3. Put(ch) /\ UNCHANGED ctlFailed
  BY <1>2 DEF UpdateDeleted, Add, Ctl
<1>4. index_'[ch] = kAdded /\ \A c \in Channels \ {ch} : index_'[c] = index_[c]
  BY DEF UpdateDeleted, SetIndex, Inv, TypeOK, ChannelTypeOK
<1>5. QED
  BY <1>1, <1>3, <1>4, PutAgainRecords DEF UpdateDeleted

LEMMA UpdateEventsRecords ==
  ASSUME Inv, NEW ch \in Channels, NEW new \in SUBSET Asked, UpdateEvents(ch, new)
  PROVE  Records'
<1>1. addedToLoop_[ch]
  BY DEF UpdateEvents, Inv, Records, NewIsOutside, kNew, kAdded
<1>2. fd[ch] \in Watched
  BY <1>1 DEF UpdateEvents, Inv, Records, AddedIsWatched
<1>3. Put(ch) /\ UNCHANGED ctlFailed
  BY <1>2 DEF UpdateEvents, Modify, Ctl
<1>4. index_'[ch] = kAdded /\ \A c \in Channels \ {ch} : index_'[c] = index_[c]
  BY DEF UpdateEvents
<1>5. QED
  BY <1>1, <1>3, <1>4, PutAgainRecords DEF UpdateEvents

LEMMA UpdateNoneRecords ==
  ASSUME Inv, NEW ch \in Channels, UpdateNone(ch)
  PROVE  Records'
<1>1. addedToLoop_[ch]
  BY DEF UpdateNone, Inv, Records, NewIsOutside, kNew, kAdded
<1>2. fd[ch] \in Watched
  BY <1>1 DEF UpdateNone, Inv, Records, AddedIsWatched
<1>3. /\ ctlFailed' = ctlFailed
      /\ DOMAIN epoll' = DOMAIN epoll \ {fd[ch]}
      /\ \A f \in DOMAIN epoll' : epoll'[f] = epoll[f]
  BY <1>2 DEF UpdateNone, Delete, Ctl, Watched
<1>4. /\ index_'[ch] = kDeleted
      /\ \A c \in Channels \ {ch} : index_'[c] = index_[c]
  BY DEF UpdateNone, SetIndex, IndexWhenDeleted, Inv, TypeOK, ChannelTypeOK
<1>5. /\ events'[ch] = {}
      /\ addedToLoop_'[ch] = TRUE
      /\ \A c \in Channels \ {ch} :
           events'[c] = events[c] /\ addedToLoop_'[c] = addedToLoop_[c]
  BY DEF UpdateNone, Ask, Inv, TypeOK, ChannelTypeOK
<1>6. channels_' = channels_
  BY DEF UpdateNone
<1>7. ASSUME NEW c \in Channels
      PROVE  (MapHolds(c) /\ NewIsOutside(c) /\ AddedIsWatched(c) /\ DeletedIsNot(c))'
  <2>0. MapHolds(c) /\ NewIsOutside(c) /\ AddedIsWatched(c) /\ DeletedIsNot(c)
    BY DEF Inv, Records
  <2>1. CASE c = ch
    BY <1>1, <1>3, <1>4, <1>5, <1>6, <2>0, <2>1
       DEF MapHolds, NewIsOutside, AddedIsWatched, DeletedIsNot, Watched, kNew, kAdded, kDeleted
  <2>2. CASE c # ch
    <3>1. addedToLoop_[c] => fd[c] # fd[ch]
      BY <1>1, <2>2, OwnDescriptors
    <3>2. QED
      BY <1>3, <1>4, <1>5, <1>6, <2>0, <2>2, <3>1
         DEF MapHolds, NewIsOutside, AddedIsWatched, DeletedIsNot, Watched
  <2>3. QED
    BY <2>1, <2>2
<1>8. QED
  BY <1>3, <1>6, <1>7 DEF Records, Inv, Watched

LEMMA RemoveChannelRecords ==
  ASSUME Inv, NEW ch \in Channels, RemoveChannel(ch)
  PROVE  Records'
<1>1. addedToLoop_[ch]
  BY DEF RemoveChannel, Leave, Registered
<1>2. index_[ch] = kAdded => fd[ch] \in Watched
  BY <1>1 DEF Inv, Records, AddedIsWatched
<1>3. index_[ch] # kAdded => fd[ch] \notin Watched
  BY <1>1 DEF Inv, TypeOK, Records, NewIsOutside, DeletedIsNot
<1>4. /\ ctlFailed' = ctlFailed
      /\ DOMAIN epoll' = DOMAIN epoll \ {fd[ch]}
      /\ \A f \in DOMAIN epoll' : epoll'[f] = epoll[f]
  <2>1. CASE index_[ch] = kAdded
    BY <1>2, <2>1 DEF RemoveChannel, StillWatched, Delete, Ctl, Watched
  <2>2. CASE index_[ch] # kAdded
    BY <1>3, <2>2 DEF RemoveChannel, StillWatched, Watched
  <2>3. QED
    BY <2>1, <2>2
<1>5. /\ index_'[ch] = kNew
      /\ \A c \in Channels \ {ch} : index_'[c] = index_[c]
  BY DEF RemoveChannel, SetIndex, IndexWhenRemoved, Inv, TypeOK, ChannelTypeOK
<1>6. /\ events' = events
      /\ addedToLoop_'[ch] = FALSE
      /\ \A c \in Channels \ {ch} : addedToLoop_'[c] = addedToLoop_[c]
  BY DEF RemoveChannel, Leave, Inv, TypeOK, ChannelTypeOK
<1>7. /\ DOMAIN channels_' = DOMAIN channels_ \ {fd[ch]}
      /\ \A f \in DOMAIN channels_' : channels_'[f] = channels_[f]
  BY DEF RemoveChannel, Erase
<1>8. ASSUME NEW c \in Channels
      PROVE  (MapHolds(c) /\ NewIsOutside(c) /\ AddedIsWatched(c) /\ DeletedIsNot(c))'
  <2>0. MapHolds(c) /\ NewIsOutside(c) /\ AddedIsWatched(c) /\ DeletedIsNot(c)
    BY DEF Inv, Records
  <2>1. CASE c = ch
    BY <1>5, <1>6, <1>7, <2>1
       DEF MapHolds, NewIsOutside, AddedIsWatched, DeletedIsNot, Watched, kNew, kAdded, kDeleted
  <2>2. CASE c # ch
    <3>1. addedToLoop_[c] => fd[c] # fd[ch]
      BY <1>1, <2>2, OwnDescriptors
    <3>2. QED
      BY <1>4, <1>5, <1>6, <1>7, <2>0, <2>2, <3>1
         DEF MapHolds, NewIsOutside, AddedIsWatched, DeletedIsNot, Watched
  <2>3. QED
    BY <2>1, <2>2
<1>9. QED
  BY <1>4, <1>7, <1>8 DEF Records, Inv, Watched

\* The inductive invariant: types, and three records that agree.
THEOREM RecordsAgree == Spec => []Inv
<1>1. Init => Inv
  BY InitTypes, InitRecords DEF Inv
<1>2. Inv /\ TypeOK' /\ [Next]_vars => Inv'
  <2> SUFFICES ASSUME Inv, [Next]_vars PROVE Records'
    BY DEF Inv
  <2>1. CASE PollReturns
    BY <2>1 DEF PollReturns, Inv, Records, MapHolds, NewIsOutside, AddedIsWatched,
                DeletedIsNot, Watched
  <2>2. CASE UNCHANGED vars
    BY <2>2 DEF vars, Inv, Records, MapHolds, NewIsOutside, AddedIsWatched,
                DeletedIsNot, Watched
  <2>3. ASSUME NEW ch \in Channels, NEW new \in SUBSET Asked,
               UpdateNew(ch, new) \/ UpdateDeleted(ch, new) \/ UpdateEvents(ch, new)
        PROVE  Records'
    BY <2>3, UpdateNewRecords, UpdateDeletedRecords, UpdateEventsRecords
  <2>4. ASSUME NEW ch \in Channels, UpdateNone(ch) \/ RemoveChannel(ch)
        PROVE  Records'
    BY <2>4, UpdateNoneRecords, RemoveChannelRecords
  <2>5. QED
    BY <2>1, <2>2, <2>3, <2>4 DEF Next, Asked
<1>3. QED
  BY <1>1, <1>2, TypeCorrect, PTL DEF Spec

-----------------------------------------------------------------------------
\* The map holds exactly the registered channels, each under its descriptor,
\* and index_ tells them from the others (what updateChannel() asserts).
THEOREM MapIsRight == Spec => []MapMatches
<1>1. Inv => MapMatches
  BY DEF Inv, Records, MapHolds, NewIsOutside, MapMatches, Registered
<1>2. QED
  BY <1>1, RecordsAgree, PTL

\* epoll_ctl() never fails, in whatever order channels come and go.
THEOREM CtlSucceeds == Spec => []NoCtlFailure
<1>1. Inv => NoCtlFailure
  BY DEF Inv, Records, NoCtlFailure
<1>2. QED
  BY <1>1, RecordsAgree, PTL

\* The pointers that the kernel keeps and poll() returns are those of registered
\* channels: fillActiveChannels() finds them in the map.
THEOREM PointersAreGood == Spec => []KernelPointsToChannels
<1>1. Inv => KernelPointsToChannels
  BY DEF Inv, Records, KernelPointsToChannels
<1>2. QED
  BY <1>1, RecordsAgree, PTL

\* The kernel watches every registered channel for what it asks for.
THEOREM KernelWatches == Spec => []WatchedAsAsked
<1>1. Inv => WatchedAsAsked
  <2> SUFFICES ASSUME Inv, NEW ch \in Registered, events[ch] # {}
               PROVE  fd[ch] \in Watched
                      /\ epoll[fd[ch]] = [ptr |-> ch, events |-> events[ch]]
    BY DEF WatchedAsAsked
  <2>1. ch \in Channels /\ addedToLoop_[ch]
    BY DEF Registered
  <2>2. index_[ch] = kAdded
    BY <2>1 DEF Inv, TypeOK, Records, NewIsOutside, DeletedIsNot
  <2>3. QED
    BY <2>1, <2>2 DEF Inv, Records, AddedIsWatched
<1>2. QED
  BY <1>1, RecordsAgree, PTL

\* The epoll poller is a Poller: poll() returns pointers to registered channels
\* only, and registering and removing do what the interface says.
THEOREM ImplementsPoller == Spec => IsPoller
<1>1. Init => AbstractPoller!Init
  BY DEF Init, ChannelInit, AbstractPoller!Init, Registered
<1>2. Inv /\ [Next]_vars => [AbstractPoller!Next]_(AbstractPoller!vars)
  <2> SUFFICES ASSUME Inv, [Next]_vars
               PROVE  [AbstractPoller!Next]_(AbstractPoller!vars)
    OBVIOUS
  <2>0. events \in [Channels -> SUBSET Asked] /\ addedToLoop_ \in [Channels -> BOOLEAN]
    BY DEF Inv, TypeOK, ChannelTypeOK, Asked
  <2>1. CASE PollReturns
    <3>1. active' \subseteq Registered
      <4> SUFFICES ASSUME NEW f \in Watched PROVE epoll[f].ptr \in Registered
        BY <2>1 DEF PollReturns
      <4>1. /\ f \in DOMAIN channels_ /\ channels_[f] = epoll[f].ptr
            /\ fd[channels_[f]] = f /\ channels_[f] \in Channels
        BY DEF Inv, Records, TypeOK, ChannelTypeOK
      <4>2. QED
        BY <4>1 DEF Inv, Records, MapHolds, Registered
    <3>2. UNCHANGED <<events, Registered>>
      BY <2>1 DEF PollReturns, Registered
    <3>3. QED
      BY <3>1, <3>2 DEF AbstractPoller!Poll, AbstractPoller!Next
  <2>2. ASSUME NEW ch \in Channels, NEW new \in SUBSET Asked, Ask(ch, new)
        PROVE  AbstractPoller!Next
    <3>1. Registered' = Registered \cup {ch}
      BY <2>0, <2>2 DEF Ask, Registered
    <3>2. \A other \in Channels \ {ch} : events'[other] = events[other]
      BY <2>0, <2>2 DEF Ask
    <3>3. active' = active
      BY <2>2 DEF Ask
    <3>4. AbstractPoller!Update(ch)
      BY <3>1, <3>2, <3>3 DEF AbstractPoller!Update
    <3>5. QED
      BY <3>4 DEF AbstractPoller!Next
  <2>3. ASSUME NEW ch \in Channels, RemoveChannel(ch)
        PROVE  AbstractPoller!Next
    <3>1. Registered' = Registered \ {ch}
      BY <2>0, <2>3 DEF RemoveChannel, Leave, Registered
    <3>2. AbstractPoller!Remove(ch)
      BY <2>3, <3>1 DEF RemoveChannel, Leave, AbstractPoller!Remove
    <3>3. QED
      BY <3>2 DEF AbstractPoller!Next
  <2>4. CASE UNCHANGED vars
    BY <2>4 DEF vars, AbstractPoller!vars, Registered
  <2>5. ASSUME NEW ch \in Channels, NEW new \in SUBSET Asked,
               UpdateNew(ch, new) \/ UpdateDeleted(ch, new) \/ UpdateEvents(ch, new)
        PROVE  AbstractPoller!Next
    BY <2>2, <2>5 DEF UpdateNew, UpdateDeleted, UpdateEvents
  <2>6. ASSUME NEW ch \in Channels, UpdateNone(ch)
        PROVE  AbstractPoller!Next
    BY <2>2, <2>6 DEF UpdateNone
  <2>7. QED
    BY <2>1, <2>3, <2>4, <2>5, <2>6 DEF Next, Asked
<1>3. QED
  BY <1>1, <1>2, RecordsAgree, PTL DEF Spec, IsPoller, AbstractPoller!Spec
=============================================================================
