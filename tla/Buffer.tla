------------------------------- MODULE Buffer -------------------------------
(***************************************************************************)
(* src/net/Buffer.h and Buffer.cpp: bytes between two indices into an      *)
(* array that never grows, after a gap of kCheapPrepend bytes.  The free   *)
(* space is at the end until move() brings the bytes back to the front.    *)
(*                                                                         *)
(* The operations are those of its users: the two ways in are the caching  *)
(* of TcpConnection::send() and delaySend(), and readFd(); the way out is  *)
(* retrieve().  A byte is its number in the order of arrival, and numbers  *)
(* start again after Period of them.                                       *)
(***************************************************************************)
EXTENDS Naturals, Sequences

CONSTANTS
  kCheapPrepend,
  CacheSize,       \* the constructor's initialSize
  Period           \* bound: bytes told apart

ASSUME SizesAreNatural ==
  /\ kCheapPrepend \in Nat
  /\ CacheSize \in Nat \ {0}
  /\ Period \in Nat /\ Period > CacheSize

VARIABLES
  buffer_,                      \* from places counted from 0 to bytes
  readerIndex_, writerIndex_,
  arrived,                      \* history: the number of the next byte
  refused                       \* history: length of the write refused last

vars == <<buffer_, readerIndex_, writerIndex_, arrived, refused>>

Size == kCheapPrepend + CacheSize
Unset == Period       \* what the array holds where nothing has been written

Init ==
  /\ buffer_ = [i \in 0 .. Size - 1 |-> Unset]
  /\ readerIndex_ = kCheapPrepend
  /\ writerIndex_ = kCheapPrepend
  /\ arrived = 0
  /\ refused = 0

readableBytes == writerIndex_ - readerIndex_
writableBytes == Size - writerIndex_

moveAfterWritableBytes == writableBytes + (readerIndex_ - kCheapPrepend)

-----------------------------------------------------------------------------
\* move(): the array with the bytes at the front; bug: only the indices move
MovedNot == buffer_
Moved ==
  [i \in DOMAIN buffer_ |->
     IF i \in kCheapPrepend .. kCheapPrepend + readableBytes - 1
     THEN buffer_[i - kCheapPrepend + readerIndex_]
     ELSE buffer_[i]]

\* append() and hasWritten() of n bytes at place w of an array
Write(array, w, n) ==
  /\ buffer_' = [i \in DOMAIN array |->
                   IF i \in w .. w + n - 1 THEN (arrived + (i - w)) % Period
                                            ELSE array[i]]
  /\ writerIndex_' = w + n
  /\ arrived' = (arrived + n) % Period
  /\ refused' = 0

AppendHere(n) == Write(buffer_, writerIndex_, n) /\ UNCHANGED readerIndex_

AppendMoved(n) ==
  /\ Write(Moved, kCheapPrepend + readableBytes, n)
  /\ readerIndex_' = kCheapPrepend

FitsMoved(len) == len <= moveAfterWritableBytes

\* send() and delaySend() cache len bytes: at the end, after a move, or not at all
CacheHere(len) ==
  /\ len <= writableBytes
  /\ AppendHere(len)

CacheMoved(len) ==
  /\ len > writableBytes
  /\ FitsMoved(len)
  /\ AppendMoved(len)

CacheRefused(len) ==
  /\ len > writableBytes
  /\ ~FitsMoved(len)
  /\ refused' = len
  /\ UNCHANGED <<buffer_, readerIndex_, writerIndex_, arrived>>

\* readFd() when recv() yields n bytes, none if it fails or the peer has closed: it
\* moves only when nothing is free, and its caller has to keep it from being full
ReadFdHere(n) ==
  /\ writableBytes > 0
  /\ n \in 0 .. writableBytes
  /\ AppendHere(n)

ReadFdMoved(n) ==
  /\ writableBytes = 0
  /\ readerIndex_ # kCheapPrepend
  /\ n \in 0 .. moveAfterWritableBytes
  /\ AppendMoved(n)

retrieveAll == readerIndex_' = kCheapPrepend /\ writerIndex_' = kCheapPrepend

Retrieve(len) ==
  /\ len \in 0 .. readableBytes
  /\ IF len < readableBytes
     THEN readerIndex_' = readerIndex_ + len /\ UNCHANGED writerIndex_
     ELSE retrieveAll
  /\ UNCHANGED <<buffer_, arrived, refused>>

Next ==
  \E n \in 0 .. CacheSize + 1 :
    \/ CacheHere(n) \/ CacheMoved(n) \/ CacheRefused(n)
    \/ ReadFdHere(n) \/ ReadFdMoved(n)
    \/ Retrieve(n)

Spec == Init /\ [][Next]_vars

-----------------------------------------------------------------------------
(***************************************************************************)
(* Properties.                                                             *)
(***************************************************************************)
\* Types, and the order of the indices on which every unsigned subtraction of
\* the class relies.
TypeOK ==
  /\ buffer_ \in [0 .. Size - 1 -> 0 .. Period]
  /\ readerIndex_ \in kCheapPrepend .. writerIndex_
  /\ writerIndex_ \in kCheapPrepend .. Size
  /\ arrived \in 0 .. Period - 1
  /\ refused \in Nat

\* It is the queue that TcpConnection takes its buffers for: what is taken are the
\* bytes that were written, each once and in their order, across every move().
Queue == INSTANCE ByteQueue WITH
  Capacity <- CacheSize,
  content  <- [k \in 1 .. readableBytes |-> buffer_[readerIndex_ + k - 1]]
IsByteQueue == Queue!Spec
=============================================================================
