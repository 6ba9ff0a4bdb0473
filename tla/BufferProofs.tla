---------------------------- MODULE BufferProofs ----------------------------
(***************************************************************************)
(* Theorems about Buffer, for every size of its array and of its gap.      *)
(***************************************************************************)
EXTENDS Buffer, SequenceTheorems, TLAPS

Bytes == 0 .. Period
IndexTypes ==
  /\ readerIndex_ \in Nat /\ writerIndex_ \in Nat
  /\ kCheapPrepend <= readerIndex_
  /\ readerIndex_ <= writerIndex_
  /\ writerIndex_ <= Size

\* The bytes between the indices, as ByteQueue sees them.
Content == [k \in 1 .. readableBytes |-> buffer_[readerIndex_ + k - 1]]

\* The numbers of bytes stay within their period.
LEMMA ByteNumbers == \A n \in Nat : n % Period \in 0 .. Period - 1
BY SizesAreNatural

\* A function on 1 .. n is a sequence of length n.
LEMMA FunctionIsSequence ==
  ASSUME NEW S, NEW n \in Nat, NEW f \in [1 .. n -> S]
  PROVE  f \in Seq(S) /\ Len(f) = n
OBVIOUS

LEMMA TypeParts ==
  TypeOK <=> /\ buffer_ \in [0 .. Size - 1 -> Bytes]
             /\ IndexTypes
             /\ arrived \in 0 .. Period - 1
             /\ refused \in Nat
BY SizesAreNatural DEF TypeOK, IndexTypes, Bytes, Size

LEMMA InitTypes == Init => TypeOK
BY SizesAreNatural DEF Init, TypeOK, Size, Unset

\* The sizes of what is stored and of what is free, wherever the indices are.
LEMMA Sizes ==
  ASSUME TypeOK
  PROVE  /\ Size \in Nat
         /\ readableBytes \in Nat /\ writableBytes \in Nat
         /\ readerIndex_ + readableBytes = writerIndex_
         /\ writerIndex_ + writableBytes = Size
         /\ moveAfterWritableBytes = CacheSize - readableBytes
         /\ readableBytes <= CacheSize
         /\ writableBytes <= moveAfterWritableBytes
BY SizesAreNatural, TypeParts
   DEF IndexTypes, Size, readableBytes, writableBytes, moveAfterWritableBytes

\* What is stored is in the array.
LEMMA ContentIsBytes ==
  ASSUME TypeOK
  PROVE  /\ Content \in Seq(Bytes) /\ Len(Content) = readableBytes
         /\ \A k \in 1 .. readableBytes : Content[k] = buffer_[readerIndex_ + k - 1]
<1>1. /\ buffer_ \in [0 .. Size - 1 -> Bytes] /\ IndexTypes
      /\ kCheapPrepend \in Nat /\ Size \in Nat /\ readableBytes \in Nat
  BY SizesAreNatural, TypeParts, Sizes
<1>2. \A k \in 1 .. readableBytes : readerIndex_ + k - 1 \in 0 .. Size - 1
  BY <1>1 DEF IndexTypes, readableBytes
<1>3. \A k \in 1 .. readableBytes : buffer_[readerIndex_ + k - 1] \in Bytes
  BY <1>1, <1>2
<1>4. Content \in [1 .. readableBytes -> Bytes]
  BY <1>3 DEF Content
<1>5. QED
  BY <1>1, <1>4, FunctionIsSequence DEF Content

\* Moving the bytes to the front keeps each of them.
LEMMA MovedKeeps ==
  ASSUME TypeOK
  PROVE  /\ Moved \in [0 .. Size - 1 -> Bytes]
         /\ \A k \in 1 .. readableBytes :
              Moved[kCheapPrepend + k - 1] = buffer_[readerIndex_ + k - 1]
<1>1. /\ buffer_ \in [0 .. Size - 1 -> Bytes] /\ IndexTypes
      /\ kCheapPrepend \in Nat /\ Size \in Nat
  BY SizesAreNatural, TypeParts DEF Size
<1>2. ASSUME NEW i \in kCheapPrepend .. kCheapPrepend + readableBytes - 1
      PROVE  i \in 0 .. Size - 1 /\ i - kCheapPrepend + readerIndex_ \in 0 .. Size - 1
  BY <1>1 DEF IndexTypes, readableBytes
<1>3. Moved \in [0 .. Size - 1 -> Bytes]
  BY <1>1, <1>2 DEF Moved
<1>4. ASSUME NEW k \in 1 .. readableBytes
      PROVE  Moved[kCheapPrepend + k - 1] = buffer_[readerIndex_ + k - 1]
  <2>1. PICK i \in Int : i = kCheapPrepend + k - 1
    BY <1>1
  <2>2. /\ i \in kCheapPrepend .. kCheapPrepend + readableBytes - 1
        /\ i - kCheapPrepend + readerIndex_ = readerIndex_ + k - 1
    BY <1>1, <2>1 DEF IndexTypes, readableBytes
  <2>3. i \in DOMAIN buffer_
    BY <1>1, <1>2, <2>2
  <2>4. Moved[i] = buffer_[i - kCheapPrepend + readerIndex_]
    BY <2>2, <2>3 DEF Moved
  <2>5. QED
    BY <2>1, <2>2, <2>4
<1>5. QED
  BY <1>3, <1>4

-----------------------------------------------------------------------------
\* n bytes written behind those of an array that holds the content from place r
\* on: they are appended to the content.
LEMMA WriteAppends ==
  ASSUME TypeOK,
         NEW array \in [0 .. Size - 1 -> Bytes], NEW r \in kCheapPrepend .. Size,
         NEW n \in Nat,
         r + readableBytes + n <= Size,
         \A k \in 1 .. readableBytes : array[r + k - 1] = buffer_[readerIndex_ + k - 1],
         Write(array, r + readableBytes, n), readerIndex_' = r
  PROVE  TypeOK' /\ Queue!Put
<1> DEFINE len == readableBytes
           w == r + readableBytes
<1>1. /\ len \in Nat /\ Size \in Nat /\ r \in Nat /\ kCheapPrepend \in Nat
      /\ w \in Nat /\ kCheapPrepend <= r /\ w + n <= Size
      /\ Period \in Nat /\ CacheSize \in Nat /\ Size = kCheapPrepend + CacheSize
  BY Sizes, SizesAreNatural DEF Size
<1>2. /\ arrived \in Nat
      /\ \A i \in w .. w + n - 1 : (arrived + (i - w)) % Period \in Bytes
      /\ (arrived + n) % Period \in 0 .. Period - 1
  <2>1. arrived \in Nat
    BY TypeParts, SizesAreNatural
  <2>2. \A i \in w .. w + n - 1 : arrived + (i - w) \in Nat
    BY <1>1, <2>1
  <2>3. 0 .. Period - 1 \subseteq Bytes
    BY <1>1 DEF Bytes
  <2>4. \A i \in w .. w + n - 1 : (arrived + (i - w)) % Period \in Bytes
    BY <2>2, <2>3, ByteNumbers
  <2>5. arrived + n \in Nat
    BY <2>1
  <2>6. (arrived + n) % Period \in 0 .. Period - 1
    BY <2>5, ByteNumbers
  <2>7. QED
    BY <2>1, <2>4, <2>6
<1>3. /\ buffer_' = [i \in 0 .. Size - 1 |->
                       IF i \in w .. w + n - 1 THEN (arrived + (i - w)) % Period
                                               ELSE array[i]]
      /\ writerIndex_' = w + n
      /\ arrived' = (arrived + n) % Period
      /\ refused' = 0
  BY DEF Write
<1>4. buffer_' \in [0 .. Size - 1 -> Bytes]
  BY <1>2, <1>3
<1>5. TypeOK'
  <2>1. IndexTypes'
    BY <1>1, <1>3 DEF IndexTypes, Size
  <2>2. QED
    BY <1>2, <1>3, <1>4, <2>1, SizesAreNatural DEF TypeOK, IndexTypes, Bytes, Size
<1>6. readableBytes' = len + n
  BY <1>1, <1>3 DEF readableBytes
<1>7. /\ Content = [k \in 1 .. len |-> buffer_[readerIndex_ + k - 1]]
      /\ Content' = [k \in 1 .. len + n |-> buffer_'[r + k - 1]]
  BY <1>6 DEF Content
<1>8. ASSUME NEW k \in 1 .. len PROVE Content'[k] = Content[k]
  <2>1. /\ r + k - 1 \in 0 .. Size - 1
        /\ r + k - 1 \notin w .. w + n - 1
        /\ k \in 1 .. len + n
    BY <1>1
  <2>2. buffer_'[r + k - 1] = array[r + k - 1]
    BY <1>3, <2>1
  <2>3. QED
    BY <1>7, <2>1, <2>2
<1>9. /\ Content \in Seq(Bytes) /\ Len(Content) = len
      /\ Content' \in Seq(Bytes) /\ Len(Content') = len + n
  <2>1. \A k \in 1 .. len + n : r + k - 1 \in 0 .. Size - 1
    BY <1>1
  <2>2. \A k \in 1 .. len + n : buffer_'[r + k - 1] \in Bytes
    BY <1>4, <2>1
  <2>3. len + n \in Nat
    BY <1>1
  <2>4. Content' = [k \in 1 .. len + n |-> buffer_'[r + k - 1]]
    BY <1>7
  <2>5. Content' \in [1 .. len + n -> Bytes]
    BY <2>2, <2>4
  <2>6. QED
    BY <2>3, <2>5, ContentIsBytes, FunctionIsSequence
<1>10. /\ Queue!Incoming(n) \in Seq(Bytes) /\ Len(Queue!Incoming(n)) = n
       /\ \A k \in 1 .. n : Queue!Incoming(n)[k] = (arrived + k - 1) % Period
  <2>1. Queue!Incoming(n) = [k \in 1 .. n |-> (arrived + k - 1) % Period]
    BY DEF Queue!Incoming
  <2>2. \A k \in 1 .. n : arrived + k - 1 \in Nat
    BY <1>2
  <2>3. \A k \in 1 .. n : (arrived + k - 1) % Period \in Bytes
    <3>1. 0 .. Period - 1 \subseteq Bytes
      BY <1>1 DEF Bytes
    <3>2. QED
      BY <2>2, <3>1, ByteNumbers
  <2>4. Queue!Incoming(n) \in [1 .. n -> Bytes]
    BY <2>1, <2>3
  <2>5. QED
    BY <2>1, <2>4, FunctionIsSequence
<1>11. ASSUME NEW k \in len + 1 .. len + n
       PROVE  Content'[k] = Queue!Incoming(n)[k - len]
  <2>1. PICK i \in Int : i = r + k - 1
    BY <1>1
  <2>2. /\ i \in w .. w + n - 1 /\ i \in 0 .. Size - 1
        /\ k \in 1 .. len + n /\ k - len \in 1 .. n
        /\ arrived + (i - w) = arrived + (k - len) - 1
    BY <1>1, <1>2, <2>1
  <2>3. buffer_'[i] = (arrived + (i - w)) % Period
    BY <1>3, <2>2
  <2>4. Content'[k] = buffer_'[i]
    BY <1>7, <2>1, <2>2
  <2>5. QED
    BY <1>10, <2>2, <2>3, <2>4
<1>12. Content' = Content \o Queue!Incoming(n)
  <2>1. /\ Content \o Queue!Incoming(n) \in Seq(Bytes)
        /\ Len(Content \o Queue!Incoming(n)) = len + n
        /\ \A k \in 1 .. len + n :
             (Content \o Queue!Incoming(n))[k] =
               IF k <= len THEN Content[k] ELSE Queue!Incoming(n)[k - len]
    <3>1. PICK m : m = len
      OBVIOUS
    <3>2. PICK s : s = Content
      OBVIOUS
    <3>3. PICK t : t = Queue!Incoming(n)
      OBVIOUS
    <3>4. /\ s \in Seq(Bytes) /\ Len(s) = m /\ m \in Nat
          /\ t \in Seq(Bytes) /\ Len(t) = n
      BY <1>1, <1>9, <1>10, <3>1, <3>2, <3>3
    <3>5. /\ s \o t \in Seq(Bytes) /\ Len(s \o t) = m + n
          /\ \A k \in 1 .. m + n : (s \o t)[k] = IF k <= m THEN s[k] ELSE t[k - m]
      BY <3>4, ConcatProperties
    <3>6. QED
      BY <3>1, <3>2, <3>3, <3>5, Zenon
  <2>2. ASSUME NEW k \in 1 .. len + n
        PROVE  Content'[k] = (Content \o Queue!Incoming(n))[k]
    <3>1. CASE k <= len
      BY <1>1, <1>8, <2>1, <3>1
    <3>2. CASE ~(k <= len)
      <4>1. k \in len + 1 .. len + n
        BY <1>1, <3>2
      <4>2. QED
        BY <1>11, <2>1, <3>2, <4>1
    <3>3. QED
      BY <3>1, <3>2
  <2>3. QED
    BY <1>9, <2>1, <2>2, SeqEqual
<1>13. n \in 0 .. CacheSize /\ Len(Content) + n <= CacheSize
  BY <1>1, <1>9
<1>14. QED
  BY <1>3, <1>5, <1>12, <1>13 DEF Queue!Put, Content

\* Both ways of appending, by send() and delaySend() or by readFd().
LEMMA AppendHereAppends ==
  ASSUME TypeOK, NEW n \in Nat, n <= writableBytes, AppendHere(n)
  PROVE  TypeOK' /\ Queue!Put
<1>1. /\ buffer_ \in [0 .. Size - 1 -> Bytes] /\ readerIndex_ \in kCheapPrepend .. Size
      /\ readerIndex_ + readableBytes = writerIndex_
      /\ readerIndex_ + readableBytes + n <= Size
  <2>1. buffer_ \in [0 .. Size - 1 -> Bytes] /\ IndexTypes
    BY TypeParts
  <2>2. readerIndex_ \in kCheapPrepend .. Size
    BY <2>1, Sizes, SizesAreNatural DEF IndexTypes
  <2>3. readerIndex_ + readableBytes + n <= Size
    BY <2>1, Sizes DEF IndexTypes
  <2>4. QED
    BY <2>1, <2>2, <2>3, Sizes
<1>2. Write(buffer_, readerIndex_ + readableBytes, n) /\ readerIndex_' = readerIndex_
  BY <1>1 DEF AppendHere
<1>3. QED
  BY <1>1, <1>2, WriteAppends

LEMMA AppendMovedAppends ==
  ASSUME TypeOK, NEW n \in Nat, n <= moveAfterWritableBytes, AppendMoved(n)
  PROVE  TypeOK' /\ Queue!Put
<1>1. /\ Moved \in [0 .. Size - 1 -> Bytes] /\ kCheapPrepend \in kCheapPrepend .. Size
      /\ kCheapPrepend + readableBytes + n <= Size
  BY Sizes, MovedKeeps, SizesAreNatural DEF Size
<1>2. Write(Moved, kCheapPrepend + readableBytes, n) /\ readerIndex_' = kCheapPrepend
  BY DEF AppendMoved
<1>3. QED
  BY <1>1, <1>2, MovedKeeps, WriteAppends

\* A write is refused only if the bytes would not fit even after a move.
LEMMA RefusedIsFull ==
  ASSUME TypeOK, NEW n \in Nat, CacheRefused(n)
  PROVE  TypeOK' /\ Queue!Refuse
<1>1. UNCHANGED <<buffer_, readerIndex_, writerIndex_, arrived>> /\ refused' = n
  BY DEF CacheRefused
<1>2. TypeOK'
  BY <1>1 DEF TypeOK, Size
<1>3. Len(Content) = readableBytes
  BY Sizes DEF Content
<1>4. Len(Content) + refused' > CacheSize
  BY <1>1, <1>3, Sizes, SizesAreNatural DEF CacheRefused, FitsMoved
<1>5. Content' = Content
  BY <1>1 DEF Content, readableBytes
<1>6. QED
  BY <1>1, <1>2, <1>4, <1>5 DEF Queue!Refuse, Content

\* retrieve() takes bytes from the front.
LEMMA RetrieveTakes ==
  ASSUME TypeOK, NEW n \in Nat, Retrieve(n)
  PROVE  TypeOK' /\ Queue!Take
<1> DEFINE len == readableBytes
<1>1. /\ n <= len /\ len \in Nat /\ CacheSize \in Nat /\ kCheapPrepend \in Nat
      /\ IndexTypes /\ buffer_ \in [0 .. Size - 1 -> Bytes] /\ Size \in Nat
      /\ Size = kCheapPrepend + CacheSize
  BY Sizes, TypeParts, SizesAreNatural DEF Retrieve, Size
<1>2. buffer_' = buffer_ /\ arrived' = arrived /\ refused' = refused
  BY DEF Retrieve
<1>3. IndexTypes' /\ readableBytes' = len - n
  <2>1. CASE n < len
    BY <1>1, <2>1 DEF Retrieve, IndexTypes, readableBytes, Size
  <2>2. CASE n = len
    BY <1>1, <2>2 DEF Retrieve, retrieveAll, IndexTypes, readableBytes, Size
  <2>3. QED
    BY <1>1, <2>1, <2>2
<1>4. TypeOK'
  BY <1>2, <1>3, SizesAreNatural DEF TypeOK, IndexTypes, Size
<1>5. /\ Content \in Seq(Bytes) /\ Len(Content) = len
      /\ \A k \in 1 .. len : Content[k] = buffer_[readerIndex_ + k - 1]
  BY ContentIsBytes
<1>6. /\ Content' \in Seq(Bytes) /\ Len(Content') = len - n
      /\ \A k \in 1 .. len - n : Content'[k] = Content[n + k]
  <2>1. ASSUME NEW k \in 1 .. len - n
        PROVE  buffer_'[readerIndex_' + k - 1] = Content[n + k] /\ n + k \in 1 .. len
    <3>1. n < len /\ readerIndex_' = readerIndex_ + n
      BY <1>1 DEF Retrieve
    <3>2. n + k \in 1 .. len /\ readerIndex_' + k - 1 = readerIndex_ + (n + k) - 1
      BY <1>1, <3>1 DEF IndexTypes
    <3>3. QED
      BY <1>2, <1>5, <3>2
  <2>2. Content' = [k \in 1 .. len - n |-> buffer_'[readerIndex_' + k - 1]]
    BY <1>3 DEF Content
  <2>3. \A k \in 1 .. len - n : Content[n + k] \in Bytes
    BY <1>5, <2>1, ElementOfSeq
  <2>4. len - n \in Nat
    BY <1>1
  <2>5. Content' \in [1 .. len - n -> Bytes]
    BY <2>1, <2>2, <2>3
  <2>6. QED
    BY <2>1, <2>2, <2>4, <2>5, FunctionIsSequence
<1>7. Content' = SubSeq(Content, n + 1, len)
  <2>1. \A k \in n + 1 .. len : Content[k] \in Bytes
    BY <1>1, <1>5
  <2>2. /\ SubSeq(Content, n + 1, len) \in Seq(Bytes)
        /\ Len(SubSeq(Content, n + 1, len)) = len - n
        /\ \A k \in 1 .. len - n : SubSeq(Content, n + 1, len)[k] = Content[n + k]
    <3>1. /\ n + 1 \in Int /\ len \in Int
          /\ len - (n + 1) + 1 = len - n
          /\ \A k \in 1 .. len - n : (n + 1) + k - 1 = n + k
          /\ (IF n + 1 <= len THEN len - (n + 1) + 1 ELSE 0) = len - n
      <4>1. \A a \in Nat, b \in Nat : b <= a =>
              /\ b + 1 \in Int /\ a \in Int
              /\ a - (b + 1) + 1 = a - b
              /\ \A k \in 1 .. a - b : (b + 1) + k - 1 = b + k
              /\ (IF b + 1 <= a THEN a - (b + 1) + 1 ELSE 0) = a - b
        OBVIOUS
      <4>2. QED
        BY <1>1, <4>1
    <3>2. QED
      BY <2>1, <3>1, SubSeqProperties
  <2>3. QED
    BY <1>6, <2>2, SeqEqual
<1>8. n \in 0 .. Len(Content) /\ Content' = SubSeq(Content, n + 1, Len(Content))
  BY <1>1, <1>5, <1>7
<1>9. QED
  BY <1>2, <1>4, <1>8 DEF Queue!Take, Content

-----------------------------------------------------------------------------
LEMMA StepQueues ==
  ASSUME TypeOK, [Next]_vars
  PROVE  TypeOK' /\ [Queue!Next]_(Queue!vars)
<1>1. ASSUME NEW n \in Nat, CacheHere(n) \/ ReadFdHere(n)
      PROVE  TypeOK' /\ Queue!Put
  BY <1>1, Sizes, AppendHereAppends DEF CacheHere, ReadFdHere
<1>2. ASSUME NEW n \in Nat, CacheMoved(n) \/ ReadFdMoved(n)
      PROVE  TypeOK' /\ Queue!Put
  BY <1>2, Sizes, SizesAreNatural, AppendMovedAppends DEF CacheMoved, ReadFdMoved, FitsMoved
<1>3. ASSUME NEW n \in Nat, CacheRefused(n) \/ Retrieve(n)
      PROVE  TypeOK' /\ Queue!Next
  BY <1>3, RefusedIsFull, RetrieveTakes DEF Queue!Next
<1>4. CASE UNCHANGED vars
  <2>1. Content' = Content /\ UNCHANGED <<arrived, refused>>
    BY <1>4 DEF vars, Content, readableBytes
  <2>2. TypeOK'
    BY <1>4 DEF vars, TypeOK, Size
  <2>3. QED
    BY <2>1, <2>2 DEF Queue!vars, Content
<1>5. 0 .. CacheSize + 1 \subseteq Nat
  BY SizesAreNatural
<1>6. QED
  BY <1>1, <1>2, <1>3, <1>4, <1>5 DEF Next, Queue!Next

\* The indices stay in order and inside the array, so none of the class's
\* unsigned subtractions wraps around.
THEOREM TypeCorrect == Spec => []TypeOK
BY InitTypes, StepQueues, PTL DEF Spec

\* Whatever is moved, and wherever the array is written, the buffer is the FIFO
\* queue that TcpConnection takes it for: the bytes that are taken are those that
\* were written, in their order, and a write is refused only if it does not fit.
THEOREM ImplementsByteQueue == Spec => IsByteQueue
<1>1. Init => Queue!Init
  <2> SUFFICES ASSUME Init PROVE Queue!Init
    OBVIOUS
  <2>1. readableBytes = 0
    BY SizesAreNatural DEF Init, readableBytes
  <2>2. Content = <<>>
    BY <2>1 DEF Content
  <2>3. QED
    BY <2>2 DEF Init, Queue!Init, Content
<1>2. QED
  BY <1>1, StepQueues, TypeCorrect, PTL DEF Spec, IsByteQueue, Queue!Spec
=============================================================================
