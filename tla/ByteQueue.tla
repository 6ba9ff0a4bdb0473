----------------------------- MODULE ByteQueue ------------------------------
(***************************************************************************)
(* What a Buffer promises to TcpConnection: a FIFO queue of at most        *)
(* Capacity bytes, which refuses a write only when it would not fit.  The  *)
(* bytes that are put are those that arrive: they are numbered, and        *)
(* numbers start again after Period of them.                               *)
(***************************************************************************)
EXTENDS Naturals, Sequences

CONSTANTS Capacity, Period

VARIABLES
  content,     \* the bytes, oldest first
  arrived,     \* the number of the next byte
  refused      \* length of the write that was refused last; 0: the last went in

vars == <<content, arrived, refused>>

Init == content = <<>> /\ arrived = 0 /\ refused = 0

\* the next n bytes
Incoming(n) == [k \in 1 .. n |-> (arrived + k - 1) % Period]

Put ==
  /\ \E n \in 0 .. Capacity :
       /\ Len(content) + n <= Capacity
       /\ content' = content \o Incoming(n)
       /\ arrived' = (arrived + n) % Period
  /\ refused' = 0

Refuse ==
  /\ Len(content) + refused' > Capacity
  /\ UNCHANGED <<content, arrived>>

Take ==
  /\ \E n \in 0 .. Len(content) : content' = SubSeq(content, n + 1, Len(content))
  /\ UNCHANGED <<arrived, refused>>

Next == Put \/ Refuse \/ Take

Spec == Init /\ [][Next]_vars
=============================================================================
