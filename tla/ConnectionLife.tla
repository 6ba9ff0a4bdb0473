--------------------------- MODULE ConnectionLife ---------------------------
(***************************************************************************)
(* The life of a TcpConnection, as its owner (a TcpServer or a TcpClient,  *)
(* which keeps it in connections_) and the connection rely on it.  It is   *)
(* established once and closed once; until it is closed its owner has it   *)
(* or has destroyed it; the owner forgets it only when it has been closed; *)
(* and connectDestroyed() finds it established and leaves it without owner *)
(* and not connected.                                                      *)
(***************************************************************************)
VARIABLES
  state,        \* state_
  destroyed,    \* has connectDestroyed() been called?
  owned         \* is it in connections_?

vars == <<state, destroyed, owned>>

Open == state \in {"kConnected", "kDisconnecting"}

Init ==
  /\ state = "kConnecting"
  /\ destroyed = FALSE
  /\ owned = FALSE

\* newConnection() keeps it ...
Adopt ==
  /\ state = "kConnecting"
  /\ owned' = TRUE
  /\ UNCHANGED <<state, destroyed>>

\* ... and connectEstablished(), perhaps at once
Establish ==
  /\ state = "kConnecting"
  /\ state' = "kConnected"
  /\ owned' = TRUE
  /\ UNCHANGED destroyed

\* forceClose()
ForceClose ==
  /\ state = "kConnected" /\ owned
  /\ state' = "kDisconnecting"
  /\ UNCHANGED <<destroyed, owned>>

\* handleClose(), also of a connection destroyed while a forced close was queued
Close ==
  /\ Open
  /\ owned \/ destroyed
  /\ state' = "kDisconnected"
  /\ UNCHANGED <<destroyed, owned>>

\* removeConnection()
Forget ==
  /\ state = "kDisconnected"
  /\ owned /\ ~destroyed
  /\ owned' = FALSE
  /\ UNCHANGED <<state, destroyed>>

\* connectDestroyed(), after removeConnection() or in the owner's destructor
Destroy ==
  /\ state # "kConnecting"
  /\ destroyed' = TRUE
  /\ owned' = FALSE
  /\ state' = IF state = "kConnected" THEN "kDisconnected" ELSE state

Next == Adopt \/ Establish \/ ForceClose \/ Close \/ Forget \/ Destroy

Spec == Init /\ [][Next]_vars
=============================================================================
