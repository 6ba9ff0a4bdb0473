------------------------------- MODULE Poller -------------------------------
(***************************************************************************)
(* What the interface Poller promises to the loop, whatever system call is *)
(* behind it: poll() reports channels that are registered, and no others.  *)
(* poll(2) leaves alone those that ask for nothing; epoll(7) reports their *)
(* errors and hang-ups if they are in its set.                             *)
(***************************************************************************)
CONSTANTS
  Channels,
  ReportsDisabled    \* may a channel that asks for nothing be reported?

VARIABLES
  events,        \* what each channel asks for
  registered,    \* the channels between updateChannel() and removeChannel()
  active         \* the channels the last poll() reported

vars == <<events, registered, active>>

Init ==
  /\ events = [ch \in Channels |-> {}]
  /\ registered = {}
  /\ active = {}

Update(ch) ==
  /\ registered' = registered \cup {ch}
  /\ \A other \in Channels \ {ch} : events'[other] = events[other]
  /\ UNCHANGED active

Remove(ch) ==
  /\ ch \in registered
  /\ events[ch] = {}
  /\ registered' = registered \ {ch}
  /\ UNCHANGED <<events, active>>

Poll ==
  /\ active' \subseteq {ch \in registered : ReportsDisabled \/ events[ch] # {}}
  /\ UNCHANGED <<events, registered>>

Next == Poll \/ \E ch \in Channels : Update(ch) \/ Remove(ch)

Spec == Init /\ [][Next]_vars
=============================================================================
