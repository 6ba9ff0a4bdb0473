--------------------------- MODULE MCEPollPoller ----------------------------
(***************************************************************************)
(* Constants of the model-checking runs: two channels take turns on        *)
(* descriptor 0, a third has a descriptor to itself.                       *)
(***************************************************************************)
EXTENDS EPollPoller

CONSTANTS a, b, c

MCChannels == {a, b, c}
MCfd == [ch \in MCChannels |-> IF ch = c THEN 1 ELSE 0]
=============================================================================
