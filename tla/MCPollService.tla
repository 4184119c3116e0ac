--------------------------- MODULE MCPollService ---------------------------
(* Instances of PollService for TLC.                                         *)
EXTENDS PollService

CONSTANTS c1, c2
=============================================================================
