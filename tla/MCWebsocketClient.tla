------------------------- MODULE MCWebsocketClient -------------------------
(* Instances of WebsocketClient for TLC.                                     *)
EXTENDS WebsocketClient

CONSTANTS m1, m2, m3

\* m1 is split into two frames, the others fit in one
MCSize == [m \in Msgs |-> IF m = m1 THEN 3 ELSE 1]
=============================================================================
