-------------------------- MODULE MCPingInterval --------------------------
(* Instances of PingInterval for TLC.                                        *)
EXTENDS PingInterval
=============================================================================
