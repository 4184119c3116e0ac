--------------------------- MODULE MCContextPool ---------------------------
(* Instances of ContextPool for TLC.                                         *)
EXTENDS ContextPool
=============================================================================
