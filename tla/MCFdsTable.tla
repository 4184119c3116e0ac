----------------------------- MODULE MCFdsTable -----------------------------
(* An instance of FdsTable for TLC.                                          *)
EXTENDS FdsTable
=============================================================================
