-------------------------- MODULE MCClientConnect --------------------------
(* An instance of ClientConnect for TLC.                                     *)
EXTENDS ClientConnect
=============================================================================
