------------------------------ MODULE MCTxPath ------------------------------
(* Messages in one and in two writes, pings between them, and a close.       *)
EXTENDS TxPath

W(op, fin) == [op |-> op, fin |-> fin]

MCScripts == {<<W("text", FALSE), W("continuation", TRUE)>>,
              <<W("text", TRUE), W("close", TRUE), W("ping", TRUE)>>}
=============================================================================
