--------------------------- MODULE MCReceivePath ---------------------------
(* Instances of ReceivePath for TLC.                                         *)
EXTENDS ReceivePath

F(op, fin, len, bad, flaw) ==
    [op |-> op, fin |-> fin, len |-> len, bad |-> bad, flaw |-> flaw]

Controls == {F(op, TRUE, 0, FALSE, "none") : op \in ControlOps}
Data(ops, lens) == {F(op, fin, len, FALSE, "none") : op \in ops, fin \in BOOLEAN, len \in lens}
Unreadable == {F(op, TRUE, 3, TRUE, "none") : op \in {"text", "continuation"}}
Flawed == {F("text", TRUE, 1, FALSE, flaw) : flaw \in {"kill", "mask"}}

\* every kind of frame; with a buffer of 2, a payload of 3 comes in two chunks.  Frames that
\* begin or end a message may be empty, a whole message in one frame is not.
AllFrames == (Data({"text", "continuation"}, {0, 3}) \ {F("text", TRUE, 0, FALSE, "none")})
             \cup Data({"binary"}, {1}) \cup Unreadable \cup Controls \cup Flawed

\* on the loop without a limit, and off it with one
Unlimited == [maxMessageSize |-> NoLimit, onLoop |-> TRUE]
Limited == [maxMessageSize |-> 2, onLoop |-> FALSE]
BothConnects == {Unlimited, Limited}
LimitedConnect == {Limited}
=============================================================================
