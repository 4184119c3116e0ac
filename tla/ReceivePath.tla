---------------------------- MODULE ReceivePath ----------------------------
(***************************************************************************)
(* How what the peer sends becomes onText and onBinary calls.  On the      *)
(* service thread lws_ws_client_rx_sm parses frames and hands their        *)
(* payload, in chunks of at most rxBufferSize bytes, to the RECEIVE case   *)
(* of _lws_swift_websocketClientCallback; that queues closures on the      *)
(* event loop, which puts chunks together to messages and queues one more  *)
(* closure per message for the owner's callback.                           *)
(*                                                                         *)
(* The bytes of data frames are numbered in the order they arrive; a       *)
(* negative number is a byte that cannot occur in UTF-8.  The client stays *)
(* referenced and no extension is negotiated.                              *)
(***************************************************************************)
EXTENDS Integers, Sequences, SequencesExt

CONSTANTS
    rxBufferSize,     \* lws_protocols.rx_buffer_size
    Connects,         \* the ways connect() may have been called
    NoLimit,
    Frames,           \* the frames the peer may send
    maxFrames         \* bound on how many it sends

DataOps == {"text", "binary", "continuation"}
ControlOps == {"ping", "pong", "close"}

\* flaw: "kill" is any header the parser refuses outright (opcode, rsv bit, length),
\* "mask" a masked frame; bad: the last byte of the payload is not UTF-8
Frame == [op : DataOps \cup ControlOps, fin : BOOLEAN, len : Nat, bad : BOOLEAN,
          flaw : {"none", "kill", "mask"}]

ASSUME SizesAssumption ==
    /\ rxBufferSize \in Nat \ {0} /\ maxFrames \in Nat
    /\ NoLimit \notin Nat
    /\ Connects \subseteq [maxMessageSize : Nat \cup {NoLimit}, onLoop : BOOLEAN]
ASSUME FramesAssumption ==
    /\ Frames \subseteq Frame
    /\ \A f \in Frames : f.op \in ControlOps => f.len = 0

VARIABLES
    \* the wsi
    lrs,            \* its state
    peerClosed,     \* the close being answered is the peer's
    rx,             \* what the parser keeps of the frame and the message it is in
    parse,          \* lws_rx_parse_state: between frames, in a payload, or lost
    \* the client and the event loop
    connect,        \* its parameter maxMessageSize, and whether it was called on the loop
    loop, frameSequence, callbacks, closed,
    closes,         \* .close frames in toBeWritten
    \* history
    sent,           \* frames the peer has sent
    bytes,          \* payload bytes of data frames among them
    wire,           \* the data frames heard while the connection was open
    fragments, delivered, notified, ownerClosed

wsiVars == <<lrs, peerClosed, rx, parse>>
clientVars == <<connect, frameSequence, callbacks, closed, closes>>
peerVars == <<sent, bytes, wire>>
ownerVars == <<fragments, delivered, notified, ownerClosed>>
vars == <<wsiVars, loop, clientVars, peerVars, ownerVars>>

-----------------------------------------------------------------------------
(* Data.                                                                     *)

NoSequence == [some |-> FALSE, isBinary |-> FALSE, data |-> <<>>]
Chunk(data, isBinary, isFirst, isFinal) ==
    [data |-> data, isBinary |-> isBinary, isFirst |-> isFirst, isFinal |-> isFinal]
NoChunk == Chunk(<<>>, FALSE, FALSE, FALSE)
Task(t, c) == [t |-> t, chunk |-> c]

Utf8(data) == \A i \in DOMAIN data : data[i] > 0
Readable(msg) == msg.isBinary \/ Utf8(msg.data)

Bytes == Seq(Int)
Chunks == [data : Bytes, isBinary : BOOLEAN, isFirst : BOOLEAN, isFinal : BOOLEAN]

TooLarge(size) == connect.maxMessageSize # NoLimit /\ size > connect.maxMessageSize

\* Every variable has its type; with a size limit the client never keeps more than the
\* limit of a message it has not refused.
TypeOK ==
    /\ lrs \in {"established", "waiting_to_send_close", "awaiting_close_ack", "freed"}
    /\ parse \in {"new", "payload", "lost"}
    /\ rx \in [op : DataOps \cup ControlOps, final : BOOLEAN, first : BOOLEAN,
               continuationPossible : BOOLEAN, owedAFin : BOOLEAN, isBinary : BOOLEAN,
               left : Nat, bad : BOOLEAN, payload : Bytes]
    /\ connect \in Connects
    /\ loop \in Seq([t : {"fragment", "assemble", "deliver", "markAsClosed", "notify",
                          "close", "setCallbacks"}, chunk : Chunks])
    /\ frameSequence \in [some : BOOLEAN, isBinary : BOOLEAN, data : Bytes]
    /\ ~TooLarge(Len(frameSequence.data))
    /\ callbacks \in {"unset", "queued", "set"}
    /\ closed \in BOOLEAN /\ peerClosed \in BOOLEAN /\ ownerClosed \in BOOLEAN
    /\ closes \in Nat /\ sent \in 0..maxFrames /\ bytes \in Nat /\ notified \in Nat
    /\ wire \in Seq([op : DataOps, fin : BOOLEAN, payload : Bytes])
    /\ fragments \in Seq(Chunks)
    /\ delivered \in Seq([data : Bytes, isBinary : BOOLEAN, seen : BOOLEAN])

Init ==
    /\ lrs = "established" /\ peerClosed = FALSE /\ parse = "new"
    /\ rx = [op |-> "ping", final |-> FALSE, first |-> FALSE,
             continuationPossible |-> FALSE, owedAFin |-> FALSE, isBinary |-> FALSE,
             left |-> 0, bad |-> FALSE, payload |-> <<>>]
    /\ connect \in Connects
    /\ loop = <<>> /\ frameSequence = NoSequence /\ closed = FALSE /\ closes = 0
    /\ callbacks = IF connect.onLoop THEN "set" ELSE "unset"
    /\ sent = 0 /\ bytes = 0 /\ wire = <<>>
    /\ fragments = <<>> /\ delivered = <<>> /\ notified = 0 /\ ownerClosed = FALSE

-----------------------------------------------------------------------------
(* The parser, on the service thread.                                        *)

\* POLLIN is served in these states; once the peer's close is being answered only the
\* rest of what was read with it is
Reads == \/ lrs \in {"established", "awaiting_close_ack"}
         \/ lrs = "waiting_to_send_close" /\ peerClosed

\* the connection is freed; CLIENT_CLOSED hands markAsClosed to the loop
Kill == lrs' = "freed" /\ loop' = Append(loop, Task("markAsClosed", NoChunk))

\* a header for which lws_ws_client_rx_sm returns -1 with no close reason
Refused(f) ==
    \/ f.flaw = "kill"
    \/ f.op = "continuation" /\ ~rx.continuationPossible
    \/ f.op \in {"text", "binary"} /\ rx.owedAFin
    \/ f.op \in ControlOps /\ ~f.fin

\* what the parser keeps after the header of f
HeaderState(f) ==
    [op |-> f.op, final |-> f.fin, left |-> f.len, bad |-> f.bad, payload |-> <<>>,
     first |-> CASE f.op \in {"text", "binary"} -> TRUE
                 [] f.op = "continuation" -> FALSE
                 [] OTHER -> rx.first,
     continuationPossible |->
        CASE f.op \in DataOps /\ f.fin -> FALSE
          [] f.op \in {"text", "binary"} /\ ~f.fin -> TRUE
          [] OTHER -> rx.continuationPossible,
     owedAFin |-> IF f.op \in DataOps THEN ~f.fin ELSE rx.owedAFin,
     isBinary |-> IF f.op \in {"text", "binary"} THEN f.op = "binary" ELSE rx.isBinary]

\* lws_is_final_fragment
IsFinalFragment(r) == r.final /\ r.left = 0

\* LWS_CALLBACK_CLIENT_RECEIVE: two closures for the chunk, then first_fragment = 0
Receive(r, data) ==
    /\ rx' = [r EXCEPT !.first = FALSE]
    /\ LET c == Chunk(data, r.isBinary, r.first, IsFinalFragment(r))
       IN  loop' = loop \o <<Task("fragment", c), Task("assemble", c)>>

\* a close frame: the answer to ours ends the connection, the peer's own is reported and
\* will be answered
SpillClose(r) ==
    /\ r.op = "close" /\ rx' = r
    /\ \/ lrs = "awaiting_close_ack" /\ Kill /\ UNCHANGED peerClosed
       \/ /\ lrs # "awaiting_close_ack"
          /\ loop' = Append(loop, Task("markAsClosed", NoChunk))
          /\ lrs' = "waiting_to_send_close" /\ peerClosed' = TRUE
    /\ UNCHANGED wire

\* a ping: lws answers by itself, nothing is handed to the client
SpillPing(r) == r.op = "ping" /\ rx' = r /\ UNCHANGED <<lrs, peerClosed, loop, wire>>

\* a pong: its callback takes the same way out as data
SpillPong(r) ==
    /\ r.op = "pong"
    /\ rx' = IF lrs = "established" THEN [r EXCEPT !.first = FALSE] ELSE r
    /\ UNCHANGED <<lrs, peerClosed, loop, wire>>

\* payload: handed up, or dropped once the connection is closing
SpillData(r, data) ==
    /\ r.op \in DataOps
    /\ \/ /\ lrs = "established"
          /\ Receive(r, data)
          /\ wire' = IF r.left > 0 THEN wire
                     ELSE Append(wire, [op |-> r.op, fin |-> r.final, payload |-> r.payload])
       \/ lrs # "established" /\ rx' = r /\ UNCHANGED <<loop, wire>>
    /\ UNCHANGED <<lrs, peerClosed>>

\* spill: rx_ubuf holds data, r is the parser's state with them taken off the frame
Spill(r, data) == SpillClose(r) \/ SpillPing(r) \/ SpillPong(r) \/ SpillData(r, data)

\* the peer's next frame: its header, and the spill of an empty one
ParseHeader(f) ==
    /\ Reads /\ parse = "new" /\ sent < maxFrames
    /\ sent' = sent + 1
    /\ \/ /\ Refused(f)
          /\ Kill
          /\ UNCHANGED <<peerClosed, rx, parse, wire>>
       \/ /\ ~Refused(f) /\ f.flaw = "mask"
          /\ parse' = "lost"
          /\ IF lrs = "established"
             THEN lrs' = "waiting_to_send_close" /\ UNCHANGED loop
             ELSE Kill
          /\ UNCHANGED <<peerClosed, rx, wire>>
       \/ /\ ~Refused(f) /\ f.flaw = "none" /\ f.len > 0
          /\ rx' = HeaderState(f) /\ parse' = "payload"
          /\ UNCHANGED <<lrs, peerClosed, loop, wire>>
       \/ /\ ~Refused(f) /\ f.flaw = "none" /\ f.len = 0
          /\ Spill(HeaderState(f), <<>>)
          /\ UNCHANGED parse
    /\ UNCHANGED <<clientVars, bytes, ownerVars>>

\* the rest of the frame or a full buffer of it has come in
ParsePayload ==
    /\ Reads /\ parse = "payload"
    /\ LET n == IF rx.left < rxBufferSize THEN rx.left ELSE rxBufferSize
           bad == rx.bad /\ n = rx.left
           data == [i \in 1..n |-> IF bad /\ i = n THEN -(bytes + i) ELSE bytes + i]
       IN  /\ Spill([rx EXCEPT !.left = @ - n, !.payload = @ \o data], data)
           /\ parse' = IF n = rx.left THEN "new" ELSE "payload"
           /\ bytes' = bytes + n
    /\ UNCHANGED <<clientVars, sent, ownerVars>>

\* CLIENT_WRITEABLE pops a .close: an open connection starts the closing handshake, one
\* that awaits the answer is killed
PopClose ==
    /\ closes > 0 /\ lrs \in {"established", "awaiting_close_ack"}
    /\ closes' = closes - 1
    /\ IF lrs = "established" THEN lrs' = "waiting_to_send_close" /\ UNCHANGED loop
                              ELSE Kill
    /\ UNCHANGED <<peerClosed, rx, parse, connect, frameSequence, callbacks, closed, peerVars,
                   ownerVars>>

\* the close frame, or the answer to the peer's, is written
SendClose ==
    /\ lrs = "waiting_to_send_close"
    /\ IF peerClosed THEN Kill ELSE lrs' = "awaiting_close_ack" /\ UNCHANGED loop
    /\ UNCHANGED <<peerClosed, rx, parse, clientVars, peerVars, ownerVars>>

\* a hangup, a read error, a close timeout
ConnectionLost ==
    /\ lrs # "freed"
    /\ Kill
    /\ UNCHANGED <<peerClosed, rx, parse, clientVars, peerVars, ownerVars>>

-----------------------------------------------------------------------------
(* The event loop, one closure at a time.                                    *)

\* close(reason:) on the loop: a .close frame is queued unless the client is closed
AskClose == closes' = IF closed \/ lrs = "freed" THEN closes ELSE closes + 1

Running(t) == loop # <<>> /\ Head(loop).t = t

\* the onFragment callback
RunFragment ==
    /\ Running("fragment")
    /\ fragments' = Append(fragments, Head(loop).chunk)
    /\ loop' = Tail(loop)
    /\ UNCHANGED <<wsiVars, clientVars, peerVars, delivered, notified, ownerClosed>>

\* a chunk that is a whole message: it is handed on without passing the sequence
AssembleSimple(c) ==
    /\ frameSequence' = NoSequence
    /\ \/ /\ Readable(c)
          /\ loop' = Append(Tail(loop), Task("deliver", c))
          /\ UNCHANGED closes
       \/ /\ ~Readable(c)
          /\ loop' = Tail(loop) /\ AskClose

\* mutant: the sequence so far is not looked up
AppendedFresh(c) == [some |-> TRUE, isBinary |-> c.isBinary, data |-> c.data]

\* the sequence with the data of c appended; its type is that of its first chunk
Appended(c) ==
    [some |-> TRUE,
     isBinary |-> IF frameSequence.some THEN frameSequence.isBinary ELSE c.isBinary,
     data |-> frameSequence.data \o c.data]

\* mutants: the limit is checked with the last chunk only; it is not enforced by a close
AssemblePartLateLimit(c) ==
    /\ frameSequence' = IF c.isFinal THEN NoSequence ELSE Appended(c)
    /\ \/ c.isFinal /\ TooLarge(Len(Appended(c).data)) /\ loop' = Tail(loop) /\ AskClose
       \/ ~(c.isFinal /\ TooLarge(Len(Appended(c).data))) /\ loop' = Tail(loop) /\ UNCHANGED closes
AssemblePartNoClose(c) ==
    /\ frameSequence' = IF c.isFinal \/ TooLarge(Len(Appended(c).data)) THEN NoSequence ELSE Appended(c)
    /\ loop' = Tail(loop) /\ UNCHANGED closes

\* a chunk of a message in several chunks
AssemblePart(c) ==
    LET seq == Appended(c)
    IN  \/ /\ TooLarge(Len(seq.data))
           /\ AskClose
           /\ frameSequence' = NoSequence /\ loop' = Tail(loop)
        \/ /\ ~TooLarge(Len(seq.data)) /\ ~c.isFinal
           /\ frameSequence' = seq /\ loop' = Tail(loop)
           /\ UNCHANGED closes
        \/ /\ ~TooLarge(Len(seq.data)) /\ c.isFinal
           /\ frameSequence' = NoSequence
           /\ loop' = Append(Tail(loop),
                             Task("deliver", Chunk(seq.data, seq.isBinary, FALSE, TRUE)))
           /\ UNCHANGED closes

\* the second closure of RECEIVE
RunAssemble ==
    /\ Running("assemble")
    /\ LET c == Head(loop).chunk
       IN  IF c.isFirst /\ c.isFinal THEN AssembleSimple(c) ELSE AssemblePart(c)
    /\ UNCHANGED <<wsiVars, connect, callbacks, closed, peerVars, ownerVars>>

\* mutant: a closed client drops what it has received
RunDeliverIfOpen ==
    /\ Running("deliver")
    /\ delivered' = IF closed THEN delivered
                    ELSE Append(delivered, [data |-> Head(loop).chunk.data, seen |-> TRUE,
                                            isBinary |-> Head(loop).chunk.isBinary])
    /\ loop' = Tail(loop)
    /\ UNCHANGED <<wsiVars, clientVars, peerVars, fragments, notified, ownerClosed>>

\* the onText or onBinary callback, if there is one; text put together from chunks is
\* decoded only here
RunDeliver ==
    /\ Running("deliver")
    /\ LET c == Head(loop).chunk
       IN  \/ /\ Readable(c)
              /\ delivered' = Append(delivered, [data |-> c.data, isBinary |-> c.isBinary,
                                                 seen |-> callbacks = "set"])
              /\ UNCHANGED closes
           \/ /\ ~Readable(c) /\ AskClose
              /\ UNCHANGED delivered
    /\ loop' = Tail(loop)
    /\ UNCHANGED <<wsiVars, connect, frameSequence, callbacks, closed, peerVars, fragments, notified,
                   ownerClosed>>

\* mutant: onClose is called at once
RunMarkAsClosedNoHop ==
    /\ Running("markAsClosed")
    /\ loop' = Tail(loop)
    /\ closed' = TRUE /\ closes' = 0
    /\ notified' = IF closed THEN notified ELSE notified + 1
    /\ UNCHANGED <<wsiVars, connect, frameSequence, callbacks, peerVars, fragments, delivered, ownerClosed>>

\* markAsClosed: empty the write queue, hand onClose to the loop
RunMarkAsClosed ==
    /\ Running("markAsClosed")
    /\ IF closed
       THEN loop' = Tail(loop) /\ UNCHANGED <<closed, closes>>
       ELSE /\ closed' = TRUE /\ closes' = 0
            /\ loop' = IF callbacks = "set" THEN Append(Tail(loop), Task("notify", NoChunk))
                                            ELSE Tail(loop)
    /\ UNCHANGED <<wsiVars, connect, frameSequence, callbacks, peerVars, ownerVars>>

\* the onClose callback
RunNotify ==
    /\ Running("notify")
    /\ notified' = notified + 1
    /\ loop' = Tail(loop)
    /\ UNCHANGED <<wsiVars, clientVars, peerVars, fragments, delivered, ownerClosed>>

\* close(reason:) of the owner, hopped to the loop
RunClose ==
    /\ Running("close")
    /\ AskClose
    /\ loop' = Tail(loop)
    /\ UNCHANGED <<wsiVars, connect, frameSequence, callbacks, closed, peerVars, ownerVars>>

RunSetCallbacks ==
    /\ Running("setCallbacks")
    /\ callbacks' = "set"
    /\ loop' = Tail(loop)
    /\ UNCHANGED <<wsiVars, connect, frameSequence, closed, closes, peerVars, ownerVars>>

-----------------------------------------------------------------------------
(* The owner.                                                                *)

\* connect() off the loop: after init has started connecting, the callbacks it was given
\* are set by closures
SetCallbacks ==
    /\ callbacks = "unset"
    /\ callbacks' = "queued"
    /\ loop' = Append(loop, Task("setCallbacks", NoChunk))
    /\ UNCHANGED <<wsiVars, connect, frameSequence, closed, closes, peerVars, ownerVars>>

\* close(reason:) off the loop
Close ==
    /\ ~ownerClosed /\ callbacks # "unset"
    /\ ownerClosed' = TRUE
    /\ loop' = IF closed THEN loop ELSE Append(loop, Task("close", NoChunk))
    /\ UNCHANGED <<wsiVars, clientVars, peerVars, fragments, delivered, notified>>

-----------------------------------------------------------------------------

LoopStep == \/ RunFragment \/ RunAssemble \/ RunDeliver \/ RunMarkAsClosed \/ RunNotify
            \/ RunClose \/ RunSetCallbacks
Peer == \E f \in Frames : ParseHeader(f)
Next == \/ LoopStep \/ Peer \/ ParsePayload \/ PopClose \/ SendClose \/ ConnectionLost
        \/ SetCallbacks \/ Close

Spec == Init /\ [][Next]_vars

\* The event loop runs what it has, and the service thread serves the write queue.
FairSpec == Spec /\ WF_vars(LoopStep) /\ WF_vars(PopClose)

-----------------------------------------------------------------------------
(* What the frames heard say, whatever buffer they went through.             *)

\* Message by message: data and isBinary of the one that goes on, those done, and those of
\* them that can be told.
NoMessages == [data |-> <<>>, isBinary |-> FALSE, done |-> <<>>, told |-> <<>>]

\* a text or binary frame starts a message, a frame with fin ends it
WithFrame(acc, f) ==
    LET msg == [data |-> IF f.op = "continuation" THEN acc.data \o f.payload ELSE f.payload,
                isBinary |-> IF f.op = "continuation" THEN acc.isBinary ELSE f.op = "binary"]
    IN  [data |-> msg.data, isBinary |-> msg.isBinary,
         done |-> IF f.fin THEN Append(acc.done, msg) ELSE acc.done,
         told |-> IF f.fin /\ Readable(msg) THEN Append(acc.told, msg) ELSE acc.told]

\* what the first n of a sequence of data frames make up
Heard(frames) ==
    LET heard[n \in 0..Len(frames)] ==
          IF n = 0 THEN NoMessages ELSE WithFrame(heard[n - 1], frames[n])
    IN  heard

MessagesOf(frames) == Heard(frames)[Len(frames)].done
Messages == Heard(wire)[Len(wire)].told
Delivered == [i \in DOMAIN delivered |-> [data |-> delivered[i].data,
                                          isBinary |-> delivered[i].isBinary]]

\* the fragments the owner has seen, read as frames
FrameOf(c) ==
    [op |-> IF ~c.isFirst THEN "continuation" ELSE IF c.isBinary THEN "binary" ELSE "text",
     fin |-> c.isFinal, payload |-> c.data]
FragmentFrames == [i \in DOMAIN fragments |-> FrameOf(fragments[i])]

-----------------------------------------------------------------------------
(* Properties.                                                               *)

\* Without a size limit the owner gets what the peer sent: the messages handed to onText
\* and onBinary are, in order, those the peer sent, whole and unchanged, text that is not
\* UTF-8 left out; however frames were split by the rx buffer, interrupted by control
\* frames or followed by a refused one.
\* If connect() was called on the loop the callbacks given to it see all of them.
MessagesTold ==
    /\ connect.maxMessageSize = NoLimit => IsPrefix(Delivered, Messages)
    /\ connect.onLoop => \A i \in DOMAIN delivered : delivered[i].seen

\* The onFragment callback can tell the same messages from isFirst and isFinal, also with
\* a size limit: a fragment is a first one exactly if none or a final one came before it.
FragmentsTold ==
    /\ IsPrefix(MessagesOf(FragmentFrames), MessagesOf(wire))
    /\ \A i \in DOMAIN fragments :
         fragments[i].isFirst = (i = 1 \/ fragments[i - 1].isFinal)

\* What the owner is handed, message by message or fragment by fragment, is what was sent.
WholeMessages == MessagesTold /\ FragmentsTold

\* Once onClose has been called no message and no fragment follows: the two hops of a
\* received chunk stay ahead of the two of CLIENT_CLOSED.
NothingAfterOnClose == [][notified > 0 => UNCHANGED <<delivered, fragments>>]_vars

\* Every complete readable message that was heard is delivered, also when the connection
\* is closed or lost meanwhile.
AllDelivered ==
    connect.maxMessageSize = NoLimit => []<>(Len(delivered) = Len(Messages))

\* A message over the limit that did not come in one chunk ends the connection.
LargeMessageKills ==
    (\E i \in DOMAIN MessagesOf(wire) :
        /\ TooLarge(Len(MessagesOf(wire)[i].data))
        /\ \A j \in DOMAIN wire : wire[j].payload = MessagesOf(wire)[i].data
                                  => Len(wire[j].payload) > rxBufferSize)
    ~> (lrs # "established")

\* onText and onBinary are called with whole messages, not fragments, also when a size
\* limit is set (WebsocketConnection.swift).
OnlyWholeMessages == \A i \in DOMAIN delivered :
    \E j \in DOMAIN MessagesOf(wire) : MessagesOf(wire)[j] = Delivered[i]
=============================================================================
