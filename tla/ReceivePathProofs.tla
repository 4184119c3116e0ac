------------------------- MODULE ReceivePathProofs -------------------------
(***************************************************************************)
(* Proofs about ReceivePath, for every buffer size, size limit, set of     *)
(* frames and number of them: what the owner is handed is what the peer    *)
(* sent, and nothing of it comes after onClose.                            *)
(***************************************************************************)
EXTENDS ReceivePath, NaturalsInduction, SequenceTheorems, WellFoundedInduction, TLAPS

(* The closures of the loop, the parser's state, the frames heard.           *)
Tasks == [t : {"fragment", "assemble", "deliver", "markAsClosed", "notify", "close",
               "setCallbacks"}, chunk : Chunks]
Rx == [op : DataOps \cup ControlOps, final : BOOLEAN, first : BOOLEAN,
       continuationPossible : BOOLEAN, owedAFin : BOOLEAN, isBinary : BOOLEAN,
       left : Nat, bad : BOOLEAN, payload : Bytes]
WireFrames == [op : DataOps, fin : BOOLEAN, payload : Bytes]

-----------------------------------------------------------------------------
(* Types.                                                                    *)

(* The tasks of the model are tasks.                                         *)
LEMMA TaskType ==
    ASSUME NEW c \in Chunks,
           NEW t \in {"fragment", "assemble", "deliver", "markAsClosed", "notify", "close",
                      "setCallbacks"}
    PROVE  Task(t, c) \in Tasks /\ Task(t, c).t = t /\ Task(t, c).chunk = c
BY DEF Task, Tasks

(* The chunks of the model are chunks.                                       *)
LEMMA ChunkType ==
    ASSUME NEW data \in Bytes, NEW b \in BOOLEAN, NEW first \in BOOLEAN, NEW final \in BOOLEAN
    PROVE  Chunk(data, b, first, final) \in Chunks
BY DEF Chunk, Chunks

(* So is the one that stands for none.                                       *)
LEMMA NoChunkType == NoChunk \in Chunks
<1>1. <<>> \in Bytes BY DEF Bytes
<1> QED BY <1>1, ChunkType DEF NoChunk

(* What the parser keeps after a header, and what it hands up.               *)
LEMMA HeaderType ==
    ASSUME TypeOK, NEW f \in Frames
    PROVE  HeaderState(f) \in Rx
<1>1. f \in Frame BY FramesAssumption
<1>2. rx \in Rx BY DEF TypeOK, Rx
<1>3. <<>> \in Bytes BY DEF Bytes
<1> DEFINE a == CASE f.op \in {"text", "binary"} -> TRUE
                  [] f.op = "continuation" -> FALSE
                  [] OTHER -> rx.first
           b == CASE f.op \in DataOps /\ f.fin -> FALSE
                  [] f.op \in {"text", "binary"} /\ ~f.fin -> TRUE
                  [] OTHER -> rx.continuationPossible
           d == IF f.op \in DataOps THEN ~f.fin ELSE rx.owedAFin
           e == IF f.op \in {"text", "binary"} THEN f.op = "binary" ELSE rx.isBinary
<1>4. /\ rx.first \in BOOLEAN /\ rx.continuationPossible \in BOOLEAN /\ rx.owedAFin \in BOOLEAN
      /\ rx.isBinary \in BOOLEAN
    BY <1>2 DEF Rx
<1>5. a \in BOOLEAN BY <1>4
<1>6. b \in BOOLEAN BY <1>4
<1>7. d \in BOOLEAN /\ e \in BOOLEAN BY <1>4
<1>8. /\ f.op \in DataOps \cup ControlOps /\ f.fin \in BOOLEAN /\ f.len \in Nat
      /\ f.bad \in BOOLEAN
    BY <1>1 DEF Frame
<1>9. HeaderState(f) = [op |-> f.op, final |-> f.fin, left |-> f.len, bad |-> f.bad,
                        payload |-> <<>>, first |-> a, continuationPossible |-> b,
                        owedAFin |-> d, isBinary |-> e]
    BY DEF HeaderState
<1> HIDE DEF a, b, d, e
<1> QED BY <1>3, <1>5, <1>6, <1>7, <1>8, <1>9 DEF Rx

(* RECEIVE, the end of a connection and spill keep the types.                *)
LEMMA ReceiveType ==
    ASSUME loop \in Seq(Tasks), NEW r \in Rx, NEW data \in Bytes, Receive(r, data)
    PROVE  rx' \in Rx /\ loop' \in Seq(Tasks)
<1> DEFINE c == Chunk(data, r.isBinary, r.first, IsFinalFragment(r))
<1>1. rx' = [r EXCEPT !.first = FALSE] BY DEF Receive
<1>2. rx' \in Rx BY <1>1 DEF Rx
<1>3. /\ r.isBinary \in BOOLEAN /\ r.first \in BOOLEAN /\ IsFinalFragment(r) \in BOOLEAN
    BY DEF Rx, IsFinalFragment
<1>4. c \in Chunks BY <1>3, ChunkType
<1>5. loop' = loop \o <<Task("fragment", c), Task("assemble", c)>> BY DEF Receive
<1> HIDE DEF c
<1>6. Task("fragment", c) \in Tasks /\ Task("assemble", c) \in Tasks BY <1>4, TaskType
<1>7. <<Task("fragment", c), Task("assemble", c)>> \in Seq(Tasks) BY <1>6
<1> QED BY <1>2, <1>5, <1>7

(* The end of a connection.                                                  *)
LEMMA KillType ==
    ASSUME loop \in Seq(Tasks), Kill
    PROVE  lrs' = "freed" /\ loop' \in Seq(Tasks)
<1>1. Task("markAsClosed", NoChunk) \in Tasks BY NoChunkType, TaskType
<1> QED BY <1>1 DEF Kill

(* All of spill.                                                             *)
LEMMA SpillType ==
    ASSUME TypeOK, NEW r \in Rx, NEW data \in Bytes, Spill(r, data)
    PROVE  /\ lrs' \in {"established", "waiting_to_send_close", "awaiting_close_ack", "freed"}
           /\ peerClosed' \in BOOLEAN /\ rx' \in Rx /\ loop' \in Seq(Tasks)
           /\ wire' \in Seq(WireFrames)
<1>1. /\ lrs \in {"established", "waiting_to_send_close", "awaiting_close_ack", "freed"}
      /\ peerClosed \in BOOLEAN /\ loop \in Seq(Tasks) /\ wire \in Seq(WireFrames)
    BY DEF TypeOK, Tasks, WireFrames
<1>2. CASE SpillClose(r)
    <2>1. Task("markAsClosed", NoChunk) \in Tasks BY NoChunkType, TaskType
    <2>2. rx' = r /\ wire' = wire BY <1>2 DEF SpillClose
    <2>3. CASE Kill /\ UNCHANGED peerClosed BY <1>1, <2>2, <2>3, KillType
    <2>4. CASE /\ loop' = Append(loop, Task("markAsClosed", NoChunk))
               /\ lrs' = "waiting_to_send_close" /\ peerClosed' = TRUE
        BY <1>1, <2>1, <2>2, <2>4
    <2> QED BY <1>2, <2>3, <2>4 DEF SpillClose
<1>3. CASE SpillPing(r) BY <1>1, <1>3 DEF SpillPing
<1>4. CASE SpillPong(r)
    <2>1. [r EXCEPT !.first = FALSE] \in Rx BY DEF Rx
    <2>2. rx' = [r EXCEPT !.first = FALSE] \/ rx' = r BY <1>4 DEF SpillPong
    <2>3. UNCHANGED <<lrs, peerClosed, loop, wire>> BY <1>4 DEF SpillPong
    <2> QED BY <1>1, <2>1, <2>2, <2>3
<1>5. CASE SpillData(r, data)
    <2>1. r.op \in DataOps /\ UNCHANGED <<lrs, peerClosed>> BY <1>5 DEF SpillData
    <2>2. [op |-> r.op, fin |-> r.final, payload |-> r.payload] \in WireFrames
        BY <2>1 DEF Rx, WireFrames
    <2>3. wire' \in Seq(WireFrames) BY <1>1, <1>5, <2>2 DEF SpillData
    <2>4. rx' \in Rx /\ loop' \in Seq(Tasks) BY <1>1, <1>5, ReceiveType DEF SpillData
    <2> QED BY <1>1, <2>1, <2>3, <2>4
<1> QED BY <1>2, <1>3, <1>4, <1>5 DEF Spill

(* The part of the frame that ParsePayload takes off it.                     *)
PayloadSize == IF rx.left < rxBufferSize THEN rx.left ELSE rxBufferSize
PayloadBad == rx.bad /\ PayloadSize = rx.left
PayloadData == [i \in 1..PayloadSize |->
                   IF PayloadBad /\ i = PayloadSize THEN -(bytes + i) ELSE bytes + i]
PayloadRx == [rx EXCEPT !.left = @ - PayloadSize, !.payload = @ \o PayloadData]

(* It is not empty, and only left and payload change with it.                *)
LEMMA PayloadType ==
    ASSUME TypeOK
    PROVE  /\ PayloadSize \in Nat /\ PayloadSize <= rx.left /\ PayloadData \in Bytes
           /\ Len(PayloadData) = PayloadSize /\ (rx.left > 0 => PayloadSize > 0)
           /\ PayloadRx \in Rx /\ PayloadRx.left = rx.left - PayloadSize
           /\ PayloadRx.payload = rx.payload \o PayloadData
           /\ PayloadRx.op = rx.op /\ PayloadRx.final = rx.final /\ PayloadRx.first = rx.first
           /\ PayloadRx.owedAFin = rx.owedAFin /\ PayloadRx.isBinary = rx.isBinary
           /\ PayloadRx.continuationPossible = rx.continuationPossible
<1>1. rx \in Rx /\ bytes \in Nat BY DEF TypeOK, Rx
<1>2. rxBufferSize \in Nat \ {0} BY SizesAssumption
<1>3. rx.left \in Nat /\ rx.payload \in Seq(Int) BY <1>1 DEF Rx, Bytes
<1>4. PayloadSize \in Nat /\ PayloadSize <= rx.left /\ (rx.left > 0 => PayloadSize > 0)
    BY <1>2, <1>3 DEF PayloadSize
<1>5. \A i \in 1..PayloadSize :
        (IF PayloadBad /\ i = PayloadSize THEN -(bytes + i) ELSE bytes + i) \in Int
    BY <1>1, <1>4
<1>6. PayloadData \in [1..PayloadSize -> Int] BY <1>5 DEF PayloadData
<1>7. PayloadData \in Bytes /\ Len(PayloadData) = PayloadSize BY <1>4, <1>6 DEF Bytes
<1>8. rx.left - PayloadSize \in Nat /\ rx.payload \o PayloadData \in Bytes
    BY <1>3, <1>4, <1>7 DEF Bytes
<1> HIDE DEF PayloadSize, PayloadData
<1>9. /\ PayloadRx \in Rx /\ PayloadRx.left = rx.left - PayloadSize
      /\ PayloadRx.payload = rx.payload \o PayloadData
      /\ PayloadRx.op = rx.op /\ PayloadRx.final = rx.final /\ PayloadRx.first = rx.first
      /\ PayloadRx.owedAFin = rx.owedAFin /\ PayloadRx.isBinary = rx.isBinary
      /\ PayloadRx.continuationPossible = rx.continuationPossible
    BY <1>1, <1>8 DEF PayloadRx, Rx
<1> QED BY <1>4, <1>7, <1>9

(* ParsePayload in these terms.                                              *)
LEMMA PayloadStep ==
    ASSUME ParsePayload
    PROVE  /\ Reads /\ parse = "payload" /\ Spill(PayloadRx, PayloadData)
           /\ parse' = IF PayloadSize = rx.left THEN "new" ELSE "payload"
           /\ bytes' = bytes + PayloadSize
           /\ UNCHANGED <<clientVars, sent, ownerVars>>
BY DEF ParsePayload, PayloadRx, PayloadData, PayloadBad, PayloadSize

(* Appended never makes a sequence of the wrong type.                        *)
LEMMA AppendedType ==
    ASSUME TypeOK, NEW c \in Chunks
    PROVE  /\ Appended(c) \in [some : BOOLEAN, isBinary : BOOLEAN, data : Bytes]
           /\ Appended(c).data = frameSequence.data \o c.data
           /\ Appended(c).isBinary \in BOOLEAN /\ Appended(c).data \in Bytes
<1>1. frameSequence \in [some : BOOLEAN, isBinary : BOOLEAN, data : Bytes] BY DEF TypeOK
<1>2. c.data \in Seq(Int) /\ c.isBinary \in BOOLEAN /\ frameSequence.data \in Seq(Int)
    BY <1>1 DEF Chunks, Bytes
<1>3. frameSequence.data \o c.data \in Bytes BY <1>2 DEF Bytes
<1>4. (IF frameSequence.some THEN frameSequence.isBinary ELSE c.isBinary) \in BOOLEAN
    BY <1>1, <1>2
<1> QED BY <1>3, <1>4 DEF Appended

(* An empty sequence is within every limit.                                  *)
LEMMA NoSequenceType ==
    ASSUME TypeOK
    PROVE  /\ NoSequence \in [some : BOOLEAN, isBinary : BOOLEAN, data : Bytes]
           /\ ~TooLarge(Len(NoSequence.data))
<1>1. <<>> \in Bytes /\ Len(<<>>) = 0 BY DEF Bytes
<1>2. connect.maxMessageSize \in Nat \cup {NoLimit} BY SizesAssumption DEF TypeOK
<1> QED BY <1>1, <1>2 DEF NoSequence, TooLarge

(* What a step may do to the variables of the client and the owner.          *)
LEMMA KeepsType ==
    ASSUME TypeOK,
           lrs' \in {"established", "waiting_to_send_close", "awaiting_close_ack", "freed"},
           peerClosed' \in BOOLEAN, rx' \in Rx, parse' \in {"new", "payload", "lost"},
           loop' \in Seq(Tasks), closes' \in Nat, wire' \in Seq(WireFrames), bytes' \in Nat,
           sent' \in 0..maxFrames,
           UNCHANGED <<connect, frameSequence, callbacks, closed, ownerVars>>
    PROVE  TypeOK'
<1>1. UNCHANGED <<fragments, delivered, notified, ownerClosed>> BY DEF ownerVars
<1>2. TooLarge(Len(frameSequence.data))' <=> TooLarge(Len(frameSequence.data)) BY DEF TooLarge
<1> QED BY <1>1, <1>2 DEF TypeOK, Rx, Tasks, WireFrames

(* The steps of the service thread keep the types.                           *)
LEMMA WsiType ==
    ASSUME TypeOK, \/ Peer \/ ParsePayload \/ PopClose \/ SendClose \/ ConnectionLost
    PROVE  TypeOK'
<1>1. /\ lrs \in {"established", "waiting_to_send_close", "awaiting_close_ack", "freed"}
      /\ peerClosed \in BOOLEAN /\ rx \in Rx /\ parse \in {"new", "payload", "lost"}
      /\ loop \in Seq(Tasks) /\ closes \in Nat /\ wire \in Seq(WireFrames) /\ bytes \in Nat
      /\ sent \in 0..maxFrames
    BY DEF TypeOK, Rx, Tasks, WireFrames
<1>2. maxFrames \in Nat BY SizesAssumption
<1>3. CASE Peer
    <2>1. PICK f \in Frames : ParseHeader(f) BY <1>3 DEF Peer
    <2>2. /\ sent < maxFrames /\ sent' = sent + 1 /\ UNCHANGED <<clientVars, bytes, ownerVars>>
        BY <2>1 DEF ParseHeader
    <2>3. sent' \in 0..maxFrames BY <1>1, <1>2, <2>2
    <2>4. UNCHANGED <<connect, frameSequence, callbacks, closed, closes>>
        BY <2>2 DEF clientVars
    <2>5. /\ lrs' \in {"established", "waiting_to_send_close", "awaiting_close_ack", "freed"}
          /\ peerClosed' \in BOOLEAN /\ rx' \in Rx /\ parse' \in {"new", "payload", "lost"}
          /\ loop' \in Seq(Tasks) /\ wire' \in Seq(WireFrames)
        <3>1. HeaderState(f) \in Rx /\ <<>> \in Bytes BY HeaderType DEF Bytes
        <3>2. CASE Kill /\ UNCHANGED <<peerClosed, rx, parse, wire>>
            BY <1>1, <3>2, KillType
        <3>3. CASE /\ parse' = "lost" /\ UNCHANGED <<peerClosed, rx, wire>>
                   /\ (lrs' = "waiting_to_send_close" /\ UNCHANGED loop) \/ Kill
            BY <1>1, <3>3, KillType
        <3>4. CASE rx' = HeaderState(f) /\ parse' = "payload"
                   /\ UNCHANGED <<lrs, peerClosed, loop, wire>>
            BY <1>1, <3>1, <3>4
        <3>5. CASE Spill(HeaderState(f), <<>>) /\ UNCHANGED parse
            BY <1>1, <3>1, <3>5, SpillType
        <3> QED BY <2>1, <3>2, <3>3, <3>4, <3>5 DEF ParseHeader
    <2> QED BY <1>1, <2>2, <2>3, <2>4, <2>5, KeepsType
<1>4. CASE ParsePayload
    <2>1. /\ Spill(PayloadRx, PayloadData) /\ parse' \in {"new", "payload"}
          /\ bytes' = bytes + PayloadSize /\ UNCHANGED <<clientVars, sent, ownerVars>>
        BY <1>4, PayloadStep
    <2>2. bytes' \in Nat BY <1>1, <2>1, PayloadType
    <2>3. UNCHANGED <<connect, frameSequence, callbacks, closed, closes>>
        BY <2>1 DEF clientVars
    <2>4. PayloadRx \in Rx /\ PayloadData \in Bytes BY PayloadType
    <2>5. /\ lrs' \in {"established", "waiting_to_send_close", "awaiting_close_ack", "freed"}
          /\ peerClosed' \in BOOLEAN /\ rx' \in Rx /\ loop' \in Seq(Tasks)
          /\ wire' \in Seq(WireFrames)
        BY <2>1, <2>4, SpillType
    <2> QED BY <1>1, <2>1, <2>2, <2>3, <2>5, KeepsType
<1>5. CASE PopClose
    <2>1. /\ closes > 0 /\ closes' = closes - 1
          /\ (lrs' = "waiting_to_send_close" /\ UNCHANGED loop) \/ Kill
          /\ UNCHANGED <<peerClosed, rx, parse, connect, frameSequence, callbacks, closed,
                         peerVars, ownerVars>>
        BY <1>5 DEF PopClose
    <2>2. closes' \in Nat BY <1>1, <2>1
    <2>3. UNCHANGED <<sent, bytes, wire>> BY <2>1 DEF peerVars
    <2> QED BY <1>1, <2>1, <2>2, <2>3, KeepsType, KillType
<1>6. CASE SendClose \/ ConnectionLost
    <2>1. /\ (lrs' = "awaiting_close_ack" /\ UNCHANGED loop) \/ Kill
          /\ UNCHANGED <<peerClosed, rx, parse, clientVars, peerVars, ownerVars>>
        BY <1>6 DEF SendClose, ConnectionLost
    <2>2. UNCHANGED <<connect, frameSequence, callbacks, closed, closes, sent, bytes, wire>>
        BY <2>1 DEF peerVars, clientVars
    <2> QED BY <1>1, <2>1, <2>2, KeepsType, KillType
<1> QED BY <1>3, <1>4, <1>5, <1>6

(* The loop and the owner.                                                   *)
LEMMA LoopType ==
    ASSUME TypeOK, UNCHANGED <<wsiVars, peerVars, connect>>,
           loop' \in Seq(Tasks), closes' \in Nat, closed' \in BOOLEAN,
           callbacks' \in {"unset", "queued", "set"},
           frameSequence' \in [some : BOOLEAN, isBinary : BOOLEAN, data : Bytes],
           ~TooLarge(Len(frameSequence'.data)),
           fragments' \in Seq(Chunks),
           delivered' \in Seq([data : Bytes, isBinary : BOOLEAN, seen : BOOLEAN]),
           notified' \in Nat, ownerClosed' \in BOOLEAN
    PROVE  TypeOK'
<1>1. UNCHANGED <<lrs, peerClosed, rx, parse, sent, bytes, wire>> BY DEF wsiVars, peerVars
<1>2. ~TooLarge(Len(frameSequence.data))' BY DEF TooLarge
<1> QED BY <1>1, <1>2 DEF TypeOK, Tasks

(* The steps of the loop and of the owner keep the types.                    *)
LEMMA RunType ==
    ASSUME TypeOK, LoopStep \/ SetCallbacks \/ Close
    PROVE  TypeOK'
<1>1. /\ loop \in Seq(Tasks) /\ closes \in Nat /\ closed \in BOOLEAN
      /\ callbacks \in {"unset", "queued", "set"}
      /\ frameSequence \in [some : BOOLEAN, isBinary : BOOLEAN, data : Bytes]
      /\ ~TooLarge(Len(frameSequence.data)) /\ fragments \in Seq(Chunks)
      /\ delivered \in Seq([data : Bytes, isBinary : BOOLEAN, seen : BOOLEAN])
      /\ notified \in Nat /\ ownerClosed \in BOOLEAN
    BY DEF TypeOK, Tasks
<1>2. ASSUME loop # <<>>
      PROVE  Tail(loop) \in Seq(Tasks) /\ Head(loop) \in Tasks /\ Head(loop).chunk \in Chunks
    <2>1. Tail(loop) \in Seq(Tasks) /\ Head(loop) \in Tasks BY <1>1, <1>2
    <2> QED BY <2>1 DEF Tasks
<1>3. \A q \in Seq(Tasks), t \in {"deliver", "notify", "close", "setCallbacks"}, c \in Chunks :
        Append(q, Task(t, c)) \in Seq(Tasks)
    BY TaskType
<1>4. AskClose => closes' \in Nat BY <1>1 DEF AskClose
<1>5. CASE RunFragment
    <2>1. /\ loop # <<>> /\ fragments' = Append(fragments, Head(loop).chunk)
          /\ loop' = Tail(loop)
          /\ UNCHANGED <<wsiVars, peerVars, connect, frameSequence, callbacks, closed, closes,
                         delivered, notified, ownerClosed>>
        BY <1>5 DEF RunFragment, Running, clientVars
    <2>2. fragments' \in Seq(Chunks) BY <1>1, <1>2, <2>1
    <2> QED BY <1>1, <1>2, <2>1, <2>2, LoopType
<1>6. CASE RunAssemble
    <2> DEFINE c == Head(loop).chunk
    <2>1. /\ loop # <<>>
          /\ AssembleSimple(c) \/ AssemblePart(c)
          /\ UNCHANGED <<wsiVars, connect, callbacks, closed, peerVars, ownerVars>>
        BY <1>6 DEF RunAssemble, Running
    <2>2. c \in Chunks /\ Tail(loop) \in Seq(Tasks) BY <1>2, <2>1
    <2> HIDE DEF c
    <2>3. UNCHANGED <<fragments, delivered, notified, ownerClosed>> BY <2>1 DEF ownerVars
    <2>4. /\ loop' \in Seq(Tasks) /\ closes' \in Nat
          /\ frameSequence' \in [some : BOOLEAN, isBinary : BOOLEAN, data : Bytes]
          /\ ~TooLarge(Len(frameSequence'.data))
        <3>1. CASE AssembleSimple(c)
            <4>1. frameSequence' = NoSequence BY <3>1 DEF AssembleSimple
            <4>2. loop' \in Seq(Tasks) /\ closes' \in Nat
                BY <1>1, <1>3, <1>4, <2>2, <3>1 DEF AssembleSimple
            <4> QED BY <4>1, <4>2, NoSequenceType
        <3>2. CASE AssemblePart(c)
            <4> DEFINE seq == Appended(c)
            <4>1. seq \in [some : BOOLEAN, isBinary : BOOLEAN, data : Bytes]
                  /\ seq.data \in Bytes /\ seq.isBinary \in BOOLEAN
                BY <2>2, AppendedType
            <4>2. CASE /\ AskClose /\ frameSequence' = NoSequence /\ loop' = Tail(loop)
                BY <1>4, <2>2, <4>2, NoSequenceType
            <4>3. CASE /\ ~TooLarge(Len(seq.data)) /\ frameSequence' = seq
                       /\ loop' = Tail(loop) /\ UNCHANGED closes
                <5> HIDE DEF seq
                <5> QED BY <1>1, <2>2, <4>1, <4>3
            <4>4. CASE /\ frameSequence' = NoSequence
                       /\ loop' = Append(Tail(loop), Task("deliver",
                                         Chunk(seq.data, seq.isBinary, FALSE, TRUE)))
                       /\ UNCHANGED closes
                <5>1. Chunk(seq.data, seq.isBinary, FALSE, TRUE) \in Chunks
                    BY <4>1, ChunkType
                <5> HIDE DEF seq
                <5>2. loop' \in Seq(Tasks) BY <1>3, <2>2, <4>4, <5>1
                <5> QED BY <1>1, <4>4, <5>2, NoSequenceType
            <4> QED BY <3>2, <4>2, <4>3, <4>4 DEF AssemblePart
        <3> QED BY <2>1, <3>1, <3>2
    <2> QED BY <1>1, <2>1, <2>3, <2>4, LoopType
<1>7. CASE RunDeliver
    <2> DEFINE c == Head(loop).chunk
               d == [data |-> c.data, isBinary |-> c.isBinary, seen |-> callbacks = "set"]
    <2>1. /\ loop # <<>> /\ loop' = Tail(loop)
          /\ (delivered' = Append(delivered, d) /\ UNCHANGED closes)
             \/ (AskClose /\ UNCHANGED delivered)
          /\ UNCHANGED <<wsiVars, connect, frameSequence, callbacks, closed, peerVars, fragments,
                         notified, ownerClosed>>
        BY <1>7 DEF RunDeliver, Running
    <2>2. c \in Chunks /\ Tail(loop) \in Seq(Tasks) BY <1>2, <2>1
    <2>3. d \in [data : Bytes, isBinary : BOOLEAN, seen : BOOLEAN] BY <2>2 DEF Chunks
    <2> HIDE DEF c, d
    <2>4. closes' \in Nat BY <1>1, <1>4, <2>1
    <2>5. delivered' \in Seq([data : Bytes, isBinary : BOOLEAN, seen : BOOLEAN])
        <3> DEFINE D == [data : Bytes, isBinary : BOOLEAN, seen : BOOLEAN]
        <3>1. delivered \in Seq(D) /\ d \in D BY <1>1, <2>3
        <3> HIDE DEF D
        <3>2. Append(delivered, d) \in Seq(D) BY <3>1
        <3>3. delivered' \in Seq(D) BY <2>1, <3>1, <3>2
        <3> QED BY <3>3 DEF D
    <2> QED BY <1>1, <2>1, <2>2, <2>4, <2>5, LoopType
<1>8. CASE RunMarkAsClosed
    <2>1. /\ loop # <<>> /\ closed' \in BOOLEAN /\ (closes' = 0 \/ closes' = closes)
          /\ loop' = Tail(loop) \/ loop' = Append(Tail(loop), Task("notify", NoChunk))
          /\ UNCHANGED <<wsiVars, connect, frameSequence, callbacks, peerVars, ownerVars>>
        BY <1>1, <1>8 DEF RunMarkAsClosed, Running
    <2>2. loop' \in Seq(Tasks) /\ closes' \in Nat
        <3>1. Tail(loop) \in Seq(Tasks) BY <1>2, <2>1
        <3>2. Append(Tail(loop), Task("notify", NoChunk)) \in Seq(Tasks)
            BY <1>3, <3>1, NoChunkType
        <3>3. loop' \in Seq(Tasks) BY <2>1, <3>1, <3>2, Zenon
        <3>4. closes' \in Nat BY <1>1, <2>1
        <3> QED BY <3>3, <3>4
    <2>3. UNCHANGED <<fragments, delivered, notified, ownerClosed>> BY <2>1 DEF ownerVars
    <2> QED BY <1>1, <2>1, <2>2, <2>3, LoopType
<1>9. CASE RunNotify
    <2>1. /\ loop # <<>> /\ notified' = notified + 1 /\ loop' = Tail(loop)
          /\ UNCHANGED <<wsiVars, peerVars, connect, frameSequence, callbacks, closed, closes,
                         fragments, delivered, ownerClosed>>
        BY <1>9 DEF RunNotify, Running, clientVars
    <2>2. notified' \in Nat BY <1>1, <2>1
    <2> QED BY <1>1, <1>2, <2>1, <2>2, LoopType
<1>10. CASE RunClose \/ RunSetCallbacks
    <2>1. /\ loop # <<>> /\ loop' = Tail(loop) /\ (AskClose \/ UNCHANGED closes)
          /\ callbacks' = "set" \/ callbacks' = callbacks
          /\ UNCHANGED <<wsiVars, connect, frameSequence, closed, peerVars, ownerVars>>
        BY <1>10 DEF RunClose, RunSetCallbacks, Running
    <2>2. UNCHANGED <<fragments, delivered, notified, ownerClosed>> BY <2>1 DEF ownerVars
    <2>3. closes' \in Nat BY <1>1, <1>4, <2>1
    <2> QED BY <1>1, <1>2, <2>1, <2>2, <2>3, LoopType
<1>11. CASE SetCallbacks
    <2>1. /\ callbacks' = "queued" /\ loop' = Append(loop, Task("setCallbacks", NoChunk))
          /\ UNCHANGED <<wsiVars, connect, frameSequence, closed, closes, peerVars, ownerVars>>
        BY <1>11 DEF SetCallbacks
    <2>2. UNCHANGED <<fragments, delivered, notified, ownerClosed>> BY <2>1 DEF ownerVars
    <2>3. loop' \in Seq(Tasks) BY <1>1, <1>3, <2>1, NoChunkType
    <2> QED BY <1>1, <2>1, <2>2, <2>3, LoopType
<1>12. CASE Close
    <2>1. /\ ownerClosed' = TRUE
          /\ loop' = loop \/ loop' = Append(loop, Task("close", NoChunk))
          /\ UNCHANGED <<wsiVars, connect, frameSequence, callbacks, closed, closes, peerVars,
                         fragments, delivered, notified>>
        BY <1>12 DEF Close, clientVars
    <2>2. loop' \in Seq(Tasks) BY <1>1, <1>3, <2>1, NoChunkType
    <2> QED BY <1>1, <2>1, <2>2, LoopType
<1> QED BY <1>5, <1>6, <1>7, <1>8, <1>9, <1>10, <1>11, <1>12 DEF LoopStep

(* The types hold at the start, ...                                          *)
LEMMA InitType == Init => TypeOK
<1> SUFFICES ASSUME Init PROVE TypeOK OBVIOUS
<1>1. <<>> \in Bytes BY DEF Bytes
<1>2. /\ connect \in Connects /\ connect.maxMessageSize \in Nat \cup {NoLimit}
    BY SizesAssumption DEF Init
<1>3. rx \in Rx BY <1>1 DEF Init, Rx, ControlOps
<1>4. /\ frameSequence \in [some : BOOLEAN, isBinary : BOOLEAN, data : Bytes]
      /\ ~TooLarge(Len(frameSequence.data))
    BY <1>1, <1>2 DEF Init, NoSequence, TooLarge
<1>5. sent \in 0..maxFrames BY SizesAssumption DEF Init
<1>6. callbacks \in {"unset", "queued", "set"} BY DEF Init
<1>7. /\ loop \in Seq(Tasks) /\ wire \in Seq(WireFrames) /\ fragments \in Seq(Chunks)
      /\ delivered \in Seq([data : Bytes, isBinary : BOOLEAN, seen : BOOLEAN])
    BY DEF Init
<1>8. /\ lrs = "established" /\ parse = "new" /\ peerClosed = FALSE /\ closed = FALSE
      /\ ownerClosed = FALSE /\ closes = 0 /\ bytes = 0 /\ notified = 0
    BY DEF Init
<1> QED BY <1>2, <1>3, <1>4, <1>5, <1>6, <1>7, <1>8 DEF TypeOK, Rx, Tasks, WireFrames

(* ... and every step keeps them.                                            *)
LEMMA TypeStep == TypeOK /\ [Next]_vars => TypeOK'
<1> SUFFICES ASSUME TypeOK, [Next]_vars PROVE TypeOK' OBVIOUS
<1>1. CASE LoopStep \/ SetCallbacks \/ Close BY <1>1, RunType
<1>2. CASE \/ Peer \/ ParsePayload \/ PopClose \/ SendClose \/ ConnectionLost BY <1>2, WsiType
<1>3. CASE UNCHANGED vars
    BY <1>3 DEF vars, wsiVars, clientVars, peerVars, ownerVars, TypeOK, TooLarge
<1> QED BY <1>1, <1>2, <1>3 DEF Next

-----------------------------------------------------------------------------
(* The order of the closures on the loop.                                    *)

(* The closures of RECEIVE.                                                  *)
Received == {"fragment", "assemble"}

(* For a loop q of an open or closing connection, a closed client or one     *)
(* that is not, and n calls of onClose: behind a markAsClosed nothing is     *)
(* received, behind an onClose nothing is delivered, and a client that is    *)
(* closed has nothing left to put together.                                  *)
Order(q, open, c, n) ==
    /\ c => ~open /\ \A i \in DOMAIN q : q[i].t \notin Received
    /\ \A i \in DOMAIN q : q[i].t = "markAsClosed" =>
         ~open /\ \A j \in DOMAIN q : j > i => q[j].t \notin Received
    /\ \A i \in DOMAIN q : q[i].t = "notify" =>
         c /\ \A j \in DOMAIN q : j > i => q[j].t # "deliver"
    /\ n > 0 => c /\ \A i \in DOMAIN q : q[i].t # "deliver"

(* The order of what is on the loop.                                         *)
OrderInv == Order(loop, lrs = "established", closed, notified)

(* Taking the first one off a sequence.                                      *)
LEMMA TailFacts ==
    ASSUME NEW S, NEW q \in Seq(S), q # <<>>
    PROVE  /\ DOMAIN q = 1..Len(q) /\ Len(q) \in Nat /\ Len(q) > 0 /\ Head(q) = q[1]
           /\ Head(q) \in S /\ Tail(q) \in Seq(S) /\ Len(Tail(q)) = Len(q) - 1
           /\ DOMAIN Tail(q) = 1..(Len(q) - 1)
           /\ \A i \in DOMAIN Tail(q) : Tail(q)[i] = q[i + 1] /\ i + 1 \in DOMAIN q
OBVIOUS

(* Putting one more at its end.                                              *)
LEMMA AppendFacts ==
    ASSUME NEW S, NEW q \in Seq(S), NEW x \in S
    PROVE  /\ DOMAIN q = 1..Len(q) /\ Len(q) \in Nat /\ DOMAIN Append(q, x) = 1..(Len(q) + 1)
           /\ Append(q, x) \in Seq(S) /\ Len(Append(q, x)) = Len(q) + 1
           /\ \A i \in DOMAIN q : Append(q, x)[i] = q[i]
           /\ Append(q, x)[Len(q) + 1] = x
OBVIOUS

(* A closure is taken off the loop, which may change nothing else, be the    *)
(* one of markAsClosed, or call onClose.                                     *)
LEMMA OrderTail ==
    ASSUME NEW q \in Seq(Tasks), q # <<>>, NEW open \in BOOLEAN, NEW c \in BOOLEAN,
           NEW n \in Nat, Order(q, open, c, n)
    PROVE  /\ Order(Tail(q), open, c, n)
           /\ q[1].t = "markAsClosed" /\ ~c => Order(Tail(q), open, TRUE, n)
           /\ q[1].t = "notify" => Order(Tail(q), open, c, n + 1)
<1> DEFINE r == Tail(q)
<1>1. /\ DOMAIN q = 1..Len(q) /\ Len(q) \in Nat /\ Len(q) > 0 /\ 1 \in DOMAIN q
      /\ DOMAIN r = 1..(Len(q) - 1)
      /\ \A i \in DOMAIN r : r[i] = q[i + 1] /\ i + 1 \in DOMAIN q
    BY TailFacts
<1> HIDE DEF r
<1>2. \A i \in DOMAIN r : i \in Nat /\ i + 1 > 1 BY <1>1
<1>3. Order(r, open, c, n)
    <2>1. c => ~open /\ \A i \in DOMAIN r : r[i].t \notin Received BY <1>1 DEF Order
    <2>2. ASSUME NEW i \in DOMAIN r, r[i].t = "markAsClosed"
          PROVE  ~open /\ \A j \in DOMAIN r : j > i => r[j].t \notin Received
        BY <1>1, <1>2, <2>2 DEF Order
    <2>3. ASSUME NEW i \in DOMAIN r, r[i].t = "notify"
          PROVE  c /\ \A j \in DOMAIN r : j > i => r[j].t # "deliver"
        BY <1>1, <1>2, <2>3 DEF Order
    <2>4. n > 0 => c /\ \A i \in DOMAIN r : r[i].t # "deliver" BY <1>1 DEF Order
    <2> QED BY <2>1, <2>2, <2>3, <2>4 DEF Order
<1>4. ASSUME q[1].t = "markAsClosed", ~c PROVE Order(r, open, TRUE, n)
    <2>1. ~open /\ \A i \in DOMAIN r : r[i].t \notin Received
        BY <1>1, <1>2, <1>4 DEF Order
    <2>2. ~(n > 0) BY <1>4 DEF Order
    <2>3. \A i \in DOMAIN r : r[i].t # "notify" BY <1>3, <1>4 DEF Order
    <2> QED BY <1>3, <2>1, <2>2, <2>3 DEF Order
<1>5. ASSUME q[1].t = "notify" PROVE Order(r, open, c, n + 1)
    <2>1. c /\ \A i \in DOMAIN r : r[i].t # "deliver" BY <1>1, <1>2, <1>5 DEF Order
    <2> QED BY <1>3, <2>1 DEF Order
<1> QED BY <1>3, <1>4, <1>5 DEF r

(* A closure is put on the loop.                                             *)
LEMMA OrderAppend ==
    ASSUME NEW q \in Seq(Tasks), NEW x \in Tasks, NEW open \in BOOLEAN, NEW c \in BOOLEAN,
           NEW n \in Nat, Order(q, open, c, n),
           x.t \in Received => open,
           x.t = "deliver" => ~c,
           x.t = "markAsClosed" => ~open,
           x.t = "notify" => c
    PROVE  Order(Append(q, x), open, c, n)
<1> DEFINE r == Append(q, x)
           m == Len(q) + 1
<1>1. /\ DOMAIN q = 1..Len(q) /\ Len(q) \in Nat /\ DOMAIN r = 1..m
      /\ \A i \in DOMAIN q : r[i] = q[i]
      /\ r[m] = x
    BY AppendFacts
<1>2. m \in Nat /\ \A i \in DOMAIN r : i \in Nat /\ (i = m \/ (i \in DOMAIN q /\ i < m)) BY <1>1
<1> HIDE DEF r, m
<1>3. c => ~open /\ \A i \in DOMAIN r : r[i].t \notin Received BY <1>1, <1>2 DEF Order
<1>4. ASSUME NEW i \in DOMAIN r, r[i].t = "markAsClosed"
      PROVE  ~open /\ \A j \in DOMAIN r : j > i => r[j].t \notin Received
    <2>1. ~open BY <1>1, <1>2, <1>4 DEF Order
    <2>2. ASSUME NEW j \in DOMAIN r, j > i PROVE r[j].t \notin Received
        <3>1. i \in DOMAIN q BY <1>2, <2>2
        <3> QED BY <1>1, <1>2, <1>4, <2>1, <2>2, <3>1 DEF Order
    <2> QED BY <2>1, <2>2
<1>5. ASSUME NEW i \in DOMAIN r, r[i].t = "notify"
      PROVE  c /\ \A j \in DOMAIN r : j > i => r[j].t # "deliver"
    <2>1. c BY <1>1, <1>2, <1>5 DEF Order
    <2>2. ASSUME NEW j \in DOMAIN r, j > i PROVE r[j].t # "deliver"
        <3>1. i \in DOMAIN q BY <1>2, <2>2
        <3> QED BY <1>1, <1>2, <1>5, <2>1, <2>2, <3>1 DEF Order
    <2> QED BY <2>1, <2>2
<1>6. n > 0 => c /\ \A i \in DOMAIN r : r[i].t # "deliver" BY <1>1, <1>2 DEF Order
<1> QED BY <1>3, <1>4, <1>5, <1>6 DEF Order, r

(* A connection is no longer open.                                           *)
LEMMA OrderClosing ==
    ASSUME NEW q \in Seq(Tasks), NEW open \in BOOLEAN, NEW c \in BOOLEAN, NEW n \in Nat,
           Order(q, open, c, n)
    PROVE  Order(q, FALSE, c, n)
BY DEF Order

(* The steps of the wsi.                                                     *)
LEMMA KillOrder ==
    ASSUME TypeOK, OrderInv, Kill, UNCHANGED <<closed, notified>>
    PROVE  OrderInv'
<1>1. loop \in Seq(Tasks) /\ closed \in BOOLEAN /\ notified \in Nat BY DEF TypeOK, Tasks
<1> DEFINE x == Task("markAsClosed", NoChunk)
<1>2. x \in Tasks /\ x.t = "markAsClosed" BY NoChunkType, TaskType
<1>3. loop' = Append(loop, x) /\ lrs' = "freed" BY DEF Kill
<1> HIDE DEF x
<1>4. Order(loop, FALSE, closed, notified) BY <1>1, OrderClosing DEF OrderInv
<1>5. Order(Append(loop, x), FALSE, closed, notified)
    BY <1>1, <1>2, <1>4, OrderAppend DEF Received
<1> QED BY <1>3, <1>5 DEF OrderInv

(* spill hands nothing up once the connection is closing.                    *)
LEMMA SpillOrder ==
    ASSUME TypeOK, OrderInv, NEW r \in Rx, NEW data \in Bytes, Spill(r, data),
           UNCHANGED <<closed, notified>>
    PROVE  OrderInv'
<1>1. loop \in Seq(Tasks) /\ closed \in BOOLEAN /\ notified \in Nat BY DEF TypeOK, Tasks
<1>2. CASE SpillClose(r)
    <2>1. CASE Kill BY <2>1, KillOrder
    <2>2. CASE /\ loop' = Append(loop, Task("markAsClosed", NoChunk))
               /\ lrs' = "waiting_to_send_close"
        <3> DEFINE x == Task("markAsClosed", NoChunk)
        <3>1. x \in Tasks /\ x.t = "markAsClosed" BY NoChunkType, TaskType
        <3>2. loop' = Append(loop, x) BY <2>2
        <3> HIDE DEF x
        <3>3. Order(loop, FALSE, closed, notified) BY <1>1, OrderClosing DEF OrderInv
        <3>4. Order(Append(loop, x), FALSE, closed, notified)
            BY <1>1, <3>1, <3>3, OrderAppend DEF Received
        <3> QED BY <2>2, <3>2, <3>4 DEF OrderInv
    <2> QED BY <1>2, <2>1, <2>2 DEF SpillClose
<1>3. CASE SpillPing(r) \/ SpillPong(r)
    <2>1. UNCHANGED <<lrs, loop>> BY <1>3 DEF SpillPing, SpillPong
    <2> QED BY <2>1 DEF OrderInv
<1>4. CASE SpillData(r, data)
    <2>1. UNCHANGED lrs BY <1>4 DEF SpillData
    <2>2. CASE UNCHANGED loop BY <2>1, <2>2 DEF OrderInv
    <2>3. CASE lrs = "established" /\ Receive(r, data)
        <3> DEFINE c == Chunk(data, r.isBinary, r.first, IsFinalFragment(r))
                   x == Task("fragment", c)
                   y == Task("assemble", c)
        <3>1. c \in Chunks BY ChunkType DEF Rx, IsFinalFragment
        <3>2. loop' = loop \o <<x, y>> BY <2>3 DEF Receive
        <3> HIDE DEF c
        <3>3. x \in Tasks /\ y \in Tasks /\ x.t = "fragment" /\ y.t = "assemble"
            BY <3>1, TaskType
        <3> HIDE DEF x, y
        <3>4. loop' = Append(Append(loop, x), y) BY <1>1, <3>2, <3>3
        <3>5. Order(loop, TRUE, closed, notified) BY <2>3 DEF OrderInv
        <3>6. Order(Append(loop, x), TRUE, closed, notified)
            BY <1>1, <3>3, <3>5, OrderAppend DEF Received
        <3>7. Append(loop, x) \in Seq(Tasks) BY <1>1, <3>3
        <3>8. Order(Append(Append(loop, x), y), TRUE, closed, notified)
            BY <1>1, <3>3, <3>6, <3>7, OrderAppend DEF Received
        <3> QED BY <2>1, <2>3, <3>4, <3>8 DEF OrderInv
    <2> QED BY <1>4, <2>2, <2>3 DEF SpillData
<1> QED BY <1>2, <1>3, <1>4 DEF Spill

(* The steps of the service thread keep the order.                           *)
LEMMA WsiOrder ==
    ASSUME TypeOK, OrderInv, \/ Peer \/ ParsePayload \/ PopClose \/ SendClose \/ ConnectionLost
    PROVE  OrderInv'
<1>1. loop \in Seq(Tasks) /\ closed \in BOOLEAN /\ notified \in Nat BY DEF TypeOK, Tasks
<1>2. UNCHANGED <<closed, notified>>
    BY PayloadStep DEF Peer, ParseHeader, PopClose, SendClose, ConnectionLost, clientVars,
                       ownerVars
<1>3. ASSUME UNCHANGED loop, lrs' = lrs \/ lrs' # "established" PROVE OrderInv'
    <2>1. Order(loop, FALSE, closed, notified) BY <1>1, OrderClosing DEF OrderInv
    <2> QED BY <1>2, <1>3, <2>1 DEF OrderInv
<1>4. CASE Peer
    <2>1. PICK f \in Frames : ParseHeader(f) BY <1>4 DEF Peer
    <2>2. HeaderState(f) \in Rx /\ <<>> \in Bytes BY HeaderType DEF Bytes
    <2>3. \/ Kill \/ Spill(HeaderState(f), <<>>)
          \/ UNCHANGED loop /\ (lrs' = lrs \/ lrs' # "established")
        BY <2>1 DEF ParseHeader
    <2> QED BY <1>2, <1>3, <2>2, <2>3, KillOrder, SpillOrder
<1>5. CASE ParsePayload
    <2>1. PayloadRx \in Rx /\ PayloadData \in Bytes BY PayloadType
    <2> QED BY <1>2, <1>5, <2>1, PayloadStep, SpillOrder
<1>6. CASE PopClose \/ SendClose \/ ConnectionLost
    <2>1. Kill \/ (UNCHANGED loop /\ lrs' # "established")
        BY <1>6 DEF PopClose, SendClose, ConnectionLost
    <2> QED BY <1>2, <1>3, <2>1, KillOrder
<1> QED BY <1>4, <1>5, <1>6

(* The steps of the loop and the owner.                                      *)
LEMMA RunOrder ==
    ASSUME TypeOK, OrderInv, LoopStep \/ SetCallbacks \/ Close
    PROVE  OrderInv'
<1> DEFINE open == lrs = "established"
<1>1. /\ loop \in Seq(Tasks) /\ closed \in BOOLEAN /\ notified \in Nat
      /\ callbacks \in {"unset", "queued", "set"}
      /\ frameSequence \in [some : BOOLEAN, isBinary : BOOLEAN, data : Bytes]
    BY DEF TypeOK, Tasks
<1>2. UNCHANGED lrs
    BY DEF LoopStep, RunFragment, RunAssemble, RunDeliver, RunMarkAsClosed, RunNotify, RunClose,
           RunSetCallbacks, SetCallbacks, Close, wsiVars
<1>3. open \in BOOLEAN /\ Order(loop, open, closed, notified) BY DEF OrderInv
<1> HIDE DEF open
<1>4. ASSUME loop # <<>>
      PROVE  /\ Tail(loop) \in Seq(Tasks) /\ Head(loop) = loop[1] /\ Head(loop).chunk \in Chunks
             /\ 1 \in DOMAIN loop
             /\ Order(Tail(loop), open, closed, notified)
             /\ loop[1].t = "markAsClosed" /\ ~closed => Order(Tail(loop), open, TRUE, notified)
             /\ loop[1].t = "notify" => Order(Tail(loop), open, closed, notified + 1)
    <2>1. Tail(loop) \in Seq(Tasks) /\ Head(loop) = loop[1] /\ Head(loop) \in Tasks
          /\ 1 \in DOMAIN loop
        BY <1>1, <1>4, TailFacts
    <2> QED BY <1>1, <1>3, <1>4, <2>1, OrderTail DEF Tasks
<1>5. CASE RunFragment \/ RunDeliver \/ RunClose \/ RunSetCallbacks
    <2>1. loop # <<>> /\ loop' = Tail(loop) /\ UNCHANGED <<closed, notified>>
        BY <1>5 DEF RunFragment, RunDeliver, RunClose, RunSetCallbacks, Running, clientVars,
                    ownerVars
    <2> QED BY <1>2, <1>4, <2>1 DEF OrderInv, open
<1>6. CASE RunAssemble
    <2> DEFINE c == Head(loop).chunk
    <2>1. /\ loop # <<>> /\ Head(loop).t = "assemble" /\ UNCHANGED <<closed, notified>>
          /\ AssembleSimple(c) \/ AssemblePart(c)
        BY <1>6 DEF RunAssemble, Running, ownerVars
    <2>2. c \in Chunks BY <1>4, <2>1
    <2> HIDE DEF c
    <2>3. Appended(c).data \in Bytes /\ Appended(c).isBinary \in BOOLEAN BY <2>2, AppendedType
    <2>4. PICK d \in Chunks : loop' = Tail(loop) \/ loop' = Append(Tail(loop), Task("deliver", d))
        <3>1. CASE AssembleSimple(c) BY <2>2, <3>1 DEF AssembleSimple
        <3>2. CASE AssemblePart(c)
            <4> DEFINE d == Chunk(Appended(c).data, Appended(c).isBinary, FALSE, TRUE)
            <4>1. d \in Chunks BY <2>3, ChunkType
            <4>2. loop' = Tail(loop) \/ loop' = Append(Tail(loop), Task("deliver", d))
                BY <3>2 DEF AssemblePart
            <4> QED BY <4>1, <4>2
        <3> QED BY <2>1, <3>1, <3>2
    <2>5. ~closed BY <1>3, <1>4, <2>1 DEF Order, Received
    <2>6. CASE loop' = Tail(loop) BY <1>2, <1>4, <2>1, <2>6 DEF OrderInv, open
    <2>7. CASE loop' = Append(Tail(loop), Task("deliver", d))
        <3> DEFINE x == Task("deliver", d)
        <3>1. x \in Tasks /\ x.t = "deliver" BY TaskType
        <3>2. loop' = Append(Tail(loop), x) BY <2>7
        <3> HIDE DEF x
        <3>3. Tail(loop) \in Seq(Tasks) /\ Order(Tail(loop), open, closed, notified)
            BY <1>4, <2>1
        <3>4. Order(Append(Tail(loop), x), open, closed, notified)
            <4> DEFINE q == Tail(loop)
            <4>1. /\ q \in Seq(Tasks) /\ Order(q, open, closed, notified)
                  /\ open \in BOOLEAN /\ closed \in BOOLEAN /\ notified \in Nat
                BY <1>1, <1>3, <3>3
            <4>2. /\ x.t \in Received => open
                  /\ x.t = "deliver" => ~closed
                  /\ x.t = "markAsClosed" => ~open
                  /\ x.t = "notify" => closed
                BY <2>5, <3>1 DEF Received
            <4> HIDE DEF q
            <4>3. Order(Append(q, x), open, closed, notified)
                BY <3>1, <4>1, <4>2, OrderAppend
            <4> QED BY <4>3 DEF q
        <3> QED BY <1>2, <2>1, <3>2, <3>4 DEF OrderInv, open
    <2> QED BY <2>4, <2>6, <2>7
<1>7. CASE RunMarkAsClosed
    <2>1. /\ loop # <<>> /\ Head(loop).t = "markAsClosed" /\ UNCHANGED notified
          /\ \/ loop' = Tail(loop) /\ UNCHANGED closed
             \/ loop' = Tail(loop) /\ ~closed /\ closed' = TRUE
             \/ loop' = Append(Tail(loop), Task("notify", NoChunk)) /\ ~closed /\ closed' = TRUE
        BY <1>7 DEF RunMarkAsClosed, Running, ownerVars
    <2>2. CASE loop' = Tail(loop) /\ UNCHANGED closed
        BY <1>2, <1>4, <2>1, <2>2 DEF OrderInv, open
    <2>3. CASE loop' = Tail(loop) /\ ~closed /\ closed' = TRUE
        BY <1>2, <1>4, <2>1, <2>3 DEF OrderInv, open
    <2>4. CASE /\ loop' = Append(Tail(loop), Task("notify", NoChunk))
               /\ ~closed /\ closed' = TRUE
        <3> DEFINE x == Task("notify", NoChunk)
        <3>1. x \in Tasks /\ x.t = "notify" BY NoChunkType, TaskType
        <3>2. loop' = Append(Tail(loop), x) BY <2>4
        <3> HIDE DEF x
        <3>3. Tail(loop) \in Seq(Tasks) /\ Order(Tail(loop), open, TRUE, notified)
            BY <1>4, <2>1, <2>4
        <3>4. Order(Append(Tail(loop), x), open, TRUE, notified)
            BY <1>1, <1>3, <3>1, <3>3, OrderAppend DEF Received
        <3> QED BY <1>2, <2>1, <2>4, <3>2, <3>4 DEF OrderInv, open
    <2> QED BY <2>1, <2>2, <2>3, <2>4
<1>8. CASE RunNotify
    <2>1. /\ loop # <<>> /\ Head(loop).t = "notify" /\ loop' = Tail(loop)
          /\ notified' = notified + 1 /\ UNCHANGED closed
        BY <1>8 DEF RunNotify, Running, clientVars
    <2> QED BY <1>2, <1>4, <2>1 DEF OrderInv, open
<1>9. CASE SetCallbacks \/ Close
    <2>1. PICK t \in {"setCallbacks", "close"} :
            /\ loop' = loop \/ loop' = Append(loop, Task(t, NoChunk))
            /\ UNCHANGED <<closed, notified>>
        BY <1>9 DEF SetCallbacks, Close, clientVars, ownerVars
    <2>2. CASE loop' = loop BY <1>2, <1>3, <2>1, <2>2 DEF OrderInv, open
    <2>3. CASE loop' = Append(loop, Task(t, NoChunk))
        <3> DEFINE x == Task(t, NoChunk)
        <3>1. x \in Tasks /\ x.t = t BY NoChunkType, TaskType
        <3>2. loop' = Append(loop, x) BY <2>3
        <3> HIDE DEF x
        <3>3. Order(Append(loop, x), open, closed, notified)
            BY <1>1, <1>3, <3>1, OrderAppend DEF Received
        <3> QED BY <1>2, <2>1, <3>2, <3>3 DEF OrderInv, open
    <2> QED BY <2>1, <2>2, <2>3
<1> QED BY <1>5, <1>6, <1>7, <1>8, <1>9 DEF LoopStep

-----------------------------------------------------------------------------
(* What a sequence of frames makes up.                                       *)

(* Messages, and what frames make up.                                        *)
Msgs == [data : Bytes, isBinary : BOOLEAN]
Accs == [data : Bytes, isBinary : BOOLEAN, done : Seq(Msgs), told : Seq(Msgs)]

(* Induction over the natural numbers, for a set.                            *)
LEMMA SetInduction ==
    ASSUME NEW S, 0 \in S, \A n \in Nat : n \in S => n + 1 \in S
    PROVE  \A n \in Nat : n \in S
<1> DEFINE T == Nat \ S
<1>1. SUFFICES ASSUME T # {} PROVE FALSE OBVIOUS
<1>2. T \subseteq Nat OBVIOUS
<1> HIDE DEF T
<1>3. PICK m \in T : \A y \in T : ~(<<y, m>> \in OpToRel(<, Nat))
    BY <1>1, <1>2, WFMin, NatLessThanWellFounded, Zenon
<1>4. m \in Nat /\ m \notin S BY <1>3 DEF T
<1>5. m # 0 /\ m - 1 \in Nat /\ m - 1 < m /\ (m - 1) + 1 = m BY <1>4
<1>6. m - 1 \notin S BY <1>4, <1>5
<1>7. m - 1 \in T BY <1>5, <1>6 DEF T
<1>8. <<m - 1, m>> \in OpToRel(<, Nat) BY <1>4, <1>5 DEF OpToRel
<1> QED BY <1>3, <1>7, <1>8

(* What one more frame makes of it.                                          *)
LEMMA WithType ==
    ASSUME NEW acc \in Accs, NEW f \in WireFrames
    PROVE  /\ WithFrame(acc, f) \in Accs
           /\ WithFrame(acc, f).data =
                (IF f.op = "continuation" THEN acc.data \o f.payload ELSE f.payload)
           /\ WithFrame(acc, f).isBinary =
                (IF f.op = "continuation" THEN acc.isBinary ELSE f.op = "binary")
           /\ ~f.fin => WithFrame(acc, f).done = acc.done /\ WithFrame(acc, f).told = acc.told
           /\ f.fin => WithFrame(acc, f).done =
                Append(acc.done, [data |-> WithFrame(acc, f).data,
                                  isBinary |-> WithFrame(acc, f).isBinary])
<1> DEFINE d == IF f.op = "continuation" THEN acc.data \o f.payload ELSE f.payload
           b == IF f.op = "continuation" THEN acc.isBinary ELSE f.op = "binary"
           msg == [data |-> d, isBinary |-> b]
           done == IF f.fin THEN Append(acc.done, msg) ELSE acc.done
           told == IF f.fin /\ Readable(msg) THEN Append(acc.told, msg) ELSE acc.told
<1>1. /\ acc.data \in Seq(Int) /\ acc.isBinary \in BOOLEAN /\ acc.done \in Seq(Msgs)
      /\ acc.told \in Seq(Msgs) /\ f.payload \in Seq(Int)
    BY DEF Accs, WireFrames, Bytes
<1>2. d \in Bytes /\ b \in BOOLEAN
    <2>1. acc.data \o f.payload \in Seq(Int) BY <1>1
    <2>2. d \in Seq(Int) BY <1>1, <2>1
    <2>3. b \in BOOLEAN BY <1>1
    <2> QED BY <2>2, <2>3 DEF Bytes
<1>3. msg.data = d /\ msg.isBinary = b OBVIOUS
<1>4. WithFrame(acc, f) = [data |-> d, isBinary |-> b, done |-> done, told |-> told]
    BY <1>3 DEF WithFrame
<1> HIDE DEF d, b
<1>5. msg \in Msgs BY <1>2 DEF Msgs
<1> HIDE DEF msg
<1>6. done \in Seq(Msgs) /\ told \in Seq(Msgs) BY <1>1, <1>5
<1>7. (~f.fin => done = acc.done /\ told = acc.told) /\ (f.fin => done = Append(acc.done, msg))
    OBVIOUS
<1> HIDE DEF done, told
<1>8. WithFrame(acc, f) \in Accs BY <1>2, <1>4, <1>6 DEF Accs
<1> QED BY <1>4, <1>7, <1>8 DEF d, b, msg

(* No frame has been heard.                                                  *)
LEMMA NoMessagesType == NoMessages \in Accs
BY DEF NoMessages, Accs, Bytes

(* Heard is the function that its recursive definition says it is.           *)
LEMMA HeardFacts ==
    ASSUME NEW s \in Seq(WireFrames)
    PROVE  /\ Heard(s) \in [0..Len(s) -> Accs]
           /\ Heard(s)[0] = NoMessages
           /\ \A n \in 1..Len(s) : Heard(s)[n] = WithFrame(Heard(s)[n - 1], s[n])
<1> DEFINE Is(h, n) == /\ h \in [0..n -> Accs] /\ h[0] = NoMessages
                       /\ \A i \in 1..n : h[i] = WithFrame(h[i - 1], s[i])
           S == {n \in Nat : n <= Len(s) => \E h : Is(h, n)}
<1>1. Len(s) \in Nat /\ \A i \in 1..Len(s) : s[i] \in WireFrames OBVIOUS
<1>2. 0 \in S
    <2> DEFINE h == [i \in 0..0 |-> NoMessages]
    <2>1. Is(h, 0) BY NoMessagesType
    <2> HIDE DEF h, Is
    <2> QED BY <2>1
<1>3. ASSUME NEW n \in Nat, n \in S PROVE n + 1 \in S
    <2>1. SUFFICES ASSUME n + 1 <= Len(s) PROVE \E h : Is(h, n + 1) OBVIOUS
    <2>2. n <= Len(s) BY <1>1, <2>1
    <2>3. PICK h : Is(h, n) BY <1>3, <2>2
    <2> DEFINE x == WithFrame(h[n], s[n + 1])
               g == [i \in 0..(n + 1) |-> IF i <= n THEN h[i] ELSE x]
    <2>4. h[n] \in Accs /\ s[n + 1] \in WireFrames BY <1>1, <2>1, <2>3
    <2>5. x \in Accs BY <2>4, WithType
    <2> HIDE DEF x
    <2>6. g \in [0..(n + 1) -> Accs] BY <2>3, <2>5
    <2>7. g[0] = NoMessages BY <2>3
    <2>8. ASSUME NEW i \in 1..(n + 1) PROVE g[i] = WithFrame(g[i - 1], s[i])
        <3>1. CASE i <= n
            <4>1. i \in 1..n /\ i - 1 \in 0..n /\ i \in 0..n BY <3>1
            <4>2. g[i] = h[i] /\ g[i - 1] = h[i - 1] BY <4>1
            <4>3. h[i] = WithFrame(h[i - 1], s[i]) BY <2>3, <4>1
            <4> QED BY <4>2, <4>3
        <3>2. CASE i = n + 1
            <4>1. g[i] = x /\ g[i - 1] = h[n] BY <3>2
            <4> QED BY <3>2, <4>1 DEF x
        <3> QED BY <3>1, <3>2
    <2> HIDE DEF g
    <2>9. Is(g, n + 1) BY <2>6, <2>7, <2>8
    <2> HIDE DEF Is
    <2> QED BY <2>9
<1>4. Len(s) \in S
    <2> HIDE DEF S
    <2>1. \A n \in Nat : n \in S BY <1>2, <1>3, SetInduction
    <2> QED BY <1>1, <2>1
<1>5. PICK h : Is(h, Len(s)) BY <1>1, <1>4
<1> DEFINE F(g) == [n \in 0..Len(s) |->
                      IF n = 0 THEN NoMessages ELSE WithFrame(g[n - 1], s[n])]
<1>6. h = F(h)
    <2>1. h \in [0..Len(s) -> Accs] BY <1>5
    <2>2. ASSUME NEW i \in 0..Len(s) PROVE h[i] = F(h)[i]
        <3>1. CASE i = 0 BY <1>5, <3>1
        <3>2. CASE i # 0
            <4>1. i \in 1..Len(s) BY <1>1, <3>2
            <4> QED BY <1>5, <3>2, <4>1
        <3> QED BY <3>1, <3>2
    <2> QED BY <2>1, <2>2
<1>7. Heard(s) = CHOOSE g : g = F(g) BY DEF Heard
<1>8. Heard(s) = F(Heard(s))
    <2> HIDE DEF F
    <2> QED BY <1>6, <1>7
<1>9. /\ Heard(s)[0] = NoMessages
      /\ \A n \in 1..Len(s) : Heard(s)[n] = WithFrame(Heard(s)[n - 1], s[n])
      /\ DOMAIN Heard(s) = 0..Len(s)
    <2> DEFINE g == Heard(s)
    <2>1. g = F(g) BY <1>8
    <2> HIDE DEF g
    <2>2. DOMAIN g = 0..Len(s) /\ \A n \in 0..Len(s) : g[n] = F(g)[n] BY <2>1
    <2>3. g[0] = NoMessages BY <1>1, <2>2
    <2>4. ASSUME NEW n \in 1..Len(s) PROVE g[n] = WithFrame(g[n - 1], s[n])
        <3>1. n \in 0..Len(s) /\ n # 0 BY <1>1
        <3> QED BY <2>2, <3>1
    <2> QED BY <2>2, <2>3, <2>4 DEF g
<1>10. \A n \in 0..Len(s) : Heard(s)[n] \in Accs
    <2> DEFINE T == {n \in Nat : n <= Len(s) => Heard(s)[n] \in Accs}
    <2>1. 0 \in T BY <1>9, NoMessagesType
    <2>2. ASSUME NEW n \in Nat, n \in T PROVE n + 1 \in T
        <3>1. SUFFICES ASSUME n + 1 <= Len(s) PROVE Heard(s)[n + 1] \in Accs OBVIOUS
        <3>2. n + 1 \in 1..Len(s) /\ (n + 1) - 1 = n BY <1>1, <3>1
        <3>3. Heard(s)[n] \in Accs BY <1>1, <2>2, <3>1
        <3>4. Heard(s)[n + 1] = WithFrame(Heard(s)[n], s[n + 1]) BY <1>9, <3>2
        <3> QED BY <1>1, <3>2, <3>3, <3>4, WithType
    <2>3. \A n \in Nat : n \in T
        <3> HIDE DEF T
        <3> QED BY <2>1, <2>2, SetInduction
    <2> QED BY <1>1, <2>3
<1> DEFINE g == Heard(s)
<1>11. DOMAIN g = 0..Len(s) /\ \A n \in 0..Len(s) : g[n] \in Accs BY <1>9, <1>10
<1>12. g = [n \in 0..Len(s) |-> g[n]] BY <1>8, <1>11
<1> QED BY <1>9, <1>11, <1>12

(* It depends on the frames so far only.                                     *)
LEMMA HeardAgree ==
    ASSUME NEW s \in Seq(WireFrames), NEW t \in Seq(WireFrames), NEW m \in Nat,
           m <= Len(s), m <= Len(t), \A i \in 1..m : s[i] = t[i]
    PROVE  \A n \in 0..m : Heard(s)[n] = Heard(t)[n]
<1> DEFINE T == {n \in Nat : n <= m => Heard(s)[n] = Heard(t)[n]}
<1>1. Len(s) \in Nat /\ Len(t) \in Nat OBVIOUS
<1>2. 0 \in T BY HeardFacts
<1>3. ASSUME NEW n \in Nat, n \in T PROVE n + 1 \in T
    <2>1. SUFFICES ASSUME n + 1 <= m PROVE Heard(s)[n + 1] = Heard(t)[n + 1] OBVIOUS
    <2>2. /\ n + 1 \in 1..Len(s) /\ n + 1 \in 1..Len(t) /\ n + 1 \in 1..m
          /\ (n + 1) - 1 = n /\ n <= m
        BY <1>1, <2>1
    <2>3. Heard(s)[n] = Heard(t)[n] BY <1>3, <2>2
    <2>4. Heard(s)[n + 1] = WithFrame(Heard(s)[n], s[n + 1]) BY <2>2, HeardFacts
    <2>5. Heard(t)[n + 1] = WithFrame(Heard(t)[n], t[n + 1]) BY <2>2, HeardFacts
    <2> QED BY <2>2, <2>3, <2>4, <2>5
<1>4. \A n \in Nat : n \in T
    <2> HIDE DEF T
    <2> QED BY <1>2, <1>3, SetInduction
<1> QED BY <1>4

(* One more frame.                                                           *)
LEMMA HeardAppend ==
    ASSUME NEW s \in Seq(WireFrames), NEW f \in WireFrames
    PROVE  /\ Append(s, f) \in Seq(WireFrames) /\ Len(Append(s, f)) = Len(s) + 1
           /\ \A n \in 0..Len(s) : Heard(Append(s, f))[n] = Heard(s)[n]
           /\ Heard(Append(s, f))[Len(s) + 1] = WithFrame(Heard(s)[Len(s)], f)
<1> DEFINE t == Append(s, f)
<1>1. /\ t \in Seq(WireFrames) /\ Len(t) = Len(s) + 1 /\ Len(s) \in Nat
      /\ \A i \in 1..Len(s) : s[i] = t[i]
      /\ t[Len(s) + 1] = f
    OBVIOUS
<1> HIDE DEF t
<1>2. Len(s) <= Len(t) /\ Len(s) + 1 \in 1..Len(t) /\ (Len(s) + 1) - 1 = Len(s)
      /\ Len(s) \in 0..Len(s) /\ Len(s) <= Len(s)
    BY <1>1
<1>3. \A n \in 0..Len(s) : Heard(s)[n] = Heard(t)[n] BY <1>1, <1>2, HeardAgree
<1>4. Heard(t)[Len(s) + 1] = WithFrame(Heard(t)[Len(s)], t[Len(s) + 1])
    BY <1>1, <1>2, HeardFacts
<1>5. Heard(t)[Len(s) + 1] = WithFrame(Heard(s)[Len(s)], f) BY <1>1, <1>2, <1>3, <1>4
<1> QED BY <1>1, <1>3, <1>5 DEF t

(* A sequence begins with another one.                                       *)
Begins(a, b) == Len(a) <= Len(b) /\ \A i \in 1..Len(a) : a[i] = b[i]

(* It is then a prefix of it.                                                *)
LEMMA BeginsPrefix ==
    ASSUME NEW S, NEW a \in Seq(S), NEW b \in Seq(S), Begins(a, b)
    PROVE  IsPrefix(a, b)
<1>1. Len(a) \in Nat /\ Len(b) \in Nat /\ Len(a) <= Len(b) BY DEF Begins
<1> DEFINE u == SubSeq(a, 1, Len(a))
           v == SubSeq(b, 1, Len(a))
<1>2. u = [i \in 1..Len(a) |-> a[i]] BY <1>1
<1>3. v = [i \in 1..Len(a) |-> b[i]] BY <1>1
<1>4. u = v BY <1>2, <1>3 DEF Begins
<1> QED BY <1>1, <1>4 DEF IsPrefix

(* More at the end of the longer one changes nothing.                        *)
LEMMA BeginsAppend ==
    ASSUME NEW S, NEW a \in Seq(S), NEW b \in Seq(S), NEW x \in S, Begins(a, b)
    PROVE  Begins(a, Append(b, x))
<1>1. /\ Len(a) \in Nat /\ Len(b) \in Nat /\ Len(Append(b, x)) = Len(b) + 1
      /\ \A i \in 1..Len(b) : Append(b, x)[i] = b[i]
    OBVIOUS
<1>2. Len(a) <= Len(b) /\ \A i \in 1..Len(a) : a[i] = b[i] BY DEF Begins
<1>3. \A i \in 1..Len(a) : i \in 1..Len(b) BY <1>1, <1>2
<1>4. Len(a) <= Len(Append(b, x)) BY <1>1, <1>2
<1>5. \A i \in 1..Len(a) : a[i] = Append(b, x)[i] BY <1>1, <1>2, <1>3
<1> QED BY <1>4, <1>5 DEF Begins

(* More frames only add messages.                                            *)
LEMMA HeardGrows ==
    ASSUME NEW s \in Seq(WireFrames), NEW m \in 0..Len(s)
    PROVE  \A n \in m..Len(s) : /\ Begins(Heard(s)[m].done, Heard(s)[n].done)
                                /\ Begins(Heard(s)[m].told, Heard(s)[n].told)
<1> DEFINE h == Heard(s)
           P(n) == /\ Begins(h[m].done, h[n].done) /\ Begins(h[m].told, h[n].told)
           T == {d \in Nat : m + d <= Len(s) => P(m + d)}
<1>1. Len(s) \in Nat /\ m \in Nat OBVIOUS
<1>2. \A n \in 0..Len(s) : /\ h[n] \in Accs /\ h[n].done \in Seq(Msgs) /\ h[n].told \in Seq(Msgs)
    BY HeardFacts DEF Accs
<1>3. 0 \in T BY <1>1, <1>2 DEF Begins
<1>4. ASSUME NEW d \in Nat, d \in T PROVE d + 1 \in T
    <2>1. SUFFICES ASSUME m + (d + 1) <= Len(s) PROVE P(m + (d + 1)) OBVIOUS
    <2> DEFINE n == m + d
    <2>2. /\ n \in 0..Len(s) /\ n + 1 \in 1..Len(s) /\ n + 1 \in 0..Len(s) /\ m \in 0..Len(s)
          /\ (n + 1) - 1 = n /\ m + (d + 1) = n + 1 /\ n <= Len(s)
        BY <1>1, <2>1
    <2>3. P(n) BY <1>4, <2>2
    <2> HIDE DEF n
    <2>4. h[n + 1] = WithFrame(h[n], s[n + 1]) BY <2>2, HeardFacts
    <2>5. s[n + 1] \in WireFrames BY <2>2
    <2>6. \E x : h[n + 1].done = h[n].done \/ (x \in Msgs /\ h[n + 1].done = Append(h[n].done, x))
        <3> DEFINE f == s[n + 1]
                   w == WithFrame(h[n], f)
        <3>1. /\ w \in Accs /\ (~f.fin => w.done = h[n].done)
              /\ f.fin => w.done = Append(h[n].done, [data |-> w.data, isBinary |-> w.isBinary])
            BY <1>2, <2>2, <2>5, WithType
        <3>2. [data |-> w.data, isBinary |-> w.isBinary] \in Msgs BY <3>1 DEF Accs, Msgs
        <3> QED BY <2>4, <3>1, <3>2
    <2>7. \E x : h[n + 1].told = h[n].told \/ (x \in Msgs /\ h[n + 1].told = Append(h[n].told, x))
        <3> DEFINE f == s[n + 1]
                   w == WithFrame(h[n], f)
                   msg == [data |-> w.data, isBinary |-> w.isBinary]
        <3>1. w \in Accs BY <1>2, <2>2, <2>5, WithType
        <3>2. msg \in Msgs BY <3>1 DEF Accs, Msgs
        <3>3. w.told = h[n].told \/ w.told = Append(h[n].told, msg) BY DEF WithFrame
        <3> QED BY <2>4, <3>2, <3>3
    <2>8. Begins(h[m].done, h[n + 1].done)
        <3>1. h[m].done \in Seq(Msgs) /\ h[n].done \in Seq(Msgs) BY <1>2, <2>2
        <3> QED BY <2>3, <2>6, <3>1, BeginsAppend
    <2>9. Begins(h[m].told, h[n + 1].told)
        <3>1. h[m].told \in Seq(Msgs) /\ h[n].told \in Seq(Msgs) BY <1>2, <2>2
        <3> QED BY <2>3, <2>7, <3>1, BeginsAppend
    <2> QED BY <2>2, <2>8, <2>9
<1>5. \A d \in Nat : d \in T
    <2> HIDE DEF T
    <2> QED BY <1>3, <1>4, SetInduction
<1>6. ASSUME NEW n \in m..Len(s) PROVE P(n)
    <2>1. n - m \in Nat /\ m + (n - m) = n /\ n <= Len(s) BY <1>1
    <2>2. n - m \in T BY <1>5, <2>1
    <2> QED BY <2>1, <2>2
<1> QED BY <1>6

-----------------------------------------------------------------------------
(* What is still on its way through the loop.                                *)

(* V is a sequence of values: the first n of them have left the loop, the    *)
(* others are, in order, those of the closures of the kind S in the loop q.  *)
Piped(n, q, S, val, V) ==
    /\ n \in 0..Len(V)
    /\ \E p \in [(n + 1)..Len(V) -> 1..Len(q)] :
         /\ \A i, j \in (n + 1)..Len(V) : i < j => p[i] < p[j]
         /\ \A i \in (n + 1)..Len(V) : q[p[i]] \in S /\ V[i] = val[q[p[i]]]
         /\ \A m \in 1..Len(q) : q[m] \in S => \E i \in (n + 1)..Len(V) : p[i] = m

(* At first there are no values and no closures.                             *)
LEMMA PipedEmpty ==
    ASSUME NEW S, NEW val
    PROVE  Piped(0, <<>>, S, val, <<>>)
<1> DEFINE q == <<>>
<1>1. Len(q) = 0 OBVIOUS
<1> HIDE DEF q
<1> DEFINE p == [i \in (0 + 1)..Len(q) |-> i]
<1>2. \A i : i \notin (0 + 1)..Len(q) /\ i \notin 1..Len(q) BY <1>1
<1>3. p \in [(0 + 1)..Len(q) -> 1..Len(q)] BY <1>2
<1> HIDE DEF p
<1>4. 0 \in 0..Len(q) BY <1>1
<1>5. Piped(0, q, S, val, q) BY <1>2, <1>3, <1>4 DEF Piped
<1> QED BY <1>5 DEF q

(* A closure of the kind is put on the loop, with one more value.            *)
LEMMA PipedIn ==
    ASSUME NEW S, NEW val, NEW R, NEW V \in Seq(R), NEW q \in Seq(Tasks), NEW n,
           NEW x \in Tasks, x \in S, NEW v \in R, v = val[x], Piped(n, q, S, val, V)
    PROVE  Piped(n, Append(q, x), S, val, Append(V, v))
<1> DEFINE r == Append(q, x)
           W == Append(V, v)
           a == Len(q) + 1
           b == Len(V) + 1
<1>1. PICK p \in [(n + 1)..Len(V) -> 1..Len(q)] :
        /\ \A i, j \in (n + 1)..Len(V) : i < j => p[i] < p[j]
        /\ \A i \in (n + 1)..Len(V) : q[p[i]] \in S /\ V[i] = val[q[p[i]]]
        /\ \A m \in 1..Len(q) : q[m] \in S => \E i \in (n + 1)..Len(V) : p[i] = m
    BY DEF Piped
<1>2. /\ n \in 0..Len(V) /\ Len(V) \in Nat /\ Len(q) \in Nat BY DEF Piped
<1>3. /\ Len(r) = a /\ r[a] = x /\ \A i \in 1..Len(q) : r[i] = q[i] BY AppendFacts
<1>4. /\ Len(W) = b /\ W[b] = v /\ \A i \in 1..Len(V) : W[i] = V[i] OBVIOUS
<1> HIDE DEF r, W
<1> DEFINE g == [i \in (n + 1)..b |-> IF i <= Len(V) THEN p[i] ELSE a]
<1>5. \A i \in (n + 1)..b : \/ /\ i \in (n + 1)..Len(V) /\ g[i] = p[i] /\ p[i] \in 1..Len(q)
                               /\ i \in 1..Len(V)
                            \/ i = b /\ g[i] = a
    BY <1>2
<1>6. g \in [(n + 1)..b -> 1..a] BY <1>2
<1>7. \A i \in (n + 1)..Len(V) : i \in (n + 1)..b /\ g[i] = p[i] BY <1>2
<1>8. b \in (n + 1)..b /\ g[b] = a BY <1>2
<1> HIDE DEF g
<1>9. \A i, j \in (n + 1)..b : i < j => g[i] < g[j]
    <2> SUFFICES ASSUME NEW i \in (n + 1)..b, NEW j \in (n + 1)..b, i < j PROVE g[i] < g[j]
        OBVIOUS
    <2>1. i \in (n + 1)..Len(V) BY <1>2
    <2>2. g[i] = p[i] /\ p[i] \in 1..Len(q) BY <1>7, <2>1
    <2>3. CASE j = b BY <1>2, <1>8, <2>2, <2>3
    <2>4. CASE j # b BY <1>1, <1>5, <2>1, <2>2, <2>4
    <2> QED BY <2>3, <2>4
<1>10. \A i \in (n + 1)..b : r[g[i]] \in S /\ W[i] = val[r[g[i]]] BY <1>1, <1>3, <1>4, <1>5
<1>11. \A m \in 1..a : r[m] \in S => \E i \in (n + 1)..b : g[i] = m
    <2> SUFFICES ASSUME NEW m \in 1..a, r[m] \in S PROVE \E i \in (n + 1)..b : g[i] = m OBVIOUS
    <2>1. CASE m = a BY <1>8, <2>1
    <2>2. CASE m # a
        <3>1. m \in 1..Len(q) BY <1>2, <2>2
        <3>2. PICK i \in (n + 1)..Len(V) : p[i] = m BY <1>1, <1>3, <3>1
        <3> QED BY <1>7, <3>2
    <2> QED BY <2>1, <2>2
<1>12. n \in 0..b BY <1>2
<1>13. Len(r) = a /\ Len(W) = b BY <1>3, <1>4
<1> HIDE DEF a, b
<1>14. Piped(n, r, S, val, W)
    <2>1. g \in [(n + 1)..Len(W) -> 1..Len(r)] BY <1>6, <1>13
    <2>2. /\ \A i, j \in (n + 1)..Len(W) : i < j => g[i] < g[j]
          /\ \A i \in (n + 1)..Len(W) : r[g[i]] \in S /\ W[i] = val[r[g[i]]]
        BY <1>9, <1>10, <1>13
    <2>3. \A m \in 1..Len(r) : r[m] \in S => \E i \in (n + 1)..Len(W) : g[i] = m
        BY <1>11, <1>13
    <2> QED BY <1>12, <1>13, <2>1, <2>2, <2>3 DEF Piped
<1> QED BY <1>14 DEF r, W

(* A closure of another kind is put on the loop.                             *)
LEMMA PipedOut ==
    ASSUME NEW S, NEW val, NEW R, NEW V \in Seq(R), NEW q \in Seq(Tasks), NEW n,
           NEW x \in Tasks, x \notin S, Piped(n, q, S, val, V)
    PROVE  Piped(n, Append(q, x), S, val, V)
<1> DEFINE r == Append(q, x)
           a == Len(q) + 1
<1>1. PICK p \in [(n + 1)..Len(V) -> 1..Len(q)] :
        /\ \A i, j \in (n + 1)..Len(V) : i < j => p[i] < p[j]
        /\ \A i \in (n + 1)..Len(V) : q[p[i]] \in S /\ V[i] = val[q[p[i]]]
        /\ \A m \in 1..Len(q) : q[m] \in S => \E i \in (n + 1)..Len(V) : p[i] = m
    BY DEF Piped
<1>2. n \in 0..Len(V) /\ Len(V) \in Nat /\ Len(q) \in Nat BY DEF Piped
<1>3. Len(r) = a /\ r[a] = x /\ \A i \in 1..Len(q) : r[i] = q[i] BY AppendFacts
<1> HIDE DEF r
<1>4. p \in [(n + 1)..Len(V) -> 1..a] BY <1>2
<1>5. \A i \in (n + 1)..Len(V) : r[p[i]] \in S /\ V[i] = val[r[p[i]]] BY <1>1, <1>3
<1>6. \A m \in 1..a : r[m] \in S => m \in 1..Len(q) BY <1>2, <1>3
<1>7. \A m \in 1..a : r[m] \in S => \E i \in (n + 1)..Len(V) : p[i] = m BY <1>1, <1>3, <1>6
<1>8. Len(r) = a BY <1>3
<1> HIDE DEF a
<1>9. Piped(n, r, S, val, V)
    <2>1. p \in [(n + 1)..Len(V) -> 1..Len(r)] BY <1>4, <1>8
    <2>2. \A m \in 1..Len(r) : r[m] \in S => \E i \in (n + 1)..Len(V) : p[i] = m
        BY <1>7, <1>8
    <2> QED BY <1>1, <1>2, <1>5, <2>1, <2>2 DEF Piped
<1> QED BY <1>9 DEF r

(* A closure of the kind is taken off the loop: it has the next value.       *)
LEMMA PipedNext ==
    ASSUME NEW S, NEW val, NEW R, NEW V \in Seq(R), NEW q \in Seq(Tasks), q # <<>>, NEW n,
           q[1] \in S, Piped(n, q, S, val, V)
    PROVE  /\ n + 1 \in 1..Len(V) /\ V[n + 1] = val[q[1]]
           /\ Piped(n + 1, Tail(q), S, val, V)
<1> DEFINE r == Tail(q)
<1>1. PICK p \in [(n + 1)..Len(V) -> 1..Len(q)] :
        /\ \A i, j \in (n + 1)..Len(V) : i < j => p[i] < p[j]
        /\ \A i \in (n + 1)..Len(V) : q[p[i]] \in S /\ V[i] = val[q[p[i]]]
        /\ \A m \in 1..Len(q) : q[m] \in S => \E i \in (n + 1)..Len(V) : p[i] = m
    BY DEF Piped
<1>2. n \in 0..Len(V) /\ Len(V) \in Nat /\ Len(q) \in Nat /\ Len(q) > 0 BY TailFacts DEF Piped
<1>3. Len(r) = Len(q) - 1 /\ \A i \in 1..(Len(q) - 1) : r[i] = q[i + 1] BY TailFacts
<1> HIDE DEF r
<1>4. 1 \in 1..Len(q) BY <1>2
<1>5. PICK k \in (n + 1)..Len(V) : p[k] = 1 BY <1>1, <1>4
<1>6. n + 1 \in (n + 1)..Len(V) /\ n + 1 \in 1..Len(V) BY <1>2, <1>5
<1>7. p[n + 1] = 1
    <2>1. CASE k = n + 1 BY <1>5, <2>1
    <2>2. CASE n + 1 < k
        <3>1. p[n + 1] < 1 /\ p[n + 1] \in 1..Len(q) BY <1>1, <1>5, <1>6, <2>2
        <3> QED BY <1>2, <3>1
    <2> QED BY <1>2, <1>5, <2>1, <2>2
<1>8. V[n + 1] = val[q[1]] BY <1>1, <1>6, <1>7
<1> DEFINE N == n + 1
           g == [i \in (N + 1)..Len(V) |-> p[i] - 1]
<1>9. \A i \in (N + 1)..Len(V) :
        /\ i \in (n + 1)..Len(V) /\ p[i] \in 2..Len(q) /\ g[i] = p[i] - 1
        /\ g[i] \in 1..(Len(q) - 1) /\ r[g[i]] = q[p[i]]
    <2> SUFFICES ASSUME NEW i \in (N + 1)..Len(V)
                 PROVE  /\ i \in (n + 1)..Len(V) /\ p[i] \in 2..Len(q) /\ g[i] = p[i] - 1
                        /\ g[i] \in 1..(Len(q) - 1) /\ r[g[i]] = q[p[i]]
        OBVIOUS
    <2>1. i \in (n + 1)..Len(V) /\ n + 1 < i BY <1>2
    <2>2. 1 < p[i] /\ p[i] \in 1..Len(q) BY <1>1, <1>6, <1>7, <2>1
    <2>3. p[i] \in 2..Len(q) /\ g[i] = p[i] - 1 /\ g[i] \in 1..(Len(q) - 1) /\ g[i] + 1 = p[i]
        BY <1>2, <2>2
    <2>4. r[g[i]] = q[g[i] + 1] BY <1>3, <2>3
    <2> QED BY <2>1, <2>3, <2>4
<1>10. g \in [(N + 1)..Len(V) -> 1..Len(r)] BY <1>3, <1>9
<1> HIDE DEF g
<1>11. \A i, j \in (N + 1)..Len(V) : i < j => g[i] < g[j]
    <2> SUFFICES ASSUME NEW i \in (N + 1)..Len(V), NEW j \in (N + 1)..Len(V), i < j
                 PROVE  g[i] < g[j]
        OBVIOUS
    <2>1. p[i] < p[j] /\ p[i] \in 2..Len(q) /\ p[j] \in 2..Len(q) BY <1>1, <1>9
    <2>2. g[i] = p[i] - 1 /\ g[j] = p[j] - 1 BY <1>9
    <2> QED BY <2>1, <2>2
<1>12. \A i \in (N + 1)..Len(V) : r[g[i]] \in S /\ V[i] = val[r[g[i]]] BY <1>1, <1>9
<1>13. \A m \in 1..Len(r) : r[m] \in S => \E i \in (N + 1)..Len(V) : g[i] = m
    <2> SUFFICES ASSUME NEW m \in 1..Len(r), r[m] \in S
                 PROVE  \E i \in (N + 1)..Len(V) : g[i] = m
        OBVIOUS
    <2>1. m + 1 \in 1..Len(q) /\ m + 1 # 1 /\ r[m] = q[m + 1] /\ (m + 1) - 1 = m BY <1>2, <1>3
    <2>2. PICK i \in (n + 1)..Len(V) : p[i] = m + 1 BY <1>1, <2>1
    <2>3. i # n + 1 BY <1>7, <2>1, <2>2
    <2>4. i \in (N + 1)..Len(V) BY <1>2, <2>3
    <2> QED BY <1>9, <2>1, <2>2, <2>4
<1>14. N \in 0..Len(V) BY <1>6
<1>15. Piped(N, r, S, val, V) BY <1>10, <1>11, <1>12, <1>13, <1>14 DEF Piped
<1> QED BY <1>6, <1>8, <1>15 DEF r

(* A closure of another kind is taken off the loop.                          *)
LEMMA PipedSkip ==
    ASSUME NEW S, NEW val, NEW R, NEW V \in Seq(R), NEW q \in Seq(Tasks), q # <<>>, NEW n,
           q[1] \notin S, Piped(n, q, S, val, V)
    PROVE  Piped(n, Tail(q), S, val, V)
<1> DEFINE r == Tail(q)
<1>1. PICK p \in [(n + 1)..Len(V) -> 1..Len(q)] :
        /\ \A i, j \in (n + 1)..Len(V) : i < j => p[i] < p[j]
        /\ \A i \in (n + 1)..Len(V) : q[p[i]] \in S /\ V[i] = val[q[p[i]]]
        /\ \A m \in 1..Len(q) : q[m] \in S => \E i \in (n + 1)..Len(V) : p[i] = m
    BY DEF Piped
<1>2. n \in 0..Len(V) /\ Len(V) \in Nat /\ Len(q) \in Nat /\ Len(q) > 0 BY TailFacts DEF Piped
<1>3. Len(r) = Len(q) - 1 /\ \A i \in 1..(Len(q) - 1) : r[i] = q[i + 1] BY TailFacts
<1> HIDE DEF r
<1> DEFINE g == [i \in (n + 1)..Len(V) |-> p[i] - 1]
<1>4. \A i \in (n + 1)..Len(V) :
        /\ p[i] \in 2..Len(q) /\ g[i] = p[i] - 1
        /\ g[i] \in 1..(Len(q) - 1) /\ r[g[i]] = q[p[i]]
    <2> SUFFICES ASSUME NEW i \in (n + 1)..Len(V)
                 PROVE  /\ p[i] \in 2..Len(q) /\ g[i] = p[i] - 1
                        /\ g[i] \in 1..(Len(q) - 1) /\ r[g[i]] = q[p[i]]
        OBVIOUS
    <2>1. p[i] # 1 /\ p[i] \in 1..Len(q) BY <1>1
    <2>2. p[i] \in 2..Len(q) /\ g[i] = p[i] - 1 /\ g[i] \in 1..(Len(q) - 1) /\ g[i] + 1 = p[i]
        BY <1>2, <2>1
    <2>3. r[g[i]] = q[g[i] + 1] BY <1>3, <2>2
    <2> QED BY <2>2, <2>3
<1>5. g \in [(n + 1)..Len(V) -> 1..Len(r)] BY <1>3, <1>4
<1> HIDE DEF g
<1>6. \A i, j \in (n + 1)..Len(V) : i < j => g[i] < g[j]
    <2> SUFFICES ASSUME NEW i \in (n + 1)..Len(V), NEW j \in (n + 1)..Len(V), i < j
                 PROVE  g[i] < g[j]
        OBVIOUS
    <2>1. p[i] < p[j] /\ p[i] \in 2..Len(q) /\ p[j] \in 2..Len(q) BY <1>1, <1>4
    <2>2. g[i] = p[i] - 1 /\ g[j] = p[j] - 1 BY <1>4
    <2> QED BY <2>1, <2>2
<1>7. \A i \in (n + 1)..Len(V) : r[g[i]] \in S /\ V[i] = val[r[g[i]]] BY <1>1, <1>4
<1>8. \A m \in 1..Len(r) : r[m] \in S => \E i \in (n + 1)..Len(V) : g[i] = m
    <2> SUFFICES ASSUME NEW m \in 1..Len(r), r[m] \in S
                 PROVE  \E i \in (n + 1)..Len(V) : g[i] = m
        OBVIOUS
    <2>1. m + 1 \in 1..Len(q) /\ r[m] = q[m + 1] /\ (m + 1) - 1 = m BY <1>2, <1>3
    <2>2. PICK i \in (n + 1)..Len(V) : p[i] = m + 1 BY <1>1, <2>1
    <2> QED BY <1>4, <2>1, <2>2
<1> QED BY <1>2, <1>5, <1>6, <1>7, <1>8 DEF Piped, r

(* The closures of the two hops, what they carry, and the chunks that went   *)
(* on the loop read as frames.                                               *)
FragmentTasks == {x \in Tasks : x.t = "fragment"}
AssembleTasks == {x \in Tasks : x.t = "assemble"}
DeliverTasks == {x \in Tasks : x.t = "deliver" /\ Readable(x.chunk)}
MsgOf(m) == [data |-> m.data, isBinary |-> m.isBinary]
ChunkOf == [x \in Tasks |-> x.chunk]
MessageOf == [x \in Tasks |-> MsgOf(x.chunk)]

(* Up(H, n): what the first n chunks make up; Open(H, n): the last of them was*)
(* not final.                                                                *)
FramesOf(H) == [i \in 1..Len(H) |-> FrameOf(H[i])]
Up(H, n) == Heard(FramesOf(H))[n]
Open(H, n) == n > 0 /\ ~H[n].isFinal

(* H are the chunks received so far, of which k were put together.  All of   *)
(* them are fragments, or are on the way to be; the rest of them is on the   *)
(* loop to be put together.                                                  *)
Pipe(q, fr, H, k) ==
    /\ Piped(Len(fr), q, FragmentTasks, ChunkOf, H)
    /\ \A i \in 1..Len(fr) : H[i] = fr[i]
    /\ Piped(k, q, AssembleTasks, ChunkOf, H)

(* Without a limit the sequence is the message that goes on after them, and  *)
(* the readable ones before it are delivered or on the way.                  *)
Tell(q, dl, fs, H, k) ==
    /\ fs = IF Open(H, k)
            THEN [some |-> TRUE, isBinary |-> Up(H, k).isBinary, data |-> Up(H, k).data]
            ELSE NoSequence
    /\ Piped(Len(dl), q, DeliverTasks, MessageOf, Up(H, k).told)
    /\ \A i \in 1..Len(dl) : Up(H, k).told[i] = MsgOf(dl[i])

(* A chunk is a first one if the one before it was final.                    *)
FirstInv(H) == \A i \in 1..Len(H) : H[i].isFirst = ~Open(H, i - 1)

(* What the parser of an open connection knows of the chunks.                *)
RxInv(H) ==
    /\ rx.owedAFin = rx.continuationPossible
    /\ parse = "payload" => rx.left > 0
    /\ lrs = "established" => parse # "lost"
    /\ (lrs = "established" /\ parse = "new") => ~rx.first /\ rx.owedAFin = Open(H, Len(H))
    /\ (lrs = "established" /\ parse = "payload") =>
         /\ rx.op \in DataOps
         /\ rx.first = (rx.op # "continuation" /\ rx.payload = <<>>)
         /\ rx.owedAFin = ~rx.final
         /\ Open(H, Len(H)) = (rx.op = "continuation" \/ rx.payload # <<>>)
         /\ rx.op # "continuation" => rx.isBinary = (rx.op = "binary")

(* How far the chunks, as frames of their own, are ahead of the frames.      *)
Ahead(g, w, op, payload) ==
    /\ (payload # <<>> /\ op # "continuation") => g.data = payload /\ g.isBinary = (op = "binary")
    /\ op = "continuation" => g.data = w.data \o payload /\ g.isBinary = w.isBinary

(* Between frames they agree with them.                                      *)
WireInv(H) ==
    /\ Up(H, Len(H)).done = Heard(wire)[Len(wire)].done
    /\ Up(H, Len(H)).told = Heard(wire)[Len(wire)].told
    /\ (lrs = "established" /\ (parse = "new" \/ rx.payload = <<>>)) =>
         /\ Up(H, Len(H)).data = Heard(wire)[Len(wire)].data
         /\ Up(H, Len(H)).isBinary = Heard(wire)[Len(wire)].isBinary
    /\ (lrs = "established" /\ parse = "payload") =>
         Ahead(Up(H, Len(H)), Heard(wire)[Len(wire)], rx.op, rx.payload)

(* What is on the loop, and what the owner has of it.                        *)
Onward(H, k) ==
    /\ Pipe(loop, fragments, H, k)
    /\ connect.maxMessageSize = NoLimit => Tell(loop, delivered, frameSequence, H, k)

(* All that is known of the chunks H, of which k were put together.          *)
Flow(H, k) == FirstInv(H) /\ RxInv(H) /\ WireInv(H) /\ Onward(H, k)

(* The callbacks given to a connect() on the loop see every message.         *)
SeenInv == connect.onLoop => callbacks = "set" /\ \A i \in DOMAIN delivered : delivered[i].seen

(* The inductive invariant.                                                  *)
MessagesInv == (\E H \in Seq(Chunks), k \in Nat : Flow(H, k)) /\ SeenInv

(* A chunk read as a frame.                                                  *)
LEMMA FrameOfType ==
    ASSUME NEW c \in Chunks
    PROVE  /\ FrameOf(c) \in WireFrames /\ FrameOf(c).fin = c.isFinal
           /\ FrameOf(c).payload = c.data
           /\ FrameOf(c).op = "continuation" <=> ~c.isFirst
           /\ c.isFirst => (FrameOf(c).op = "binary") = c.isBinary
<1>1. c.data \in Bytes /\ c.isBinary \in BOOLEAN /\ c.isFirst \in BOOLEAN /\ c.isFinal \in BOOLEAN
    BY DEF Chunks
<1> QED BY <1>1 DEF FrameOf, WireFrames, DataOps

(* What chunks make up, one by one.                                          *)
LEMMA UpType ==
    ASSUME NEW H \in Seq(Chunks)
    PROVE  /\ FramesOf(H) \in Seq(WireFrames) /\ Len(FramesOf(H)) = Len(H) /\ Len(H) \in Nat
           /\ \A i \in 1..Len(H) : FramesOf(H)[i] = FrameOf(H[i]) /\ H[i] \in Chunks
           /\ Up(H, 0) = NoMessages
           /\ \A n \in 0..Len(H) : /\ Up(H, n) \in Accs /\ Up(H, n).data \in Bytes
                                   /\ Up(H, n).isBinary \in BOOLEAN
                                   /\ Up(H, n).done \in Seq(Msgs) /\ Up(H, n).told \in Seq(Msgs)
           /\ \A n \in 1..Len(H) : Up(H, n) = WithFrame(Up(H, n - 1), FrameOf(H[n]))
<1>1. Len(H) \in Nat /\ \A i \in 1..Len(H) : H[i] \in Chunks OBVIOUS
<1> DEFINE s == FramesOf(H)
<1>2. s \in [1..Len(H) -> WireFrames] BY <1>1, FrameOfType DEF FramesOf
<1>3. s \in Seq(WireFrames) /\ Len(s) = Len(H) BY <1>1, <1>2
<1>4. \A i \in 1..Len(H) : s[i] = FrameOf(H[i]) BY DEF FramesOf
<1> HIDE DEF s
<1>5. /\ Heard(s) \in [0..Len(s) -> Accs] /\ Heard(s)[0] = NoMessages
      /\ \A n \in 1..Len(s) : Heard(s)[n] = WithFrame(Heard(s)[n - 1], s[n])
    BY <1>3, HeardFacts
<1>6. \A n : Up(H, n) = Heard(s)[n] BY DEF Up, s
<1>7. \A n \in 0..Len(H) : Up(H, n) \in Accs BY <1>3, <1>5, <1>6
<1>8. \A n \in 0..Len(H) : /\ Up(H, n).data \in Bytes /\ Up(H, n).isBinary \in BOOLEAN
                           /\ Up(H, n).done \in Seq(Msgs) /\ Up(H, n).told \in Seq(Msgs)
    BY <1>7 DEF Accs
<1>9. \A n \in 1..Len(H) : Up(H, n) = WithFrame(Up(H, n - 1), FrameOf(H[n]))
    BY <1>3, <1>4, <1>5, <1>6
<1>10. Up(H, 0) = NoMessages BY <1>5, <1>6
<1> QED BY <1>1, <1>3, <1>4, <1>7, <1>8, <1>9, <1>10 DEF s

(* One more chunk.                                                           *)
LEMMA UpAppend ==
    ASSUME NEW H \in Seq(Chunks), NEW c \in Chunks
    PROVE  /\ Append(H, c) \in Seq(Chunks) /\ Len(Append(H, c)) = Len(H) + 1
           /\ \A n \in 0..Len(H) : Up(Append(H, c), n) = Up(H, n)
           /\ Up(Append(H, c), Len(H) + 1) = WithFrame(Up(H, Len(H)), FrameOf(c))
           /\ \A n \in 0..Len(H) : Open(Append(H, c), n) = Open(H, n)
           /\ Open(Append(H, c), Len(H) + 1) = ~c.isFinal
           /\ \A n \in 1..Len(H) : Append(H, c)[n] = H[n]
           /\ Append(H, c)[Len(H) + 1] = c
<1> DEFINE K == Append(H, c)
<1>1. /\ K \in Seq(Chunks) /\ Len(K) = Len(H) + 1 /\ Len(H) \in Nat
      /\ \A n \in 1..Len(H) : K[n] = H[n]
      /\ K[Len(H) + 1] = c
    OBVIOUS
<1> HIDE DEF K
<1> DEFINE s == FramesOf(H)
           t == FramesOf(K)
<1>2. /\ s \in Seq(WireFrames) /\ Len(s) = Len(H)
      /\ t \in Seq(WireFrames) /\ Len(t) = Len(H) + 1
      /\ \A i \in 1..Len(H) : s[i] = FrameOf(H[i])
      /\ \A i \in 1..(Len(H) + 1) : t[i] = FrameOf(K[i])
    BY <1>1, UpType
<1>3. \A n : Up(H, n) = Heard(s)[n] /\ Up(K, n) = Heard(t)[n] BY DEF Up
<1> HIDE DEF s, t
<1>4. \A i \in 1..Len(H) : s[i] = t[i] BY <1>1, <1>2
<1>5. \A n \in 0..Len(H) : Heard(s)[n] = Heard(t)[n]
    <2>1. Len(H) <= Len(s) /\ Len(H) <= Len(t) BY <1>1, <1>2
    <2> QED BY <1>1, <1>2, <1>4, <2>1, HeardAgree
<1>6. Up(K, Len(H) + 1) = WithFrame(Up(H, Len(H)), FrameOf(c))
    <2>1. Len(H) + 1 \in 1..Len(K) /\ (Len(H) + 1) - 1 = Len(H) /\ Len(H) \in 0..Len(H)
        BY <1>1
    <2>2. Up(K, Len(H) + 1) = WithFrame(Up(K, Len(H)), FrameOf(K[Len(H) + 1]))
        BY <1>1, <2>1, UpType
    <2> QED BY <1>1, <1>3, <1>5, <2>1, <2>2
<1>7. \A n \in 0..Len(H) : Open(K, n) = Open(H, n)
    <2> SUFFICES ASSUME NEW n \in 0..Len(H) PROVE Open(K, n) = Open(H, n) OBVIOUS
    <2>1. n > 0 => K[n] = H[n] BY <1>1
    <2> QED BY <2>1 DEF Open
<1>8. Open(K, Len(H) + 1) = ~c.isFinal BY <1>1 DEF Open
<1> QED BY <1>1, <1>3, <1>5, <1>6, <1>7, <1>8 DEF K

(* The message that a final frame completes is told if it is readable.       *)
LEMMA WithTold ==
    ASSUME NEW acc \in Accs, NEW f \in WireFrames, f.fin
    PROVE  LET w == WithFrame(acc, f)
               msg == [data |-> w.data, isBinary |-> w.isBinary]
           IN  w.told = IF Readable(msg) THEN Append(acc.told, msg) ELSE acc.told
BY DEF WithFrame

(* The kinds of closures.                                                    *)
LEMMA Kinds ==
    ASSUME NEW x \in Tasks
    PROVE  /\ x \in FragmentTasks <=> x.t = "fragment"
           /\ x \in AssembleTasks <=> x.t = "assemble"
           /\ x \in DeliverTasks <=> (x.t = "deliver" /\ Readable(x.chunk))
           /\ ChunkOf[x] = x.chunk /\ x.chunk \in Chunks
           /\ MessageOf[x] = MsgOf(x.chunk) /\ MsgOf(x.chunk) \in Msgs
<1>1. x.chunk \in Chunks BY DEF Tasks
<1>2. MsgOf(x.chunk) \in Msgs BY <1>1 DEF MsgOf, Msgs, Chunks
<1> QED BY <1>1, <1>2 DEF FragmentTasks, AssembleTasks, DeliverTasks, ChunkOf, MessageOf

(* A closure of another kind is put on the loop.                             *)
LEMMA PipePut ==
    ASSUME NEW q \in Seq(Tasks), NEW H \in Seq(Chunks), NEW k, NEW fr, NEW dl, NEW fs,
           NEW x \in Tasks, x.t \notin {"fragment", "assemble", "deliver"},
           Pipe(q, fr, H, k)
    PROVE  /\ Pipe(Append(q, x), fr, H, k)
           /\ Tell(q, dl, fs, H, k) => Tell(Append(q, x), dl, fs, H, k)
<1>1. k \in 0..Len(H) BY DEF Pipe, Piped
<1>2. Up(H, k).told \in Seq(Msgs) BY <1>1, UpType
<1>3. x \notin FragmentTasks /\ x \notin AssembleTasks /\ x \notin DeliverTasks BY Kinds
<1>4. Pipe(Append(q, x), fr, H, k) BY <1>3, PipedOut DEF Pipe
<1>5. ASSUME Tell(q, dl, fs, H, k) PROVE Tell(Append(q, x), dl, fs, H, k)
    <2>1. Piped(Len(dl), q, DeliverTasks, MessageOf, Up(H, k).told) BY <1>5 DEF Tell
    <2>2. Piped(Len(dl), Append(q, x), DeliverTasks, MessageOf, Up(H, k).told)
        BY <1>2, <1>3, <2>1, PipedOut
    <2> QED BY <1>5, <2>2 DEF Tell
<1> QED BY <1>4, <1>5

(* And one is taken off it.                                                  *)
LEMMA PipeTake ==
    ASSUME NEW q \in Seq(Tasks), NEW H \in Seq(Chunks), NEW k, NEW fr, NEW dl, NEW fs,
           q # <<>>, q[1].t \notin {"fragment", "assemble", "deliver"},
           Pipe(q, fr, H, k)
    PROVE  /\ Pipe(Tail(q), fr, H, k)
           /\ Tell(q, dl, fs, H, k) => Tell(Tail(q), dl, fs, H, k)
<1>1. k \in 0..Len(H) BY DEF Pipe, Piped
<1>2. Up(H, k).told \in Seq(Msgs) BY <1>1, UpType
<1>3. q[1] \notin FragmentTasks /\ q[1] \notin AssembleTasks /\ q[1] \notin DeliverTasks
    BY Kinds, TailFacts
<1>4. Pipe(Tail(q), fr, H, k) BY <1>3, PipedSkip DEF Pipe
<1>5. ASSUME Tell(q, dl, fs, H, k) PROVE Tell(Tail(q), dl, fs, H, k)
    <2>1. Piped(Len(dl), q, DeliverTasks, MessageOf, Up(H, k).told) BY <1>5 DEF Tell
    <2>2. Piped(Len(dl), Tail(q), DeliverTasks, MessageOf, Up(H, k).told)
        BY <1>2, <1>3, <2>1, PipedSkip
    <2> QED BY <1>5, <2>2 DEF Tell
<1> QED BY <1>4, <1>5

(* A chunk goes on the loop, once for each hop.                              *)
LEMMA PipeReceive ==
    ASSUME NEW q \in Seq(Tasks), NEW H \in Seq(Chunks), NEW k, NEW fr, NEW dl, NEW fs,
           NEW c \in Chunks, Len(fr) \in Nat, Pipe(q, fr, H, k)
    PROVE  LET r == Append(Append(q, Task("fragment", c)), Task("assemble", c))
           IN  /\ Pipe(r, fr, Append(H, c), k)
               /\ Tell(q, dl, fs, H, k) => Tell(r, dl, fs, Append(H, c), k)
<1> DEFINE x == Task("fragment", c)
           y == Task("assemble", c)
           p == Append(q, x)
           r == Append(p, y)
           K == Append(H, c)
<1>1. /\ x \in Tasks /\ x.t = "fragment" /\ x.chunk = c
      /\ y \in Tasks /\ y.t = "assemble" /\ y.chunk = c
    BY TaskType
<1> HIDE DEF x, y
<1>2. /\ x \in FragmentTasks /\ x \notin AssembleTasks /\ x \notin DeliverTasks
      /\ y \notin FragmentTasks /\ y \in AssembleTasks /\ y \notin DeliverTasks
      /\ ChunkOf[x] = c /\ ChunkOf[y] = c
    BY <1>1, Kinds
<1>3. p \in Seq(Tasks) BY <1>1
<1>4. K \in Seq(Chunks) /\ Len(H) \in Nat /\ Len(K) = Len(H) + 1 BY UpAppend
<1>5. Piped(Len(fr), r, FragmentTasks, ChunkOf, K)
    <2>1. Piped(Len(fr), q, FragmentTasks, ChunkOf, H) BY DEF Pipe
    <2>2. Piped(Len(fr), p, FragmentTasks, ChunkOf, K) BY <1>1, <1>2, <2>1, PipedIn
    <2> HIDE DEF p, K
    <2> QED BY <1>1, <1>2, <1>3, <1>4, <2>2, PipedOut
<1>6. Piped(k, r, AssembleTasks, ChunkOf, K)
    <2>1. Piped(k, q, AssembleTasks, ChunkOf, H) BY DEF Pipe
    <2>2. Piped(k, p, AssembleTasks, ChunkOf, H) BY <1>1, <1>2, <2>1, PipedOut
    <2> HIDE DEF p
    <2> QED BY <1>1, <1>2, <1>3, <2>2, PipedIn
<1>7. Len(fr) \in 0..Len(H) /\ k \in 0..Len(H) BY DEF Pipe, Piped
<1>8. \A i \in 1..Len(fr) : K[i] = fr[i]
    <2>1. \A i \in 1..Len(fr) : H[i] = fr[i] /\ i \in 1..Len(H) BY <1>4, <1>7 DEF Pipe
    <2> QED BY <2>1, UpAppend
<1>9. Pipe(r, fr, K, k)
    <2> HIDE DEF r, K
    <2> QED BY <1>5, <1>6, <1>8 DEF Pipe
<1>10. ASSUME Tell(q, dl, fs, H, k) PROVE Tell(r, dl, fs, K, k)
    <2>1. Up(K, k) = Up(H, k) /\ Open(K, k) = Open(H, k) BY <1>7, UpAppend
    <2>2. Up(H, k).told \in Seq(Msgs) BY <1>7, UpType
    <2>3. Piped(Len(dl), q, DeliverTasks, MessageOf, Up(H, k).told) BY <1>10 DEF Tell
    <2>4. Piped(Len(dl), p, DeliverTasks, MessageOf, Up(H, k).told)
        BY <1>1, <1>2, <2>2, <2>3, PipedOut
    <2>5. Piped(Len(dl), r, DeliverTasks, MessageOf, Up(H, k).told)
        <3> HIDE DEF p
        <3> QED BY <1>1, <1>2, <1>3, <2>2, <2>4, PipedOut
    <2> HIDE DEF r, K
    <2> QED BY <1>10, <2>1, <2>5 DEF Tell
<1> QED BY <1>9, <1>10 DEF x, y

(* A fragment is handed to the owner.                                        *)
LEMMA PipeFragment ==
    ASSUME NEW q \in Seq(Tasks), q # <<>>, NEW H \in Seq(Chunks), NEW k, NEW fr \in Seq(Chunks),
           NEW dl, NEW fs, q[1].t = "fragment", Pipe(q, fr, H, k)
    PROVE  /\ Pipe(Tail(q), Append(fr, q[1].chunk), H, k)
           /\ Tell(q, dl, fs, H, k) => Tell(Tail(q), dl, fs, H, k)
<1> DEFINE c == q[1].chunk
           gr == Append(fr, c)
           r == Tail(q)
<1>1. q[1] \in Tasks BY TailFacts
<1>2. /\ q[1] \in FragmentTasks /\ q[1] \notin AssembleTasks /\ q[1] \notin DeliverTasks
      /\ ChunkOf[q[1]] = c /\ c \in Chunks
    BY <1>1, Kinds
<1>3. k \in 0..Len(H) BY DEF Pipe, Piped
<1>4. /\ Len(fr) + 1 \in 1..Len(H) /\ H[Len(fr) + 1] = c
      /\ Piped(Len(fr) + 1, r, FragmentTasks, ChunkOf, H)
    <2>1. Piped(Len(fr), q, FragmentTasks, ChunkOf, H) BY DEF Pipe
    <2>2. /\ Len(fr) + 1 \in 1..Len(H) /\ H[Len(fr) + 1] = ChunkOf[q[1]]
          /\ Piped(Len(fr) + 1, Tail(q), FragmentTasks, ChunkOf, H)
        <3> DEFINE n == Len(fr)
                   f == q[1]
        <3>1. f \in FragmentTasks /\ Piped(n, q, FragmentTasks, ChunkOf, H) BY <1>2, <2>1
        <3> HIDE DEF n
        <3>2. /\ n + 1 \in 1..Len(H) /\ H[n + 1] = ChunkOf[q[1]]
              /\ Piped(n + 1, Tail(q), FragmentTasks, ChunkOf, H)
            BY ONLY q \in Seq(Tasks), q # <<>>, H \in Seq(Chunks), <3>1, PipedNext
        <3> QED BY <3>2 DEF n
    <2> QED BY <1>2, <2>2
<1>5. Piped(k, r, AssembleTasks, ChunkOf, H) BY <1>2, PipedSkip DEF Pipe
<1>6. /\ Len(gr) = Len(fr) + 1 /\ Len(fr) \in Nat /\ gr[Len(fr) + 1] = c
      /\ \A i \in 1..Len(fr) : gr[i] = fr[i]
    BY <1>2
<1> HIDE DEF c, gr, r
<1>7. \A i \in 1..Len(gr) : H[i] = gr[i]
    <2>1. \A i \in 1..Len(fr) : H[i] = fr[i] BY DEF Pipe
    <2>2. \A i \in 1..Len(gr) : i = Len(fr) + 1 \/ i \in 1..Len(fr) BY <1>6
    <2> QED BY <1>4, <1>6, <2>1, <2>2
<1>8. Pipe(r, gr, H, k) BY <1>4, <1>5, <1>6, <1>7 DEF Pipe
<1>9. ASSUME Tell(q, dl, fs, H, k) PROVE Tell(r, dl, fs, H, k)
    <2>1. Piped(Len(dl), q, DeliverTasks, MessageOf, Up(H, k).told)
          /\ Up(H, k).told \in Seq(Msgs)
        BY <1>3, <1>9, UpType DEF Tell
    <2>2. Piped(Len(dl), r, DeliverTasks, MessageOf, Up(H, k).told)
        BY <1>2, <2>1, PipedSkip DEF r
    <2> QED BY <1>9, <2>2 DEF Tell
<1> QED BY <1>8, <1>9 DEF r, gr, c

(* A message is handed to the owner, or turns out not to be readable.        *)
LEMMA PipeDeliver ==
    ASSUME NEW q \in Seq(Tasks), q # <<>>, NEW H \in Seq(Chunks), NEW k, NEW fr, NEW fs,
           NEW D, NEW dl \in Seq(D), NEW d \in D, MsgOf(d) = MsgOf(q[1].chunk),
           q[1].t = "deliver", Pipe(q, fr, H, k)
    PROVE  /\ Pipe(Tail(q), fr, H, k)
           /\ (Readable(q[1].chunk) /\ Tell(q, dl, fs, H, k)) =>
                Tell(Tail(q), Append(dl, d), fs, H, k)
           /\ (~Readable(q[1].chunk) /\ Tell(q, dl, fs, H, k)) => Tell(Tail(q), dl, fs, H, k)
<1> DEFINE el == Append(dl, d)
           r == Tail(q)
           T == Up(H, k).told
<1>1. q[1] \in Tasks BY TailFacts
<1>2. /\ q[1] \notin FragmentTasks /\ q[1] \notin AssembleTasks
      /\ q[1] \in DeliverTasks <=> Readable(q[1].chunk)
      /\ MessageOf[q[1]] = MsgOf(q[1].chunk)
    BY <1>1, Kinds
<1>3. k \in 0..Len(H) BY DEF Pipe, Piped
<1>4. T \in Seq(Msgs) BY <1>3, UpType
<1>5. Pipe(r, fr, H, k) BY <1>2, PipedSkip DEF Pipe
<1>6. /\ Len(el) = Len(dl) + 1 /\ Len(dl) \in Nat /\ el[Len(dl) + 1] = d
      /\ \A i \in 1..Len(dl) : el[i] = dl[i]
    OBVIOUS
<1> HIDE DEF el, r, T
<1>7. ASSUME Readable(q[1].chunk), Tell(q, dl, fs, H, k) PROVE Tell(r, el, fs, H, k)
    <2>1. Piped(Len(dl), q, DeliverTasks, MessageOf, T) BY <1>7 DEF Tell, T
    <2>2. /\ T[Len(dl) + 1] = MsgOf(d) /\ Piped(Len(dl) + 1, r, DeliverTasks, MessageOf, T)
        <3> DEFINE n == Len(dl)
        <3>1. q[1] \in DeliverTasks /\ Piped(n, q, DeliverTasks, MessageOf, T)
            BY <1>2, <1>7, <2>1
        <3> HIDE DEF n
        <3>2. /\ T[n + 1] = MessageOf[q[1]] /\ Piped(n + 1, Tail(q), DeliverTasks, MessageOf, T)
            BY ONLY q \in Seq(Tasks), q # <<>>, <1>4, <3>1, PipedNext
        <3> QED BY <1>2, <3>2 DEF n, r
    <2>3. \A i \in 1..Len(dl) : T[i] = MsgOf(dl[i]) BY <1>7 DEF Tell, T
    <2>4. \A i \in 1..Len(el) : i = Len(dl) + 1 \/ i \in 1..Len(dl) BY <1>6
    <2>5. \A i \in 1..Len(el) : T[i] = MsgOf(el[i]) BY <1>6, <2>2, <2>3, <2>4
    <2> QED BY <1>6, <1>7, <2>2, <2>5 DEF Tell, T
<1>8. ASSUME ~Readable(q[1].chunk), Tell(q, dl, fs, H, k) PROVE Tell(r, dl, fs, H, k)
    <2>1. Piped(Len(dl), q, DeliverTasks, MessageOf, T) BY <1>8 DEF Tell, T
    <2>2. Piped(Len(dl), r, DeliverTasks, MessageOf, T)
        BY <1>2, <1>4, <1>8, <2>1, PipedSkip DEF r
    <2> QED BY <1>8, <2>2 DEF Tell, T
<1> QED BY <1>5, <1>7, <1>8 DEF r, el

(* The next chunk comes off the loop to be put together.                     *)
LEMMA PipeAssemble ==
    ASSUME NEW q \in Seq(Tasks), q # <<>>, NEW H \in Seq(Chunks), NEW k, NEW fr,
           q[1].t = "assemble", Pipe(q, fr, H, k)
    PROVE  /\ k \in Nat /\ k \in 0..Len(H) /\ k + 1 \in 1..Len(H) /\ H[k + 1] = q[1].chunk
           /\ Pipe(Tail(q), fr, H, k + 1)
<1>1. q[1] \in Tasks BY TailFacts
<1>2. /\ q[1] \notin FragmentTasks /\ q[1] \in AssembleTasks /\ ChunkOf[q[1]] = q[1].chunk
    BY <1>1, Kinds
<1>3. /\ Piped(Len(fr), q, FragmentTasks, ChunkOf, H) /\ Piped(k, q, AssembleTasks, ChunkOf, H)
      /\ \A i \in 1..Len(fr) : H[i] = fr[i]
    BY DEF Pipe
<1>4. k \in 0..Len(H) /\ k \in Nat BY <1>3 DEF Piped
<1>5. /\ k + 1 \in 1..Len(H) /\ H[k + 1] = ChunkOf[q[1]]
      /\ Piped(k + 1, Tail(q), AssembleTasks, ChunkOf, H)
    BY ONLY q \in Seq(Tasks), q # <<>>, H \in Seq(Chunks), <1>2, <1>3, PipedNext
<1>6. Piped(Len(fr), Tail(q), FragmentTasks, ChunkOf, H)
    BY ONLY q \in Seq(Tasks), q # <<>>, H \in Seq(Chunks), <1>2, <1>3, PipedSkip
<1>7. Pipe(Tail(q), fr, H, k + 1) BY <1>3, <1>5, <1>6 DEF Pipe
<1> QED BY <1>2, <1>4, <1>5, <1>7

(* What has been told, whatever becomes of the chunk: nothing is added by a  *)
(* chunk that is not final or ends a message that is not readable, ...       *)
LEMMA TellPart ==
    ASSUME NEW q \in Seq(Tasks), q # <<>>, NEW H \in Seq(Chunks), NEW k \in 0..Len(H),
           NEW dl, NEW fs, NEW gs, q[1].t = "assemble", Tell(q, dl, fs, H, k),
           Up(H, k + 1).told = Up(H, k).told,
           gs = IF Open(H, k + 1)
                THEN [some |-> TRUE, isBinary |-> Up(H, k + 1).isBinary,
                      data |-> Up(H, k + 1).data]
                ELSE NoSequence
    PROVE  Tell(Tail(q), dl, gs, H, k + 1)
<1> DEFINE T == Up(H, k).told
<1>1. q[1] \in Tasks BY TailFacts
<1>2. q[1] \notin DeliverTasks BY <1>1, Kinds
<1>3. T \in Seq(Msgs) BY UpType
<1>4. Piped(Len(dl), q, DeliverTasks, MessageOf, T) /\ \A i \in 1..Len(dl) : T[i] = MsgOf(dl[i])
    BY DEF Tell
<1> HIDE DEF T
<1>5. Piped(Len(dl), Tail(q), DeliverTasks, MessageOf, T)
    BY ONLY q \in Seq(Tasks), q # <<>>, <1>2, <1>3, <1>4, PipedSkip
<1>6. T = Up(H, k + 1).told BY DEF T
<1> QED BY <1>4, <1>5, <1>6 DEF Tell

(* ... and a final one puts its message on the loop, to be told if readable. *)
LEMMA TellFinal ==
    ASSUME NEW q \in Seq(Tasks), q # <<>>, NEW H \in Seq(Chunks), NEW k \in 0..Len(H),
           NEW dl, NEW fs, q[1].t = "assemble", Tell(q, dl, fs, H, k), Len(dl) \in Nat,
           NEW x \in Tasks, x.t = "deliver", ~Open(H, k + 1),
           Up(H, k + 1).told = IF Readable(x.chunk) THEN Append(Up(H, k).told, MsgOf(x.chunk))
                                                    ELSE Up(H, k).told
    PROVE  Tell(Append(Tail(q), x), dl, NoSequence, H, k + 1)
<1> DEFINE T == Up(H, k).told
           W == Up(H, k + 1).told
           r == Tail(q)
<1>1. q[1] \in Tasks /\ r \in Seq(Tasks) BY TailFacts
<1>2. q[1] \notin DeliverTasks BY <1>1, Kinds
<1>3. T \in Seq(Msgs) /\ Len(T) \in Nat BY UpType
<1>4. Piped(Len(dl), q, DeliverTasks, MessageOf, T) /\ \A i \in 1..Len(dl) : T[i] = MsgOf(dl[i])
    BY DEF Tell
<1>5. W = IF Readable(x.chunk) THEN Append(T, MsgOf(x.chunk)) ELSE T OBVIOUS
<1> HIDE DEF T, W
<1>6. Piped(Len(dl), r, DeliverTasks, MessageOf, T)
    BY ONLY q \in Seq(Tasks), q # <<>>, <1>2, <1>3, <1>4, PipedSkip
<1> HIDE DEF r
<1>7. /\ x \in DeliverTasks <=> Readable(x.chunk)
      /\ MessageOf[x] = MsgOf(x.chunk) /\ MsgOf(x.chunk) \in Msgs
    BY Kinds
<1> DEFINE v == MsgOf(x.chunk)
<1>8. v \in Msgs /\ v = MessageOf[x] BY <1>7
<1> HIDE DEF v
<1>9. /\ Piped(Len(dl), Append(r, x), DeliverTasks, MessageOf, W)
      /\ \A i \in 1..Len(dl) : W[i] = MsgOf(dl[i])
    <2>1. CASE Readable(x.chunk)
        <3>1. x \in DeliverTasks BY <1>7, <2>1
        <3>2. W = Append(T, v) BY <1>5, <2>1 DEF v
        <3>3. Piped(Len(dl), Append(r, x), DeliverTasks, MessageOf, Append(T, v))
            BY ONLY <1>1, <1>3, <1>6, <1>8, <3>1, x \in Tasks, PipedIn
        <3>4. Len(dl) \in 0..Len(T) BY <1>6 DEF Piped
        <3>5. \A i \in 1..Len(dl) : i \in 1..Len(T) BY <1>3, <3>4
        <3>6. \A i \in 1..Len(T) : Append(T, v)[i] = T[i] BY <1>3, <1>8
        <3> QED BY <1>4, <3>2, <3>3, <3>5, <3>6
    <2>2. CASE ~Readable(x.chunk)
        <3>1. x \notin DeliverTasks /\ W = T BY <1>5, <1>7, <2>2
        <3>2. Piped(Len(dl), Append(r, x), DeliverTasks, MessageOf, T)
            BY ONLY <1>1, <1>3, <1>6, <3>1, x \in Tasks, PipedOut
        <3> QED BY <1>4, <3>1, <3>2
    <2> QED BY <2>1, <2>2
<1> QED BY <1>9 DEF Tell, W, r

(* What one more chunk adds.                                                 *)
LEMMA UpNext ==
    ASSUME NEW H \in Seq(Chunks), NEW k \in 0..Len(H), k + 1 \in 1..Len(H), FirstInv(H)
    PROVE  LET c == H[k + 1]
               a == Up(H, k)
               w == Up(H, k + 1)
           IN  /\ c \in Chunks /\ a \in Accs /\ w \in Accs
               /\ c.isFirst = ~Open(H, k) /\ Open(H, k + 1) = ~c.isFinal
               /\ w.data = IF Open(H, k) THEN a.data \o c.data ELSE c.data
               /\ w.isBinary = IF Open(H, k) THEN a.isBinary ELSE c.isBinary
               /\ ~c.isFinal => w.told = a.told
               /\ c.isFinal => w.told = IF Readable(MsgOf(w)) THEN Append(a.told, MsgOf(w))
                                                              ELSE a.told
<1> DEFINE c == H[k + 1]
           a == Up(H, k)
           w == Up(H, k + 1)
           f == FrameOf(c)
<1>1. Len(H) \in Nat /\ k \in Nat /\ (k + 1) - 1 = k /\ k + 1 > 0 /\ k + 1 \in 0..Len(H)
    OBVIOUS
<1>2. c \in Chunks /\ a \in Accs /\ w \in Accs /\ w = WithFrame(a, f) BY <1>1, UpType
<1>3. /\ f \in WireFrames /\ f.fin = c.isFinal /\ f.payload = c.data
      /\ f.op = "continuation" <=> ~c.isFirst
      /\ c.isFirst => (f.op = "binary") = c.isBinary
    BY <1>2, FrameOfType
<1>4. c.isFirst = ~Open(H, k) BY <1>1 DEF FirstInv
<1>5. Open(H, k + 1) = ~c.isFinal BY <1>1 DEF Open
<1>6. c.isFirst \in BOOLEAN /\ Open(H, k) \in BOOLEAN BY <1>2 DEF Chunks, Open
<1> HIDE DEF c, a, w, f
<1>7. /\ w.data = (IF f.op = "continuation" THEN a.data \o f.payload ELSE f.payload)
      /\ w.isBinary = (IF f.op = "continuation" THEN a.isBinary ELSE f.op = "binary")
      /\ ~f.fin => w.told = a.told
    BY <1>2, <1>3, WithType
<1>8. f.fin => w.told = IF Readable(MsgOf(w)) THEN Append(a.told, MsgOf(w)) ELSE a.told
    BY <1>2, <1>3, WithTold DEF MsgOf
<1>9. w.data = IF Open(H, k) THEN a.data \o c.data ELSE c.data BY <1>3, <1>4, <1>6, <1>7
<1>10. w.isBinary = IF Open(H, k) THEN a.isBinary ELSE c.isBinary
    BY <1>3, <1>4, <1>6, <1>7
<1> QED BY <1>2, <1>3, <1>4, <1>5, <1>7, <1>8, <1>9, <1>10 DEF c, a, w

(* The sequence takes a chunk as the message does.                           *)
LEMMA AppendedUp ==
    ASSUME TypeOK, NEW H \in Seq(Chunks), NEW k \in 0..Len(H), k + 1 \in 1..Len(H), FirstInv(H),
           Tell(loop, delivered, frameSequence, H, k)
    PROVE  /\ Appended(H[k + 1]).data = Up(H, k + 1).data
           /\ Appended(H[k + 1]).isBinary = Up(H, k + 1).isBinary
           /\ Appended(H[k + 1]) = [some |-> TRUE, isBinary |-> Up(H, k + 1).isBinary,
                                    data |-> Up(H, k + 1).data]
<1> DEFINE c == H[k + 1]
           a == Up(H, k)
           w == Up(H, k + 1)
<1>1. /\ c \in Chunks
      /\ w.data = IF Open(H, k) THEN a.data \o c.data ELSE c.data
      /\ w.isBinary = IF Open(H, k) THEN a.isBinary ELSE c.isBinary
    BY UpNext
<1>2. frameSequence = IF Open(H, k) THEN [some |-> TRUE, isBinary |-> a.isBinary, data |-> a.data]
                                    ELSE NoSequence
    BY DEF Tell
<1> HIDE DEF c, a, w
<1>3. c.data \in Seq(Int) BY <1>1 DEF Chunks, Bytes
<1>4. <<>> \o c.data = c.data BY <1>3
<1>5. CASE Open(H, k)
    <2>1. frameSequence.some /\ frameSequence.isBinary = a.isBinary /\ frameSequence.data = a.data
        BY <1>2, <1>5
    <2> QED BY <1>1, <1>5, <2>1 DEF Appended, c, w
<1>6. CASE ~Open(H, k)
    <2>1. ~frameSequence.some /\ frameSequence.data = <<>> BY <1>2, <1>6 DEF NoSequence
    <2> QED BY <1>1, <1>4, <1>6, <2>1 DEF Appended, c, w
<1> QED BY <1>5, <1>6

(* Readable looks at nothing else.                                           *)
LEMMA ReadableSame ==
    ASSUME NEW a, NEW b, MsgOf(a) = MsgOf(b)
    PROVE  /\ Readable(a) <=> Readable(b)
           /\ Readable(MsgOf(a)) <=> Readable(a)
           /\ a.data = b.data /\ a.isBinary = b.isBinary
<1>1. MsgOf(a).data = a.data /\ MsgOf(b).data = b.data BY DEF MsgOf
<1>2. MsgOf(a).isBinary = a.isBinary /\ MsgOf(b).isBinary = b.isBinary BY DEF MsgOf
<1> QED BY <1>1, <1>2 DEF Readable

(* The second closure of RECEIVE.                                            *)
LEMMA AssembleFlow ==
    ASSUME TypeOK, NEW H \in Seq(Chunks), NEW k, FirstInv(H), Pipe(loop, fragments, H, k),
           RunAssemble
    PROVE  /\ Pipe(loop', fragments, H, k + 1) /\ k + 1 \in Nat
           /\ (connect.maxMessageSize = NoLimit /\ Tell(loop, delivered, frameSequence, H, k))
                => Tell(loop', delivered, frameSequence', H, k + 1)
<1>1. /\ loop \in Seq(Tasks)
      /\ delivered \in Seq([data : Bytes, isBinary : BOOLEAN, seen : BOOLEAN])
      /\ loop # <<>> /\ Head(loop).t = "assemble"
    BY DEF TypeOK, Tasks, RunAssemble, Running
<1>2. Head(loop) = loop[1] /\ loop[1] \in Tasks /\ Tail(loop) \in Seq(Tasks)
    BY <1>1, TailFacts
<1> DEFINE c == loop[1].chunk
           r == Tail(loop)
           w == Up(H, k + 1)
<1>3. /\ k \in Nat /\ k \in 0..Len(H) /\ k + 1 \in 1..Len(H) /\ H[k + 1] = c
      /\ Pipe(r, fragments, H, k + 1)
    BY <1>1, <1>2, PipeAssemble
<1>4. ASSUME NEW x \in Tasks, x.t = "deliver" PROVE Pipe(Append(r, x), fragments, H, k + 1)
    <2>1. x \notin FragmentTasks /\ x \notin AssembleTasks BY <1>4, Kinds
    <2> HIDE DEF r
    <2>2. r \in Seq(Tasks) BY <1>2 DEF r
    <2> QED BY <1>3, <2>1, <2>2, PipedOut DEF Pipe
<1>5. /\ c \in Chunks /\ w \in Accs /\ c.isFirst = ~Open(H, k) /\ Open(H, k + 1) = ~c.isFinal
      /\ w.data = IF Open(H, k) THEN Up(H, k).data \o c.data ELSE c.data
      /\ w.isBinary = IF Open(H, k) THEN Up(H, k).isBinary ELSE c.isBinary
      /\ ~c.isFinal => w.told = Up(H, k).told
      /\ c.isFinal => w.told = IF Readable(MsgOf(w)) THEN Append(Up(H, k).told, MsgOf(w))
                                                     ELSE Up(H, k).told
    BY <1>3, UpNext
<1>6. IF c.isFirst /\ c.isFinal THEN AssembleSimple(c) ELSE AssemblePart(c)
    BY <1>2 DEF RunAssemble
<1>7. Len(delivered) \in Nat BY <1>1
<1> HIDE DEF c, r, w
<1>8. CASE c.isFirst /\ c.isFinal
    <2> DEFINE x == Task("deliver", c)
    <2>1. x \in Tasks /\ x.t = "deliver" /\ x.chunk = c BY <1>5, TaskType
    <2>2. /\ frameSequence' = NoSequence
          /\ \/ Readable(c) /\ loop' = Append(r, x)
             \/ ~Readable(c) /\ loop' = r
        BY <1>6, <1>8 DEF AssembleSimple, r
    <2> HIDE DEF x
    <2>3. Pipe(loop', fragments, H, k + 1) BY <1>3, <1>4, <2>1, <2>2
    <2>4. ASSUME Tell(loop, delivered, frameSequence, H, k)
          PROVE  Tell(loop', delivered, frameSequence', H, k + 1)
        <3>1. ~Open(H, k) /\ ~Open(H, k + 1) BY <1>5, <1>8 DEF Open
        <3>2. MsgOf(w) = MsgOf(c) BY <1>5, <3>1 DEF MsgOf
        <3>3. Readable(MsgOf(w)) <=> Readable(c) BY <3>2, ReadableSame
        <3>4. w.told = IF Readable(c) THEN Append(Up(H, k).told, MsgOf(c)) ELSE Up(H, k).told
            BY <1>5, <1>8, <3>2, <3>3
        <3>5. CASE Readable(c)
            <4>1. Tell(Append(Tail(loop), x), delivered, NoSequence, H, k + 1)
                BY <1>1, <1>2, <1>3, <1>7, <2>1, <2>4, <3>1, <3>4, TellFinal DEF w
            <4> QED BY <2>2, <3>5, <4>1 DEF r
        <3>6. CASE ~Readable(c)
            <4>1. Up(H, k + 1).told = Up(H, k).told BY <3>4, <3>6 DEF w
            <4>2. Tell(Tail(loop), delivered, NoSequence, H, k + 1)
                BY <1>1, <1>2, <1>3, <2>4, <3>1, <4>1, TellPart
            <4> QED BY <2>2, <3>6, <4>2 DEF r
        <3> QED BY <3>5, <3>6
    <2> QED BY <1>3, <2>3, <2>4
<1>9. CASE ~(c.isFirst /\ c.isFinal)
    <2> DEFINE s == Appended(c)
               d == Chunk(s.data, s.isBinary, FALSE, TRUE)
               x == Task("deliver", d)
    <2>1. s.data \in Bytes /\ s.isBinary \in BOOLEAN BY <1>5, AppendedType
    <2>2. d \in Chunks /\ MsgOf(d) = [data |-> s.data, isBinary |-> s.isBinary]
        BY <2>1, ChunkType DEF Chunk, MsgOf
    <2>3. \/ TooLarge(Len(s.data)) /\ frameSequence' = NoSequence /\ loop' = r
          \/ ~c.isFinal /\ frameSequence' = s /\ loop' = r
          \/ c.isFinal /\ frameSequence' = NoSequence /\ loop' = Append(r, x)
        BY <1>6, <1>9 DEF AssemblePart, r
    <2> HIDE DEF d, s
    <2>4. x \in Tasks /\ x.t = "deliver" /\ x.chunk = d BY <2>2, TaskType
    <2> HIDE DEF x
    <2>5. Pipe(loop', fragments, H, k + 1) BY <1>3, <1>4, <2>3, <2>4
    <2>6. ASSUME connect.maxMessageSize = NoLimit, Tell(loop, delivered, frameSequence, H, k)
          PROVE  Tell(loop', delivered, frameSequence', H, k + 1)
        <3>1. ~TooLarge(Len(s.data)) BY <2>6 DEF TooLarge
        <3>2. /\ s.data = w.data /\ s.isBinary = w.isBinary
              /\ s = [some |-> TRUE, isBinary |-> w.isBinary, data |-> w.data]
            BY <1>3, <2>6, AppendedUp DEF s, w
        <3>3. CASE ~c.isFinal /\ frameSequence' = s /\ loop' = r
            <4>1. Open(H, k + 1) /\ Up(H, k + 1).told = Up(H, k).told BY <1>5, <3>3 DEF w
            <4>2. Tell(Tail(loop), delivered, s, H, k + 1)
                BY <1>1, <1>2, <1>3, <2>6, <3>2, <4>1, TellPart DEF w
            <4> QED BY <3>3, <4>2 DEF r
        <3>4. CASE c.isFinal /\ frameSequence' = NoSequence /\ loop' = Append(r, x)
            <4>1. ~Open(H, k + 1) BY <1>5, <3>4 DEF Open
            <4>2. MsgOf(w) = MsgOf(x.chunk) BY <2>2, <2>4, <3>2 DEF MsgOf
            <4>3. Readable(MsgOf(w)) <=> Readable(x.chunk) BY <4>2, ReadableSame
            <4>4. w.told = IF Readable(x.chunk) THEN Append(Up(H, k).told, MsgOf(x.chunk))
                                                ELSE Up(H, k).told
                BY <1>5, <3>4, <4>2, <4>3
            <4>5. Tell(Append(Tail(loop), x), delivered, NoSequence, H, k + 1)
                BY <1>1, <1>2, <1>3, <1>7, <2>4, <2>6, <4>1, <4>4, TellFinal DEF w
            <4> QED BY <3>4, <4>5 DEF r
        <3> QED BY <2>3, <3>1, <3>3, <3>4
    <2> QED BY <1>3, <2>5, <2>6
<1> QED BY <1>8, <1>9

(* c is the next chunk of a frame of which payload has been received: g are  *)
(* the chunks before it, w the frames before that one.                       *)
NextOf(g, w, op, payload, c) ==
    /\ g.done = w.done /\ g.told = w.told
    /\ c.isFirst = (op # "continuation" /\ payload = <<>>)
    /\ op # "continuation" => c.isBinary = (op = "binary")
    /\ Ahead(g, w, op, payload)

(* h are the chunks with it.                                                 *)
OneMore(h, w, op, payload, c) ==
    /\ h \in Accs
    /\ ~c.isFinal => h.done = w.done /\ h.told = w.told
    /\ op = "continuation" => h.data = w.data \o (payload \o c.data) /\ h.isBinary = w.isBinary
    /\ op # "continuation" => h.data = payload \o c.data /\ h.isBinary = (op = "binary")

(* A chunk of a frame: the chunks get ahead of the frames, ...               *)
LEMMA ChunkAhead ==
    ASSUME NEW g \in Accs, NEW w \in Accs, NEW op \in DataOps,
           NEW payload \in Bytes, NEW c \in Chunks, NextOf(g, w, op, payload, c),
           NEW h, h = WithFrame(g, FrameOf(c))
    PROVE  OneMore(h, w, op, payload, c)
<1> USE DEF OneMore
<1> DEFINE f == FrameOf(c)
<1>1. /\ f \in WireFrames /\ f.fin = c.isFinal /\ f.payload = c.data
      /\ f.op = "continuation" <=> ~c.isFirst
      /\ c.isFirst => (f.op = "binary") = c.isBinary
    BY FrameOfType
<1>2. /\ g.done = w.done /\ g.told = w.told
      /\ c.isFirst = (op # "continuation" /\ payload = <<>>)
      /\ op # "continuation" => c.isBinary = (op = "binary")
      /\ Ahead(g, w, op, payload)
    BY DEF NextOf
<1>3. /\ h \in Accs
      /\ h.data = (IF f.op = "continuation" THEN g.data \o f.payload ELSE f.payload)
      /\ h.isBinary = (IF f.op = "continuation" THEN g.isBinary ELSE f.op = "binary")
      /\ ~f.fin => h.done = g.done /\ h.told = g.told
    BY <1>1, WithType
<1> HIDE DEF f
<1>4. c.data \in Seq(Int) /\ payload \in Seq(Int) /\ w.data \in Seq(Int)
    BY DEF Chunks, Bytes, Accs
<1>5. <<>> \o c.data = c.data /\ (w.data \o payload) \o c.data = w.data \o (payload \o c.data)
    <2> DEFINE x == c.data
               y == payload
               z == w.data
    <2>1. x \in Seq(Int) /\ y \in Seq(Int) /\ z \in Seq(Int) BY <1>4
    <2> HIDE DEF x, y, z
    <2>2. <<>> \o x = x BY <2>1, ConcatEmptySeq
    <2>3. (z \o y) \o x = z \o (y \o x) BY <2>1, ConcatAssociative
    <2> QED BY <2>2, <2>3 DEF x, y, z
<1>6. CASE op = "continuation"
    <2>1. f.op = "continuation" BY <1>1, <1>2, <1>6
    <2>2. g.data = w.data \o payload /\ g.isBinary = w.isBinary BY <1>2, <1>6 DEF Ahead
    <2> QED BY <1>1, <1>2, <1>3, <1>5, <1>6, <2>1, <2>2
<1>7. CASE op # "continuation" /\ payload = <<>>
    <2>1. f.op # "continuation" /\ (f.op = "binary") = (op = "binary") BY <1>1, <1>2, <1>7
    <2> QED BY <1>1, <1>2, <1>3, <1>5, <1>7, <2>1
<1>8. CASE op # "continuation" /\ payload # <<>>
    <2>1. f.op = "continuation" BY <1>1, <1>2, <1>8
    <2>2. g.data = payload /\ g.isBinary = (op = "binary") BY <1>2, <1>8 DEF Ahead
    <2> QED BY <1>1, <1>2, <1>3, <1>5, <1>8, <2>1, <2>2
<1> QED BY <1>6, <1>7, <1>8

(* h is w with the frame f.                                                  *)
Caught(h, w, f) == f \in WireFrames /\ h \in Accs /\ h = WithFrame(w, f)

(* ... until the last one of it is there, and the frame f is heard.          *)
LEMMA ChunkLast ==
    ASSUME NEW g \in Accs, NEW w \in Accs, NEW op \in DataOps,
           NEW payload \in Bytes, NEW c \in Chunks, NextOf(g, w, op, payload, c),
           NEW h, h = WithFrame(g, FrameOf(c)),
           NEW f, f = [op |-> op, fin |-> c.isFinal, payload |-> payload \o c.data]
    PROVE  Caught(h, w, f)
<1> DEFINE e == FrameOf(c)
           v == WithFrame(w, f)
<1>1. payload \o c.data \in Bytes /\ c.isFinal \in BOOLEAN BY DEF Chunks, Bytes
<1>2. f \in WireFrames /\ f.fin = c.isFinal /\ f.op = op /\ f.payload = payload \o c.data
    BY <1>1 DEF WireFrames
<1>3. /\ h \in Accs
      /\ ~c.isFinal => h.done = w.done /\ h.told = w.told
      /\ op = "continuation" => h.data = w.data \o (payload \o c.data) /\ h.isBinary = w.isBinary
      /\ op # "continuation" => h.data = payload \o c.data /\ h.isBinary = (op = "binary")
    <2>1. OneMore(h, w, op, payload, c) BY ChunkAhead
    <2> QED BY <2>1 DEF OneMore
<1>4. e \in WireFrames /\ e.fin = c.isFinal BY FrameOfType
<1>a. h = WithFrame(g, e) OBVIOUS
<1> HIDE DEF e
<1>5. /\ v \in Accs
      /\ v.data = (IF f.op = "continuation" THEN w.data \o f.payload ELSE f.payload)
      /\ v.isBinary = (IF f.op = "continuation" THEN w.isBinary ELSE f.op = "binary")
      /\ ~f.fin => v.done = w.done /\ v.told = w.told
      /\ f.fin => v.done = Append(w.done, [data |-> v.data, isBinary |-> v.isBinary])
    BY <1>2, WithType
<1>6. e.fin => h.done = Append(g.done, [data |-> h.data, isBinary |-> h.isBinary])
    BY <1>4, <1>a, WithType
<1>7. f.fin => v.told = IF Readable([data |-> v.data, isBinary |-> v.isBinary])
                        THEN Append(w.told, [data |-> v.data, isBinary |-> v.isBinary])
                        ELSE w.told
    BY <1>2, WithTold
<1>8. e.fin => h.told = IF Readable([data |-> h.data, isBinary |-> h.isBinary])
                        THEN Append(g.told, [data |-> h.data, isBinary |-> h.isBinary])
                        ELSE g.told
    BY <1>4, <1>a, WithTold
<1> HIDE DEF v
<1>9. h.data = v.data /\ h.isBinary = v.isBinary BY <1>2, <1>3, <1>5
<1>10. h.done = v.done /\ h.told = v.told
    <2>1. CASE c.isFinal BY <1>2, <1>4, <1>5, <1>6, <1>7, <1>8, <1>9, <2>1 DEF NextOf
    <2>2. CASE ~c.isFinal BY <1>2, <1>3, <1>5, <2>2
    <2> QED BY <2>1, <2>2
<1>11. /\ h = [data |-> h.data, isBinary |-> h.isBinary, done |-> h.done, told |-> h.told]
       /\ v = [data |-> v.data, isBinary |-> v.isBinary, done |-> v.done, told |-> v.told]
    BY <1>3, <1>5 DEF Accs
<1>12. h = v BY <1>9, <1>10, <1>11
<1> QED BY <1>2, <1>3, <1>12 DEF v, Caught

(* An open connection is in a frame, of which payload came before data.      *)
InFrame(H, r, payload, data) ==
    /\ lrs = "established"
    /\ r.payload = payload \o data /\ (r.left > 0 => data # <<>>)
    /\ r.first = (r.op # "continuation" /\ payload = <<>>)
    /\ r.owedAFin = ~r.final /\ r.owedAFin = r.continuationPossible
    /\ Open(H, Len(H)) = (r.op = "continuation" \/ payload # <<>>)
    /\ r.op # "continuation" => r.isBinary = (r.op = "binary")
    /\ Up(H, Len(H)).done = Heard(wire)[Len(wire)].done
    /\ Up(H, Len(H)).told = Heard(wire)[Len(wire)].told
    /\ Ahead(Up(H, Len(H)), Heard(wire)[Len(wire)], r.op, payload)

(* RECEIVE then hands data up.                                               *)
LEMMA ReceiveFlow ==
    ASSUME TypeOK, NEW H \in Seq(Chunks), NEW r \in Rx, NEW payload \in Bytes, NEW data \in Bytes,
           FirstInv(H), SpillData(r, data), InFrame(H, r, payload, data),
           NEW c, c = Chunk(data, r.isBinary, r.first, IsFinalFragment(r)),
           parse' = IF r.left = 0 THEN "new" ELSE "payload"
    PROVE  /\ c \in Chunks /\ Append(H, c) \in Seq(Chunks)
           /\ loop' = Append(Append(loop, Task("fragment", c)), Task("assemble", c))
           /\ FirstInv(Append(H, c)) /\ RxInv(Append(H, c))' /\ WireInv(Append(H, c))'
<1> USE DEF InFrame
<1> DEFINE K == Append(H, c)
           g == Up(H, Len(H))
           w == Heard(wire)[Len(wire)]
           f == [op |-> r.op, fin |-> r.final, payload |-> r.payload]
<1>1. /\ r.op \in DataOps /\ r.first \in BOOLEAN /\ r.isBinary \in BOOLEAN /\ r.final \in BOOLEAN
      /\ r.left \in Nat /\ IsFinalFragment(r) = (r.final /\ r.left = 0)
      /\ r.owedAFin \in BOOLEAN /\ r.continuationPossible \in BOOLEAN /\ r.payload \in Bytes
    BY DEF SpillData, Rx, IsFinalFragment
<1>2. /\ rx' = [r EXCEPT !.first = FALSE] /\ lrs' = lrs
      /\ loop' = loop \o <<Task("fragment", c), Task("assemble", c)>>
      /\ wire' = IF r.left > 0 THEN wire ELSE Append(wire, f)
    BY DEF SpillData, Receive
<1>3. /\ c \in Chunks /\ c.data = data /\ c.isBinary = r.isBinary /\ c.isFirst = r.first
      /\ c.isFinal = (r.final /\ r.left = 0)
    BY <1>1, ChunkType DEF Chunk
<1>4. /\ loop \in Seq(Tasks) /\ wire \in Seq(WireFrames) /\ Len(wire) \in Nat
      /\ Len(wire) \in 0..Len(wire)
    BY DEF TypeOK, Tasks, WireFrames
<1>5. loop' = Append(Append(loop, Task("fragment", c)), Task("assemble", c))
    <2> DEFINE x == Task("fragment", c)
               y == Task("assemble", c)
    <2>1. x \in Tasks /\ y \in Tasks BY <1>3, TaskType
    <2> HIDE DEF x, y
    <2> QED BY <1>2, <1>4, <2>1 DEF x, y
<1>6. /\ K \in Seq(Chunks) /\ Len(K) = Len(H) + 1 /\ Len(H) \in Nat
      /\ Up(K, Len(K)) = WithFrame(g, FrameOf(c)) /\ Open(K, Len(K)) = ~c.isFinal
      /\ \A n \in 0..Len(H) : Open(K, n) = Open(H, n)
      /\ \A n \in 1..Len(H) : K[n] = H[n]
      /\ K[Len(H) + 1] = c
    BY <1>3, UpAppend
<1>7. g \in Accs BY <1>6, UpType
<1>8. w \in Accs BY <1>4, HeardFacts
<1> HIDE DEF K
<1>9. FirstInv(K)
    <2> SUFFICES ASSUME NEW i \in 1..Len(K) PROVE K[i].isFirst = ~Open(K, i - 1) BY DEF FirstInv
    <2>1. CASE i = Len(H) + 1
        <3>1. i - 1 = Len(H) /\ Len(H) \in 0..Len(H) BY <1>6, <2>1
        <3>2. Open(K, i - 1) = Open(H, Len(H)) BY <1>6, <3>1
        <3> QED BY <1>1, <1>3, <1>6, <2>1, <3>2
    <2>2. CASE i # Len(H) + 1
        <3>1. i \in 1..Len(H) /\ i - 1 \in 0..Len(H) BY <1>6, <2>2
        <3>2. H[i].isFirst = ~Open(H, i - 1) BY <3>1 DEF FirstInv
        <3> QED BY <1>6, <3>1, <3>2
    <2> QED BY <2>1, <2>2
<1>10. /\ rx'.first = FALSE /\ rx'.op = r.op /\ rx'.final = r.final /\ rx'.left = r.left
       /\ rx'.payload = r.payload /\ rx'.owedAFin = r.owedAFin /\ rx'.isBinary = r.isBinary
       /\ rx'.continuationPossible = r.continuationPossible
    BY <1>2 DEF Rx
<1>11. NextOf(g, w, r.op, payload, c) BY <1>3 DEF NextOf
<1> DEFINE h == Up(K, Len(K))
<1> HIDE DEF g, w, h
<1>12. /\ h \in Accs /\ (~c.isFinal => h.done = w.done /\ h.told = w.told)
       /\ r.op = "continuation" => h.data = w.data \o r.payload /\ h.isBinary = w.isBinary
       /\ r.op # "continuation" => h.data = r.payload /\ h.isBinary = (r.op = "binary")
    <2>1. h = WithFrame(g, FrameOf(c)) BY <1>6 DEF h
    <2>2. OneMore(h, w, r.op, payload, c)
        BY ONLY <1>1, <1>3, <1>7, <1>8, <1>11, <2>1, payload \in Bytes, ChunkAhead
    <2> QED BY <1>3, <2>2 DEF OneMore
<1> USE DEF g, w, h
<1>13. CASE r.left > 0
    <2>1. /\ parse' = "payload" /\ wire' = wire /\ ~c.isFinal /\ data # <<>>
        BY <1>1, <1>2, <1>3, <1>13
    <2>2. r.payload # <<>> BY <2>1 DEF Bytes
    <2>3. RxInv(K)'
        <3>1. Open(K, Len(K)) BY <1>6, <2>1
        <3>2. (Open(K, Len(K)) = (rx.op = "continuation" \/ rx.payload # <<>>))'
            BY <1>10, <2>2, <3>1
        <3> QED BY <1>1, <1>2, <1>10, <1>13, <2>1, <2>2, <3>2 DEF RxInv
    <2>4. WireInv(K)'
        <3>1. h.done = w.done /\ h.told = w.told BY <1>12, <2>1
        <3>2. Ahead(h, w, r.op, r.payload) BY <1>12 DEF Ahead
        <3> QED BY <1>10, <2>1, <2>2, <3>1, <3>2 DEF WireInv
    <2> QED BY <1>3, <1>5, <1>6, <1>9, <2>3, <2>4 DEF K
<1>14. CASE r.left = 0
    <2>1. parse' = "new" /\ wire' = Append(wire, f) /\ c.isFinal = r.final
        BY <1>1, <1>2, <1>3, <1>14
    <2>2. f \in WireFrames /\ h = WithFrame(w, f)
        <3>1. f = [op |-> r.op, fin |-> c.isFinal, payload |-> payload \o c.data] BY <1>3, <2>1
        <3>2. h = WithFrame(g, FrameOf(c)) BY <1>6
        <3> HIDE DEF f, g, w, h
        <3>3. Caught(h, w, f)
            BY ONLY <1>1, <1>3, <1>7, <1>8, <1>11, <3>1, <3>2, payload \in Bytes, ChunkLast
        <3> QED BY <3>3 DEF Caught
    <2>3. Heard(wire')[Len(wire')] = WithFrame(w, f)
        <3> HIDE DEF f
        <3> QED BY <1>4, <2>1, <2>2, HeardAppend
    <2>4. RxInv(K)'
        <3>1. (Open(K, Len(K)))' = ~r.final BY <1>6, <2>1
        <3> QED BY <1>1, <1>2, <1>10, <2>1, <3>1 DEF RxInv
    <2>5. WireInv(K)' BY <2>1, <2>2, <2>3 DEF WireInv
    <2> QED BY <1>3, <1>5, <1>6, <1>9, <2>4, <2>5 DEF K
<1> QED BY <1>1, <1>13, <1>14

(* A closure that carries no chunk may be put on the loop.                   *)
LEMMA PutFlow ==
    ASSUME TypeOK, NEW H \in Seq(Chunks), NEW k, Onward(H, k),
           \/ loop' = loop
           \/ \E t \in {"markAsClosed", "notify", "close", "setCallbacks"} :
                loop' = Append(loop, Task(t, NoChunk)),
           UNCHANGED <<connect, fragments, delivered, frameSequence>>
    PROVE  Onward(H, k)'
<1>1. CASE loop' = loop BY <1>1 DEF Onward
<1>2. CASE \E t \in {"markAsClosed", "notify", "close", "setCallbacks"} :
             loop' = Append(loop, Task(t, NoChunk))
    <2>1. PICK t \in {"markAsClosed", "notify", "close", "setCallbacks"} :
            loop' = Append(loop, Task(t, NoChunk))
        BY <1>2
    <2> DEFINE x == Task(t, NoChunk)
    <2>2. x \in Tasks /\ x.t = t BY NoChunkType, TaskType
    <2>3. x.t \notin {"fragment", "assemble", "deliver"} BY <2>2
    <2> HIDE DEF x
    <2>4. loop \in Seq(Tasks) BY DEF TypeOK, Tasks
    <2>5. Pipe(loop, fragments, H, k) BY DEF Onward
    <2>6. Pipe(Append(loop, x), fragments, H, k) BY <2>2, <2>3, <2>4, <2>5, PipePut
    <2>7. Tell(loop, delivered, frameSequence, H, k)
            => Tell(Append(loop, x), delivered, frameSequence, H, k)
        BY <2>2, <2>3, <2>4, <2>5, PipePut
    <2>8. loop' = Append(loop, x) BY <2>1 DEF x
    <2> QED BY <2>6, <2>7, <2>8 DEF Onward
<1> QED BY <1>1, <1>2

(* Of a connection that closes little has to be known.                       *)
LEMMA ClosingFlow ==
    ASSUME NEW H \in Seq(Chunks), WireInv(H), UNCHANGED wire, lrs' # "established",
           (rx.owedAFin = rx.continuationPossible)', parse' = "payload" => (rx.left > 0)'
    PROVE  RxInv(H)' /\ WireInv(H)'
BY DEF RxInv, WireInv

(* What the parser keeps after the header of a frame it takes.               *)
LEMMA HeaderFacts ==
    ASSUME TypeOK, NEW f \in Frames, ~Refused(f), rx.owedAFin = rx.continuationPossible
    PROVE  LET r == HeaderState(f)
           IN  /\ r \in Rx /\ r.op = f.op /\ r.final = f.fin /\ r.left = f.len /\ r.payload = <<>>
               /\ r.owedAFin = r.continuationPossible
               /\ f.op \in DataOps => /\ r.first = (f.op # "continuation") /\ r.owedAFin = ~f.fin
                                      /\ (f.op = "continuation") = rx.owedAFin
                                      /\ f.op # "continuation" => r.isBinary = (f.op = "binary")
               /\ f.op \notin DataOps => r.first = rx.first /\ r.owedAFin = rx.owedAFin
<1> DEFINE r == HeaderState(f)
<1>1. f \in Frame BY FramesAssumption
<1>2. /\ f.op \in DataOps \cup ControlOps /\ f.fin \in BOOLEAN BY <1>1 DEF Frame
<1>3. /\ rx.first \in BOOLEAN /\ rx.continuationPossible \in BOOLEAN /\ rx.owedAFin \in BOOLEAN
      /\ rx.isBinary \in BOOLEAN
    BY DEF TypeOK
<1>4. r \in Rx BY HeaderType
<1>5. r.op = f.op /\ r.final = f.fin /\ r.left = f.len /\ r.payload = <<>> BY DEF HeaderState
<1>6. /\ f.op = "continuation" => rx.continuationPossible
      /\ f.op \in {"text", "binary"} => ~rx.owedAFin
    BY DEF Refused
<1>7. /\ r.first = (CASE f.op \in {"text", "binary"} -> TRUE
                      [] f.op = "continuation" -> FALSE
                      [] OTHER -> rx.first)
      /\ r.continuationPossible = (CASE f.op \in DataOps /\ f.fin -> FALSE
                                     [] f.op \in {"text", "binary"} /\ ~f.fin -> TRUE
                                     [] OTHER -> rx.continuationPossible)
      /\ r.owedAFin = (IF f.op \in DataOps THEN ~f.fin ELSE rx.owedAFin)
      /\ r.isBinary = (IF f.op \in {"text", "binary"} THEN f.op = "binary" ELSE rx.isBinary)
    BY DEF HeaderState
<1> HIDE DEF r
<1>8. CASE f.op = "continuation"
    <2>1. f.op \in DataOps /\ f.op \notin {"text", "binary"} BY <1>8 DEF DataOps
    <2>2. r.first = FALSE /\ r.owedAFin = ~f.fin BY <1>7, <1>8, <2>1
    <2>3. r.continuationPossible = ~f.fin BY <1>2, <1>3, <1>6, <1>7, <1>8, <2>1
    <2> QED BY <1>3, <1>4, <1>5, <1>6, <1>8, <2>1, <2>2, <2>3 DEF r
<1>9. CASE f.op \in {"text", "binary"}
    <2>1. f.op \in DataOps /\ f.op # "continuation" BY <1>9 DEF DataOps
    <2>2. r.first = TRUE /\ r.owedAFin = ~f.fin BY <1>7, <1>9, <2>1
    <2>3. r.continuationPossible = ~f.fin BY <1>2, <1>7, <1>9, <2>1
    <2>4. r.isBinary = (f.op = "binary") BY <1>7, <1>9
    <2> QED BY <1>3, <1>4, <1>5, <1>6, <1>9, <2>1, <2>2, <2>3, <2>4 DEF r
<1>10. CASE f.op \in ControlOps
    <2>1. f.op \notin DataOps /\ f.op \notin {"text", "binary"} /\ f.op # "continuation"
        BY <1>10 DEF DataOps, ControlOps
    <2>2. r.first = rx.first BY <1>7, <2>1
    <2>3. r.continuationPossible = rx.continuationPossible /\ r.owedAFin = rx.owedAFin
        BY <1>7, <2>1
    <2> QED BY <1>4, <1>5, <2>1, <2>2, <2>3 DEF r
<1> QED BY <1>2, <1>8, <1>9, <1>10 DEF DataOps

(* RECEIVE passes the chunk on.                                              *)
LEMMA ReceivePass ==
    ASSUME TypeOK, NEW H \in Seq(Chunks), NEW k, Onward(H, k), NEW c \in Chunks,
           loop' = Append(Append(loop, Task("fragment", c)), Task("assemble", c)),
           UNCHANGED <<connect, fragments, delivered, frameSequence>>
    PROVE  Onward(Append(H, c), k)'
<1>1. loop \in Seq(Tasks) /\ fragments \in Seq(Chunks) BY DEF TypeOK, Tasks
<1>2. Len(fragments) \in Nat BY <1>1
<1>3. Pipe(loop, fragments, H, k) BY DEF Onward
<1> DEFINE r == Append(Append(loop, Task("fragment", c)), Task("assemble", c))
<1>4. /\ Pipe(r, fragments, Append(H, c), k)
      /\ Tell(loop, delivered, frameSequence, H, k)
           => Tell(r, delivered, frameSequence, Append(H, c), k)
    BY <1>1, <1>2, <1>3, PipeReceive
<1>5. loop' = r OBVIOUS
<1> HIDE DEF r
<1> QED BY <1>4, <1>5 DEF Onward

(* spill on an open connection hands a chunk up; on one that closes, or with *)
(* a control frame, it leaves the chunks alone.                              *)
LEMMA SpillAside ==
    ASSUME TypeOK, NEW H \in Seq(Chunks), NEW k, Flow(H, k), NEW r \in Rx, NEW data \in Bytes,
           Spill(r, data), UNCHANGED <<connect, fragments, delivered, frameSequence>>,
           r.owedAFin = r.continuationPossible, parse' = "payload" => r.left > 0,
           (lrs = "established" /\ r.op # "close") =>
             /\ r.op \notin DataOps /\ parse = "new" /\ parse' = "new"
             /\ r.first = rx.first /\ r.owedAFin = rx.owedAFin
    PROVE  Flow(H, k)'
<1> DEFINE r1 == [r EXCEPT !.first = FALSE]
<1>1. FirstInv(H) /\ RxInv(H) /\ WireInv(H) /\ Onward(H, k) BY DEF Flow
<1>2. /\ r1 \in Rx /\ r1.first = FALSE /\ r1.owedAFin = r.owedAFin /\ r1.left = r.left
      /\ r1.continuationPossible = r.continuationPossible
    BY DEF Rx
<1> HIDE DEF r1
<1>3. rx.first \in BOOLEAN BY DEF TypeOK
<1>4. CASE SpillClose(r)
    <2>1. /\ rx' = r /\ wire' = wire /\ lrs' # "established"
          /\ loop' = Append(loop, Task("markAsClosed", NoChunk))
        BY <1>4 DEF SpillClose, Kill
    <2>2. Onward(H, k)' BY <1>1, <2>1, PutFlow
    <2>3. RxInv(H)' /\ WireInv(H)' BY <1>1, <2>1, ClosingFlow
    <2> QED BY <1>1, <2>2, <2>3 DEF Flow
<1>5. CASE \/ SpillPing(r) \/ SpillPong(r) \/ (SpillData(r, data) /\ lrs # "established")
    <2>1. /\ rx' \in {r, r1} /\ wire' = wire /\ lrs' = lrs /\ loop' = loop
          /\ lrs = "established" => r.op # "close"
        BY <1>5 DEF SpillPing, SpillPong, SpillData, r1
    <2>2. Onward(H, k)' BY <1>1, <2>1, PutFlow
    <2>3. /\ rx'.owedAFin = rx'.continuationPossible /\ rx'.left = r.left
          /\ rx'.first = r.first \/ rx'.first = FALSE
          /\ rx'.owedAFin = r.owedAFin
        BY <1>2, <2>1
    <2>4. RxInv(H)' /\ WireInv(H)'
        <3>1. CASE lrs = "established"
            <4>1. /\ parse = "new" /\ parse' = "new" /\ r.first = rx.first
                  /\ r.owedAFin = rx.owedAFin
                BY <2>1, <3>1
            <4>2. ~rx.first /\ rx.owedAFin = Open(H, Len(H)) BY <1>1, <3>1, <4>1 DEF RxInv
            <4>3. RxInv(H)' BY <2>1, <2>3, <3>1, <4>1, <4>2 DEF RxInv
            <4>4. WireInv(H)' BY <1>1, <2>1, <3>1, <4>1 DEF WireInv
            <4> QED BY <4>3, <4>4
        <3>2. CASE lrs # "established" BY <1>1, <2>1, <2>3, <3>2, ClosingFlow
        <3> QED BY <3>1, <3>2
    <2> QED BY <1>1, <2>2, <2>4 DEF Flow
<1>6. ~(SpillData(r, data) /\ lrs = "established")
    BY DEF SpillData, DataOps
<1> QED BY <1>4, <1>5, <1>6 DEF Spill

(* The peer's next frame.                                                    *)
LEMMA HeaderFlow ==
    ASSUME TypeOK, NEW H \in Seq(Chunks), NEW k, Flow(H, k), NEW f \in Frames, ParseHeader(f)
    PROVE  \E K \in Seq(Chunks) : Flow(K, k)'
<1>1. PICK r : r = HeaderState(f) OBVIOUS
<1>2. FirstInv(H) /\ RxInv(H) /\ WireInv(H) /\ Onward(H, k) BY DEF Flow
<1>3. parse = "new" /\ UNCHANGED <<connect, fragments, delivered, frameSequence>>
    BY DEF ParseHeader, clientVars, ownerVars
<1>4. rx.owedAFin = rx.continuationPossible BY <1>2 DEF RxInv
<1>5. CASE Refused(f) /\ Kill /\ UNCHANGED <<peerClosed, rx, parse, wire>>
    <2>1. /\ lrs' # "established" /\ loop' = Append(loop, Task("markAsClosed", NoChunk))
          /\ rx' = rx /\ wire' = wire /\ parse' = parse
        BY <1>5 DEF Kill
    <2>2. Onward(H, k)' BY <1>2, <1>3, <2>1, PutFlow
    <2>3. RxInv(H)' /\ WireInv(H)' BY <1>2, <1>3, <1>4, <2>1, ClosingFlow
    <2> QED BY <1>2, <2>2, <2>3 DEF Flow
<1>6. CASE /\ parse' = "lost"
           /\ IF lrs = "established" THEN lrs' = "waiting_to_send_close" /\ UNCHANGED loop
                                     ELSE Kill
           /\ UNCHANGED <<peerClosed, rx, wire>>
    <2>1. /\ lrs' # "established"
          /\ loop' = loop \/ loop' = Append(loop, Task("markAsClosed", NoChunk))
          /\ rx' = rx /\ wire' = wire
        BY <1>6 DEF Kill
    <2>2. Onward(H, k)' BY <1>2, <1>3, <2>1, PutFlow
    <2>3. RxInv(H)' /\ WireInv(H)' BY <1>2, <1>4, <1>6, <2>1, ClosingFlow
    <2> QED BY <1>2, <2>2, <2>3 DEF Flow
<1>7. ASSUME ~Refused(f)
      PROVE  /\ r \in Rx /\ r.op = f.op /\ r.final = f.fin /\ r.left = f.len /\ r.payload = <<>>
             /\ r.owedAFin = r.continuationPossible
             /\ f.op \in DataOps => /\ r.first = (f.op # "continuation") /\ r.owedAFin = ~f.fin
                                    /\ (f.op = "continuation") = rx.owedAFin
                                    /\ f.op # "continuation" => r.isBinary = (f.op = "binary")
             /\ f.op \notin DataOps => r.first = rx.first /\ r.owedAFin = rx.owedAFin
    BY <1>4, <1>7, <1>1, HeaderFacts
<1>8. <<>> \in Bytes /\ <<>> \o <<>> = <<>> BY DEF Bytes
<1>9. f \in Frame /\ f.len \in Nat /\ (f.op \in ControlOps => f.len = 0)
      /\ f.op \in DataOps \cup ControlOps
    BY FramesAssumption DEF Frame
<1> DEFINE g == Up(H, Len(H))
           w == Heard(wire)[Len(wire)]
<1>10. ASSUME lrs = "established"
      PROVE  /\ ~rx.first /\ rx.owedAFin = Open(H, Len(H)) /\ g.done = w.done /\ g.told = w.told
             /\ g.data = w.data /\ g.isBinary = w.isBinary
             /\ \A op : Ahead(g, w, op, <<>>)
    <2>1. /\ ~rx.first /\ rx.owedAFin = Open(H, Len(H)) BY <1>2, <1>3, <1>10 DEF RxInv
    <2>2. /\ g.done = w.done /\ g.told = w.told /\ g.data = w.data /\ g.isBinary = w.isBinary
        BY <1>2, <1>3, <1>10 DEF WireInv
    <2>3. wire \in Seq(WireFrames) /\ Len(wire) \in 0..Len(wire) BY DEF TypeOK, WireFrames
    <2>4. w \in Accs BY <2>3, HeardFacts
    <2>5. w.data \in Seq(Int) BY <2>4 DEF Accs, Bytes
    <2> HIDE DEF g, w
    <2>6. w.data \o <<>> = w.data BY <2>5
    <2>7. \A op : Ahead(g, w, op, <<>>) BY <2>2, <2>6 DEF Ahead
    <2> QED BY <2>1, <2>2, <2>7
<1> HIDE DEF g, w
<1>11. CASE /\ ~Refused(f) /\ f.len > 0 /\ rx' = r /\ parse' = "payload"
            /\ UNCHANGED <<lrs, peerClosed, loop, wire>>
    <2>1. Onward(H, k)' BY <1>2, <1>3, <1>11, PutFlow
    <2>2. f.op \in DataOps BY <1>9, <1>11
    <2>3. /\ r \in Rx /\ r.op = f.op /\ r.final = f.fin /\ r.left = f.len /\ r.payload = <<>>
          /\ r.owedAFin = r.continuationPossible
          /\ r.first = (f.op # "continuation") /\ r.owedAFin = ~f.fin
          /\ (f.op = "continuation") = rx.owedAFin
          /\ f.op # "continuation" => r.isBinary = (f.op = "binary")
        BY <1>7, <1>11, <2>2
    <2>4. RxInv(H)' /\ WireInv(H)'
        <3>1. CASE lrs = "established"
            <4>1. Open(H, Len(H)) = (r.op = "continuation" \/ r.payload # <<>>)
                BY <1>10, <2>3, <3>1
            <4>2. r.first = (r.op # "continuation" /\ r.payload = <<>>) BY <2>3
            <4>3. RxInv(H)' BY <1>11, <2>2, <2>3, <3>1, <4>1, <4>2 DEF RxInv
            <4>4. Ahead(g, w, r.op, r.payload) BY <1>10, <2>3, <3>1
            <4>5. WireInv(H)' BY <1>10, <1>11, <3>1, <4>4 DEF WireInv, g, w
            <4> QED BY <4>3, <4>5
        <3>2. CASE lrs # "established"
            <4>1. (rx.owedAFin = rx.continuationPossible)' /\ (rx.left > 0)' BY <1>11, <2>3
            <4> QED BY <1>2, <1>11, <3>2, <4>1, ClosingFlow
        <3> QED BY <3>1, <3>2
    <2> QED BY <1>2, <2>1, <2>4 DEF Flow
<1>12. CASE ~Refused(f) /\ f.len = 0 /\ Spill(r, <<>>) /\ UNCHANGED parse
    <2>1. /\ r \in Rx /\ r.op = f.op /\ r.left = 0 /\ r.payload = <<>>
          /\ r.owedAFin = r.continuationPossible
        BY <1>7, <1>12
    <2>2. CASE lrs = "established" /\ r.op \in DataOps
        <3>1. /\ r.final = f.fin /\ r.first = (f.op # "continuation") /\ r.owedAFin = ~f.fin
              /\ (f.op = "continuation") = rx.owedAFin
              /\ f.op # "continuation" => r.isBinary = (f.op = "binary")
            BY <1>7, <1>12, <2>1, <2>2
        <3>2. SpillData(r, <<>>)
            BY <1>12, <2>2 DEF Spill, SpillClose, SpillPing, SpillPong, DataOps
        <3>3. InFrame(H, r, <<>>, <<>>)
            <4>1. r.payload = <<>> \o <<>> /\ (r.left > 0 => <<>> # <<>>) BY <1>8, <2>1
            <4>2. r.first = (r.op # "continuation" /\ <<>> = <<>>) BY <2>1, <3>1
            <4>3. r.owedAFin = ~r.final BY <3>1
            <4>4. Open(H, Len(H)) = (r.op = "continuation" \/ <<>> # <<>>)
                BY <1>10, <2>1, <2>2, <3>1
            <4>5. r.op # "continuation" => r.isBinary = (r.op = "binary") BY <2>1, <3>1
            <4>6. g.done = w.done /\ g.told = w.told /\ Ahead(g, w, r.op, <<>>) BY <1>10, <2>2
            <4> QED BY <2>1, <2>2, <4>1, <4>2, <4>3, <4>4, <4>5, <4>6 DEF InFrame, g, w
        <3>4. parse' = IF r.left = 0 THEN "new" ELSE "payload" BY <1>3, <1>12, <2>1
        <3>5. PICK c : c = Chunk(<<>>, r.isBinary, r.first, IsFinalFragment(r)) OBVIOUS
        <3>6. /\ c \in Chunks /\ Append(H, c) \in Seq(Chunks)
              /\ loop' = Append(Append(loop, Task("fragment", c)), Task("assemble", c))
              /\ FirstInv(Append(H, c)) /\ RxInv(Append(H, c))' /\ WireInv(Append(H, c))'
            BY <1>2, <1>8, <2>1, <3>2, <3>3, <3>4, <3>5, ReceiveFlow
        <3>7. Onward(Append(H, c), k)' BY <1>2, <1>3, <3>6, ReceivePass
        <3> QED BY <3>6, <3>7 DEF Flow
    <2>3. CASE ~(lrs = "established" /\ r.op \in DataOps)
        <3>1. (lrs = "established" /\ r.op # "close") =>
                /\ r.op \notin DataOps /\ parse = "new" /\ parse' = "new"
                /\ r.first = rx.first /\ r.owedAFin = rx.owedAFin
            BY <1>3, <1>7, <1>12, <2>1, <2>3
        <3>2. parse' # "payload" BY <1>3, <1>12
        <3>3. Flow(H, k)' BY <1>3, <1>8, <1>12, <2>1, <3>1, <3>2, SpillAside
        <3> QED BY <3>3
    <2> QED BY <2>2, <2>3
<1> QED BY <1>5, <1>6, <1>11, <1>12, <1>1 DEF ParseHeader

(* A full buffer, or the rest of the frame.                                  *)
LEMMA PayloadFlow ==
    ASSUME TypeOK, NEW H \in Seq(Chunks), NEW k, Flow(H, k), ParsePayload
    PROVE  \E K \in Seq(Chunks) : Flow(K, k)'
<1>1. PICK r, data, payload : r = PayloadRx /\ data = PayloadData /\ payload = rx.payload
    OBVIOUS
<1>2. FirstInv(H) /\ RxInv(H) /\ WireInv(H) /\ Onward(H, k) BY DEF Flow
<1>3. /\ parse = "payload" /\ Spill(r, data)
      /\ parse' = IF PayloadSize = rx.left THEN "new" ELSE "payload"
      /\ UNCHANGED <<connect, fragments, delivered, frameSequence>>
    BY <1>1, PayloadStep DEF clientVars, ownerVars
<1>4. /\ PayloadSize \in Nat /\ PayloadSize <= rx.left /\ data \in Bytes
      /\ Len(data) = PayloadSize /\ (rx.left > 0 => PayloadSize > 0)
      /\ r \in Rx /\ r.left = rx.left - PayloadSize /\ r.payload = payload \o data
      /\ r.op = rx.op /\ r.final = rx.final /\ r.first = rx.first
      /\ r.owedAFin = rx.owedAFin /\ r.isBinary = rx.isBinary
      /\ r.continuationPossible = rx.continuationPossible
    BY <1>1, PayloadType
<1>5. rx.left \in Nat /\ payload \in Bytes BY <1>1 DEF TypeOK
<1>6. rx.owedAFin = rx.continuationPossible /\ rx.left > 0 BY <1>2, <1>3 DEF RxInv
<1>7. /\ parse' = IF r.left = 0 THEN "new" ELSE "payload"
      /\ parse' = "payload" => r.left > 0
      /\ data # <<>>
    <2>1. Len(data) > 0 BY <1>4, <1>5, <1>6
    <2>2. data # <<>> BY <2>1
    <2>3. r.left = 0 <=> PayloadSize = rx.left BY <1>4, <1>5
    <2>4. r.left \in Nat BY <1>4, <1>5
    <2> QED BY <1>3, <2>2, <2>3, <2>4
<1>8. CASE lrs = "established"
    <2>1. /\ rx.op \in DataOps
          /\ rx.first = (rx.op # "continuation" /\ rx.payload = <<>>)
          /\ rx.owedAFin = ~rx.final
          /\ Open(H, Len(H)) = (rx.op = "continuation" \/ rx.payload # <<>>)
          /\ rx.op # "continuation" => rx.isBinary = (rx.op = "binary")
        BY <1>2, <1>3, <1>8 DEF RxInv
    <2>2. /\ Up(H, Len(H)).done = Heard(wire)[Len(wire)].done
          /\ Up(H, Len(H)).told = Heard(wire)[Len(wire)].told
          /\ Ahead(Up(H, Len(H)), Heard(wire)[Len(wire)], rx.op, rx.payload)
        BY <1>2, <1>3, <1>8 DEF WireInv
    <2>3. SpillData(r, data)
        BY <1>3, <1>4, <2>1 DEF Spill, SpillClose, SpillPing, SpillPong, DataOps
    <2>4. InFrame(H, r, payload, data)
        BY <1>1, <1>4, <1>6, <1>7, <1>8, <2>1, <2>2 DEF InFrame
    <2>5. PICK c : c = Chunk(data, r.isBinary, r.first, IsFinalFragment(r)) OBVIOUS
    <2>6. /\ c \in Chunks /\ Append(H, c) \in Seq(Chunks)
          /\ loop' = Append(Append(loop, Task("fragment", c)), Task("assemble", c))
          /\ FirstInv(Append(H, c)) /\ RxInv(Append(H, c))' /\ WireInv(Append(H, c))'
        BY <1>2, <1>4, <1>5, <1>7, <2>3, <2>4, <2>5, ReceiveFlow
    <2>7. Onward(Append(H, c), k)' BY <1>2, <1>3, <2>6, ReceivePass
    <2> QED BY <2>6, <2>7 DEF Flow
<1>9. CASE lrs # "established"
    <2>1. r.owedAFin = r.continuationPossible BY <1>4, <1>6
    <2>2. Flow(H, k)' BY <1>3, <1>4, <1>7, <1>9, <2>1, SpillAside
    <2> QED BY <2>2
<1> QED BY <1>8, <1>9

(* The steps of the wsi.                                                     *)
LEMMA WsiFlow ==
    ASSUME TypeOK, NEW H \in Seq(Chunks), NEW k, Flow(H, k),
           \/ Peer \/ ParsePayload \/ PopClose \/ SendClose \/ ConnectionLost
    PROVE  \E K \in Seq(Chunks) : Flow(K, k)'
<1>1. CASE Peer
    <2>1. PICK f \in Frames : ParseHeader(f) BY <1>1 DEF Peer
    <2> QED BY <2>1, HeaderFlow
<1>2. CASE ParsePayload BY <1>2, PayloadFlow
<1>3. CASE \/ PopClose \/ SendClose \/ ConnectionLost
    <2>1. FirstInv(H) /\ RxInv(H) /\ WireInv(H) /\ Onward(H, k) BY DEF Flow
    <2>2. /\ lrs' # "established" /\ UNCHANGED <<rx, parse, wire>>
          /\ loop' = loop \/ loop' = Append(loop, Task("markAsClosed", NoChunk))
          /\ UNCHANGED <<connect, fragments, delivered, frameSequence>>
        BY <1>3 DEF PopClose, SendClose, ConnectionLost, Kill, clientVars, peerVars, ownerVars
    <2>3. Onward(H, k)' BY <2>1, <2>2, PutFlow
    <2>4. RxInv(H)' /\ WireInv(H)' BY <2>1, <2>2, ClosingFlow DEF RxInv
    <2> QED BY <2>1, <2>3, <2>4 DEF Flow
<1> QED BY <1>1, <1>2, <1>3

(* The steps of the loop and of the owner.                                   *)
LEMMA RunFlow ==
    ASSUME TypeOK, NEW H \in Seq(Chunks), NEW k, Flow(H, k), LoopStep \/ SetCallbacks \/ Close
    PROVE  \E n \in Nat : Flow(H, n)'
<1>1. FirstInv(H) /\ RxInv(H) /\ WireInv(H) /\ Onward(H, k) BY DEF Flow
<1>2. UNCHANGED wsiVars /\ UNCHANGED wire /\ UNCHANGED connect
    BY DEF LoopStep, RunFragment, RunAssemble, RunDeliver, RunMarkAsClosed, RunNotify, RunClose,
           RunSetCallbacks, SetCallbacks, Close, peerVars, clientVars
<1>3. RxInv(H)' /\ WireInv(H)' BY <1>1, <1>2 DEF RxInv, WireInv, wsiVars
<1>4. SUFFICES \E n \in Nat : Onward(H, n)' BY <1>1, <1>3 DEF Flow
<1>5. /\ Pipe(loop, fragments, H, k)
      /\ connect.maxMessageSize = NoLimit => Tell(loop, delivered, frameSequence, H, k)
    BY <1>1 DEF Onward
<1>6. k \in Nat BY <1>5 DEF Pipe, Piped
<1>7. /\ loop \in Seq(Tasks) /\ fragments \in Seq(Chunks)
      /\ delivered \in Seq([data : Bytes, isBinary : BOOLEAN, seen : BOOLEAN])
    BY DEF TypeOK, Tasks
<1>8. loop # <<>> => Head(loop) = loop[1] /\ loop[1] \in Tasks /\ Tail(loop) \in Seq(Tasks)
    BY <1>7, TailFacts
<1>9. CASE SetCallbacks \/ Close
    <2>1. /\ \/ loop' = loop
             \/ \E t \in {"markAsClosed", "notify", "close", "setCallbacks"} :
                  loop' = Append(loop, Task(t, NoChunk))
          /\ UNCHANGED <<connect, fragments, delivered, frameSequence>>
        BY <1>9 DEF SetCallbacks, Close, clientVars, ownerVars
    <2> QED BY <1>1, <1>6, <2>1, PutFlow
<1>10. CASE RunFragment
    <2>1. /\ loop # <<>> /\ loop[1].t = "fragment"
          /\ fragments' = Append(fragments, loop[1].chunk) /\ loop' = Tail(loop)
          /\ UNCHANGED <<delivered, frameSequence>>
        BY <1>8, <1>10 DEF RunFragment, Running, clientVars
    <2>2. Pipe(Tail(loop), Append(fragments, loop[1].chunk), H, k)
        BY <1>5, <1>7, <2>1, PipeFragment
    <2>3. Tell(loop, delivered, frameSequence, H, k)
            => Tell(Tail(loop), delivered, frameSequence, H, k)
        BY <1>5, <1>7, <2>1, PipeFragment
    <2> QED BY <1>2, <1>5, <1>6, <2>1, <2>2, <2>3 DEF Onward
<1>11. CASE RunAssemble
    <2>1. UNCHANGED <<fragments, delivered>> BY <1>11 DEF RunAssemble, ownerVars
    <2>2. /\ Pipe(loop', fragments, H, k + 1) /\ k + 1 \in Nat
          /\ (connect.maxMessageSize = NoLimit /\ Tell(loop, delivered, frameSequence, H, k))
               => Tell(loop', delivered, frameSequence', H, k + 1)
        BY <1>1, <1>5, <1>11, AssembleFlow
    <2> QED BY <1>2, <1>5, <2>1, <2>2 DEF Onward
<1>12. CASE RunDeliver
    <2>1. PICK c, d : /\ c = loop[1].chunk
                      /\ d = [data |-> c.data, isBinary |-> c.isBinary, seen |-> callbacks = "set"]
        OBVIOUS
    <2>2. /\ loop # <<>> /\ loop[1].t = "deliver" /\ loop' = Tail(loop)
          /\ \/ Readable(c) /\ delivered' = Append(delivered, d)
             \/ ~Readable(c) /\ delivered' = delivered
          /\ UNCHANGED <<fragments, frameSequence>>
        BY <1>8, <1>12, <2>1 DEF RunDeliver, Running
    <2>3. c \in Chunks BY <1>8, <2>1, <2>2 DEF Tasks
    <2>4. d \in [data : Bytes, isBinary : BOOLEAN, seen : BOOLEAN] BY <2>1, <2>3 DEF Chunks
    <2>5. MsgOf(d) = MsgOf(loop[1].chunk) BY <2>1 DEF MsgOf
    <2> DEFINE D == [data : Bytes, isBinary : BOOLEAN, seen : BOOLEAN]
    <2>6. delivered \in Seq(D) /\ d \in D BY <1>7, <2>4
    <2> HIDE DEF D
    <2>7. Pipe(Tail(loop), fragments, H, k) BY <1>5, <1>7, <2>2, <2>5, <2>6, PipeDeliver
    <2>8. /\ (Readable(loop[1].chunk) /\ Tell(loop, delivered, frameSequence, H, k))
               => Tell(Tail(loop), Append(delivered, d), frameSequence, H, k)
          /\ (~Readable(loop[1].chunk) /\ Tell(loop, delivered, frameSequence, H, k))
               => Tell(Tail(loop), delivered, frameSequence, H, k)
        BY <1>5, <1>7, <2>2, <2>5, <2>6, PipeDeliver
    <2>9. connect.maxMessageSize = NoLimit => Tell(loop', delivered', frameSequence', H, k)
        BY <1>5, <2>1, <2>2, <2>8
    <2> QED BY <1>2, <1>6, <2>2, <2>7, <2>9 DEF Onward
<1>13. CASE RunMarkAsClosed \/ RunNotify \/ RunClose \/ RunSetCallbacks
    <2>1. /\ loop # <<>> /\ loop[1].t \notin {"fragment", "assemble", "deliver"}
          /\ loop' = Tail(loop) \/ loop' = Append(Tail(loop), Task("notify", NoChunk))
          /\ UNCHANGED <<fragments, delivered, frameSequence>>
        BY <1>8, <1>13 DEF RunMarkAsClosed, RunNotify, RunClose, RunSetCallbacks, Running,
                           ownerVars, clientVars
    <2> DEFINE r == Tail(loop)
               x == Task("notify", NoChunk)
    <2>2. x \in Tasks /\ x.t \notin {"fragment", "assemble", "deliver"}
        BY NoChunkType, TaskType
    <2>3. r \in Seq(Tasks) BY <1>8, <2>1
    <2>4. Pipe(r, fragments, H, k) BY <1>5, <1>7, <2>1, PipeTake
    <2>5. Tell(loop, delivered, frameSequence, H, k) => Tell(r, delivered, frameSequence, H, k)
        BY <1>5, <1>7, <2>1, PipeTake
    <2> HIDE DEF r, x
    <2>6. Pipe(Append(r, x), fragments, H, k) BY <2>2, <2>3, <2>4, PipePut
    <2>7. Tell(r, delivered, frameSequence, H, k)
            => Tell(Append(r, x), delivered, frameSequence, H, k)
        BY <2>2, <2>3, <2>4, PipePut
    <2>8. loop' = r \/ loop' = Append(r, x) BY <2>1 DEF r, x
    <2> QED BY <1>2, <1>5, <1>6, <2>1, <2>4, <2>5, <2>6, <2>7, <2>8 DEF Onward
<1> QED BY <1>9, <1>10, <1>11, <1>12, <1>13 DEF LoopStep

(* The callbacks.                                                            *)
LEMMA SeenStep ==
    ASSUME TypeOK, SeenInv, Next
    PROVE  SeenInv'
<1>1. delivered \in Seq([data : Bytes, isBinary : BOOLEAN, seen : BOOLEAN]) BY DEF TypeOK
<1>2. SUFFICES ASSUME connect'.onLoop
               PROVE  callbacks' = "set" /\ \A i \in DOMAIN delivered' : delivered'[i].seen
    BY DEF SeenInv
<1>3. connect' = connect
    BY PayloadStep DEF Next, LoopStep, Peer, ParseHeader, RunFragment, RunAssemble, RunDeliver,
           RunMarkAsClosed, RunNotify, RunClose, RunSetCallbacks, PopClose, SendClose,
           ConnectionLost, SetCallbacks, Close, clientVars
<1>4. callbacks = "set" /\ \A i \in DOMAIN delivered : delivered[i].seen
    BY <1>2, <1>3 DEF SeenInv
<1>5. CASE RunDeliver
    <2>1. callbacks' = callbacks BY <1>5 DEF RunDeliver
    <2> DEFINE c == Head(loop).chunk
               d == [data |-> c.data, isBinary |-> c.isBinary, seen |-> callbacks = "set"]
    <2>2. delivered' = delivered \/ delivered' = Append(delivered, d) BY <1>5 DEF RunDeliver
    <2>3. d.seen BY <1>4
    <2> HIDE DEF d
    <2>4. CASE delivered' = Append(delivered, d)
        <3>1. /\ DOMAIN delivered = 1..Len(delivered) /\ Len(delivered) \in Nat
              /\ DOMAIN delivered' = 1..(Len(delivered) + 1)
              /\ \A i \in 1..Len(delivered) : delivered'[i] = delivered[i]
              /\ delivered'[Len(delivered) + 1] = d
            BY <1>1, <2>4
        <3>2. \A i \in DOMAIN delivered' : i = Len(delivered) + 1 \/ i \in 1..Len(delivered)
            BY <3>1
        <3> QED BY <1>4, <2>1, <2>3, <3>1, <3>2
    <2> QED BY <1>4, <2>1, <2>2, <2>4
<1>6. CASE ~RunDeliver
    <2>1. delivered' = delivered /\ callbacks' \in {callbacks, "set"}
        BY <1>4, <1>6, PayloadStep
           DEF Next, LoopStep, Peer, ParseHeader, RunFragment, RunAssemble,
               RunMarkAsClosed, RunNotify, RunClose, RunSetCallbacks, PopClose, SendClose,
               ConnectionLost, SetCallbacks, Close, clientVars, ownerVars
    <2> QED BY <1>4, <2>1
<1> QED BY <1>5, <1>6

(* The invariant holds at the start, ...                                     *)
LEMMA InitFlow ==
    ASSUME Init
    PROVE  MessagesInv
<1> DEFINE H == <<>>
<1>1. H \in Seq(Chunks) /\ Len(H) = 0 /\ 0 \in 0..Len(H) OBVIOUS
<1>2. /\ lrs = "established" /\ parse = "new" /\ rx.first = FALSE /\ rx.owedAFin = FALSE
      /\ rx.continuationPossible = FALSE /\ loop = H /\ fragments = H /\ delivered = H
      /\ wire = H /\ frameSequence = NoSequence
    BY DEF Init
<1>3. wire \in Seq(WireFrames) /\ Len(wire) = 0 BY <1>2
<1>4. SeenInv BY DEF Init, SeenInv
<1>5. Up(H, 0) = NoMessages /\ Up(H, 0).told = H
    <2>1. NoMessages.told = H BY DEF NoMessages
    <2> HIDE DEF H
    <2>2. Up(H, 0) = NoMessages BY <1>1, UpType
    <2> QED BY <2>1, <2>2
<1>6. Heard(wire)[0] = NoMessages BY <1>3, HeardFacts
<1>7. \A S, val : Piped(0, H, S, val, H) BY PipedEmpty
<1> HIDE DEF H
<1>8. FirstInv(H) BY <1>1 DEF FirstInv
<1>9. Open(H, Len(H)) = FALSE BY <1>1 DEF Open
<1>10. RxInv(H) BY <1>2, <1>9 DEF RxInv
<1>11. WireInv(H) BY <1>1, <1>2, <1>3, <1>5, <1>6 DEF WireInv
<1>12. \A i : i \notin 1..Len(H) BY <1>1
<1>13. Pipe(loop, fragments, H, 0) BY <1>1, <1>2, <1>7, <1>12 DEF Pipe
<1>14. Tell(loop, delivered, frameSequence, H, 0)
    BY <1>1, <1>2, <1>5, <1>7, <1>9, <1>12 DEF Tell
<1>15. Flow(H, 0) BY <1>8, <1>10, <1>11, <1>13, <1>14 DEF Flow, Onward
<1>16. \E K \in Seq(Chunks), n \in Nat : Flow(K, n)
    <2>1. 0 \in Nat OBVIOUS
    <2> QED BY <1>1, <1>15, <2>1, Zenon
<1> QED BY <1>4, <1>16 DEF MessagesInv

(* ... and every step keeps it.                                              *)
LEMMA MessagesStep == TypeOK /\ MessagesInv /\ [Next]_vars => MessagesInv'
<1> SUFFICES ASSUME TypeOK, MessagesInv, [Next]_vars PROVE MessagesInv' OBVIOUS
<1>1. PICK H \in Seq(Chunks), k \in Nat : Flow(H, k) BY DEF MessagesInv
<1>2. SeenInv BY DEF MessagesInv
<1>3. CASE LoopStep \/ SetCallbacks \/ Close
    <2>1. \E n \in Nat : Flow(H, n)' BY <1>1, <1>3, RunFlow
    <2>2. SeenInv' BY <1>2, <1>3, SeenStep DEF Next
    <2> QED BY <2>1, <2>2 DEF MessagesInv
<1>4. CASE \/ Peer \/ ParsePayload \/ PopClose \/ SendClose \/ ConnectionLost
    <2>1. \E K \in Seq(Chunks) : Flow(K, k)' BY <1>1, <1>4, WsiFlow
    <2>2. SeenInv' BY <1>2, <1>4, SeenStep DEF Next
    <2> QED BY <2>1, <2>2 DEF MessagesInv
<1>5. CASE UNCHANGED vars
    <2>1. Flow(H, k)'
        BY <1>1, <1>5 DEF Flow, RxInv, WireInv, Onward, vars, wsiVars, clientVars, peerVars,
                          ownerVars
    <2>2. SeenInv' BY <1>2, <1>5 DEF SeenInv, vars, clientVars, ownerVars
    <2> QED BY <2>1, <2>2 DEF MessagesInv
<1> QED BY <1>3, <1>4, <1>5 DEF Next

(* What is delivered or seen in fragments is a beginning of what came in.    *)
LEMMA MessagesWhole ==
    ASSUME TypeOK, MessagesInv
    PROVE  WholeMessages
<1>1. PICK H \in Seq(Chunks), k \in Nat : Flow(H, k) BY DEF MessagesInv
<1>2. FirstInv(H) /\ WireInv(H) /\ Onward(H, k) BY <1>1 DEF Flow
<1>3. Pipe(loop, fragments, H, k) BY <1>2 DEF Onward
<1>4. /\ fragments \in Seq(Chunks) /\ wire \in Seq(WireFrames)
      /\ delivered \in Seq([data : Bytes, isBinary : BOOLEAN, seen : BOOLEAN])
    BY DEF TypeOK, WireFrames
<1>5. /\ Len(fragments) \in 0..Len(H) /\ k \in 0..Len(H) /\ Len(H) \in Nat
      /\ Len(fragments) \in Nat /\ Len(delivered) \in Nat
      /\ \A i \in 1..Len(fragments) : H[i] = fragments[i]
    BY <1>3, <1>4 DEF Pipe, Piped
<1> DEFINE s == FramesOf(H)
<1>6. /\ s \in Seq(WireFrames) /\ Len(s) = Len(H)
      /\ \A i \in 1..Len(H) : s[i] = FrameOf(H[i])
      /\ \A n \in 0..Len(H) : Up(H, n).done \in Seq(Msgs) /\ Up(H, n).told \in Seq(Msgs)
    BY UpType
<1>7. \A n : Up(H, n) = Heard(s)[n] BY DEF Up
<1> HIDE DEF s
<1>8. /\ Up(H, Len(H)).done = MessagesOf(wire) /\ Up(H, Len(H)).told = Messages
    BY <1>2 DEF WireInv, MessagesOf, Messages
<1>9. ASSUME connect.maxMessageSize = NoLimit PROVE IsPrefix(Delivered, Messages)
    <2>1. Tell(loop, delivered, frameSequence, H, k) BY <1>2, <1>9 DEF Onward
    <2> DEFINE T == Up(H, k).told
    <2>2. Len(delivered) \in 0..Len(T) /\ \A i \in 1..Len(delivered) : T[i] = MsgOf(delivered[i])
        BY <2>1 DEF Tell, Piped
    <2>3. Begins(T, Messages) /\ T \in Seq(Msgs) /\ Messages \in Seq(Msgs)
        <3>1. Len(H) \in k..Len(H) /\ k \in 0..Len(s) /\ Len(H) \in 0..Len(H) BY <1>5, <1>6
        <3>2. Begins(Heard(s)[k].told, Heard(s)[Len(H)].told) BY <1>6, <3>1, HeardGrows
        <3>3. Begins(Up(H, k).told, Up(H, Len(H)).told) BY <1>7, <3>2
        <3> QED BY <1>5, <1>6, <1>8, <3>1, <3>3
    <2> HIDE DEF T
    <2>4. /\ Delivered \in Seq(Msgs) /\ Len(Delivered) = Len(delivered)
          /\ \A i \in 1..Len(delivered) : Delivered[i] = MsgOf(delivered[i])
        <3>1. DOMAIN delivered = 1..Len(delivered) BY <1>4
        <3>2. \A i \in 1..Len(delivered) :
                delivered[i] \in [data : Bytes, isBinary : BOOLEAN, seen : BOOLEAN]
            <4> DEFINE D == [data : Bytes, isBinary : BOOLEAN, seen : BOOLEAN]
            <4>1. delivered \in Seq(D) BY <1>4
            <4> HIDE DEF D
            <4>2. \A i \in 1..Len(delivered) : delivered[i] \in D BY <4>1
            <4> QED BY <4>2 DEF D
        <3>3. \A i \in 1..Len(delivered) :
                [data |-> delivered[i].data, isBinary |-> delivered[i].isBinary] \in Msgs
            BY <3>2 DEF Msgs
        <3>4. Delivered \in [1..Len(delivered) -> Msgs] BY <3>1, <3>3 DEF Delivered
        <3>5. Delivered \in Seq(Msgs) /\ Len(Delivered) = Len(delivered) BY <1>5, <3>4
        <3>6. \A i \in 1..Len(delivered) : Delivered[i] = MsgOf(delivered[i])
            BY <3>1 DEF Delivered, MsgOf
        <3> QED BY <3>5, <3>6
    <2>5. Begins(Delivered, Messages)
        <3>1. Len(T) \in Nat /\ Len(Messages) \in Nat /\ Len(T) <= Len(Messages)
              /\ \A i \in 1..Len(T) : T[i] = Messages[i]
            BY <2>3 DEF Begins
        <3>2. \A i \in 1..Len(delivered) : i \in 1..Len(T) BY <1>5, <2>2, <3>1
        <3>3. Len(Delivered) <= Len(Messages) BY <1>5, <2>2, <2>4, <3>1
        <3>4. \A i \in 1..Len(Delivered) : Delivered[i] = Messages[i] BY <2>2, <2>4, <3>1, <3>2
        <3> QED BY <3>3, <3>4 DEF Begins
    <2> QED BY <2>3, <2>4, <2>5, BeginsPrefix
<1>10. MessagesTold BY <1>9 DEF MessagesTold, MessagesInv, SeenInv
<1> DEFINE n == Len(fragments)
           t == FragmentFrames
<1>11. IsPrefix(MessagesOf(t), MessagesOf(wire))
    <2>1. DOMAIN fragments = 1..n /\ \A i \in 1..n : fragments[i] \in Chunks BY <1>4
    <2>2. t \in [1..n -> WireFrames] BY <2>1, FrameOfType DEF FragmentFrames
    <2>3. t \in Seq(WireFrames) /\ Len(t) = n BY <1>5, <2>2
    <2>4. \A i \in 1..n : t[i] = FrameOf(fragments[i]) BY <2>1 DEF FragmentFrames
    <2> HIDE DEF t
    <2>5. \A i \in 1..n : i \in 1..Len(H) /\ s[i] = t[i] BY <1>5, <1>6, <2>4
    <2>6. n <= Len(s) /\ n <= Len(t) /\ n \in 0..n /\ n \in 0..Len(s) BY <1>5, <1>6, <2>3
    <2>7. Heard(s)[n] = Heard(t)[n] BY <1>4, <1>5, <1>6, <2>3, <2>5, <2>6, HeardAgree
    <2>8. MessagesOf(t) = Up(H, n).done BY <1>7, <2>3, <2>7 DEF MessagesOf
    <2>9. Len(H) \in n..Len(s) BY <1>5, <1>6
    <2>10. Begins(Heard(s)[n].done, Heard(s)[Len(H)].done) BY <1>6, <2>6, <2>9, HeardGrows
    <2>11. Begins(MessagesOf(t), MessagesOf(wire)) BY <1>7, <1>8, <2>8, <2>10
    <2>12. MessagesOf(t) \in Seq(Msgs) /\ MessagesOf(wire) \in Seq(Msgs)
        BY <1>5, <1>6, <1>8, <2>8
    <2> QED BY <2>11, <2>12, BeginsPrefix
<1>12. \A i \in DOMAIN fragments : fragments[i].isFirst = (i = 1 \/ fragments[i - 1].isFinal)
    <2>1. DOMAIN fragments = 1..Len(fragments) BY <1>4
    <2> SUFFICES ASSUME NEW i \in 1..Len(fragments)
                 PROVE  fragments[i].isFirst = (i = 1 \/ fragments[i - 1].isFinal)
        BY <2>1
    <2>2. i \in 1..Len(H) /\ H[i] = fragments[i] BY <1>5
    <2>3. H[i].isFirst = ~Open(H, i - 1) BY <1>2, <2>2 DEF FirstInv
    <2>4. CASE i = 1 BY <2>2, <2>3, <2>4 DEF Open
    <2>5. CASE i # 1
        <3>1. i - 1 > 0 /\ i - 1 \in 1..Len(fragments) /\ H[i - 1] = fragments[i - 1]
            BY <1>5, <2>5
        <3>2. fragments[i - 1] \in Chunks BY <1>4, <3>1
        <3>3. fragments[i - 1].isFinal \in BOOLEAN BY <3>2 DEF Chunks
        <3> QED BY <2>2, <2>3, <2>5, <3>1, <3>3 DEF Open
    <2> QED BY <2>4, <2>5
<1> QED BY <1>10, <1>11, <1>12 DEF WholeMessages, FragmentsTold

-----------------------------------------------------------------------------
(* Theorems.                                                                 *)

(* TypeOK and OrderInv hold always.                                          *)
LEMMA OrderInvariance == Spec => [](TypeOK /\ OrderInv)
<1>1. Init => TypeOK /\ OrderInv
    <2>1. Init => OrderInv BY DEF Init, OrderInv, Order
    <2> QED BY <2>1, InitType
<1>2. TypeOK /\ OrderInv /\ [Next]_vars => (TypeOK /\ OrderInv)'
    <2> SUFFICES ASSUME TypeOK, OrderInv, [Next]_vars PROVE OrderInv' BY TypeStep
    <2>1. CASE LoopStep \/ SetCallbacks \/ Close BY <2>1, RunOrder
    <2>2. CASE \/ Peer \/ ParsePayload \/ PopClose \/ SendClose \/ ConnectionLost
        BY <2>2, WsiOrder
    <2>3. CASE UNCHANGED vars
        <3>1. UNCHANGED <<loop, lrs, closed, notified>>
            BY <2>3 DEF vars, wsiVars, clientVars, ownerVars
        <3> QED BY <3>1 DEF OrderInv
    <2> QED BY <2>1, <2>2, <2>3 DEF Next
<1> QED BY <1>1, <1>2, PTL DEF Spec

(* Whatever the peer sends and however the closures of the loop interleave   *)
(* with the parser, every variable keeps its type; in particular the client  *)
(* keeps no more of a message than its limit.                                *)
THEOREM TypeCorrect == Spec => []TypeOK
BY OrderInvariance, PTL

(* Once onClose was called no onText, onBinary or onFragment call follows:   *)
(* what RECEIVE has put on the loop is ahead of what CLIENT_CLOSED puts      *)
(* there, over both of their hops.                                           *)
THEOREM NothingAfterOnCloseCorrect == Spec => NothingAfterOnClose
<1>1. ASSUME TypeOK, OrderInv, [Next]_vars
      PROVE  [notified > 0 => UNCHANGED <<delivered, fragments>>]_vars
    <2>1. SUFFICES ASSUME notified > 0, Next PROVE UNCHANGED <<delivered, fragments>>
        BY <1>1
    <2>2. loop \in Seq(Tasks) BY <1>1 DEF TypeOK, Tasks
    <2>3. \A i \in DOMAIN loop : loop[i].t # "deliver" /\ loop[i].t # "fragment"
        BY <1>1, <2>1 DEF OrderInv, Order, Received
    <2>4. loop # <<>> => Head(loop) = loop[1] /\ 1 \in DOMAIN loop BY <2>2, TailFacts
    <2>5. ~RunDeliver /\ ~RunFragment BY <2>3, <2>4 DEF RunDeliver, RunFragment, Running
    <2>6. CASE LoopStep
        BY <2>5, <2>6 DEF LoopStep, RunAssemble, RunMarkAsClosed, RunNotify, RunClose,
                          RunSetCallbacks, ownerVars
    <2>7. CASE Peer \/ ParsePayload BY <2>7, PayloadStep DEF Peer, ParseHeader, ownerVars
    <2>8. CASE \/ PopClose \/ SendClose \/ ConnectionLost \/ SetCallbacks \/ Close
        BY <2>8 DEF PopClose, SendClose, ConnectionLost, SetCallbacks, Close, ownerVars
    <2> QED BY <2>1, <2>6, <2>7, <2>8 DEF Next
<1> QED BY <1>1, OrderInvariance, PTL DEF Spec, NothingAfterOnClose

(* Without a size limit the owner is handed the messages the peer sent, in   *)
(* order, whole and unchanged, however the rx buffer has split their frames  *)
(* and whatever control frames, closing or loss come in between; and with or *)
(* without a limit onFragment can tell them from isFirst and isFinal.        *)
THEOREM WholeMessagesCorrect == Spec => []WholeMessages
<1>1. Init => TypeOK /\ MessagesInv BY InitType, InitFlow
<1>2. TypeOK /\ MessagesInv /\ [Next]_vars => (TypeOK /\ MessagesInv)'
    BY TypeStep, MessagesStep
<1>3. TypeOK /\ MessagesInv => WholeMessages BY MessagesWhole
<1> QED BY <1>1, <1>2, <1>3, PTL DEF Spec
=============================================================================
