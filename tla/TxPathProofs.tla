---------------------------- MODULE TxPathProofs ----------------------------
(***************************************************************************)
(* Theorems about TxPath, for any writes of the client, any length of a    *)
(* frame, any cut the socket makes and whatever zlib gives out.            *)
(***************************************************************************)
EXTENDS TxPath, TLAPS, WellFoundedInduction

\* what waits in the buflist, and what is on the wire
Segments == [f : Frame, left : 1..FrameLen]
WireUnits == [f : Frame, u : 1..FrameLen]

\* A close reason is prepared only when a close begins.
ReasonInv == lrs = "established" => closeBuf = Nil

\* the units w on the wire make frames, each with its header
Whole(w) ==
    \A k \in DOMAIN w :
        /\ w[k].u = ((k - 1) % FrameLen) + 1
        /\ w[k].u > 1 => w[k].f = w[k - 1].f
        /\ w[k].f.hdr

\* the segments q go on where the wire w stops: at most one, the rest of the last frame
Fits(w, q) ==
    /\ q = <<>> => Len(w) % FrameLen = 0
    /\ q # <<>> =>
         /\ Len(q) = 1 /\ q[1].f.hdr
         /\ q[1].left = FrameLen - (Len(w) % FrameLen)
         /\ Len(w) % FrameLen # 0 => q[1].f = w[Len(w)].f

\* A frame is written only when nothing is buffered, so there is never more than one
\* segment, no write finds itself behind another and none is left inside a frame.
OutInv == ~insideFrame /\ Whole(wire) /\ Fits(wire, buflist)

\* the answer to the peer's close is the last frame sent
AnswerOut == Sent # <<>> /\ Last(Sent).op = "close"

\* The answer to the peer's close is still to be written, or in the buflist, or out.
AnswerInv ==
    closeBuf = "peer" /\ ~closeNeedsAck =>
        /\ lrs \in {"waiting_to_send_close", "flushing_before_close", "dead"}
        /\ ~unusable /\ ~validityHup =>
             /\ lrs = "flushing_before_close" =>
                  ~draining /\ buflist # <<>> /\ buflist[1].f.op = "close"
             /\ lrs = "dead" => AnswerOut

-----------------------------------------------------------------------------
(* Types.                                                                    *)

\* The socket takes any number of units of the first segment.
LEMMA SendHeadType ==
    ASSUME NEW w \in Seq(WireUnits), NEW q \in Seq(Segments), q # <<>>, NEW n \in 0..Head(q).left,
           FrameLen \in Nat
    PROVE  w \o Units(Head(q), n) \in Seq(WireUnits) /\ Rest(q, n) \in Seq(Segments)
<1> DEFINE h == Head(q)
<1>1. /\ h \in Segments /\ Tail(q) \in Seq(Segments) /\ h.f \in Frame /\ h.left \in 1..FrameLen
      /\ n \in Nat /\ n <= h.left
  <2>1. h \in Segments /\ Tail(q) \in Seq(Segments)
    OBVIOUS
  <2>2. h.f \in Frame /\ h.left \in 1..FrameLen
    BY <2>1 DEF Segments
  <2> HIDE DEF h
  <2> QED
    BY <2>1, <2>2 DEF h
<1>2. Units(h, n) \in Seq(WireUnits)
  <2>1. \A k \in 1..n : FrameLen - h.left + k \in 1..FrameLen
    BY <1>1
  <2>2. Units(h, n) \in [1..n -> WireUnits]
    BY <1>1, <2>1 DEF Units, WireUnits
  <2> QED
    BY <1>1, <2>2
<1>3. ASSUME n # h.left PROVE [q EXCEPT ![1].left = @ - n] \in Seq(Segments)
  <2>1. h.left - n \in 1..FrameLen /\ h = q[1] /\ 1 \in DOMAIN q
    BY <1>1, <1>3
  <2>2. [h EXCEPT !.left = @ - n] \in Segments
    BY <1>1, <2>1 DEF Segments
  <2>3. [q EXCEPT ![1].left = @ - n] = [q EXCEPT ![1] = [h EXCEPT !.left = @ - n]]
    BY <2>1
  <2>4. q \in [1..Len(q) -> Segments] /\ Len(q) \in Nat
    OBVIOUS
  <2>5. [q EXCEPT ![1] = [h EXCEPT !.left = @ - n]] \in [1..Len(q) -> Segments]
    BY <2>2, <2>4
  <2> QED
    BY <2>3, <2>4, <2>5
<1> HIDE DEF h
<1>4. w \o Units(h, n) \in Seq(WireUnits)
  BY <1>2
<1>5. Rest(q, n) \in Seq(Segments)
  BY <1>1, <1>3 DEF Rest, h
<1> QED
  BY <1>4, <1>5 DEF h

\* what the out path is made of
OutType == buflist \in Seq(Segments) /\ wire \in Seq(WireUnits) /\ unusable \in BOOLEAN

\* A frame given to lws_issue_raw.
LEMMA IssueType ==
    ASSUME OutType, NEW f \in Frame, Issue(f), FrameLen \in Nat \ {0}
    PROVE  /\ buflist' \in Seq(Segments) /\ wire' \in Seq(WireUnits) /\ unusable' \in BOOLEAN
<1> DEFINE q == Append(buflist, Segment(f))
<1>1. Segment(f) \in Segments
  BY DEF Segment, Segments
<1>2. q \in Seq(Segments) /\ q # <<>>
  BY <1>1 DEF OutType
<1>3. CASE SendFails(buflist)
  BY <1>3 DEF SendFails, OutType
<1>4. ASSUME NEW n \in 0..Head(q).left, SendHead(q, n), UNCHANGED unusable
      PROVE  buflist' \in Seq(Segments) /\ wire' \in Seq(WireUnits) /\ unusable' \in BOOLEAN
  <2> HIDE DEF q
  <2> QED
    BY <1>2, <1>4, SendHeadType DEF SendHead, OutType
<1> QED
  BY <1>3, <1>4 DEF Issue

\* What zlib gives out and keeps is made of what it got.
LEMMA DeflateType ==
    ASSUME NEW P, zlib \in Seq(P), NEW inp \in Seq(P), NEW flush \in BOOLEAN,
           NEW d \in Deflate(inp, flush)
    PROVE  d.out \in Seq(P) /\ d.rest \in Seq(P) /\ d.pending \in BOOLEAN
<1> DEFINE q == zlib \o inp
<1>1. q \in Seq(P) /\ Len(q) \in Nat
  OBVIOUS
<1> HIDE DEF q
<1>2. PICK n \in 0..Len(q), b \in BOOLEAN :
         d = [out |-> SubSeq(q, 1, n), rest |-> SubSeq(q, n + 1, Len(q)), pending |-> b]
  BY DEF Deflate, q
<1>3. SubSeq(q, 1, n) \in Seq(P) /\ SubSeq(q, n + 1, Len(q)) \in Seq(P)
  <2>1. SubSeq(q, 1, n) \in Seq(P)
    BY <1>1
  <2>2. SubSeq(q, n + 1, Len(q)) \in Seq(P)
    BY <1>1
  <2> QED
    BY <2>1, <2>2
<1> QED
  BY <1>2, <1>3

\* The memory it had not read yet may be garbage.
LEMMA FreedType ==
    ASSUME NEW P, NEW rest \in Seq(P), NEW inp, <<Garbage, Garbage>> \in P,
           NEW r \in Freed(rest, inp)
    PROVE  r \in Seq(P)
<1>1. CASE r = rest
  BY <1>1
<1>2. CASE rest # <<>> /\ r = [rest EXCEPT ![Len(rest)] = <<Garbage, Garbage>>]
  <2>1. rest \in [1..Len(rest) -> P] /\ Len(rest) \in Nat
    OBVIOUS
  <2>2. r \in [1..Len(rest) -> P]
    BY <1>2, <2>1
  <2> QED
    BY <2>1, <2>2
<1> QED
  BY <1>1, <1>2 DEF Freed

\* A write, through the extension or as it is.
LEMMA WriteType ==
    ASSUME TypeOK, NEW op \in DataOps \cup {"ping", "pong", "close"}, NEW fin \in BOOLEAN,
           NEW inp \in Seq(PartSet), Write(op, fin, inp)
    PROVE  /\ zlib' \in Seq(PartSet) /\ draining' \in BOOLEAN /\ stashedFin' \in BOOLEAN
           /\ stashedType' \in DataOps \cup {Nil} /\ insideFrame' \in BOOLEAN
           /\ buflist' \in Seq(Segments) /\ wire' \in Seq(WireUnits) /\ unusable' \in BOOLEAN
           /\ ~draining /\ op \notin DataOps => UNCHANGED extVars
<1>1. /\ OutType /\ FrameLen \in Nat \ {0} /\ <<Garbage, Garbage>> \in PartSet
      /\ zlib \in Seq(PartSet) /\ draining \in BOOLEAN /\ stashedFin \in BOOLEAN
      /\ stashedType \in DataOps \cup {Nil} /\ insideFrame \in BOOLEAN
  BY ScriptAssumption DEF TypeOK, OutType, Segments, WireUnits, PartSet
<1>2. ASSUME NEW o \in DataOps, NEW e \in BOOLEAN, DeflatedWrite(o, e, inp)
      PROVE  /\ zlib' \in Seq(PartSet) /\ draining' \in BOOLEAN /\ stashedFin' \in BOOLEAN
             /\ stashedType' \in DataOps \cup {Nil} /\ insideFrame' \in BOOLEAN
             /\ buflist' \in Seq(Segments) /\ wire' \in Seq(WireUnits) /\ unusable' \in BOOLEAN
  <2>1. PICK d \in Deflate(inp, e) :
          /\ zlib' \in Freed(d.rest, inp) /\ draining' = d.pending /\ StashedWp(d, e)
          /\ \/ /\ inp # <<>> /\ d.out = <<>> /\ StashType(o)
                /\ UNCHANGED <<outVars, unusable>>
             \/ /\ inp = <<>> \/ d.out # <<>>
                /\ LET useType == d.out # <<>> /\ stashedType # Nil
                   IN  /\ stashedType' = IF useType THEN Nil ELSE stashedType
                       /\ Issue([op |-> IF useType THEN stashedType ELSE o,
                                 fin |-> FragmentFin(e, d.pending),
                                 parts |-> d.out, hdr |-> ~insideFrame])
                /\ UNCHANGED insideFrame
    BY <1>2 DEF DeflatedWrite
  <2>2. d.out \in Seq(PartSet) /\ d.rest \in Seq(PartSet) /\ d.pending \in BOOLEAN
    BY <1>1, <2>1, DeflateType
  <2>3. zlib' \in Seq(PartSet)
    BY <1>1, <2>1, <2>2, FreedType
  <2>4. stashedFin' \in BOOLEAN
    BY <1>1, <2>1 DEF StashedWp
  <2>5. CASE UNCHANGED <<outVars, unusable>> /\ StashType(o)
    BY <1>1, <2>1, <2>2, <2>3, <2>4, <2>5 DEF StashType, outVars, OutType
  <2>6. CASE /\ LET useType == d.out # <<>> /\ stashedType # Nil
                IN  /\ stashedType' = IF useType THEN Nil ELSE stashedType
                    /\ Issue([op |-> IF useType THEN stashedType ELSE o,
                              fin |-> FragmentFin(e, d.pending),
                              parts |-> d.out, hdr |-> ~insideFrame])
             /\ UNCHANGED insideFrame
    <3> DEFINE u == d.out # <<>> /\ stashedType # Nil
               f == [op |-> IF u THEN stashedType ELSE o, fin |-> FragmentFin(e, d.pending),
                     parts |-> d.out, hdr |-> ~insideFrame]
    <3>1. f \in Frame
      BY <1>1, <2>2 DEF Frame, FragmentFin
    <3>2. Issue(f) /\ stashedType' \in DataOps \cup {Nil} /\ insideFrame' \in BOOLEAN
      BY <1>1, <2>6
    <3> HIDE DEF f
    <3>3. buflist' \in Seq(Segments) /\ wire' \in Seq(WireUnits) /\ unusable' \in BOOLEAN
      BY <1>1, <3>1, <3>2, IssueType
    <3> QED
      BY <2>1, <2>2, <2>3, <2>4, <3>2, <3>3
  <2> QED
    BY <2>1, <2>5, <2>6
<1>3. ASSUME PlainWrite(op, fin, inp)
      PROVE  /\ UNCHANGED extVars /\ insideFrame' \in BOOLEAN
             /\ buflist' \in Seq(Segments) /\ wire' \in Seq(WireUnits) /\ unusable' \in BOOLEAN
  <2> DEFINE f == [op |-> op, fin |-> fin, parts |-> inp, hdr |-> ~insideFrame]
  <2>1. f \in Frame
    BY <1>1 DEF Frame
  <2>2. Issue(f) /\ UNCHANGED extVars
    BY <1>3 DEF PlainWrite
  <2>3. insideFrame' \in BOOLEAN
    BY <1>1, <1>3 DEF PlainWrite
  <2> HIDE DEF f
  <2> QED
    BY <1>1, <2>1, <2>2, <2>3, IssueType
<1>4. CASE draining
  <2>1. DeflatedWrite("continuation", stashedFin \/ (fin /\ inp # <<>>), inp)
    BY <1>4 DEF Write
  <2>2. "continuation" \in DataOps /\ (stashedFin \/ (fin /\ inp # <<>>)) \in BOOLEAN
    BY DEF DataOps
  <2> QED
    BY <1>2, <1>4, <2>1, <2>2
<1>5. CASE ~draining /\ pmd /\ op \in DataOps
  <2>1. DeflatedWrite(op, fin, inp)
    BY <1>5 DEF Write
  <2> QED
    BY <1>2, <1>5, <2>1
<1>6. CASE ~draining /\ ~(pmd /\ op \in DataOps)
  <2>1. PlainWrite(op, fin, inp)
    BY <1>6 DEF Write
  <2> QED
    BY <1>1, <1>3, <2>1 DEF extVars
<1> QED
  BY <1>1, <1>4, <1>5, <1>6

\* The state after a close, and what it needs.
LEMMA CloseFreeStep ==
    ASSUME NEW st \in LRS, NEW broken \in BOOLEAN, NEW reason, NEW buffered \in BOOLEAN,
           CloseFree(st, broken, reason, buffered), closeNeedsAck \in BOOLEAN, pollout \in BOOLEAN
    PROVE  /\ lrs' \in {"dead", "flushing_before_close", "waiting_to_send_close"}
           /\ lrs' \in LRS /\ closeNeedsAck' \in BOOLEAN /\ pollout' \in BOOLEAN
           /\ broken => lrs' = "dead"
           /\ lrs' = "waiting_to_send_close" =>
                st = "established" /\ reason # Nil /\ closeNeedsAck' /\ pollout'
           /\ lrs' # "waiting_to_send_close" => UNCHANGED closeNeedsAck
           /\ lrs' = "flushing_before_close" => buffered /\ ~broken
           /\ lrs' # "dead" /\ pollout => pollout'
BY DEF CloseFree, AfterClose, LRS

\* The end of a POLLOUT event that dies for a failed socket or a finished flush.
LEMMA CarryStep ==
    ASSUME NEW die \in BOOLEAN, NEW forced \in BOOLEAN, Carry(die, forced),
           lrs \in LRS, closeNeedsAck \in BOOLEAN, pollout \in BOOLEAN, unusable' \in BOOLEAN,
           die => unusable' \/ (lrs = "flushing_before_close" /\ buflist' = <<>>)
    PROVE  /\ lrs' \in LRS /\ UNCHANGED closeNeedsAck /\ pollout' \in BOOLEAN
           /\ lrs' = lrs \/ (lrs' = "dead" /\ die)
           /\ lrs' # "dead" => pollout'
<1>1. CASE die /\ ~forced
  <2>1. CloseFree(lrs, unusable', closeBuf, buflist' # <<>>) /\ (buflist' # <<>>) \in BOOLEAN
    BY <1>1 DEF Carry
  <2>2. lrs' = "dead"
    BY <1>1, <2>1 DEF CloseFree, AfterClose
  <2> QED
    BY <1>1, <2>1, <2>2 DEF CloseFree, LRS
<1>2. CASE ~(die /\ ~forced)
  BY <1>2 DEF Carry
<1> QED
  BY <1>1, <1>2

\* What every POLLOUT event leaves: the out path and the extension are well typed, and the
\* connection is where it was, or dead.
EventType ==
    /\ zlib' \in Seq(PartSet) /\ draining' \in BOOLEAN /\ stashedFin' \in BOOLEAN
    /\ stashedType' \in DataOps \cup {Nil} /\ insideFrame' \in BOOLEAN
    /\ buflist' \in Seq(Segments) /\ wire' \in Seq(WireUnits) /\ unusable' \in BOOLEAN
    /\ lrs' \in LRS /\ closeNeedsAck' \in BOOLEAN /\ pollout' \in BOOLEAN

\* the client's queue moves on by at most one
QueueStep == UNCHANGED script /\ UNCHANGED queued /\ next' \in 1..(queued + 1)

\* an event of the writeable kind keeps the types
LEMMA EventKeepsType ==
    ASSUME TypeOK, ReasonInv, EventType, QueueStep,
           UNCHANGED <<pmd, closeBuf, pings, validityHup, checks>>,
           pongPending' \in BOOLEAN, sendCheckPing' \in BOOLEAN,
           draining' => ~pongPending' /\ lrs' # "waiting_to_send_close",
           lrs' = "established" => lrs = "established"
    PROVE  TypeOK' /\ ReasonInv'
<1>1. UNCHANGED <<PartSet, Frame>>
  BY DEF QueueStep, PartSet, Frame
<1> QED
  BY <1>1 DEF TypeOK, ReasonInv, EventType, QueueStep, Segments, WireUnits

\* Every step keeps the types, and no reason is prepared in an open connection.
LEMMA TypeReason == Spec => [](TypeOK /\ ReasonInv)
<1>1. Init => TypeOK /\ ReasonInv
  <2> SUFFICES ASSUME Init PROVE TypeOK /\ ReasonInv
    OBVIOUS
  <2>1. /\ Len(script) \in Nat /\ <<>> \in Seq(PartSet)
        /\ <<>> \in Seq([f : Frame, left : 1..FrameLen])
        /\ <<>> \in Seq([f : Frame, u : 1..FrameLen])
        /\ maxPings \in Nat /\ maxChecks \in Nat /\ script \in Scripts
    BY ScriptAssumption DEF Init
  <2>2. queued \in 0..Len(script) /\ next \in 1..(queued + 1) /\ pings \in 0..maxPings
             /\ checks \in 0..maxChecks
    BY <2>1 DEF Init
  <2> QED
    BY <2>1, <2>2 DEF Init, TypeOK, ReasonInv, LRS
<1>2. TypeOK /\ ReasonInv /\ [Next]_vars => TypeOK' /\ ReasonInv'
  <2> SUFFICES ASSUME TypeOK, ReasonInv, [Next]_vars PROVE TypeOK' /\ ReasonInv'
    OBVIOUS
  <2>0. /\ lrs \in LRS /\ closeNeedsAck \in BOOLEAN /\ pollout \in BOOLEAN
        /\ unusable \in BOOLEAN /\ draining \in BOOLEAN /\ pongPending \in BOOLEAN
        /\ sendCheckPing \in BOOLEAN /\ insideFrame \in BOOLEAN
        /\ FrameLen \in Nat \ {0} /\ Parts \in Nat \ {0}
        /\ buflist \in Seq(Segments) /\ wire \in Seq(WireUnits)
        /\ zlib \in Seq(PartSet) /\ stashedFin \in BOOLEAN /\ stashedType \in DataOps \cup {Nil}
        /\ queued \in Nat /\ next \in 1..(queued + 1) /\ queued <= Len(script)
        /\ script \in Seq([op : DataOps \cup {"ping", "close"}, fin : BOOLEAN])
        /\ draining => ~pongPending /\ lrs # "waiting_to_send_close"
        /\ closeBuf \in {Nil, "own", "peer", "error", "garbled"}
    <3>1. script \in Seq([op : DataOps \cup {"ping", "close"}, fin : BOOLEAN])
      BY ScriptAssumption DEF TypeOK
    <3>2. Len(script) \in Nat
      BY <3>1
    <3>3. queued \in Nat /\ next \in 1..(queued + 1) /\ queued <= Len(script)
      BY <3>2 DEF TypeOK
    <3> QED
      BY <3>1, <3>3, ScriptAssumption DEF TypeOK, Segments, WireUnits
  <2>01. UNCHANGED queueVars => QueueStep
    BY <2>0 DEF queueVars, QueueStep
  <2>02. <<>> \in Seq(PartSet) /\ {"ping", "pong", "close"} \cap DataOps = {}
    BY DEF DataOps
  \* POLLOUT
  <2>1. ASSUME NEW forced \in BOOLEAN, EventFlush(forced) PROVE TypeOK' /\ ReasonInv'
    <3>1. buflist' \in Seq(Segments) /\ wire' \in Seq(WireUnits) /\ unusable' \in BOOLEAN
      <4>1. CASE SendFails(buflist)
        BY <2>0, <4>1 DEF SendFails
      <4>2. ASSUME NEW n \in 0..Head(buflist).left, SendHead(buflist, n), UNCHANGED unusable
            PROVE  buflist' \in Seq(Segments) /\ wire' \in Seq(WireUnits) /\ unusable' \in BOOLEAN
        BY <2>0, <2>1, <4>2, SendHeadType DEF SendHead, EventFlush
      <4> QED
        BY <2>1, <4>1, <4>2 DEF EventFlush
    <3> DEFINE die == unusable' \/ (lrs = "flushing_before_close" /\ buflist' = <<>>)
    <3>2. Carry(die, forced) /\ die \in BOOLEAN
      BY <2>1 DEF EventFlush
    <3>3. /\ lrs' \in LRS /\ UNCHANGED closeNeedsAck /\ pollout' \in BOOLEAN
          /\ lrs' = lrs \/ lrs' = "dead"
      BY <2>0, <3>1, <3>2, CarryStep
    <3>4. /\ UNCHANGED <<queueVars, pmd, zlib, draining, stashedFin, stashedType, closeBuf>>
          /\ UNCHANGED <<pongPending, pings, sendCheckPing, validityHup, checks>>
          /\ insideFrame' \in BOOLEAN
      BY <2>0, <2>1 DEF EventFlush, extVars, pongVars, validityVars
    <3>5. EventType
      BY <2>0, <3>1, <3>3, <3>4 DEF EventType
    <3> QED
      BY <2>0, <2>01, <3>3, <3>4, <3>5, EventKeepsType
  <2>2. ASSUME NEW forced \in BOOLEAN, EventFlushed(forced) PROVE TypeOK' /\ ReasonInv'
    <3>1. /\ UNCHANGED <<queueVars, pmd, zlib, draining, stashedFin, stashedType, closeBuf>>
          /\ UNCHANGED <<pongPending, pings, sendCheckPing, validityHup, checks>>
          /\ UNCHANGED <<buflist, insideFrame, wire>> /\ unusable' = TRUE
          /\ Carry(TRUE, forced)
      BY <2>2 DEF EventFlushed, extVars, pongVars, validityVars, outVars
    <3>2. /\ lrs' \in LRS /\ UNCHANGED closeNeedsAck /\ pollout' \in BOOLEAN
          /\ lrs' = lrs \/ lrs' = "dead"
      BY <2>0, <3>1, CarryStep
    <3>3. EventType
      BY <2>0, <3>1, <3>2 DEF EventType
    <3> QED
      BY <2>0, <2>01, <3>1, <3>2, <3>3, EventKeepsType
  <2>3. CASE EventClose
    <3>1. /\ lrs = "waiting_to_send_close" /\ Write("close", TRUE, <<>>) /\ ~draining
          /\ UNCHANGED <<queueVars, pmd, closeBuf, pongPending, pings, sendCheckPing, validityHup,
                     checks>>
      BY <2>0, <2>3 DEF EventClose, pongVars, validityVars
    <3>2. /\ insideFrame' \in BOOLEAN /\ UNCHANGED extVars
          /\ buflist' \in Seq(Segments) /\ wire' \in Seq(WireUnits) /\ unusable' \in BOOLEAN
      BY <2>02, <3>1, WriteType
    <3>3. /\ lrs' \in {"dead", "flushing_before_close", "waiting_to_send_close",
               "awaiting_close_ack"}
          /\ lrs' \in LRS /\ closeNeedsAck' \in BOOLEAN /\ pollout' \in BOOLEAN
      <4>1. CASE CloseFree(lrs, TRUE, closeBuf, FALSE)
        BY <2>0, <4>1, CloseFreeStep
      <4>2. CASE lrs' = "awaiting_close_ack" /\ UNCHANGED <<pollout, closeNeedsAck>>
        BY <2>0, <4>2 DEF LRS
      <4>3. CASE CloseFree("flushing_before_close", unusable', Nil, buflist' # <<>>)
        <5>1. "flushing_before_close" \in LRS /\ (buflist' # <<>>) \in BOOLEAN
          BY DEF LRS
        <5> QED
          BY <2>0, <3>2, <4>3, <5>1, CloseFreeStep
      <4> QED
        BY <2>3, <4>1, <4>2, <4>3 DEF EventClose, CloseAnswer
    <3>4. EventType
      BY <2>0, <3>2, <3>3 DEF EventType, extVars
    <3> QED
      BY <2>0, <2>01, <3>1, <3>2, <3>3, <3>4, EventKeepsType DEF extVars
  <2>4. CASE EventPong
    <3>1. /\ pongPending /\ ~draining /\ pongPending' = FALSE
          /\ UNCHANGED <<queueVars, pmd, closeBuf, pings, sendCheckPing, validityHup, checks>>
          /\ lrs # "waiting_to_send_close"
      BY <2>0, <2>4 DEF EventPong, validityVars
    <3>2. CASE lrs # "established" /\ Carry(FALSE, FALSE)
                    /\ UNCHANGED <<extVars, outVars, unusable>>
      <4>1. EventType /\ UNCHANGED lrs
        BY <2>0, <3>2 DEF EventType, Carry, extVars, outVars
      <4> QED
        BY <2>0, <2>01, <3>1, <3>2, <4>1, EventKeepsType DEF extVars
    <3>3. CASE lrs = "established" /\ Write("pong", TRUE, <<>>) /\ Carry(unusable', FALSE)
      <4>1. /\ insideFrame' \in BOOLEAN /\ UNCHANGED extVars
            /\ buflist' \in Seq(Segments) /\ wire' \in Seq(WireUnits) /\ unusable' \in BOOLEAN
        BY <2>02, <3>1, <3>3, WriteType
      <4>2. /\ lrs' \in LRS /\ UNCHANGED closeNeedsAck /\ pollout' \in BOOLEAN
            /\ lrs' = lrs \/ lrs' = "dead"
        BY <2>0, <3>3, <4>1, CarryStep
      <4>3. EventType
        BY <2>0, <4>1, <4>2 DEF EventType, extVars
      <4> QED
        BY <2>0, <2>01, <3>1, <4>1, <4>2, <4>3, EventKeepsType DEF extVars
    <3> QED
      BY <2>4, <3>2, <3>3 DEF EventPong
  <2>5. ASSUME NEW forced \in BOOLEAN, NEW op \in DataOps \cup {"ping", "pong", "close"},
               NEW fin \in BOOLEAN, NEW inp \in Seq(PartSet), NEW die \in BOOLEAN,
               Write(op, fin, inp), die => unusable', Carry(die, forced),
               lrs # "waiting_to_send_close", ~pongPending, QueueStep,
               UNCHANGED <<pmd, closeBuf, pongVars, validityHup, checks>>,
               sendCheckPing' \in BOOLEAN
        PROVE  TypeOK' /\ ReasonInv'
    <3>1. /\ zlib' \in Seq(PartSet) /\ draining' \in BOOLEAN /\ stashedFin' \in BOOLEAN
          /\ stashedType' \in DataOps \cup {Nil} /\ insideFrame' \in BOOLEAN
          /\ buflist' \in Seq(Segments) /\ wire' \in Seq(WireUnits) /\ unusable' \in BOOLEAN
      BY <2>5, WriteType
    <3>2. /\ lrs' \in LRS /\ UNCHANGED closeNeedsAck /\ pollout' \in BOOLEAN
          /\ lrs' = lrs \/ lrs' = "dead"
      BY <2>0, <2>5, <3>1, CarryStep
    <3>3. EventType
      BY <2>0, <3>1, <3>2 DEF EventType
    <3>4. /\ ~pongPending' /\ pongPending' \in BOOLEAN
          /\ UNCHANGED <<pmd, closeBuf, pings, validityHup, checks>>
      BY <2>0, <2>5 DEF pongVars
    <3> QED
      BY <2>0, <2>5, <3>2, <3>3, <3>4, EventKeepsType
  <2>6. ASSUME NEW forced \in BOOLEAN, EventCheckPing(forced) PROVE TypeOK' /\ ReasonInv'
    <3>1. unusable' \in BOOLEAN
      BY <2>02, <2>6, WriteType DEF EventCheckPing
    <3>2. /\ Write("ping", TRUE, <<>>) /\ Carry(unusable', forced)
          /\ lrs # "waiting_to_send_close" /\ ~pongPending /\ QueueStep
          /\ UNCHANGED <<pmd, closeBuf, pongVars, validityHup, checks>>
                     /\ sendCheckPing' \in BOOLEAN
      BY <2>01, <2>6 DEF EventCheckPing
    <3> QED
      BY <2>02, <2>5, <3>1, <3>2
  <2>7. ASSUME NEW forced \in BOOLEAN, EventDrain(forced) PROVE TypeOK' /\ ReasonInv'
    <3>1. "continuation" \in DataOps
      BY DEF DataOps
    <3>2. unusable' \in BOOLEAN
      BY <2>02, <2>7, <3>1, WriteType DEF EventDrain
    <3> QED
      BY <2>0, <2>01, <2>02, <2>5, <2>7, <3>1, <3>2 DEF EventDrain, NoControl, validityVars
  \* the WRITEABLE callback
  <2>8. CASE UserNothing
    <3>1. /\ UNCHANGED <<queueVars, pmd, zlib, draining, stashedFin, stashedType, lrs, unusable,
                         closeBuf, closeNeedsAck, pongPending, pings, sendCheckPing, validityHup,
                         checks, buflist, insideFrame, wire>>
          /\ pollout' = FALSE
      BY <2>8 DEF UserNothing, extVars, pongVars, validityVars, outVars
    <3>2. EventType
      BY <2>0, <3>1 DEF EventType
    <3> QED
      BY <2>0, <2>01, <3>1, <3>2, EventKeepsType
  <2>9. ASSUME UserTurn, next <= queued, next' = next + 1, UNCHANGED <<script, queued>>
        PROVE  /\ QueueStep /\ next \in 1..Len(script) /\ script[next].fin \in BOOLEAN
               /\ Content(next) \in Seq(PartSet)
    <3>1. next \in 1..Len(script) /\ next + 1 \in 1..(queued + 1)
      BY <2>0, <2>9
    <3>2. script[next] \in [op : DataOps \cup {"ping", "close"}, fin : BOOLEAN]
      <4> DEFINE W == [op : DataOps \cup {"ping", "close"}, fin : BOOLEAN]
      <4>1. script \in Seq(W) /\ next \in 1..Len(script)
        BY <2>0, <3>1
      <4> HIDE DEF W
      <4>2. script[next] \in W
        BY <4>1
      <4> QED
        BY <4>2 DEF W
    <3>3. Content(next) \in [1..Parts -> PartSet]
      BY <3>1 DEF Content, PartSet
    <3>4. Content(next) \in Seq(PartSet)
      BY <2>0, <3>3
    <3> QED
      BY <2>9, <3>1, <3>2, <3>4 DEF QueueStep
  <2>10. CASE UserData
    <3>1. /\ QueueStep /\ script[next].fin \in BOOLEAN /\ Content(next) \in Seq(PartSet)
      BY <2>9, <2>10 DEF UserData
    <3>2. /\ Write(script[next].op, script[next].fin, Content(next)) /\ Carry(FALSE, FALSE)
          /\ script[next].op \in DataOps /\ lrs # "waiting_to_send_close" /\ ~pongPending
          /\ UNCHANGED <<pmd, closeBuf, pongVars, validityHup, checks>> /\ UNCHANGED sendCheckPing
      BY <2>10 DEF UserData, UserTurn, NoControl, validityVars
    <3> QED
      BY <2>0, <2>5, <3>1, <3>2
  <2>11. CASE UserPing
    <3>1. QueueStep
      BY <2>9, <2>11 DEF UserPing
    <3>2. /\ Write("ping", TRUE, <<>>) /\ Carry(unusable', FALSE)
          /\ lrs # "waiting_to_send_close" /\ ~pongPending
          /\ UNCHANGED <<pmd, closeBuf, pongVars, validityHup, checks>> /\ UNCHANGED sendCheckPing
      BY <2>11 DEF UserPing, UserTurn, NoControl, validityVars
    <3>3. unusable' \in BOOLEAN
      BY <2>02, <3>2, WriteType
    <3> QED
      BY <2>0, <2>02, <2>5, <3>1, <3>2, <3>3
  <2>12. CASE UserClose
    <3>1. QueueStep
      BY <2>9, <2>12 DEF UserClose
    <3>2. /\ CloseFree(lrs, FALSE, "own", FALSE) /\ ~draining
          /\ UNCHANGED <<pmd, extVars, unusable, pongVars, validityVars, outVars>>
          /\ closeBuf' = "own"
      BY <2>12 DEF UserClose, UserTurn
    <3>3. /\ lrs' \in {"dead", "flushing_before_close", "waiting_to_send_close"}
          /\ lrs' \in LRS /\ closeNeedsAck' \in BOOLEAN /\ pollout' \in BOOLEAN
      BY <2>0, <3>2, CloseFreeStep
    <3> QED
      BY <3>1, <3>2, <3>3 DEF TypeOK, ReasonInv, QueueStep, extVars, pongVars, validityVars,
                              outVars, PartSet, Frame
  \* the queue, the receiving side and the timers
  <2>13. CASE Submit
    <3>1. queued' = queued + 1 /\ queued < Len(script) /\ UNCHANGED <<script, next>>
               /\ Len(script) \in Nat
      BY <2>0, <2>13 DEF Submit
    <3>2. queued' \in 0..Len(script') /\ next' \in 1..(queued' + 1)
      BY <2>0, <3>1
    <3>3. UNCHANGED <<PartSet, Frame, script>>
      BY <3>1 DEF PartSet, Frame
    <3>4. /\ UNCHANGED <<pmd, zlib, draining, stashedFin, stashedType, lrs, unusable, closeBuf,
                         closeNeedsAck, pongPending, pings, sendCheckPing, validityHup, checks,
                         buflist, insideFrame, wire>>
          /\ pollout' = TRUE
      BY <2>13 DEF Submit, extVars, pongVars, validityVars, outVars
    <3>5. EventType
      BY <2>0, <3>4 DEF EventType
    <3> QED
      BY <2>0, <3>2, <3>3, <3>4, <3>5 DEF TypeOK, ReasonInv, EventType, Segments, WireUnits
  <2>21. CASE RecvPing \/ RecvPong
    <3>1. /\ UNCHANGED <<queueVars, pmd, zlib, draining, stashedFin, stashedType, lrs, unusable,
                         closeBuf, closeNeedsAck, sendCheckPing, checks, buflist, insideFrame,
                                    wire>>
          /\ ~draining /\ pollout' \in {pollout, TRUE} /\ pongPending' \in {pongPending, TRUE}
          /\ validityHup' \in {validityHup, FALSE}
          /\ pings' = pings \/ (pings < maxPings /\ pings' = pings + 1)
      BY <2>21 DEF RecvPing, RecvPong, Reads, extVars, pongVars, validityVars, outVars
    <3>2. pings' \in 0..maxPings
      <4>1. pings \in 0..maxPings /\ maxPings \in Nat
        BY ScriptAssumption DEF TypeOK
      <4> QED
        BY <3>1, <4>1
    <3>3. UNCHANGED <<PartSet, Frame, script, queued, next>>
      BY <3>1 DEF PartSet, Frame, queueVars
    <3>4. EventType
      BY <2>0, <3>1 DEF EventType
    <3> QED
      BY <2>0, <3>1, <3>2, <3>3, <3>4 DEF TypeOK, ReasonInv, EventType, Segments, WireUnits
  <2>14. CASE RecvClose
    <3>1. /\ ~draining /\ closeBuf' \in {closeBuf, "peer"}
          /\ UNCHANGED <<queueVars, pmd, extVars, unusable, pongVars, validityVars, outVars>>
      BY <2>14 DEF RecvClose, Reads
    <3>2. /\ lrs' \in {"dead", "flushing_before_close", "waiting_to_send_close"}
          /\ lrs' \in LRS /\ closeNeedsAck' \in BOOLEAN /\ pollout' \in BOOLEAN
      <4>1. (buflist # <<>>) \in BOOLEAN
        OBVIOUS
      <4> QED
        BY <2>0, <2>14, <4>1, CloseFreeStep DEF RecvClose, LRS
    <3> QED
      BY <3>1, <3>2 DEF TypeOK, ReasonInv, queueVars, extVars, pongVars, validityVars, outVars,
                        PartSet, Frame
  <2>15. CASE RecvBad \/ ReadFails
    <3>1. /\ ~draining /\ closeBuf' \in {closeBuf, "error"}
          /\ UNCHANGED <<queueVars, pmd, extVars, unusable, pongVars, validityVars, outVars>>
      BY <2>15 DEF RecvBad, ReadFails, Reads
    <3>2. /\ lrs' \in {"dead", "flushing_before_close", "waiting_to_send_close"}
          /\ lrs' \in LRS /\ closeNeedsAck' \in BOOLEAN /\ pollout' \in BOOLEAN
      <4>1. (buflist # <<>>) \in BOOLEAN
        OBVIOUS
      <4> QED
        BY <2>0, <2>15, <4>1, CloseFreeStep DEF RecvBad, ReadFails
    <3> QED
      BY <3>1, <3>2 DEF TypeOK, ReasonInv, queueVars, extVars, pongVars, validityVars, outVars,
                        PartSet, Frame
  <2>16. CASE Timeout
    <3>1. /\ lrs' = "dead" /\ lrs' \in LRS /\ closeNeedsAck' \in BOOLEAN /\ pollout' \in BOOLEAN
      BY <2>0, <2>16, CloseFreeStep DEF Timeout
    <3> QED
      BY <2>16, <3>1 DEF Timeout, TypeOK, ReasonInv, queueVars, extVars, pongVars, validityVars,
                 outVars,
                        PartSet, Frame
  <2>17. CASE ValidityPing
    <3>1. closeBuf' \in {Nil, "own", "peer", "error", "garbled"}
               /\ (closeBuf = Nil => closeBuf' = Nil)
      BY <2>17 DEF ValidityPing
    <3>2. checks' \in 0..maxChecks
      <4>1. checks \in 0..maxChecks /\ maxChecks \in Nat
        BY ScriptAssumption DEF TypeOK
      <4> QED
        BY <2>17, <4>1 DEF ValidityPing
    <3> QED
      BY <2>17, <3>1, <3>2 DEF ValidityPing, TypeOK, ReasonInv, queueVars, extVars, pongVars,
                 outVars,
                        PartSet, Frame
  <2>18. CASE ValidityHangup
    <3>1. /\ lrs' \in {"dead", "flushing_before_close", "waiting_to_send_close"}
          /\ lrs' \in LRS /\ closeNeedsAck' \in BOOLEAN /\ pollout' \in BOOLEAN
          /\ lrs' # "waiting_to_send_close"
      <4>1. (buflist # <<>>) \in BOOLEAN
        OBVIOUS
      <4> QED
        BY <2>0, <2>18, <4>1, CloseFreeStep DEF ValidityHangup, ReasonInv
    <3> QED
      BY <2>18, <3>1 DEF ValidityHangup, TypeOK, ReasonInv, queueVars, extVars, pongVars,
                 validityVars, outVars,
                        PartSet, Frame
  <2>19. CASE UNCHANGED vars
    BY <2>19 DEF vars, TypeOK, ReasonInv, queueVars, extVars, pongVars, validityVars, outVars,
                 PartSet, Frame
  <2> QED
    BY <2>1, <2>2, <2>3, <2>4, <2>6, <2>7, <2>8, <2>10, <2>11, <2>12, <2>13, <2>14, <2>15,
       <2>16, <2>17, <2>18, <2>19, <2>21
    DEF Next, Pollout, Recv, Timers, Over
<1> QED
  BY <1>1, <1>2, PTL DEF Spec

\* Every variable keeps its type; a segment of the buflist is never empty; no pong and no
\* close frame is due during a drain.
THEOREM TypeCorrect == Spec => []TypeOK
BY TypeReason, PTL

-----------------------------------------------------------------------------
(* Frames on the wire.                                                       *)

\* Counting on within a frame, and to its end.
LEMMA ModSteps ==
    ASSUME NEW a \in Nat, NEW j \in Nat, NEW n \in Nat \ {0}
    PROVE  /\ a % n \in 0..(n - 1)
           /\ (a % n) + j < n => (a + j) % n = (a % n) + j
           /\ (a % n) + j = n => (a + j) % n = 0
<1> DEFINE q == a \div n
           r == a % n
<1>1. q \in Int /\ r \in Int /\ a = n * q + r /\ 0 <= r /\ r < n
  BY SMT
<1>2. ASSUME NEW x \in Int, NEW b \in Int, NEW c \in Int, x = n * b + c, 0 <= c, c < n
      PROVE  x % n = c
  BY <1>2, SMT
<1> HIDE DEF q, r
<1>3. r + j < n => (a + j) % n = r + j
  <2> SUFFICES ASSUME r + j < n PROVE (a + j) % n = r + j
    OBVIOUS
  <2>1. a + j = n * q + (r + j) /\ 0 <= r + j
    BY <1>1
  <2> QED
    BY <1>1, <1>2, <2>1
<1>4. r + j = n => (a + j) % n = 0
  <2> SUFFICES ASSUME r + j = n PROVE (a + j) % n = 0
    OBVIOUS
  <2> DEFINE b == q + 1
             x == a + j
  <2>1. b \in Int /\ x \in Int /\ x = n * b + 0 /\ 0 < n
    BY <1>1
  <2> HIDE DEF b, x
  <2>2. x % n = 0
    BY <1>2, <2>1
  <2> QED
    BY <2>2 DEF x
<1> QED
  BY <1>1, <1>3, <1>4 DEF r

\* The same, for a remainder that has a name.
LEMMA ModEnd ==
    ASSUME NEW a \in Nat, NEW j \in Nat, NEW n \in Nat \ {0}, NEW p, p = a % n, p + j = n
    PROVE  (a + j) % n = 0
BY ModSteps

\* A sequence without elements is empty.
LEMMA NoElements ==
    ASSUME NEW S, NEW s \in Seq(S)
    PROVE  Len(s) = 0 <=> s = <<>>
OBVIOUS

\* The socket takes n units of the one segment there is: the frames on the wire stay whole,
\* and what is left of the segment goes on where they stop.
LEMMA SendFits ==
    ASSUME FrameLen \in Nat \ {0}, NEW w \in Seq(WireUnits), Whole(w),
           NEW q \in Seq(Segments), q # <<>>, Fits(w, q), NEW n \in 0..Head(q).left
    PROVE  LET v == w \o Units(Head(q), n)
               r == Rest(q, n)
           IN  /\ Whole(v) /\ Fits(v, r)
               /\ r = <<>> => Len(v) > 0 /\ v[Len(v)].f = q[1].f
               /\ r # <<>> => r[1].f = q[1].f
<1> DEFINE v == w \o Units(Head(q), n)
           r == Rest(q, n)
           h == q[1]
           L == Len(w)
           p == L % FrameLen
           U == Units(h, n)
<1>1. /\ L \in Nat /\ DOMAIN w = 1..L /\ Len(q) = 1 /\ h = Head(q) /\ h \in Segments
      /\ h.f.hdr /\ Tail(q) = <<>>
  <2>1. Len(q) = 1 /\ h.f.hdr
    BY DEF Fits
  <2>2. h = Head(q) /\ h \in Segments /\ Tail(q) \in Seq(Segments) /\ Len(Tail(q)) = 0
    BY <2>1
  <2>3. Tail(q) = <<>>
    BY <2>2, NoElements
  <2> QED
    BY <2>1, <2>2, <2>3
<1>2. /\ h.left = FrameLen - p /\ p \in 0..(FrameLen - 1) /\ n \in Nat /\ n <= h.left
      /\ p # 0 => h.f = w[L].f
      /\ h.left \in Nat
  <2>1. p \in 0..(FrameLen - 1)
    BY <1>1, ModSteps
  <2>2. h.left = FrameLen - p /\ (p # 0 => h.f = w[L].f)
    BY DEF Fits
  <2> HIDE DEF p, h
  <2> QED
    BY <1>1, <2>1, <2>2
<1>3. /\ Len(U) = n /\ DOMAIN U = 1..n /\ U \in Seq(WireUnits)
      /\ \A k \in 1..n : U[k].f = h.f /\ U[k].u = p + k
  <2>1. \A k \in 1..n : FrameLen - h.left + k = p + k /\ p + k \in 1..FrameLen
    <3> HIDE DEF p, h
    <3> QED
      BY <1>2
  <2>2. U = [k \in 1..n |-> [f |-> h.f, u |-> FrameLen - h.left + k]]
    BY DEF Units
  <2>3. h.f \in Frame
    BY <1>1 DEF Segments
  <2> HIDE DEF h, p, U
  <2>4. U \in [1..n -> WireUnits]
    BY <2>1, <2>2, <2>3 DEF WireUnits
  <2>5. U \in Seq(WireUnits) /\ Len(U) = n
    BY <1>2, <2>4
  <2> QED
    BY <2>1, <2>2, <2>4, <2>5
<1>4. v = w \o U
  BY <1>1
<1> HIDE DEF v, U
<1>5. /\ Len(v) = L + n /\ DOMAIN v = 1..(L + n)
      /\ \A k \in 1..L : v[k] = w[k]
      /\ \A k \in 1..n : v[L + k] = U[k]
  <2>1. /\ Len(w \o U) = Len(w) + Len(U) /\ DOMAIN (w \o U) = 1..(Len(w) + Len(U))
        /\ \A k \in 1..Len(w) : (w \o U)[k] = w[k]
        /\ \A k \in 1..Len(U) : (w \o U)[Len(w) + k] = U[k]
    <3>1. w \in Seq(WireUnits) /\ U \in Seq(WireUnits)
      BY <1>3
    <3> QED
      BY <3>1
  <2> QED
    BY <1>3, <1>4, <2>1
<1>6. Whole(v)
  <2> SUFFICES ASSUME NEW k \in DOMAIN v
               PROVE  /\ v[k].u = ((k - 1) % FrameLen) + 1
                      /\ v[k].u > 1 => v[k].f = v[k - 1].f
                      /\ v[k].f.hdr
    BY DEF Whole
  <2>1. CASE k \in 1..L
    <3>1. /\ w[k].u = ((k - 1) % FrameLen) + 1
          /\ w[k].u > 1 => w[k].f = w[k - 1].f
          /\ w[k].f.hdr
      BY <1>1, <2>1 DEF Whole
    <3>2. CASE k = 1
      <4>1. (k - 1) % FrameLen = 0
        BY <3>2
      <4>2. v[k] = w[k]
        BY <1>5, <2>1
      <4>3. ~(w[k].u > 1)
        BY <3>1, <4>1
      <4> QED
        BY <3>1, <4>2, <4>3, Zenon
    <3>3. CASE k # 1
      <4>1. k - 1 \in 1..L
        BY <1>1, <2>1, <3>3
      <4> QED
        BY <1>5, <2>1, <3>1, <4>1
    <3> QED
      BY <3>2, <3>3
  <2>2. CASE k \notin 1..L
    <3> DEFINE i == k - L
    <3>1. i \in 1..n /\ k = L + i /\ i - 1 \in Nat
      <4> HIDE DEF L, p, h
      <4>1. L \in Nat /\ n \in Nat /\ k \in 1..(L + n)
        BY <1>1, <1>2, <1>5
      <4> QED
        BY <2>2, <4>1
    <3> HIDE DEF i
    <3>2. v[k].f = h.f /\ v[k].u = p + i
      BY <1>3, <1>5, <3>1
    <3>3. (k - 1) % FrameLen = p + (i - 1)
      <4>1. k - 1 = L + (i - 1)
        BY <1>1, <3>1
      <4>2. p + (i - 1) < FrameLen
        <5> HIDE DEF p, h, L
        <5> QED
          BY <1>2, <3>1
      <4> QED
        BY <1>1, <3>1, <4>1, <4>2, ModSteps
    <3>4. v[k].u = ((k - 1) % FrameLen) + 1
      <4> HIDE DEF p
      <4> QED
        BY <1>2, <3>1, <3>2, <3>3
    <3>5. v[k].u > 1 => v[k].f = v[k - 1].f
      <4>1. CASE i = 1
        <5>1. p + i > 1 => p # 0 /\ L # 0
          <6>1. L = 0 => p = 0
            OBVIOUS
          <6> HIDE DEF p
          <6> QED
            BY <1>2, <4>1, <6>1
        <5>2. k - 1 = L
          BY <1>1, <3>1, <4>1
        <5> HIDE DEF p, h
        <5> QED
          BY <1>1, <1>2, <1>5, <3>2, <5>1, <5>2
      <4>2. CASE i # 1
        <5>1. i - 1 \in 1..n /\ k - 1 = L + (i - 1)
          BY <1>1, <1>2, <3>1, <4>2
        <5> HIDE DEF p, h
        <5> QED
          BY <1>3, <1>5, <3>2, <5>1
      <4> QED
        BY <4>1, <4>2
    <3> QED
      BY <1>1, <3>2, <3>4, <3>5
  <2> QED
    BY <2>1, <2>2
<1>7. ASSUME n = h.left
      PROVE  r = <<>> /\ Fits(v, r) /\ Len(v) > 0 /\ v[Len(v)].f = h.f
  <2>1. r = <<>>
    BY <1>1, <1>7 DEF Rest
  <2>2. p + n = FrameLen /\ n > 0
    <3> HIDE DEF p, h
    <3> QED
      BY <1>2, <1>7
  <2>3. (L + n) % FrameLen = 0
    <3>1. L \in Nat /\ n \in Nat /\ FrameLen \in Nat \ {0} /\ p = L % FrameLen
      BY <1>1, <1>2
    <3> HIDE DEF L, p
    <3> QED
      BY ONLY <2>2, <3>1, ModEnd
  <2>4. n \in 1..n
    BY <1>2, <2>2
  <2>5. v[L + n].f = h.f
    BY <1>3, <1>5, <2>4
  <2> HIDE DEF r, L
  <2> QED
    BY <1>1, <1>2, <1>5, <2>1, <2>2, <2>3, <2>5 DEF Fits
<1>8. ASSUME n # h.left
      PROVE  r # <<>> /\ Fits(v, r) /\ r[1].f = h.f
  <2> DEFINE g == [h EXCEPT !.left = @ - n]
  <2>1. r = [q EXCEPT ![1].left = @ - n]
    BY <1>1, <1>8 DEF Rest
  <2>2. r \in Seq(Segments) /\ Len(r) = 1 /\ r[1] = g
    <3>1. r \in Seq(Segments)
      BY SendHeadType
    <3>2. DOMAIN r = DOMAIN q /\ r[1] = g
      BY <1>1, <2>1
    <3> HIDE DEF r, g
    <3> QED
      BY <1>1, <3>1, <3>2
  <2>3. g.f = h.f /\ g.left = h.left - n
    BY <1>1 DEF Segments
  <2>4. p + n < FrameLen /\ h.left - n = FrameLen - (p + n)
    <3> HIDE DEF p, h
    <3> QED
      BY <1>2, <1>8
  <2>5. (L + n) % FrameLen = p + n
    <3>1. L \in Nat /\ n \in Nat /\ (L % FrameLen) + n < FrameLen
      BY <1>1, <1>2, <2>4
    <3>2. p = L % FrameLen
      OBVIOUS
    <3> HIDE DEF L, p
    <3> QED
      BY <3>1, <3>2, ModSteps
  <2>6. p + n # 0 => v[L + n].f = h.f
    <3>1. CASE n = 0
      <4>1. p # 0 => L \in 1..L
        <5>1. L = 0 => p = 0
          OBVIOUS
        <5> HIDE DEF p
        <5> QED
          BY <1>1, <5>1
      <4>2. L + n = L
        BY <1>1, <3>1
      <4> HIDE DEF p, h
      <4> QED
        BY <1>2, <1>5, <3>1, <4>1, <4>2
    <3>2. CASE n # 0
      <4>1. n \in 1..n
        BY <1>2, <3>2
      <4> QED
        BY <1>3, <1>5, <4>1
    <3> QED
      BY <3>1, <3>2
  <2> HIDE DEF g, r, p, h, L
  <2>7. r # <<>>
    <3>1. r \in Seq(Segments) /\ Len(r) # 0
      BY <2>2
    <3> QED
      BY <3>1, NoElements
  <2> QED
    BY <1>1, <1>5, <2>3, <2>2, <2>4, <2>5, <2>6, <2>7 DEF Fits
<1> QED
  BY <1>6, <1>7, <1>8 DEF v

\* A frame given to lws_issue_raw when nothing is buffered.
LEMMA IssueFits ==
    ASSUME FrameLen \in Nat \ {0}, OutType, Whole(wire), Fits(wire, buflist), buflist = <<>>,
           NEW f \in Frame, f.hdr, Issue(f)
    PROVE  /\ Whole(wire') /\ Fits(wire', buflist')
           /\ buflist' # <<>> => buflist'[1].f = f
           /\ buflist' = <<>> /\ ~unusable' => Len(wire') > 0 /\ wire'[Len(wire')].f = f
<1> DEFINE q == Append(buflist, Segment(f))
<1>1. Segment(f) \in Segments /\ Segment(f).f = f /\ Segment(f).left = FrameLen
  BY DEF Segment, Segments
<1>2. q \in Seq(Segments) /\ q # <<>> /\ Len(q) = 1 /\ q[1] = Segment(f)
  BY <1>1 DEF OutType
<1>3. Fits(wire, q)
  <2>1. Len(wire) % FrameLen = 0
    BY DEF Fits
  <2> HIDE DEF q
  <2> QED
    BY <1>1, <1>2, <2>1 DEF Fits
<1>4. CASE SendFails(buflist)
  BY <1>4 DEF SendFails
<1>5. ASSUME NEW n \in 0..Head(q).left, SendHead(q, n), UNCHANGED unusable
      PROVE  /\ Whole(wire') /\ Fits(wire', buflist')
             /\ buflist' # <<>> => buflist'[1].f = f
             /\ buflist' = <<>> => Len(wire') > 0 /\ wire'[Len(wire')].f = f
  <2> HIDE DEF q
  <2>1. wire' = wire \o Units(Head(q), n) /\ buflist' = Rest(q, n) /\ wire \in Seq(WireUnits)
    BY <1>5 DEF SendHead, OutType
  <2> QED
    BY <1>1, <1>2, <1>3, <1>5, <2>1, SendFits
<1> QED
  BY <1>4, <1>5 DEF Issue

\* A write when nothing is buffered; one that no extension changes goes out as it is.
LEMMA WriteFits ==
    ASSUME TypeOK, OutInv, buflist = <<>>, NEW op \in DataOps \cup {"ping", "pong", "close"},
           NEW fin \in BOOLEAN, NEW inp \in Seq(PartSet), Write(op, fin, inp)
    PROVE  /\ OutInv'
           /\ ~draining /\ op \notin DataOps =>
                /\ buflist' # <<>> => buflist'[1].f.op = op
                /\ buflist' = <<>> /\ ~unusable' =>
                     Len(wire') > 0 /\ wire'[Len(wire')].f.op = op
<1>1. /\ OutType /\ FrameLen \in Nat \ {0} /\ zlib \in Seq(PartSet) /\ stashedFin \in BOOLEAN
      /\ stashedType \in DataOps \cup {Nil} /\ ~insideFrame
      /\ Whole(wire) /\ Fits(wire, buflist)
  BY ScriptAssumption DEF TypeOK, OutType, Segments, WireUnits, OutInv
<1>2. ASSUME NEW o \in DataOps, NEW e \in BOOLEAN, DeflatedWrite(o, e, inp) PROVE OutInv'
  <2>1. PICK d \in Deflate(inp, e) :
          \/ UNCHANGED outVars
          \/ /\ LET useType == d.out # <<>> /\ stashedType # Nil
                IN  Issue([op |-> IF useType THEN stashedType ELSE o,
                           fin |-> FragmentFin(e, d.pending),
                           parts |-> d.out, hdr |-> ~insideFrame])
             /\ UNCHANGED insideFrame
    BY <1>2 DEF DeflatedWrite
  <2>2. d.out \in Seq(PartSet) /\ d.pending \in BOOLEAN
    BY <1>1, <2>1, DeflateType
  <2>3. CASE UNCHANGED outVars
    BY <2>3 DEF outVars, OutInv
  <2>4. CASE /\ LET useType == d.out # <<>> /\ stashedType # Nil
                IN  Issue([op |-> IF useType THEN stashedType ELSE o,
                           fin |-> FragmentFin(e, d.pending),
                           parts |-> d.out, hdr |-> ~insideFrame])
             /\ UNCHANGED insideFrame
    <3> DEFINE u == d.out # <<>> /\ stashedType # Nil
               f == [op |-> IF u THEN stashedType ELSE o, fin |-> FragmentFin(e, d.pending),
                     parts |-> d.out, hdr |-> ~insideFrame]
    <3>1. f \in Frame /\ f.hdr
      BY <1>1, <2>2 DEF Frame, FragmentFin
    <3>2. Issue(f)
      BY <2>4
    <3> HIDE DEF f
    <3> QED
      BY <1>1, <2>4, <3>1, <3>2, IssueFits DEF OutInv
  <2> QED
    BY <2>1, <2>3, <2>4
<1>3. ASSUME PlainWrite(op, fin, inp)
      PROVE  /\ OutInv'
             /\ buflist' # <<>> => buflist'[1].f.op = op
             /\ buflist' = <<>> /\ ~unusable' => Len(wire') > 0 /\ wire'[Len(wire')].f.op = op
  <2> DEFINE f == [op |-> op, fin |-> fin, parts |-> inp, hdr |-> ~insideFrame]
  <2>1. f \in Frame /\ f.hdr /\ f.op = op
    BY <1>1 DEF Frame
  <2>2. Issue(f) /\ ~insideFrame'
    BY <1>1, <1>3 DEF PlainWrite
  <2> HIDE DEF f
  <2> QED
    BY <1>1, <2>1, <2>2, IssueFits DEF OutInv
<1>4. CASE draining
  <2>1. DeflatedWrite("continuation", stashedFin \/ (fin /\ inp # <<>>), inp)
    BY <1>4 DEF Write
  <2>2. "continuation" \in DataOps /\ (stashedFin \/ (fin /\ inp # <<>>)) \in BOOLEAN
    BY DEF DataOps
  <2> QED
    BY <1>2, <1>4, <2>1, <2>2
<1>5. CASE ~draining /\ pmd /\ op \in DataOps
  BY <1>2, <1>5 DEF Write
<1>6. CASE ~draining /\ ~(pmd /\ op \in DataOps)
  BY <1>3, <1>6 DEF Write
<1> QED
  BY <1>4, <1>5, <1>6

\* What the user's next write is.
LEMMA NextWrite ==
    ASSUME TypeOK, next <= queued
    PROVE  /\ script[next].op \in DataOps \cup {"ping", "close"} /\ script[next].fin \in BOOLEAN
           /\ Content(next) \in Seq(PartSet)
<1> DEFINE W == [op : DataOps \cup {"ping", "close"}, fin : BOOLEAN]
<1>1. script \in Seq(W) /\ Parts \in Nat
  BY ScriptAssumption DEF TypeOK
<1>2. Len(script) \in Nat
  BY <1>1
<1>3. next \in 1..Len(script)
  BY <1>2 DEF TypeOK
<1>4. Content(next) \in [1..Parts -> PartSet]
  BY <1>3 DEF Content, PartSet
<1>5. Content(next) \in Seq(PartSet)
  BY <1>1, <1>4
<1> HIDE DEF W
<1>6. script[next] \in W
  BY <1>1, <1>3
<1> QED
  BY <1>5, <1>6 DEF W

\* Buffered output goes on its way.
LEMMA FlushFits ==
    ASSUME TypeOK, OutInv, NEW forced, EventFlush(forced)
    PROVE  /\ OutInv'
           /\ buflist' # <<>> => buflist'[1].f = buflist[1].f
           /\ buflist' = <<>> => Len(wire') > 0 /\ wire'[Len(wire')].f = buflist[1].f
<1>1. /\ buflist \in Seq(Segments) /\ wire \in Seq(WireUnits) /\ FrameLen \in Nat \ {0}
      /\ buflist # <<>> /\ Whole(wire) /\ Fits(wire, buflist) /\ ~insideFrame
  BY ScriptAssumption DEF TypeOK, Segments, WireUnits, OutInv, EventFlush
<1>2. ~insideFrame'
  BY <1>1 DEF EventFlush
<1>3. CASE SendFails(buflist)
  BY <1>1, <1>2, <1>3 DEF SendFails, OutInv
<1>4. ASSUME NEW n \in 0..Head(buflist).left, SendHead(buflist, n)
      PROVE  /\ OutInv'
             /\ buflist' # <<>> => buflist'[1].f = buflist[1].f
             /\ buflist' = <<>> => Len(wire') > 0 /\ wire'[Len(wire')].f = buflist[1].f
  <2>1. wire' = wire \o Units(Head(buflist), n) /\ buflist' = Rest(buflist, n)
    BY <1>4 DEF SendHead
  <2> QED
    BY <1>1, <1>2, <1>4, <2>1, SendFits DEF OutInv
<1> QED
  BY <1>3, <1>4 DEF EventFlush

\* Only a write and a flush touch the wire, and a write only when nothing is buffered.
LEMMA OutCorrect == Spec => []OutInv
<1>1. Init => OutInv
  BY ScriptAssumption DEF Init, OutInv, Whole, Fits
<1>2. TypeOK /\ OutInv /\ [Next]_vars => OutInv'
  <2> SUFFICES ASSUME TypeOK, OutInv, [Next]_vars PROVE OutInv'
    OBVIOUS
  <2>0. <<>> \in Seq(PartSet) /\ "continuation" \in DataOps
    BY DEF DataOps
  <2>1. CASE UNCHANGED outVars
    BY <2>1 DEF outVars, OutInv
  <2>2. ASSUME NEW forced \in BOOLEAN, EventFlush(forced) PROVE OutInv'
    BY <2>2, FlushFits
  <2>3. ASSUME NEW forced \in BOOLEAN, EventCheckPing(forced) PROVE OutInv'
    BY <2>0, <2>3, WriteFits DEF EventCheckPing, NothingBuffered
  <2>4. ASSUME NEW forced \in BOOLEAN, EventDrain(forced) PROVE OutInv'
    BY <2>0, <2>4, WriteFits DEF EventDrain, NothingBuffered
  <2>5. CASE EventClose
    BY <2>0, <2>5, WriteFits DEF EventClose, NothingBuffered
  <2>6. CASE EventPong
    BY <2>0, <2>1, <2>6, WriteFits DEF EventPong, NothingBuffered
  <2>7. CASE UserData
    <3>1. /\ script[next].op \in DataOps /\ script[next].fin \in BOOLEAN
          /\ Content(next) \in Seq(PartSet) /\ buflist = <<>>
          /\ Write(script[next].op, script[next].fin, Content(next))
      BY <2>7, NextWrite DEF UserData, UserTurn, NothingBuffered
    <3> QED
      BY <3>1, WriteFits
  <2>8. CASE UserPing
    BY <2>0, <2>8, WriteFits DEF UserPing, UserTurn, NothingBuffered
  <2> QED
    BY <2>1, <2>2, <2>3, <2>4, <2>5, <2>6, <2>7, <2>8
    DEF Next, Pollout, Recv, Timers, Over, Submit, RecvPing, RecvPong, RecvClose, RecvBad,
        ReadFails, Timeout, ValidityPing, ValidityHangup, EventFlushed, UserNothing, UserClose, vars
<1> QED
  BY <1>1, <1>2, TypeCorrect, PTL DEF Spec

\* The peer sees whole frames, one after the other, however the socket cuts them up.
THEOREM FramesWholeCorrect == Spec => []FramesWhole
<1>1. TypeOK /\ OutInv => FramesWhole
  <2> SUFFICES ASSUME TypeOK, OutInv PROVE FramesWhole
    OBVIOUS
  <2>1. buflist \in Seq(Segments) /\ Whole(wire) /\ Fits(wire, buflist)
    BY DEF TypeOK, OutInv, Segments
  <2>2. ASSUME Len(wire) % FrameLen # 0
        PROVE  buflist # <<>> /\ buflist[1] = [f |-> Last(wire).f,
                                               left |-> FrameLen - (Len(wire) % FrameLen)]
    <3>1. /\ buflist # <<>> /\ Len(buflist) = 1
          /\ buflist[1].f = wire[Len(wire)].f /\ buflist[1].left = FrameLen - (Len(wire) % FrameLen)
      BY <2>1, <2>2 DEF Fits
    <3>2. buflist[1] \in Segments
      BY <2>1, <3>1
    <3> QED
      BY <3>1, <3>2 DEF Segments, Last
  <2> QED
    BY <2>1, <2>2 DEF FramesWhole, Whole
<1> QED
  BY <1>1, TypeCorrect, OutCorrect, PTL

-----------------------------------------------------------------------------
(* POLLOUT.                                                                  *)

\* what waits for POLLOUT
Waits == \/ buflist # <<>> \/ draining \/ pongPending \/ sendCheckPing
         \/ lrs = "waiting_to_send_close" \/ next <= queued

\* A close of the connection for any other reason than a POLLOUT event.
LEMMA CloseAsks ==
    ASSUME TypeOK, PolloutAsked, lrs # "dead", NEW st \in LRS, NEW reason,
           CloseFree(st, unusable, reason, buflist # <<>>),
           UNCHANGED <<buflist, draining, pongPending, sendCheckPing, next, queued, unusable>>
    PROVE  PolloutAsked'
<1>1. /\ closeNeedsAck \in BOOLEAN /\ pollout \in BOOLEAN /\ unusable \in BOOLEAN
      /\ (buflist # <<>>) \in BOOLEAN
  BY DEF TypeOK
<1>2. /\ lrs' = "waiting_to_send_close" => pollout'
      /\ lrs' # "dead" /\ pollout => pollout'
  BY <1>1, CloseFreeStep
<1> QED
  BY <1>2 DEF PolloutAsked

\* Output that waits has asked for POLLOUT.
THEOREM PolloutAskedCorrect == Spec => []PolloutAsked
<1>1. Init => PolloutAsked
  BY DEF Init, PolloutAsked
<1>2. TypeOK /\ PolloutAsked /\ [Next]_vars => PolloutAsked'
  <2> SUFFICES ASSUME TypeOK, PolloutAsked, [Next]_vars PROVE PolloutAsked'
    OBVIOUS
  <2>0. /\ lrs \in LRS /\ closeNeedsAck \in BOOLEAN /\ pollout \in BOOLEAN
        /\ unusable \in BOOLEAN /\ <<>> \in Seq(PartSet) /\ "continuation" \in DataOps
    BY DEF TypeOK, DataOps
  \* an event that ends alive leaves POLLOUT active
  <2>1. ASSUME NEW forced \in BOOLEAN, NEW die \in BOOLEAN, Carry(die, forced),
             unusable' \in BOOLEAN,
               die => unusable' \/ (lrs = "flushing_before_close" /\ buflist' = <<>>)
        PROVE  PolloutAsked'
    BY <2>0, <2>1, CarryStep DEF PolloutAsked
  <2>2. ASSUME NEW forced \in BOOLEAN, EventFlush(forced) PROVE PolloutAsked'
    <3> DEFINE die == unusable' \/ (lrs = "flushing_before_close" /\ buflist' = <<>>)
    <3>1. Carry(die, forced) /\ die \in BOOLEAN /\ unusable' \in BOOLEAN
      BY <2>0, <2>2 DEF EventFlush, SendFails
    <3> QED
      BY <2>1, <3>1
  <2>3. ASSUME NEW forced \in BOOLEAN, EventFlushed(forced) PROVE PolloutAsked'
    BY <2>1, <2>3 DEF EventFlushed
  <2>4. ASSUME NEW forced \in BOOLEAN, EventCheckPing(forced) PROVE PolloutAsked'
    <3>1. unusable' \in BOOLEAN
      BY <2>0, <2>4, WriteType DEF EventCheckPing
    <3> QED
      BY <2>1, <2>4, <3>1 DEF EventCheckPing
  <2>5. ASSUME NEW forced \in BOOLEAN, EventDrain(forced) PROVE PolloutAsked'
    <3>1. unusable' \in BOOLEAN
      BY <2>0, <2>5, WriteType DEF EventDrain
    <3> QED
      BY <2>1, <2>5, <3>1 DEF EventDrain
  <2>6. CASE EventPong
    <3>1. unusable' \in BOOLEAN
      BY <2>0, <2>6, WriteType DEF EventPong
    <3> QED
      BY <2>1, <2>6, <3>1 DEF EventPong
  <2>7. CASE EventClose
    <3>1. pollout /\ unusable' \in BOOLEAN /\ (buflist' # <<>>) \in BOOLEAN
      BY <2>0, <2>7, WriteType DEF EventClose, Event
    <3>2. CASE unusable'
      BY <3>2 DEF PolloutAsked
    <3>3. CASE UNCHANGED pollout
      BY <3>1, <3>3 DEF PolloutAsked
    <3>4. CASE CloseFree("flushing_before_close", unusable', Nil, buflist' # <<>>)
      <4>1. "flushing_before_close" \in LRS
        BY DEF LRS
      <4>2. lrs' # "dead" => pollout'
        BY <2>0, <3>1, <3>4, <4>1, CloseFreeStep
      <4> QED
        BY <4>2 DEF PolloutAsked
    <3> QED
      BY <2>7, <3>2, <3>3, <3>4 DEF EventClose, CloseAnswer
  \* the WRITEABLE callback
  <2>8. CASE UserNothing
    <3>1. ~Waits
      BY <2>8 DEF UserNothing, UserTurn, NothingBuffered, NoControl, Waits, TypeOK
    <3>2. UNCHANGED <<buflist, draining, pongPending, sendCheckPing, lrs, next, queued>>
      BY <2>8 DEF UserNothing, queueVars, extVars, pongVars, validityVars, outVars
    <3> QED
      BY <3>1, <3>2 DEF Waits, PolloutAsked
  <2>9. CASE UserData
    <3>1. unusable' \in BOOLEAN
      <4>1. /\ script[next].op \in DataOps /\ script[next].fin \in BOOLEAN
            /\ Content(next) \in Seq(PartSet)
            /\ Write(script[next].op, script[next].fin, Content(next))
        BY <2>9, NextWrite DEF UserData
      <4> QED
        BY <4>1, WriteType
    <3> QED
      BY <2>1, <2>9, <3>1 DEF UserData
  <2>10. CASE UserPing
    <3>1. unusable' \in BOOLEAN
      BY <2>0, <2>10, WriteType DEF UserPing
    <3> QED
      BY <2>1, <2>10, <3>1 DEF UserPing
  <2>11. CASE UserClose
    <3>1. pollout /\ CloseFree(lrs, FALSE, "own", FALSE)
      BY <2>11 DEF UserClose, UserTurn, Event
    <3>2. lrs' # "dead" => pollout'
      BY <2>0, <3>1, CloseFreeStep
    <3> QED
      BY <3>2 DEF PolloutAsked
  \* the queue, the receiving side and the timers
  <2>12. CASE Submit \/ RecvPing \/ ValidityPing \/ Timeout
    BY <2>12 DEF Submit, RecvPing, ValidityPing, Timeout, PolloutAsked
  <2>13. CASE RecvPong \/ UNCHANGED vars
    BY <2>13 DEF RecvPong, PolloutAsked, vars, queueVars, extVars, pongVars, validityVars, outVars
  <2>14. CASE RecvClose
    <3>1. CASE CloseFree(lrs, unusable, closeBuf, buflist # <<>>)
      BY <2>0, <2>14, <3>1, CloseAsks
      DEF RecvClose, Reads, queueVars, extVars, pongVars, validityVars, outVars
    <3>2. CASE pollout' = TRUE
      BY <3>2 DEF PolloutAsked
    <3> QED
      BY <2>14, <3>1, <3>2 DEF RecvClose
  <2>15. CASE RecvBad \/ ReadFails \/ ValidityHangup
    BY <2>0, <2>15, CloseAsks
    DEF RecvBad, ReadFails, ValidityHangup, Reads, queueVars, extVars, pongVars, validityVars,
               outVars
  <2> QED
    BY <2>2, <2>3, <2>4, <2>5, <2>6, <2>7, <2>8, <2>9, <2>10, <2>11, <2>12, <2>13, <2>14, <2>15
    DEF Next, Pollout, Recv, Timers, Over
<1> QED
  BY <1>1, <1>2, TypeCorrect, PTL DEF Spec

-----------------------------------------------------------------------------
(* The answer to the peer's close.                                           *)

\* A frame that ends where the wire w does is the last one that was sent.
LEMMA LastSent ==
    ASSUME FrameLen \in Nat \ {0}, NEW w, Len(w) \in Nat, Len(w) > 0, Len(w) % FrameLen = 0
    PROVE  LET sent == [k \in 1..(Len(w) \div FrameLen) |-> w[k * FrameLen].f]
           IN  sent # <<>> /\ Last(sent) = w[Len(w)].f
<1> DEFINE n == Len(w) \div FrameLen
           sent == [k \in 1..(Len(w) \div FrameLen) |-> w[k * FrameLen].f]
<1>1. n \in Nat /\ n * FrameLen = Len(w) /\ n > 0
  <2>1. n \in Int /\ Len(w) = FrameLen * n + (Len(w) % FrameLen)
    BY SMT
  <2> HIDE DEF n
  <2>2. Len(w) = FrameLen * n
    BY <2>1
  <2>3. n > 0
    BY <2>1, <2>2, SMT
  <2> QED
    BY <2>1, <2>2, <2>3
<1>2. sent = [k \in 1..n |-> w[k * FrameLen].f]
  OBVIOUS
<1> HIDE DEF n, sent
<1>3. Len(sent) = n /\ n \in 1..n /\ sent # <<>>
  BY <1>1, <1>2
<1>4. sent[n] = w[n * FrameLen].f
  BY <1>2, <1>3
<1> QED
  BY <1>1, <1>3, <1>4 DEF Last, sent

\* A close of the peer is answered with a whole frame before the connection ends.
THEOREM CloseAnswerSentCorrect == Spec => []CloseAnswerSent
<1>1. Init => AnswerInv
  BY NilAssumption DEF Init, AnswerInv
<1>2. TypeOK /\ TypeOK' /\ ReasonInv /\ OutInv /\ OutInv' /\ AnswerInv /\ [Next]_vars => AnswerInv'
  <2> SUFFICES ASSUME TypeOK, TypeOK', ReasonInv, OutInv, OutInv', AnswerInv, [Next]_vars
               PROVE  AnswerInv'
    OBVIOUS
  <2> DEFINE Answering == closeBuf = "peer" /\ ~closeNeedsAck
  <2>0. /\ lrs \in LRS /\ closeNeedsAck \in BOOLEAN /\ pollout \in BOOLEAN
        /\ unusable \in BOOLEAN /\ unusable' \in BOOLEAN /\ draining \in BOOLEAN
        /\ <<>> \in Seq(PartSet) /\ "close" \notin DataOps
        /\ FrameLen \in Nat \ {0} /\ Len(wire') \in Nat
        /\ draining => lrs # "waiting_to_send_close"
    BY ScriptAssumption DEF TypeOK, DataOps
  \* in no other state than these is a close of the peer being answered
  <2>1. lrs \in {"established", "awaiting_close_ack"} => ~Answering
    BY DEF AnswerInv
  <2>2. ASSUME ~Answering, UNCHANGED closeBuf, closeNeedsAck => closeNeedsAck' PROVE AnswerInv'
    BY <2>2 DEF AnswerInv
  <2>3. ASSUME closeBuf' # "peer" PROVE AnswerInv'
    BY <2>3 DEF AnswerInv
  <2>4. CASE RecvClose
    <3>1. CASE lrs = "established" /\ lrs' = "waiting_to_send_close"
      BY <3>1 DEF AnswerInv
    <3>2. CASE lrs = "awaiting_close_ack" /\ UNCHANGED closeBuf
               /\ CloseFree(lrs, unusable, closeBuf, buflist # <<>>)
      BY <2>1, <2>2, <3>2 DEF CloseFree
    <3> QED
      BY <2>4, <3>1, <3>2 DEF RecvClose
  <2>5. CASE UserClose \/ RecvBad \/ ValidityPing
    BY <2>3, <2>5, NilAssumption DEF UserClose, RecvBad, ValidityPing
  <2>6. CASE ReadFails \/ RecvPing \/ RecvPong
    BY <2>1, <2>2, <2>6 DEF ReadFails, RecvPing, RecvPong, Reads, CloseFree
  <2>7. CASE Timeout
    <3>1. lrs' = "dead" /\ unusable'
      BY <2>0, <2>7, CloseFreeStep DEF Timeout
    <3> QED
      BY <3>1 DEF AnswerInv
  <2>8. CASE ValidityHangup
    <3>1. lrs' \in {"dead", "flushing_before_close", "waiting_to_send_close"} /\ validityHup'
      <4>1. (buflist # <<>>) \in BOOLEAN
        OBVIOUS
      <4> QED
        BY <2>0, <2>8, <4>1, CloseFreeStep DEF ValidityHangup, validityVars
    <3> QED
      BY <3>1 DEF AnswerInv
  <2>9. CASE Submit \/ UNCHANGED vars
    <3>1. UNCHANGED <<closeBuf, closeNeedsAck, lrs, unusable, validityHup, draining, buflist, wire>>
      BY <2>9 DEF Submit, vars, extVars, validityVars, outVars
    <3> QED
      BY <3>1 DEF AnswerInv, AnswerOut, Sent
  \* events that find the connection open
  <2>10. ASSUME lrs \notin {"dead", "flushing_before_close", "waiting_to_send_close"},
                UNCHANGED <<closeBuf, closeNeedsAck>>
         PROVE  AnswerInv'
    BY <2>0, <2>1, <2>2, <2>10 DEF LRS
  <2>11. ASSUME NEW forced \in BOOLEAN, EventCheckPing(forced) \/ EventDrain(forced)
         PROVE  AnswerInv'
    <3>1. Carry(unusable', forced) /\ UNCHANGED closeBuf
          /\ lrs \notin {"dead", "flushing_before_close", "waiting_to_send_close"}
      BY <2>11 DEF EventCheckPing, EventDrain, Event, NothingBuffered, NoControl
    <3> QED
      BY <2>0, <2>10, <3>1, CarryStep
  <2>12. CASE EventPong \/ UserData \/ UserPing \/ UserNothing
    <3>1. /\ Carry(FALSE, FALSE) \/ Carry(unusable', FALSE) \/ UNCHANGED closeNeedsAck
          /\ UNCHANGED closeBuf
          /\ lrs \notin {"dead", "flushing_before_close", "waiting_to_send_close"}
      BY <2>12 DEF EventPong, UserData, UserPing, UserNothing, UserTurn, Event, NothingBuffered,
                 NoControl
    <3> QED
      BY <2>0, <2>10, <3>1, CarryStep
  \* the answer is written
  <2>13. CASE EventClose
    <3>1. /\ lrs = "waiting_to_send_close" /\ ~draining /\ buflist = <<>>
          /\ Write("close", TRUE, <<>>)
          /\ UNCHANGED <<closeBuf, validityHup>>
      BY <2>0, <2>13 DEF EventClose, NothingBuffered, validityVars
    <3>2. /\ buflist' # <<>> => buflist'[1].f.op = "close"
          /\ buflist' = <<>> /\ ~unusable' => Len(wire') > 0 /\ wire'[Len(wire')].f.op = "close"
          /\ UNCHANGED extVars
      BY <2>0, <3>1, WriteFits, WriteType
    <3>3. CASE unusable' /\ CloseFree(lrs, TRUE, closeBuf, FALSE)
      <4>1. lrs' = "dead"
        BY <2>0, <3>3, CloseFreeStep
      <4> QED
        BY <3>3, <4>1 DEF AnswerInv
    <3>4. CASE closeNeedsAck /\ UNCHANGED closeNeedsAck
      BY <3>4 DEF AnswerInv
    <3>5. CASE ~unusable' /\ CloseFree("flushing_before_close", unusable', Nil, buflist' # <<>>)
      <4>1. lrs' = IF buflist' # <<>> THEN "flushing_before_close" ELSE "dead"
        BY <3>5 DEF CloseFree, AfterClose
      <4>2. buflist' = <<>> => AnswerOut'
        <5> SUFFICES ASSUME buflist' = <<>> PROVE AnswerOut'
          OBVIOUS
        <5>1. Len(wire') % FrameLen = 0
          BY DEF OutInv, Fits
        <5>2. Len(wire') > 0 /\ wire'[Len(wire')].f.op = "close"
          BY <3>2, <3>5
        <5> QED
          BY <2>0, <5>1, <5>2, LastSent DEF AnswerOut, Sent
      <4>3. ~draining'
        BY <3>1, <3>2 DEF extVars
      <4> QED
        BY <3>2, <4>1, <4>2, <4>3 DEF AnswerInv
    <3> QED
      BY <2>13, <3>3, <3>4, <3>5 DEF EventClose, CloseAnswer
  \* the answer goes out
  <2>14. ASSUME NEW forced \in BOOLEAN, EventFlush(forced) PROVE AnswerInv'
    <3> DEFINE die == unusable' \/ (lrs = "flushing_before_close" /\ buflist' = <<>>)
    <3>1. /\ Carry(die, forced) /\ die \in BOOLEAN
          /\ forced => draining
          /\ UNCHANGED <<closeBuf, validityHup, draining>> /\ lrs # "dead"
          /\ unusable => unusable'
      BY <2>14 DEF EventFlush, Event, extVars, validityVars, SendFails
    <3>2. /\ UNCHANGED closeNeedsAck
          /\ lrs' = lrs \/ (lrs' = "dead" /\ die)
      BY <2>0, <3>1, CarryStep
    <3>3. CASE ~Answering
      BY <2>2, <3>1, <3>2, <3>3
    <3>4. CASE Answering /\ lrs = "waiting_to_send_close"
      BY <3>1, <3>2, <3>4 DEF AnswerInv
    <3>5. CASE Answering /\ lrs = "flushing_before_close"
      <4>1. CASE unusable' \/ validityHup
        BY <3>1, <3>2, <3>5, <4>1 DEF AnswerInv
      <4>2. CASE ~unusable' /\ ~validityHup
        <5>1. ~draining /\ buflist # <<>> /\ buflist[1].f.op = "close" /\ ~forced
          BY <3>1, <3>5, <4>2 DEF AnswerInv
        <5>2. CASE buflist' # <<>>
          <6>1. lrs' = lrs /\ buflist'[1].f.op = "close"
            BY <2>14, <3>2, <3>5, <4>2, <5>1, <5>2, FlushFits
          <6> QED
            BY <3>1, <3>5, <5>1, <5>2, <6>1 DEF AnswerInv
        <5>3. CASE buflist' = <<>>
          <6>1. Len(wire') > 0 /\ wire'[Len(wire')].f.op = "close" /\ Len(wire') % FrameLen = 0
            BY <2>14, <5>1, <5>3, FlushFits DEF OutInv, Fits
          <6>2. AnswerOut'
            BY <2>0, <6>1, LastSent DEF AnswerOut, Sent
          <6>3. CloseFree(lrs, unusable', closeBuf, buflist' # <<>>)
            BY <3>1, <3>5, <5>1, <5>3 DEF Carry
          <6>4. lrs' = "dead"
            BY <3>5, <5>3, <6>3 DEF CloseFree, AfterClose
          <6> QED
            BY <6>2, <6>4 DEF AnswerInv
        <5> QED
          BY <5>2, <5>3
      <4> QED
        BY <4>1, <4>2
    <3> QED
      BY <3>1, <3>3, <3>4, <3>5 DEF AnswerInv
  <2>15. ASSUME NEW forced \in BOOLEAN, EventFlushed(forced) PROVE AnswerInv'
    <3>1. /\ unusable' /\ UNCHANGED closeBuf /\ Carry(TRUE, forced)
          /\ lrs = "flushing_before_close"
      BY <2>15 DEF EventFlushed
    <3>2. lrs' = lrs \/ lrs' = "dead"
      BY <2>0, <3>1, CarryStep
    <3> QED
      BY <3>1, <3>2 DEF AnswerInv
  <2> QED
    BY <2>4, <2>5, <2>6, <2>7, <2>8, <2>9, <2>11, <2>12, <2>13, <2>14, <2>15
    DEF Next, Pollout, Recv, Timers, Over
<1>3. AnswerInv => CloseAnswerSent
  BY DEF AnswerInv, CloseAnswerSent, AnswerOut
<1> QED
  BY <1>1, <1>2, <1>3, TypeReason, OutCorrect, PTL DEF Spec

-----------------------------------------------------------------------------
(* Messages.  What the data frames issued so far say is compared with what   *)
(* the client has put; the difference is inside the compressor.              *)

\* Induction over the naturals, with the property as a set.
LEMMA SetInduction ==
    ASSUME NEW S, 0 \in S, \A n \in Nat : n \in S => n + 1 \in S
    PROVE  \A n \in Nat : n \in S
<1> DEFINE T == Nat \ S
<1>1. SUFFICES ASSUME T # {} PROVE FALSE
  OBVIOUS
<1>2. T \subseteq Nat
  OBVIOUS
<1> HIDE DEF T
<1>3. PICK m \in T : \A y \in T : ~(<<y, m>> \in OpToRel(<, Nat))
  BY <1>1, <1>2, WFMin, NatLessThanWellFounded, Zenon
<1>4. m \in Nat /\ m \notin S
  BY <1>3 DEF T
<1>5. m # 0 /\ m - 1 \in Nat /\ m - 1 < m /\ (m - 1) + 1 = m
  BY <1>4
<1>6. m - 1 \notin S
  BY <1>4, <1>5
<1>7. m - 1 \in T
  BY <1>5, <1>6 DEF T
<1>8. <<m - 1, m>> \in OpToRel(<, Nat)
  BY <1>4, <1>5 DEF OpToRel
<1> QED
  BY <1>3, <1>7, <1>8

\* h starts with e and goes on by step
Follows(h, e, step, N) == h[0] = e /\ \A i \in 1..N : h[i] = step[i][h[i - 1]]

\* A function on an interval can be defined by where it starts and how it goes on.
LEMMA Recursion ==
    ASSUME NEW X, NEW e \in X, NEW N \in Nat, NEW step \in [Nat -> [X -> X]]
    PROVE  \E h \in [0..N -> X] : Follows(h, e, step, N)
<1> DEFINE Is(h, n) == /\ h \in [0..n -> X] /\ h[0] = e
                       /\ \A i \in 1..n : h[i] = step[i][h[i - 1]]
           T == {n \in Nat : \E h : Is(h, n)}
<1>1. 0 \in T
  <2> DEFINE h == [i \in 0..0 |-> e]
  <2>1. Is(h, 0)
    OBVIOUS
  <2> HIDE DEF h, Is
  <2> QED
    BY <2>1
<1>2. ASSUME NEW n \in Nat, n \in T PROVE n + 1 \in T
  <2>1. PICK h : Is(h, n)
    BY <1>2
  <2> DEFINE x == step[n + 1][h[n]]
             g == [i \in 0..(n + 1) |-> IF i <= n THEN h[i] ELSE x]
  <2>2. x \in X
    BY <2>1
  <2> HIDE DEF x
  <2>3. g \in [0..(n + 1) -> X] /\ g[0] = e
    BY <2>1, <2>2
  <2>4. ASSUME NEW i \in 1..(n + 1) PROVE g[i] = step[i][g[i - 1]]
    <3>1. CASE i <= n
      <4>1. i \in 1..n /\ g[i] = h[i] /\ g[i - 1] = h[i - 1]
        BY <3>1
      <4> QED
        BY <2>1, <4>1
    <3>2. CASE i = n + 1
      <4>1. g[i] = x /\ g[i - 1] = h[n]
        BY <3>2
      <4> QED
        BY <3>2, <4>1 DEF x
    <3> QED
      BY <3>1, <3>2
  <2> HIDE DEF g
  <2>5. Is(g, n + 1)
    BY <2>3, <2>4
  <2> HIDE DEF Is
  <2> QED
    BY <2>5
<1>3. \A n \in Nat : n \in T
  <2> HIDE DEF T
  <2> QED
    BY <1>1, <1>2, SetInduction
<1>4. PICK h : Is(h, N)
  BY <1>3
<1> QED
  BY <1>4 DEF Follows

\* what can be said in parts of P; nothing was said yet
Said(P) == [parts : Seq(P), open : BOOLEAN]
Silence == [parts |-> <<>>, open |-> FALSE]

\* a set of frames whose parts are in P
Speaking(X, P) == \A f \in X : f.fin \in BOOLEAN /\ f.parts \in Seq(P)

\* Hearing a frame.
LEMMA HearType ==
    ASSUME NEW P, NEW X, Speaking(X, P), NEW r \in Said(P), NEW f \in X
    PROVE  Hear(r, f) \in Said(P)
<1>1. r.parts \in Seq(P) /\ f.parts \in Seq(P) /\ f.fin \in BOOLEAN /\ (~f.fin) \in BOOLEAN
  BY DEF Said, Speaking
<1>2. r.parts \o f.parts \in Seq(P)
  BY <1>1
<1>3. [parts |-> r.parts \o f.parts, open |-> ~f.fin] \in Said(P)
  BY <1>1, <1>2 DEF Said
<1> QED
  BY <1>3 DEF Hear

\* The function Heard defines: where it starts and what a frame adds.
LEMMA HeardFacts ==
    ASSUME NEW P, NEW X, Speaking(X, P), NEW fs \in Seq(X)
    PROVE  /\ Heard(fs)[0] = Silence
           /\ \A n \in 0..Len(fs) : Heard(fs)[n] \in Said(P)
           /\ \A n \in 1..Len(fs) : Heard(fs)[n] = Hear(Heard(fs)[n - 1], fs[n])
<1> DEFINE step == [i \in Nat |-> [r \in Said(P) |->
                      IF i \in 1..Len(fs) THEN Hear(r, fs[i]) ELSE r]]
<1>1. Len(fs) \in Nat /\ Silence \in Said(P) /\ \A i \in 1..Len(fs) : fs[i] \in X
  <2>1. <<>> \in Seq(P)
    OBVIOUS
  <2> QED
    BY <2>1 DEF Silence, Said
<1>2. \A i \in 1..Len(fs), r \in Said(P) : Hear(r, fs[i]) \in Said(P)
  BY <1>1, HearType
<1>3. step \in [Nat -> [Said(P) -> Said(P)]]
  BY <1>2
<1>4. \A i \in 1..Len(fs), r \in Said(P) : step[i][r] = Hear(r, fs[i])
  BY <1>1
<1> HIDE DEF step
<1>5. PICK h \in [0..Len(fs) -> Said(P)] :
        h[0] = Silence /\ \A i \in 1..Len(fs) : h[i] = Hear(h[i - 1], fs[i])
  <2>1. PICK h \in [0..Len(fs) -> Said(P)] : Follows(h, Silence, step, Len(fs))
    BY <1>1, <1>3, Recursion
  <2>2. ASSUME NEW i \in 1..Len(fs) PROVE h[i] = Hear(h[i - 1], fs[i])
    <3>1. h[i - 1] \in Said(P)
      BY <1>1
    <3> QED
      BY <1>4, <2>1, <3>1 DEF Follows
  <2> QED
    BY <2>1, <2>2 DEF Follows
<1> DEFINE F(g) == [n \in 0..Len(fs) |-> IF n = 0 THEN [parts |-> <<>>, open |-> FALSE]
                                         ELSE Hear(g[n - 1], fs[n])]
<1>6. h = F(h)
  <2>1. h \in [0..Len(fs) -> Said(P)]
    BY <1>5
  <2>2. ASSUME NEW i \in 0..Len(fs) PROVE h[i] = F(h)[i]
    <3>1. CASE i = 0
      BY <1>5, <3>1 DEF Silence
    <3>2. CASE i # 0
      <4>1. i \in 1..Len(fs)
        BY <1>1, <3>2
      <4> QED
        BY <1>5, <3>2, <4>1
    <3> QED
      BY <3>1, <3>2
  <2> QED
    BY <2>1, <2>2
<1> DEFINE k == Heard(fs)
<1>7. k = CHOOSE g : g = F(g)
  BY DEF Heard
<1> HIDE DEF k
<1>8. k = F(k)
  <2> HIDE DEF F
  <2> QED
    BY <1>6, <1>7
<1>9. k[0] = Silence /\ \A n \in 1..Len(fs) : k[n] = Hear(k[n - 1], fs[n])
  <2>2. \A n \in 0..Len(fs) : k[n] = F(k)[n]
    BY <1>8
  <2>3. k[0] = Silence
    BY <1>1, <2>2 DEF Silence
  <2>4. ASSUME NEW n \in 1..Len(fs) PROVE k[n] = Hear(k[n - 1], fs[n])
    <3>1. n \in 0..Len(fs) /\ n # 0
      BY <1>1
    <3> QED
      BY <2>2, <3>1
  <2> QED
    BY <2>3, <2>4
<1>10. \A n \in 0..Len(fs) : k[n] \in Said(P)
  <2> DEFINE U == {n \in Nat : n <= Len(fs) => k[n] \in Said(P)}
  <2>1. 0 \in U
    BY <1>1, <1>9
  <2>2. ASSUME NEW n \in Nat, n \in U PROVE n + 1 \in U
    <3>1. SUFFICES ASSUME n + 1 <= Len(fs) PROVE k[n + 1] \in Said(P)
      OBVIOUS
    <3>2. n + 1 \in 1..Len(fs) /\ (n + 1) - 1 = n
      BY <1>1, <3>1
    <3>3. k[n] \in Said(P)
      BY <1>1, <2>2, <3>1
    <3>4. k[n + 1] = Hear(k[n], fs[n + 1])
      BY <1>9, <3>2
    <3> QED
      BY <1>1, <3>2, <3>3, <3>4, HearType
  <2>3. \A n \in Nat : n \in U
    <3> HIDE DEF U
    <3> QED
      BY <2>1, <2>2, SetInduction
  <2> QED
    BY <1>1, <2>3
<1> QED
  BY <1>9, <1>10 DEF k

\* What was heard depends on the frames so far only.
LEMMA HeardAgree ==
    ASSUME NEW P, NEW X, Speaking(X, P), NEW s \in Seq(X), NEW t \in Seq(X), NEW m \in Nat,
           m <= Len(s), m <= Len(t), \A i \in 1..m : s[i] = t[i]
    PROVE  \A i \in 0..m : Heard(s)[i] = Heard(t)[i]
<1> DEFINE T == {n \in Nat : n <= m => Heard(s)[n] = Heard(t)[n]}
<1>1. Len(s) \in Nat /\ Len(t) \in Nat
  OBVIOUS
<1>2. 0 \in T
  BY HeardFacts
<1>3. ASSUME NEW n \in Nat, n \in T PROVE n + 1 \in T
  <2>1. SUFFICES ASSUME n + 1 <= m PROVE Heard(s)[n + 1] = Heard(t)[n + 1]
    OBVIOUS
  <2>2. /\ n + 1 \in 1..Len(s) /\ n + 1 \in 1..Len(t) /\ n + 1 \in 1..m
        /\ (n + 1) - 1 = n /\ n <= m
    BY <1>1, <2>1
  <2>3. Heard(s)[n] = Heard(t)[n]
    BY <1>3, <2>2
  <2>4. Heard(s)[n + 1] = Hear(Heard(s)[n], s[n + 1])
    BY <2>2, HeardFacts
  <2>5. Heard(t)[n + 1] = Hear(Heard(t)[n], t[n + 1])
    BY <2>2, HeardFacts
  <2> QED
    BY <2>2, <2>3, <2>4, <2>5
<1>4. \A n \in Nat : n \in T
  <2> HIDE DEF T
  <2> QED
    BY <1>2, <1>3, SetInduction
<1> QED
  BY <1>4

\* t is s and one more frame f
OneMore(t, s, f) ==
    /\ Len(t) = Len(s) + 1 /\ Len(s) \in Nat /\ t[Len(s) + 1] = f
    /\ \A i \in 1..Len(s) : t[i] = s[i]
    /\ \A i \in 0..Len(s) : Heard(t)[i] = Heard(s)[i]
    /\ Heard(t)[Len(t)] = Hear(Heard(s)[Len(s)], f)

\* One more frame, and what it adds.
LEMMA HeardAppend ==
    ASSUME NEW P, NEW X, Speaking(X, P), NEW s \in Seq(X), NEW f \in X, NEW t, t = Append(s, f)
    PROVE  t \in Seq(X) /\ OneMore(t, s, f)
<1>1. /\ t \in Seq(X) /\ Len(t) = Len(s) + 1 /\ Len(s) \in Nat /\ t[Len(s) + 1] = f
      /\ \A i \in 1..Len(s) : t[i] = s[i]
  OBVIOUS
<1>2. Len(s) <= Len(s) /\ Len(s) <= Len(t) /\ Len(t) \in 1..Len(t) /\ Len(t) - 1 = Len(s)
  BY <1>1
<1>3. \A i \in 0..Len(s) : Heard(t)[i] = Heard(s)[i]
  <2> DEFINE m == Len(s)
  <2>1. m \in Nat /\ m <= Len(s) /\ m <= Len(t) /\ \A i \in 1..m : t[i] = s[i]
    BY <1>1, <1>2
  <2> HIDE DEF m
  <2>2. \A i \in 0..m : Heard(t)[i] = Heard(s)[i]
    BY ONLY <1>1, <2>1, HeardAgree, Speaking(X, P), s \in Seq(X)
  <2> QED
    BY <2>2 DEF m
<1>4. Heard(t)[Len(t)] = Hear(Heard(t)[Len(t) - 1], t[Len(t)])
  BY <1>1, <1>2, HeardFacts
<1>5. Heard(t)[Len(s)] = Heard(s)[Len(s)]
  BY <1>1, <1>3
<1> QED
  BY <1>1, <1>2, <1>3, <1>4, <1>5 DEF OneMore

\* a sequence begins with another
Begins(a, b) == Len(a) <= Len(b) /\ \A i \in 1..Len(a) : a[i] = b[i]

LEMMA BeginsConcat ==
    ASSUME NEW P, NEW a \in Seq(P), NEW b \in Seq(P)
    PROVE  Begins(a, a \o b) /\ Begins(a, a) /\ Len(a \o b) = Len(a) + Len(b)
BY DEF Begins

LEMMA BeginsTrans ==
    ASSUME NEW P, NEW a \in Seq(P), NEW b \in Seq(P), NEW c \in Seq(P), Begins(a, b), Begins(b, c)
    PROVE  Begins(a, c)
<1>1. Len(a) \in Nat /\ Len(b) \in Nat /\ Len(c) \in Nat
  OBVIOUS
<1> QED
  BY <1>1 DEF Begins

\* the parts there are with the script s, its writes, and these as frames
PartsOf(s) == ((1..Len(s)) \X (1..Parts)) \cup {<<Garbage, Garbage>>}
ClientWrites == [op : DataOps \cup {"ping", "close"}, fin : BOOLEAN]
WriteFrames(s) == [op : DataOps \cup {"ping", "close"}, fin : BOOLEAN, parts : Seq(PartsOf(s))]

\* what the writes of s say
Put(s) == Heard(Writes(s))

\* The writes are frames with content.
LEMMA WritesType ==
    ASSUME NEW s \in Seq(ClientWrites)
    PROVE  /\ Writes(s) \in Seq(WriteFrames(s)) /\ Len(Writes(s)) = Len(s) /\ Len(s) \in Nat
           /\ Speaking(WriteFrames(s), PartsOf(s))
           /\ \A i \in 1..Len(s) :
                /\ Content(i) \in Seq(PartsOf(s)) /\ Len(Content(i)) = Parts /\ Parts \in Nat \ {0}
                /\ Writes(s)[i] = [op |-> s[i].op, fin |-> s[i].fin, parts |-> Content(i)]
                /\ s[i].fin \in BOOLEAN
<1>1. Len(s) \in Nat /\ DOMAIN s = 1..Len(s) /\ \A i \in 1..Len(s) : s[i] \in ClientWrites
  OBVIOUS
<1>2. Parts \in Nat \ {0}
  BY ScriptAssumption
<1>3. ASSUME NEW i \in 1..Len(s) PROVE Content(i) \in Seq(PartsOf(s)) /\ Len(Content(i)) = Parts
  <2>1. Content(i) \in [1..Parts -> PartsOf(s)]
    BY <1>3 DEF Content, PartsOf
  <2>2. DOMAIN Content(i) = 1..Parts
    BY DEF Content
  <2> HIDE DEF Content, PartsOf
  <2> QED
    BY <1>2, <2>1, <2>2
<1> DEFINE g(i) == [op |-> s[i].op, fin |-> s[i].fin, parts |-> Content(i)]
<1>4. ASSUME NEW i \in 1..Len(s) PROVE g(i) \in WriteFrames(s) /\ s[i].fin \in BOOLEAN
  <2>1. s[i].op \in DataOps \cup {"ping", "close"} /\ s[i].fin \in BOOLEAN
    BY <1>1 DEF ClientWrites
  <2> QED
    BY <1>3, <2>1 DEF WriteFrames
<1>5. Writes(s) = [i \in 1..Len(s) |-> g(i)]
  BY <1>1 DEF Writes
<1>6. \A i \in 1..Len(s) : Writes(s)[i] = g(i)
  BY <1>5
<1>7. Writes(s) \in Seq(WriteFrames(s)) /\ Len(Writes(s)) = Len(s)
  <2> HIDE DEF g
  <2>1. Writes(s) \in [1..Len(s) -> WriteFrames(s)]
    BY <1>4, <1>5
  <2>2. DOMAIN Writes(s) = 1..Len(s)
    BY <1>5
  <2> HIDE DEF Writes, WriteFrames
  <2> QED
    BY <1>1, <2>1, <2>2
<1>8. Speaking(WriteFrames(s), PartsOf(s))
  BY DEF Speaking, WriteFrames
<1> QED
  BY <1>1, <1>2, <1>3, <1>4, <1>6, <1>7, <1>8

\* What a write adds.
LEMMA PutFacts ==
    ASSUME NEW s \in Seq(ClientWrites)
    PROVE  /\ Put(s)[0] = Silence /\ Len(s) \in Nat
           /\ \A n \in 0..Len(s) : Put(s)[n] \in Said(PartsOf(s))
           /\ \A n \in 1..Len(s) :
                /\ s[n].op \in DataOps =>
                     /\ Put(s)[n].parts = Put(s)[n - 1].parts \o Content(n)
                     /\ Put(s)[n].open <=> ~s[n].fin
                     /\ Len(Put(s)[n].parts) = Len(Put(s)[n - 1].parts) + Parts
                /\ s[n].op \notin DataOps => Put(s)[n] = Put(s)[n - 1]
<1>1. /\ Writes(s) \in Seq(WriteFrames(s)) /\ Len(Writes(s)) = Len(s) /\ Len(s) \in Nat
      /\ Speaking(WriteFrames(s), PartsOf(s))
  BY WritesType
<1>2. /\ Put(s)[0] = Silence
      /\ \A n \in 0..Len(s) : Put(s)[n] \in Said(PartsOf(s))
      /\ \A n \in 1..Len(s) : Put(s)[n] = Hear(Put(s)[n - 1], Writes(s)[n])
  BY <1>1, HeardFacts DEF Put
<1>3. ASSUME NEW n \in 1..Len(s)
      PROVE  /\ s[n].op \in DataOps =>
                  /\ Put(s)[n].parts = Put(s)[n - 1].parts \o Content(n)
                  /\ Put(s)[n].open <=> ~s[n].fin
                  /\ Len(Put(s)[n].parts) = Len(Put(s)[n - 1].parts) + Parts
             /\ s[n].op \notin DataOps => Put(s)[n] = Put(s)[n - 1]
  <2> DEFINE f == [op |-> s[n].op, fin |-> s[n].fin, parts |-> Content(n)]
  <2>1. /\ Writes(s)[n] = f /\ Content(n) \in Seq(PartsOf(s)) /\ Len(Content(n)) = Parts
        /\ s[n].fin \in BOOLEAN
    BY WritesType
  <2>2. f.op = s[n].op /\ (f.fin <=> s[n].fin) /\ f.parts = Content(n)
    OBVIOUS
  <2> HIDE DEF f
  <2>3. Put(s)[n] = Hear(Put(s)[n - 1], f)
    BY <1>2, <2>1
  <2>4. n - 1 \in 0..Len(s)
    BY <1>1
  <2>5. Put(s)[n - 1].parts \in Seq(PartsOf(s))
    BY <1>2, <2>4 DEF Said
  <2>6. CASE s[n].op \in DataOps
    <3>1. Put(s)[n] = [parts |-> Put(s)[n - 1].parts \o f.parts, open |-> ~f.fin]
      BY <2>2, <2>3, <2>6 DEF Hear
    <3> DEFINE q == Put(s)[n - 1].parts
               c == Content(n)
               r == [parts |-> q \o c, open |-> ~f.fin]
    <3>0. r.parts = q \o c /\ (r.open <=> ~f.fin) /\ Put(s)[n] = r
      BY <2>2, <3>1
    <3>2. Put(s)[n].parts = q \o c /\ (Put(s)[n].open <=> ~s[n].fin)
      <4> HIDE DEF r
      <4> QED
        BY ONLY <2>2, <3>0
    <3>3. Len(q \o c) = Len(q) + Parts
      <4>1. q \in Seq(PartsOf(s)) /\ c \in Seq(PartsOf(s)) /\ Len(c) = Parts
        BY <2>1, <2>5
      <4> HIDE DEF q, c
      <4> QED
        BY ONLY <4>1
    <3> QED
      BY <2>6, <3>2, <3>3
  <2>7. CASE s[n].op \notin DataOps
    BY <2>2, <2>3, <2>7 DEF Hear
  <2> QED
    BY <2>6, <2>7
<1> QED
  BY <1>1, <1>2, <1>3

\* a later state r of what was put, and an earlier one q: no less, and the same if no more
Later(q, r) == /\ Begins(q.parts, r.parts)
               /\ Len(q.parts) = Len(r.parts) => (q.open <=> r.open)

\* What was put grows with every data write.
LEMMA PutGrows ==
    ASSUME NEW s \in Seq(ClientWrites), NEW n \in 0..Len(s)
    PROVE  \A m \in 0..Len(s) : n <= m => Later(Put(s)[n], Put(s)[m])
<1> DEFINE T == {m \in Nat : n <= m /\ m <= Len(s) => Later(Put(s)[n], Put(s)[m])}
           P == PartsOf(s)
<1>0. Len(s) \in Nat /\ n \in Nat
  OBVIOUS
<1>1. \A m \in 0..Len(s) : Put(s)[m] \in Said(P) /\ Put(s)[m].parts \in Seq(P)
                           /\ Len(Put(s)[m].parts) \in Nat
  <2>1. \A m \in 0..Len(s) : Put(s)[m] \in Said(P)
    BY PutFacts
  <2>2. \A m \in 0..Len(s) : Put(s)[m].parts \in Seq(P)
    BY <2>1 DEF Said
  <2> QED
    BY <2>1, <2>2
<1> HIDE DEF P
<1>2. Later(Put(s)[n], Put(s)[n])
  BY <1>1, BeginsConcat DEF Later
<1>3. 0 \in T
  <2>1. n <= 0 => n = 0
    BY <1>0
  <2> QED
    BY <1>2, <2>1
<1>4. ASSUME NEW m \in Nat, m \in T PROVE m + 1 \in T
  <2>1. SUFFICES ASSUME n <= m + 1, m + 1 <= Len(s) PROVE Later(Put(s)[n], Put(s)[m + 1])
    OBVIOUS
  <2>2. CASE n = m + 1
    BY <1>2, <2>2
  <2>3. CASE n # m + 1
    <3> DEFINE a == Put(s)[n]
               b == Put(s)[m]
               c == Put(s)[m + 1]
    <3>1. n <= m /\ m \in 0..Len(s) /\ m + 1 \in 1..Len(s) /\ m + 1 \in 0..Len(s) /\ (m + 1) - 1 = m
      BY <1>0, <2>1, <2>3
    <3>2. Later(a, b)
      BY <1>0, <1>4, <2>1, <3>1
    <3>3. /\ a.parts \in Seq(P) /\ b.parts \in Seq(P) /\ c.parts \in Seq(P)
          /\ Len(a.parts) \in Nat /\ Len(b.parts) \in Nat /\ Len(c.parts) \in Nat
      BY <1>1, <3>1
    <3>4. CASE s[m + 1].op \in DataOps
      <4>1. c.parts = b.parts \o Content(m + 1) /\ Len(c.parts) = Len(b.parts) + Parts
        BY <3>1, <3>4, PutFacts
      <4>2. Content(m + 1) \in Seq(P) /\ Parts \in Nat \ {0}
        BY <3>1, WritesType DEF P
      <4> HIDE DEF a, b, c
      <4>3. Begins(b.parts, c.parts)
        BY <3>3, <4>1, <4>2, BeginsConcat
      <4>4. Begins(a.parts, c.parts)
        BY <3>2, <3>3, <4>3, BeginsTrans DEF Later
      <4>5. Len(a.parts) <= Len(b.parts)
        BY <3>2 DEF Later, Begins
      <4>6. Len(a.parts) # Len(c.parts)
        <5> DEFINE la == Len(a.parts)
                   lb == Len(b.parts)
                   lc == Len(c.parts)
        <5>1. la \in Nat /\ lb \in Nat /\ la <= lb /\ lc = lb + Parts
          BY ONLY <3>3, <4>1, <4>5
        <5> HIDE DEF la, lb, lc
        <5>2. la # lc
          BY ONLY <4>2, <5>1
        <5> QED
          BY ONLY <5>2 DEF la, lc
      <4> QED
        BY <4>4, <4>6 DEF Later, a, c
    <3>5. CASE s[m + 1].op \notin DataOps
      <4>1. c = b
        BY <3>1, <3>5, PutFacts
      <4> QED
        BY <3>2, <4>1
    <3> QED
      BY <3>4, <3>5
  <2> QED
    BY <2>2, <2>3
<1>5. \A m \in Nat : m \in T
  <2> HIDE DEF T
  <2> QED
    BY <1>3, <1>4, SetInduction
<1> QED
  BY <1>0, <1>5

\* Messages end where none is open; the content of a write has no end inside it.
LEMMA EndsFacts ==
    ASSUME NEW s \in Seq(ClientWrites)
    PROVE  /\ MessageEnds(s) \subseteq Nat
           /\ \A n \in 0..Len(s) : Len(Put(s)[n].parts) \in MessageEnds(s) <=> ~Put(s)[n].open
           /\ \A n \in 1..Len(s) : \A e \in MessageEnds(s) :
                e <= Len(Put(s)[n].parts) => e <= Len(Put(s)[n - 1].parts) \/ e = Len(Put(s)[n].parts)
<1> DEFINE L(n) == Len(Put(s)[n].parts)
<1>0. Len(s) \in Nat
  OBVIOUS
<1>1. \A n \in 0..Len(s) : L(n) \in Nat
  <2>1. \A n \in 0..Len(s) : Put(s)[n].parts \in Seq(PartsOf(s))
    BY PutFacts DEF Said
  <2> QED
    BY <2>1
<1>2. MessageEnds(s) = {L(n) : n \in {m \in 0..Len(s) : ~Put(s)[m].open}}
  BY DEF MessageEnds, Put
<1>3. \A n, m \in 0..Len(s) :
        n <= m => L(n) <= L(m) /\ (L(n) = L(m) => (Put(s)[n].open <=> Put(s)[m].open))
  BY PutGrows DEF Later, Begins
<1> HIDE DEF L
<1>4. \A e \in MessageEnds(s) : \E m \in 0..Len(s) : e = L(m) /\ ~Put(s)[m].open
  BY <1>2
<1>5. MessageEnds(s) \subseteq Nat
  BY <1>1, <1>4
<1>6. ASSUME NEW n \in 0..Len(s) PROVE L(n) \in MessageEnds(s) <=> ~Put(s)[n].open
  <2>1. ~Put(s)[n].open => L(n) \in MessageEnds(s)
    BY <1>2
  <2>2. ASSUME L(n) \in MessageEnds(s) PROVE ~Put(s)[n].open
    <3>1. PICK m \in 0..Len(s) : L(n) = L(m) /\ ~Put(s)[m].open
      BY <1>4, <2>2
    <3>2. n <= m \/ m <= n
      BY <1>0
    <3> QED
      BY <1>3, <3>1, <3>2
  <2> QED
    BY <2>1, <2>2
<1>7. ASSUME NEW n \in 1..Len(s), NEW e \in MessageEnds(s), e <= L(n)
      PROVE  e <= L(n - 1) \/ e = L(n)
  <2>1. PICK m \in 0..Len(s) : e = L(m)
    BY <1>4
  <2>2. n - 1 \in 0..Len(s) /\ n \in 0..Len(s) /\ (m <= n - 1 \/ n <= m)
    BY <1>0
  <2>3. L(m) \in Nat /\ L(n) \in Nat /\ L(n - 1) \in Nat
    BY <1>1, <2>2
  <2>4. CASE m <= n - 1
    BY <1>3, <2>1, <2>2, <2>4
  <2>5. CASE n <= m
    <3>1. L(n) <= L(m)
      BY <1>3, <2>2, <2>5
    <3> QED
      BY <1>7, <2>1, <2>3, <3>1
  <2> QED
    BY <2>2, <2>4, <2>5
<1> QED
  BY <1>5, <1>6, <1>7 DEF L

\* the frames wholly in the units w, and those with the one the segments q belong to
FramesIn(w) == [k \in 1..(Len(w) \div FrameLen) |-> w[k * FrameLen].f]
IssuedOf(w, q) == IF q = <<>> THEN FramesIn(w) ELSE Append(FramesIn(w), q[1].f)

\* Counting frames.
LEMMA DivSteps ==
    ASSUME NEW a \in Nat, NEW j \in Nat, NEW n \in Nat \ {0}
    PROVE  /\ a \div n \in Nat
           /\ a = (a \div n) * n + (a % n)
           /\ (a % n) + j < n => (a + j) \div n = a \div n
           /\ (a % n) + j = n => (a + j) \div n = (a \div n) + 1
<1> DEFINE q == a \div n
           r == a % n
<1>1. q \in Int /\ r \in Int /\ a = n * q + r /\ 0 <= r /\ r < n
  BY SMT
<1>2. ASSUME NEW x \in Int, NEW b \in Int, NEW c \in Int, x = n * b + c, 0 <= c, c < n
      PROVE  x \div n = b
  BY <1>2, SMT
<1>3. q >= 0
  BY SMT
<1> HIDE DEF q, r
<1>4. r + j < n => (a + j) \div n = q
  <2> SUFFICES ASSUME r + j < n PROVE (a + j) \div n = q
    OBVIOUS
  <2>1. a + j = n * q + (r + j) /\ 0 <= r + j
    BY <1>1
  <2> QED
    BY <1>1, <1>2, <2>1
<1>5. r + j = n => (a + j) \div n = q + 1
  <2> SUFFICES ASSUME r + j = n PROVE (a + j) \div n = q + 1
    OBVIOUS
  <2> DEFINE b == q + 1
             x == a + j
  <2>1. b \in Int /\ x \in Int /\ x = n * b + 0 /\ 0 < n
    BY <1>1
  <2> HIDE DEF b, x
  <2>2. x \div n = b
    BY <1>2, <2>1
  <2> QED
    BY <2>2 DEF x, b
<1>6. a = q * n + r
  BY <1>1
<1> QED
  BY <1>1, <1>3, <1>4, <1>5, <1>6 DEF q, r

\* The end of a frame is on the wire.
LEMMA FrameEnds ==
    ASSUME NEW a \in Nat, NEW n \in Nat \ {0}, NEW k \in 1..(a \div n)
    PROVE  k * n \in 1..a
<1> DEFINE q == a \div n
           r == a % n
<1>1. q \in Int /\ r \in Int /\ a = n * q + r /\ 0 <= r /\ r < n
  BY SMT
<1>2. k \in Int /\ 1 <= k /\ k <= q
  OBVIOUS
<1> HIDE DEF q, r
<1>3. k * n >= n /\ k * n <= q * n
  BY <1>1, <1>2, SMT
<1> QED
  BY <1>1, <1>2, <1>3

\* Frames on the wire are frames.
LEMMA FramesInType ==
    ASSUME FrameLen \in Nat \ {0}, NEW w \in Seq(WireUnits)
    PROVE  FramesIn(w) \in Seq(Frame) /\ Len(FramesIn(w)) = Len(w) \div FrameLen
<1> DEFINE n == Len(w) \div FrameLen
<1>1. n \in Nat
  <2>1. Len(w) \in Nat
    OBVIOUS
  <2> QED
    BY <2>1, DivSteps
<1>2. ASSUME NEW k \in 1..n PROVE w[k * FrameLen].f \in Frame
  <2>1. k * FrameLen \in 1..Len(w)
    BY FrameEnds
  <2>2. w[k * FrameLen] \in WireUnits
    BY <2>1
  <2> QED
    BY <2>2 DEF WireUnits
<1> HIDE DEF n
<1>3. FramesIn(w) = [k \in 1..n |-> w[k * FrameLen].f]
  BY DEF FramesIn, n
<1>4. FramesIn(w) \in [1..n -> Frame] /\ DOMAIN FramesIn(w) = 1..n
  BY <1>2, <1>3
<1> HIDE DEF FramesIn, Frame
<1> QED
  BY <1>1, <1>4 DEF n

\* What the socket takes of a segment does not change the frames that were issued.
LEMMA IssuedStays ==
    ASSUME FrameLen \in Nat \ {0}, NEW w \in Seq(WireUnits), NEW q \in Seq(Segments), q # <<>>,
           Fits(w, q), NEW n \in 0..Head(q).left
    PROVE  IssuedOf(w \o Units(Head(q), n), Rest(q, n)) = Append(FramesIn(w), q[1].f)
<1> DEFINE h == Head(q)
           u == Units(h, n)
           v == w \o u
           a == Len(w)
           r == Rest(q, n)
           A == FramesIn(w)
           B == FramesIn(v)
<1>1. Len(q) = 1 /\ h = q[1] /\ q[1].left = FrameLen - (Len(w) % FrameLen)
  BY DEF Fits
<1>2. h \in Segments /\ h.left \in 1..FrameLen /\ n \in Nat /\ n <= h.left /\ h.f \in Frame
  <2>1. h \in Segments
    OBVIOUS
  <2>2. h.left \in 1..FrameLen /\ h.f \in Frame
    BY <2>1 DEF Segments
  <2> HIDE DEF h
  <2> QED
    BY <2>1, <2>2 DEF h
<1>3. v \in Seq(WireUnits) /\ r \in Seq(Segments)
  BY SendHeadType
<1> HIDE DEF h
<1>4. /\ Len(u) = n /\ u \in Seq(WireUnits) /\ \A k \in 1..n : u[k].f = h.f
      /\ a \in Nat
  <2>1. \A k \in 1..n : FrameLen - h.left + k \in 1..FrameLen
    BY <1>2
  <2>2. u = [k \in 1..n |-> [f |-> h.f, u |-> FrameLen - h.left + k]]
    BY DEF Units
  <2>3. u \in [1..n -> WireUnits] /\ DOMAIN u = 1..n
    BY <1>2, <2>1, <2>2 DEF WireUnits
  <2>4. \A k \in 1..n : u[k].f = h.f
    BY <2>2
  <2> HIDE DEF u, WireUnits
  <2>5. u \in Seq(WireUnits) /\ Len(u) = n
    BY <1>2, <2>3
  <2> QED
    BY <2>4, <2>5
<1> HIDE DEF u
<1>5. Len(v) = a + n /\ \A i \in 1..a : v[i] = w[i]
  <2>1. \A x, y \in Seq(WireUnits) :
          Len(x \o y) = Len(x) + Len(y) /\ \A i \in 1..Len(x) : (x \o y)[i] = x[i]
    OBVIOUS
  <2> QED
    BY ONLY <1>4, <2>1, w \in Seq(WireUnits)
<1>6. n > 0 => v[a + n].f = h.f
  <2> SUFFICES ASSUME n > 0 PROVE v[a + n].f = h.f
    OBVIOUS
  <2>1. n \in 1..n /\ v[a + n] = u[n]
    BY <1>2, <1>4
  <2> QED
    BY <1>4, <2>1
<1> DEFINE d == a \div FrameLen
           m == a % FrameLen
<1>7. /\ d \in Nat /\ a = d * FrameLen + m
      /\ m + n < FrameLen => (a + n) \div FrameLen = d
      /\ m + n = FrameLen => (a + n) \div FrameLen = d + 1
  <2>1. a \in Nat /\ n \in Nat /\ FrameLen \in Nat \ {0}
    BY <1>2, <1>4
  <2> HIDE DEF a
  <2> QED
    BY ONLY <2>1, DivSteps
<1>8. m \in 0..(FrameLen - 1) /\ h.left = FrameLen - m
  BY <1>1, <1>4, ModSteps
<1>9. A = [k \in 1..d |-> w[k * FrameLen].f]
  BY DEF FramesIn
<1>10. \A k \in 1..d : k * FrameLen \in 1..a
  BY <1>4, FrameEnds
<1>11. A \in Seq(Frame) /\ Len(A) = d
  BY FramesInType
<1>12. B = [k \in 1..((a + n) \div FrameLen) |-> v[k * FrameLen].f]
  BY <1>5 DEF FramesIn
<1> HIDE DEF d, m, v, a, A, B
<1>13. CASE n = h.left
  <2>1. r = <<>>
    <3>1. r = Tail(q)
      BY <1>13 DEF Rest, h
    <3> QED
      BY <1>1, <3>1
  <2>2. n > 0 /\ m + n = FrameLen /\ (a + n) \div FrameLen = d + 1 /\ a + n = (d + 1) * FrameLen
    <3>1. n > 0 /\ m + n = FrameLen
      BY <1>2, <1>8, <1>13
    <3>2. (d + 1) * FrameLen = d * FrameLen + FrameLen
      BY <1>7
    <3> QED
      BY <1>2, <1>7, <1>8, <3>1, <3>2
  <2>3. B = [k \in 1..(d + 1) |-> v[k * FrameLen].f]
    BY <1>12, <2>2
  <2>4. v[(d + 1) * FrameLen].f = h.f
    BY <1>6, <2>2
  <2>5. \A k \in 1..d : v[k * FrameLen].f = w[k * FrameLen].f
    BY <1>5, <1>10
  <2> DEFINE C == Append(A, h.f)
  <2>6. C = [k \in 1..(d + 1) |-> IF k <= d THEN A[k] ELSE h.f]
    BY <1>7, <1>11
  <2>7. ASSUME NEW k \in 1..(d + 1) PROVE B[k] = C[k]
    <3>1. CASE k <= d
      <4>1. k \in 1..d
        BY <1>7, <3>1
      <4>2. B[k] = v[k * FrameLen].f /\ C[k] = A[k] /\ A[k] = w[k * FrameLen].f
        BY <1>9, <2>3, <2>6, <3>1, <4>1
      <4> QED
        BY <2>5, <4>1, <4>2
    <3>2. CASE ~(k <= d)
      <4>1. k = d + 1
        BY <1>7, <3>2
      <4>2. B[k] = v[k * FrameLen].f /\ C[k] = h.f
        BY <2>3, <2>6, <3>2
      <4> QED
        BY <2>4, <4>1, <4>2
    <3> QED
      BY <3>1, <3>2
  <2> HIDE DEF C
  <2>8. B = C
    BY <2>3, <2>6, <2>7
  <2> QED
    BY <1>1, <2>1, <2>8 DEF IssuedOf, C, B, A, v, u, r, h
<1>14. CASE n # h.left
  <2>1. m + n < FrameLen /\ (a + n) \div FrameLen = d
    BY <1>2, <1>7, <1>8, <1>14
  <2>2. r # <<>> /\ r[1].f = h.f
    <3>1. r = [q EXCEPT ![1].left = @ - n]
      BY <1>14 DEF Rest, h
    <3>2. q[1] \in Segments /\ 1 \in DOMAIN q
      BY <1>1
    <3>3. DOMAIN r = DOMAIN q /\ r[1] = [q[1] EXCEPT !.left = @ - n]
      BY <3>1, <3>2
    <3>4. r # <<>>
      BY <3>2, <3>3
    <3>5. [q[1] EXCEPT !.left = @ - n].f = q[1].f
      BY <3>2 DEF Segments
    <3> QED
      BY <1>1, <3>3, <3>4, <3>5
  <2>3. \A k \in 1..d : v[k * FrameLen].f = w[k * FrameLen].f
    BY <1>5, <1>10
  <2>4. B = A
    BY <1>9, <1>12, <2>1, <2>3
  <2> QED
    BY <1>1, <2>2, <2>4 DEF IssuedOf, B, A, v, u, r, h
<1> QED
  BY <1>13, <1>14

\* Of what the client has put (w) the frames issued say r, and z is inside the compressor; a
\* drain (dr) keeps the FIN (sf) of the write that began it, a write that gave out nothing its
\* type (st).  No message ends inside z but one at its end that is being drained, and the FIN
\* that is missing at the end of a message is still to come, with a drain that has nothing
\* else to give out.
Related(r, w, z, dr, sf, st, ends) ==
    /\ r.parts \o z = w.parts
    /\ dr => r.open /\ st = Nil /\ (sf <=> ~w.open)
    /\ ~dr /\ st = Nil => (r.open <=> w.open)
    /\ st # Nil => w.open /\ st = NextType(r)
    /\ \A e \in ends :
         e <= Len(w.parts) => e <= Len(r.parts) \/ (dr /\ e = Len(w.parts))
    /\ r.open /\ Len(r.parts) \in ends => dr /\ z = <<>>

\* two ways to put three parts together
Associates(a, b, c) == (a \o b) \o c = a \o (b \o c)

LEMMA ConcatParts ==
    ASSUME NEW P, NEW a \in Seq(P), NEW b \in Seq(P), NEW c \in Seq(P)
    PROVE  /\ Associates(a, b, c) /\ a \o b \in Seq(P) /\ b \o c \in Seq(P)
           /\ Len(a \o b) = Len(a) + Len(b) /\ Len(a) \in Nat
BY DEF Associates

\* After r, of what makes it w, out is sent and rest is kept; the write has fin, and there is
\* more to come of it if pending.
Cut(P, ends, r, w, out, rest, fin, pending) ==
    /\ ends \subseteq Nat /\ r \in Said(P) /\ w \in Said(P) /\ out \in Seq(P) /\ rest \in Seq(P)
    /\ r.parts \o (out \o rest) = w.parts
    /\ fin \in BOOLEAN /\ pending \in BOOLEAN
    /\ fin <=> ~w.open
    /\ fin /\ ~pending => rest = <<>>
    /\ Len(w.parts) \in ends <=> ~w.open
    /\ \A e \in ends : e <= Len(w.parts) => e <= Len(r.parts) \/ e = Len(w.parts)
    /\ r.open /\ Len(r.parts) \in ends => out = <<>> /\ rest = <<>>
    /\ ~r.open => out # <<>>

\* the frame that sends it, and the FIN that is kept
Carries(f, r, out, fin, pending) ==
    /\ f.op \in DataOps /\ f.op = NextType(r) /\ f.parts = out
    /\ f.fin <=> (fin /\ ~pending)
Stashed(sf, fin, pending) == pending => (sf <=> fin)

\* Such a frame is a good one, and what is left is in order.
LEMMA Fragment ==
    ASSUME NEW P, NEW ends, NEW r, NEW w, NEW out, NEW rest, NEW fin, NEW pending, NEW f, NEW sf,
           Cut(P, ends, r, w, out, rest, fin, pending), Carries(f, r, out, fin, pending),
           Stashed(sf, fin, pending)
    PROVE  GoesOn(r, f, ends) /\ Related(Hear(r, f), w, rest, pending, sf, Nil, ends)
<1> USE DEF Cut, Carries, Stashed
<1> DEFINE a == r.parts
           b == w.parts
           n == a \o out
<1>1. a \in Seq(P) /\ b \in Seq(P) /\ r.open \in BOOLEAN /\ w.open \in BOOLEAN
  BY DEF Said
<1>2. /\ n \in Seq(P) /\ Len(n) = Len(a) + Len(out) /\ n \o rest = b
      /\ Len(b) = Len(n) + Len(rest)
  <2>1. Associates(a, out, rest) /\ n \in Seq(P) /\ Len(n) = Len(a) + Len(out)
    BY <1>1, ConcatParts
  <2>2. n \o rest = b
    BY <2>1 DEF Associates
  <2> HIDE DEF n, a, b
  <2>3. Len(n \o rest) = Len(n) + Len(rest)
    BY <2>1, ConcatParts
  <2> QED
    BY <2>1, <2>2, <2>3
<1>3. /\ Len(a) \in Nat /\ Len(b) \in Nat /\ Len(n) \in Nat /\ Len(out) \in Nat /\ Len(rest) \in Nat
      /\ Len(out) = 0 <=> out = <<>>
      /\ Len(rest) = 0 <=> rest = <<>>
  BY <1>1, <1>2, NoElements
<1>4. Hear(r, f) = [parts |-> n, open |-> ~f.fin]
  BY DEF Hear
<1> DEFINE h == Hear(r, f)
<1>5. h.parts = n /\ (h.open <=> ~(fin /\ ~pending))
  <2> DEFINE g == [parts |-> n, open |-> ~f.fin]
  <2>1. g.parts = n /\ (g.open <=> ~f.fin) /\ h = g
    BY <1>4
  <2> HIDE DEF g, n, h
  <2> QED
    BY <2>1
<1>6. /\ \A e \in ends : e <= Len(b) => e <= Len(a) \/ e = Len(b)
      /\ r.open /\ Len(a) \in ends => out = <<>> /\ rest = <<>>
      /\ Len(b) \in ends <=> ~w.open
  OBVIOUS
<1> HIDE DEF h
<1>7. GoesOn(r, f, ends)
  <2>1. f.fin => Len(r.parts \o f.parts) \in ends
    <3> SUFFICES ASSUME f.fin PROVE Len(n) \in ends
      OBVIOUS
    <3>1. fin /\ ~pending /\ rest = <<>>
      OBVIOUS
    <3> HIDE DEF a, b, n
    <3>2. Len(n) = Len(b)
      BY <1>2, <1>3, <3>1
    <3> QED
      BY <1>6, <3>1, <3>2
  <2>2. r.open /\ Len(r.parts) \in ends => f.parts = <<>>
    OBVIOUS
  <2> QED
    BY <2>1, <2>2 DEF GoesOn
<1> HIDE DEF a, b, n
<1>8. \A e \in ends : e <= Len(b) => e <= Len(n) \/ (pending /\ e = Len(b))
  <2> SUFFICES ASSUME NEW e \in ends, e <= Len(b) PROVE e <= Len(n) \/ (pending /\ e = Len(b))
    OBVIOUS
  <2>1. e \in Nat /\ (e <= Len(a) \/ e = Len(b))
    BY <1>6
  <2>2. CASE e <= Len(a)
    BY <1>2, <1>3, <2>1, <2>2
  <2>3. CASE e = Len(b)
    <3>1. fin
      BY <1>6, <2>3
    <3>2. ~pending => Len(b) = Len(n)
      BY <1>2, <1>3, <3>1
    <3> QED
      BY <1>3, <2>1, <2>3, <3>2
  <2> QED
    BY <2>1, <2>2, <2>3
<1>9. h.open /\ Len(n) \in ends => pending /\ rest = <<>>
  <2> SUFFICES ASSUME h.open, Len(n) \in ends PROVE pending /\ rest = <<>>
    OBVIOUS
  <2>1. Len(n) <= Len(a) \/ Len(n) = Len(b)
    <3>1. Len(n) <= Len(b)
      BY <1>2, <1>3
    <3> QED
      BY <1>6, <3>1
  <2>2. rest = <<>>
    <3>1. CASE Len(n) <= Len(a)
      <4>1. out = <<>> /\ Len(n) = Len(a)
        BY <1>2, <1>3, <3>1
      <4>2. r.open
        BY <1>1, <4>1
      <4> QED
        BY <1>6, <4>1, <4>2
    <3>2. CASE Len(n) = Len(b)
      BY <1>2, <1>3, <3>2
    <3> QED
      BY <2>1, <3>1, <3>2
  <2>3. Len(n) = Len(b)
    BY <1>2, <1>3, <2>2
  <2>4. fin
    BY <1>6, <2>3
  <2> QED
    BY <1>5, <2>2, <2>4
<1>10. (pending => h.open /\ (sf <=> ~w.open)) /\ (~pending => (h.open <=> w.open))
  BY <1>5
<1>11. Related(h, w, rest, pending, sf, Nil, ends)
  BY <1>2, <1>5, <1>8, <1>9, <1>10 DEF Related, b
<1> QED
  BY <1>7, <1>11 DEF h

\* A write that gives out nothing: it does not end its message, and its type is kept for the
\* first fragment.
LEMMA HeldBack ==
    ASSUME NEW P, NEW ends, ends \subseteq Nat, NEW r \in Said(P), NEW w \in Said(P),
           NEW v \in Said(P), NEW z \in Seq(P), NEW c \in Seq(P), NEW sf, NEW st,
           Related(r, w, z, FALSE, sf, st, ends),
           v.parts = w.parts \o c, v.open, NEW op \in DataOps, op = NextType(w),
           Nil \notin DataOps,
           Len(v.parts) \in ends <=> ~v.open,
           \A e \in ends : e <= Len(v.parts) => e <= Len(w.parts) \/ e = Len(v.parts),
           NEW sg
    PROVE  Related(r, v, z \o c, FALSE, sg, IF st = Nil THEN op ELSE st, ends)
<1> DEFINE t == IF st = Nil THEN op ELSE st
<1>1. r.parts \in Seq(P) /\ w.parts \in Seq(P) /\ v.parts \in Seq(P)
  BY DEF Said
<1>2. r.parts \o (z \o c) = v.parts
  <2>1. Associates(r.parts, z, c)
    BY <1>1, ConcatParts
  <2>2. r.parts \o z = w.parts
    BY DEF Related
  <2> QED
    BY ONLY <2>1, <2>2, v.parts = w.parts \o c DEF Associates
<1>3. t # Nil /\ t = NextType(r)
  BY DEF Related, NextType
<1>4. \A e \in ends : e <= Len(v.parts) => e <= Len(r.parts)
  <2> SUFFICES ASSUME NEW e \in ends, e <= Len(v.parts) PROVE e <= Len(r.parts)
    OBVIOUS
  <2>1. e <= Len(w.parts)
    OBVIOUS
  <2> QED
    BY <2>1 DEF Related
<1>5. ~(r.open /\ Len(r.parts) \in ends)
  BY DEF Related
<1> HIDE DEF t
<1>6. Related(r, v, z \o c, FALSE, sg, t, ends)
  BY ONLY <1>2, <1>3, <1>4, <1>5, v.open DEF Related
<1> QED
  BY <1>6 DEF t

\* the frames I that were issued are good ones for the script s, and say a part of what it does
GoodFrames(I, s) ==
    /\ Begins(Heard(I)[Len(I)].parts, Put(s)[Len(s)].parts)
    /\ \A k \in 1..Len(I) :
         I[k].op \in DataOps => GoesOn(Heard(I)[k - 1], I[k], MessageEnds(s))

\* A frame more.
LEMMA GoodAppend ==
    ASSUME NEW P, NEW X, Speaking(X, P), NEW I \in Seq(X), NEW f \in X, NEW s, GoodFrames(I, s),
           f.op \in DataOps => /\ GoesOn(Heard(I)[Len(I)], f, MessageEnds(s))
                               /\ Begins(Hear(Heard(I)[Len(I)], f).parts, Put(s)[Len(s)].parts)
    PROVE  /\ GoodFrames(Append(I, f), s)
           /\ Heard(Append(I, f))[Len(Append(I, f))] = Hear(Heard(I)[Len(I)], f)
<1> DEFINE J == Append(I, f)
<1>0. J = Append(I, f)
  OBVIOUS
<1> HIDE DEF J
<1>more. J \in Seq(X) /\ OneMore(J, I, f)
  BY ONLY <1>0, Speaking(X, P), I \in Seq(X), f \in X, HeardAppend
<1>1. /\ J \in Seq(X) /\ Len(J) = Len(I) + 1 /\ Len(I) \in Nat /\ J[Len(I) + 1] = f
      /\ \A i \in 1..Len(I) : J[i] = I[i]
      /\ \A i \in 0..Len(I) : Heard(J)[i] = Heard(I)[i]
      /\ Heard(J)[Len(J)] = Hear(Heard(I)[Len(I)], f)
  BY ONLY <1>more DEF OneMore
<1>2. Begins(Heard(J)[Len(J)].parts, Put(s)[Len(s)].parts)
  <2>1. CASE f.op \in DataOps
    BY <1>1, <2>1
  <2>2. CASE f.op \notin DataOps
    <3>1. Hear(Heard(I)[Len(I)], f) = Heard(I)[Len(I)]
      BY <2>2 DEF Hear
    <3> QED
      BY <1>1, <3>1 DEF GoodFrames
  <2> QED
    BY <2>1, <2>2
<1>3. ASSUME NEW k \in 1..Len(J), J[k].op \in DataOps
      PROVE  GoesOn(Heard(J)[k - 1], J[k], MessageEnds(s))
  <2>1. CASE k <= Len(I)
    <3>1. k \in 1..Len(I) /\ k - 1 \in 0..Len(I)
      BY <1>1, <2>1
    <3>2. J[k] = I[k] /\ Heard(J)[k - 1] = Heard(I)[k - 1]
      BY <1>1, <3>1
    <3> QED
      BY <1>3, <3>1, <3>2 DEF GoodFrames
  <2>2. CASE ~(k <= Len(I))
    <3>1. k = Len(I) + 1 /\ k - 1 = Len(I) /\ Len(I) \in 0..Len(I)
      BY <1>1, <2>2
    <3>2. J[k] = f /\ Heard(J)[k - 1] = Heard(I)[Len(I)]
      BY <1>1, <3>1
    <3> QED
      BY <1>3, <3>2
  <2> QED
    BY <2>1, <2>2
<1>4. GoodFrames(J, s)
  BY <1>2, <1>3 DEF GoodFrames
<1> QED
  BY <1>1, <1>4 DEF J

\* A frame less.
LEMMA GoodFront ==
    ASSUME NEW P, NEW X, Speaking(X, P), NEW I \in Seq(X), NEW f \in X, NEW s,
           Put(s)[Len(s)].parts \in Seq(P), GoodFrames(Append(I, f), s)
    PROVE  GoodFrames(I, s)
<1> DEFINE J == Append(I, f)
<1>0. J = Append(I, f)
  OBVIOUS
<1> HIDE DEF J
<1>more. J \in Seq(X) /\ OneMore(J, I, f)
  BY ONLY <1>0, Speaking(X, P), I \in Seq(X), f \in X, HeardAppend
<1>1. /\ J \in Seq(X) /\ Len(J) = Len(I) + 1 /\ Len(I) \in Nat /\ J[Len(I) + 1] = f
      /\ \A i \in 1..Len(I) : J[i] = I[i]
      /\ \A i \in 0..Len(I) : Heard(J)[i] = Heard(I)[i]
      /\ Heard(J)[Len(J)] = Hear(Heard(I)[Len(I)], f)
  BY ONLY <1>more DEF OneMore
<1>2. GoodFrames(J, s)
  BY <1>0
<1> DEFINE r == Heard(I)[Len(I)]
           h == Hear(r, f)
<1>3. Begins(r.parts, Put(s)[Len(s)].parts)
  <2>1. r \in Said(P) /\ f.parts \in Seq(P)
    <3>1. Len(I) \in 0..Len(I)
      BY <1>1
    <3> QED
      BY <3>1, HeardFacts DEF Speaking
  <2>2. r.parts \in Seq(P)
    BY <2>1 DEF Said
  <2>3. Begins(h.parts, Put(s)[Len(s)].parts)
    BY <1>1, <1>2 DEF GoodFrames
  <2> HIDE DEF r
  <2>4. CASE f.op \in DataOps
    <3>1. h.parts = r.parts \o f.parts
      BY <2>4 DEF Hear
    <3>2. Begins(r.parts, h.parts) /\ h.parts \in Seq(P)
      BY <2>1, <2>2, <3>1, BeginsConcat
    <3> QED
      BY <2>2, <2>3, <3>2, BeginsTrans
  <2>5. CASE f.op \notin DataOps
    <3>1. h = r
      BY <2>5 DEF Hear
    <3> QED
      BY <2>3, <3>1
  <2> QED
    BY <2>4, <2>5
<1>4. ASSUME NEW k \in 1..Len(I), I[k].op \in DataOps
      PROVE  GoesOn(Heard(I)[k - 1], I[k], MessageEnds(s))
  <2>1. k \in 1..Len(J) /\ k - 1 \in 0..Len(I)
    BY <1>1
  <2>2. J[k] = I[k] /\ Heard(J)[k - 1] = Heard(I)[k - 1]
    BY <1>1, <2>1
  <2> QED
    BY <1>2, <1>4, <2>1, <2>2 DEF GoodFrames
<1> QED
  BY <1>3, <1>4 DEF GoodFrames, r

\* the frames that were issued, and what they say
Issued == IssuedOf(wire, buflist)
IssuedSays == Heard(Issued)[Len(Issued)]

\* Whatever happened, the frames that were issued are good ones.
IssuedInv == GoodFrames(Issued, script)

\* While the socket works, what they say and what is inside the compressor is what was put.
RelatedInv ==
    ~unusable =>
      /\ Related(IssuedSays, Put(script)[next - 1], zlib, draining, stashedFin, stashedType,
                 MessageEnds(script))
      /\ ~pmd => zlib = <<>> /\ ~draining /\ stashedType = Nil

\* What the types say here.
LEMMA Speaks ==
    ASSUME TypeOK
    PROVE  /\ FrameLen \in Nat \ {0} /\ OutType /\ Speaking(Frame, PartSet)
           /\ script \in Seq(ClientWrites) /\ PartSet = PartsOf(script) /\ Len(script) \in Nat
           /\ Issued \in Seq(Frame) /\ IssuedSays \in Said(PartSet)
           /\ next - 1 \in 0..Len(script)
           /\ \A n \in 0..Len(script) : /\ Put(script)[n] \in Said(PartSet)
                                        /\ Put(script)[n].parts \in Seq(PartSet)
<1>1. FrameLen \in Nat \ {0} /\ OutType
  BY ScriptAssumption DEF TypeOK, OutType, Segments, WireUnits
<1>2. Speaking(Frame, PartSet)
  BY DEF Speaking, Frame
<1>3. script \in Seq(ClientWrites) /\ PartSet = PartsOf(script)
  BY ScriptAssumption DEF TypeOK, ClientWrites, PartSet, PartsOf
<1>4. Len(script) \in Nat
  BY <1>3
<1>5. next - 1 \in 0..Len(script)
  BY <1>4 DEF TypeOK
<1>6. Issued \in Seq(Frame)
  <2>1. FramesIn(wire) \in Seq(Frame)
    BY <1>1, FramesInType DEF OutType
  <2>2. ASSUME buflist # <<>> PROVE buflist[1].f \in Frame
    <3>1. buflist[1] \in Segments
      BY <1>1, <2>2 DEF OutType
    <3> QED
      BY <3>1 DEF Segments
  <2> HIDE DEF Frame
  <2> QED
    BY <2>1, <2>2 DEF Issued, IssuedOf
<1>7. IssuedSays \in Said(PartSet)
  <2>1. Len(Issued) \in 0..Len(Issued)
    BY <1>6
  <2> QED
    BY <1>2, <1>6, <2>1, HeardFacts DEF IssuedSays
<1>8. \A n \in 0..Len(script) : Put(script)[n] \in Said(PartSet)
  BY <1>3, PutFacts
<1>9. \A n \in 0..Len(script) : Put(script)[n].parts \in Seq(PartSet)
  BY <1>8 DEF Said
<1> QED
  BY <1>1, <1>2, <1>3, <1>4, <1>5, <1>6, <1>7, <1>8, <1>9

\* A frame is issued, or the socket has failed.
LEMMA Issuing ==
    ASSUME TypeOK, OutInv, buflist = <<>>, NEW f \in Frame, f.hdr, Issue(f)
    PROVE  \/ unusable' /\ Issued' = Issued
           \/ unusable' = unusable /\ Issued' = Append(Issued, f)
<1> DEFINE q == Append(buflist, Segment(f))
<1>1. FrameLen \in Nat \ {0} /\ OutType
  BY Speaks
<1>2. Segment(f) \in Segments /\ Segment(f).f = f /\ Segment(f).left = FrameLen
  BY <1>1 DEF Segment, Segments
<1>3. q \in Seq(Segments) /\ q # <<>> /\ Len(q) = 1 /\ q[1] = Segment(f)
  BY <1>1, <1>2 DEF OutType
<1>4. Fits(wire, q)
  <2>1. Len(wire) % FrameLen = 0
    BY DEF OutInv, Fits
  <2> HIDE DEF q
  <2>2. q[1].f.hdr
    BY <1>2, <1>3
  <2>3. q[1].left = FrameLen - (Len(wire) % FrameLen)
    BY <1>1, <1>2, <1>3, <2>1
  <2> QED
    BY <1>2, <1>3, <2>1, <2>2, <2>3 DEF Fits
<1>5. CASE SendFails(buflist)
  BY <1>5 DEF SendFails, Issued
<1>6. ASSUME NEW n \in 0..Head(q).left, SendHead(q, n), UNCHANGED unusable
      PROVE  unusable' = unusable /\ Issued' = Append(Issued, f)
  <2> HIDE DEF q
  <2>1. wire' = wire \o Units(Head(q), n) /\ buflist' = Rest(q, n) /\ wire \in Seq(WireUnits)
    BY <1>1, <1>6 DEF SendHead, OutType
  <2>2. IssuedOf(wire \o Units(Head(q), n), Rest(q, n)) = Append(FramesIn(wire), q[1].f)
    BY <1>1, <1>3, <1>4, <1>6, <2>1, IssuedStays
  <2>3. Issued' = Append(FramesIn(wire), f)
    BY <1>2, <1>3, <2>1, <2>2 DEF Issued
  <2>4. Issued = FramesIn(wire)
    BY DEF Issued, IssuedOf
  <2> QED
    BY <1>6, <2>3, <2>4
<1> QED
  BY <1>5, <1>6 DEF Issue

\* Buffered output goes on its way.
LEMMA Flushing ==
    ASSUME TypeOK, OutInv, NEW forced, EventFlush(forced)
    PROVE  Issued' = Issued
<1>1. FrameLen \in Nat \ {0} /\ OutType /\ buflist # <<>> /\ Fits(wire, buflist)
  BY Speaks DEF EventFlush, OutInv
<1>2. CASE SendFails(buflist)
  BY <1>2 DEF SendFails, Issued
<1>3. ASSUME NEW n \in 0..Head(buflist).left, SendHead(buflist, n) PROVE Issued' = Issued
  <2>1. wire' = wire \o Units(Head(buflist), n) /\ buflist' = Rest(buflist, n)
    BY <1>3 DEF SendHead
  <2>2. IssuedOf(wire \o Units(Head(buflist), n), Rest(buflist, n))
          = Append(FramesIn(wire), buflist[1].f)
    BY <1>1, <1>3, IssuedStays DEF OutType
  <2>3. Issued' = Append(FramesIn(wire), buflist[1].f)
    BY <2>1, <2>2 DEF Issued
  <2> QED
    BY <1>1, <2>3 DEF Issued, IssuedOf
<1> QED
  BY <1>2, <1>3 DEF EventFlush

\* A good data frame is issued: the frames stay good, and it is heard, unless the socket fails.
LEMMA DataOut ==
    ASSUME TypeOK, OutInv, IssuedInv, buflist = <<>>, NEW f \in Frame, f.hdr, f.op \in DataOps,
           Issue(f), NEW n \in 0..Len(script), NEW z \in Seq(PartSet), NEW dr, NEW sf, NEW st,
           GoesOn(IssuedSays, f, MessageEnds(script)),
           Related(Hear(IssuedSays, f), Put(script)[n], z, dr, sf, st, MessageEnds(script))
    PROVE  /\ GoodFrames(Issued', script)
           /\ unusable' \/ (unusable' = unusable /\ IssuedSays' = Hear(IssuedSays, f))
<1>1. /\ Speaking(Frame, PartSet) /\ Issued \in Seq(Frame) /\ script \in Seq(ClientWrites)
      /\ Len(script) \in Nat /\ IssuedSays \in Said(PartSet)
      /\ \A m \in 0..Len(script) : Put(script)[m].parts \in Seq(PartSet)
  BY Speaks
<1> DEFINE h == Hear(IssuedSays, f)
           last == Put(script)[Len(script)]
<1>2. h.parts \in Seq(PartSet)
  <2>1. h \in Said(PartSet)
    BY <1>1, HearType
  <2> QED
    BY <2>1 DEF Said
<1>3. Begins(h.parts, Put(script)[n].parts)
  <2>1. h.parts \o z = Put(script)[n].parts
    BY DEF Related
  <2> HIDE DEF h
  <2>2. Begins(h.parts, h.parts \o z)
    BY <1>2, BeginsConcat
  <2> QED
    BY <2>1, <2>2
<1>4. Len(script) \in 0..Len(script) /\ n <= Len(script)
  BY <1>1
<1>5. Begins(Put(script)[n].parts, last.parts)
  BY <1>1, <1>4, PutGrows DEF Later
<1>6. Begins(h.parts, last.parts)
  BY <1>1, <1>2, <1>3, <1>4, <1>5, BeginsTrans
<1> HIDE DEF h
<1>7. /\ GoodFrames(Append(Issued, f), script)
      /\ Heard(Append(Issued, f))[Len(Append(Issued, f))] = Hear(Heard(Issued)[Len(Issued)], f)
  <2>1. Begins(Hear(Heard(Issued)[Len(Issued)], f).parts, Put(script)[Len(script)].parts)
    BY <1>6 DEF h, IssuedSays
  <2>2. GoesOn(Heard(Issued)[Len(Issued)], f, MessageEnds(script)) /\ GoodFrames(Issued, script)
    BY DEF IssuedSays, IssuedInv
  <2> QED
    BY <1>1, <2>1, <2>2, GoodAppend
<1>8. CASE unusable' /\ Issued' = Issued
  BY <1>8 DEF IssuedInv
<1>9. CASE unusable' = unusable /\ Issued' = Append(Issued, f)
  <2>1. IssuedSays' = Heard(Issued')[Len(Issued')]
    BY DEF IssuedSays
  <2> QED
    BY <1>7, <1>9, <2>1 DEF IssuedSays
<1> QED
  BY <1>8, <1>9, Issuing

\* A control frame is issued.
LEMMA ControlOut ==
    ASSUME TypeOK, OutInv, IssuedInv, buflist = <<>>, NEW f \in Frame, f.hdr, f.op \notin DataOps,
           Issue(f)
    PROVE  /\ GoodFrames(Issued', script)
           /\ unusable' \/ (unusable' = unusable /\ IssuedSays' = IssuedSays)
<1>1. Speaking(Frame, PartSet) /\ Issued \in Seq(Frame)
  BY Speaks
<1>2. /\ GoodFrames(Append(Issued, f), script)
      /\ Heard(Append(Issued, f))[Len(Append(Issued, f))] = Hear(Heard(Issued)[Len(Issued)], f)
  BY <1>1, GoodAppend DEF IssuedInv
<1>3. Hear(Heard(Issued)[Len(Issued)], f) = IssuedSays
  BY DEF Hear, IssuedSays
<1>4. CASE unusable' /\ Issued' = Issued
  BY <1>4 DEF IssuedInv
<1>5. CASE unusable' = unusable /\ Issued' = Append(Issued, f)
  <2>1. IssuedSays' = Heard(Issued')[Len(Issued')]
    BY DEF IssuedSays
  <2> QED
    BY <1>2, <1>3, <1>5, <2>1
<1> QED
  BY <1>4, <1>5, Issuing

\* A sequence is the two parts it is cut into.
LEMMA CutSeq ==
    ASSUME NEW P, NEW q \in Seq(P), NEW n \in 0..Len(q)
    PROVE  SubSeq(q, 1, n) \o SubSeq(q, n + 1, Len(q)) = q
<1> DEFINE a == SubSeq(q, 1, n)
           b == SubSeq(q, n + 1, Len(q))
           c == a \o b
<1>1. Len(q) \in Nat /\ n \in Nat
  OBVIOUS
<1>2. a \in Seq(P) /\ Len(a) = n /\ \A i \in 1..n : a[i] = q[i]
  BY <1>1
<1>3. b \in Seq(P) /\ Len(b) = Len(q) - n /\ \A i \in 1..(Len(q) - n) : b[i] = q[n + i]
  BY <1>1
<1> HIDE DEF a, b
<1>4. c \in Seq(P) /\ Len(c) = Len(q)
  BY <1>1, <1>2, <1>3
<1>5. ASSUME NEW i \in 1..Len(q) PROVE c[i] = q[i]
  <2>1. CASE i <= n
    <3>1. i \in 1..n /\ c[i] = a[i]
      BY <1>1, <1>2, <1>3, <2>1
    <3> QED
      BY <1>2, <3>1
  <2>2. CASE i > n
    <3>1. i - n \in 1..(Len(q) - n) /\ n + (i - n) = i
      BY <1>1, <2>2
    <3>2. c[i] = b[i - n]
      BY <1>1, <1>2, <1>3, <2>2, <3>1
    <3> QED
      BY <1>3, <3>1, <3>2
  <2>3. i <= n \/ i > n
    BY <1>1
  <2> HIDE DEF c
  <2> QED
    BY <2>1, <2>2, <2>3
<1> HIDE DEF c
<1>6. c = q
  BY <1>4, <1>5
<1> QED
  BY <1>6 DEF c, a, b

\* q in two parts: a write that is flushed keeps nothing back once it is not pending
Parted(d, q, flush, P) ==
    /\ d.out \in Seq(P) /\ d.rest \in Seq(P) /\ d.pending \in BOOLEAN
    /\ d.out \o d.rest = q
    /\ d.out = <<>> => ~d.pending /\ d.rest = q
    /\ flush /\ ~d.pending => d.rest = <<>>

\* zlib gives out a beginning of what it holds and got, and keeps the rest.
LEMMA Deflated ==
    ASSUME NEW P, zlib \in Seq(P), NEW inp \in Seq(P), NEW flush \in BOOLEAN,
           NEW d \in Deflate(inp, flush)
    PROVE  Parted(d, zlib \o inp, flush, P)
<1> DEFINE q == zlib \o inp
<1>1. q \in Seq(P) /\ Len(q) \in Nat
  OBVIOUS
<1>2. PICK n \in 0..Len(q), b \in BOOLEAN :
         /\ d = [out |-> SubSeq(q, 1, n), rest |-> SubSeq(q, n + 1, Len(q)), pending |-> b]
         /\ n = 0 => ~b
         /\ flush /\ n < Len(q) => b
  BY DEF Deflate
<1> HIDE DEF q
<1>3. d.out = SubSeq(q, 1, n) /\ d.rest = SubSeq(q, n + 1, Len(q)) /\ (d.pending <=> b)
  BY <1>2
<1>4. d.out \in Seq(P) /\ d.rest \in Seq(P) /\ d.pending \in BOOLEAN
  BY DeflateType
<1>5. SubSeq(q, 1, n) \o SubSeq(q, n + 1, Len(q)) = q
  BY <1>1, CutSeq
<1>6. n = 0 => SubSeq(q, n + 1, Len(q)) = q
  BY <1>1
<1>7. n = Len(q) => SubSeq(q, n + 1, Len(q)) = <<>>
  BY <1>1
<1>8. SubSeq(q, 1, n) = <<>> => n = 0
  <2>1. Len(SubSeq(q, 1, n)) = n
    BY <1>1
  <2> QED
    BY <2>1
<1>9. flush /\ ~b => n = Len(q)
  BY <1>1, <1>2
<1>10. Parted(d, q, flush, P)
  BY <1>2, <1>3, <1>4, <1>5, <1>6, <1>7, <1>8, <1>9 DEF Parted
<1> QED
  BY <1>10 DEF q

\* The next fragment of a drain, whatever was asked to be written.
LEMMA DrainStep ==
    ASSUME TypeOK, OutInv, IssuedInv, RelatedInv, windowHolds, ~unusable, buflist = <<>>, draining,
           NEW op, NEW fin, Write(op, fin, <<>>), UNCHANGED <<script, next, pmd>>
    PROVE  IssuedInv' /\ RelatedInv'
<1>1. /\ script \in Seq(ClientWrites) /\ IssuedSays \in Said(PartSet)
      /\ next - 1 \in 0..Len(script) /\ <<>> \in Seq(PartSet)
      /\ zlib \in Seq(PartSet) /\ stashedFin \in BOOLEAN /\ unusable \in BOOLEAN
      /\ ~insideFrame /\ "continuation" \in DataOps
      /\ Put(script)[next - 1] \in Said(PartSet)
  BY Speaks DEF TypeOK, OutInv, DataOps
<1> DEFINE r == IssuedSays
           w == Put(script)[next - 1]
           ends == MessageEnds(script)
<1>2. /\ Related(r, w, zlib, draining, stashedFin, stashedType, ends)
      /\ pmd
  BY DEF RelatedInv
<1>3. /\ r.parts \o zlib = w.parts /\ r.open /\ stashedType = Nil /\ (stashedFin <=> ~w.open)
      /\ \A e \in ends : e <= Len(w.parts) => e <= Len(r.parts) \/ e = Len(w.parts)
      /\ Len(r.parts) \in ends => zlib = <<>>
  BY <1>2 DEF Related
<1>4. ends \subseteq Nat /\ (Len(w.parts) \in ends <=> ~w.open)
  BY <1>1, EndsFacts
<1>5. DeflatedWrite("continuation", stashedFin, <<>>)
  <2>1. (stashedFin \/ (fin /\ <<>> # <<>>)) = stashedFin
    BY <1>1
  <2> QED
    BY <2>1 DEF Write
<1>6. PICK d \in Deflate(<<>>, stashedFin) :
        /\ zlib' \in Freed(d.rest, <<>>) /\ draining' = d.pending /\ StashedWp(d, stashedFin)
        /\ LET useType == d.out # <<>> /\ stashedType # Nil
           IN  /\ stashedType' = IF useType THEN Nil ELSE stashedType
               /\ Issue([op |-> IF useType THEN stashedType ELSE "continuation",
                         fin |-> FragmentFin(stashedFin, d.pending),
                         parts |-> d.out, hdr |-> ~insideFrame])
  BY <1>5 DEF DeflatedWrite
<1>7. /\ d.out \in Seq(PartSet) /\ d.rest \in Seq(PartSet) /\ d.pending \in BOOLEAN
      /\ d.out \o d.rest = zlib \o <<>>
      /\ d.out = <<>> => ~d.pending /\ d.rest = zlib \o <<>>
      /\ stashedFin /\ ~d.pending => d.rest = <<>>
  <2>1. Parted(d, zlib \o <<>>, stashedFin, PartSet)
    BY <1>1, <1>6, Deflated
  <2> QED
    BY <2>1 DEF Parted
<1>8. zlib \o <<>> = zlib
  BY <1>1
<1>9. zlib' = d.rest /\ stashedType' = Nil /\ stashedFin' = stashedFin
  BY <1>3, <1>6 DEF Freed, StashedWp
<1> DEFINE f == [op |-> "continuation", fin |-> FragmentFin(stashedFin, d.pending),
                 parts |-> d.out, hdr |-> ~insideFrame]
<1>10. /\ f \in Frame /\ f.hdr /\ f.op = "continuation" /\ f.parts = d.out
       /\ f.fin <=> (stashedFin /\ ~d.pending)
  BY <1>1, <1>7 DEF Frame, FragmentFin
<1>11. Issue(f)
  BY <1>3, <1>6
<1>12. r.parts \o (d.out \o d.rest) = w.parts
  BY <1>3, <1>7, <1>8
<1>13. zlib = <<>> => d.out = <<>> /\ d.rest = <<>>
  <2> SUFFICES ASSUME zlib = <<>> PROVE d.out = <<>> /\ d.rest = <<>>
    OBVIOUS
  <2> DEFINE o == d.out
             t == d.rest
  <2>1. o \in Seq(PartSet) /\ t \in Seq(PartSet) /\ o \o t = <<>>
    BY <1>7, <1>8
  <2> HIDE DEF o, t
  <2>2. Len(o \o t) = Len(o) + Len(t) /\ Len(o) \in Nat /\ Len(t) \in Nat
    BY <2>1
  <2>3. Len(o) = 0 /\ Len(t) = 0
    BY <2>1, <2>2
  <2> QED
    BY <2>1, <2>3, NoElements DEF o, t
<1> HIDE DEF f, r, w, ends
<1>14. f.op = NextType(r)
  BY <1>3, <1>10 DEF NextType
<1>15. GoesOn(r, f, ends) /\ Related(Hear(r, f), w, d.rest, d.pending, stashedFin, Nil, ends)
  <2>1. r \in Said(PartSet) /\ w \in Said(PartSet)
    BY <1>1 DEF r, w
  <2>2. /\ r.open /\ Len(r.parts) \in ends => d.out = <<>> /\ d.rest = <<>>
        /\ ~r.open => d.out # <<>>
        /\ d.pending => (stashedFin <=> stashedFin)
        /\ f.op \in DataOps
    BY <1>1, <1>3, <1>10, <1>13
  <2>3. /\ d.out \in Seq(PartSet) /\ d.rest \in Seq(PartSet) /\ d.pending \in BOOLEAN
        /\ stashedFin /\ ~d.pending => d.rest = <<>>
        /\ stashedFin \in BOOLEAN /\ (stashedFin <=> ~w.open)
        /\ \A e \in ends : e <= Len(w.parts) => e <= Len(r.parts) \/ e = Len(w.parts)
        /\ f.parts = d.out /\ (f.fin <=> (stashedFin /\ ~d.pending))
    BY <1>1, <1>3, <1>7, <1>10
  <2>4. Cut(PartSet, ends, r, w, d.out, d.rest, stashedFin, d.pending)
    BY ONLY <1>4, <1>12, <2>1, <2>2, <2>3 DEF Cut
  <2>5. Carries(f, r, d.out, stashedFin, d.pending) /\ Stashed(stashedFin, stashedFin, d.pending)
    BY ONLY <1>14, <2>2, <2>3 DEF Carries, Stashed
  <2> QED
    BY ONLY <2>4, <2>5, Fragment
<1>16. /\ GoodFrames(Issued', script)
       /\ unusable' \/ (unusable' = unusable /\ IssuedSays' = Hear(IssuedSays, f))
  BY <1>1, <1>7, <1>10, <1>11, <1>15, DataOut DEF r, w, ends
<1>17. IssuedInv'
  BY <1>16 DEF IssuedInv
<1>18. RelatedInv'
  <2>1. ~unusable' =>
          Related(IssuedSays', Put(script)[next - 1], zlib', draining', stashedFin', stashedType',
                  MessageEnds(script))
    BY <1>6, <1>9, <1>15, <1>16 DEF r, w, ends
  <2> QED
    BY <1>2, <2>1 DEF RelatedInv
<1> QED
  BY <1>17, <1>18

\* A control frame outside a drain.
LEMMA ControlStep ==
    ASSUME TypeOK, OutInv, IssuedInv, RelatedInv, ~unusable, buflist = <<>>, ~draining,
           NEW op \in {"ping", "pong", "close"}, NEW fin \in BOOLEAN, Write(op, fin, <<>>),
           UNCHANGED <<script, pmd>>, Put(script)[next' - 1] = Put(script)[next - 1]
    PROVE  IssuedInv' /\ RelatedInv'
<1> DEFINE f == [op |-> op, fin |-> fin, parts |-> <<>>, hdr |-> ~insideFrame]
<1>1. op \notin DataOps /\ ~insideFrame /\ <<>> \in Seq(PartSet)
  BY DEF DataOps, OutInv
<1>2. f \in Frame /\ f.hdr /\ f.op \notin DataOps
  BY <1>1 DEF Frame
<1>3. Issue(f) /\ UNCHANGED extVars
  BY <1>1 DEF Write, PlainWrite
<1> HIDE DEF f
<1>4. /\ GoodFrames(Issued', script)
      /\ unusable' \/ (unusable' = unusable /\ IssuedSays' = IssuedSays)
  BY <1>2, <1>3, ControlOut
<1>5. IssuedInv'
  BY <1>4 DEF IssuedInv
<1>6. RelatedInv'
  <2>1. ~unusable' =>
          /\ Related(IssuedSays', Put(script)[next' - 1], zlib', draining', stashedFin',
                     stashedType', MessageEnds(script))
          /\ ~pmd => zlib' = <<>> /\ ~draining' /\ stashedType' = Nil
    BY <1>3, <1>4 DEF RelatedInv, extVars
  <2> QED
    BY <2>1 DEF RelatedInv
<1> QED
  BY <1>5, <1>6

\* A data write of the client, as it is or through the extension.
LEMMA DataStep ==
    ASSUME TypeOK, OutInv, IssuedInv, RelatedInv, windowHolds, UserData
    PROVE  IssuedInv' /\ RelatedInv'
<1> DEFINE r == IssuedSays
           w == Put(script)[next - 1]
           v == Put(script)[next]
           c == Content(next)
           fin == script[next].fin
           ends == MessageEnds(script)
<1>1. /\ ~unusable /\ buflist = <<>> /\ ~draining /\ next <= queued /\ script[next].op \in DataOps
      /\ next' = next + 1 /\ Write(script[next].op, fin, c) /\ UNCHANGED <<script, pmd>>
  BY DEF UserData, UserTurn, Event, NothingBuffered
<1>2. /\ script \in Seq(ClientWrites) /\ r \in Said(PartSet) /\ w \in Said(PartSet)
      /\ Len(script) \in Nat /\ zlib \in Seq(PartSet) /\ unusable \in BOOLEAN
      /\ ~insideFrame /\ stashedType \in DataOps \cup {Nil} /\ Nil \notin DataOps
  BY Speaks, NilAssumption DEF TypeOK, OutInv
<1>3. next \in 1..Len(script) /\ next \in 0..Len(script) /\ next' - 1 = next
  BY <1>1, <1>2 DEF TypeOK
<1>4. fin \in BOOLEAN /\ c \in Seq(PartSet) /\ c # <<>>
  <2>1. fin \in BOOLEAN /\ c \in Seq(PartSet)
    BY <1>1, NextWrite
  <2>2. Len(c) = Parts /\ Parts \in Nat \ {0}
    BY <1>2, <1>3, WritesType
  <2> HIDE DEF c
  <2> QED
    BY <2>1, <2>2
<1>5. /\ v \in Said(PartSet) /\ v.parts = w.parts \o c /\ (v.open <=> ~fin)
      /\ r.parts \in Seq(PartSet)
  <2>1. v \in Said(PartSet)
    BY <1>3, Speaks
  <2>2. r.parts \in Seq(PartSet)
    BY <1>2 DEF Said
  <2> QED
    BY <1>1, <1>2, <1>3, <2>1, <2>2, PutFacts
<1>6. /\ ends \subseteq Nat /\ (Len(v.parts) \in ends <=> ~v.open)
      /\ \A e \in ends : e <= Len(v.parts) => e <= Len(w.parts) \/ e = Len(v.parts)
  BY <1>2, <1>3, EndsFacts
<1>7. /\ Related(r, w, zlib, FALSE, stashedFin, stashedType, ends)
      /\ ~pmd => zlib = <<>> /\ stashedType = Nil
  <2>1. draining = FALSE
    BY <1>1 DEF TypeOK
  <2> QED
    BY <1>1, <2>1 DEF RelatedInv
<1>8. script[next].op = NextType(w)
  BY <1>1, <1>3, OrderAssumption DEF TypeOK, Put
<1> HIDE DEF r, w, v, c, fin, ends
\* the type of the first fragment
<1>9. (IF stashedType # Nil THEN stashedType ELSE script[next].op) = NextType(r)
  BY <1>7, <1>8 DEF Related, NextType
<1>10. r.parts \o (zlib \o c) = v.parts
  <2>1. Associates(r.parts, zlib, c)
    BY <1>2, <1>4, <1>5, ConcatParts
  <2>2. r.parts \o zlib = w.parts
    BY <1>7 DEF Related
  <2> QED
    BY ONLY <1>5, <2>1, <2>2 DEF Associates
<1>11. /\ \A e \in ends : e <= Len(v.parts) => e <= Len(r.parts) \/ e = Len(v.parts)
       /\ ~(r.open /\ Len(r.parts) \in ends)
  BY <1>6, <1>7 DEF Related
\* a frame with the content out goes out, rest is kept
<1>12. ASSUME NEW f \in Frame, f.hdr, Issue(f), f.op = NextType(r), NEW out \in Seq(PartSet),
              NEW rest \in Seq(PartSet), out \o rest = zlib \o c, out # <<>>, f.parts = out,
              NEW pending \in BOOLEAN, fin /\ ~pending => rest = <<>>,
              f.fin <=> (fin /\ ~pending), zlib' = rest, draining' = pending, stashedType' = Nil,
              pending => (stashedFin' <=> fin), ~pmd => rest = <<>> /\ ~pending
       PROVE  IssuedInv' /\ RelatedInv'
  <2>1. f.op \in DataOps
    BY <1>12 DEF NextType, DataOps
  <2>2. r.parts \o (out \o rest) = v.parts
    BY <1>10, <1>12
  <2>3. /\ r.open /\ Len(r.parts) \in ends => out = <<>> /\ rest = <<>>
        /\ ~r.open => out # <<>>
        /\ fin <=> ~v.open
    BY <1>4, <1>5, <1>11, <1>12
  <2> DEFINE sf == stashedFin'
  <2>4. pending => (sf <=> fin)
    BY <1>12
  <2> HIDE DEF sf
  <2>5. GoesOn(r, f, ends) /\ Related(Hear(r, f), v, rest, pending, sf, Nil, ends)
    <3>1. /\ r \in Said(PartSet) /\ v \in Said(PartSet) /\ out \in Seq(PartSet)
          /\ rest \in Seq(PartSet) /\ fin \in BOOLEAN /\ pending \in BOOLEAN
          /\ fin /\ ~pending => rest = <<>>
          /\ f.op = NextType(r) /\ f.parts = out
          /\ f.fin <=> (fin /\ ~pending)
      BY <1>2, <1>4, <1>5, <1>12
    <3>2. /\ ends \subseteq Nat
          /\ Len(v.parts) \in ends <=> ~v.open
          /\ \A e \in ends : e <= Len(v.parts) => e <= Len(r.parts) \/ e = Len(v.parts)
      BY <1>6, <1>11
    <3>3. Cut(PartSet, ends, r, v, out, rest, fin, pending)
      BY ONLY <2>2, <2>3, <3>1, <3>2 DEF Cut
    <3>4. Carries(f, r, out, fin, pending) /\ Stashed(sf, fin, pending)
      BY ONLY <2>1, <2>4, <3>1 DEF Carries, Stashed
    <3> QED
      BY ONLY <3>3, <3>4, Fragment
  <2>6. /\ GoodFrames(Issued', script)
        /\ unusable' \/ (unusable' = unusable /\ IssuedSays' = Hear(IssuedSays, f))
    BY <1>1, <1>3, <1>12, <2>1, <2>5, DataOut DEF r, v, ends
  <2>7. IssuedInv'
    BY <1>1, <2>6 DEF IssuedInv
  <2>8. ~unusable' =>
          Related(IssuedSays', Put(script)[next], zlib', draining', stashedFin', stashedType',
                  MessageEnds(script))
    BY <1>12, <2>5, <2>6 DEF r, v, ends, sf
  <2>9. RelatedInv'
    BY <1>1, <1>3, <1>12, <2>8 DEF RelatedInv
  <2> QED
    BY <2>7, <2>9
<1>13. CASE ~pmd
  <2> DEFINE f == [op |-> script[next].op, fin |-> fin, parts |-> c, hdr |-> ~insideFrame]
  <2>1. f \in Frame /\ f.hdr /\ f.op = script[next].op /\ f.parts = c /\ (f.fin <=> fin)
    BY <1>1, <1>2, <1>4 DEF Frame
  <2>2. Issue(f) /\ UNCHANGED extVars
    BY <1>1, <1>13 DEF Write, PlainWrite
  <2> HIDE DEF f
  <2>3. <<>> \in Seq(PartSet) /\ c \o <<>> = <<>> \o c /\ zlib = <<>> /\ stashedType = Nil
    BY <1>4, <1>7, <1>13
  <2>4. zlib' = <<>> /\ draining' = FALSE /\ stashedType' = Nil
    BY <1>1, <2>2, <2>3 DEF extVars, TypeOK
  <2>5. f.op = NextType(r)
    BY <1>8, <1>9, <2>1, <2>3
  <2> QED
    BY <1>4, <1>12, <2>1, <2>2, <2>3, <2>4, <2>5
<1>14. CASE pmd
  <2>1. DeflatedWrite(script[next].op, fin, c)
    BY <1>1, <1>14 DEF Write
  <2>2. PICK d \in Deflate(c, fin) :
          /\ zlib' \in Freed(d.rest, c) /\ draining' = d.pending /\ StashedWp(d, fin)
          /\ \/ /\ c # <<>> /\ d.out = <<>> /\ StashType(script[next].op)
                /\ UNCHANGED <<outVars, unusable>>
             \/ /\ c = <<>> \/ d.out # <<>>
                /\ LET useType == d.out # <<>> /\ stashedType # Nil
                   IN  /\ stashedType' = IF useType THEN Nil ELSE stashedType
                       /\ Issue([op |-> IF useType THEN stashedType ELSE script[next].op,
                                 fin |-> FragmentFin(fin, d.pending),
                                 parts |-> d.out, hdr |-> ~insideFrame])
    BY <2>1 DEF DeflatedWrite
  <2>3. /\ d.out \in Seq(PartSet) /\ d.rest \in Seq(PartSet) /\ d.pending \in BOOLEAN
        /\ d.out \o d.rest = zlib \o c
        /\ d.out = <<>> => ~d.pending /\ d.rest = zlib \o c
        /\ fin /\ ~d.pending => d.rest = <<>>
    <3>1. Parted(d, zlib \o c, fin, PartSet)
      BY <1>2, <1>4, <2>2, Deflated
    <3> QED
      BY <3>1 DEF Parted
  <2>4. zlib' = d.rest
    BY <2>2 DEF Freed
  <2>5. CASE d.out = <<>>
    <3>1. /\ UNCHANGED <<outVars, unusable>> /\ draining' = FALSE /\ zlib' = zlib \o c
          /\ stashedType' = IF stashedType = Nil THEN script[next].op ELSE stashedType
      BY <1>4, <2>2, <2>3, <2>4, <2>5 DEF StashType
    <3>2. v.open
      <4>1. zlib \o c # <<>>
        <5>1. Len(zlib \o c) = Len(zlib) + Len(c) /\ Len(zlib) \in Nat /\ Len(c) \in Nat
          BY <1>2, <1>4
        <5>2. Len(c) # 0
          BY <1>4, NoElements
        <5>3. Len(zlib \o c) # 0
          BY <5>1, <5>2
        <5> QED
          BY <5>3
      <4> QED
        BY <1>5, <2>3, <2>5, <4>1
    <3> DEFINE t == IF stashedType = Nil THEN script[next].op ELSE stashedType
               sg == stashedFin'
    <3>3. Related(r, v, zlib \o c, FALSE, sg, t, ends)
      <4> HIDE DEF sg
      <4> QED
        BY <1>1, <1>2, <1>4, <1>5, <1>6, <1>7, <1>8, <3>2, HeldBack
    <3>4. Issued' = Issued /\ IssuedSays' = IssuedSays
      BY <3>1 DEF outVars, Issued, IssuedSays
    <3>5. Related(IssuedSays', Put(script)[next], zlib', draining', stashedFin', stashedType',
                  MessageEnds(script))
      BY <3>1, <3>3, <3>4 DEF r, v, ends
    <3>6. IssuedInv'
      BY <1>1, <3>4 DEF IssuedInv
    <3>7. RelatedInv'
      BY <1>1, <1>3, <1>14, <3>5 DEF RelatedInv
    <3> QED
      BY <3>6, <3>7
  <2>6. CASE d.out # <<>>
    <3> DEFINE u == d.out # <<>> /\ stashedType # Nil
               f == [op |-> IF u THEN stashedType ELSE script[next].op,
                     fin |-> FragmentFin(fin, d.pending),
                     parts |-> d.out, hdr |-> ~insideFrame]
    <3>1. /\ f \in Frame /\ f.hdr /\ f.op = (IF u THEN stashedType ELSE script[next].op)
          /\ f.parts = d.out /\ (f.fin <=> (fin /\ ~d.pending))
      BY <1>1, <1>2, <1>4, <2>3 DEF Frame, FragmentFin
    <3>2. Issue(f) /\ stashedType' = IF u THEN Nil ELSE stashedType
      BY <2>2, <2>6
    <3> HIDE DEF f
    <3>3. f.op = NextType(r) /\ stashedType' = Nil
      BY <1>9, <2>6, <3>1, <3>2
    <3>4. d.pending => (stashedFin' <=> fin)
      BY <2>2 DEF StashedWp
    <3> QED
      BY <1>12, <1>14, <2>2, <2>3, <2>4, <2>6, <3>1, <3>2, <3>3, <3>4
  <2> QED
    BY <2>5, <2>6
<1> QED
  BY <1>13, <1>14

\* What is sent is what was issued, or all but the last frame of it.
LEMMA SentGood ==
    ASSUME TypeOK, IssuedInv
    PROVE  MessagesWhole
<1>1. /\ Speaking(Frame, PartSet) /\ FrameLen \in Nat \ {0} /\ OutType
      /\ Len(script) \in 0..Len(script) /\ Put(script)[Len(script)].parts \in Seq(PartSet)
  BY Speaks
<1>2. Sent = FramesIn(wire) /\ Sent \in Seq(Frame)
  <2>1. Sent = FramesIn(wire)
    BY DEF Sent, FramesIn
  <2> QED
    BY <1>1, <2>1, FramesInType DEF OutType
<1>3. GoodFrames(Sent, script)
  <2>1. CASE buflist = <<>>
    BY <1>2, <2>1 DEF IssuedInv, Issued, IssuedOf
  <2>2. CASE buflist # <<>>
    <3>1. buflist[1] \in Segments
      BY <1>1, <2>2 DEF OutType
    <3>2. buflist[1].f \in Frame
      BY <3>1 DEF Segments
    <3>3. GoodFrames(Append(Sent, buflist[1].f), script)
      BY <1>2, <2>2 DEF IssuedInv, Issued, IssuedOf
    <3> QED
      BY <1>1, <1>2, <3>2, <3>3, GoodFront
  <2> QED
    BY <2>1, <2>2
<1> DEFINE a == Heard(Sent)[Len(Sent)].parts
           b == Put(script)[Len(script)].parts
<1>4. IsPrefix(a, b)
  <2>1. a \in Seq(PartSet) /\ b \in Seq(PartSet)
    <3>1. Len(Sent) \in 0..Len(Sent)
      BY <1>2
    <3>2. Heard(Sent)[Len(Sent)] \in Said(PartSet)
      BY <1>1, <1>2, <3>1, HeardFacts
    <3> QED
      BY <1>1, <3>2 DEF Said
  <2>2. Begins(a, b)
    BY <1>3 DEF GoodFrames
  <2> HIDE DEF a, b
  <2>3. Len(a) <= Len(b) /\ \A i \in 1..Len(a) : a[i] = b[i]
    BY <2>2 DEF Begins
  <2>4. SubSeq(a, 1, Len(a)) = SubSeq(b, 1, Len(a))
    BY <2>1, <2>3
  <2> QED
    BY <2>3, <2>4 DEF IsPrefix
<1>5. \A k \in DOMAIN Sent :
        Sent[k].op \in DataOps => GoesOn(Heard(Sent)[k - 1], Sent[k], MessageEnds(script))
  <2>1. DOMAIN Sent = 1..Len(Sent)
    BY <1>2
  <2> QED
    BY <1>3, <2>1 DEF GoodFrames
<1> QED
  BY <1>4, <1>5 DEF MessagesWhole, Put

\* The peer reads the messages that were sent, whole, in order and cut where the sender cut
\* them, however the compressor holds back, gives out and fragments, provided its window has
\* room for a write.
THEOREM MessagesWholeCorrect ==
    ASSUME windowHolds
    PROVE  Spec => []MessagesWhole
<1>1. Init => IssuedInv /\ RelatedInv
  <2> SUFFICES ASSUME Init PROVE IssuedInv /\ RelatedInv
    OBVIOUS
  <2>0. script \in Seq(ClientWrites) /\ <<>> \in Seq(Frame)
    <3>1. script \in Scripts /\ Scripts \subseteq Seq(ClientWrites)
      BY ScriptAssumption DEF Init, ClientWrites
    <3>2. <<>> \in Seq(Frame)
      OBVIOUS
    <3> QED
      BY ONLY <3>1, <3>2
  <2>1. /\ FrameLen \in Nat \ {0} /\ next - 1 = 0 /\ wire = <<>> /\ buflist = <<>>
        /\ zlib = <<>> /\ ~draining /\ stashedType = Nil
    BY ScriptAssumption DEF Init
  <2>2. Issued = <<>>
    <3>1. 0 \div FrameLen = 0
      BY <2>1, SMT
    <3>2. FramesIn(<<>>) = <<>>
      BY <3>1 DEF FramesIn
    <3> QED
      BY <2>1, <3>2 DEF Issued, IssuedOf
  <2>3. Speaking(Frame, PartSet)
    BY DEF Speaking, Frame
  <2>4. IssuedSays = Silence /\ Heard(Issued)[Len(Issued)] = Silence
    BY <2>0, <2>2, <2>3, HeardFacts DEF IssuedSays
  <2>5. Put(script)[0] = Silence /\ Len(script) \in Nat
    BY <2>0, PutFacts
  <2>6. IssuedInv
    <3>1. Put(script)[Len(script)].parts \in Seq(PartsOf(script))
      BY <2>0, <2>5, PutFacts DEF Said
    <3>2. Begins(Silence.parts, Put(script)[Len(script)].parts)
      BY <3>1 DEF Begins, Silence
    <3> QED
      BY <2>2, <2>4, <3>2 DEF IssuedInv, GoodFrames
  <2>7. Related(Silence, Silence, <<>>, FALSE, FALSE, Nil, MessageEnds(script))
    BY DEF Related, Silence
  <2>8. RelatedInv
    BY <2>1, <2>4, <2>5, <2>7 DEF RelatedInv, Init
  <2> QED
    BY <2>6, <2>8
<1>2. TypeOK /\ OutInv /\ IssuedInv /\ RelatedInv /\ [Next]_vars => IssuedInv' /\ RelatedInv'
  <2> SUFFICES ASSUME TypeOK, OutInv, IssuedInv, RelatedInv, [Next]_vars
               PROVE  IssuedInv' /\ RelatedInv'
    OBVIOUS
  \* a step that leaves the output alone, or ends the connection
  <2>1. ASSUME Issued' = Issued, UNCHANGED script,
               unusable' \/ (UNCHANGED <<pmd, extVars, unusable>>
                             /\ Put(script)[next' - 1] = Put(script)[next - 1])
        PROVE  IssuedInv' /\ RelatedInv'
    <3>1. IssuedSays' = IssuedSays
      BY <2>1 DEF IssuedSays
    <3> QED
      BY <2>1, <3>1 DEF IssuedInv, RelatedInv, extVars
  <2>2. UNCHANGED outVars => Issued' = Issued
    BY DEF outVars, Issued
  \* a control frame, or the fragment that goes out in its place
  <2>3. ASSUME NEW op \in {"ping", "pong", "close", "continuation"}, op = "continuation" => draining,
               Write(op, TRUE, <<>>), ~unusable, buflist = <<>>, UNCHANGED <<script, pmd>>,
               next' = next \/ (~draining /\ Put(script)[next' - 1] = Put(script)[next - 1])
        PROVE  IssuedInv' /\ RelatedInv'
    <3>1. CASE draining
      BY <2>3, <3>1, DrainStep
    <3>2. CASE ~draining
      <4>1. op \in {"ping", "pong", "close"} /\ Put(script)[next' - 1] = Put(script)[next - 1]
        BY <2>3, <3>2
      <4> QED
        BY <2>3, <3>2, <4>1, ControlStep
    <3> QED
      BY <3>1, <3>2
  <2>4. ASSUME NEW forced \in BOOLEAN, EventFlush(forced) PROVE IssuedInv' /\ RelatedInv'
    <3>1. Issued' = Issued
      BY <2>4, Flushing
    <3>2. UNCHANGED <<script, next, pmd, extVars>> /\ (unusable' \/ UNCHANGED unusable)
      BY <2>4 DEF EventFlush, SendFails, queueVars
    <3> QED
      BY <2>1, <3>1, <3>2
  <2>5. ASSUME NEW forced \in BOOLEAN, EventFlushed(forced) PROVE IssuedInv' /\ RelatedInv'
    BY <2>1, <2>2, <2>5 DEF EventFlushed, queueVars
  <2>6. ASSUME NEW forced \in BOOLEAN, EventCheckPing(forced) PROVE IssuedInv' /\ RelatedInv'
    BY <2>3, <2>6 DEF EventCheckPing, Event, NothingBuffered, queueVars
  <2>7. ASSUME NEW forced \in BOOLEAN, EventDrain(forced) PROVE IssuedInv' /\ RelatedInv'
    BY <2>3, <2>7 DEF EventDrain, Event, NothingBuffered, queueVars
  <2>8. CASE EventClose
    BY <2>3, <2>8 DEF EventClose, Event, NothingBuffered, queueVars
  <2>9. CASE EventPong
    <3>1. CASE lrs # "established"
      BY <2>1, <2>2, <2>9, <3>1 DEF EventPong, queueVars
    <3>2. CASE lrs = "established"
      BY <2>3, <2>9, <3>2 DEF EventPong, Event, NothingBuffered, queueVars
    <3> QED
      BY <3>1, <3>2
  <2>10. CASE UserData
    BY <2>10, DataStep
  \* a write that is not data puts nothing
  <2>11. ASSUME next <= queued, script[next].op \notin DataOps, next' = next + 1
         PROVE  Put(script)[next' - 1] = Put(script)[next - 1]
    <3>1. script \in Seq(ClientWrites) /\ Len(script) \in Nat
      BY Speaks
    <3>2. next \in 1..Len(script) /\ next' - 1 = next
      BY <2>11, <3>1 DEF TypeOK
    <3> QED
      BY <2>11, <3>1, <3>2, PutFacts
  <2>12. CASE UserPing
    <3>1. Put(script)[next' - 1] = Put(script)[next - 1]
      BY <2>11, <2>12 DEF UserPing, DataOps
    <3> QED
      BY <2>3, <2>12, <3>1 DEF UserPing, UserTurn, Event, NothingBuffered
  <2>13. CASE UserClose
    <3>1. Put(script)[next' - 1] = Put(script)[next - 1]
      BY <2>11, <2>13 DEF UserClose, DataOps
    <3> QED
      BY <2>1, <2>2, <2>13, <3>1 DEF UserClose
  <2>14. CASE UNCHANGED <<script, next, pmd, extVars, outVars>> /\ (unusable' \/ UNCHANGED unusable)
    BY <2>1, <2>2, <2>14
  <2> QED
    BY <2>4, <2>5, <2>6, <2>7, <2>8, <2>9, <2>10, <2>12, <2>13, <2>14
    DEF Next, Pollout, Recv, Timers, Over, Submit, RecvPing, RecvPong, RecvClose, RecvBad,
        ReadFails, Timeout, ValidityPing, ValidityHangup, UserNothing, vars, queueVars
<1>3. TypeOK /\ IssuedInv => MessagesWhole
  BY SentGood
<1> QED
  BY <1>1, <1>2, <1>3, TypeCorrect, OutCorrect, PTL DEF Spec
=============================================================================
