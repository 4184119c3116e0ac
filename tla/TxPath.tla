------------------------------- MODULE TxPath -------------------------------
(***************************************************************************)
(* What happens to a frame between the client's WRITEABLE callback and the *)
(* socket: framing and permessage-deflate (rops_write_role_protocol_ws),   *)
(* partial sends (lws_issue_raw and the buflist), the priorities of        *)
(* lws_handle_POLLOUT_event, the validity check pings and the closing      *)
(* states that wait for output.  All of it runs on the service thread; an  *)
(* action is one POLLOUT event, one POLLIN event or one timer.             *)
(*                                                                         *)
(* A frame is FrameLen units on the wire, of which a send may take any     *)
(* number.  The content of the i-th write is the sequence of its Parts     *)
(* parts; zlib may give them out one, several or none at a time.           *)
(***************************************************************************)
EXTENDS Naturals, Sequences, SequencesExt

CONSTANTS
    Scripts,        \* sequences of writes, of which the client queues one, in order
    Parts,          \* number of parts of the content of a data write
    FrameLen,       \* units of a frame on the wire
    maxChecks,      \* bound on the validity check pings that can reach the socket
    maxPings,       \* bound on the pings of the peer
    windowHolds,    \* zlib's window has room for a whole write
    Nil, Garbage

DataOps == {"text", "continuation"}

ASSUME ScriptAssumption ==
    /\ Scripts \subseteq Seq([op : DataOps \cup {"ping", "close"}, fin : BOOLEAN])
    /\ windowHolds \in BOOLEAN
    /\ Parts \in Nat \ {0} /\ FrameLen \in Nat \ {0} /\ maxChecks \in Nat /\ maxPings \in Nat

Content(i) == [k \in 1..Parts |-> <<i, k>>]

\* what the data frames fs say, frame by frame: their content, and whether a message is open
Hear(r, f) == IF f.op \in DataOps THEN [parts |-> r.parts \o f.parts, open |-> ~f.fin] ELSE r
Heard(fs) ==
    LET heard[n \in 0..Len(fs)] ==
          IF n = 0 THEN [parts |-> <<>>, open |-> FALSE] ELSE Hear(heard[n - 1], fs[n])
    IN  heard

\* the writes of the script s as frames, and where in their content a message ends
Writes(s) == [i \in DOMAIN s |-> [op |-> s[i].op, fin |-> s[i].fin, parts |-> Content(i)]]
MessageEnds(s) == {Len(Heard(Writes(s))[n].parts) :
                     n \in {m \in 0..Len(s) : ~Heard(Writes(s))[m].open}}

\* the type of a data frame that follows r
NextType(r) == IF r.open THEN "continuation" ELSE "text"

\* the client queues the frames of one message after the other (WireInOrder of
\* WebsocketClient)
ASSUME OrderAssumption ==
    \A s \in Scripts : \A i \in DOMAIN s :
        s[i].op \in DataOps => s[i].op = NextType(Heard(Writes(s))[i - 1])

ASSUME NilAssumption == Nil \notin DataOps \cup {"own", "peer", "error", "garbled"}

VARIABLES
    script,             \* the writes of this client
    queued, next,       \* writes queued so far; the first that is not yet taken
    pmd,                \* permessage-deflate was negotiated
    zlib,               \* parts inside the compressor
    draining,           \* tx_draining_ext
    stashedFin,         \* FIN of tx_draining_stashed_wp
    stashedType,        \* stashed_write_type, Nil when there is none pending
    lrs, pollout, unusable, closeBuf, closeNeedsAck,
    pongPending, pings, \* pong_pending_flag; pings received
    sendCheckPing, validityHup, checks,
    buflist,            \* buflist_out: frames with the units still to send
    insideFrame,
    wire                \* the units the socket took

queueVars == <<script, queued, next>>
extVars == <<zlib, draining, stashedFin, stashedType>>
validityVars == <<sendCheckPing, validityHup, checks>>
pongVars == <<pongPending, pings>>
outVars == <<buflist, insideFrame, wire>>
vars == <<queueVars, pmd, extVars, lrs, pollout, unusable, closeBuf, closeNeedsAck,
          pongVars, validityVars, outVars>>

PartSet == ((1..Len(script)) \X (1..Parts)) \cup {<<Garbage, Garbage>>}
Frame == [op : DataOps \cup {"ping", "pong", "close"}, fin : BOOLEAN, parts : Seq(PartSet),
          hdr : BOOLEAN]
LRS == {"established", "waiting_to_send_close", "awaiting_close_ack",
        "flushing_before_close", "dead"}

\* Every variable has its type; a segment of the buflist is never empty; and nothing but
\* fragments goes out during a drain: a pong or a close frame written then would be taken
\* for a fragment of the message.  (A check ping is not held back: one that falls due
\* during a drain goes out as such a fragment.)
TypeOK ==
    /\ script \in Scripts /\ queued \in 0..Len(script) /\ next \in 1..(queued + 1) /\ pmd \in BOOLEAN
    /\ zlib \in Seq(PartSet) /\ draining \in BOOLEAN /\ stashedFin \in BOOLEAN
    /\ stashedType \in DataOps \cup {Nil}
    /\ lrs \in LRS /\ pollout \in BOOLEAN /\ unusable \in BOOLEAN
    /\ closeBuf \in {Nil, "own", "peer", "error", "garbled"} /\ closeNeedsAck \in BOOLEAN
    /\ pongPending \in BOOLEAN /\ pings \in 0..maxPings
    /\ sendCheckPing \in BOOLEAN /\ validityHup \in BOOLEAN /\ checks \in 0..maxChecks
    /\ buflist \in Seq([f : Frame, left : 1..FrameLen]) /\ insideFrame \in BOOLEAN
    /\ wire \in Seq([f : Frame, u : 1..FrameLen])
    /\ draining => ~pongPending /\ lrs # "waiting_to_send_close"

Init ==
    /\ script \in Scripts /\ queued = 0 /\ next = 1 /\ pmd \in BOOLEAN
    /\ zlib = <<>> /\ draining = FALSE /\ stashedFin = FALSE /\ stashedType = Nil
    /\ lrs = "established" /\ pollout = FALSE /\ unusable = FALSE
    /\ closeBuf = Nil /\ closeNeedsAck = FALSE /\ pongPending = FALSE /\ pings = 0
    /\ sendCheckPing = FALSE /\ validityHup = FALSE /\ checks = 0
    /\ buflist = <<>> /\ insideFrame = FALSE /\ wire = <<>>

-----------------------------------------------------------------------------
(* lws_issue_raw.                                                            *)

Segment(f) == [f |-> f, left |-> FrameLen]

\* the socket takes n units of the first of the segments q
Units(s, n) == [k \in 1..n |-> [f |-> s.f, u |-> FrameLen - s.left + k]]

Rest(q, n) == IF n = Head(q).left THEN Tail(q)
              ELSE [q EXCEPT ![1].left = @ - n]

\* send from the head of the segments q: n units are taken, or the write fails
SendHead(q, n) == wire' = wire \o Units(Head(q), n) /\ buflist' = Rest(q, n)
SendFails(q) == unusable' = TRUE /\ wire' = wire /\ buflist' = q

\* one frame given to lws_issue_raw: behind what is buffered, if anything is
Issue(f) ==
    LET q == Append(buflist, Segment(f))
    IN  \/ \E n \in 0..Head(q).left : SendHead(q, n) /\ UNCHANGED unusable
        \/ SendFails(buflist)

-----------------------------------------------------------------------------
(* rops_write_role_protocol_ws.                                              *)

\* zlib (external): a call of deflate() with the input inp gives out some parts, keeps
\* the rest, and says whether it filled its output buffer.  A flush ends only when
\* everything is out; without a flush zlib may keep what it likes.
Deflate(inp, flush) ==
    LET q == zlib \o inp
    IN  {[out |-> SubSeq(q, 1, np[1]), rest |-> SubSeq(q, np[1] + 1, Len(q)), pending |-> np[2]] :
            np \in {m \in (0..Len(q)) \X BOOLEAN :
                      /\ m[1] = 0 => ~m[2]
                      /\ flush /\ m[1] < Len(q) => m[2]}}

\* the caller's buffer is freed when the write returns: input zlib has not taken yet is
\* whatever the memory holds by then
Freed(rest, inp) ==
    IF windowHolds \/ rest = <<>> \/ inp = <<>> THEN {rest}
    ELSE {rest, [rest EXCEPT ![Len(rest)] = <<Garbage, Garbage>>]}

\* mutant: the first fragment of a drain keeps its FIN
FragmentFinKept(fin, pending) == fin

\* a fragment that is followed by others must not go out with FIN
FragmentFin(fin, pending) == fin /\ ~pending

StashType(op) == stashedType' = IF stashedType = Nil THEN op ELSE stashedType

\* the FIN of the whole write is kept for the fragment that ends the drain
StashedWp(d, fin) == stashedFin' = IF d.pending THEN fin ELSE stashedFin

\* a data write through the extension
DeflatedWrite(op, fin, inp) ==
    \E d \in Deflate(inp, fin) :
        /\ zlib' \in Freed(d.rest, inp)
        /\ draining' = d.pending
        /\ StashedWp(d, fin)
        /\ \/ /\ inp # <<>> /\ d.out = <<>>
              /\ StashType(op)
              /\ UNCHANGED <<outVars, unusable>>
           \/ /\ inp = <<>> \/ d.out # <<>>
              /\ LET useType == d.out # <<>> /\ stashedType # Nil
                 IN  /\ stashedType' = IF useType THEN Nil ELSE stashedType
                     /\ Issue([op |-> IF useType THEN stashedType ELSE op,
                               fin |-> FragmentFin(fin, d.pending),
                               parts |-> d.out, hdr |-> ~insideFrame])
              /\ UNCHANGED insideFrame

\* a frame that goes out as it is.  A data write that is only queued behind others
\* returns less than its length and leaves the connection inside a frame.
PlainWrite(op, fin, inp) ==
    /\ Issue([op |-> op, fin |-> fin, parts |-> inp, hdr |-> ~insideFrame])
    /\ insideFrame' = (insideFrame \/ (op \in DataOps /\ buflist # <<>>))
    /\ UNCHANGED extVars

\* lws_write.  During a drain every write, whatever was asked for, is taken for the next
\* fragment of the message being drained.
Write(op, fin, inp) ==
    IF draining THEN DeflatedWrite("continuation", stashedFin \/ (fin /\ inp # <<>>), inp)
    ELSE IF pmd /\ op \in DataOps THEN DeflatedWrite(op, fin, inp)
    ELSE PlainWrite(op, fin, inp)

-----------------------------------------------------------------------------
(* __lws_close_free_wsi(NOSTATUS).                                           *)

\* the state after a close of a connection in state st: one whose close frame is out, or
\* that failed, is killed; buffered output is flushed first; a prepared reason is sent
AfterClose(st, broken, reason, buffered) ==
    IF broken \/ st \in {"waiting_to_send_close", "awaiting_close_ack"} THEN "dead"
    ELSE IF buffered THEN "flushing_before_close"
    ELSE IF st = "established" /\ reason # Nil THEN "waiting_to_send_close"
    ELSE "dead"

CloseFree(st, broken, reason, buffered) ==
    LET to == AfterClose(st, broken, reason, buffered)
    IN  /\ lrs' = to
        /\ closeNeedsAck' = (closeNeedsAck \/ to = "waiting_to_send_close")
        /\ pollout' = (to # "dead" /\ (pollout \/ to = "waiting_to_send_close"))

\* mutant: POLLOUT is one shot for every event
CarryOneShot(die, forced) ==
    IF die /\ ~forced THEN CloseFree(lrs, unusable', closeBuf, buflist' # <<>>)
    ELSE UNCHANGED <<lrs, closeNeedsAck>> /\ pollout' = forced

\* the end of a POLLOUT event: alive with POLLOUT left active, or closed.  The return
\* value of an event that POLLIN forced is not looked at.
Carry(die, forced) ==
    IF die /\ ~forced THEN CloseFree(lrs, unusable', closeBuf, buflist' # <<>>)
    ELSE UNCHANGED <<lrs, closeNeedsAck>> /\ pollout' = TRUE

-----------------------------------------------------------------------------
(* lws_handle_POLLOUT_event, in its order of priorities.  forced: called     *)
(* from the POLLIN handler because a drain is in progress.                   *)

Event(forced) ==
    /\ ~unusable /\ lrs # "dead"
    /\ forced => draining /\ lrs # "waiting_to_send_close"
    /\ ~forced => pollout

\* mutant: control frames and user writes need not wait for what is buffered
NothingBufferedIgnored == lrs # "flushing_before_close"

NothingBuffered == buflist = <<>> /\ lrs # "flushing_before_close"

\* 1: buffered output.  Once it is out a connection that waits for that is closed.
EventFlush(forced) ==
    /\ Event(forced) /\ buflist # <<>>
    /\ \/ \E n \in 0..Head(buflist).left : SendHead(buflist, n) /\ UNCHANGED unusable
       \/ SendFails(buflist)
    /\ insideFrame' = (insideFrame /\ buflist' # <<>>)
    /\ Carry(unusable' \/ (lrs = "flushing_before_close" /\ buflist' = <<>>), forced)
    /\ UNCHANGED <<queueVars, pmd, extVars, closeBuf, pongVars, validityVars>>

\* nothing is left to flush: closed now.  Reached when the event that sent the last of it
\* was a forced one.
EventFlushed(forced) ==
    /\ Event(forced) /\ buflist = <<>> /\ lrs = "flushing_before_close"
    /\ unusable' = TRUE
    /\ Carry(TRUE, forced)
    /\ UNCHANGED <<queueVars, pmd, extVars, closeBuf, pongVars, validityVars, outVars>>

\* mutant: the connection is closed without a look at what is buffered
CloseAnswered == CloseFree("awaiting_close_ack", FALSE, Nil, FALSE)

\* our answer to the peer's close is the last frame; the close that follows lets it out
CloseAnswer ==
    CloseFree("flushing_before_close", unusable', Nil, buflist' # <<>>)

\* 3a: the close frame
EventClose ==
    /\ Event(FALSE) /\ NothingBuffered /\ lrs = "waiting_to_send_close"
    /\ Write("close", TRUE, <<>>)
    /\ \/ /\ unusable'
          /\ CloseFree(lrs, TRUE, closeBuf, FALSE)
       \/ /\ ~unusable' /\ closeNeedsAck
          /\ lrs' = "awaiting_close_ack" /\ UNCHANGED <<pollout, closeNeedsAck>>
       \/ /\ ~unusable' /\ ~closeNeedsAck
          /\ CloseAnswer
    /\ UNCHANGED <<queueVars, pmd, closeBuf, pongVars, validityVars>>

\* 3b: a pong, forgotten once a close was started
EventPong ==
    /\ Event(FALSE) /\ NothingBuffered /\ lrs # "waiting_to_send_close" /\ pongPending
    /\ pongPending' = FALSE
    /\ \/ /\ lrs # "established"
          /\ Carry(FALSE, FALSE)
          /\ UNCHANGED <<extVars, outVars, unusable>>
       \/ /\ lrs = "established"
          /\ Write("pong", TRUE, <<>>)
          /\ Carry(unusable', FALSE)
    /\ UNCHANGED <<queueVars, pmd, closeBuf, pings, validityVars>>

\* 3c: a validity check ping
EventCheckPing(forced) ==
    /\ Event(forced) /\ NothingBuffered /\ lrs # "waiting_to_send_close" /\ ~pongPending
    /\ sendCheckPing
    /\ sendCheckPing' = FALSE
    /\ Write("ping", TRUE, <<>>)
    /\ Carry(unusable', forced)
    /\ UNCHANGED <<queueVars, pmd, closeBuf, pongVars, validityHup, checks>>

NoControl == lrs # "waiting_to_send_close" /\ ~pongPending /\ ~sendCheckPing

\* 5: the next fragment of a message that is being drained
EventDrain(forced) ==
    /\ Event(forced) /\ NothingBuffered /\ NoControl /\ draining
    /\ Write("continuation", TRUE, <<>>)
    /\ Carry(unusable', forced)
    /\ UNCHANGED <<queueVars, pmd, closeBuf, pongVars, validityVars>>

\* the WRITEABLE callback: POLLOUT is one shot
UserTurn == Event(FALSE) /\ NothingBuffered /\ NoControl /\ ~draining

UserNothing ==
    /\ UserTurn /\ next > queued
    /\ pollout' = FALSE
    /\ UNCHANGED <<queueVars, pmd, extVars, lrs, unusable, closeBuf, closeNeedsAck, pongVars,
                   validityVars, outVars>>

\* a data frame.  An error of lws_write is returned to lws as success.
UserData ==
    /\ UserTurn /\ next <= queued /\ script[next].op \in DataOps
    /\ next' = next + 1
    /\ Write(script[next].op, script[next].fin, Content(next))
    /\ Carry(FALSE, FALSE)
    /\ UNCHANGED <<script, queued, pmd, closeBuf, pongVars, validityVars>>

UserPing ==
    /\ UserTurn /\ next <= queued /\ script[next].op = "ping"
    /\ next' = next + 1
    /\ Write("ping", TRUE, <<>>)
    /\ Carry(unusable', FALSE)
    /\ UNCHANGED <<script, queued, pmd, closeBuf, pongVars, validityVars>>

\* lws_close_reason, and -1 is returned
UserClose ==
    /\ UserTurn /\ next <= queued /\ script[next].op = "close"
    /\ next' = next + 1
    /\ closeBuf' = "own"
    /\ CloseFree(lrs, FALSE, "own", FALSE)
    /\ UNCHANGED <<script, queued, pmd, extVars, unusable, pongVars, validityVars, outVars>>

-----------------------------------------------------------------------------
(* The queue, the receiving side and the timers.                             *)

\* send() and close() queue a write and ask for a callback
Submit ==
    /\ queued < Len(script) /\ lrs # "dead"
    /\ queued' = queued + 1
    /\ pollout' = TRUE
    /\ UNCHANGED <<script, next, pmd, extVars, lrs, unusable, closeBuf, closeNeedsAck, pongVars,
                   validityVars, outVars>>

\* mutant: receiving goes on during a drain
ReadsAlways == lrs \in {"established", "awaiting_close_ack"}

\* rops_handle_POLLIN_ws reads from the socket, which it does not during a drain
Reads == lrs \in {"established", "awaiting_close_ack"} /\ ~draining

\* a ping: answered unless a close reason is prepared or a pong is still to be sent
RecvPing ==
    /\ Reads /\ pings < maxPings /\ closeBuf = Nil /\ ~pongPending
    /\ pings' = pings + 1
    /\ pongPending' = TRUE /\ pollout' = TRUE
    /\ UNCHANGED <<queueVars, pmd, extVars, lrs, unusable, closeBuf, closeNeedsAck,
                   validityVars, outVars>>

\* a pong: lws_validity_confirmed
RecvPong ==
    /\ Reads /\ validityHup
    /\ validityHup' = FALSE
    /\ UNCHANGED <<queueVars, pmd, extVars, lrs, pollout, unusable, closeBuf, closeNeedsAck,
                   pongVars, sendCheckPing, checks, outVars>>

\* a close: the answer to ours, or one to be answered
RecvClose ==
    /\ Reads
    /\ \/ /\ lrs = "awaiting_close_ack"
          /\ CloseFree(lrs, unusable, closeBuf, buflist # <<>>)
          /\ UNCHANGED closeBuf
       \/ /\ lrs = "established"
          /\ closeBuf' = "peer" /\ closeNeedsAck' = FALSE
          /\ lrs' = "waiting_to_send_close" /\ pollout' = TRUE
    /\ UNCHANGED <<queueVars, pmd, extVars, unusable, pongVars, validityVars, outVars>>

\* a frame the parser refuses, with a close reason of its own
RecvBad ==
    /\ Reads /\ lrs = "established"
    /\ closeBuf' = "error"
    /\ CloseFree(lrs, unusable, "error", buflist # <<>>)
    /\ UNCHANGED <<queueVars, pmd, extVars, unusable, pongVars, validityVars, outVars>>

\* the socket reads zero bytes or an error
ReadFails ==
    /\ Reads
    /\ CloseFree(lrs, unusable, closeBuf, buflist # <<>>)
    /\ UNCHANGED <<queueVars, pmd, extVars, unusable, closeBuf, pongVars, validityVars,
                   outVars>>

\* lws_sul_wsitimeout_cb in a closing state
Timeout ==
    /\ lrs \in {"waiting_to_send_close", "awaiting_close_ack", "flushing_before_close"}
    /\ unusable' = TRUE
    /\ CloseFree(lrs, TRUE, closeBuf, FALSE)
    /\ UNCHANGED <<queueVars, pmd, extVars, closeBuf, pongVars, validityVars, outVars>>

\* mutant: nobody asks for POLLOUT
ValidityPingSilent ==
    /\ lrs # "dead" /\ ~validityHup
    /\ checks < maxChecks \/ unusable
    /\ checks' = IF checks < maxChecks THEN checks + 1 ELSE checks
    /\ sendCheckPing' = TRUE /\ validityHup' = TRUE
    /\ closeBuf' = IF closeBuf = Nil THEN Nil ELSE "garbled"
    /\ UNCHANGED <<queueVars, pmd, extVars, lrs, pollout, unusable, closeNeedsAck, pongVars,
                   outVars>>

\* lws_validity_cb after secs_since_valid_ping: rops_issue_keepalive_ws.  The ping's
\* payload is put where a close reason may be waiting.
ValidityPing ==
    /\ lrs # "dead" /\ ~validityHup
    /\ checks < maxChecks \/ unusable
    /\ checks' = IF checks < maxChecks THEN checks + 1 ELSE checks
    /\ sendCheckPing' = TRUE /\ validityHup' = TRUE /\ pollout' = TRUE
    /\ closeBuf' = IF closeBuf = Nil THEN Nil ELSE "garbled"
    /\ UNCHANGED <<queueVars, pmd, extVars, lrs, unusable, closeNeedsAck, pongVars, outVars>>

\* lws_validity_cb after secs_since_valid_hangup
ValidityHangup ==
    /\ lrs # "dead" /\ validityHup
    /\ CloseFree(lrs, unusable, closeBuf, buflist # <<>>)
    /\ UNCHANGED <<queueVars, pmd, extVars, unusable, closeBuf, pongVars, validityVars,
                   outVars>>

Pollout == \/ \E forced \in BOOLEAN : \/ EventFlush(forced) \/ EventFlushed(forced)
                                      \/ EventCheckPing(forced) \/ EventDrain(forced)
           \/ EventClose \/ EventPong
           \/ UserNothing \/ UserData \/ UserPing \/ UserClose

Recv == RecvPing \/ RecvPong \/ RecvClose \/ RecvBad \/ ReadFails
Timers == Timeout \/ ValidityPing \/ ValidityHangup

\* the connection is closed
Over == lrs = "dead" /\ UNCHANGED vars

Next == Submit \/ Pollout \/ Recv \/ Timers \/ Over

Spec == Init /\ [][Next]_vars

\* The service thread handles a POLLOUT event that is asked for, and the socket takes
\* something again and again or fails; a failed socket is readable (it reports its error);
\* the timers run.
Fairness ==
    /\ WF_vars(Pollout)
    /\ WF_vars(unusable /\ ReadFails)
    /\ WF_vars(Timeout) /\ WF_vars(ValidityPing) /\ WF_vars(ValidityHangup)

FairSpec == Spec /\ Fairness

-----------------------------------------------------------------------------
(* Properties.                                                               *)

\* the frames that are wholly on the wire
Sent == [k \in 1..(Len(wire) \div FrameLen) |-> wire[k * FrameLen].f]

\* The peer sees whole frames, each with its header, one after the other, however the
\* socket cuts them up: no unit of another frame, pong or close comes between two units of
\* a frame.  What is missing of the last one is the head of buflist_out.
FramesWhole ==
    /\ \A k \in DOMAIN wire :
         /\ wire[k].u = ((k - 1) % FrameLen) + 1
         /\ wire[k].u > 1 => wire[k].f = wire[k - 1].f
         /\ wire[k].f.hdr
    /\ Len(wire) % FrameLen # 0 =>
         buflist # <<>> /\ buflist[1] = [f |-> Last(wire).f,
                                       left |-> FrameLen - (Len(wire) % FrameLen)]

\* the data frame f goes on after r, when messages end at ends: with the type that is due, not
\* with an empty message, with FIN only at an end, and with nothing behind an end without FIN
GoesOn(r, f, ends) ==
    /\ f.op = NextType(r)
    /\ ~r.open => f.parts # <<>>
    /\ f.fin => Len(r.parts \o f.parts) \in ends
    /\ r.open /\ Len(r.parts) \in ends => f.parts = <<>>

\* The peer reads the messages that were sent: the data frames carry the contents of the
\* writes in order, nothing lost, repeated or foreign; a message starts with a text frame
\* and some of its content and ends, with FIN, exactly where it ended for the sender.
\* Compression may cut the fragments anew, hold them back and leave them for later POLLOUT
\* events.
MessagesWhole ==
    /\ IsPrefix(Heard(Sent)[Len(Sent)].parts, Heard(Writes(script))[Len(script)].parts)
    /\ \A k \in DOMAIN Sent :
         Sent[k].op \in DataOps => GoesOn(Heard(Sent)[k - 1], Sent[k], MessageEnds(script))

\* Output that is waiting has asked for POLLOUT: one that has not would wait for ever.
PolloutAsked ==
    /\ lrs # "dead" /\ ~unusable
    /\ \/ buflist # <<>> \/ draining \/ pongPending \/ sendCheckPing
       \/ lrs = "waiting_to_send_close" \/ next <= queued
    => pollout

\* A close of the peer is answered: unless the socket failed or timed out or a validity
\* check was going on, the connection does not end before the whole answer is on the wire.
CloseAnswerSent ==
    lrs = "dead" /\ ~unusable /\ ~validityHup /\ closeBuf = "peer" /\ ~closeNeedsAck
        => Sent # <<>> /\ Last(Sent).op = "close"

\* A message whose end was queued is sent to its end, or the connection ends.
MessageQueued(i) ==
    \E e \in i..queued : script[i].op \in DataOps /\ script[e].op \in DataOps /\ script[e].fin
WriteSent(i) == \E k \in DOMAIN Sent : Contains(Sent[k].parts, <<i, Parts>>)
QueuedIsSent ==
    \A i \in UNION {DOMAIN s : s \in Scripts} :
        MessageQueued(i) ~> WriteSent(i) \/ lrs = "dead"

=============================================================================
