-------------------------- MODULE WebsocketClient --------------------------
(***************************************************************************)
(* One WebsocketClient (WebsocketClient.swift) and the libwebsockets       *)
(* connection (wsi) it drives.  Three actors interleave:                   *)
(*                                                                         *)
(*   - the owner: threads that hold the client and call send(), close();   *)
(*   - the event loop: the swift-nio EventLoop, a FIFO of closures run one *)
(*     at a time (loop), with the operation in progress in cur;            *)
(*   - the service thread: lws_service(), which runs the wsi's state       *)
(*     machine (lrs) and calls _lws_swift_websocketClientCallback.         *)
(*                                                                         *)
(* An action is what one actor does between two points at which another    *)
(* actor can see or change something it uses.                              *)
(***************************************************************************)
EXTENDS Integers, Sequences, FiniteSets, SequencesExt, Subsequences

CONSTANTS
    Msgs,          \* what the owner submits, each at most once: send() and close() calls
    CloseMsgs,     \* those of Msgs that are close(reason) calls; the reason is the id
    PingMsgs,      \* those of Msgs that are send(opcode: .ping) calls
    Size,          \* the payload size of every message
    maxFrameSize,  \* largest payload of one frame (connect's parameter)
    Reentrant,     \* messages whose promise, when failed, runs a callback that calls close()
    Nil, noStatus, goingAway, peerStatus, protocolErr   \* close statuses

Statuses == CloseMsgs \cup {noStatus, goingAway, peerStatus, protocolErr}

ASSUME MsgsAssumption ==
    /\ CloseMsgs \subseteq Msgs
    /\ PingMsgs \subseteq Msgs
    /\ CloseMsgs \cap PingMsgs = {}
    /\ Reentrant \subseteq Msgs \ CloseMsgs
ASSUME SizeAssumption == Size \in [Msgs -> Nat] /\ maxFrameSize \in Nat \ {0}
ASSUME NilAssumption == Nil \notin Statuses \cup Msgs
\* a close() call's reason is told from the statuses that come from elsewhere
ASSUME StatusAssumption == CloseMsgs \cap {noStatus, goingAway, peerStatus, protocolErr} = {}

VARIABLES
    \* the client object
    websocket,             \* the wsi pointer is set
    wasConnected, connectionError,
    lwsCloseStatus, waitingLwsCloseStatus,
    toBeWritten,           \* frames waiting for a WRITEABLE callback
    onConnect,             \* the connect promise is still to be resolved
    onCloseCallback,       \* an onClose callback is registered
    closeLock,             \* "free", or "loop" while the event loop holds it
    alive,                 \* deinit has not run
    owned,                 \* the owner still holds the client
    timer,                 \* the connect timeout task is scheduled
    \* the event loop
    loop, cur, pendingWrites,
    \* the wsi
    lrs, pollout, closeBuf, closeNeedsAck, unusable, hand,
    \* what the owner and the peer see
    submitted, promise, connectResult, notified,
    wire, closeSent, accepted

clientVars == <<websocket, wasConnected, connectionError, lwsCloseStatus,
                waitingLwsCloseStatus, toBeWritten, onConnect, onCloseCallback,
                closeLock, alive, owned, timer>>
loopVars == <<loop, cur, pendingWrites>>
wsiVars == <<lrs, pollout, closeBuf, closeNeedsAck, unusable, hand>>
seenVars == <<submitted, promise, connectResult, notified, wire, closeSent,
              accepted>>
vars == <<clientVars, loopVars, wsiVars, seenVars>>

-----------------------------------------------------------------------------
(* Frames.  A data message larger than maxFrameSize becomes several frames;  *)
(* only the last has fin and the promise.                                    *)

Promised == Msgs \ CloseMsgs

Ops == {"data", "continuation", "ping", "close"}
Frame == {f \in [op : Ops, msg : Msgs, len : Nat, fin : BOOLEAN, promise : BOOLEAN] :
            f.op = "close" => f.msg \in CloseMsgs}

\* mutant: rounds down
PiecesFloor(size) == size \div maxFrameSize

\* the number of pieces Data.chunked(into: maxFrameSize) returns for size bytes
Pieces(size) == (size + maxFrameSize - 1) \div maxFrameSize

SingleFrame(m) ==
    [op |-> IF m \in CloseMsgs THEN "close" ELSE IF m \in PingMsgs THEN "ping" ELSE "data",
     msg |-> m, len |-> Size[m], fin |-> TRUE, promise |-> m \in Promised]

\* mutant: the promise goes with every frame
ChunkFramesAllPromise(m) ==
    LET n == Pieces(Size[m])
    IN  [i \in 1..n |-> [op |-> IF i = 1 THEN "data" ELSE "continuation", msg |-> m,
                         len |-> 1, fin |-> i = n, promise |-> TRUE]]

ChunkFrames(m) ==
    LET n == Pieces(Size[m])
    IN  [i \in 1..n |->
           [op |-> IF i = 1 THEN "data" ELSE "continuation",
            msg |-> m,
            len |-> IF i < n THEN maxFrameSize ELSE Size[m] - (n - 1) * maxFrameSize,
            fin |-> i = n,
            promise |-> i = n]]

\* what send() appends to toBeWritten
FramesOf(m) ==
    IF m \in CloseMsgs \cup PingMsgs \/ Size[m] <= maxFrameSize
    THEN <<SingleFrame(m)>>
    ELSE ChunkFrames(m)

-----------------------------------------------------------------------------
(* The event loop's closures.                                                *)

Task(t, a) == [t |-> t, arg |-> a]
Tasks == [t : {"send"}, arg : Msgs]
         \cup [t : {"markAsClosed", "notify"}, arg : Statuses]
         \cup [t : {"connectOk", "connectFail", "setOnClose"}, arg : {Nil}]

Idle == [pc |-> "idle", msg |-> Nil]
At(pc, m) == [pc |-> pc, msg |-> m]
CurStates == {Idle} \cup [pc : {"enqueue", "writable"}, msg : Msgs]
                         \cup [pc : {"resolve", "relock"}, msg : Statuses]

\* the LRS_ states of the wsi that its ws client role distinguishes; "none" before
\* lws_client_connect_via_info, "freed" after __lws_free_wsi
LRS == {"none", "connecting", "established", "waiting_to_send_close",
        "awaiting_close_ack", "dead", "freed"}
Live == {"connecting", "established", "waiting_to_send_close", "awaiting_close_ack"}
Upgraded == Live \ {"connecting"}

NoFrame == <<>>   \* hand holds at most one frame

\* the flags
TypeFlags ==
    /\ websocket \in BOOLEAN /\ wasConnected \in BOOLEAN /\ connectionError \in BOOLEAN
    /\ onConnect \in BOOLEAN /\ onCloseCallback \in BOOLEAN
    /\ alive \in BOOLEAN /\ owned \in BOOLEAN /\ timer \in BOOLEAN
    /\ pollout \in BOOLEAN /\ closeNeedsAck \in BOOLEAN /\ unusable \in BOOLEAN

\* the queues, and what has gone through them
TypeQueues ==
    /\ toBeWritten \in Seq(Frame) /\ pendingWrites \in Seq(Frame)
    /\ hand \in Seq(Frame) /\ Len(hand) <= 1
    /\ loop \in Seq(Tasks)
    /\ wire \in Seq(Frame) /\ accepted \in Seq(Frame)
    /\ notified \in Seq(Statuses)

\* the states and statuses
TypeStates ==
    /\ lwsCloseStatus \in Statuses \cup {Nil}
    /\ waitingLwsCloseStatus \in Statuses \cup {Nil}
    /\ closeBuf \in Statuses \cup {Nil} /\ closeSent \in Statuses \cup {Nil}
    /\ closeLock \in {"free", "loop"} /\ cur \in CurStates /\ lrs \in LRS
    /\ submitted \in SUBSET Msgs
    /\ promise \in [Msgs -> {"none", "pending", "ok", "failed"}]
    /\ connectResult \in {"none", "ok", "failed"}

\* Every variable has its type; in particular a status reported by CLIENT_CLOSED is never
\* missing, and a close frame in the write queue carries a close() call's reason.
TypeOK == TypeFlags /\ TypeQueues /\ TypeStates

isClosedForever == connectionError \/ lwsCloseStatus # Nil
isClosed == ~websocket \/ ~wasConnected \/ connectionError \/ lwsCloseStatus # Nil

Execute(task) == loop' = Append(loop, task)

Init ==
    /\ websocket = FALSE /\ wasConnected = FALSE /\ connectionError = FALSE
    /\ lwsCloseStatus = Nil /\ waitingLwsCloseStatus = Nil
    /\ toBeWritten = <<>>
    /\ onConnect = TRUE /\ onCloseCallback = FALSE
    /\ closeLock = "free" /\ alive = TRUE /\ owned = TRUE /\ timer = TRUE
    /\ loop = <<>> /\ cur = Idle /\ pendingWrites = <<>>
    /\ lrs = "none" /\ pollout = FALSE /\ closeBuf = Nil /\ closeNeedsAck = FALSE
    /\ unusable = FALSE /\ hand = NoFrame
    /\ submitted = {} /\ promise = [m \in Msgs |-> "none"]
    /\ connectResult = "none" /\ notified = <<>>
    /\ wire = <<>> /\ closeSent = Nil
    /\ accepted = <<>>
-----------------------------------------------------------------------------
(* The owner, on threads other than the event loop's.  It has the client     *)
(* only once connect's future has succeeded.                                 *)

MayCall == owned /\ connectResult = "ok"

\* the promise of every message of the frames fs gets the result res
Resolve(fs, res) ==
    [m \in Msgs |-> IF \E i \in DOMAIN fs : fs[i].msg = m /\ fs[i].promise
                    THEN res ELSE promise[m]]

\* send() off the loop: hop to the loop
Send(m) ==
    /\ MayCall /\ m \in Promised \ submitted
    /\ submitted' = submitted \cup {m}
    /\ promise' = [promise EXCEPT ![m] = "pending"]
    /\ Execute(Task("send", m))
    /\ UNCHANGED <<clientVars, cur, pendingWrites, wsiVars, connectResult, notified,
                   wire, closeSent, accepted>>

\* close(reason:) off the loop: under closeLock, send a .close frame, which hops to the loop
Close(m) ==
    /\ MayCall /\ m \in CloseMsgs \ submitted
    /\ closeLock = "free"
    /\ submitted' = submitted \cup {m}
    /\ IF isClosedForever THEN UNCHANGED loop ELSE Execute(Task("send", m))
    /\ UNCHANGED <<clientVars, cur, pendingWrites, wsiVars, promise, connectResult,
                   notified, wire, closeSent, accepted>>

\* onClose(callback), passed to connect() or called later
OnClose ==
    /\ owned /\ ~onCloseCallback
    /\ \A i \in DOMAIN loop : loop[i].t # "setOnClose"
    /\ Execute(Task("setOnClose", Nil))
    /\ UNCHANGED <<clientVars, cur, pendingWrites, wsiVars, seenVars>>

\* the owner drops its last reference
Release ==
    /\ MayCall
    /\ owned' = FALSE
    /\ UNCHANGED <<websocket, wasConnected, connectionError, lwsCloseStatus,
                   waitingLwsCloseStatus, toBeWritten, onConnect, onCloseCallback,
                   closeLock, alive, timer, loopVars, wsiVars, seenVars>>

-----------------------------------------------------------------------------
(* The event loop: one closure, or one owner callback, at a time.            *)

\* mutant: the pointer alone is checked
RefusedNoWebsocket == ~websocket

\* send()'s early returns: closed forever, or not open; otherwise go on to the queue
Refused == isClosedForever \/ isClosed
AfterCheck(m) == IF Refused THEN Idle ELSE At("enqueue", m)

\* a send() or close() that hopped to the loop
RunSend ==
    /\ cur = Idle /\ loop # <<>> /\ Head(loop).t = "send"
    /\ LET m == Head(loop).arg IN
         /\ cur' = AfterCheck(m)
         /\ promise' = IF Refused /\ m \in Promised
                       THEN [promise EXCEPT ![m] = "failed"] ELSE promise
    /\ loop' = Tail(loop)
    /\ UNCHANGED <<clientVars, pendingWrites, wsiVars, submitted, connectResult, notified,
                   wire, closeSent, accepted>>

\* send() called by owner code that runs on the loop: no hop, ahead of queued closures
LoopSend(m) ==
    /\ MayCall /\ m \in Promised \ submitted /\ cur = Idle
    /\ submitted' = submitted \cup {m}
    /\ cur' = AfterCheck(m)
    /\ promise' = [promise EXCEPT ![m] = IF Refused THEN "failed" ELSE "pending"]
    /\ UNCHANGED <<clientVars, loop, pendingWrites, wsiVars, connectResult, notified,
                   wire, closeSent, accepted>>

\* close() called by owner code on the loop: closeLock is held through the whole send()
LoopClose(m) ==
    /\ MayCall /\ m \in CloseMsgs \ submitted /\ cur = Idle /\ closeLock = "free"
    /\ submitted' = submitted \cup {m}
    /\ cur' = AfterCheck(m)
    /\ closeLock' = IF Refused THEN "free" ELSE "loop"
    /\ UNCHANGED <<websocket, wasConnected, connectionError, lwsCloseStatus,
                   waitingLwsCloseStatus, toBeWritten, onConnect, onCloseCallback,
                   alive, owned, timer, loop, pendingWrites, wsiVars, promise,
                   connectResult, notified, wire, closeSent, accepted>>

\* send(): read the wsi pointer, then append all the frames under one lock
SendEnqueue ==
    /\ cur.pc = "enqueue"
    /\ LET m == cur.msg IN
         \/ /\ ~websocket
            /\ promise' = IF m \in Promised THEN [promise EXCEPT ![m] = "failed"] ELSE promise
            /\ cur' = Idle /\ closeLock' = "free"
            /\ UNCHANGED <<toBeWritten, accepted>>
         \/ /\ websocket
            /\ toBeWritten' = toBeWritten \o FramesOf(m)
            /\ accepted' = accepted \o FramesOf(m)
            /\ cur' = At("writable", m)
            /\ UNCHANGED <<promise, closeLock>>
    /\ UNCHANGED <<websocket, wasConnected, connectionError, lwsCloseStatus,
                   waitingLwsCloseStatus, onConnect, onCloseCallback, alive, owned, timer,
                   loop, pendingWrites, wsiVars, submitted, connectResult, notified,
                   wire, closeSent>>

\* WebsocketClientContext.callWritable with a wsi pointer that is or is not set: POLLOUT
\* is wanted for a wsi that is not being destroyed
CallWritable(ptr) == pollout' = (pollout \/ (ptr /\ lrs \in Live))

\* send(): callWritable with the pointer read before.  The wsi may have been freed since:
\* the model lets the call have no effect then.
SendWritable ==
    /\ cur.pc = "writable"
    /\ CallWritable(TRUE)
    /\ cur' = Idle /\ closeLock' = "free"
    /\ UNCHANGED <<websocket, wasConnected, connectionError, lwsCloseStatus,
                   waitingLwsCloseStatus, toBeWritten, onConnect, onCloseCallback, alive,
                   owned, timer, loop, pendingWrites, lrs, closeBuf, closeNeedsAck,
                   unusable, hand, submitted, promise, connectResult, notified,
                   wire, closeSent, accepted>>

\* mutant: the queue is emptied, its promises are forgotten
TakeWritesDropped == toBeWritten' = <<>> /\ UNCHANGED pendingWrites

\* markAsClosed takes the whole queue under its lock
TakeWrites == pendingWrites' = toBeWritten /\ toBeWritten' = <<>>

\* closeLock.withLock { markAsClosed(reason) }: set the status, take the write queue
RunMarkAsClosed ==
    /\ cur = Idle /\ loop # <<>> /\ Head(loop).t = "markAsClosed" /\ closeLock = "free"
    /\ loop' = Tail(loop)
    /\ \/ /\ isClosedForever
          /\ UNCHANGED <<lwsCloseStatus, toBeWritten, pendingWrites, cur, closeLock>>
       \/ /\ ~isClosedForever
          /\ lwsCloseStatus' = Head(loop).arg
          /\ TakeWrites
          /\ cur' = At("resolve", Head(loop).arg)
          /\ closeLock' = "loop"
    /\ UNCHANGED <<websocket, wasConnected, connectionError, waitingLwsCloseStatus,
                   onConnect, onCloseCallback, alive, owned, timer, wsiVars, seenVars>>

\* markAsClosed: fail the promises one by one, running their callbacks, with closeLock
\* held.  A callback that calls close() waits for that lock ("relock"): NIOLock is not
\* recursive, so no action leaves that state.
ResolvePending ==
    /\ cur.pc = "resolve" /\ pendingWrites # <<>>
    /\ LET f == Head(pendingWrites) IN
         /\ promise' = IF f.promise THEN [promise EXCEPT ![f.msg] = "failed"] ELSE promise
         /\ cur' = IF f.promise /\ f.msg \in Reentrant THEN At("relock", cur.msg) ELSE cur
    /\ pendingWrites' = Tail(pendingWrites)
    /\ UNCHANGED <<clientVars, loop, wsiVars, submitted, connectResult, notified,
                   wire, closeSent, accepted>>

\* markAsClosed: hand the onClose callback to the loop, release closeLock
FinishMarkAsClosed ==
    /\ cur.pc = "resolve" /\ pendingWrites = <<>>
    /\ IF onCloseCallback THEN Execute(Task("notify", cur.msg)) ELSE UNCHANGED loop
    /\ cur' = Idle /\ closeLock' = "free"
    /\ UNCHANGED <<websocket, wasConnected, connectionError, lwsCloseStatus,
                   waitingLwsCloseStatus, toBeWritten, onConnect, onCloseCallback, alive,
                   owned, timer, pendingWrites, wsiVars, seenVars>>

\* the onClose callback
RunNotify ==
    /\ cur = Idle /\ loop # <<>> /\ Head(loop).t = "notify"
    /\ notified' = Append(notified, Head(loop).arg)
    /\ loop' = Tail(loop)
    /\ UNCHANGED <<clientVars, cur, pendingWrites, wsiVars, submitted, promise,
                   connectResult, wire, closeSent, accepted>>

RunSetOnClose ==
    /\ cur = Idle /\ loop # <<>> /\ Head(loop).t = "setOnClose"
    /\ onCloseCallback' = TRUE
    /\ loop' = Tail(loop)
    /\ UNCHANGED <<websocket, wasConnected, connectionError, lwsCloseStatus,
                   waitingLwsCloseStatus, toBeWritten, onConnect, closeLock, alive, owned,
                   timer, cur, pendingWrites, wsiVars, seenVars>>

\* fetchOnConnect takes the promise at most once.  When connect's future fails nobody
\* gets the client.
FetchOnConnect(res) ==
    /\ onConnect' = FALSE
    /\ connectResult' = IF onConnect THEN res ELSE connectResult
    /\ owned' = (owned /\ ~(onConnect /\ res = "failed"))

RunConnectResult ==
    /\ cur = Idle /\ loop # <<>> /\ Head(loop).t \in {"connectOk", "connectFail"}
    /\ FetchOnConnect(IF Head(loop).t = "connectOk" THEN "ok" ELSE "failed")
    /\ loop' = Tail(loop)
    /\ UNCHANGED <<websocket, wasConnected, connectionError, lwsCloseStatus,
                   waitingLwsCloseStatus, toBeWritten, onCloseCallback, closeLock, alive,
                   timer, cur, pendingWrites, wsiVars, submitted, promise, notified,
                   wire, closeSent, accepted>>

\* the task scheduled 2 * connectionTimeoutSeconds after init; it retains the client
ConnectTimeout ==
    /\ timer /\ cur = Idle
    /\ timer' = FALSE
    /\ FetchOnConnect("failed")
    /\ UNCHANGED <<websocket, wasConnected, connectionError, lwsCloseStatus,
                   waitingLwsCloseStatus, toBeWritten, onCloseCallback, closeLock, alive,
                   loopVars, wsiVars, submitted, promise, notified,
                   wire, closeSent, accepted>>

-----------------------------------------------------------------------------
(* deinit, once neither the owner, a queued closure, the timer nor a         *)
(* callback of the service thread holds the client.  Afterwards every        *)
(* callback finds no client and returns -1.                                  *)

Deinit ==
    /\ alive /\ ~owned /\ ~timer /\ cur = Idle /\ hand = NoFrame /\ lrs # "none"
    /\ \A i \in DOMAIN loop : loop[i].t = "notify"
    /\ alive' = FALSE
    /\ FetchOnConnect("failed")
    /\ CallWritable(websocket)
    /\ \/ /\ isClosedForever
          /\ UNCHANGED <<lwsCloseStatus, toBeWritten, promise, loop>>
       \/ /\ ~isClosedForever
          /\ lwsCloseStatus' = goingAway
          /\ promise' = Resolve(toBeWritten, "failed")
          /\ toBeWritten' = <<>>
          /\ IF onCloseCallback THEN Execute(Task("notify", goingAway)) ELSE UNCHANGED loop
    /\ UNCHANGED <<websocket, wasConnected, connectionError, waitingLwsCloseStatus,
                   onCloseCallback, closeLock, timer, cur, pendingWrites, lrs, closeBuf,
                   closeNeedsAck, unusable, hand, submitted, notified,
                   wire, closeSent, accepted>>
-----------------------------------------------------------------------------
(* The service thread.  hand holds the frame popped by a WRITEABLE callback  *)
(* that has not written it yet.                                              *)

\* the closure run by the service thread: lws_client_connect_via_info returns a wsi, or
\* NULL with or without a CONNECTION_ERROR callback made on the way
Connect ==
    /\ lrs = "none"
    /\ \/ /\ lrs' = "connecting" /\ websocket' = TRUE
          /\ UNCHANGED <<connectionError, loop>>
       \/ /\ lrs' = "freed"
          /\ Execute(Task("connectFail", Nil))
          /\ UNCHANGED <<websocket, connectionError>>
       \/ /\ lrs' = "freed" /\ connectionError' = TRUE
          /\ loop' = loop \o <<Task("connectFail", Nil), Task("connectFail", Nil)>>
          /\ UNCHANGED websocket
    /\ UNCHANGED <<wasConnected, lwsCloseStatus, waitingLwsCloseStatus, toBeWritten,
                   onConnect, onCloseCallback, closeLock, alive, owned, timer, cur,
                   pendingWrites, pollout, closeBuf, closeNeedsAck, unusable, hand, seenVars>>

\* lws_inform_client_conn_fail and the close that follows it
ConnectionError ==
    /\ lrs = "connecting"
    /\ lrs' = "dead" /\ pollout' = FALSE
    /\ IF alive
       THEN connectionError' = TRUE /\ Execute(Task("connectFail", Nil))
       ELSE UNCHANGED <<connectionError, loop>>
    /\ UNCHANGED <<websocket, wasConnected, lwsCloseStatus, waitingLwsCloseStatus,
                   toBeWritten, onConnect, onCloseCallback, closeLock, alive, owned, timer,
                   cur, pendingWrites, closeBuf, closeNeedsAck, unusable, hand, seenVars>>

\* the upgrade completes: CLIENT_ESTABLISHED (without a client it is rejected)
Established ==
    /\ lrs = "connecting"
    /\ \/ /\ alive
          /\ lrs' = "established" /\ wasConnected' = TRUE
          /\ Execute(Task("connectOk", Nil))
       \/ /\ ~alive
          /\ lrs' = "dead"
          /\ UNCHANGED <<wasConnected, loop>>
    /\ UNCHANGED <<websocket, connectionError, lwsCloseStatus, waitingLwsCloseStatus,
                   toBeWritten, onConnect, onCloseCallback, closeLock, alive, owned, timer,
                   cur, pendingWrites, pollout, closeBuf, closeNeedsAck, unusable, hand,
                   seenVars>>

\* mutants: no CLIENT_CLOSED callback; the status asked for is lost
JustKillSilent(asked) ==
    lrs' = "dead" /\ pollout' = FALSE /\ UNCHANGED <<loop, closeNeedsAck>>
JustKillNoStatus(asked) ==
    /\ lrs' = "dead" /\ pollout' = FALSE /\ UNCHANGED closeNeedsAck
    /\ IF alive THEN Execute(Task("markAsClosed", noStatus)) ELSE UNCHANGED loop

\* __lws_close_free_wsi's just_kill_connection with its CLIENT_CLOSED callback: the
\* status reported is the one close() asked for, else none (the callback gets no bytes)
JustKill(asked) ==
    /\ lrs' = "dead" /\ pollout' = FALSE
    /\ IF alive
       THEN Execute(Task("markAsClosed", IF asked = Nil THEN noStatus ELSE asked))
       ELSE UNCHANGED loop
    /\ UNCHANGED closeNeedsAck

\* lws_close_free_wsi(wsi, NOSTATUS): an established wsi with a close reason prepared
\* sends a close frame first, every other one is killed
CloseFreeWsi(reason, broken, asked) ==
    IF lrs = "established" /\ reason # Nil /\ ~broken
    THEN /\ lrs' = "waiting_to_send_close" /\ closeNeedsAck' = TRUE /\ pollout' = TRUE
         /\ UNCHANGED loop
    ELSE JustKill(asked)

\* mutant: a socket that has failed is written to
CallsWriteableBroken ==
    lrs \in {"established", "awaiting_close_ack"} /\ pollout /\ hand = NoFrame

\* lws_handle_POLLOUT_event reaches the user callback in these states
CallsWriteable ==
    /\ lrs \in {"established", "awaiting_close_ack"} /\ pollout /\ ~unusable
    /\ hand = NoFrame

\* CLIENT_WRITEABLE with nothing to write: POLLOUT is one shot
WriteableEmpty ==
    /\ CallsWriteable /\ alive /\ toBeWritten = <<>>
    /\ pollout' = FALSE
    /\ UNCHANGED <<clientVars, loopVars, lrs, closeBuf, closeNeedsAck, unusable, hand,
                   seenVars>>

\* CLIENT_WRITEABLE: pop the first frame, ask for another callback
WriteablePop ==
    /\ CallsWriteable /\ alive /\ toBeWritten # <<>>
    /\ hand' = <<Head(toBeWritten)>>
    /\ toBeWritten' = Tail(toBeWritten)
    /\ UNCHANGED <<websocket, wasConnected, connectionError, lwsCloseStatus,
                   waitingLwsCloseStatus, onConnect, onCloseCallback, closeLock, alive,
                   owned, timer, loopVars, lrs, pollout, closeBuf, closeNeedsAck, unusable,
                   seenVars>>

\* CLIENT_WRITEABLE after deinit: returns -1
WriteableNoClient ==
    /\ CallsWriteable /\ ~alive
    /\ CloseFreeWsi(closeBuf, FALSE, Nil)
    /\ UNCHANGED <<clientVars, cur, pendingWrites, closeBuf, unusable, hand, seenVars>>

\* ws_write_bin_text of the frame in hand.  lws_write is -1 on a socket error, but
\* "lws_write(...) < len" compares it as a size_t: the error is returned as success.  The
\* payload has an address, also an empty one.
WriteData ==
    /\ hand # NoFrame /\ hand[1].op \in {"data", "continuation"}
    /\ \/ wire' = Append(wire, hand[1]) /\ UNCHANGED unusable
       \/ unusable' = TRUE /\ UNCHANGED wire
    /\ promise' = Resolve(hand, "ok")
    /\ hand' = NoFrame
    /\ UNCHANGED <<clientVars, loopVars, lrs, pollout, closeBuf, closeNeedsAck, submitted,
                   connectResult, notified, closeSent, accepted>>

\* ws_write_ping of the frame in hand; its -1 is returned to lws
WritePing ==
    /\ hand # NoFrame /\ hand[1].op = "ping"
    /\ \/ /\ wire' = Append(wire, hand[1])
          /\ promise' = Resolve(hand, "ok")
          /\ UNCHANGED <<unusable, lrs, pollout, closeNeedsAck, loop>>
       \/ /\ unusable' = TRUE
          /\ promise' = Resolve(hand, "failed")
          /\ CloseFreeWsi(closeBuf, TRUE, waitingLwsCloseStatus)
          /\ UNCHANGED wire
    /\ hand' = NoFrame
    /\ UNCHANGED <<clientVars, cur, pendingWrites, closeBuf, submitted, connectResult,
                   notified, closeSent, accepted>>

\* a .close frame in hand: prepare the reason, remember it, return -1
WriteClose ==
    /\ hand # NoFrame /\ hand[1].op = "close"
    /\ closeBuf' = hand[1].msg
    /\ waitingLwsCloseStatus' = hand[1].msg
    /\ CloseFreeWsi(hand[1].msg, FALSE, hand[1].msg)
    /\ hand' = NoFrame
    /\ UNCHANGED <<websocket, wasConnected, connectionError, lwsCloseStatus, toBeWritten,
                   onConnect, onCloseCallback, closeLock, alive, owned, timer, cur,
                   pendingWrites, unusable, seenVars>>

\* rops_handle_POLLOUT_ws in LRS_WAITING_TO_SEND_CLOSE: our own close awaits its ack with
\* POLLOUT left active, the answer to the peer's is followed by the end
SendClose ==
    /\ lrs = "waiting_to_send_close" /\ pollout
    /\ \/ /\ closeSent' = closeBuf
          /\ \/ /\ closeNeedsAck
                /\ lrs' = "awaiting_close_ack"
                /\ UNCHANGED <<pollout, closeNeedsAck, loop>>
             \/ ~closeNeedsAck /\ JustKill(waitingLwsCloseStatus)
          /\ UNCHANGED unusable
       \/ /\ unusable' = TRUE
          /\ JustKill(waitingLwsCloseStatus)
          /\ UNCHANGED closeSent
    /\ UNCHANGED <<clientVars, cur, pendingWrites, closeBuf, hand, submitted, promise,
                   connectResult, notified, wire, accepted>>

\* a close frame from the peer: WS_PEER_INITIATED_CLOSE, then send it back
RecvClose ==
    /\ lrs = "established" /\ hand = NoFrame
    /\ \/ /\ alive
          /\ Execute(Task("markAsClosed", peerStatus))
          /\ closeBuf' = peerStatus /\ closeNeedsAck' = FALSE
          /\ lrs' = "waiting_to_send_close" /\ pollout' = TRUE
       \/ ~alive /\ CloseFreeWsi(closeBuf, FALSE, Nil) /\ UNCHANGED closeBuf
    /\ UNCHANGED <<clientVars, cur, pendingWrites, unusable, hand, seenVars>>

\* the peer's answer to our close frame
RecvCloseAck ==
    /\ lrs = "awaiting_close_ack" /\ hand = NoFrame
    /\ JustKill(waitingLwsCloseStatus)
    /\ UNCHANGED <<clientVars, cur, pendingWrites, closeBuf, unusable, hand, seenVars>>

\* the rx parser refuses a masked frame with a close reason of its own
RecvBad ==
    /\ lrs = "established" /\ hand = NoFrame
    /\ closeBuf' = protocolErr
    /\ CloseFreeWsi(protocolErr, unusable, waitingLwsCloseStatus)
    /\ UNCHANGED <<clientVars, cur, pendingWrites, unusable, hand, seenVars>>

\* hangup, read error or a frame refused without a reason: LWS_CLOSE_STATUS_NOSTATUS
ConnectionLost ==
    /\ lrs = "established" /\ hand = NoFrame
    /\ CloseFreeWsi(closeBuf, TRUE, waitingLwsCloseStatus)
    /\ UNCHANGED <<clientVars, cur, pendingWrites, closeBuf, unusable, hand, seenVars>>

\* PENDING_TIMEOUT_CLOSE_SEND, PENDING_TIMEOUT_CLOSE_ACK; or the socket that failed a
\* write reports its error to poll()
CloseTimeout ==
    /\ lrs \in {"waiting_to_send_close", "awaiting_close_ack"} \/ (unusable /\ lrs \in Upgraded)
    /\ hand = NoFrame
    /\ unusable' = TRUE
    /\ JustKill(waitingLwsCloseStatus)
    /\ UNCHANGED <<clientVars, cur, pendingWrites, closeBuf, hand, seenVars>>

\* __lws_close_free_wsi_final: WSI_DESTROY, then the wsi is freed
WsiDestroy ==
    /\ lrs = "dead"
    /\ lrs' = "freed"
    /\ websocket' = (websocket /\ ~alive)
    /\ UNCHANGED <<wasConnected, connectionError, lwsCloseStatus, waitingLwsCloseStatus,
                   toBeWritten, onConnect, onCloseCallback, closeLock, alive, owned, timer,
                   loopVars, pollout, closeBuf, closeNeedsAck, unusable, hand, seenVars>>

-----------------------------------------------------------------------------

Owner == (\E m \in Msgs : Send(m) \/ Close(m)) \/ OnClose \/ Release

\* what the event loop does by itself, and owner code running on it
LoopStep == \/ RunSend \/ SendEnqueue \/ SendWritable
            \/ RunMarkAsClosed \/ ResolvePending \/ FinishMarkAsClosed
            \/ RunNotify \/ RunSetOnClose \/ RunConnectResult
LoopOwner == \E m \in Msgs : LoopSend(m) \/ LoopClose(m)

\* service steps that happen by themselves, and those the network causes
ServiceStep == \/ Connect \/ WriteableEmpty \/ WriteablePop \/ WriteableNoClient
               \/ WriteData \/ WritePing \/ WriteClose \/ SendClose
               \/ CloseTimeout \/ WsiDestroy
Handshake == Established \/ ConnectionError
Network == RecvClose \/ RecvCloseAck \/ RecvBad \/ ConnectionLost

Next == Owner \/ LoopStep \/ LoopOwner \/ ConnectTimeout \/ Deinit
        \/ ServiceStep \/ Handshake \/ Network

Spec == Init /\ [][Next]_vars

\* The loop and the service thread run as long as they have something to do, the
\* handshake ends (lws's own connect timeout) and the timer fires.  Nothing is assumed
\* of the owner or of the peer.  CloseTimeout has its own fairness: the timeouts run
\* whatever else the service thread does.
Fairness == /\ WF_vars(LoopStep) /\ WF_vars(ServiceStep) /\ WF_vars(CloseTimeout)
            /\ WF_vars(Handshake) /\ WF_vars(ConnectTimeout) /\ WF_vars(Deinit)

FairSpec == Spec /\ Fairness
-----------------------------------------------------------------------------
(* Safety.                                                                   *)

\* Once markAsClosed (or deinit) has set the close status nothing waits to be written, and
\* no send() is past its checks and about to append: check and append cannot straddle a
\* markAsClosed, because both run on the event loop.  Otherwise a promise would sit in a
\* queue that no WRITEABLE callback and no markAsClosed will ever empty.
ClosedQueueEmpty == lwsCloseStatus # Nil => toBeWritten = <<>> /\ cur.pc # "enqueue"

\* where the promise of m is: a send() waiting on the loop or in progress there, a frame
\* in the write queue, a frame markAsClosed took, a frame in a WRITEABLE callback
Holders(m) ==
    {<<"loop", i>> : i \in {j \in DOMAIN loop : loop[j] = Task("send", m)}}
    \cup {<<"send", 0>> : x \in {y \in {cur} : y = At("enqueue", m)}}
    \cup {<<"queue", i>> : i \in {j \in DOMAIN toBeWritten :
                                    toBeWritten[j].msg = m /\ toBeWritten[j].promise}}
    \cup {<<"taken", i>> : i \in {j \in DOMAIN pendingWrites :
                                    pendingWrites[j].msg = m /\ pendingWrites[j].promise}}
    \cup {<<"hand", i>> : i \in {j \in DOMAIN hand : hand[j].msg = m /\ hand[j].promise}}

\* A send promise that is not resolved is held in exactly one place, and a resolved one in
\* none: whatever the order of send, WRITEABLE, markAsClosed and deinit, no promise is
\* lost and none is resolved twice (an EventLoopPromise traps on that).
PromiseHeldOnce ==
    \A m \in Promised :
        Cardinality(Holders(m)) = IF promise[m] = "pending" THEN 1 ELSE 0

\* the frames that reach the wire: a close frame tells lws to send one
Written == {f \in Frame : f.op # "close"}

\* the bytes of the frames fs
Bytes(fs) ==
    LET sum[n \in 0..Len(fs)] == IF n = 0 THEN 0 ELSE sum[n - 1] + fs[n].len
    IN  sum[Len(fs)]

\* the payload of m in the frames fs
Payload(fs, m) == Bytes(Kept(fs, {f \in Frame : f.msg = m}))

\* The peer gets the frames in the order the sends were accepted, the frames of one
\* message next to each other (only the first one not a continuation, and no other frame
\* before the one with FIN), none longer than maxFrameSize unless it is a control frame,
\* and with its last frame exactly its bytes.
WireInOrder ==
    /\ IsPrefix(wire, Kept(accepted, Written))
    /\ wire # <<>> => wire[1].op # "continuation"
    /\ \A i \in 1..(Len(wire) - 1) :
         /\ wire[i + 1].op = "continuation" <=> ~wire[i].fin
         /\ ~wire[i].fin => wire[i].msg = wire[i + 1].msg
    /\ \A i \in DOMAIN wire :
         /\ wire[i].op # "ping" => wire[i].len <= maxFrameSize
         /\ wire[i].fin => Payload(wire, wire[i].msg) = Size[wire[i].msg]

LastFrameSent(m) == \E i \in DOMAIN wire : wire[i].msg = m /\ wire[i].fin

\* The onClose callback runs at most once, with the status the client then reports for
\* good, although a peer close, CLIENT_CLOSED and deinit may each ask for markAsClosed.
NotifiedOnce == notified \in {<<>>, <<lwsCloseStatus>>}

\* The notifications still to come: none before the close status is set, one from then
\* on, in markAsClosed or on the loop, until the callback has run.
Pending(t) == {i \in DOMAIN loop : loop[i].t = t}
Resolving == cur.pc \in {"resolve", "relock"}
NotifyInv ==
    /\ lwsCloseStatus = Nil => notified = <<>> /\ Pending("notify") = {} /\ ~Resolving
    /\ Resolving => /\ cur.msg = lwsCloseStatus
                    /\ notified = <<>> /\ Pending("notify") = {}
    /\ \A i \in Pending("notify") : loop[i].arg = lwsCloseStatus /\ notified = <<>>
    /\ \A i, j \in Pending("notify") : i = j
    /\ notified # <<>> => notified = <<lwsCloseStatus>>

\* With a single close() call the status reported to the owner is the one in the close
\* frame: its own, or the one the peer sent and lws sent back.
StatusAgrees ==
    closeSent \in CloseMsgs \cup {peerStatus} =>
        lwsCloseStatus \in {Nil, goingAway, closeSent}

\* The close status never changes once set.
CloseStatusFinal == [][lwsCloseStatus # Nil => lwsCloseStatus' = lwsCloseStatus]_vars

\* connect's promise is resolved once: the timeout, ESTABLISHED, CONNECTION_ERROR and the
\* failed connect call race for it.
ConnectResolvedOnce == [][connectResult # "none" => connectResult' = connectResult]_vars

-----------------------------------------------------------------------------
(* What all this is for: the connection of WebsocketConnection.swift.        *)

\* the messages of the frames fs that carry a promise, and of those that end a message
MsgsOf(fs) == [i \in DOMAIN fs |-> fs[i].msg]
PromisedIn(fs) == MsgsOf(Kept(fs, {f \in Frame : f.promise}))
WholeIn(fs) == MsgsOf(Kept(fs, {f \in Frame : f.fin}))

Conn == INSTANCE Connection WITH
    result <- connectResult, calls <- submitted,
    queue <- PromisedIn(hand \o toBeWritten \o pendingWrites),
    received <- WholeIn(wire),
    ended <- unusable \/ lrs \in {"dead", "freed"},
    status <- lwsCloseStatus, told <- notified

\* The client with its loop, its write queue and its wsi implements Connection: a sequence
\* of sends, callbacks, closes, timeouts and failures looks to the user and to the peer
\* like one of a connection that settles each send once, delivers in order, delivers
\* nothing after its end and fails no send before it, and closes and tells so once.
ImplementsConnection == Conn!Spec

-----------------------------------------------------------------------------
(* Liveness, under Fairness.                                                 *)

\* connect's promise and every send() promise are resolved, whatever the peer and the
\* network do, unless a promise's callback has called close() from inside markAsClosed and
\* stopped the loop.  (A message is sent once, so none can hide behind another.)
PromisesResolve ==
    /\ []<>((\A m \in Promised : promise[m] # "pending") \/ cur.pc = "relock")
    /\ <>(connectResult # "none")

\* close() closes: the client reaches a close status.
CloseCloses == \A m \in CloseMsgs : m \in submitted ~> lwsCloseStatus # Nil

-----------------------------------------------------------------------------
(* What the repository says and the code does not do.                        *)

\* WebsocketConnection.swift, send: "A promise that resolves once the message has been
\* sent."
OkMeansSent == \A m \in Promised : promise[m] = "ok" => LastFrameSent(m)
=============================================================================
