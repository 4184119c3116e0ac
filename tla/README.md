# A TLA+ model of libwebsockets.swift

libwebsockets.swift is a thin Swift package (`src/Sources/libwebsockets`, about 1500 lines) around a
vendored libwebsockets 4 (`src/Sources/Clibwebsockets`). The Swift side turns one libwebsockets
connection (a *wsi*) into a `WebsocketClient` object with promises and callbacks on a swift-nio
event loop; the C side connects, polls, parses and writes on one service thread per context. This
directory models what the package adds and the path through libwebsockets it drives, checks the
models with TLC and proves the main safety properties with TLAPS.

Short names below: *S* is `WebsocketClient.swift`, *X* `WebsocketClientContext.swift`, other files
by their own name. `PROJECT.json` maps every definition to the lines it models.

## Inventory

### Threads

* **Owner threads** call `connect`, `send`, `close`, `onX`, `pingInterval`, and drop the client.
* **The event loop** runs closures one at a time. Public calls made on another thread are wrapped in
  a closure; promises are resolved and callbacks called here.
* **The service thread** of a context calls `lws_service` for ever, runs the wsi state machines and
  calls `_lws_swift_websocketClientCallback`, which mostly hands closures to the event loop.
* **The context's writable queue** calls `lws_callback_on_writable` on behalf of senders, while the
  service thread may be anywhere. `LWS_MAX_SMP` is 1, so `lws_pt_lock` is empty.

### Components

| Component | State | Operations | Talks to | Correct when | Module |
|---|---|---|---|---|---|
| `WebsocketClient`, sending and closing (S) | wsi pointer, `wasConnected`, `connectionError`, `lwsCloseStatus`, `waitingLwsCloseStatus`, `toBeWritten`, connect promise, callbacks, `closeLock` | `connect`, `send`, `close`, `onClose`, `deinit`, `markAsClosed`, the callbacks of lws | loop (closures), context (`callWritable`, connect closure), lws (`lws_write`, close) | it is the connection `Connection` describes: every promise resolved once, messages in order, one final close status, one notification | `WebsocketClient` |
| ws client role, closing (`ops-ws.c`, `close.c`, `client-parser-ws.c`, `wsi-timeout.c`) | LRS state, POLLOUT, prepared close reason, pending timeouts | service steps, `lws_write`, `lws_close_free_wsi` | poll loop, Swift callback | every close ends in CLIENT_CLOSED and a freed wsi | `WebsocketClient`, `TxPath` |
| lws tx path (`ops-ws.c`, `output.c`, `buflist.c`, `service.c`) and the sending side of permessage-deflate | `buflist_out`, `tx_draining_ext` and its stash, pending pong, check ping, LRS state | `lws_write`, `lws_issue_raw`, `lws_handle_POLLOUT_event`, `lws_validity_cb` | socket, zlib, Swift callback | the peer reads whole frames and whole messages; what waits is sent or the connection ends | `TxPath` |
| lws connect (`connect*.c`, `client-http.c`, `client-ws.c`) with the client's life (S `init`, `deinit`, box) | wsi state, addresses, timers, suppression flags, opaque user data; box, closure queue | connect call, DNS, attempts, TLS, upgrade, redirects; callbacks; `deinit` | kernel, server, client | one outcome, told once; no wsi left behind; no box read after its end | `ClientConnect` |
| Context and poll loop: wake-ups (X, `pollfd.c`, `unix-service.c`, `service.c`, pipes) | `events`, `inside_poll`, `foreign_spinlock`, the foreign list, `handling_pollout`, `leave_pollout_active`, event pipe, validity timer, `fastServiceExecutionCallbacks` | `callWritable`, `scheduleFastServiceExecution`, `lws_service` | senders, connecting clients, kernel | no wake-up is lost for good; connect closures need no timer | `PollService` |
| Context and poll loop: table of pollfds (`pollfd.c`, `unix-fds.c`, `unix-service.c`, `service.c`) | `fds`, `fds_count`, `position_in_fds_table`, scan position | insert, remove, scan, forced service | all connections of a context, senders | slots and positions agree; nobody is served for another | `FdsTable` |
| Receive path (S RECEIVE, `WebsocketFrameSequence`, rx parser) | parser state and flags, frame sequence, queued closures | parsing, RECEIVE, assembling, delivering | peer, loop, owner's callbacks | messages arrive whole, in order, once, and before onClose | `ReceivePath` |
| Ping interval (S 475-501, 580-598) | interval, `waitingForPong`, scheduled task | setter, ping task, PONG | loop timers, `send`, `close` | pings go on while wanted; a silent peer is closed on; the tasks end | `PingInterval` |
| Context pool (X 8-63) | `_shared`, `_nextSharedContext`, `_sharedContextCreated` | `shared()` | connecting clients | one pool, retried after failure, used evenly | `ContextPool` |
| lws timers (`sorted-usec-list.c`), TLS, other roles, misc | | | | see *Not modelled* | |

### What is hard here

Three threads share one object through half a dozen small locks taken one after the other; most
state is read on one thread and used on another a closure later; a wsi is freed by one thread while
another holds its pointer; closing can start on four sides at once and is not a state but a sequence
of closures; libwebsockets' flags and its table of pollfds are exchanged with a foreign thread
without atomics, and the table is changed while it is scanned; a connect fails in a dozen places,
inside and outside the call that began it; output is cut by the socket and by the compressor, with
control frames that want to go in between; messages are cut by the peer, by the rx buffer and by
`maxFrameSize`, and put together two closures later. `PROJECT.json` lists these as hazards at their
lines, with the properties that watch them.

## Modules

| Module | Models | Lines of |
|---|---|---|
| `Connection` | abstract: what a `WebsocketConnection` promises its user | `WebsocketConnection.swift`, S |
| `WebsocketClient` | client object, event loop, wsi from connect to free: sending and closing; implements `Connection` | S, `lws_custom.c`, `ops-ws.c`, `close.c`, `client-parser-ws.c`, `wsi-timeout.c` |
| `Subsequences` | the part of a sequence that is in a set, used by the two above | |
| `TxPath` | from the WRITEABLE callback to the socket | `ops-ws.c`, `output.c`, `buflist.c`, `service.c`, `extension-permessage-deflate.c`, `close.c`, `wsi-timeout.c` |
| `ClientConnect` | from `lws_client_connect_via_info` to ESTABLISHED or the end, and the client's end meanwhile | `connect*.c`, `client-http.c`, `client-ws.c`, `close.c`, `service.c`, S, X |
| `PollService` | how other threads reach the service thread | X, `pollfd.c`, `unix-service.c`, `service.c`, `ops-pipe.c`, `unix-pipe.c` |
| `FdsTable` | several connections in one table of pollfds | `pollfd.c`, `unix-fds.c`, `unix-service.c`, `service.c`, `ops-h1.c`, `connect3.c` |
| `ReceivePath` | from the peer's frames to `onText`/`onBinary`/`onFragment` | `client-parser-ws.c`, `ops-ws.c`, S, `WebsocketFrameSequence.swift` |
| `PingInterval` | the keep-alive of the Swift client | S |
| `ContextPool` | `WebsocketClientContext.shared()` | X |
| `MC...` | constants for TLC | |
| `...Proofs` | theorems about the module of that name | |

The modules meet where one takes the other's promise as an assumption. `WebsocketClient` lets a
wanted POLLOUT be served eventually, which is `FramesWritten` of `PollService` for one connection and
of `FdsTable` for several; it writes a frame whole or not at all, which is `FramesWhole` and
`QueuedIsSent` of `TxPath`; it connects in one step with two outcomes, which is `ConnectEnds` and
`FailureReported` of `ClientConnect`, and the connects that nobody hears of (*Limits*) end there with
the Swift client's own timer. `ReceivePath` uses the same for its `PopClose`; `PingInterval` takes
`send` and `close` as events.

### Connection, and how WebsocketClient implements it

`Connection` has a connect result, the calls made, a promise for each, the accepted sends in order,
what the peer has whole, whether the transport has ended, the close status and what the owner was told.
Sends fail only when the connection is over, are delivered only before the transport ends and in the
order they were accepted; one close status, told once. The one freedom it grants a broken transport is
that the send being written when it breaks may be settled either way (finding 1 is about that one).
The mapping: `result` is `connectResult`, `calls` is `submitted`, `queue` are the messages of the
promise-carrying frames in the WRITEABLE callback's hand, in `toBeWritten` and in what `markAsClosed` took,
`received` are the messages whose last frame is on the wire, `ended` is a failed socket or a dead or freed
wsi, `status` and `told` are `lwsCloseStatus` and `notified`. That a status or connect's result never
changes and that `onClose` is called once are part of it; they are also proved, see *Proofs*.

### WebsocketClient

State: the Swift fields by their names; `loop` is the event loop's queue of closures and `cur` the
one in progress when it can be interrupted (`send()` between check, append and wake-up;
`markAsClosed` between two promises); `lrs`, `pollout`, `closeBuf`, `hand` are the wsi; `promise`,
`connectResult`, `notified`, `wire`, `closeSent`, `accepted` record what the owner and the peer see.

| Action | Code |
|---|---|
| `Send`, `Close`, `OnClose`, `Release` | the public calls off the loop, and the last reference |
| `RunSend`/`LoopSend`, `SendEnqueue`, `SendWritable` | `send` in its three parts: closed check, append under lock, `callWritable` with the pointer read earlier |
| `RunMarkAsClosed`, `ResolvePending`, `FinishMarkAsClosed`, `RunNotify` | `markAsClosed`: status and queue, one promise after the other with `closeLock` held, hop, callback |
| `ConnectTimeout`, `RunConnectResult`, `Deinit` | timeout task, promise of connect, `deinit` |
| `Connect`, `Established`, `ConnectionError` | connect closure and its outcomes |
| `WriteableEmpty`, `WriteablePop`, `WriteableNoClient`, `WriteData`, `WritePing`, `WriteClose` | the WRITEABLE callback: pop one frame, write it, keep its promise |
| `SendClose`, `RecvClose`, `RecvCloseAck`, `RecvBad`, `ConnectionLost`, `CloseTimeout`, `WsiDestroy` | the closing handshake and the kill path |

Data: a message is an id with a size; frames keep opcode, length, `fin` and whether they carry the
promise, because splitting is where those can go wrong.

### TxPath

One action per POLLOUT event, POLLIN event or timer, all on the service thread. A frame is `FrameLen`
units, of which `lws_issue_raw` (`Issue`) gets any number out, or fails; the rest waits in `buflist`. A
POLLOUT event does the first of: flush the buflist (`EventFlush`, `EventFlushed`), the close frame
(`EventClose`), a pong (`EventPong`), a check ping (`EventCheckPing`), the drain of the compressor
(`EventDrain`), the user callback (`User...`), in the code's order. The content of a data write is
`Parts` numbered parts; zlib is a queue that gives out any number of them (`Deflate`), and with a flush
says that there is more until all are out. `ValidityPing` and `ValidityHangup` are `lws_validity_cb`;
`CloseFree` is the part of `__lws_close_free_wsi` that decides between a close frame, flushing and the end.
`Over` lets a closed connection rest, so that deadlock can be checked.
`Heard` is the reference for messages: what a sequence of frames says, frame by frame, used both for the frames
sent and for the client's writes.

### ClientConnect

A *rest* state is one in which lws returns to its poll loop; between two of them the service thread is
busy with lookups (`Dns...`), the next address (`TryNext`, `PolloutConnect`, `AttemptTimeout`), TLS and the
request (`Tls`), the reply (`BadReply`, `Upgraded`, `Redirected`). `ctx` says whether the connect call or
a redirect is on the stack, since that decides what is suppressed and who is told. A close puts the
callbacks it makes on `calls` (`CloseCalls`); each is entered (`Enter`, the prologue of the Swift callback,
which empties the closure queue) and then runs its body, because `deinit` on another thread may come in
between: `DeinitBegin`, `DeinitAppend`, `DeinitWritable`, `DeinitFree` are its steps.

### PollService

Each action is one access to a shared flag. `CallWritable` to `SetEvents` are `_lws_change_pollfd` on
the writable queue; `EnterPoll` to `DrainClear` are `_lws_plat_service_tsi`; `BeginPollout` to
`AfterCallback` are `lws_handle_POLLOUT_event` and the callback; `ChangeLock`/`ChangeSet` are the
same pollfd change on the service thread; `ScheduleFast`, `ForceCancelService`, `RunFast` are the
connect closures. `copiesBack` says whether `poll()` writes `events` back (some kernels copy the whole
array out). The validity timer is armed, due, about to ping, or waiting for the pong.

### FdsTable

`fds`, `count` and `pos` are the table, its end and every connection's position; `scan` is the slot the
service thread has come to. A round is `timers` (`TimerClose`, `TimerAttempt`, `TimerLookup`,
`ValidityPing`), `poll` (`EnterPoll`, `PollReturn`), `scan` (`ServePipe`, `ServeClose`, `ServeDeferred`,
`ServeConnected`, `ServeAttempt`, `ServeHandled`, `ScanEnd`) and `closures` (`RunClosure`). Serving a slot is
one action, with the removal, the move of the last slot (`RemoveFd`), the insert (`InsertFd`) and the
retry of the same slot (`RetrySlot`) it brings. `Send`, `ForeignTest`, `ForeignIndex`, `ForeignWrite` are
`_lws_change_pollfd` on another thread, as far as it concerns which slot it hits.

### ReceivePath

A frame is opcode, `fin`, length, whether its last byte is no UTF-8, and whether the parser refuses
it. Payload bytes are numbered in order of arrival, so that a lost, repeated or moved byte shows. The
parser takes a header in one action (`ParseHeader`) and payload in chunks of at most the rx buffer
(`ParsePayload`); both end in `Spill...`, the code at `spill:`. `Receive` queues the two closures of the
RECEIVE case; `RunFragment`, `RunAssemble`, `RunDeliver` are those closures and the delivery hop.
`Heard` is the reference: what RFC framing says the frames heard amount to, frame by frame (`WithFrame`),
whatever the buffer; `MessagesOf` are the messages in it and `Messages` those of them that can be told.

### PingInterval and ContextPool

One action per critical section: the setter's three (`Set`, `SetCancel`/`SetReset`, `SetExecute`), the
task's four (`Start`, `Test`, `Expire` or `Ping`, `Schedule`); `shared()`'s test-and-set (`Call`), second
look, creation, storing, `NextId` and the final index. `overtaken` is a history variable: a set to nil has
cancelled the task of an interval stored after it; the next set of an interval clears it. So is `crossed`: the
last set of an interval put its task on the loop while another one was queued, running or scheduled.

## Runs

| Run | Bounds | Distinct states | Shows |
|---|---|---|---|
| `client_life` | a message of two frames, a ping whose callback calls `close()`, one `close()` | 411,879 | `ImplementsConnection`; `ClosedQueueEmpty` no frame stays or gets into the queue of a closed client; `PromiseHeldOnce` every unresolved promise is in exactly one place; `WireInOrder` the peer gets a prefix of the accepted frames, each message unbroken and with all its bytes; `StatusAgrees` the owner and the peer see one status; `PromisesResolve` and `CloseCloses` |
| `tx_path` | a message in two writes, or a message, a close and a late ping; 2 parts, frames of 2 units, 1 validity check, 1 ping, with and without permessage-deflate | 290,741 | `TypeOK` with the drain to itself; `FramesWhole`, `MessagesWhole`; `PolloutAsked` what waits has asked; `CloseAnswerSent`; `QueuedIsSent` a queued message is sent or the connection ends |
| `client_connect` | up to 3 addresses, 4 redirects | 17,531 | `FailureReported` the end is told once, and told; `WebsocketCurrent`, `NoReadAfterFree` outside the named exceptions; `ConnectEnds`, `ReleaseFrees` |
| `poll_service` | 2 sends, 2 connect closures, copy-back | 1,650,317 | `AskNotForgotten` a waiting frame is remembered somewhere; `LateNoteHarmless`; `FastWakes`; `FramesWritten`, whatever wake-up was lost |
| `fds_table` | 2 connections, one of them sending once, room for one or both, 1 further attempt | 279,249 | `TableAgrees`, `ReventsOwn`, `ScanLeavesNothing`, `AskInOwnSlot`; `FramesWritten`, `InputServed` |
| `recv_messages` | 3 frames of 16 kinds, rx buffer 2; no limit with `connect` on the loop, limit 2 with it off the loop | 820,703 | `TypeOK` with the limit on what is kept; `WholeMessages`, `NothingAfterOnClose`, `AllDelivered`, `LargeMessageKills` |
| `ping_interval` | two threads, 3 settings, 4 timers | 82,500 | `KeepaliveRuns`, `NoSpuriousClose`, each with the one order that breaks it named; `DeadPeerCloses`, `PingingStops` |
| `pool_shared` | 3 threads, 3 contexts, 6 calls | 158,341 | `BuiltOnce`, `CanRetry`, `Spread` |
| `client_OkMeansSent` | a message of two frames, one `close()` | violation | see *Findings* |
| `poll_WaitingServiceCancelled` | 2 sends | violation | |
| `recv_OnlyWholeMessages` | 3 frames, limit 2 | violation | |
| `connect_BoxOutlivesCallbacks` | 1 address, 1 redirect | violation | |

Deadlock is checked in `poll_service` and `fds_table`, where the service thread never rests, and in
`tx_path`, where only a closed connection may. It is not where the system may come to rest: a client that
is gone, a connect that has ended, a peer that has sent its frames, a pool that has had its calls.

**Why the bounds are enough.** *Client*: two frames are the least that can be torn apart or get the
promise on the wrong one; another message and a close make every order of send, close, peer close,
loss, timeout and release. One `close()` only: a second one popped while the first awaits its ack
overwrites `waitingLwsCloseStatus`, and `StatusAgrees` claims nothing then. *Tx*: a frame of two units can
be cut; content of two parts can be held back, given out in two fragments, or joined with the next
write's; one check and one ping of the peer meet every state of a drain, a partial send and a close.
`windowHolds` is TRUE: a write is at most `maxFrameSize` (3000 by default) against zlib's 32 KB.
*Connect*: with three addresses there is a first, a next and a last one; four redirects are the code's own
limit. *Poll*: one connection, as flags are per wsi or per thread; two sends let one frame be asked for
while the other is handled; two closures let one be queued while the other is run. *Table*: with two
connections one of them is the last that is moved into the other's slot; a limit of 2 leaves room for
the pipe and one, so that inserts fail; one further attempt puts a removal and an insert into one service.
`FdsTableProofs` has the table's invariants for any number. *Receive*: with a buffer of 2 a payload of 3
comes in two chunks, and three frames make a message with a control frame or a bad frame inside it, or two
messages back to back. *Ping*: two threads can each be between the two locks; three settings are a nil, the
interval that overtakes it and one that starts again; at most three tasks are then pending or queued at once,
so four timer names never run out. `PingIntervalProofs` has the two
invariants for any number. *Pool*: three
threads are a builder, one that comes too early and one that comes later; six calls go around three
contexts twice. `maxSends`, `maxFrames`, `maxSets`, `maxCalls`, `maxChecks`, `maxPings` and `maxAttempts` bound inputs, never the code.

**Fairness and why the code justifies it.** The event loop runs what is queued; the service thread
goes on; a running setter, sender or deinit goes on. A timer that is armed gets due: the connect timeout
task of the Swift client, lws's timeouts for connecting and for the close handshake (5 s), and the
validity check, which pings after 300 s and hangs up 10 s after an unanswered ping; that is what wakes
a `poll()` that sleeps without POLLOUT. *Tx*: a POLLOUT event that is asked for comes (the socket takes
something again and again, or fails), and a socket that has failed is readable. *Connect*: strong fairness
for `Timeout`, since the wsi's timer runs on while retries of the lookup leave and enter the state it ends.
*Table*: strong fairness for a connection's validity and closing timers, which are served once a round and
not during `poll()`. Nothing is assumed of the owner, the network or the server, and of the peer only that it
answers a validity ping or is hung up on. `PromisesResolve` is claimed for promise callbacks that do
not call `close()`. Connect closures are finitely many, one for each client.

## Proofs

All hold for every value of the constants that meets the `ASSUME`s (sizes are naturals,
`maxFrameSize`, the rx buffer and `coreCount` are not 0, `Nil` is no status, a `close()` call is not named
like lws's statuses, an fd limit is not 0): any
messages, frames, scripts, connections, addresses, threads and limits.

* **`WebsocketClientProofs`.** `TypeCorrect`, action by action; it carries facts that are not types
  only: CLOSED always finds a status, a close frame in the queue is a `close()` call's.
  `ClosedQueueEmptyCorrect`: the invariant is inductive with `TypeOK`, because
  `send()`'s check and append and `markAsClosed` all run on the event loop, one after the other, and
  `markAsClosed` takes the whole queue in the step that sets the status.
  `CloseStatusFinalCorrect` follows from the guards of the two actions that write the status.
  `ConnectResolvedOnceCorrect` needs `ConnectInv`: a resolved promise has been taken out of the client.
  `NotifiedOnceCorrect` needs `NotifyInv`: at most one notification is on the loop, it carries the
  status, and there is none before the status is set or after the callback has run.
  `PromiseHeldOnceCorrect` from `HeldInv`, which says of a promise where it is instead of how often: there is
  at most one place (`HeldOnce`), and there is one exactly while the promise is pending; counting the
  `Holders` is left to the last step. The work is in the lemmas on moving frames from one sequence to another
  (`Has`, `Once`): WRITEABLE moves the head of the queue, `markAsClosed` and `deinit` take all of it.
  `StatusAgreesCorrect` from `StatusInv`, which follows the close state by state: before it begins nobody has
  asked for `markAsClosed`; our own close asks for it when the wsi is killed, with the remembered status, the
  peer's before the answer is sent; CLIENT_CLOSED comes later and loses. Its two hypotheses are what the
  property itself is about: a single `close()` status (see *Limits* for a second `close()`), and lws's
  protocol-error status being neither it nor the peer's.
  `Refinement`: the client implements `Connection`, for any messages and calls. One lemma per group of actions
  (`Refines...`) maps its steps to a step of `Connection` or a stutter, under `ClientInv`: the invariants above,
  `KnownInv` (every frame and closure on its way comes from a call the owner made, and a frame carries a
  promise exactly if it is the last of its message) and `OpenInv` (how the connection's flags go with the
  wsi's state). The mapped queue is what is left of the frames after filtering them by `Promised`; `Kept`
  (`Subsequences`) is that filter as a recursive function, and what it does to concatenations, heads and
  prefixes is proved by induction. `StatusAssumption`: a `close()` call is named by an id of its own, never by
  one of the statuses lws or the peer brings; otherwise one status could stand for two events.
  `WireInOrderCorrect` from `OrderInv` (wire, hand and queue are, in this order, the accepted data frames
  while the client is open and its socket works, and the wire is a prefix of them for ever), `PassedInv` (the
  `send()` of an accepted message has gone by the loop, so none is accepted twice) and `GoodInv` (what was
  accepted are whole messages, each with all its bytes). That splitting loses no byte (`PiecesSum`,
  `FramesGood`) holds for every size and `maxFrameSize`.
* **`PollServiceProofs`.** `TypeCorrect`. `AskNotForgottenCorrect` and `LateNoteHarmlessCorrect` share
  the inductive `WakeInv`: POLLOUT is switched off at one place only, on the way to the callback
  (`OffInv`); `handling_pollout` is set only on that way (`HandlingInv`), so a sender that finds it set
  asked before the callback looks; what `poll()` was asked for stays set until it is handled
  (`SeenInv`); a listed change is applied before the list is cleared (`ListInv`); and a sender that is
  done has left its request in one of those places (`AskedInv`). `FastWakesCorrect` is inductive by
  itself with the types: the pipe is read only on the way to the closures.
* **`FdsTableProofs`.** For any number of connections and any limits. Every change of the table is one of
  keeping it, removing a connection (the last one moves into its slot), inserting one behind the end, or
  removing and inserting; the lemmas say what each does to a table that agrees with a set of members
  (`GoodTable`) and to the revents in it, and every action is then a case of one of them. `TypeCorrect` and
  `TableAgreesCorrect` come from the inductive `TypeOK /\ TableAgrees`: the position that is written for the
  moved connection is the right one only because slot and position agreed before. `ReventsOwnCorrect` adds
  that slots move with their revents and that an insert clears what its slot held.
  `ScanLeavesNothingCorrect` from `ScanInv`: behind the scan no slot has revents but those of a closing
  connection. The last slot that is moved comes from ahead of the scan to where the scan is, and the retry of
  that slot is what keeps it from being passed over. `AskInOwnSlotCorrect` from `AskInv`: the list of foreign
  changes is empty outside `poll()`, and a connection waiting for POLLOUT keeps its events through a move.
* **`TxPathProofs`.** For any scripts, frame lengths and partial sends. `TypeCorrect`. `FramesWholeCorrect` from
  `OutInv`: a frame is written only when nothing is buffered, so the buflist never holds more than one segment,
  and that segment goes on where the wire stops. `PolloutAskedCorrect` is inductive with the types.
  `CloseAnswerSentCorrect` needs `ReasonInv` (no close reason before a close begins), `OutInv` and `AnswerInv`:
  the answer is still to be written, or is the segment in the buflist, or is the last frame out; in
  FLUSHING_BEFORE_CLOSE nothing else can be what is flushed.
  `MessagesWholeCorrect` compares what the data frames issued so far say (`IssuedSays`; issued is what is on
  the wire and the frame the buflist goes on with) with what the client has put. `IssuedInv`: every frame was a
  good one when it was issued. `RelatedInv`, while the socket works: frames and compressor together hold what
  was put; a drain keeps the FIN of its write, a write that gave out nothing its type; no message ends inside
  the compressor but one that is being drained; and a message whose content is all out but not its FIN has a
  drain under way that has nothing else to give out. The last two are why a fragment never runs from one
  message into the next. `Fragment` does this for one frame, whether it goes out as it is, compressed or in a
  drain; a socket that fails leaves the frames as they were, and no more are issued. Its hypotheses:
  `windowHolds` (see *Limits*), and `OrderAssumption`, that the client writes the frames of one message after
  the other, which is `WireInOrder` of `WebsocketClient`.
* **`ClientConnectProofs`.** For any number of addresses and redirects. All four theorems come from one
  inductive `Inv`: which callbacks can be under way in which state (`CallInv`), how the service thread's call,
  the timers and the flags go with the state (`StateInv`), that nothing is told before the end (`ToldInv`), that a
  failed connect was reported, will be, or is by the call that has yet to return (`ReportInv`), and that a
  `deinit` that finds a wsi has its marker queued or set before it frees the box (`BoxInv`).
* **`ReceivePathProofs`.** For any frames, rx buffer and limit. `TypeCorrect` contains the limit on what is
  kept. `NothingAfterOnCloseCorrect` from `OrderInv`: behind a `markAsClosed` on the loop nothing was received,
  behind a `notify` nothing is delivered. `WholeMessagesCorrect` relates both ends of the path by a sequence
  that no variable holds: there are chunks `H`, of which `k` were put together (`MessagesInv`), such that
  - what the chunks make up when each is read as a frame of its own is what the frames heard make up; inside
    a frame it is ahead of them by the chunks of that frame (`WireInv`, with what the parser knows in `RxInv`);
  - a chunk is a first one if the one before it was final (`FirstInv`);
  - the closures on the loop carry the chunks not yet seen or put together, in order and without a gap
    (`Pipe`), and the messages of the first `k` not yet delivered (`Tell`). That the loop interleaves three
    kinds of closures is dealt with by `Piped`: an increasing function from what is still to come to
    positions on the loop.
  Facts about `Heard` for sequences of any length go by induction, from `SetInduction`: a set of naturals that
  contains 0 and the successor of each of its members is all of them.
* **`PingIntervalProofs`.** For any number of setting threads, settings and timers. `TypeCorrect`.
  `KeepaliveRunsCorrect` from `Chain`: while an interval is set, no close was asked for and nothing was
  overtaken, a setter of an interval is on its way to the loop, or a task is due or running, or the one
  scheduled last is pending. A setter of nil can take away the last of these only, and then either nil is stored or it
  overtakes; so this is the one order that loses the chain.
  `NoSpuriousCloseCorrect` from `CloseInv`: unless a set crossed another task there is one task at most, on the
  loop, running or scheduled (`Alone`), and it is the one scheduled last or a setter's that finds no ping to wait
  for (`Latest`). The latter holds because a setter forgets the ping and puts its task on the loop under one lock,
  which a running task needs before it schedules the next (`LockInv`, `ForgotInv`).
* **`ContextPoolProofs`.** `TypeCorrect` (the index is in range). `BuiltOnceCorrect` and
  `CanRetryCorrect` from `BuildInv`: the flag is set while a thread builds and once the pool is there.
  `SpreadCorrect` from `TurnInv`: the counter says how far the current round of contexts has got.

Only model-checked: all liveness (`PromisesResolve`, `CloseCloses`, `QueuedIsSent`, `ConnectEnds`,
`ReleaseFrees`, `FramesWritten`, `InputServed`, `AllDelivered`, `LargeMessageKills`, `DeadPeerCloses`,
`PingingStops`), as fairness and `ENABLED` are out of the prover's reach. Every invariant the passing runs check,
and the refinement, is a theorem. Properties that filter or flatten sequences are written with recursive
functions (`Kept`, `Heard`), for which the proofs begin with the function's equations (`Recursion`) and go on by
induction over sets (`SetInduction`).

## Findings

Where a comment or a doc of the repository says otherwise, a run shows the disagreement:

1. `client_OkMeansSent`: `ws_write_bin_text` (`lws_custom.c:13`) compares `lws_write`'s -1 with an
   unsigned length, so a failed write is success and the message's promise succeeds.
2. `poll_WaitingServiceCancelled`: a POLLOUT request between the sender's test of `inside_poll` and the
   service thread's `poll()` neither is in the set nor wakes it (`pollfd.c:204`; `service_tid` is always 0
   here). The frame then waits for the next event, at worst the validity check.
3. `recv_OnlyWholeMessages`: the chunks after the one that exceeded `maxMessageSize` start a new sequence,
   whose end is delivered as a message (S:808).
4. `connect_BoxOutlivesCallbacks`: `deinit` frees the box at once (S:432), though its comment (S:429-431) has it
   freed after the websocket is gone. A callback that is past its prologue (S:710-717) reads it.
   `NoReadAfterFree` is about the others.

### Limits

What does not hold, met while stating the properties; each is an exception of a property or an
assumption of a run:

* *Client.* Frames queued behind `close()` are written while the close frame awaits its ack
  (`ops-ws.c:1349`), so `WireInOrder` speaks of data frames only. A promise callback that calls `close()` inside
  `markAsClosed` waits for the lock its thread holds (S:462): `PromisesResolve` is about the others.
* *Connect.* The timer of a pending attempt asks `SO_ERROR`, finds 0 and takes it for connected
  (`connect3.c:245`; the comment at 33-36 has it try the next address). A request that cannot be made or written
  closes the wsi and returns 0 (`client-http.c:270-289`), where the connect call goes by "returns 1 on failure
  after closing wsi" (`connect4.c:326`): it returns the wsi it has freed, which `WebsocketCurrent` excepts. The
  same failure after the call has returned is told to nobody, against "If it subsequently fails, report
  CONNECTION_ERROR" (`connect.c:521`). So are a hangup while the reply is awaited, which lws reports by a callback
  the Swift client does not handle, and a close in the synchronous part of a redirect, which finds no client;
  `FailureReported` excepts all three. The Swift client's own timer then fails the connect. A
  redirect resets the opaque user data until the new connect has begun (`client-http.c:835`), and `use_ssl` with
  it (`close.c:936-959`): what the new connect does at once is done without TLS (`Secure`), and its request is
  refused, as there is no client.
* *Output.* A check ping that falls due during a drain of the compressor leaves as a CONTINUATION
  (`ops-ws.c:1338`). The keepalive writes over a close reason that waits (`ops-ws.c:2064`): `CloseAnswerSent`
  excepts a connection under check. A write that does not fit the compressor's window would be read after it
  was freed (`lws_custom.c:14`): `windowHolds`.
* *Poll loop.* `foreign_spinlock` is released under its holder by the service thread's own changes
  (`pollfd.c:137`), which `AskNotForgotten` excepts. The position is looked up again without a lock
  (`pollfd.c:148`): a request may hit another's slot, or with -1 the memory before the table (`strayed`). A
  connection that changes its slot while it is served lets the caller go on with the old pollfd
  (`ops-h1.c:706`, `service.c:804`), so that another's hangup closes it and another's revents are cleared; the
  comment at `service.c:790-794` guards the closing path only.
* *Receive.* A message in one chunk is not compared with `maxMessageSize` (S:776). `WholeMessages` claims a
  present callback only for `connect` on the loop (S:211).
* *Ping.* Setting `pingInterval` twice before the loop runs, or while a task is due, puts two tasks on the loop:
  the second takes the first one's ping for unanswered and closes a healthy connection (S:487), though a pong has
  time "until the next interval comes" (`WebsocketConnection.swift:29`). `NoSpuriousClose` excepts it (`crossed`).
  Value and task have a lock each (S:584): a thread that stores nil may cancel the task only after another has
  stored an interval and its task was scheduled. The interval stays set, nothing pings, and a silent peer is not
  noticed; `KeepaliveRuns` and `DeadPeerCloses` except it (`overtaken`).
* *Pool.* A caller of `shared()` gets nil while
  the pool is being made (X:41). A context that cannot be created has a deinit that runs without a context
  (X:195).

## Not modelled

* **The timer list** (`sorted-usec-list.c`): elsewhere a timer is an event that may happen once it is armed
  and before its wsi is freed, which allows every order the list can give.
* **TLS**: the outcome of its handshake is a step, and input it has read ahead is a state of a socket.
  **zlib**: a queue. Receiving through permessage-deflate: the rx parser's draining states are not entered
  without it, and what a part of compressed data inflates to is out of TLC's reach.
* **Proxies, asynchronous DNS, h2 and pipelined connections, IPv6 sorting**: not built in, or not reached
  by the Swift package.
* **The destruction of a context** and of its service thread: the shared pool is never released.
* **Memory of freed objects** beyond the position in the table (`FdsTable`) and the box (`ClientConnect`):
  in `WebsocketClient` a `callWritable` on a freed wsi has no effect.
* **Messages split by the owner**: `send()` with `fin` false or the opcode `.continuation` (S:508, 533, 554),
  a send without a promise, and a `.close` given to `send()` with one (S:890). Every message and ping of
  `WebsocketClient` is whole and has a promise, a close comes from `close()` and has none. Frames the owner
  splits a message into may have another message's between them, and `WireInOrder` says nothing of those.
* **A payload without an address** (S:861-863): `Data` gives its bytes an address also when it has none, so the
  guard's -1 is not taken.
* **Out of memory**, headers, URL parsing, masking, logging: failures the package does not handle, and
  formatting.
* Servers, h2, mqtt, raw, cgi, secure streams, event-lib glue, other platforms: vendored code that no path
  of the Swift package reaches, by far the largest part of the repository.

## Plan

What is left, in order of weight:

1. Receiving through permessage-deflate, with the rx side's draining state.
2. The end of a context and of its service thread.
3. `WebsocketClient` over the whole of `TxPath` in one module; so far their interface is stated on both sides
   (`WireInOrder`, `OrderAssumption`) and proved on the client's.
