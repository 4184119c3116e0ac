--------------------------- MODULE ClientConnect ---------------------------
(***************************************************************************)
(* How a wsi gets connected and who hears of it: lws's connect states from *)
(* lws_client_connect_via_info to CLIENT_ESTABLISHED (DNS and its retry,   *)
(* one attempt per address, TLS, the upgrade request, redirects, every     *)
(* close on the way), the callbacks it makes into WebsocketClient.swift,   *)
(* and the client's end: deinit on another thread, which marks the wsi     *)
(* through a queue that callbacks empty and frees the box the wsi's opaque *)
(* user data points to.                                                    *)
(*                                                                         *)
(* A rest state is one in which lws returns to its poll loop.  Between two *)
(* rest states the service thread is busy; a callback is entered (it       *)
(* empties the queue), and later runs its body (it reads the box).         *)
(***************************************************************************)
EXTENDS Integers, Sequences

CONSTANTS
    maxResults,     \* addresses a lookup returns, at most
    maxRedirects    \* redirects followed, 4 in lws_client_reset

ASSUME ConnectAssumption == maxResults \in Nat \ {0} /\ maxRedirects \in Nat

VARIABLES
    lrs,            \* the wsi's state
    results,        \* length of wsi->dns_sorted_list
    sock,           \* the socket, as the kernel sees it
    sul,            \* wsi->sul_connect_timeout: what it was scheduled for
    timeout,        \* wsi->sul_timeout: what it was set for
    sent,           \* the upgrade request is on its way
    ssl,            \* LCCSCF_USE_SSL
    cce,            \* already_did_cce
    suppress,       \* client_suppress_CONNECTION_ERROR
    redirects,      \* wsi->redirects
    opaque,         \* wsi->a.opaque_user_data names the client's box
    ctx,            \* the call the service thread is in
    pollout,        \* POLLOUT is asked for
    calls,          \* the callbacks lws makes next
    entered,        \* the first of them: not begun, or past its prologue
    user,           \* lws_wsi_user: the default or the closed marker
    marker,         \* eventLoopExecutionCallbacks holds the deinit's closure
    websocket, wasConnected, connectionError,   \* of WebsocketClient
    tasks,          \* closures on the event loop that hold the client
    timer,          \* the scheduled task of init, it holds the client too
    owned, deinit, held, box,
    returned,       \* history: what lws_client_connect_via_info returned
    informed,       \* history: CONNECTION_ERROR and CLIENT_CLOSED callbacks made
    quiet,          \* history: closed in a way lws tells nobody about
    misread         \* history: entered, when a callback read a freed box

netVars == <<results, sock, sul, timeout, sent>>
wsiVars == <<lrs, netVars, ssl, cce, suppress, redirects, opaque, ctx, pollout, quiet>>
callVars == <<calls, entered, user, marker>>
clientVars == <<websocket, wasConnected, connectionError, tasks, timer, owned>>
deinitVars == <<deinit, held, box>>
historyVars == <<returned, informed, misread>>
vars == <<wsiVars, callVars, clientVars, deinitVars, historyVars>>

Rest == {"unconnected", "waiting_connect", "waiting_ssl", "waiting_reply", "established"}
Busy == {"waiting_dns", "next_result", "issue_handshake", "dead"}
Reasons == {"APPEND", "ESTABLISHED", "ERROR", "CLOSED", "WRITEABLE", "DESTROY"}

\* Every variable has its type; in particular the list of addresses is never read past its
\* end, redirects are bounded, and a close makes its callbacks once.
TypeOK ==
    /\ lrs \in {"none", "freed"} \cup Rest \cup Busy
    /\ results \in 0..maxResults /\ sock \in {"none", "connecting", "connected", "failed"}
    /\ sul \in {"off", "dns_retry", "conn_wait"}
    /\ timeout \in {"none", "holding_ah", "connect", "handshake", "reply"}
    /\ {sent, ssl, cce, suppress, opaque, pollout, marker, websocket, wasConnected,
        connectionError, timer, owned, held, box, quiet} \subseteq BOOLEAN
    /\ redirects \in 0..maxRedirects
    /\ ctx \in {"pending", "call", "call_hs", "redirect", "service"}
    /\ calls \in Seq(Reasons) /\ Len(calls) <= 2
    /\ entered \in {"no", "fresh", "raced"} /\ user \in {"default", "closed"}
    /\ tasks \in Nat /\ informed \in Nat
    /\ deinit \in {"alive", "append", "writable", "free", "done"}
    /\ returned \in {"none", "wsi", "null", "freed"}
    /\ misread \subseteq {"fresh", "raced"}

Init ==
    /\ lrs = "none" /\ results = 0 /\ sock = "none" /\ sul = "off" /\ timeout = "none"
    /\ ssl \in BOOLEAN
    /\ sent = FALSE /\ cce = FALSE /\ suppress = FALSE /\ redirects = 0 /\ opaque = TRUE
    /\ ctx = "pending" /\ pollout = FALSE
    /\ calls = <<>> /\ entered = "no" /\ user = "default" /\ marker = FALSE
    /\ websocket = FALSE /\ wasConnected = FALSE /\ connectionError = FALSE
    /\ tasks = 0 /\ timer = TRUE /\ owned = TRUE
    /\ deinit = "alive" /\ held = FALSE /\ box = TRUE
    /\ returned = "none" /\ informed = 0 /\ quiet = FALSE /\ misread = {}

-----------------------------------------------------------------------------
(* The end of a wsi.                                                         *)

\* already_did_cce when the close begins
AlreadyDid(informs) == cce \/ informs

\* What __lws_close_free_wsi itself tells the user of a wsi it finds in state s: nothing
\* if there was a CONNECTION_ERROR; that it closed before it was connected; or that it
\* closed.  For the two http states that is LWS_CALLBACK_CLOSED_CLIENT_HTTP, which the
\* client does not handle.
CloseCalls(s, did) ==
    CASE did \/ s \in {"issue_handshake", "waiting_reply"} -> <<>>
      [] ~did /\ s = "established" -> <<"CLOSED">>
      [] OTHER -> <<"ERROR">>

\* Inform the user first, if informs, then close and free; supp: CONNECTION_ERROR is not
\* called back.
End(informs, supp) ==
    LET first == IF informs /\ ~cce THEN <<"ERROR">> ELSE <<>>
        rest == CloseCalls(lrs, AlreadyDid(informs))
        Heard(told) == IF supp /\ told = <<"ERROR">> THEN <<>> ELSE told
    IN  /\ calls' = Heard(first) \o Heard(rest) \o <<"DESTROY">>
        /\ cce' = (cce \/ informs \/ rest = <<"ERROR">>)
        /\ entered' = "no"
        /\ lrs' = "dead" /\ suppress' = supp
        /\ results' = 0 /\ sock' = "none" /\ sul' = "off" /\ timeout' = "none"

\* the service thread is in its poll loop, or its timers
Idle == calls = <<>> /\ ctx = "service"

-----------------------------------------------------------------------------
(* The connect call, in a closure the service thread runs.                   *)

\* mutant: the header table's reset sets no timeout
NoTimeout == "none"

\* the timeout __lws_header_table_reset keeps on a wsi that holds a header table
HoldingAh == "holding_ah"

\* lws_client_connect_via_info, up to the DNS lookup
ConnectCall ==
    /\ ctx = "pending"
    /\ ctx' = "call" /\ suppress' = TRUE
    /\ lrs' = "waiting_dns" /\ timeout' = HoldingAh
    /\ UNCHANGED <<results, sock, sul, sent, ssl, cce, redirects, opaque, pollout, quiet,
                   callVars, clientVars, deinitVars, historyVars>>

\* an early failure frees the wsi again, without a callback
ConnectRefused ==
    /\ ctx = "pending"
    /\ ctx' = "service" /\ lrs' = "freed"
    /\ returned' = "null" /\ tasks' = tasks + 1
    /\ UNCHANGED <<netVars, ssl, cce, suppress, redirects, opaque, pollout, quiet, callVars,
                   websocket, wasConnected, connectionError, timer, owned, deinitVars,
                   informed, misread>>

\* mutant: the errors after the call are suppressed too
StillSuppressed == suppress

\* client_suppress_CONNECTION_ERROR once the call has returned
Unsuppressed == FALSE

\* The call returns: a wsi at rest; NULL; or, if the request could not be made or
\* written, the wsi that was just freed, since that failure returns 0.
CallReturns ==
    /\ ctx \in {"call", "call_hs"} /\ calls = <<>> /\ lrs \in Rest \cup {"freed"}
    /\ returned' = IF lrs # "freed" THEN "wsi"
                   ELSE IF ctx = "call_hs" THEN "freed" ELSE "null"
    /\ websocket' = (returned' # "null")
    /\ tasks' = IF returned' = "null" THEN tasks + 1 ELSE tasks
    /\ ctx' = "service" /\ suppress' = Unsuppressed
    /\ UNCHANGED <<lrs, netVars, ssl, cce, redirects, opaque, pollout, quiet, callVars,
                   wasConnected, connectionError, timer, owned, deinitVars, informed, misread>>

-----------------------------------------------------------------------------
(* Addresses and attempts.                                                   *)

Stay == <<ssl, redirects, opaque, ctx, pollout, quiet, user, marker, clientVars, deinitVars,
          historyVars>>

\* lws_client_connect_2_dnsreq: addresses (none, if lws_sort_dns keeps none), no such name,
\* or a failure that is retried until the header table's timeout
DnsFound ==
    /\ lrs = "waiting_dns"
    /\ lrs' = "next_result" /\ results' \in 0..maxResults
    /\ UNCHANGED <<sock, sul, timeout, sent, cce, suppress, calls, entered, Stay>>

DnsNoName ==
    /\ lrs = "waiting_dns"
    /\ End(TRUE, FALSE)
    /\ UNCHANGED <<sent, Stay>>

DnsFails ==
    /\ lrs = "waiting_dns"
    /\ lrs' = "unconnected" /\ sul' = "dns_retry"
    /\ UNCHANGED <<results, sock, timeout, sent, cce, suppress, calls, entered, Stay>>

\* lws_client_dns_retry_timeout
DnsRetry ==
    /\ Idle /\ sul = "dns_retry"
    /\ sul' = "off" /\ lrs' = "waiting_dns"
    /\ UNCHANGED <<results, sock, timeout, sent, cce, suppress, calls, entered, Stay>>

\* no address is left
NoMore == results = 0

\* conn_good: the other addresses are dropped and the handshake is provoked
ConnGood(s) ==
    /\ sul' = "off" /\ results' = 0 /\ sock' = s
    /\ lrs' = "issue_handshake" /\ timeout' = "handshake"
    /\ UNCHANGED <<sent, cce, suppress, calls, entered>>

\* next_dns_result: an attempt on the head of the list; its connect() is under way, done
\* or has failed; or, with none left, the end
TryNext ==
    /\ lrs = "next_result"
    /\ \/ /\ NoMore
          /\ End(TRUE, suppress) /\ UNCHANGED sent
       \/ /\ ~NoMore
          /\ lrs' = "waiting_connect" /\ results' = results - 1 /\ sock' = "connecting"
          /\ sul' = "conn_wait" /\ timeout' = "connect"
          /\ UNCHANGED <<sent, cce, suppress, calls, entered>>
       \/ ~NoMore /\ ConnGood("connected")
       \/ /\ ~NoMore
          /\ results' = results - 1 /\ timeout' \in {timeout, "connect"}
          /\ UNCHANGED <<lrs, sock, sul, sent, cce, suppress, calls, entered>>
    /\ UNCHANGED Stay

\* try_next_dns_result_fds: the socket goes, the next address is tried
NextAddress ==
    /\ lrs' = "next_result" /\ sul' = "off" /\ sock' = "none"
    /\ UNCHANGED <<results, timeout, sent, cce, suppress, calls, entered>>

\* POLLOUT while connecting: SO_ERROR tells whether the attempt worked
PolloutConnect ==
    /\ Idle /\ lrs = "waiting_connect"
    /\ \/ sock = "connected" /\ ConnGood("connected")
       \/ sock = "failed" /\ NextAddress
    /\ UNCHANGED Stay

\* lws_client_conn_wait_timeout: of the last address's attempt it is the end.  Otherwise
\* SO_ERROR is asked, and an attempt that still goes on has none: it counts as connected.
AttemptTimeout ==
    /\ Idle /\ sul = "conn_wait"
    /\ IF results = 0 \/ sock = "failed" THEN NextAddress ELSE ConnGood(sock)
    /\ UNCHANGED Stay

\* the network
SocketSettles ==
    /\ \/ sock = "connecting" /\ sock' \in {"connected", "failed"}
       \/ sock = "connected" /\ sock' = "failed"
    /\ UNCHANGED <<lrs, results, sul, timeout, sent, cce, suppress, calls, entered, Stay>>

-----------------------------------------------------------------------------
(* TLS, the upgrade request and its reply.                                   *)

\* wsi->tls.use_ssl: the close of a redirect clears it, and sets it again after what the new
\* connect does at once
Secure == ssl /\ ctx # "redirect"

\* lws_client_create_tls and lws_ssl_client_connect2: more service is needed, failed, or
\* done and on to the request; without TLS the request is next
Tls ==
    /\ calls = <<>>
    /\ lrs = "issue_handshake" \/ (lrs = "waiting_ssl" /\ Idle)
    /\ pollout' = (pollout /\ lrs # "issue_handshake")
    /\ \/ /\ Secure /\ sock \in {"connecting", "connected"} /\ lrs' = "waiting_ssl"
          /\ UNCHANGED <<netVars, cce, suppress, calls, entered>>
       \/ /\ Secure /\ sock \in {"connected", "failed"}
          /\ End(TRUE, suppress) /\ UNCHANGED sent
       \/ /\ Secure => sock = "connected"
          /\ calls' = <<"APPEND">>
          /\ UNCHANGED <<lrs, netVars, cce, suppress, entered>>
    /\ UNCHANGED <<ssl, redirects, opaque, ctx, quiet, user, marker, clientVars, deinitVars,
                   historyVars>>

\* The server's answer, or the end of the stream, read.
BadReply ==
    /\ Idle /\ lrs = "waiting_reply" /\ (sent \/ sock = "failed")
    /\ End(TRUE, FALSE)
    /\ UNCHANGED <<sent, Stay>>

\* 101 and its headers are right: lws_client_ws_upgrade
Upgraded ==
    /\ Idle /\ lrs = "waiting_reply" /\ sent /\ sock = "connected"
    /\ lrs' = "established" /\ timeout' = "none"
    /\ calls' = <<"ESTABLISHED">>
    /\ UNCHANGED <<results, sock, sul, sent, cce, suppress, entered, Stay>>

\* A redirect to a place with or without TLS: refused if that is a downgrade or the limit
\* is reached.  Otherwise the same wsi goes through its close and a new connect at once,
\* with no opaque user data: the new stash has none.
Redirected ==
    /\ Idle /\ lrs = "waiting_reply" /\ sent /\ sock = "connected"
    /\ \E s \in BOOLEAN :
         \/ /\ (ssl /\ ~s) \/ redirects = maxRedirects
            /\ End(TRUE, FALSE)
            /\ UNCHANGED <<sent, ssl, redirects, opaque, ctx, pollout>>
         \/ /\ ~(ssl /\ ~s) /\ redirects < maxRedirects
            /\ ssl' = s /\ redirects' = redirects + 1
            /\ opaque' = FALSE /\ ctx' = "redirect" /\ pollout' = FALSE
            /\ lrs' = "waiting_dns" /\ timeout' = HoldingAh /\ sock' = "none" /\ sent' = FALSE
            /\ UNCHANGED <<results, sul, cce, suppress, calls, entered>>
    /\ UNCHANGED <<quiet, user, marker, clientVars, deinitVars, historyVars>>

\* back in lws_client_interpret_server_handshake: a wsi that still exists gets its opaque
\* user data back
RedirectReturns ==
    /\ ctx = "redirect" /\ calls = <<>> /\ lrs \in Rest \cup {"freed"}
    /\ ctx' = "service" /\ opaque' = (lrs # "freed")
    /\ UNCHANGED <<lrs, netVars, ssl, cce, suppress, redirects, pollout, quiet, callVars,
                   clientVars, deinitVars, historyVars>>

\* POLLHUP with nothing to read closes at once, whatever the state; nobody hears of it
\* while the reply is awaited
HupClose ==
    /\ Idle /\ lrs \in {"waiting_connect", "waiting_ssl", "waiting_reply"} /\ sock = "failed"
    /\ quiet' = (quiet \/ lrs = "waiting_reply")
    /\ End(FALSE, FALSE)
    /\ UNCHANGED <<sent, ssl, redirects, opaque, ctx, pollout, user, marker, clientVars,
                   deinitVars, historyVars>>

\* lws_sul_wsitimeout_cb.  The one of a connect attempt is longer than sul_connect_timeout.
Timeout ==
    /\ Idle /\ timeout \in {"holding_ah", "connect", "handshake", "reply"}
    /\ lrs \in {"unconnected", "waiting_ssl", "waiting_reply"}
    /\ End(lrs # "unconnected", FALSE)
    /\ UNCHANGED <<sent, Stay>>

\* an established connection ends
ConnectionEnds ==
    /\ Idle /\ lrs = "established"
    /\ End(FALSE, FALSE)
    /\ UNCHANGED <<sent, Stay>>

\* POLLOUT asked for by another thread or after the request: dropped while the reply is
\* awaited, a WRITEABLE callback once established; while connecting it is on anyway
Pollout ==
    /\ Idle /\ pollout /\ lrs \in {"waiting_ssl", "waiting_reply", "established"}
    /\ pollout' = FALSE
    /\ calls' = IF lrs = "established" THEN <<"WRITEABLE">> ELSE <<>>
    /\ UNCHANGED <<lrs, netVars, ssl, cce, suppress, redirects, opaque, ctx, quiet, entered,
                   user, marker, clientVars, deinitVars, historyVars>>

-----------------------------------------------------------------------------
(* Callbacks: _lws_swift_websocketClientCallback.                            *)

\* the prologue: run the queued closures
Enter ==
    /\ calls # <<>> /\ entered = "no"
    /\ entered' = "fresh"
    /\ user' = IF marker THEN "closed" ELSE user
    /\ marker' = FALSE
    /\ UNCHANGED <<wsiVars, calls, clientVars, deinitVars, historyVars>>

\* the callback of another wsi of the context
OtherCallback ==
    /\ Idle /\ lrs \in Rest \cup {"freed"} /\ marker
    /\ user' = "closed" /\ marker' = FALSE
    /\ UNCHANGED <<wsiVars, calls, entered, clientVars, deinitVars, historyVars>>

\* getWebsocketClient: whether it gets as far as the box, and whether it finds a client
Reads == opaque /\ user # "closed"
Seen == Reads /\ deinit = "alive"

\* a body runs to its end, and lws has the next callbacks to make
Body(reason) ==
    /\ calls # <<>> /\ Head(calls) = reason /\ entered # "no"
    /\ misread' = IF Reads /\ ~box THEN misread \cup {entered} ELSE misread
NextCall == calls' = Tail(calls) /\ entered' = "no"

\* APPEND_HANDSHAKE_HEADER, then the write of the request.  Without a client, if its
\* headers do not fit, or if the write fails, the wsi is closed and 0 returned.
AppendBody ==
    /\ Body("APPEND")
    /\ \/ /\ Seen /\ sock # "failed"
          /\ lrs' = "waiting_reply" /\ timeout' = "reply" /\ sent' = (sock = "connected")
          /\ pollout' = TRUE /\ NextCall
          /\ UNCHANGED <<results, sock, sul, cce, suppress, ctx, quiet>>
       \/ /\ quiet' = (quiet \/ lrs = "issue_handshake")
          /\ ctx' = IF ctx = "call" THEN "call_hs" ELSE ctx
          /\ End(FALSE, suppress) /\ UNCHANGED <<sent, pollout>>
    /\ UNCHANGED <<ssl, redirects, opaque, user, marker, clientVars, deinitVars,
                   returned, informed>>

\* CLIENT_ESTABLISHED: without a client it is refused
EstablishedBody ==
    /\ Body("ESTABLISHED")
    /\ IF Seen THEN /\ wasConnected' = TRUE /\ tasks' = tasks + 1 /\ NextCall
                    /\ UNCHANGED <<lrs, netVars, cce, suppress>>
               ELSE /\ End(TRUE, FALSE)
                    /\ UNCHANGED <<sent, wasConnected, tasks>>
    /\ UNCHANGED <<ssl, redirects, opaque, ctx, pollout, quiet, user, marker, websocket,
                   connectionError, timer, owned, deinitVars, returned, informed>>

\* CLIENT_CONNECTION_ERROR
ErrorBody ==
    /\ Body("ERROR") /\ NextCall
    /\ informed' = informed + 1
    /\ connectionError' = (connectionError \/ Seen)
    /\ tasks' = IF Seen THEN tasks + 1 ELSE tasks
    /\ UNCHANGED <<wsiVars, user, marker, websocket, wasConnected, timer, owned, deinitVars,
                   returned>>

\* CLIENT_CLOSED
ClosedBody ==
    /\ Body("CLOSED") /\ NextCall
    /\ informed' = informed + 1
    /\ tasks' = IF Seen THEN tasks + 1 ELSE tasks
    /\ UNCHANGED <<wsiVars, user, marker, websocket, wasConnected, connectionError, timer,
                   owned, deinitVars, returned>>

\* CLIENT_WRITEABLE: without a client the connection is closed
WriteableBody ==
    /\ Body("WRITEABLE")
    /\ IF Seen THEN NextCall /\ UNCHANGED <<lrs, netVars, cce, suppress>>
               ELSE End(FALSE, FALSE) /\ UNCHANGED sent
    /\ UNCHANGED <<ssl, redirects, opaque, ctx, pollout, quiet, user, marker, clientVars,
                   deinitVars, returned, informed>>

\* mutant: WSI_DESTROY leaves the pointer
ClearedNever == websocket

\* the client's pointer after WSI_DESTROY
Cleared == websocket /\ ~Seen

\* WSI_DESTROY, and the wsi is freed
DestroyBody ==
    /\ Body("DESTROY") /\ NextCall
    /\ websocket' = Cleared
    /\ lrs' = "freed"
    /\ UNCHANGED <<netVars, ssl, cce, suppress, redirects, opaque, ctx, pollout, quiet, user,
                   marker, wasConnected, connectionError, tasks, timer, owned, deinitVars,
                   returned, informed>>

-----------------------------------------------------------------------------
(* The client's other threads.                                               *)

\* a closure on the event loop ends, or the scheduled task does, and lets go of the client
RunTask ==
    /\ \/ tasks > 0 /\ tasks' = tasks - 1 /\ UNCHANGED timer
       \/ timer /\ timer' = FALSE /\ UNCHANGED tasks
    /\ UNCHANGED <<wsiVars, callVars, websocket, wasConnected, connectionError, owned,
                   deinitVars, historyVars>>

Release ==
    /\ owned /\ owned' = FALSE
    /\ UNCHANGED <<wsiVars, callVars, websocket, wasConnected, connectionError, tasks, timer,
                   deinitVars, historyVars>>

\* deinit begins when nobody holds the client: weak references are nil from here on
DeinitBegin ==
    /\ deinit = "alive" /\ ~owned /\ tasks = 0 /\ ~timer /\ returned # "none"
    /\ held' = websocket
    /\ deinit' = IF websocket THEN "append" ELSE "free"
    /\ UNCHANGED <<wsiVars, callVars, clientVars, box, historyVars>>

\* mutant: no closure is queued
MarkNever == FALSE

\* the closure that sets the closed marker is in the queue
Marked == TRUE

DeinitAppend ==
    /\ deinit = "append" /\ deinit' = "writable"
    /\ marker' = Marked
    /\ entered' = IF entered = "fresh" THEN "raced" ELSE entered
    /\ UNCHANGED <<wsiVars, calls, user, clientVars, held, box, historyVars>>

\* mutant: callWritable does nothing
AskedNever == pollout

\* POLLOUT after lws_callback_on_writable: there is no socket to ask for it before or
\* after the connection
Asked == pollout \/ lrs \in {"waiting_connect", "issue_handshake", "waiting_ssl",
                             "waiting_reply", "established"}

DeinitWritable ==
    /\ deinit = "writable" /\ deinit' = "free"
    /\ pollout' = Asked
    /\ UNCHANGED <<lrs, netVars, ssl, cce, suppress, redirects, opaque, ctx, quiet, callVars,
                   clientVars, held, box, historyVars>>

\* markAsClosed, and the box is freed
DeinitFree ==
    /\ deinit = "free" /\ deinit' = "done"
    /\ box' = FALSE
    /\ UNCHANGED <<wsiVars, callVars, clientVars, held, historyVars>>

-----------------------------------------------------------------------------

Connecting == ConnectCall \/ ConnectRefused \/ CallReturns \/ RedirectReturns
Attempting == DnsFound \/ DnsNoName \/ DnsFails \/ DnsRetry \/ TryNext \/ PolloutConnect
Callback == \/ Enter \/ AppendBody \/ EstablishedBody \/ ErrorBody \/ ClosedBody
            \/ WriteableBody \/ DestroyBody
Deinit == DeinitBegin \/ DeinitAppend \/ DeinitWritable \/ DeinitFree
HandshakeStep == lrs = "issue_handshake" /\ Tls

Next ==
    \/ Connecting \/ Attempting \/ AttemptTimeout \/ SocketSettles \/ Tls
    \/ BadReply \/ Upgraded \/ Redirected \/ HupClose \/ Timeout \/ ConnectionEnds
    \/ Pollout \/ Callback \/ OtherCallback
    \/ RunTask \/ Release \/ Deinit

Spec == Init /\ [][Next]_vars

\* The service thread goes on with what it has begun, polls and runs its timers; the
\* event loop and a deinit go on.  Nothing is assumed of the network, the server and the
\* owner.  The wsi's timeout runs on through retries of the lookup, so it fires although
\* these make it wait again and again.
Fairness ==
    /\ WF_vars(Connecting) /\ WF_vars(Attempting) /\ WF_vars(AttemptTimeout)
    /\ WF_vars(HandshakeStep) /\ WF_vars(Callback) /\ WF_vars(Pollout)
    /\ SF_vars(Timeout)
    /\ WF_vars(RunTask) /\ WF_vars(Deinit)

FairSpec == Spec /\ Fairness

-----------------------------------------------------------------------------
(* Properties.                                                               *)

\* The end of a connection is told once: lws makes at most one CONNECTION_ERROR callback
\* for a wsi, whatever it fails at and through all its redirects, and not also a
\* CLIENT_CLOSED.  And a connect that fails is reported: CONNECTION_ERROR reaches the
\* client, or the connect call returns NULL, except where lws closes without a word (a
\* hangup while the reply is awaited, a request that cannot be made or written) or has no
\* client to tell (the synchronous part of a redirect).
FailureReported ==
    /\ informed <= 1
    /\ lrs = "freed" /\ ctx = "service" /\ deinit = "alive" /\ ~wasConnected
         => connectionError \/ returned = "null" \/ quiet \/ ~opaque

\* The client's wsi pointer does not outlive the wsi, except where the connect call
\* returned a wsi that it had freed or a redirect hid the client from WSI_DESTROY.
WebsocketCurrent ==
    websocket /\ deinit = "alive" /\ lrs = "freed" => returned = "freed" \/ ~opaque

\* A callback that begins after deinit has queued its closure does not read the box that
\* deinit frees; only one that was already past its prologue can.
NoReadAfterFree == "fresh" \notin misread

\* "Make sure to free this only after the websocket is destroyed" (deinit): no callback
\* ever reads the freed box, also none that was past its prologue when deinit came.
BoxOutlivesCallbacks == misread = {}

\* A connect comes to an end: every wait on the way has a timer behind it.
ConnectEnds == <>(lrs \in {"established", "freed"})

\* A client that is dropped while it connects, or right after, does not leave its wsi
\* behind.
ReleaseFrees == ~owned ~> lrs = "freed"
=============================================================================
