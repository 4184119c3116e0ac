------------------------ MODULE ClientConnectProofs ------------------------
(***************************************************************************)
(* Proofs about ClientConnect, for any number of addresses and redirects:  *)
(* what fails is told once, the client's wsi pointer does not outlive the  *)
(* wsi, and no callback that begins after deinit has queued its closure    *)
(* reads the box that deinit frees.                                        *)
(***************************************************************************)
EXTENDS ClientConnect, TLAPS

(* The callbacks of a wsi that ends.                                         *)
ErrorEnd == <<"ERROR", "DESTROY">>
ClosedEnd == <<"CLOSED", "DESTROY">>
SilentEnd == <<"DESTROY">>
Endings == {ErrorEnd, ClosedEnd, SilentEnd}

(* Which callbacks there can be in which state.                              *)
CallInv ==
    /\ calls \in {<<>>, <<"APPEND">>, <<"ESTABLISHED">>, <<"WRITEABLE">>} \cup Endings
    /\ calls = <<"APPEND">> =>
         lrs = "issue_handshake" \/ (lrs = "waiting_ssl" /\ ctx = "service")
    /\ calls \in {<<"ESTABLISHED">>, <<"WRITEABLE">>} => lrs = "established"
    /\ calls \in Endings <=> lrs = "dead"

(* How the service thread's call, the timers and the wsi's flags go with its *)
(* state.                                                                    *)
StateInv ==
    /\ ctx = "pending" <=> lrs = "none"
    /\ ctx = "pending" => ~websocket /\ returned = "none"
    /\ sul = "dns_retry" => lrs = "unconnected"
    /\ sul = "conn_wait" => lrs = "waiting_connect"
    /\ cce => lrs \in {"dead", "freed"}
    /\ suppress => ctx \in {"call", "call_hs"}
    /\ ctx = "redirect" => ~opaque
    /\ ctx = "call_hs" => quiet
    /\ (lrs = "established" /\ calls # <<"ESTABLISHED">>) => wasConnected

(* Nothing is told before the end, and what is still to be told was not.     *)
ToldInv ==
    /\ lrs \notin {"dead", "freed"} => informed = 0
    /\ calls \in {ErrorEnd, ClosedEnd} => informed = 0
    /\ informed <= 1

(* A connect that has failed was reported, will be, or is by the call that   *)
(* still has to return.                                                      *)
ReportInv ==
    (lrs \in {"dead", "freed"} /\ deinit = "alive" /\ ~wasConnected /\ opaque)
      => connectionError \/ returned = "null" \/ quiet \/ ctx = "call" \/ calls = ErrorEnd

(* A deinit that finds a wsi has its marker in the queue, or set, when it    *)
(* frees the box; one that finds none comes after the wsi was freed.         *)
BoxInv ==
    /\ ~box => deinit = "done"
    /\ (marker \/ user = "closed") => deinit \notin {"alive", "append"}
    /\ deinit \in {"append", "writable"} => held
    /\ (returned # "none" /\ ~websocket) => lrs = "freed"
    /\ (deinit # "alive" /\ ~held) => lrs = "freed"
    /\ deinit # "alive" => returned # "none"
    /\ (held /\ deinit \in {"writable", "free", "done"}) =>
         (marker \/ user = "closed") /\ (entered = "fresh" => user = "closed")

Inv == /\ TypeOK /\ CallInv /\ StateInv /\ ToldInv /\ ReportInv /\ BoxInv
       /\ WebsocketCurrent /\ NoReadAfterFree

(* The first callback and those after it.                                    *)
LEMMA CallFacts ==
    /\ \A r \in Reasons : <<r>> # <<>> /\ Head(<<r>>) = r /\ Tail(<<r>>) = <<>>
    /\ ErrorEnd # <<>> /\ Head(ErrorEnd) = "ERROR" /\ Tail(ErrorEnd) = SilentEnd
    /\ ClosedEnd # <<>> /\ Head(ClosedEnd) = "CLOSED" /\ Tail(ClosedEnd) = SilentEnd
    /\ SilentEnd # <<>> /\ Head(SilentEnd) = "DESTROY" /\ Tail(SilentEnd) = <<>>
    /\ ErrorEnd # ClosedEnd /\ ErrorEnd # SilentEnd /\ ClosedEnd # SilentEnd
    /\ \A r \in Reasons : <<r>> # ErrorEnd /\ <<r>> # ClosedEnd
    /\ <<"APPEND">> # SilentEnd /\ <<"ESTABLISHED">> # SilentEnd /\ <<"WRITEABLE">> # SilentEnd
    /\ <<"APPEND">> # <<"ESTABLISHED">> /\ <<"APPEND">> # <<"WRITEABLE">>
    /\ <<"ESTABLISHED">> # <<"WRITEABLE">>
BY DEF ErrorEnd, ClosedEnd, SilentEnd, Reasons

(* Two callbacks one after the other.                                        *)
LEMMA Joined ==
    ASSUME NEW S, NEW a \in S, NEW b \in S
    PROVE  <<a>> \o <<b>> = <<a, b>> /\ <<>> \o <<a>> = <<a>> /\ <<a>> \o <<>> = <<a>>
<1> DEFINE u == <<a>> \o <<b>>
           v == <<a, b>>
<1>1. u \in Seq(S) /\ v \in Seq(S) OBVIOUS
<1>2. Len(u) = 2 /\ Len(v) = 2 OBVIOUS
<1>3. u[1] = a /\ u[2] = b /\ v[1] = a /\ v[2] = b OBVIOUS
<1>4. <<>> \o <<a>> = <<a>> /\ <<a>> \o <<>> = <<a>> OBVIOUS
<1> HIDE DEF u, v
<1>5. u \in [1..2 -> S] /\ v \in [1..2 -> S] BY <1>1, <1>2
<1>6. \A i \in 1..2 : u[i] = v[i] BY <1>3
<1>7. u = v BY <1>5, <1>6
<1> QED BY <1>4, <1>7 DEF u, v

(* What End makes of a wsi that has told nothing yet.                        *)
LEMMA EndShape ==
    ASSUME NEW informs \in BOOLEAN, NEW supp \in BOOLEAN, ~cce, End(informs, supp)
    PROVE  /\ calls' \in Endings /\ entered' = "no" /\ lrs' = "dead" /\ suppress' = supp
           /\ cce' \in BOOLEAN
           /\ results' = 0 /\ sock' = "none" /\ sul' = "off" /\ timeout' = "none"
           /\ (~supp /\ (informs \/ lrs \notin {"issue_handshake", "waiting_reply",
                                                "established"})) => calls' = ErrorEnd
<1> DEFINE first == IF informs /\ ~cce THEN <<"ERROR">> ELSE <<>>
           rest == CloseCalls(lrs, AlreadyDid(informs))
           Heard(told) == IF supp /\ told = <<"ERROR">> THEN <<>> ELSE told
<1>1. /\ calls' = Heard(first) \o Heard(rest) \o <<"DESTROY">>
      /\ cce' = (cce \/ informs \/ rest = <<"ERROR">>)
      /\ entered' = "no" /\ lrs' = "dead" /\ suppress' = supp
      /\ results' = 0 /\ sock' = "none" /\ sul' = "off" /\ timeout' = "none"
    BY DEF End
<1>2. <<"ERROR">> # <<>> /\ <<"CLOSED">> # <<"ERROR">> OBVIOUS
<1>5. /\ <<>> \o <<"ERROR">> = <<"ERROR">> /\ <<"ERROR">> \o <<>> = <<"ERROR">>
      /\ <<>> \o <<"CLOSED">> = <<"CLOSED">>
      /\ <<"ERROR">> \o <<"DESTROY">> = <<"ERROR", "DESTROY">>
      /\ <<"CLOSED">> \o <<"DESTROY">> = <<"CLOSED", "DESTROY">>
    <2>1. "ERROR" \in Reasons /\ "CLOSED" \in Reasons /\ "DESTROY" \in Reasons BY DEF Reasons
    <2> QED BY <2>1, Joined, Zenon
<1>3. CASE informs
    <2>1. first = <<"ERROR">> /\ rest = <<>> BY <1>3 DEF AlreadyDid, CloseCalls
    <2>2. CASE supp
        <3>1. Heard(first) = <<>> /\ Heard(rest) = <<>> BY <1>2, <2>1, <2>2
        <3>2. <<>> \o <<>> \o <<"DESTROY">> = <<"DESTROY">> OBVIOUS
        <3>3. calls' = SilentEnd BY <1>1, <3>1, <3>2 DEF SilentEnd
        <3> QED BY <1>1, <2>2, <3>3 DEF Endings
    <2>3. CASE ~supp
        <3>1. Heard(first) = <<"ERROR">> /\ Heard(rest) = <<>> BY <1>2, <2>1, <2>3
        <3>2. <<"ERROR">> \o <<>> \o <<"DESTROY">> = <<"ERROR", "DESTROY">>
            BY <1>5, Zenon
        <3>3. calls' = ErrorEnd BY <1>1, <3>1, <3>2 DEF ErrorEnd
        <3> QED BY <1>1, <3>3 DEF Endings
    <2> QED BY <2>2, <2>3
<1>4. CASE ~informs
    <2>1. first = <<>> /\ Heard(first) = <<>> BY <1>2, <1>4
    <2>2. CASE lrs \in {"issue_handshake", "waiting_reply"}
        <3>1. rest = <<>> /\ Heard(rest) = <<>> BY <1>2, <2>2 DEF CloseCalls
        <3>2. <<>> \o <<>> \o <<"DESTROY">> = <<"DESTROY">> OBVIOUS
        <3>3. calls' = SilentEnd BY <1>1, <2>1, <3>1, <3>2 DEF SilentEnd
        <3> QED BY <1>1, <1>4, <2>2, <3>3 DEF Endings
    <2>3. CASE lrs = "established"
        <3>1. rest = <<"CLOSED">> /\ Heard(rest) = <<"CLOSED">>
            BY <1>2, <1>4, <2>3 DEF CloseCalls, AlreadyDid
        <3>2. <<>> \o <<"CLOSED">> \o <<"DESTROY">> = <<"CLOSED", "DESTROY">>
            BY <1>5, Zenon
        <3>3. calls' = ClosedEnd BY <1>1, <2>1, <3>1, <3>2 DEF ClosedEnd
        <3> QED BY <1>1, <1>4, <2>3, <3>3 DEF Endings
    <2>4. CASE lrs \notin {"issue_handshake", "waiting_reply", "established"}
        <3>1. rest = <<"ERROR">> BY <1>4, <2>4 DEF CloseCalls, AlreadyDid
        <3>2. CASE supp
            <4>1. Heard(rest) = <<>> BY <3>1, <3>2
            <4>2. <<>> \o <<>> \o <<"DESTROY">> = <<"DESTROY">> OBVIOUS
            <4>3. calls' = SilentEnd BY <1>1, <2>1, <4>1, <4>2 DEF SilentEnd
            <4> QED BY <1>1, <3>2, <4>3 DEF Endings
        <3>3. CASE ~supp
            <4>1. Heard(rest) = <<"ERROR">> BY <3>1, <3>3
            <4>2. <<>> \o <<"ERROR">> \o <<"DESTROY">> = <<"ERROR", "DESTROY">>
            BY <1>5, Zenon
            <4>3. calls' = ErrorEnd BY <1>1, <2>1, <4>1, <4>2 DEF ErrorEnd
            <4> QED BY <1>1, <4>3 DEF Endings
        <3> QED BY <3>2, <3>3
    <2> QED BY <2>2, <2>3, <2>4
<1> QED BY <1>3, <1>4

(* Every sequence of callbacks there can be has at most two.                 *)
LEMMA ShapeType ==
    ASSUME NEW q \in {<<>>, <<"APPEND">>, <<"ESTABLISHED">>, <<"WRITEABLE">>} \cup Endings
    PROVE  q \in Seq(Reasons) /\ Len(q) <= 2
<1>1. \A r \in Reasons : <<r>> \in Seq(Reasons) /\ Len(<<r>>) = 1 OBVIOUS
<1>2. \A r, s \in Reasons : <<r, s>> \in Seq(Reasons) /\ Len(<<r, s>>) = 2 OBVIOUS
<1>3. <<>> \in Seq(Reasons) /\ Len(<<>>) = 0 OBVIOUS
<1>4. CASE q \in {<<"APPEND">>, <<"ESTABLISHED">>, <<"WRITEABLE">>, SilentEnd}
    <2>1. PICK r \in Reasons : q = <<r>> BY <1>4, Zenon DEF Reasons, SilentEnd
    <2> QED BY <1>1, <2>1
<1>5. CASE q \in {ErrorEnd, ClosedEnd}
    <2>1. PICK r \in Reasons, s \in Reasons : q = <<r, s>>
        BY <1>5, Zenon DEF Reasons, ErrorEnd, ClosedEnd
    <2> QED BY <1>2, <2>1
<1>6. CASE q = <<>> BY <1>3, <1>6
<1> QED BY <1>4, <1>5, <1>6, Zenon DEF Endings

(* The states of a wsi that is neither unborn nor at its end.                *)
Live == {"unconnected", "waiting_connect", "waiting_ssl", "waiting_reply", "established",
         "waiting_dns", "next_result", "issue_handshake"}

(* With callbacks to make the wsi is not freed yet.                          *)
LEMMA CallsAlive ==
    ASSUME CallInv, TypeOK
    PROVE  calls # <<>> => lrs \in Live \cup {"dead"}
BY CallFacts DEF CallInv, Live

(* The end of a wsi: told, unless the call still has to return, or it was    *)
(* connected, or it is one of the closes that lws tells nobody about.        *)
LEMMA EndStep ==
    ASSUME Inv, NEW informs \in BOOLEAN, NEW supp \in {FALSE, suppress}, End(informs, supp),
           lrs \in Live,
           UNCHANGED <<sent, ssl, redirects, opaque, user, marker, clientVars, deinitVars,
                       returned, informed>>,
           pollout' \in BOOLEAN, quiet' \in BOOLEAN, quiet => quiet',
           ctx' = ctx \/ (ctx = "call" /\ ctx' = "call_hs" /\ quiet'),
           misread' \subseteq {"fresh", "raced"}, "fresh" \notin misread',
           informs \/ quiet' \/ wasConnected
             \/ lrs \notin {"issue_handshake", "waiting_reply", "established"}
    PROVE  Inv'
<1>1. TypeOK /\ CallInv /\ StateInv /\ ToldInv /\ ReportInv /\ BoxInv BY DEF Inv
<1>2. ~cce /\ supp \in BOOLEAN BY <1>1 DEF StateInv, TypeOK, Live
<1>3. /\ calls' \in Endings /\ entered' = "no" /\ lrs' = "dead" /\ suppress' = supp
      /\ cce' \in BOOLEAN
      /\ results' = 0 /\ sock' = "none" /\ sul' = "off" /\ timeout' = "none"
      /\ (~supp /\ (informs \/ lrs \notin {"issue_handshake", "waiting_reply",
                                           "established"})) => calls' = ErrorEnd
    BY <1>2, EndShape
<1>4. UNCHANGED <<websocket, wasConnected, connectionError, tasks, timer, owned, deinit, held,
                  box>>
    BY DEF clientVars, deinitVars
<1>5. TypeOK'
    <2>1. calls' \in Seq(Reasons) /\ Len(calls') <= 2 BY <1>3, ShapeType
    <2>2. maxResults \in Nat /\ maxRedirects \in Nat BY ConnectAssumption
    <2>3. lrs' \in Busy /\ results' \in 0..maxResults BY <1>3, <2>2 DEF Busy
    <2>4. ctx' \in {"pending", "call", "call_hs", "redirect", "service"} BY <1>1 DEF TypeOK
    <2> QED BY <1>1, <1>2, <1>3, <1>4, <2>1, <2>3, <2>4 DEF TypeOK
<1>6. CallInv' BY <1>3, CallFacts DEF CallInv, Endings, Reasons
<1>7. StateInv' BY <1>1, <1>2, <1>3, <1>4 DEF StateInv, Live
<1>8. ToldInv' BY <1>1, <1>3 DEF ToldInv, Live
<1>9. ReportInv'
    <2>1. CASE ~supp /\ ~quiet' /\ ~wasConnected BY <1>3, <2>1 DEF ReportInv
    <2>2. CASE supp /\ ~quiet'
        <3>1. ctx = "call" /\ ctx' = "call" BY <1>1, <2>2 DEF StateInv
        <3> QED BY <3>1 DEF ReportInv
    <2>3. CASE quiet' \/ wasConnected BY <1>4, <2>3 DEF ReportInv
    <2> QED BY <1>2, <2>1, <2>2, <2>3
<1>10. BoxInv' BY <1>1, <1>3, <1>4 DEF BoxInv, Live
<1>11. WebsocketCurrent' /\ NoReadAfterFree' BY <1>3 DEF WebsocketCurrent, NoReadAfterFree
<1> QED BY <1>5, <1>6, <1>7, <1>8, <1>9, <1>10, <1>11 DEF Inv

(* A step between two states of a wsi that has not come to its end.          *)
LEMMA MoveStep ==
    ASSUME Inv, lrs \in Live, lrs' \in Live,
           UNCHANGED <<cce, suppress, quiet, user, marker, clientVars, deinitVars, historyVars,
                       entered>>,
           results' \in 0..maxResults, sock' \in {"none", "connecting", "connected", "failed"},
           sul' \in {"off", "dns_retry", "conn_wait"},
           timeout' \in {"none", "holding_ah", "connect", "handshake", "reply"},
           {sent', ssl', opaque', pollout'} \subseteq BOOLEAN, redirects' \in 0..maxRedirects,
           (ctx' = ctx /\ opaque' = opaque) \/ (ctx' = "redirect" /\ ~opaque'),
           calls' \in {<<>>, <<"APPEND">>, <<"ESTABLISHED">>, <<"WRITEABLE">>},
           calls' = <<"APPEND">> =>
             lrs' = "issue_handshake" \/ (lrs' = "waiting_ssl" /\ ctx' = "service"),
           calls' \in {<<"ESTABLISHED">>, <<"WRITEABLE">>} => lrs' = "established",
           sul' = "dns_retry" => lrs' = "unconnected",
           sul' = "conn_wait" => lrs' = "waiting_connect",
           (lrs' = "established" /\ calls' # <<"ESTABLISHED">>) => wasConnected,
           suppress => ctx' = ctx
    PROVE  Inv'
<1>1. TypeOK /\ CallInv /\ StateInv /\ ToldInv /\ ReportInv /\ BoxInv /\ NoReadAfterFree
    BY DEF Inv
<1>2. UNCHANGED <<websocket, wasConnected, connectionError, tasks, timer, owned, deinit, held,
                  box, returned, informed, misread>>
    BY DEF clientVars, deinitVars, historyVars
<1>3. TypeOK'
    <2>1. calls' \in Seq(Reasons) /\ Len(calls') <= 2 BY ShapeType
    <2>2. lrs' \in Rest \cup Busy BY DEF Live, Rest, Busy
    <2>3. ctx' \in {"pending", "call", "call_hs", "redirect", "service"} BY <1>1 DEF TypeOK
    <2> QED BY <1>1, <1>2, <2>1, <2>2, <2>3 DEF TypeOK
<1>4. CallInv'
    <2>1. calls' \notin Endings BY CallFacts DEF Endings, Reasons
    <2> QED BY <2>1 DEF CallInv, Live
<1>5. StateInv' BY <1>1, <1>2 DEF StateInv, Live
<1>6. ToldInv'
    <2>1. calls' # ErrorEnd /\ calls' # ClosedEnd BY CallFacts DEF Reasons
    <2> QED BY <1>1, <1>2, <2>1 DEF ToldInv, Live
<1>7. ReportInv' BY DEF ReportInv, Live
<1>8. BoxInv' BY <1>1, <1>2 DEF BoxInv, Live
<1>9. WebsocketCurrent' /\ NoReadAfterFree'
    BY <1>1, <1>2 DEF WebsocketCurrent, NoReadAfterFree, Live
<1> QED BY <1>3, <1>4, <1>5, <1>6, <1>7, <1>8, <1>9 DEF Inv

(* The calls that begin and end a connect, and the return from a redirect.   *)
LEMMA ConnectingStep == ASSUME Inv, Connecting PROVE Inv'
<1>1. /\ TypeOK /\ CallInv /\ StateInv /\ ToldInv /\ ReportInv /\ BoxInv /\ WebsocketCurrent
      /\ NoReadAfterFree
    BY DEF Inv
<1>2. CASE ConnectCall
    <2>1. /\ ctx = "pending" /\ ctx' = "call" /\ suppress' = TRUE /\ lrs' = "waiting_dns"
          /\ timeout' = "holding_ah"
          /\ UNCHANGED <<results, sock, sul, sent, ssl, cce, redirects, opaque, pollout, quiet,
                         callVars, clientVars, deinitVars, historyVars>>
        BY <1>2 DEF ConnectCall, HoldingAh
    <2>2. UNCHANGED <<calls, entered, user, marker, websocket, wasConnected, connectionError,
                      tasks, timer, owned, deinit, held, box, returned, informed, misread>>
        BY <2>1 DEF callVars, clientVars, deinitVars, historyVars
    <2>3. lrs = "none" /\ calls = <<>> BY <1>1, <2>1 DEF StateInv, CallInv
    <2>4. TypeOK' BY <1>1, <2>1, <2>2 DEF TypeOK, Busy
    <2>5. CallInv'
        <3>1. <<>> \notin Endings BY CallFacts DEF Endings
        <3> QED BY <2>1, <2>2, <2>3, <3>1, CallFacts DEF CallInv, Reasons
    <2>6. StateInv' BY <1>1, <2>1, <2>2, <2>3 DEF StateInv
    <2>7. ToldInv'
        <3>1. calls' \notin {ErrorEnd, ClosedEnd} BY <2>2, <2>3, CallFacts
        <3> QED BY <1>1, <2>1, <2>2, <2>3, <3>1 DEF ToldInv
    <2>8. ReportInv' /\ WebsocketCurrent' /\ NoReadAfterFree'
        BY <1>1, <2>1, <2>2 DEF ReportInv, WebsocketCurrent, NoReadAfterFree
    <2>9. BoxInv' BY <1>1, <2>1, <2>2, <2>3 DEF BoxInv, StateInv
    <2> QED BY <2>4, <2>5, <2>6, <2>7, <2>8, <2>9 DEF Inv
<1>3. CASE ConnectRefused
    <2>1. /\ ctx = "pending" /\ ctx' = "service" /\ lrs' = "freed" /\ returned' = "null"
          /\ tasks' = tasks + 1
          /\ UNCHANGED <<netVars, ssl, cce, suppress, redirects, opaque, pollout, quiet,
                         callVars, websocket, wasConnected, connectionError, timer, owned,
                         deinitVars, informed, misread>>
        BY <1>3 DEF ConnectRefused
    <2>2. UNCHANGED <<results, sock, sul, timeout, sent, calls, entered, user, marker, deinit,
                      held, box>>
        BY <2>1 DEF netVars, callVars, deinitVars
    <2>3. lrs = "none" /\ calls = <<>> /\ ~websocket /\ informed = 0 /\ ~suppress
        BY <1>1, <2>1 DEF StateInv, CallInv, ToldInv
    <2>4. TypeOK' BY <1>1, <2>1, <2>2 DEF TypeOK
    <2>5. CallInv'
        <3>1. <<>> \notin Endings BY CallFacts DEF Endings
        <3> QED BY <2>1, <2>2, <2>3, <3>1, CallFacts DEF CallInv, Reasons
    <2>6. StateInv' BY <1>1, <2>1, <2>2, <2>3 DEF StateInv
    <2>7. ToldInv' BY <2>1, <2>3 DEF ToldInv
    <2>8. ReportInv' /\ WebsocketCurrent' /\ NoReadAfterFree'
        BY <1>1, <2>1, <2>2, <2>3 DEF ReportInv, WebsocketCurrent, NoReadAfterFree
    <2>9. BoxInv' BY <1>1, <2>1, <2>2, <2>3 DEF BoxInv, StateInv
    <2> QED BY <2>4, <2>5, <2>6, <2>7, <2>8, <2>9 DEF Inv
<1>4. CASE CallReturns
    <2>1. /\ ctx \in {"call", "call_hs"} /\ calls = <<>> /\ lrs \in Rest \cup {"freed"}
          /\ returned' = IF lrs # "freed" THEN "wsi"
                         ELSE IF ctx = "call_hs" THEN "freed" ELSE "null"
          /\ websocket' = (returned' # "null")
          /\ tasks' = IF returned' = "null" THEN tasks + 1 ELSE tasks
          /\ ctx' = "service" /\ suppress' = FALSE
          /\ UNCHANGED <<lrs, netVars, ssl, cce, redirects, opaque, pollout, quiet, callVars,
                         wasConnected, connectionError, timer, owned, deinitVars, informed,
                         misread>>
        BY <1>4 DEF CallReturns, Unsuppressed
    <2>2. UNCHANGED <<results, sock, sul, timeout, sent, calls, entered, user, marker, deinit,
                      held, box>>
        BY <2>1 DEF netVars, callVars, deinitVars
    <2>3. /\ lrs # "freed" => returned' = "wsi"
          /\ (lrs = "freed" /\ ctx = "call_hs") => returned' = "freed"
          /\ (lrs = "freed" /\ ctx = "call") => returned' = "null"
        BY <2>1
    <2>4. TypeOK'
        <3>1. tasks' \in Nat BY <1>1, <2>1 DEF TypeOK
        <3>2. returned' \in {"none", "wsi", "null", "freed"} BY <2>1
        <3>3. websocket' \in BOOLEAN BY <2>1
        <3>4. /\ lrs' \in {"none", "freed"} \cup Rest \cup Busy /\ ctx' = "service"
              /\ suppress' \in BOOLEAN
            BY <1>1, <2>1 DEF TypeOK
        <3> QED BY <1>1, <2>1, <2>2, <3>1, <3>2, <3>3, <3>4 DEF TypeOK
    <2>5. CallInv'
        <3>1. <<>> \notin Endings BY CallFacts DEF Endings
        <3> QED BY <1>1, <2>1, <2>2, <3>1, CallFacts DEF CallInv, Reasons
    <2>6. StateInv'
        <3>1. lrs # "none" BY <1>1, <2>1 DEF StateInv
        <3> QED BY <1>1, <2>1, <2>2, <3>1 DEF StateInv
    <2>7. ToldInv' BY <1>1, <2>1, <2>2 DEF ToldInv
    <2>8. ReportInv'
        <3>1. ctx = "call_hs" => quiet BY <1>1 DEF StateInv
        <3>2. lrs # "dead" BY <2>1 DEF Rest
        <3> QED BY <2>1, <2>3, <3>1, <3>2 DEF ReportInv
    <2>9. WebsocketCurrent' /\ NoReadAfterFree'
        BY <1>1, <2>1, <2>3 DEF WebsocketCurrent, NoReadAfterFree
    <2>10. BoxInv'
        <3>1. returned' # "none" BY <2>1
        <3>2. ~websocket' => lrs = "freed" BY <2>1
        <3> QED BY <1>1, <2>1, <2>2, <3>1, <3>2 DEF BoxInv
    <2> QED BY <2>4, <2>5, <2>6, <2>7, <2>8, <2>9, <2>10 DEF Inv
<1>5. CASE RedirectReturns
    <2>1. /\ ctx = "redirect" /\ calls = <<>> /\ lrs \in Rest \cup {"freed"}
          /\ ctx' = "service" /\ opaque' = (lrs # "freed")
          /\ UNCHANGED <<lrs, netVars, ssl, cce, suppress, redirects, pollout, quiet, callVars,
                         clientVars, deinitVars, historyVars>>
        BY <1>5 DEF RedirectReturns
    <2>2. UNCHANGED <<results, sock, sul, timeout, sent, calls, entered, user, marker, websocket,
                      wasConnected, connectionError, tasks, timer, owned, deinit, held, box,
                      returned, informed, misread>>
        BY <2>1 DEF netVars, callVars, clientVars, deinitVars, historyVars
    <2>3. lrs # "none" /\ lrs # "dead" BY <1>1, <2>1 DEF StateInv, Rest
    <2>4. TypeOK'
        <3>1. opaque' \in BOOLEAN BY <2>1
        <3> QED BY <1>1, <2>1, <2>2, <3>1 DEF TypeOK
    <2>5. CallInv'
        <3>1. <<>> \notin Endings BY CallFacts DEF Endings
        <3> QED BY <1>1, <2>1, <2>2, <3>1, CallFacts DEF CallInv, Reasons
    <2>6. StateInv' BY <1>1, <2>1, <2>2, <2>3 DEF StateInv
    <2>7. ToldInv' BY <1>1, <2>1, <2>2 DEF ToldInv
    <2>8. ReportInv' BY <2>1, <2>3 DEF ReportInv
    <2>9. WebsocketCurrent' /\ NoReadAfterFree'
        BY <1>1, <2>1, <2>2 DEF WebsocketCurrent, NoReadAfterFree
    <2>10. BoxInv' BY <1>1, <2>1, <2>2 DEF BoxInv
    <2> QED BY <2>4, <2>5, <2>6, <2>7, <2>8, <2>9, <2>10 DEF Inv
<1> QED BY <1>2, <1>3, <1>4, <1>5 DEF Connecting

(* Addresses, attempts, TLS and the reply: the steps that go on.             *)
LEMMA AttemptingStep ==
    ASSUME Inv,
           \/ Attempting \/ AttemptTimeout \/ SocketSettles \/ Tls \/ BadReply \/ Upgraded
           \/ Redirected \/ HupClose \/ Timeout \/ ConnectionEnds \/ Pollout
    PROVE  Inv'
<1>1. /\ TypeOK /\ CallInv /\ StateInv /\ NoReadAfterFree BY DEF Inv
<1>2. maxResults \in Nat /\ maxRedirects \in Nat BY ConnectAssumption
<1>3. ASSUME lrs \in Live, lrs # "established" PROVE
        /\ calls = <<>> \/ calls = <<"APPEND">>
    BY <1>1, <1>3, CallFacts DEF CallInv, Live, Endings
<1>4. ASSUME NEW informs \in BOOLEAN, NEW supp \in {FALSE, suppress}, End(informs, supp),
             lrs \in Live,
             UNCHANGED <<sent, ssl, redirects, opaque, user, marker, clientVars, deinitVars,
                         historyVars, ctx>>,
             pollout' \in BOOLEAN, quiet' \in BOOLEAN, quiet => quiet',
             informs \/ quiet' \/ wasConnected
               \/ lrs \notin {"issue_handshake", "waiting_reply", "established"}
      PROVE  Inv'
    <2>1. UNCHANGED <<returned, informed, misread>> BY <1>4 DEF historyVars
    <2>2. misread' \subseteq {"fresh", "raced"} /\ "fresh" \notin misread'
        BY <1>1, <2>1 DEF TypeOK, NoReadAfterFree
    <2> QED BY <1>4, <2>1, <2>2, EndStep
<1>5. /\ results \in 0..maxResults /\ sock \in {"none", "connecting", "connected", "failed"}
      /\ sul \in {"off", "dns_retry", "conn_wait"}
      /\ timeout \in {"none", "holding_ah", "connect", "handshake", "reply"}
      /\ {sent, ssl, opaque, pollout, quiet} \subseteq BOOLEAN /\ redirects \in 0..maxRedirects
    BY <1>1 DEF TypeOK
<1>6. ASSUME lrs \in Live, lrs' \in Live \ {"established"}, sul' = "off" \/ sul' = sul,
             calls = <<>>, calls' = <<>>,
             results' \in 0..maxResults, sock' \in {"none", "connecting", "connected", "failed"},
             timeout' \in {"none", "holding_ah", "connect", "handshake", "reply"},
             UNCHANGED <<sent, cce, suppress, entered, Stay>>,
             sul' = "dns_retry" => lrs' = "unconnected",
             sul' = "conn_wait" => lrs' = "waiting_connect"
      PROVE  Inv'
    <2>1. /\ UNCHANGED <<ssl, redirects, opaque, ctx, pollout, quiet, user, marker, clientVars,
                         deinitVars, historyVars>>
        BY <1>6 DEF Stay
    <2>2. /\ {sent', ssl', opaque', pollout'} \subseteq BOOLEAN /\ redirects' \in 0..maxRedirects
          /\ sul' \in {"off", "dns_retry", "conn_wait"}
        BY <1>5, <1>6, <2>1
    <2>3. <<>> \notin {<<"APPEND">>, <<"ESTABLISHED">>, <<"WRITEABLE">>} OBVIOUS
    <2> QED BY <1>6, <2>1, <2>2, <2>3, MoveStep
<1>7. ASSUME lrs \in {"waiting_dns", "next_result", "unconnected", "waiting_connect",
                      "waiting_reply"}
      PROVE  lrs \in Live /\ calls = <<>> /\ (sul = "dns_retry" => lrs = "unconnected")
             /\ (sul = "conn_wait" => lrs = "waiting_connect")
    BY <1>1, <1>3, <1>7, CallFacts DEF Live, CallInv, StateInv
<1>8. ASSUME UNCHANGED Stay
      PROVE  /\ UNCHANGED <<ssl, redirects, opaque, ctx, pollout, quiet, user, marker, clientVars,
                            deinitVars, historyVars>>
             /\ pollout' \in BOOLEAN /\ quiet' \in BOOLEAN /\ (quiet => quiet')
    BY <1>5, <1>8 DEF Stay
<1>9. CASE DnsFound
    <2>1. /\ lrs = "waiting_dns" /\ lrs' = "next_result" /\ results' \in 0..maxResults
          /\ UNCHANGED <<sock, sul, timeout, sent, cce, suppress, calls, entered, Stay>>
        BY <1>9 DEF DnsFound
    <2>2. sul' \in {"off", "dns_retry", "conn_wait"} /\ sul' = "off" BY <1>5, <1>7, <2>1
    <2>3. results' \in 0..maxResults BY <1>2, <2>1
    <2>4. lrs' \in Live \ {"established"} BY <2>1 DEF Live
    <2> QED BY <1>5, <1>6, <1>7, <2>1, <2>2, <2>3, <2>4
<1>10. CASE DnsNoName
    <2>1. lrs = "waiting_dns" /\ End(TRUE, FALSE) /\ UNCHANGED <<sent, Stay>>
        BY <1>10 DEF DnsNoName
    <2>2. lrs \in Live BY <1>7, <2>1
    <2>3. UNCHANGED Stay BY <2>1
    <2>4. /\ UNCHANGED <<ssl, redirects, opaque, ctx, pollout, quiet, user, marker, clientVars,
                         deinitVars, historyVars>>
          /\ pollout' \in BOOLEAN /\ quiet' \in BOOLEAN /\ (quiet => quiet')
        BY <1>8, <2>3
    <2> QED BY <1>4, <2>1, <2>2, <2>4
<1>11. CASE DnsFails
    <2>1. /\ lrs = "waiting_dns" /\ lrs' = "unconnected" /\ sul' = "dns_retry"
          /\ UNCHANGED <<results, sock, timeout, sent, cce, suppress, calls, entered, Stay>>
        BY <1>11 DEF DnsFails
    <2>2. /\ {sent', ssl', opaque', pollout'} \subseteq BOOLEAN /\ redirects' \in 0..maxRedirects
        BY <1>5, <1>8, <2>1
    <2>3. lrs' \in Live /\ calls' = <<>> /\ lrs \in Live BY <1>7, <2>1 DEF Live
    <2>4. <<>> \notin {<<"APPEND">>, <<"ESTABLISHED">>, <<"WRITEABLE">>} OBVIOUS
    <2> QED BY <1>5, <1>8, <2>1, <2>2, <2>3, <2>4, MoveStep
<1>12. CASE DnsRetry
    <2>1. /\ sul = "dns_retry" /\ sul' = "off" /\ lrs' = "waiting_dns"
          /\ UNCHANGED <<results, sock, timeout, sent, cce, suppress, calls, entered, Stay>>
        BY <1>12 DEF DnsRetry
    <2>2. lrs = "unconnected" BY <1>1, <2>1 DEF StateInv
    <2>3. lrs' \in Live \ {"established"} BY <2>1 DEF Live
    <2> QED BY <1>5, <1>6, <1>7, <2>1, <2>2, <2>3
<1>13. ASSUME NEW s \in {"none", "connecting", "connected", "failed"}, ConnGood(s),
              lrs \in {"next_result", "waiting_connect"}, UNCHANGED Stay
       PROVE  Inv'
    <2>1. /\ sul' = "off" /\ results' = 0 /\ sock' = s
          /\ lrs' = "issue_handshake" /\ timeout' = "handshake"
          /\ UNCHANGED <<sent, cce, suppress, calls, entered>>
        BY <1>13 DEF ConnGood
    <2>2. lrs' \in Live \ {"established"} /\ results' \in 0..maxResults
        BY <1>2, <2>1 DEF Live
    <2> QED BY <1>5, <1>6, <1>7, <1>13, <2>1, <2>2
<1>14. CASE TryNext
    <2>0. lrs = "next_result" /\ UNCHANGED Stay BY <1>14 DEF TryNext
    <2>1. CASE End(TRUE, suppress) /\ UNCHANGED sent
        <3>1. lrs \in Live BY <1>7, <2>0
        <3>2. /\ UNCHANGED <<ssl, redirects, opaque, ctx, pollout, quiet, user, marker, clientVars,
                             deinitVars, historyVars>>
              /\ pollout' \in BOOLEAN /\ quiet' \in BOOLEAN /\ (quiet => quiet')
            BY <1>8, <2>0
        <3> QED BY <1>4, <2>1, <3>1, <3>2
    <2>2. CASE /\ ~NoMore
               /\ lrs' = "waiting_connect" /\ results' = results - 1 /\ sock' = "connecting"
               /\ sul' = "conn_wait" /\ timeout' = "connect"
               /\ UNCHANGED <<sent, cce, suppress, calls, entered>>
        <3>1. results' \in 0..maxResults BY <1>2, <1>5, <2>2 DEF NoMore
        <3>2. /\ {sent', ssl', opaque', pollout'} \subseteq BOOLEAN
              /\ redirects' \in 0..maxRedirects
            BY <1>5, <1>8, <2>0, <2>2
        <3>3. lrs' \in Live /\ calls' = <<>> /\ lrs \in Live BY <1>7, <2>0, <2>2 DEF Live
        <3>4. <<>> \notin {<<"APPEND">>, <<"ESTABLISHED">>, <<"WRITEABLE">>} OBVIOUS
        <3> QED BY <1>5, <1>8, <2>0, <2>2, <3>1, <3>2, <3>3, <3>4, MoveStep
    <2>3. CASE ConnGood("connected") BY <1>13, <2>0, <2>3
    <2>4. CASE /\ ~NoMore
               /\ results' = results - 1 /\ timeout' \in {timeout, "connect"}
               /\ UNCHANGED <<lrs, sock, sul, sent, cce, suppress, calls, entered>>
        <3>1. results' \in 0..maxResults BY <1>2, <1>5, <2>4 DEF NoMore
        <3>2. lrs' \in Live \ {"established"} BY <2>0, <2>4 DEF Live
        <3> QED BY <1>5, <1>6, <1>7, <2>0, <2>4, <3>1, <3>2
    <2> QED BY <1>14, <2>1, <2>2, <2>3, <2>4 DEF TryNext
<1>15. ASSUME NextAddress, lrs = "waiting_connect", UNCHANGED Stay PROVE Inv'
    <2>1. /\ lrs' = "next_result" /\ sul' = "off" /\ sock' = "none"
          /\ UNCHANGED <<results, timeout, sent, cce, suppress, calls, entered>>
        BY <1>15 DEF NextAddress
    <2>2. lrs' \in Live \ {"established"} BY <2>1 DEF Live
    <2> QED BY <1>5, <1>6, <1>7, <1>15, <2>1, <2>2
<1>16. CASE PolloutConnect BY <1>13, <1>15, <1>16 DEF PolloutConnect
<1>17. CASE AttemptTimeout
    <2>1. /\ sul = "conn_wait" /\ UNCHANGED Stay
          /\ NextAddress \/ ConnGood(sock)
        BY <1>17 DEF AttemptTimeout
    <2>2. lrs = "waiting_connect" BY <1>1, <2>1 DEF StateInv
    <2> QED BY <1>5, <1>13, <1>15, <2>1, <2>2
<1>18. CASE SocketSettles
    <2>1. /\ sock' \in {"connected", "failed"}
          /\ UNCHANGED <<lrs, results, sul, timeout, sent, cce, suppress, calls, entered, Stay>>
        BY <1>18 DEF SocketSettles
    <2>2. UNCHANGED <<ssl, redirects, opaque, ctx, pollout, quiet, user, marker, websocket,
                      wasConnected, connectionError, tasks, timer, owned, deinit, held, box,
                      returned, informed, misread>>
        BY <2>1 DEF Stay, clientVars, deinitVars, historyVars
    <2>3. TypeOK' BY <1>1, <2>1, <2>2 DEF TypeOK
    <2>4. CallInv' /\ StateInv' /\ ToldInv' BY <2>1, <2>2 DEF Inv, CallInv, StateInv, ToldInv
    <2>5. ReportInv' /\ BoxInv' BY <2>1, <2>2 DEF Inv, ReportInv, BoxInv
    <2>6. WebsocketCurrent' /\ NoReadAfterFree'
        BY <2>1, <2>2 DEF Inv, WebsocketCurrent, NoReadAfterFree
    <2> QED BY <2>3, <2>4, <2>5, <2>6 DEF Inv
<1>19. CASE Tls
    <2>1. /\ calls = <<>>
          /\ lrs = "issue_handshake" \/ (lrs = "waiting_ssl" /\ ctx = "service")
          /\ pollout' = (pollout /\ lrs # "issue_handshake")
          /\ UNCHANGED <<ssl, redirects, opaque, ctx, quiet, user, marker, clientVars, deinitVars,
                         historyVars>>
        BY <1>19 DEF Tls, Idle
    <2>2. lrs \in Live /\ sul = "off" BY <1>1, <1>5, <2>1 DEF Live, StateInv
    <2>3. pollout' \in BOOLEAN /\ quiet' \in BOOLEAN BY <1>5, <2>1
    <2>4. CASE End(TRUE, suppress) /\ UNCHANGED sent BY <1>4, <2>1, <2>2, <2>3, <2>4
    <2>5. CASE lrs' = "waiting_ssl" /\ UNCHANGED <<netVars, cce, suppress, calls, entered>>
        <3>1. UNCHANGED <<results, sock, sul, timeout, sent>> BY <2>5 DEF netVars
        <3>2. /\ {sent', ssl', opaque', pollout'} \subseteq BOOLEAN
              /\ redirects' \in 0..maxRedirects
            BY <1>5, <2>1, <2>3, <3>1
        <3>3. lrs' \in Live /\ calls' = <<>> BY <2>1, <2>5 DEF Live
        <3>4. <<>> \notin {<<"APPEND">>, <<"ESTABLISHED">>, <<"WRITEABLE">>} OBVIOUS
        <3> QED BY <1>5, <2>1, <2>2, <2>5, <3>1, <3>2, <3>3, <3>4, MoveStep
    <2>6. CASE calls' = <<"APPEND">> /\ UNCHANGED <<lrs, netVars, cce, suppress, entered>>
        <3>1. UNCHANGED <<results, sock, sul, timeout, sent>> BY <2>6 DEF netVars
        <3>2. /\ {sent', ssl', opaque', pollout'} \subseteq BOOLEAN
              /\ redirects' \in 0..maxRedirects
            BY <1>5, <2>1, <2>3, <3>1
        <3>3. calls' \notin {<<"ESTABLISHED">>, <<"WRITEABLE">>} BY <2>6, CallFacts
        <3> QED BY <1>5, <2>1, <2>2, <2>6, <3>1, <3>2, <3>3, MoveStep
    <2> QED BY <1>19, <2>4, <2>5, <2>6 DEF Tls
<1>20. CASE BadReply
    <2>1. lrs = "waiting_reply" /\ End(TRUE, FALSE) /\ UNCHANGED <<sent, Stay>>
        BY <1>20 DEF BadReply
    <2>2. lrs \in Live BY <1>7, <2>1
    <2>3. UNCHANGED Stay BY <2>1
    <2>4. /\ UNCHANGED <<ssl, redirects, opaque, ctx, pollout, quiet, user, marker, clientVars,
                         deinitVars, historyVars>>
          /\ pollout' \in BOOLEAN /\ quiet' \in BOOLEAN /\ (quiet => quiet')
        BY <1>8, <2>3
    <2> QED BY <1>4, <2>1, <2>2, <2>4
<1>21. CASE Upgraded
    <2>1. /\ lrs = "waiting_reply" /\ lrs' = "established" /\ timeout' = "none"
          /\ calls' = <<"ESTABLISHED">>
          /\ UNCHANGED <<results, sock, sul, sent, cce, suppress, entered, Stay>>
        BY <1>21 DEF Upgraded
    <2>2. lrs \in Live /\ lrs' \in Live /\ sul = "off" BY <1>1, <1>5, <2>1 DEF Live, StateInv
    <2>3. /\ {sent', ssl', opaque', pollout'} \subseteq BOOLEAN /\ redirects' \in 0..maxRedirects
        BY <1>5, <1>8, <2>1
    <2>4. calls' # <<"APPEND">> BY <2>1, CallFacts
    <2> QED BY <1>5, <1>8, <2>1, <2>2, <2>3, <2>4, MoveStep
<1>22. CASE Redirected
    <2>0. /\ Idle /\ lrs = "waiting_reply"
          /\ UNCHANGED <<quiet, user, marker, clientVars, deinitVars, historyVars>>
        BY <1>22 DEF Redirected
    <2>1. CASE End(TRUE, FALSE) /\ UNCHANGED <<sent, ssl, redirects, opaque, ctx, pollout>>
        BY <1>4, <1>5, <1>7, <2>0, <2>1
    <2>2. CASE \E s \in BOOLEAN :
            /\ redirects < maxRedirects
            /\ ssl' = s /\ redirects' = redirects + 1
            /\ opaque' = FALSE /\ ctx' = "redirect" /\ pollout' = FALSE
            /\ lrs' = "waiting_dns" /\ timeout' = HoldingAh /\ sock' = "none" /\ sent' = FALSE
            /\ UNCHANGED <<results, sul, cce, suppress, calls, entered>>
        <3>1. lrs \in Live /\ lrs' \in Live /\ calls' = <<>> /\ sul = "off"
            BY <1>1, <1>5, <1>7, <2>0, <2>2 DEF Live, StateInv
        <3>2. redirects' \in 0..maxRedirects BY <1>2, <1>5, <2>2
        <3>3. {sent', ssl', opaque', pollout'} \subseteq BOOLEAN BY <2>2
        <3>4. timeout' = "holding_ah" BY <2>2 DEF HoldingAh
        <3>5. ~suppress BY <1>1, <2>0 DEF StateInv, Idle
        <3>6. <<>> \notin {<<"APPEND">>, <<"ESTABLISHED">>, <<"WRITEABLE">>} OBVIOUS
        <3>7. /\ opaque' = FALSE /\ ctx' = "redirect" /\ lrs' = "waiting_dns" /\ sock' = "none"
              /\ UNCHANGED <<results, sul, cce, suppress, calls, entered>>
            BY <2>2
        <3> QED BY <1>5, <2>0, <3>1, <3>2, <3>3, <3>4, <3>5, <3>6, <3>7, MoveStep
    <2> QED BY <1>22, <2>1, <2>2 DEF Redirected
<1>23. CASE HupClose
    <2>1. /\ lrs \in {"waiting_connect", "waiting_ssl", "waiting_reply"}
          /\ quiet' = (quiet \/ lrs = "waiting_reply")
          /\ End(FALSE, FALSE)
          /\ UNCHANGED <<sent, ssl, redirects, opaque, ctx, pollout, user, marker, clientVars,
                         deinitVars, historyVars>>
        BY <1>23 DEF HupClose
    <2>2. lrs \in Live /\ quiet' \in BOOLEAN /\ (quiet => quiet') /\ pollout' \in BOOLEAN
        BY <1>5, <2>1 DEF Live
    <2>3. quiet' \/ lrs \notin {"issue_handshake", "waiting_reply", "established"} BY <2>1
    <2> QED BY <1>4, <2>1, <2>2, <2>3
<1>24. CASE Timeout
    <2>1. /\ lrs \in {"unconnected", "waiting_ssl", "waiting_reply"}
          /\ End(lrs # "unconnected", FALSE) /\ UNCHANGED <<sent, Stay>>
        BY <1>24 DEF Timeout
    <2> DEFINE informs == lrs # "unconnected"
    <2>2. informs \in BOOLEAN /\ lrs \in Live BY <2>1 DEF Live
    <2>3. informs \/ lrs \notin {"issue_handshake", "waiting_reply", "established"} OBVIOUS
    <2>4. End(informs, FALSE) BY <2>1
    <2> HIDE DEF informs
    <2>5. /\ UNCHANGED <<ssl, redirects, opaque, ctx, pollout, quiet, user, marker, clientVars,
                         deinitVars, historyVars>>
          /\ pollout' \in BOOLEAN /\ quiet' \in BOOLEAN /\ (quiet => quiet')
        BY <1>8, <2>1
    <2>6. UNCHANGED sent BY <2>1
    <2> QED BY <1>4, <2>2, <2>3, <2>4, <2>5, <2>6
<1>25. CASE ConnectionEnds
    <2>1. calls = <<>> /\ lrs = "established" /\ End(FALSE, FALSE) /\ UNCHANGED <<sent, Stay>>
        BY <1>25 DEF ConnectionEnds, Idle
    <2>2. wasConnected /\ lrs \in Live BY <1>1, <2>1, CallFacts DEF StateInv, Live
    <2>3. /\ UNCHANGED <<ssl, redirects, opaque, ctx, pollout, quiet, user, marker, clientVars,
                         deinitVars, historyVars>>
          /\ pollout' \in BOOLEAN /\ quiet' \in BOOLEAN /\ (quiet => quiet')
        BY <1>8, <2>1
    <2> QED BY <1>4, <2>1, <2>2, <2>3
<1>26. CASE Pollout
    <2>1. /\ calls = <<>> /\ lrs \in {"waiting_ssl", "waiting_reply", "established"}
          /\ pollout' = FALSE
          /\ calls' = IF lrs = "established" THEN <<"WRITEABLE">> ELSE <<>>
          /\ UNCHANGED <<lrs, netVars, ssl, cce, suppress, redirects, opaque, ctx, quiet, entered,
                         user, marker, clientVars, deinitVars, historyVars>>
        BY <1>26 DEF Pollout, Idle
    <2>2. UNCHANGED <<results, sock, sul, timeout, sent>> BY <2>1 DEF netVars
    <2>3. {sent', ssl', opaque', pollout'} \subseteq BOOLEAN BY <1>5, <2>1, <2>2
    <2>4. lrs \in Live /\ lrs' \in Live BY <2>1 DEF Live
    <2>5. <<>> # <<"ESTABLISHED">> /\ <<>> # <<"APPEND">> /\ <<>> # <<"WRITEABLE">> OBVIOUS
    <2>6. calls' # <<"APPEND">> /\ calls' # <<"ESTABLISHED">> BY <2>1, <2>5, CallFacts
    <2>7. /\ lrs' = "established" => wasConnected
          /\ sul = "off"
        BY <1>1, <1>5, <2>1, <2>5 DEF StateInv
    <2>8. calls' = <<"WRITEABLE">> => lrs' = "established" BY <2>1, <2>5
    <2> QED BY <1>5, <2>1, <2>2, <2>3, <2>4, <2>6, <2>7, <2>8, MoveStep
<1> QED BY <1>9, <1>10, <1>11, <1>12, <1>14, <1>16, <1>17, <1>18, <1>19, <1>20, <1>21, <1>22,
           <1>23, <1>24, <1>25, <1>26
        DEF Attempting


(* A callback that began after the marker was queued does not reach the box  *)
(* that deinit has freed.                                                    *)
LEMMA BodyReads ==
    ASSUME Inv, NEW reason, Body(reason)
    PROVE  /\ misread' \subseteq {"fresh", "raced"} /\ "fresh" \notin misread'
           /\ calls # <<>> /\ Head(calls) = reason /\ lrs \in Live \cup {"dead"}
<1>1. TypeOK /\ CallInv /\ BoxInv /\ NoReadAfterFree BY DEF Inv
<1>2. /\ calls # <<>> /\ Head(calls) = reason /\ entered # "no"
      /\ misread' = IF Reads /\ ~box THEN misread \cup {entered} ELSE misread
    BY DEF Body
<1>3. lrs \in Live \cup {"dead"} BY <1>1, <1>2, CallsAlive
<1>4. misread \subseteq {"fresh", "raced"} /\ "fresh" \notin misread
    BY <1>1 DEF TypeOK, NoReadAfterFree
<1>5. ASSUME Reads, ~box PROVE entered = "raced"
    <2>1. deinit = "done" /\ user # "closed" BY <1>1, <1>5 DEF BoxInv, Reads
    <2>2. held
        <3>1. lrs # "freed" BY <1>3 DEF Live
        <3> QED BY <1>1, <2>1, <3>1 DEF BoxInv
    <2>3. entered # "fresh" BY <1>1, <2>1, <2>2 DEF BoxInv
    <2> QED BY <1>1, <1>2, <2>3 DEF TypeOK
<1> QED BY <1>2, <1>3, <1>4, <1>5

(* Which callbacks those are that a given body is the first of.              *)
LEMMA FirstCall ==
    ASSUME CallInv, NEW reason, calls # <<>>, Head(calls) = reason
    PROVE  /\ reason = "APPEND" => calls = <<"APPEND">> /\ Tail(calls) = <<>>
           /\ reason = "ESTABLISHED" => calls = <<"ESTABLISHED">> /\ Tail(calls) = <<>>
           /\ reason = "WRITEABLE" => calls = <<"WRITEABLE">> /\ Tail(calls) = <<>>
           /\ reason = "ERROR" => calls = ErrorEnd /\ Tail(calls) = SilentEnd
           /\ reason = "CLOSED" => calls = ClosedEnd /\ Tail(calls) = SilentEnd
           /\ reason = "DESTROY" => calls = SilentEnd /\ Tail(calls) = <<>>
<1>1. \/ calls = <<"APPEND">> \/ calls = <<"ESTABLISHED">> \/ calls = <<"WRITEABLE">>
      \/ calls = ErrorEnd \/ calls = ClosedEnd \/ calls = SilentEnd
    BY DEF CallInv, Endings
<1>2. /\ Head(<<"APPEND">>) = "APPEND" /\ Tail(<<"APPEND">>) = <<>>
      /\ Head(<<"ESTABLISHED">>) = "ESTABLISHED" /\ Tail(<<"ESTABLISHED">>) = <<>>
      /\ Head(<<"WRITEABLE">>) = "WRITEABLE" /\ Tail(<<"WRITEABLE">>) = <<>>
    BY CallFacts DEF Reasons
<1> QED BY <1>1, <1>2, CallFacts

(* APPEND_HANDSHAKE_HEADER: the request goes out, or the wsi ends unheard.   *)
LEMMA AppendStep == ASSUME Inv, AppendBody PROVE Inv'
<1>1. TypeOK /\ CallInv /\ StateInv /\ ToldInv /\ ReportInv /\ BoxInv BY DEF Inv
<1>2. Body("APPEND") BY DEF AppendBody
<1>3. /\ misread' \subseteq {"fresh", "raced"} /\ "fresh" \notin misread'
      /\ calls # <<>> /\ Head(calls) = "APPEND"
    BY <1>2, BodyReads
<1>4. calls = <<"APPEND">> /\ Tail(calls) = <<>> BY <1>1, <1>3, FirstCall
<1>5. /\ UNCHANGED <<ssl, redirects, opaque, user, marker, clientVars, deinitVars, returned,
                     informed>>
    BY DEF AppendBody
<1>6. lrs = "issue_handshake" \/ (lrs = "waiting_ssl" /\ ctx = "service")
    BY <1>1, <1>4 DEF CallInv
<1>7. lrs \in Live /\ sul = "off"
    BY <1>1, <1>6 DEF Live, StateInv, TypeOK
<1>8. pollout \in BOOLEAN /\ quiet \in BOOLEAN /\ sent \in BOOLEAN BY <1>1 DEF TypeOK
<1>9. CASE /\ lrs' = "waiting_reply" /\ timeout' = "reply" /\ sent' = (sock = "connected")
           /\ pollout' = TRUE /\ NextCall
           /\ UNCHANGED <<results, sock, sul, cce, suppress, ctx, quiet>>
    <2>1. calls' = <<>> /\ entered' = "no" BY <1>4, <1>9 DEF NextCall
    <2>2. UNCHANGED <<websocket, wasConnected, connectionError, tasks, timer, owned, deinit, held,
                      box>>
        BY <1>5 DEF clientVars, deinitVars
    <2>3. sent' \in BOOLEAN BY <1>9
    <2>4. TypeOK'
        <3>1. <<>> \in Seq(Reasons) /\ Len(<<>>) <= 2 OBVIOUS
        <3> QED BY <1>1, <1>3, <1>5, <1>9, <2>1, <2>2, <2>3, <3>1 DEF TypeOK, Rest
    <2>5. CallInv'
        <3>1. <<>> \notin Endings BY CallFacts DEF Endings
        <3> QED BY <1>9, <2>1, <3>1, CallFacts DEF CallInv, Reasons
    <2>6. StateInv' BY <1>1, <1>5, <1>6, <1>7, <1>9, <2>2 DEF StateInv
    <2>7. ToldInv'
        <3>1. calls' \notin {ErrorEnd, ClosedEnd} BY <2>1, CallFacts
        <3> QED BY <1>1, <1>5, <1>6, <1>9, <3>1 DEF ToldInv
    <2>8. ReportInv' /\ WebsocketCurrent' /\ NoReadAfterFree'
        BY <1>3, <1>9 DEF ReportInv, WebsocketCurrent, NoReadAfterFree
    <2>9. BoxInv' BY <1>1, <1>5, <1>6, <1>9, <2>1, <2>2 DEF BoxInv
    <2> QED BY <2>4, <2>5, <2>6, <2>7, <2>8, <2>9 DEF Inv
<1>10. CASE /\ quiet' = (quiet \/ lrs = "issue_handshake")
            /\ ctx' = IF ctx = "call" THEN "call_hs" ELSE ctx
            /\ End(FALSE, suppress) /\ UNCHANGED <<sent, pollout>>
    <2>1. quiet' \in BOOLEAN /\ (quiet => quiet') /\ pollout' \in BOOLEAN BY <1>8, <1>10
    <2>2. quiet' \/ lrs \notin {"issue_handshake", "waiting_reply", "established"}
        BY <1>6, <1>10
    <2>3. ctx' = ctx \/ (ctx = "call" /\ ctx' = "call_hs" /\ quiet') BY <1>6, <1>10
    <2>4. End(FALSE, suppress) /\ UNCHANGED sent BY <1>10
    <2> QED BY <1>3, <1>5, <1>7, <2>1, <2>2, <2>3, <2>4, EndStep
<1> QED BY <1>9, <1>10 DEF AppendBody

(* CLIENT_ESTABLISHED: the client is connected, or the wsi ends in an error. *)
LEMMA EstablishedStep == ASSUME Inv, EstablishedBody PROVE Inv'
<1>1. TypeOK /\ CallInv /\ StateInv /\ ToldInv /\ ReportInv /\ BoxInv BY DEF Inv
<1>2. Body("ESTABLISHED") BY DEF EstablishedBody
<1>3. /\ misread' \subseteq {"fresh", "raced"} /\ "fresh" \notin misread'
      /\ calls # <<>> /\ Head(calls) = "ESTABLISHED"
    BY <1>2, BodyReads
<1>4. calls = <<"ESTABLISHED">> /\ Tail(calls) = <<>> BY <1>1, <1>3, FirstCall
<1>5. UNCHANGED <<ssl, redirects, opaque, ctx, pollout, quiet, user, marker, websocket,
                  connectionError, timer, owned, deinitVars, returned, informed>>
    BY DEF EstablishedBody
<1>6. lrs = "established" /\ lrs \in Live BY <1>1, <1>4 DEF CallInv, Live
<1>7. pollout' \in BOOLEAN /\ quiet' \in BOOLEAN /\ (quiet => quiet')
    BY <1>1, <1>5 DEF TypeOK
<1>8. CASE /\ wasConnected' = TRUE /\ tasks' = tasks + 1 /\ NextCall
           /\ UNCHANGED <<lrs, netVars, cce, suppress>>
    <2>1. calls' = <<>> /\ entered' = "no" BY <1>4, <1>8 DEF NextCall
    <2>2. UNCHANGED <<results, sock, sul, timeout, sent, deinit, held, box>>
        BY <1>5, <1>8 DEF netVars, deinitVars
    <2>4. TypeOK'
        <3>1. <<>> \in Seq(Reasons) /\ Len(<<>>) <= 2 OBVIOUS
        <3> QED BY <1>1, <1>3, <1>5, <1>8, <2>1, <2>2, <3>1 DEF TypeOK
    <2>5. CallInv'
        <3>1. <<>> \notin Endings BY CallFacts DEF Endings
        <3> QED BY <1>6, <1>8, <2>1, <3>1, CallFacts DEF CallInv, Reasons
    <2>6. StateInv' BY <1>1, <1>5, <1>6, <1>8, <2>2 DEF StateInv
    <2>7. ToldInv'
        <3>1. calls' \notin {ErrorEnd, ClosedEnd} BY <2>1, CallFacts
        <3> QED BY <1>1, <1>5, <1>6, <1>8, <3>1 DEF ToldInv
    <2>8. ReportInv' /\ WebsocketCurrent' /\ NoReadAfterFree'
        BY <1>3, <1>6, <1>8 DEF ReportInv, WebsocketCurrent, NoReadAfterFree
    <2>9. BoxInv' BY <1>1, <1>5, <1>6, <1>8, <2>1, <2>2 DEF BoxInv
    <2> QED BY <2>4, <2>5, <2>6, <2>7, <2>8, <2>9 DEF Inv
<1>9. CASE End(TRUE, FALSE) /\ UNCHANGED <<sent, wasConnected, tasks>>
    <2>1. UNCHANGED clientVars BY <1>5, <1>9 DEF clientVars
    <2> QED BY <1>3, <1>5, <1>6, <1>7, <1>9, <2>1, EndStep
<1> QED BY <1>8, <1>9 DEF EstablishedBody

(* CLIENT_WRITEABLE on an established connection, which ends if there is no  *)
(* client.                                                                   *)
LEMMA WriteableStep == ASSUME Inv, WriteableBody PROVE Inv'
<1>1. TypeOK /\ CallInv /\ StateInv /\ ToldInv /\ ReportInv /\ BoxInv BY DEF Inv
<1>2. Body("WRITEABLE") BY DEF WriteableBody
<1>3. /\ misread' \subseteq {"fresh", "raced"} /\ "fresh" \notin misread'
      /\ calls # <<>> /\ Head(calls) = "WRITEABLE"
    BY <1>2, BodyReads
<1>4. calls = <<"WRITEABLE">> /\ Tail(calls) = <<>> BY <1>1, <1>3, FirstCall
<1>5. UNCHANGED <<ssl, redirects, opaque, ctx, pollout, quiet, user, marker, clientVars,
                  deinitVars, returned, informed>>
    BY DEF WriteableBody
<1>6. lrs = "established" /\ lrs \in Live /\ wasConnected
    BY <1>1, <1>4, CallFacts DEF CallInv, StateInv, Live
<1>7. pollout' \in BOOLEAN /\ quiet' \in BOOLEAN /\ (quiet => quiet')
    BY <1>1, <1>5 DEF TypeOK
<1>8. CASE NextCall /\ UNCHANGED <<lrs, netVars, cce, suppress>>
    <2>1. calls' = <<>> /\ entered' = "no" BY <1>4, <1>8 DEF NextCall
    <2>2. UNCHANGED <<results, sock, sul, timeout, sent, websocket, wasConnected, connectionError,
                      tasks, timer, owned, deinit, held, box>>
        BY <1>5, <1>8 DEF netVars, clientVars, deinitVars
    <2>4. TypeOK'
        <3>1. <<>> \in Seq(Reasons) /\ Len(<<>>) <= 2 OBVIOUS
        <3> QED BY <1>1, <1>3, <1>5, <1>8, <2>1, <2>2, <3>1 DEF TypeOK
    <2>5. CallInv'
        <3>1. <<>> \notin Endings BY CallFacts DEF Endings
        <3> QED BY <1>6, <1>8, <2>1, <3>1, CallFacts DEF CallInv, Reasons
    <2>6. StateInv' BY <1>1, <1>5, <1>6, <1>8, <2>2 DEF StateInv
    <2>7. ToldInv'
        <3>1. calls' \notin {ErrorEnd, ClosedEnd} BY <2>1, CallFacts
        <3> QED BY <1>1, <1>5, <1>6, <1>8, <3>1 DEF ToldInv
    <2>8. ReportInv' /\ WebsocketCurrent' /\ NoReadAfterFree'
        BY <1>3, <1>6, <1>8 DEF ReportInv, WebsocketCurrent, NoReadAfterFree
    <2>9. BoxInv' BY <1>1, <1>5, <1>6, <1>8, <2>1, <2>2 DEF BoxInv
    <2> QED BY <2>4, <2>5, <2>6, <2>7, <2>8, <2>9 DEF Inv
<1>9. CASE End(FALSE, FALSE) /\ UNCHANGED sent
    BY <1>3, <1>5, <1>6, <1>7, <1>9, EndStep
<1> QED BY <1>8, <1>9 DEF WriteableBody

(* CONNECTION_ERROR or CLIENT_CLOSED, the one word about the end of a wsi.   *)
LEMMA InformStep == ASSUME Inv, ErrorBody \/ ClosedBody PROVE Inv'
<1>1. /\ TypeOK /\ CallInv /\ StateInv /\ ToldInv /\ ReportInv /\ BoxInv /\ WebsocketCurrent
      /\ NoReadAfterFree
    BY DEF Inv
<1>2. PICK r \in {"ERROR", "CLOSED"} : Body(r) /\ (r = "ERROR" => ErrorBody)
    BY DEF ErrorBody, ClosedBody
<1>3. /\ misread' \subseteq {"fresh", "raced"} /\ "fresh" \notin misread'
      /\ calls # <<>> /\ Head(calls) = r
    BY <1>2, BodyReads
<1>4. /\ calls = ErrorEnd \/ calls = ClosedEnd
      /\ Tail(calls) = SilentEnd
      /\ calls = ErrorEnd => r = "ERROR"
    BY <1>1, <1>3, FirstCall, CallFacts
<1>5. /\ NextCall /\ informed' = informed + 1
      /\ tasks' = IF Seen THEN tasks + 1 ELSE tasks
      /\ UNCHANGED <<wsiVars, user, marker, websocket, wasConnected, timer, owned, deinitVars,
                     returned>>
    BY DEF ErrorBody, ClosedBody
<1>6. UNCHANGED <<lrs, results, sock, sul, timeout, sent, ssl, cce, suppress, redirects, opaque,
                  ctx, pollout, quiet, deinit, held, box>>
    BY <1>5 DEF wsiVars, netVars, deinitVars
<1>7. calls' = SilentEnd /\ entered' = "no" BY <1>4, <1>5 DEF NextCall
<1>8. lrs = "dead" BY <1>1, <1>4 DEF CallInv, Endings
<1>9. /\ connectionError' \in BOOLEAN /\ (connectionError => connectionError')
      /\ (r = "ERROR" /\ Seen) => connectionError'
    <2>1. connectionError \in BOOLEAN BY <1>1 DEF TypeOK
    <2>2. connectionError' = (connectionError \/ Seen) \/ connectionError' = connectionError
        BY DEF ErrorBody, ClosedBody
    <2>3. r = "ERROR" => connectionError' = (connectionError \/ Seen) BY <1>2 DEF ErrorBody
    <2> QED BY <2>1, <2>2, <2>3
<1>10. informed = 0 BY <1>1, <1>4 DEF ToldInv
<1>11. TypeOK'
    <2>1. calls' \in Seq(Reasons) /\ Len(calls') <= 2 BY <1>7, ShapeType DEF Endings
    <2>2. tasks' \in Nat BY <1>1, <1>5 DEF TypeOK
    <2> QED BY <1>1, <1>3, <1>5, <1>6, <1>7, <1>9, <2>1, <2>2 DEF TypeOK
<1>12. CallInv' BY <1>6, <1>7, <1>8, CallFacts DEF CallInv, Endings, Reasons
<1>13. StateInv' BY <1>1, <1>5, <1>6, <1>7, <1>8 DEF StateInv
<1>14. ToldInv'
    <2>1. calls' \notin {ErrorEnd, ClosedEnd} BY <1>7, CallFacts
    <2> QED BY <1>5, <1>6, <1>8, <1>10, <2>1 DEF ToldInv
<1>15. ReportInv'
    <2>1. CASE calls = ErrorEnd
        <3>1. ASSUME deinit = "alive", opaque PROVE connectionError'
            <4>1. user # "closed" BY <1>1, <3>1 DEF BoxInv
            <4>2. Seen BY <3>1, <4>1 DEF Seen, Reads
            <4> QED BY <1>4, <1>9, <2>1, <4>2
        <3> QED BY <1>6, <3>1 DEF ReportInv
    <2>2. CASE calls # ErrorEnd BY <1>1, <1>5, <1>6, <1>9, <2>2 DEF ReportInv
    <2> QED BY <2>1, <2>2
<1>16. BoxInv' BY <1>1, <1>5, <1>6, <1>7 DEF BoxInv
<1>17. WebsocketCurrent' /\ NoReadAfterFree'
    BY <1>3, <1>6, <1>8 DEF WebsocketCurrent, NoReadAfterFree
<1> QED BY <1>11, <1>12, <1>13, <1>14, <1>15, <1>16, <1>17 DEF Inv

(* WSI_DESTROY: the client's pointer goes with the wsi, if it can be seen.   *)
LEMMA DestroyStep == ASSUME Inv, DestroyBody PROVE Inv'
<1>1. /\ TypeOK /\ CallInv /\ StateInv /\ ToldInv /\ ReportInv /\ BoxInv /\ WebsocketCurrent
      /\ NoReadAfterFree
    BY DEF Inv
<1>2. Body("DESTROY") BY DEF DestroyBody
<1>3. /\ misread' \subseteq {"fresh", "raced"} /\ "fresh" \notin misread'
      /\ calls # <<>> /\ Head(calls) = "DESTROY"
    BY <1>2, BodyReads
<1>4. calls = SilentEnd /\ Tail(calls) = <<>> BY <1>1, <1>3, FirstCall
<1>5. /\ NextCall /\ websocket' = (websocket /\ ~Seen) /\ lrs' = "freed"
      /\ UNCHANGED <<netVars, ssl, cce, suppress, redirects, opaque, ctx, pollout, quiet, user,
                     marker, wasConnected, connectionError, tasks, timer, owned, deinitVars,
                     returned, informed>>
    BY DEF DestroyBody, Cleared
<1>6. UNCHANGED <<results, sock, sul, timeout, sent, deinit, held, box>>
    BY <1>5 DEF netVars, deinitVars
<1>7. calls' = <<>> /\ entered' = "no" BY <1>4, <1>5 DEF NextCall
<1>8. lrs = "dead" BY <1>1, <1>4 DEF CallInv, Endings
<1>9. websocket' \in BOOLEAN /\ (websocket' => websocket) BY <1>5
<1>10. TypeOK'
    <2>1. <<>> \in Seq(Reasons) /\ Len(<<>>) <= 2 OBVIOUS
    <2> QED BY <1>1, <1>3, <1>5, <1>6, <1>7, <1>9, <2>1 DEF TypeOK
<1>11. CallInv'
    <2>1. <<>> \notin Endings BY CallFacts DEF Endings
    <2> QED BY <1>5, <1>7, <2>1, CallFacts DEF CallInv, Reasons
<1>12. StateInv' BY <1>1, <1>5, <1>6, <1>8, <1>9 DEF StateInv
<1>13. ToldInv'
    <2>1. calls' \notin {ErrorEnd, ClosedEnd} BY <1>7, CallFacts
    <2> QED BY <1>1, <1>5, <2>1 DEF ToldInv
<1>14. ReportInv'
    <2>1. calls # ErrorEnd BY <1>4, CallFacts
    <2> QED BY <1>1, <1>5, <1>6, <1>8, <2>1 DEF ReportInv
<1>15. BoxInv' BY <1>1, <1>5, <1>6, <1>7, <1>8, <1>9 DEF BoxInv
<1>16. WebsocketCurrent'
    <2>1. ASSUME websocket', deinit = "alive", opaque PROVE FALSE
        <3>1. user # "closed" BY <1>1, <2>1 DEF BoxInv
        <3> QED BY <1>5, <2>1, <3>1 DEF Seen, Reads
    <2> QED BY <1>5, <1>6, <2>1 DEF WebsocketCurrent
<1>17. NoReadAfterFree' BY <1>3 DEF NoReadAfterFree
<1> QED BY <1>10, <1>11, <1>12, <1>13, <1>14, <1>15, <1>16, <1>17 DEF Inv

(* The steps that leave the wsi and its callbacks as they are.               *)
LEMMA AsideStep ==
    ASSUME Inv, UNCHANGED <<lrs, netVars, ssl, cce, suppress, redirects, opaque, ctx, quiet,
                            calls, websocket, wasConnected, connectionError, historyVars>>,
           pollout' \in BOOLEAN, entered' \in {"no", "fresh", "raced"},
           user' \in {"default", "closed"}, marker' \in BOOLEAN, tasks' \in Nat,
           timer' \in BOOLEAN, owned' \in BOOLEAN, held' \in BOOLEAN, box' \in BOOLEAN,
           deinit' \in {"alive", "append", "writable", "free", "done"},
           deinit' = "alive" => deinit = "alive",
           BoxInv'
    PROVE  Inv'
<1>1. /\ TypeOK /\ CallInv /\ StateInv /\ ToldInv /\ ReportInv /\ WebsocketCurrent
      /\ NoReadAfterFree
    BY DEF Inv
<1>2. UNCHANGED <<results, sock, sul, timeout, sent, returned, informed, misread>>
    BY DEF netVars, historyVars
<1>3. TypeOK' BY <1>1, <1>2 DEF TypeOK
<1>4. CallInv' /\ ToldInv' BY <1>1, <1>2 DEF CallInv, ToldInv
<1>5. StateInv' BY <1>1, <1>2 DEF StateInv
<1>6. ReportInv' BY <1>1, <1>2 DEF ReportInv
<1>7. WebsocketCurrent' /\ NoReadAfterFree' BY <1>1, <1>2 DEF WebsocketCurrent, NoReadAfterFree
<1> QED BY <1>3, <1>4, <1>5, <1>6, <1>7 DEF Inv

(* The prologue of a callback, the event loop, the owner and deinit.         *)
LEMMA ClientStep ==
    ASSUME Inv, Enter \/ OtherCallback \/ RunTask \/ Release \/ Deinit
    PROVE  Inv'
<1>1. TypeOK /\ CallInv /\ StateInv /\ BoxInv BY DEF Inv
<1>2. /\ pollout \in BOOLEAN /\ entered \in {"no", "fresh", "raced"}
      /\ user \in {"default", "closed"} /\ marker \in BOOLEAN /\ tasks \in Nat
      /\ timer \in BOOLEAN /\ owned \in BOOLEAN /\ held \in BOOLEAN /\ box \in BOOLEAN
      /\ deinit \in {"alive", "append", "writable", "free", "done"} /\ websocket \in BOOLEAN
    BY <1>1 DEF TypeOK
<1>3. UNCHANGED <<lrs, netVars, ssl, cce, suppress, redirects, opaque, ctx, quiet, calls,
                  websocket, wasConnected, connectionError, historyVars>>
    BY DEF Enter, OtherCallback, RunTask, Release, Deinit, DeinitBegin, DeinitAppend,
           DeinitWritable, DeinitFree, wsiVars, callVars, clientVars
<1>4. UNCHANGED returned BY <1>3 DEF historyVars
<1>5. CASE Enter \/ OtherCallback
    <2>1. /\ user' = (IF marker THEN "closed" ELSE user) /\ marker' = FALSE
          /\ UNCHANGED <<pollout, tasks, timer, owned, deinit, held, box>>
          /\ (Enter /\ entered' = "fresh") \/ (OtherCallback /\ entered' = entered)
        BY <1>5 DEF Enter, OtherCallback, wsiVars, clientVars, deinitVars
    <2>2. BoxInv' BY <1>1, <1>3, <1>4, <2>1 DEF BoxInv
    <2> QED BY <1>2, <1>3, <2>1, <2>2, AsideStep
<1>6. CASE RunTask \/ Release
    <2>1. /\ tasks' \in Nat /\ timer' \in BOOLEAN /\ owned' \in BOOLEAN
          /\ UNCHANGED <<pollout, entered, user, marker, deinit, held, box>>
        <3>1. /\ (tasks > 0 /\ tasks' = tasks - 1) \/ tasks' = tasks
              /\ timer' = FALSE \/ timer' = timer
              /\ owned' = FALSE \/ owned' = owned
              /\ UNCHANGED <<wsiVars, callVars, deinitVars>>
            BY <1>6 DEF RunTask, Release
        <3>2. tasks' \in Nat BY <1>2, <3>1
        <3>3. UNCHANGED <<pollout, entered, user, marker, deinit, held, box>>
            BY <3>1 DEF wsiVars, callVars, deinitVars
        <3> QED BY <1>2, <3>1, <3>2, <3>3
    <2>2. BoxInv' BY <1>1, <1>3, <1>4, <2>1 DEF BoxInv
    <2> QED BY <1>2, <1>3, <2>1, <2>2, AsideStep
<1>7. CASE DeinitBegin
    <2>1. /\ deinit = "alive" /\ returned # "none" /\ held' = websocket
          /\ deinit' = IF websocket THEN "append" ELSE "free"
          /\ UNCHANGED <<pollout, entered, user, marker, tasks, timer, owned, box>>
        BY <1>7 DEF DeinitBegin, wsiVars, callVars, clientVars
    <2>2. BoxInv' BY <1>1, <1>2, <1>3, <1>4, <2>1 DEF BoxInv
    <2>3. deinit' \in {"alive", "append", "writable", "free", "done"} /\ deinit' # "alive"
        BY <2>1
    <2> QED BY <1>2, <1>3, <2>1, <2>2, <2>3, AsideStep
<1>8. CASE DeinitAppend
    <2>1. /\ deinit = "append" /\ deinit' = "writable" /\ marker' = TRUE
          /\ entered' = (IF entered = "fresh" THEN "raced" ELSE entered)
          /\ UNCHANGED <<pollout, user, tasks, timer, owned, held, box>>
        BY <1>8 DEF DeinitAppend, Marked, wsiVars, clientVars
    <2>2. BoxInv' BY <1>1, <1>2, <1>3, <1>4, <2>1 DEF BoxInv
    <2>3. entered' \in {"no", "fresh", "raced"} BY <1>2, <2>1
    <2> QED BY <1>2, <1>3, <2>1, <2>2, <2>3, AsideStep
<1>9. CASE DeinitWritable
    <2>1. /\ deinit = "writable" /\ deinit' = "free" /\ pollout' \in BOOLEAN
          /\ UNCHANGED <<entered, user, marker, tasks, timer, owned, held, box>>
        BY <1>2, <1>9 DEF DeinitWritable, Asked, callVars, clientVars
    <2>2. BoxInv' BY <1>1, <1>2, <1>3, <1>4, <2>1 DEF BoxInv
    <2> QED BY <1>2, <1>3, <2>1, <2>2, AsideStep
<1>10. CASE DeinitFree
    <2>1. /\ deinit = "free" /\ deinit' = "done" /\ box' = FALSE
          /\ UNCHANGED <<pollout, entered, user, marker, tasks, timer, owned, held>>
        BY <1>10 DEF DeinitFree, wsiVars, callVars, clientVars
    <2>2. BoxInv' BY <1>1, <1>2, <1>3, <1>4, <2>1 DEF BoxInv
    <2> QED BY <1>2, <1>3, <2>1, <2>2, AsideStep
<1> QED BY <1>5, <1>6, <1>7, <1>8, <1>9, <1>10 DEF Deinit

(* Inv holds at the start.                                                   *)
LEMMA InitInv == Init => Inv
<1> SUFFICES ASSUME Init PROVE Inv OBVIOUS
<1>1. maxResults \in Nat /\ maxRedirects \in Nat BY ConnectAssumption
<1>2. /\ lrs = "none" /\ calls = <<>> /\ ctx = "pending" BY DEF Init
<1>3. TypeOK
    <2>1. <<>> \in Seq(Reasons) /\ Len(<<>>) <= 2 OBVIOUS
    <2>2. /\ results \in 0..maxResults /\ redirects \in 0..maxRedirects
          /\ calls \in Seq(Reasons) /\ Len(calls) <= 2
        BY <1>1, <2>1 DEF Init
    <2>3. {sent, ssl, cce, suppress, opaque, pollout, marker, websocket, wasConnected,
           connectionError, timer, owned, held, box, quiet} \subseteq BOOLEAN
        BY DEF Init
    <2>4. /\ lrs \in {"none", "freed"} \cup Rest \cup Busy
          /\ sock \in {"none", "connecting", "connected", "failed"}
          /\ sul \in {"off", "dns_retry", "conn_wait"}
          /\ timeout \in {"none", "holding_ah", "connect", "handshake", "reply"}
          /\ ctx \in {"pending", "call", "call_hs", "redirect", "service"}
          /\ entered \in {"no", "fresh", "raced"} /\ user \in {"default", "closed"}
          /\ tasks \in Nat /\ informed \in Nat
          /\ deinit \in {"alive", "append", "writable", "free", "done"}
          /\ returned \in {"none", "wsi", "null", "freed"}
          /\ misread \subseteq {"fresh", "raced"}
        BY DEF Init
    <2> QED BY <2>2, <2>3, <2>4 DEF TypeOK
<1>4. CallInv
    <2>1. <<>> \notin Endings BY CallFacts DEF Endings
    <2> QED BY <1>2, <2>1, CallFacts DEF CallInv, Reasons
<1>5. StateInv BY DEF Init, StateInv
<1>6. ToldInv
    <2>1. calls \notin {ErrorEnd, ClosedEnd} BY <1>2, CallFacts
    <2> QED BY <2>1 DEF Init, ToldInv
<1>7. ReportInv /\ BoxInv /\ WebsocketCurrent /\ NoReadAfterFree
    BY DEF Init, ReportInv, BoxInv, WebsocketCurrent, NoReadAfterFree
<1> QED BY <1>3, <1>4, <1>5, <1>6, <1>7 DEF Inv

(* Inv is kept by every step.                                                *)
LEMMA InvStep == Inv /\ [Next]_vars => Inv'
<1> SUFFICES ASSUME Inv, [Next]_vars PROVE Inv' OBVIOUS
<1>1. CASE Connecting BY <1>1, ConnectingStep
<1>2. CASE \/ Attempting \/ AttemptTimeout \/ SocketSettles \/ Tls \/ BadReply \/ Upgraded
           \/ Redirected \/ HupClose \/ Timeout \/ ConnectionEnds \/ Pollout
    BY <1>2, AttemptingStep
<1>3. CASE Callback
    BY <1>3, ClientStep, AppendStep, EstablishedStep, InformStep, WriteableStep, DestroyStep
       DEF Callback
<1>4. CASE OtherCallback \/ RunTask \/ Release \/ Deinit BY <1>4, ClientStep
<1>5. CASE UNCHANGED vars
    <2>1. TypeOK /\ CallInv /\ StateInv /\ ToldInv /\ ReportInv /\ BoxInv BY DEF Inv
    <2>2. UNCHANGED <<wsiVars, callVars, clientVars, deinitVars, historyVars>> BY <1>5 DEF vars
    <2>3. UNCHANGED <<lrs, netVars, ssl, cce, suppress, redirects, opaque, ctx, pollout, quiet,
                      calls, entered, user, marker, websocket, wasConnected, connectionError,
                      tasks, timer, owned, deinit, held, box, historyVars, returned>>
        BY <2>2 DEF wsiVars, callVars, clientVars, deinitVars, historyVars
    <2>4. BoxInv' BY <2>1, <2>3 DEF BoxInv
    <2>5. /\ pollout \in BOOLEAN /\ entered \in {"no", "fresh", "raced"}
          /\ user \in {"default", "closed"} /\ marker \in BOOLEAN /\ tasks \in Nat
          /\ timer \in BOOLEAN /\ owned \in BOOLEAN /\ held \in BOOLEAN /\ box \in BOOLEAN
          /\ deinit \in {"alive", "append", "writable", "free", "done"}
        BY <2>1 DEF TypeOK
    <2> QED BY <2>3, <2>4, <2>5, AsideStep
<1> QED BY <1>1, <1>2, <1>3, <1>4, <1>5 DEF Next

(* Inv holds always.                                                         *)
LEMMA Invariance == Spec => []Inv
BY InitInv, InvStep, PTL DEF Spec

(* Whatever the lookup, the attempts, redirects, callbacks and deinit do in  *)
(* whatever order, every variable keeps its type; so the list of addresses   *)
(* is not read past its end, redirects stay within lws's limit, and a close  *)
(* has at most two callbacks left to make.                                   *)
THEOREM TypeCorrect == Spec => []TypeOK
<1>1. Inv => TypeOK BY DEF Inv
<1> QED BY <1>1, Invariance, PTL

(* lws makes one callback about the end of a wsi, by whichever of            *)
(* lws_inform_client_conn_fail and __lws_close_free_wsi comes first, and a   *)
(* connect that failed is known to the client but for the closes that lws    *)
(* makes without a word.                                                     *)
THEOREM FailureReportedCorrect == Spec => []FailureReported
<1>1. Inv => FailureReported
    <2> SUFFICES ASSUME Inv PROVE FailureReported OBVIOUS
    <2>1. TypeOK /\ CallInv /\ ToldInv /\ ReportInv BY DEF Inv
    <2>2. lrs = "freed" => calls # ErrorEnd BY <2>1 DEF CallInv, Endings
    <2> QED BY <2>1, <2>2 DEF FailureReported, ToldInv, ReportInv
<1> QED BY <1>1, Invariance, PTL

(* The wsi pointer that the client keeps is cleared by WSI_DESTROY before    *)
(* the wsi is freed, except where the connect call returned a wsi it had     *)
(* freed already or a redirect hid the client.                               *)
THEOREM WebsocketCurrentCorrect == Spec => []WebsocketCurrent
<1>1. Inv => WebsocketCurrent BY DEF Inv
<1> QED BY <1>1, Invariance, PTL

(* A callback entered after deinit has queued its closure finds the closed   *)
(* marker before it reads the opaque user data, so it does not read the box  *)
(* deinit frees.                                                             *)
THEOREM NoReadAfterFreeCorrect == Spec => []NoReadAfterFree
<1>1. Inv => NoReadAfterFree BY DEF Inv
<1> QED BY <1>1, Invariance, PTL
=============================================================================
