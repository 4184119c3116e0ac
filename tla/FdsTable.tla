------------------------------ MODULE FdsTable ------------------------------
(***************************************************************************)
(* The table of pollfds that the connections of one context share, and the *)
(* service thread's way through it: timers, poll(), the scan that serves   *)
(* what poll() reported, the connect closures.  A connection that goes     *)
(* gives its slot to the last one, in the middle of the scan; a connection *)
(* that tries another address or follows a redirect goes and comes back    *)
(* within its own service; and another thread, asking for POLLOUT, looks   *)
(* up a slot in one step and writes to it in another.                      *)
(*                                                                         *)
(* Serving one slot is one step; how the two threads meet inside it, and   *)
(* in the list of changes, is the subject of PollService.                  *)
(***************************************************************************)
EXTENDS Integers, Sequences, SequencesExt

CONSTANTS
    Conns,          \* connections
    Pipe,           \* the event pipe's wsi
    None,           \* no wsi
    FdLimits,       \* what fd_limit_per_thread may be
    maxAttempts,    \* bound on further addresses and redirects
    Senders,        \* the connections whose client sends
    maxSends        \* bound on send() calls

NoPos == -1         \* LWS_NO_FDS_POS

ASSUME TableAssumption ==
    /\ FdLimits \subseteq Nat \ {0} /\ maxAttempts \in Nat /\ maxSends \in Nat
    /\ Senders \subseteq Conns /\ Pipe \notin Conns /\ None \notin Conns \cup {Pipe}

VARIABLES
    fdLimit,        \* context->fd_limit_per_thread
    fds,            \* pt->fds: slots with their wsi, POLLOUT in events, revents
    count,          \* pt->fds_count
    pos,            \* position_in_fds_table
    st,             \* state of a connection
    net,            \* what its socket has for it
    phase, scan,    \* the service thread; the slot its scan has come to
    asked,          \* the slots with POLLOUT as poll() began
    list,           \* foreign_pfd_list: slot numbers
    waiting,        \* connections with a frame to write
    frg,            \* the thread in callWritable: its step, its wsi, the slot it has read
    attempts, sends,
    reported,       \* history: what poll() reported for the socket and was not served yet
    strayed         \* history: connections whose request for POLLOUT went elsewhere

tableVars == <<fds, count, pos>>
connVars == <<st, net, waiting, reported, strayed>>
loopVars == <<phase, scan, asked>>
vars == <<fdLimit, tableVars, connVars, loopVars, list, frg, attempts, sends>>

Events == {"IN", "OUT", "HUP"}
Slot(w, out) == [w |-> w, out |-> out, revents |-> {}]
InTable == {"connecting", "handshake", "established", "closing"}
Idle == [at |-> "idle", w |-> None, slot |-> NoPos]

TypeTable ==
    /\ fdLimit \in FdLimits
    /\ fds \in [1..fdLimit -> [w : Conns \cup {Pipe, None}, out : BOOLEAN,
                               revents : SUBSET Events]]
    /\ count \in 1..fdLimit /\ pos \in [Conns -> 1..fdLimit \cup {NoPos}]

TypeConns ==
    /\ st \in [Conns -> InTable \cup {"idle", "resolving", "closed"}]
    /\ net \in [Conns -> {"none", "quiet", "data", "buffered", "hup"}]
    /\ reported \in [Conns -> SUBSET Events]
    /\ waiting \subseteq Conns /\ strayed \subseteq Conns

TypeThreads ==
    /\ phase \in {"timers", "poll", "scan", "closures"} /\ scan \in 1..fdLimit + 1
    /\ asked \subseteq 1..fdLimit /\ list \in Seq(1..fdLimit \cup {NoPos})
    /\ frg \in {Idle} \cup [at : {"test", "index", "write"}, w : Conns,
                            slot : 1..fdLimit \cup {NoPos}]
    /\ attempts \in 0..maxAttempts /\ sends \in 0..maxSends

\* Every variable has its type; the table is never longer than fd_limit_per_thread.
TypeOK == TypeTable /\ TypeConns /\ TypeThreads

\* the event pipe is in the table before any connection
Init ==
    /\ fdLimit \in FdLimits
    /\ fds = [i \in 1..fdLimit |-> Slot(IF i = 1 THEN Pipe ELSE None, FALSE)]
    /\ count = 1 /\ pos = [c \in Conns |-> NoPos]
    /\ st = [c \in Conns |-> "idle"] /\ net = [c \in Conns |-> "none"]
    /\ phase = "timers" /\ scan = 1 /\ asked = {} /\ list = <<>>
    /\ waiting = {} /\ frg = Idle /\ attempts = 0 /\ sends = 0
    /\ reported = [c \in Conns |-> {}] /\ strayed = {}

-----------------------------------------------------------------------------
(* The table: t is a record of the three table variables.                    *)

Table == [fds |-> fds, count |-> count, pos |-> pos]
SetTable(t) == fds' = t.fds /\ count' = t.count /\ pos' = t.pos

\* a slot behind the end: its revents stay, its events nobody reads
Gone(slot) == [slot EXCEPT !.w = None, !.out = FALSE]

\* mutant: the slot keeps the revents of whoever had it before
InsertFdStale(t, c) ==
    [fds |-> [t.fds EXCEPT ![t.count + 1] = [@ EXCEPT !.w = c, !.out = TRUE]],
     count |-> t.count + 1, pos |-> [t.pos EXCEPT ![c] = t.count + 1]]

\* __insert_wsi_socket_into_fds; POLLOUT is asked for at once, to hear of the connect
InsertFd(t, c) ==
    [fds |-> [t.fds EXCEPT ![t.count + 1] = Slot(c, TRUE)],
     count |-> t.count + 1, pos |-> [t.pos EXCEPT ![c] = t.count + 1]]

\* mutant: the last one is moved but not told
RemoveFdNoFixup(t, c) ==
    LET m == t.pos[c]
    IN  IF m = NoPos THEN t
        ELSE [fds |-> [[t.fds EXCEPT ![m] = t.fds[t.count]] EXCEPT ![t.count] = Gone(@)],
              count |-> t.count - 1, pos |-> [t.pos EXCEPT ![c] = NoPos]]

\* __remove_wsi_socket_from_fds: the last one takes up the vacant slot
RemoveFd(t, c) ==
    LET m == t.pos[c]
        end == t.fds[t.count].w
    IN  IF m = NoPos THEN t
        ELSE [fds |-> [[t.fds EXCEPT ![m] = t.fds[t.count]] EXCEPT ![t.count] = Gone(@)],
              count |-> t.count - 1,
              pos |-> [t.pos EXCEPT ![end] = m, ![c] = NoPos]]

\* the fd limit is reached
Full(t) == t.count >= fdLimit

\* c's state becomes s: a new socket, or none
Enter(c, s) ==
    /\ st' = [st EXCEPT ![c] = s] /\ net' = [net EXCEPT ![c] = "none"]
    /\ reported' = [reported EXCEPT ![c] = {}]

\* the wsi is closed, its client fails the frames that wait
Close(t, c) ==
    /\ SetTable(RemoveFd(t, c))
    /\ Enter(c, "closed")
    /\ waiting' = waiting \ {c} /\ strayed' = strayed \ {c}

\* the connection is to end, but its close frame or what it still has to write is to go out
\* first: the wsi keeps its slot, and the revents in it stay
Defer(c) ==
    /\ st' = [st EXCEPT ![c] = "closing"]
    /\ fds' = [fds EXCEPT ![pos[c]].out = TRUE]
    /\ UNCHANGED <<count, pos, net, waiting, reported, strayed>>

\* a connect attempt gets its slot, or fails if there is none
Attempt(t, c) ==
    IF Full(t) THEN Close(t, c)
    ELSE SetTable(InsertFd(t, c)) /\ Enter(c, "connecting") /\ UNCHANGED <<waiting, strayed>>

\* a name that cannot be looked up now is tried again by a timer; meanwhile no slot
Resolve(t, c) == SetTable(t) /\ Enter(c, "resolving") /\ UNCHANGED <<waiting, strayed>>

-----------------------------------------------------------------------------
(* Timers: __lws_sul_service_ripe, before poll().                            *)

Timers == phase = "timers"
Rest == <<fdLimit, loopVars, list, frg, sends>>

\* a timeout of a connection that does not get on or does not finish its closing, a hangup
\* after a failed validity check, which may be deferred for the close frame
TimerClose(c) ==
    /\ Timers /\ st[c] \in InTable \cup {"resolving"}
    /\ \/ Close(Table, c)
       \/ st[c] = "established" /\ Defer(c)
    /\ UNCHANGED <<Rest, attempts>>

\* lws_client_conn_wait_timeout: the next address, or the attempt counts as connected
TimerAttempt(c) ==
    /\ Timers /\ st[c] = "connecting"
    /\ \/ /\ attempts < maxAttempts /\ attempts' = attempts + 1
          /\ Attempt(RemoveFd(Table, c), c)
       \/ /\ st' = [st EXCEPT ![c] = "handshake"] /\ UNCHANGED attempts
          /\ fds' = [fds EXCEPT ![pos[c]].out = FALSE]
          /\ UNCHANGED <<count, pos, net, waiting, reported, strayed>>
    /\ UNCHANGED Rest

\* lws_client_dns_retry_timeout; a lookup that fails again changes nothing here
TimerLookup(c) ==
    /\ Timers /\ st[c] = "resolving"
    /\ Attempt(Table, c)
    /\ UNCHANGED <<Rest, attempts>>

\* mutant: the check does not ask for POLLOUT
ValidityPingQuiet(c) ==
    /\ Timers /\ st[c] = "established"
    /\ UNCHANGED vars

\* lws_validity_cb asks for POLLOUT to send its ping; frames that wait are written after it
ValidityPing(c) ==
    /\ Timers /\ st[c] = "established"
    /\ fds' = [fds EXCEPT ![pos[c]].out = TRUE]
    /\ strayed' = strayed \ {c}
    /\ UNCHANGED <<count, pos, st, net, waiting, reported, Rest, attempts>>

-----------------------------------------------------------------------------
(* poll().                                                                   *)

EnterPoll ==
    /\ Timers /\ phase' = "poll"
    /\ asked' = {i \in 1..count : fds[i].out}
    /\ UNCHANGED <<fdLimit, tableVars, connVars, scan, list, frg, attempts, sends>>

\* mutant: nobody looks after input that TLS has read already
FakePollinNever(c) == {}

\* lws_service_flag_pending: input that TLS has read already counts as readable
FakePollin(c) == IF net[c] = "buffered" THEN {"IN"} ELSE {}

\* what poll() reports for the socket of c; a hangup may come with POLLIN
Ready(c, withIn) ==
    {e \in Events : CASE e = "HUP" -> net[c] = "hup"
                      [] e = "IN" -> net[c] = "data" \/ (net[c] = "hup" /\ withIn)
                      [] e = "OUT" -> net[c] # "none" /\ pos[c] \in asked}

\* mutant: the list is dropped
ListedNever(i) == FALSE

\* slot i is in the list of changes made while the service thread was in poll()
Listed(i) == Contains(list, i)

\* (of the slots behind the end the model keeps the revents for one round)
PollReturn ==
    /\ phase = "poll"
    /\ \E withIn \in SUBSET Conns :
       LET r == [c \in Conns |-> IF pos[c] = NoPos THEN {}
                                 ELSE Ready(c, c \in withIn) \cup FakePollin(c)]
       IN
         /\ reported' = r
         /\ fds' = [i \in 1..fdLimit |->
               IF i > count THEN Slot(None, FALSE)
               ELSE [w |-> fds[i].w, out |-> fds[i].out \/ Listed(i),
                     revents |-> IF fds[i].w = Pipe THEN {e \in {"IN"} : list # <<>>}
                                                    ELSE r[fds[i].w]]]
    /\ list' = <<>> /\ asked' = {}
    /\ phase' = "scan" /\ scan' = 1
    /\ UNCHANGED <<fdLimit, count, pos, st, net, waiting, strayed, frg,
                   attempts, sends>>

-----------------------------------------------------------------------------
(* The scan: _lws_plat_service_forced_tsi and lws_service_fd_tsi.            *)

\* slot i is the next with revents
At(i) ==
    /\ phase = "scan" /\ i \in scan..count /\ fds[i].revents # {}
    /\ \A j \in scan..i - 1 : fds[j].revents = {}

Served(i) == fds[i].w \in Conns /\ At(i)
Kept == <<fdLimit, phase, asked, list, frg, sends>>

\* a hangup with nothing to read ends the connection, whatever its state
DeadSocket(i) == "HUP" \in fds[i].revents /\ "IN" \notin fds[i].revents

ScanEnd ==
    /\ phase = "scan" /\ \A i \in scan..count : fds[i].revents = {}
    /\ phase' = "closures" /\ scan' = 1
    /\ reported' = [c \in Conns |-> {}]
    /\ UNCHANGED <<fdLimit, tableVars, st, net, waiting, strayed, asked, list, frg,
                   attempts, sends>>

\* rops_handle_POLLIN_pipe
ServePipe(i) ==
    /\ At(i) /\ fds[i].w = Pipe
    /\ fds' = [fds EXCEPT ![i].revents = {}] /\ scan' = i + 1
    /\ UNCHANGED <<count, pos, connVars, attempts, Kept>>

\* mutant: the scan goes on behind a slot that was given to another
RetrySlotNever(i) == scan' = i + 1

\* after a close: the slot is another's now and is looked at again
RetrySlot(i) == scan' = i

\* the connection ends at once: a hangup, an error, the end of its closing
ServeClose(i) ==
    /\ Served(i)
    /\ Close(Table, fds[i].w)
    /\ RetrySlot(i)
    /\ UNCHANGED <<Kept, attempts>>

\* the same, with a close that is deferred
ServeDeferred(i) ==
    /\ Served(i) /\ st[fds[i].w] = "established" /\ ~DeadSocket(i)
    /\ Defer(fds[i].w)
    /\ scan' = i + 1
    /\ UNCHANGED <<Kept, attempts>>

\* connect() has worked
ServeConnected(i) ==
    LET c == fds[i].w
    IN  /\ Served(i) /\ st[c] = "connecting" /\ net[c] # "hup"
        /\ "OUT" \in fds[i].revents /\ ~DeadSocket(i)
        /\ st' = [st EXCEPT ![c] = "handshake"]
        /\ fds' = [fds EXCEPT ![i] = Slot(c, FALSE)] /\ scan' = i + 1
        /\ reported' = [reported EXCEPT ![c] = {}]
        /\ UNCHANGED <<count, pos, net, waiting, strayed, Kept, attempts>>

\* connect() has failed and there is another address, or the server redirects: c goes from
\* the table and comes back at its end, or waits for a lookup.  Then its caller uses the
\* pollfd it began with, by now that of the one who moved there, as if it were c's: its
\* hangup closes c, and else its revents are cleared.
ServeAttempt(i) ==
    LET c == fds[i].w
        gone == RemoveFd(Table, c)
        back == InsertFd(gone, c)
        Handled(t) == [t EXCEPT !.fds[i].revents = {}]
    IN  /\ Served(i) /\ ~DeadSocket(i)
        /\ \/ st[c] = "connecting" /\ "OUT" \in fds[i].revents /\ net[c] = "hup"
           \/ st[c] = "handshake" /\ "IN" \in fds[i].revents /\ net[c] = "data"
        /\ attempts < maxAttempts /\ attempts' = attempts + 1
        /\ \/ "HUP" \in back.fds[i].revents /\ Close(back, c) /\ RetrySlot(i)
           \/ "HUP" \notin back.fds[i].revents /\ scan' = i + 1 /\ UNCHANGED <<waiting, strayed>>
              /\ SetTable(Handled(back)) /\ Enter(c, "connecting")
           \/ st[c] = "handshake" /\ Resolve(Handled(gone), c) /\ scan' = i + 1
        /\ UNCHANGED Kept

\* POLLOUT is one shot; a frame is written, and another callback asked for, unless the
\* connection is closing.  What can be read is read, or a part of it, and the rest stays
\* with TLS.
ServeHandled(i) ==
    LET c == fds[i].w
        ev == fds[i].revents
        Read(n) == IF "IN" \notin ev THEN {n}
                   ELSE CASE n = "data" -> {"quiet", "buffered"} [] n = "buffered" -> {"quiet"}
                          [] OTHER -> {n}
    IN  /\ Served(i) /\ ~DeadSocket(i) /\ st[c] \in {"handshake", "established", "closing"}
        /\ ~("IN" \in ev /\ net[c] = "hup")
        /\ net' \in {[net EXCEPT ![c] = n] : n \in Read(net[c])}
        /\ \/ UNCHANGED st
           \/ /\ st[c] = "handshake" /\ "IN" \in ev
              /\ st' = [st EXCEPT ![c] = "established"]
        /\ waiting' = IF "OUT" \in ev /\ st[c] = "established" THEN waiting \ {c} ELSE waiting
        /\ fds' = [fds EXCEPT ![i] = Slot(c, IF "OUT" \in ev THEN waiting' # waiting ELSE @.out)]
        /\ strayed' = strayed \cap waiting'
        /\ scan' = i + 1
        /\ reported' = [reported EXCEPT ![c] = {}]
        /\ UNCHANGED <<count, pos, Kept, attempts>>

Scan == \/ ScanEnd
        \/ \E i \in 1..fdLimit : \/ ServePipe(i) \/ ServeClose(i) \/ ServeDeferred(i)
                                 \/ ServeConnected(i)
                                 \/ ServeAttempt(i) \/ ServeHandled(i)

\* a connect closure that was scheduled meanwhile
RunClosure(c) ==
    /\ phase = "closures" /\ st[c] = "idle"
    /\ Attempt(Table, c) \/ Resolve(Table, c) \/ Close(Table, c)
    /\ UNCHANGED <<Rest, attempts>>

\* the next lws_service
NextService ==
    /\ phase = "closures" /\ phase' = "timers"
    /\ UNCHANGED <<fdLimit, tableVars, connVars, scan, asked, list, frg, attempts, sends>>

-----------------------------------------------------------------------------
(* The network, the clients and the thread in callWritable.                  *)

\* "hup" is a hangup with or without input before it
Network(c) ==
    /\ st[c] \in InTable
    /\ \/ net[c] = "none" /\ net' \in {[net EXCEPT ![c] = n] : n \in {"quiet", "hup"}}
       \/ net[c] = "quiet" /\ st[c] # "connecting" /\ net' = [net EXCEPT ![c] = "data"]
       \/ net[c] = "quiet" /\ net' = [net EXCEPT ![c] = "hup"]
    /\ UNCHANGED <<fdLimit, tableVars, st, waiting, reported, strayed, loopVars, list, frg,
                   attempts, sends>>

Quiet == <<fdLimit, count, pos, st, net, reported, loopVars, attempts>>

\* send(), and its callWritable up to the first look at the position
Send(c) ==
    /\ c \in Senders \ waiting /\ sends < maxSends
    /\ frg = Idle /\ st[c] \in {"established", "closing"}
    /\ sends' = sends + 1 /\ waiting' = waiting \cup {c}
    /\ frg' = [at |-> "test", w |-> c, slot |-> NoPos]
    /\ UNCHANGED <<Quiet, fds, strayed, list>>

\* what a second look at w's position may find: of a wsi that was freed meanwhile it may be
\* the position of the one that has its memory now
Position(w) == IF st[w] = "closed" THEN {pos[c] : c \in Conns} ELSE {pos[w]}

\* _lws_change_pollfd: a list entry while the service thread is in poll(), which the
\* spinlock keeps from going on meanwhile
ForeignTest ==
    /\ frg.at = "test"
    /\ IF phase = "poll"
       THEN frg' = Idle /\ list' \in {Append(list, s) : s \in Position(frg.w)}
       ELSE frg' = [frg EXCEPT !.at = "index"] /\ UNCHANGED list
    /\ UNCHANGED <<Quiet, fds, waiting, strayed, sends>>

\* outside poll(): the address of the slot
ForeignIndex ==
    /\ frg.at = "index"
    /\ \E s \in Position(frg.w) : frg' = [frg EXCEPT !.at = "write", !.slot = s]
    /\ UNCHANGED <<Quiet, fds, waiting, strayed, list, sends>>

\* ... and the events in it.  Without a position this is the memory before the table.
ForeignWrite ==
    /\ frg.at = "write"
    /\ fds' = IF frg.slot \in 1..count THEN [fds EXCEPT ![frg.slot].out = TRUE] ELSE fds
    /\ strayed' = IF frg.w \in waiting /\ frg.slot # pos[frg.w] THEN strayed \cup {frg.w}
                                                                ELSE strayed
    /\ frg' = Idle
    /\ UNCHANGED <<Quiet, waiting, list, sends>>

-----------------------------------------------------------------------------

Foreign == ForeignTest \/ ForeignIndex \/ ForeignWrite
Timer == \E c \in Conns : TimerClose(c) \/ TimerAttempt(c) \/ TimerLookup(c) \/ ValidityPing(c)
Service == EnterPoll \/ PollReturn \/ Scan \/ NextService
Next == \/ Service \/ Timer \/ Foreign
        \/ \E c \in Conns : RunClosure(c) \/ Network(c) \/ Send(c)

Spec == Init /\ [][Next]_vars

\* The service thread goes round: poll() returns, with a timer at the latest.  The other
\* thread goes on, and the timer of a connection that is established or closing runs.
Fairness ==
    /\ WF_vars(Service) /\ WF_vars(Foreign)
    /\ \A c \in Conns : SF_vars(ValidityPing(c) \/ (st[c] = "closing" /\ TimerClose(c)))

FairSpec == Spec /\ Fairness

-----------------------------------------------------------------------------
(* Properties.                                                               *)

\* Table and positions agree, whatever was moved when: the pipe keeps the first slot, the
\* slots behind it up to the end each have a connection that knows its slot, those behind
\* the end have none; a connection with a socket has its slot, the others have no position.
TableAgrees ==
    /\ fds[1].w = Pipe
    /\ \A i \in 2..count : fds[i].w \in Conns /\ pos[fds[i].w] = i
    /\ \A i \in count + 1..fdLimit : fds[i].w = None
    /\ \A c \in Conns :
         IF st[c] \in InTable THEN pos[c] \in 2..count /\ fds[pos[c]].w = c ELSE pos[c] = NoPos

\* No connection is served for another's events or twice for its own: the revents in its
\* slot are part of what poll() reported for the socket it has now and was not served yet,
\* also when the slot was another's when poll() returned.
ReventsOwn == \A i \in 2..count : phase = "scan" => fds[i].revents \subseteq reported[fds[i].w]

\* Whatever goes from the table or comes back to it during the scan, what poll() reported
\* is dealt with in the same pass and none of it is left over, except with a connection that
\* was told to close in that pass.
ScanLeavesNothing ==
    phase \in {"timers", "closures"} =>
        \A i \in 1..count : fds[i].revents # {} => i > 1 /\ st[fds[i].w] = "closing"

\* A frame that waits has its request in its own slot, in the list, or on the way, unless
\* the slot was given to another between the sender's look and its write.
AskInOwnSlot ==
    \A c \in {d \in waiting \ strayed : st[d] = "established"} :
        fds[pos[c]].out \/ Contains(list, pos[c]) \/ frg.w = c

\* A frame that waits is written or fails as its connection ends, although a request may go to the
\* wrong slot.
FramesWritten == \A c \in Senders : c \in waiting ~> c \notin waiting

\* What a socket has is served: input, input that only TLS has, and a hangup, although
\* revents may be cleared for the one that moves.
InputServed ==
    \A c \in Conns : net[c] \in {"data", "buffered", "hup"} ~> net[c] \in {"quiet", "none"}
=============================================================================
