---------------------------- MODULE PollService ----------------------------
(***************************************************************************)
(* How other threads reach the service thread of a WebsocketClientContext: *)
(*                                                                         *)
(*   - callWritable(wsi) asks for POLLOUT on a connection from the         *)
(*     context's writableQueue: pollfd.c's _lws_change_pollfd against      *)
(*     unix-service.c's poll() and service.c's POLLOUT handler, which      *)
(*     share flags and no lock (LWS_MAX_SMP is 1: lws_pt_lock is empty);   *)
(*   - scheduleFastServiceExecution(closure) queues a closure and signals  *)
(*     the event pipe.                                                     *)
(*                                                                         *)
(* One wsi, established and writable.  Each action is one access to the    *)
(* shared flags, or several that no other thread can tell apart.           *)
(***************************************************************************)
EXTENDS Naturals, Sequences, FiniteSets

CONSTANTS
    maxSends,     \* bound: frames appended by send(), each followed by callWritable
    Closures,     \* bound: the closures passed to scheduleFastServiceExecution
    copiesBack    \* poll() writes the whole pollfd back when it returns, as on macOS

ASSUME SendsAssumption == maxSends \in Nat
ASSUME CopiesBackAssumption == copiesBack \in BOOLEAN

VARIABLES
    events,          \* POLLOUT is set in pt->fds[].events
    foreign_spinlock, inside_poll,
    foreign_pfd_list,      \* the list holds a POLLOUT change
    handling_pollout, leave_pollout_active,
    pipe,            \* the event pipe is readable
    svc,             \* the service thread: pc, and the POLLOUT change in progress
    kernel,          \* POLLOUT is in the set poll() was called with
    revents,         \* what poll() returned: subset of {"pipe", "out"}
    eff, taken,      \* locals: leave_pollout_active as sampled; the list as read
    validity,        \* the validity timer: armed, due, check (send_check_ping), pinged
    frg,             \* the thread in callWritable: its pc
    toBeWritten,     \* the number of frames waiting
    sends,           \* the number of send() calls so far
    fastQueue,       \* fastServiceExecutionCallbacks
    connects,        \* the closures passed so far: every client passes one, its connect
    signalling,      \* closures queued whose caller has not signalled the pipe yet
    torn             \* a change of one thread met one of the other: in the list, or in events

flagVars == <<events, foreign_spinlock, inside_poll, foreign_pfd_list, handling_pollout,
              leave_pollout_active>>
svcVars == <<svc, kernel, revents, eff, taken, validity>>
sendVars == <<frg, toBeWritten, sends>>
fastVars == <<fastQueue, connects, signalling>>
users == <<sendVars, fastVars, torn>>
vars == <<flagVars, pipe, svcVars, users>>

SvcPcs == {"sul", "enter", "entered", "polling", "woken", "spin", "apply", "clear", "pipe",
           "out", "role", "bail", "drop", "unhandle", "recheck", "reset", "callback", "after",
           "fast"}
At(pc) == [pc |-> pc, on |-> FALSE, ret |-> pc]
\* __lws_change_pollfd on the service thread, then go on at ret
Change(on, ret) == [pc |-> "change", on |-> on, ret |-> ret]
FrgPcs == {"idle", "check", "leave", "lock", "look", "append", "unlockSignal", "unlock", "set"}

TypeFlags ==
    /\ events \in BOOLEAN /\ foreign_spinlock \in BOOLEAN /\ inside_poll \in BOOLEAN
    /\ foreign_pfd_list \in BOOLEAN
    /\ handling_pollout \in BOOLEAN /\ leave_pollout_active \in BOOLEAN
    /\ pipe \in BOOLEAN /\ kernel \in BOOLEAN /\ eff \in BOOLEAN /\ taken \in BOOLEAN
    /\ torn \in BOOLEAN

TypeThreads ==
    /\ svc \in [pc : SvcPcs \cup {"change", "change2"}, on : BOOLEAN, ret : SvcPcs]
    /\ revents \subseteq {"pipe", "out"}
    /\ validity \in {"armed", "due", "check", "pinged"}
    /\ frg \in FrgPcs

TypeQueues ==
    /\ toBeWritten \in 0..sends /\ sends \in 0..maxSends
    /\ fastQueue \in Seq(Closures)
    /\ connects \subseteq Closures /\ signalling \subseteq connects

\* Type correctness, and no more frames are taken than were queued: the callback takes one
\* only after looking.
TypeOK == TypeFlags /\ TypeThreads /\ TypeQueues

Init ==
    /\ events = FALSE /\ foreign_spinlock = FALSE /\ inside_poll = FALSE
    /\ foreign_pfd_list = FALSE /\ handling_pollout = FALSE /\ leave_pollout_active = FALSE
    /\ pipe = FALSE
    /\ svc = At("sul") /\ kernel = FALSE /\ revents = {}
    /\ eff = FALSE /\ taken = FALSE /\ validity = "armed"
    /\ frg = "idle" /\ toBeWritten = 0 /\ sends = 0
    /\ fastQueue = <<>> /\ connects = {} /\ signalling = {}
    /\ torn = FALSE

-----------------------------------------------------------------------------
(* The thread in callWritable.  writableQueue.sync lets one at a time in.    *)

\* send(): the frame is in toBeWritten before callWritable is called
CallWritable ==
    /\ frg = "idle" /\ sends < maxSends
    /\ sends' = sends + 1 /\ toBeWritten' = toBeWritten + 1
    /\ frg' = "check"
    /\ UNCHANGED <<flagVars, pipe, svcVars, fastVars, torn>>

\* the service thread is handling POLLOUT: leave it a note instead
CheckHandling ==
    /\ frg = "check"
    /\ frg' = IF handling_pollout THEN "leave" ELSE "lock"
    /\ UNCHANGED <<flagVars, pipe, svcVars, toBeWritten, sends, fastVars, torn>>

LeaveActive ==
    /\ frg = "leave"
    /\ leave_pollout_active' = TRUE /\ frg' = "idle"
    /\ UNCHANGED <<events, foreign_spinlock, inside_poll, foreign_pfd_list,
                   handling_pollout, pipe, svcVars, toBeWritten, sends, fastVars, torn>>

Lock ==
    /\ frg = "lock"
    /\ foreign_spinlock' = TRUE /\ frg' = "look"
    /\ UNCHANGED <<events, inside_poll, foreign_pfd_list, handling_pollout,
                   leave_pollout_active, pipe, svcVars, toBeWritten, sends, fastVars, torn>>

Look ==
    /\ frg = "look"
    /\ frg' = IF inside_poll THEN "append" ELSE "unlock"
    /\ UNCHANGED <<flagVars, pipe, svcVars, toBeWritten, sends, fastVars, torn>>

\* the service thread is at work on the list
Draining ==
    svc.pc \in {"apply", "clear"} \/ (svc.pc \in {"change", "change2"} /\ svc.ret = "clear")

\* the service thread is in poll(): list the change.  The service thread may be at work on
\* the list all the same: then the entry may get lost with the list.
AppendChange ==
    /\ frg = "append"
    /\ foreign_pfd_list' = TRUE
    /\ torn' = (torn \/ Draining)
    /\ frg' = "unlockSignal"
    /\ UNCHANGED <<events, foreign_spinlock, inside_poll, handling_pollout,
                   leave_pollout_active, pipe, svcVars, toBeWritten, sends, fastVars>>

\* ... unlock, and lws_cancel_service_pt
UnlockSignal ==
    /\ frg = "unlockSignal"
    /\ foreign_spinlock' = FALSE /\ pipe' = TRUE /\ frg' = "idle"
    /\ UNCHANGED <<events, inside_poll, foreign_pfd_list, handling_pollout,
                   leave_pollout_active, svcVars, toBeWritten, sends, fastVars, torn>>

\* the service thread is not in poll(): unlock, then change the pollfd directly
Unlock ==
    /\ frg = "unlock"
    /\ foreign_spinlock' = FALSE /\ frg' = "set"
    /\ UNCHANGED <<events, inside_poll, foreign_pfd_list, handling_pollout,
                   leave_pollout_active, pipe, svcVars, toBeWritten, sends, fastVars, torn>>

\* Nobody is signalled: service_tid is what the Swift callback returned for
\* LWS_CALLBACK_GET_THREAD_ID, 0, which stands for "not known".
SetEvents ==
    /\ frg = "set"
    /\ events' = TRUE /\ frg' = "idle"
    /\ UNCHANGED <<foreign_spinlock, inside_poll, foreign_pfd_list, handling_pollout,
                   leave_pollout_active, pipe, svcVars, toBeWritten, sends, fastVars, torn>>

-----------------------------------------------------------------------------
(* The callers of scheduleFastServiceExecution.                              *)

Queued == {fastQueue[i] : i \in DOMAIN fastQueue}

ScheduleFast(c) ==
    /\ c \notin connects
    /\ connects' = connects \cup {c}
    /\ fastQueue' = Append(fastQueue, c)
    /\ signalling' = signalling \cup {c}
    /\ UNCHANGED <<flagVars, pipe, svcVars, sendVars, torn>>

\* mutant: the service thread is signalled only if it waits
ForceCancelServiceWaiting(c) ==
    /\ c \in signalling
    /\ pipe' = (pipe \/ inside_poll)
    /\ signalling' = signalling \ {c}
    /\ UNCHANGED <<flagVars, svcVars, sendVars, fastQueue, connects, torn>>

\* forceCancelService: lws_cancel_service
ForceCancelService(c) ==
    /\ c \in signalling
    /\ pipe' = TRUE
    /\ signalling' = signalling \ {c}
    /\ UNCHANGED <<flagVars, svcVars, sendVars, fastQueue, connects, torn>>
-----------------------------------------------------------------------------
(* The service thread: scheduleServiceCall's closure, for ever.              *)

Goto(pc) == svc' = At(pc)

\* mutant: the ping is written at once, without asking for POLLOUT
ValidityCheckQuiet == validity' = "pinged" /\ Goto("enter")

\* lws_validity_cb, rops_issue_keepalive_ws: ask for POLLOUT to send a ping
ValidityCheck == validity' = "check" /\ svc' = Change(TRUE, "enter")

ServiceRipe ==
    /\ svc.pc = "sul"
    /\ \/ validity = "due" /\ ValidityCheck
       \/ validity # "due" /\ Goto("enter") /\ UNCHANGED validity
    /\ UNCHANGED <<flagVars, pipe, kernel, revents, eff, taken, users>>

EnterPoll ==
    /\ svc.pc = "enter"
    /\ inside_poll' = TRUE /\ Goto("entered")
    /\ UNCHANGED <<events, foreign_spinlock, foreign_pfd_list, handling_pollout,
                   leave_pollout_active, pipe, kernel, revents, eff, taken, validity, users>>

\* poll() copies the pollfds as it starts to wait
PollWait ==
    /\ svc.pc = "entered"
    /\ kernel' = events /\ Goto("polling")
    /\ UNCHANGED <<flagVars, pipe, revents, eff, taken, validity, users>>

\* poll() returns what is ready
Wake ==
    /\ svc.pc = "polling"
    /\ revents' = {e \in {"pipe", "out"} : IF e = "pipe" THEN pipe ELSE kernel}
    /\ events' = IF copiesBack THEN kernel ELSE events
    /\ torn' = (torn \/ events' # events)
    /\ Goto("woken")
    /\ UNCHANGED <<foreign_spinlock, inside_poll, foreign_pfd_list, handling_pollout,
                   leave_pollout_active, pipe, kernel, eff, taken, sendVars, fastVars>>

PollReturn == (pipe \/ kernel) /\ Wake /\ UNCHANGED validity

\* its timeout, set to the next scheduled event, has passed with nothing ready
PollTimeout == validity = "due" /\ ~pipe /\ ~kernel /\ Wake /\ UNCHANGED validity

\* the peer's PONG is there: lws_validity_confirmed
PollPong == validity = "pinged" /\ Wake /\ validity' = "armed"

\* the clock: 300 s have passed
ValidityRipe ==
    /\ validity = "armed" /\ validity' = "due"
    /\ UNCHANGED <<flagVars, pipe, svc, kernel, revents, eff, taken, users>>

LeavePoll ==
    /\ svc.pc = "woken"
    /\ inside_poll' = FALSE /\ Goto("spin")
    /\ UNCHANGED <<events, foreign_spinlock, foreign_pfd_list, handling_pollout,
                   leave_pollout_active, pipe, kernel, revents, eff, taken, validity, users>>

\* spin until no foreign thread is changing the list, then walk it
DrainRead ==
    /\ svc.pc = "spin" /\ ~foreign_spinlock
    /\ taken' = foreign_pfd_list /\ Goto("apply")
    /\ UNCHANGED <<flagVars, pipe, kernel, revents, eff, validity, users>>

\* mutant: the list is dropped
DrainApplySkipped ==
    /\ svc.pc = "apply"
    /\ Goto("clear")
    /\ UNCHANGED <<flagVars, pipe, kernel, revents, eff, taken, validity, users>>

DrainApply ==
    /\ svc.pc = "apply"
    /\ svc' = IF taken THEN Change(TRUE, "clear") ELSE At("clear")
    /\ UNCHANGED <<flagVars, pipe, kernel, revents, eff, taken, validity, users>>

DrainClear ==
    /\ svc.pc = "clear"
    /\ foreign_pfd_list' = FALSE /\ Goto("pipe")
    /\ UNCHANGED <<events, foreign_spinlock, inside_poll, handling_pollout,
                   leave_pollout_active, pipe, kernel, revents, eff, taken, validity, users>>

\* rops_handle_POLLIN_pipe, the first slot of the fds table
ServePipe ==
    /\ svc.pc = "pipe"
    /\ pipe' = (pipe /\ "pipe" \notin revents)
    /\ Goto(IF "out" \in revents THEN "out" ELSE "fast")
    /\ UNCHANGED <<flagVars, kernel, revents, eff, taken, validity, users>>

\* lws_handle_POLLOUT_event
BeginPollout ==
    /\ svc.pc = "out"
    /\ leave_pollout_active' = FALSE /\ handling_pollout' = TRUE /\ Goto("role")
    /\ UNCHANGED <<events, foreign_spinlock, inside_poll, foreign_pfd_list, pipe, kernel,
                   revents, eff, taken, validity, users>>

\* rops_handle_POLLOUT_ws: the ping goes first, and POLLOUT stays on
HandlePolloutWs ==
    /\ svc.pc = "role"
    /\ \/ validity = "check" /\ validity' = "pinged" /\ Goto("bail")
       \/ validity # "check" /\ Goto("drop") /\ UNCHANGED validity
    /\ UNCHANGED <<flagVars, pipe, kernel, revents, eff, taken, users>>

BailOk ==
    /\ svc.pc = "bail"
    /\ handling_pollout' = FALSE /\ leave_pollout_active' = FALSE /\ Goto("fast")
    /\ UNCHANGED <<events, foreign_spinlock, inside_poll, foreign_pfd_list, pipe, kernel,
                   revents, eff, taken, validity, users>>

\* one shot: POLLOUT goes off unless somebody asked for it meanwhile
DropPollout ==
    /\ svc.pc = "drop"
    /\ eff' = leave_pollout_active
    /\ svc' = IF leave_pollout_active THEN At("unhandle") ELSE Change(FALSE, "unhandle")
    /\ UNCHANGED <<flagVars, pipe, kernel, revents, taken, validity, users>>

\* mutant: handling_pollout stays set
EndHandlingForgotten ==
    /\ svc.pc = "unhandle"
    /\ Goto("recheck")
    /\ UNCHANGED <<flagVars, pipe, kernel, revents, eff, taken, validity, users>>

EndHandling ==
    /\ svc.pc = "unhandle"
    /\ handling_pollout' = FALSE /\ Goto("recheck")
    /\ UNCHANGED <<events, foreign_spinlock, inside_poll, foreign_pfd_list,
                   leave_pollout_active, pipe, kernel, revents, eff, taken, validity, users>>

Recheck ==
    /\ svc.pc = "recheck"
    /\ svc' = IF ~eff /\ leave_pollout_active THEN Change(TRUE, "reset") ELSE At("reset")
    /\ UNCHANGED <<flagVars, pipe, kernel, revents, eff, taken, validity, users>>

ResetLeave ==
    /\ svc.pc = "reset"
    /\ leave_pollout_active' = FALSE /\ Goto("callback")
    /\ UNCHANGED <<events, foreign_spinlock, inside_poll, foreign_pfd_list,
                   handling_pollout, pipe, kernel, revents, eff, taken, validity, users>>

\* the Swift callback asks for the next CLIENT_WRITEABLE
AskAgain == Change(TRUE, "after")

\* CLIENT_WRITEABLE: write the first frame, if there is one
Callback ==
    /\ svc.pc = "callback"
    /\ IF toBeWritten > 0
       THEN toBeWritten' = toBeWritten - 1 /\ svc' = AskAgain
       ELSE UNCHANGED toBeWritten /\ Goto("after")
    /\ UNCHANGED <<flagVars, pipe, kernel, revents, eff, taken, validity, frg, sends, fastVars,
                   torn>>

AfterCallback ==
    /\ svc.pc = "after"
    /\ svc' = IF leave_pollout_active THEN Change(TRUE, "fast") ELSE At("fast")
    /\ UNCHANGED <<flagVars, pipe, kernel, revents, eff, taken, validity, users>>

\* the closures, one by one, then the next lws_service
RunFast ==
    /\ svc.pc = "fast"
    /\ IF fastQueue # <<>>
       THEN fastQueue' = Tail(fastQueue) /\ UNCHANGED svc
       ELSE UNCHANGED fastQueue /\ Goto("sul")
    /\ UNCHANGED <<flagVars, pipe, kernel, revents, eff, taken, validity, sendVars, connects,
                   signalling, torn>>

\* _lws_change_pollfd on the service thread takes and drops the same flag a foreign thread
\* uses as its lock
ChangeLock ==
    /\ svc.pc = "change"
    /\ foreign_spinlock' = TRUE
    /\ svc' = [svc EXCEPT !.pc = "change2"]
    /\ UNCHANGED <<events, inside_poll, foreign_pfd_list, handling_pollout,
                   leave_pollout_active, pipe, kernel, revents, eff, taken, validity, users>>

ChangeSet ==
    /\ svc.pc = "change2"
    /\ foreign_spinlock' = FALSE /\ events' = svc.on
    /\ Goto(svc.ret)
    /\ UNCHANGED <<inside_poll, foreign_pfd_list, handling_pollout, leave_pollout_active,
                   pipe, kernel, revents, eff, taken, validity, users>>

-----------------------------------------------------------------------------

Foreign == CheckHandling \/ LeaveActive \/ Lock \/ Look \/ AppendChange \/ UnlockSignal
           \/ Unlock \/ SetEvents
Fast == \E c \in Closures : ScheduleFast(c) \/ ForceCancelService(c)
Service == \/ ServiceRipe \/ EnterPoll \/ PollWait \/ PollReturn \/ PollTimeout \/ PollPong
           \/ LeavePoll \/ DrainRead \/ DrainApply \/ DrainClear \/ ServePipe
           \/ BeginPollout \/ HandlePolloutWs \/ BailOk \/ DropPollout \/ EndHandling \/ Recheck
           \/ ResetLeave \/ Callback \/ AfterCallback \/ RunFast \/ ChangeLock \/ ChangeSet

Next == CallWritable \/ Foreign \/ Fast \/ Service \/ ValidityRipe

Spec == Init /\ [][Next]_vars

\* Threads that are in the middle of something go on, poll() returns when something is
\* ready or its timeout has passed, the clock goes on, and the peer answers pings (one that
\* does not is hung up on 10 s later).
FairSpec == /\ Spec
            /\ WF_vars(Foreign) /\ WF_vars(Service) /\ WF_vars(ValidityRipe)
-----------------------------------------------------------------------------

\* on the way to the Swift callback, which will look at the write queue
BeforeCallback ==
    \/ svc.pc \in {"out", "role"} /\ validity # "check"
    \/ svc.pc \in {"drop", "unhandle", "recheck", "reset", "callback"}
    \/ svc.pc \in {"change", "change2"} /\ svc.ret \in {"unhandle", "reset"}

\* turning POLLOUT on
TurningOn == svc.pc \in {"change", "change2"} /\ svc.on

\* A frame that waits is never forgotten: POLLOUT is set or being set, a change is listed,
\* its sender is still asking, or the callback is about to look.  Only a request that meets
\* the service thread's own access can be lost: written over by poll() as it returns, or
\* put on the list under the service thread's hands.
AskNotForgotten ==
    toBeWritten > 0 =>
        \/ events \/ foreign_pfd_list \/ frg # "idle" \/ BeforeCallback \/ TurningOn
        \/ torn

\* A note left in leave_pollout_active may come too late to be read, but never for a frame
\* the callback will not see: it is about to look, or POLLOUT is on.
LateNoteHarmless ==
    frg = "leave" /\ toBeWritten > 0 => BeforeCallback \/ events \/ TurningOn

\* after the pipe is read and before the closures have run
Running ==
    LET pc == IF svc.pc \in {"change", "change2"} THEN svc.ret ELSE svc.pc
    IN  pc \in {"out", "role", "bail", "drop", "unhandle", "recheck", "reset", "callback",
               "after", "fast"}

\* The service thread does not go to sleep on a closure: one whose caller has signalled
\* keeps the pipe readable until the service thread is on its way to run it.
FastWakes == Queued \ signalling # {} => pipe \/ Running

\* Every frame is written, at the latest when the validity check comes.
FramesWritten == toBeWritten > 0 ~> toBeWritten = 0

-----------------------------------------------------------------------------
(* What the comments say and the code does not do.                           *)

\* pollfd.c: "if we changed something in this pollfd... and we're running in a different
\* thread context than the service thread... and the service thread is waiting ... then
\* cancel it to force a restart with our changed events"
WaitingServiceCancelled ==
    svc.pc = "polling" /\ frg = "idle" /\ events => kernel \/ pipe
=============================================================================
