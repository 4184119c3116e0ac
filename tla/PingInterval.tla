--------------------------- MODULE PingInterval ---------------------------
(***************************************************************************)
(* WebsocketClient's keep-alive: the pingInterval property, the task that  *)
(* sends a ping and schedules itself one interval later, and the pongs     *)
(* that the service thread reports.  Any thread may set pingInterval; the  *)
(* three locked values (_pingInterval, scheduledPingIntervalTimeoutTask,   *)
(* waitingForPong) are locked one at a time.                               *)
(*                                                                         *)
(* A scheduled task is an identity in Timers; the event loop takes it when *)
(* it is due, and cancel() is without effect from then on.                 *)
(***************************************************************************)
EXTENDS Naturals, Sequences

CONSTANTS
    Setters,    \* threads that set pingInterval
    maxSets,    \* bound on how often they do, together
    Timers,     \* identities of scheduled tasks
    NoTimer, NoSetter

ASSUME SetsAssumption == maxSets \in Nat /\ NoTimer \notin Timers /\ NoSetter \notin Setters

VARIABLES
    pingInterval,       \* an interval is set (else nil)
    waitingForPong,
    scheduledTask,      \* scheduledPingIntervalTimeoutTask: the task scheduled last
    taskLock,           \* who holds the lock of that value
    scheduled,          \* tasks that are not due yet
    loop,               \* due tasks, and NoTimer for the setter's own closures
    pc, running,        \* the loop's progress in the task it runs, and which one that is
    setter,             \* each setting thread's progress, with the new value's kind
    sets,
    overtaken,          \* history: a set to nil cancelled the task of a later set
    crossed,            \* history: the last set put its task beside another one
    closeAsked, closed, \* close(.abnormalClose) was called; the connection has ended
    peerAlive

loopVars == <<loop, pc, running>>
setVars == <<sets, overtaken, crossed>>
connVars == <<closeAsked, closed, peerAlive>>
vars == <<pingInterval, waitingForPong, scheduledTask, taskLock, scheduled, loopVars,
          setter, setVars, connVars>>

Idle == pc = "idle"
Setting == [at : {"cancel", "reset", "execute"}, on : BOOLEAN]
NotSetting == [at |-> "no", on |-> FALSE]

\* Every variable has its type, and a task that is due is not scheduled any more.
TypeOK ==
    /\ pingInterval \in BOOLEAN /\ waitingForPong \in BOOLEAN
    /\ scheduledTask \in Timers \cup {NoTimer} /\ scheduled \subseteq Timers
    /\ taskLock \in Setters \cup {NoSetter}
    /\ loop \in Seq(Timers \cup {NoTimer}) /\ running \in Timers \cup {NoTimer}
    /\ \A i \in DOMAIN loop : loop[i] \notin scheduled
    /\ pc \in {"idle", "test", "expire", "ping", "schedule"}
    /\ setter \in [Setters -> Setting \cup {NotSetting}] /\ sets \in 0..maxSets
    /\ closeAsked \in BOOLEAN /\ closed \in BOOLEAN /\ peerAlive \in BOOLEAN
    /\ overtaken \in BOOLEAN /\ crossed \in BOOLEAN

Init ==
    /\ pingInterval = FALSE /\ waitingForPong = FALSE
    /\ scheduledTask = NoTimer /\ taskLock = NoSetter /\ scheduled = {}
    /\ loop = <<>> /\ pc = "idle" /\ running = NoTimer
    /\ setter = [t \in Setters |-> NotSetting] /\ sets = 0
    /\ overtaken = FALSE /\ crossed = FALSE
    /\ closeAsked = FALSE /\ closed = FALSE /\ peerAlive = TRUE

-----------------------------------------------------------------------------
(* pingInterval's setter on thread t.                                        *)

\* store the new value
Set(t, on) ==
    /\ setter[t] = NotSetting /\ sets < maxSets
    /\ sets' = sets + 1 /\ overtaken' = (overtaken /\ ~on)
    /\ pingInterval' = on
    /\ setter' = [setter EXCEPT ![t] = [at |-> "cancel", on |-> on]]
    /\ UNCHANGED <<waitingForPong, scheduledTask, taskLock, scheduled, loopVars, crossed,
                   connVars>>

\* t sets nil, and is about to cancel the task of an interval stored after its nil
Overtakes(t) == ~setter[t].on /\ pingInterval /\ scheduledTask \in scheduled

\* cancel the task scheduled last, with its lock held until the setter is done; another
\* thread may have stored its value, and its task may be the one scheduled, since Set
SetCancel(t) ==
    /\ setter[t].at = "cancel" /\ taskLock = NoSetter
    /\ taskLock' = t
    /\ scheduled' = scheduled \ {scheduledTask}
    /\ overtaken' = (overtaken \/ Overtakes(t))
    /\ setter' = [setter EXCEPT ![t].at = "reset"]
    /\ UNCHANGED <<pingInterval, waitingForPong, scheduledTask, loopVars, sets, crossed,
                   connVars>>

\* mutant: the new interval starts with the next timer
SetResetNoTask(t) ==
    /\ setter[t].at = "reset"
    /\ waitingForPong' = FALSE
    /\ setter' = [setter EXCEPT ![t] = NotSetting]
    /\ taskLock' = NoSetter
    /\ UNCHANGED <<pingInterval, scheduledTask, scheduled, loopVars, setVars, connVars>>

\* mutant: the ping of the old interval is still waited for
SetResetStillWaiting(t) ==
    /\ setter[t].at = "reset"
    /\ setter' = [setter EXCEPT ![t] = IF setter[t].on THEN [@ EXCEPT !.at = "execute"]
                                                       ELSE NotSetting]
    /\ taskLock' = IF setter[t].on THEN t ELSE NoSetter
    /\ UNCHANGED <<pingInterval, waitingForPong, scheduledTask, scheduled, loopVars, setVars,
                   connVars>>

\* forget the ping that was waited for
SetReset(t) ==
    /\ setter[t].at = "reset"
    /\ waitingForPong' = FALSE
    /\ setter' = [setter EXCEPT ![t] = IF setter[t].on THEN [@ EXCEPT !.at = "execute"]
                                                       ELSE NotSetting]
    /\ taskLock' = IF setter[t].on THEN t ELSE NoSetter
    /\ UNCHANGED <<pingInterval, scheduledTask, scheduled, loopVars, setVars, connVars>>

\* a task that the setter's cancel() did not take away, or came too late for, is there
Crosses == loop # <<>> \/ ~Idle \/ scheduled # {}

\* eventLoop.execute { pingAndScheduleNextTimeoutTask() }
SetExecute(t) ==
    /\ setter[t].at = "execute"
    /\ loop' = Append(loop, NoTimer)
    /\ crossed' = Crosses
    /\ setter' = [setter EXCEPT ![t] = NotSetting]
    /\ taskLock' = NoSetter
    /\ UNCHANGED <<pingInterval, waitingForPong, scheduledTask, scheduled, pc, running,
                   sets, overtaken, connVars>>

-----------------------------------------------------------------------------
(* pingAndScheduleNextTimeoutTask on the event loop.                         *)

\* an interval has passed since the task was scheduled
TimerDue(k) ==
    /\ k \in scheduled
    /\ scheduled' = scheduled \ {k}
    /\ loop' = Append(loop, k)
    /\ UNCHANGED <<pingInterval, waitingForPong, scheduledTask, taskLock, pc, running,
                   setter, setVars, connVars>>

\* take a task and read pingInterval
Start ==
    /\ Idle /\ loop # <<>>
    /\ loop' = Tail(loop)
    /\ IF pingInterval THEN pc' = "test" /\ running' = Head(loop)
                       ELSE UNCHANGED <<pc, running>>
    /\ UNCHANGED <<pingInterval, waitingForPong, scheduledTask, taskLock, scheduled, setter,
                   setVars, connVars>>

Test ==
    /\ pc = "test"
    /\ pc' = IF waitingForPong THEN "expire" ELSE "ping"
    /\ UNCHANGED <<pingInterval, waitingForPong, scheduledTask, taskLock, scheduled, loop,
                   running, setter, setVars, connVars>>

\* no pong since the last ping: close, and schedule nothing
Expire ==
    /\ pc = "expire"
    /\ waitingForPong' = FALSE
    /\ closeAsked' = TRUE
    /\ pc' = "idle" /\ running' = NoTimer
    /\ UNCHANGED <<pingInterval, scheduledTask, taskLock, scheduled, loop, setter, setVars,
                   closed, peerAlive>>

\* mutant: nobody waits for the answer
PingUnnoticed ==
    /\ pc = "ping" /\ pc' = "schedule"
    /\ UNCHANGED <<pingInterval, waitingForPong, scheduledTask, taskLock, scheduled, loop,
                   running, setter, setVars, connVars>>

\* wait for a pong; send the ping
Ping ==
    /\ pc = "ping"
    /\ waitingForPong' = TRUE
    /\ pc' = "schedule"
    /\ UNCHANGED <<pingInterval, scheduledTask, taskLock, scheduled, loop, running, setter,
                   setVars, connVars>>

\* schedule the next run, under the task's lock; the task stored before is not cancelled
Schedule ==
    /\ pc = "schedule" /\ taskLock = NoSetter
    /\ \E k \in Timers \ (scheduled \cup {scheduledTask}) :
         /\ \A i \in DOMAIN loop : loop[i] # k
         /\ scheduled' = scheduled \cup {k}
         /\ scheduledTask' = k
    /\ pc' = "idle" /\ running' = NoTimer
    /\ UNCHANGED <<pingInterval, waitingForPong, taskLock, loop, setter, setVars, connVars>>

-----------------------------------------------------------------------------
(* The service thread and the peer.                                          *)

\* RECEIVE_PONG, the answer to any ping or to none
Pong ==
    /\ peerAlive /\ ~closed
    /\ waitingForPong' = FALSE
    /\ UNCHANGED <<pingInterval, scheduledTask, taskLock, scheduled, loopVars, setter, setVars,
                   connVars>>

\* the peer answers no more
PeerDies ==
    /\ peerAlive
    /\ peerAlive' = FALSE
    /\ UNCHANGED <<pingInterval, waitingForPong, scheduledTask, taskLock, scheduled,
                   loopVars, setter, setVars, closeAsked, closed>>

\* the connection ends, on close(.abnormalClose) or for any other reason
ConnectionEnds ==
    /\ ~closed
    /\ closed' = TRUE
    /\ UNCHANGED <<pingInterval, waitingForPong, scheduledTask, taskLock, scheduled,
                   loopVars, setter, setVars, closeAsked, peerAlive>>

-----------------------------------------------------------------------------

SetStep(t) == SetCancel(t) \/ SetReset(t) \/ SetExecute(t)
LoopStep == Start \/ Test \/ Expire \/ Ping \/ Schedule
TimerStep == \E k \in Timers : TimerDue(k)
Next == \/ \E t \in Setters : SetStep(t) \/ \E on \in BOOLEAN : Set(t, on)
        \/ LoopStep \/ TimerStep \/ Pong \/ PeerDies \/ ConnectionEnds

Spec == Init /\ [][Next]_vars

\* A setter that was called returns, the loop runs its tasks, timers get due.  Nothing is
\* assumed of the peer or of the owner.
FairSpec ==
    /\ Spec /\ WF_vars(LoopStep) /\ WF_vars(TimerStep)
    /\ \A t \in Setters : WF_vars(SetStep(t))

-----------------------------------------------------------------------------
(* Properties.                                                               *)

NoSetting == \A t \in Setters : setter[t] = NotSetting
Quiet == Idle /\ loop = <<>> /\ NoSetting

\* While an interval is set and nothing has ended the connection the keep-alive is running:
\* with no setter and no task under way, the task scheduled last is pending.  Whatever the
\* threads that set it, due timers and cancellations do, one order alone loses the chain:
\* a set to nil that cancels, under the second lock, the task of an interval that another
\* thread has stored under the first one since.
KeepaliveRuns ==
    (Quiet /\ pingInterval /\ ~closeAsked /\ ~overtaken) => scheduledTask \in scheduled

\* A peer that has stopped answering is noticed: the client closes the connection, unless
\* the interval is taken away, or its task in that order.
DeadPeerCloses ==
    <>[](pingInterval /\ ~peerAlive /\ ~overtaken) => <>(closeAsked \/ closed)

\* The tasks retain the client.  Once the connection has ended they end too, though nobody
\* cancels them: without pongs the second run schedules no third.
PingingStops == closed ~> (scheduled = {} /\ loop = <<>> /\ Idle)

\* "The connection will be closed automatically if no pong is received" (until the next
\* interval comes, WebsocketConnection.swift): a task that closes is the one scheduled with
\* the last ping, so that ping had its interval.  Whatever was set before, by whichever
\* thread, the one exception is a set that puts its task beside another one, which then
\* takes the other's ping of a moment ago for unanswered.
NoSpuriousClose == (pc = "expire" /\ ~crossed) => running = scheduledTask
=============================================================================
