------------------------- MODULE PingIntervalProofs -------------------------
(***************************************************************************)
(* For any number of threads that set pingInterval, any number of calls    *)
(* and any set of timers: PingInterval is well typed, and the keep-alive   *)
(* is lost in one way only, a set to nil that cancels the task of a later  *)
(* set, and closes too early in one way only, a set whose task meets       *)
(* another one.                                                            *)
(***************************************************************************)
EXTENDS PingInterval, TLAPS

\* The types of what a step of the loop, of a timer or of the setters changes.
TypeLoop ==
    /\ scheduledTask \in Timers \cup {NoTimer} /\ scheduled \subseteq Timers
    /\ loop \in Seq(Timers \cup {NoTimer}) /\ running \in Timers \cup {NoTimer}
    /\ \A i \in DOMAIN loop : loop[i] \notin scheduled
    /\ pc \in {"idle", "test", "expire", "ping", "schedule"}
TypeSetter ==
    /\ taskLock \in Setters \cup {NoSetter}
    /\ setter \in [Setters -> Setting \cup {NotSetting}] /\ sets \in 0..maxSets
TypeFlags ==
    /\ pingInterval \in BOOLEAN /\ waitingForPong \in BOOLEAN
    /\ closeAsked \in BOOLEAN /\ closed \in BOOLEAN /\ peerAlive \in BOOLEAN
    /\ overtaken \in BOOLEAN /\ crossed \in BOOLEAN

TypeParts == TypeLoop /\ TypeSetter /\ TypeFlags

\* They are all of TypeOK.
LEMMA TypeSplit == (TypeOK => TypeParts) /\ (TypeParts => TypeOK)
  BY DEF TypeParts, TypeOK, TypeLoop, TypeSetter, TypeFlags

\* A queue that grows by an element that is not scheduled keeps its type.
LEMMA AppendDue ==
  ASSUME TypeLoop, NEW k \in Timers \cup {NoTimer}, NEW S \in SUBSET scheduled, k \notin S
  PROVE  /\ Append(loop, k) \in Seq(Timers \cup {NoTimer})
         /\ \A i \in DOMAIN Append(loop, k) : Append(loop, k)[i] \notin S
  BY DEF TypeLoop

\* Init makes the types.
LEMMA TypeInit == Init => TypeParts
<1> SUFFICES ASSUME Init PROVE TypeParts OBVIOUS
<1>1. TypeLoop BY DEF Init, TypeLoop
<1>2. TypeSetter BY SetsAssumption DEF Init, TypeSetter
<1>3. TypeFlags BY DEF Init, TypeFlags
<1> QED BY <1>1, <1>2, <1>3 DEF TypeParts

\* A step of pingInterval's setter keeps the types.
LEMMA TypeSet ==
  ASSUME TypeParts, NEW t \in Setters, SetStep(t) \/ \E on \in BOOLEAN : Set(t, on)
  PROVE  TypeParts'
<1> USE DEF TypeParts
<1>1. TypeLoop /\ TypeSetter /\ TypeFlags OBVIOUS
<1>2. ASSUME NEW on \in BOOLEAN, Set(t, on) PROVE TypeParts'
  <2>1. setter' \in [Setters -> Setting \cup {NotSetting}] BY <1>1, <1>2 DEF Set, TypeSetter, Setting
  <2>2. sets' \in 0..maxSets BY <1>1, <1>2, SetsAssumption DEF Set, TypeSetter
  <2> QED BY <1>1, <1>2, <2>1, <2>2
          DEF Set, TypeLoop, TypeSetter, TypeFlags, loopVars, setVars, connVars
<1>3. CASE SetCancel(t)
  <2>1. setter' \in [Setters -> Setting \cup {NotSetting}]
    BY <1>1, <1>3 DEF SetCancel, TypeSetter, Setting, NotSetting
  <2> QED BY <1>1, <1>3, <2>1
          DEF SetCancel, TypeLoop, TypeSetter, TypeFlags, loopVars, setVars, connVars
<1>4. CASE SetReset(t)
  <2>1. setter' \in [Setters -> Setting \cup {NotSetting}]
    BY <1>1, <1>4 DEF SetReset, TypeSetter, Setting, NotSetting
  <2> QED BY <1>1, <1>4, <2>1
          DEF SetReset, TypeLoop, TypeSetter, TypeFlags, loopVars, setVars, connVars
<1>5. CASE SetExecute(t)
  <2>1. NoTimer \notin scheduled BY <1>1, SetsAssumption DEF TypeLoop
  <2>2. TypeLoop' BY <1>1, <1>5, <2>1, AppendDue DEF SetExecute, TypeLoop
  <2>3. crossed' \in BOOLEAN BY <1>5 DEF SetExecute, Crosses
  <2>4. setter' \in [Setters -> Setting \cup {NotSetting}] BY <1>1, <1>5 DEF SetExecute, TypeSetter
  <2> QED BY <1>1, <1>5, <2>2, <2>3, <2>4 DEF SetExecute, TypeSetter, TypeFlags, connVars
<1> QED BY <1>2, <1>3, <1>4, <1>5 DEF SetStep

\* A step of the loop or of a timer keeps the types.
LEMMA TypeStep ==
  ASSUME TypeParts, LoopStep \/ TimerStep
  PROVE  TypeParts'
<1> USE DEF TypeParts
<1>1. TypeLoop /\ TypeSetter /\ TypeFlags OBVIOUS
<1>2. CASE Start
  <2>1. loop' \in Seq(Timers \cup {NoTimer}) /\ Head(loop) \in Timers \cup {NoTimer}
    BY <1>1, <1>2 DEF Start, TypeLoop
  <2>2. \A i \in DOMAIN loop' : loop'[i] \notin scheduled
    BY <1>1, <1>2 DEF Start, TypeLoop
  <2> QED BY <1>1, <1>2, <2>1, <2>2 DEF Start, TypeLoop, TypeSetter, TypeFlags, setVars, connVars
<1>3. CASE Test BY <1>1, <1>3 DEF Test, TypeLoop, TypeSetter, TypeFlags, setVars, connVars
<1>4. CASE Expire BY <1>1, <1>4 DEF Expire, TypeLoop, TypeSetter, TypeFlags, setVars
<1>5. CASE Ping BY <1>1, <1>5 DEF Ping, TypeLoop, TypeSetter, TypeFlags, setVars, connVars
<1>6. CASE Schedule
  BY <1>1, <1>6 DEF Schedule, TypeLoop, TypeSetter, TypeFlags, setVars, connVars
<1>7. ASSUME NEW k \in Timers, TimerDue(k) PROVE TypeParts'
  <2>1. TypeLoop' BY <1>1, <1>7, AppendDue DEF TimerDue, TypeLoop
  <2> QED BY <1>1, <1>7, <2>1 DEF TimerDue, TypeSetter, TypeFlags, setVars, connVars
<1> QED BY <1>2, <1>3, <1>4, <1>5, <1>6, <1>7 DEF LoopStep, TimerStep

\* PingInterval.TypeOK: the values of the keep-alive have their types, and a task that is
\* due is not scheduled any more, so that cancel() and due cannot both be had.
THEOREM TypeCorrect == Spec => []TypeOK
<1>1. TypeParts /\ [Next]_vars => TypeParts'
  <2> SUFFICES ASSUME TypeParts, [Next]_vars PROVE TypeParts' OBVIOUS
  <2>1. CASE \E t \in Setters : SetStep(t) \/ \E on \in BOOLEAN : Set(t, on)
    BY <2>1, TypeSet
  <2>2. CASE LoopStep \/ TimerStep BY <2>2, TypeStep
  <2> USE DEF loopVars, setVars, connVars, TypeParts, TypeLoop, TypeSetter, TypeFlags
  <2>3. CASE Pong BY <2>3 DEF Pong
  <2>4. CASE PeerDies BY <2>4 DEF PeerDies
  <2>5. CASE ConnectionEnds BY <2>5 DEF ConnectionEnds
  <2>6. CASE UNCHANGED vars BY <2>6 DEF vars
  <2> QED BY <2>1, <2>2, <2>3, <2>4, <2>5, <2>6 DEF Next
<1> QED BY TypeInit, TypeSplit, <1>1, PTL DEF Spec

-----------------------------------------------------------------------------
(* The chain of ping tasks.                                                  *)

\* A thread is on its way to put a task on the loop.
Starting == \E t \in Setters : setter[t].on

\* While an interval is set, no close was asked for and no late nil took the task away,
\* something will ping: a setter of an interval on its way to the loop, a task due or
\* running, or the task scheduled last.
Chain ==
    pingInterval /\ ~closeAsked /\ ~overtaken =>
        Starting \/ loop # <<>> \/ pc # "idle" \/ scheduledTask \in scheduled

ChainInv == TypeOK /\ Chain

\* What one setter does is no other's progress.
LEMMA OthersGoOn ==
  ASSUME TypeOK, NEW t \in Setters, NEW v, setter' = [setter EXCEPT ![t] = v],
         setter[t].on => v.on
  PROVE  Starting => Starting'
<1> SUFFICES ASSUME NEW s \in Setters, setter[s].on PROVE \E u \in Setters : setter'[u].on
  BY DEF Starting
<1>1. CASE s = t BY <1>1 DEF TypeOK
<1>2. CASE s # t BY <1>2 DEF TypeOK
<1> QED BY <1>1, <1>2

\* The setters keep the chain: the last step of one that sets an interval leaves a task on
\* the loop; one that sets nil cancels a task that is scheduled only while nil is stored,
\* or overtakes.
LEMMA ChainSet ==
  ASSUME ChainInv, NEW t \in Setters, SetStep(t) \/ \E on \in BOOLEAN : Set(t, on)
  PROVE  Chain'
<1>1. TypeOK /\ Chain /\ setter \in [Setters -> Setting \cup {NotSetting}]
  BY DEF ChainInv, TypeOK
<1>2. ASSUME NEW on \in BOOLEAN, Set(t, on) PROVE Chain'
  <2>1. CASE on
    <3>1. setter'[t].on BY <1>1, <1>2, <2>1 DEF Set
    <3> QED BY <3>1 DEF Chain, Starting
  <2>2. CASE ~on BY <1>2, <2>2 DEF Set, Chain
  <2> QED BY <2>1, <2>2
<1>3. CASE SetCancel(t)
  <2>1. Starting => Starting'
    <3> DEFINE v == [setter[t] EXCEPT !.at = "reset"]
    <3>1. setter' = [setter EXCEPT ![t] = v] BY <1>3 DEF SetCancel
    <3>2. setter[t].on => v.on BY <1>1 DEF Setting, NotSetting
    <3> HIDE DEF v
    <3> QED BY <1>1, <3>1, <3>2, OthersGoOn
  <2>2. CASE setter[t].on
    <3>1. Starting BY <2>2 DEF Starting
    <3> QED BY <2>1, <3>1 DEF Chain
  <2>3. CASE ~setter[t].on /\ pingInterval /\ scheduledTask \in scheduled
    <3>1. overtaken' BY <1>3, <2>3 DEF SetCancel, Overtakes
    <3> QED BY <3>1 DEF Chain
  <2>4. CASE ~pingInterval \/ scheduledTask \notin scheduled
    <3>1. /\ pingInterval' = pingInterval /\ closeAsked' = closeAsked
          /\ loop' = loop /\ pc' = pc /\ (~overtaken' => ~overtaken)
      BY <1>3 DEF SetCancel, loopVars, connVars
    <3> QED BY <1>1, <2>1, <2>4, <3>1 DEF Chain
  <2> QED BY <2>2, <2>3, <2>4
<1>4. CASE SetReset(t)
  <2>1. /\ pingInterval' = pingInterval /\ closeAsked' = closeAsked /\ loop' = loop
        /\ pc' = pc /\ overtaken' = overtaken /\ scheduledTask' = scheduledTask
        /\ scheduled' = scheduled
    BY <1>4 DEF SetReset, loopVars, connVars, setVars
  <2>2. Starting => Starting'
    <3> DEFINE v == IF setter[t].on THEN [setter[t] EXCEPT !.at = "execute"] ELSE NotSetting
    <3>1. setter' = [setter EXCEPT ![t] = v] BY <1>4 DEF SetReset
    <3>2. setter[t].on => v.on BY <1>1 DEF Setting, NotSetting
    <3> HIDE DEF v
    <3> QED BY <1>1, <3>1, <3>2, OthersGoOn
  <2> QED BY <1>1, <2>1, <2>2 DEF Chain
<1>5. CASE SetExecute(t)
  <2>1. loop' # <<>> BY <1>1, <1>5 DEF SetExecute, TypeOK
  <2> QED BY <2>1 DEF Chain
<1> QED BY <1>2, <1>3, <1>4, <1>5 DEF SetStep

\* The loop and the timers keep the chain: a task that runs schedules the next one, or
\* asks for the close, or finds no interval.
LEMMA ChainStep ==
  ASSUME ChainInv, LoopStep \/ TimerStep
  PROVE  Chain'
<1>1. pingInterval' = pingInterval
  BY DEF LoopStep, TimerStep, Start, Test, Expire, Ping, Schedule, TimerDue
<1>2. CASE Start
  <2>1. pingInterval => pc' = "test" BY <1>2 DEF Start
  <2> QED BY <1>1, <2>1 DEF Chain
<1>3. CASE Test \/ Ping
  <2>1. pc' # "idle" BY <1>3 DEF Test, Ping
  <2> QED BY <2>1 DEF Chain
<1>4. CASE Expire BY <1>4 DEF Expire, Chain
<1>5. CASE Schedule BY <1>5 DEF Schedule, Chain
<1>6. ASSUME NEW k \in Timers, TimerDue(k) PROVE Chain'
  <2>1. loop' # <<>> BY <1>6 DEF TimerDue, ChainInv, TypeOK
  <2> QED BY <2>1 DEF Chain
<1> QED BY <1>2, <1>3, <1>4, <1>5, <1>6 DEF LoopStep, TimerStep

\* PingInterval.KeepaliveRuns, for any number of threads that set the interval, any number
\* of calls and timers, and every order of their locked steps, due timers, cancellations,
\* pongs and the loop's steps.
THEOREM KeepaliveRunsCorrect == Spec => []KeepaliveRuns
<1>1. Init => Chain
  BY DEF Init, Chain
<1>2. ChainInv /\ [Next]_vars => Chain'
  <2> SUFFICES ASSUME ChainInv, [Next]_vars PROVE Chain' OBVIOUS
  <2>1. CASE \E t \in Setters : SetStep(t) \/ \E on \in BOOLEAN : Set(t, on)
    BY <2>1, ChainSet
  <2>2. CASE LoopStep \/ TimerStep BY <2>2, ChainStep
  <2>3. CASE Pong \/ PeerDies \/ ConnectionEnds \/ UNCHANGED vars
    <3>1. /\ pingInterval' = pingInterval /\ closeAsked' = closeAsked
          /\ overtaken' = overtaken /\ setter' = setter /\ loop' = loop /\ pc' = pc
          /\ scheduledTask' = scheduledTask /\ scheduled' = scheduled
      BY <2>3 DEF Pong, PeerDies, ConnectionEnds, vars, loopVars, connVars, setVars
    <3> QED BY <3>1 DEF ChainInv, Chain, Starting
  <2> QED BY <2>1, <2>2, <2>3 DEF Next
<1>3. TypeOK /\ Chain => KeepaliveRuns
  <2>1. NoSetting => ~Starting BY DEF NoSetting, Starting, NotSetting
  <2> QED BY <2>1 DEF Chain, KeepaliveRuns, Quiet, Idle
<1>4. Spec => []TypeOK BY TypeCorrect
<1> QED BY <1>1, <1>2, <1>3, <1>4, PTL DEF Spec, ChainInv

-----------------------------------------------------------------------------
(* The close.                                                                *)

\* Who is in the setter's second part has the task's lock.
LockInv == \A t \in Setters : setter[t].at \in {"reset", "execute"} => taskLock = t

\* Once it has forgotten the old ping, only a task that runs meanwhile can have sent a new
\* one, and that task has yet to schedule the next.
ForgotInv ==
    \A t \in Setters : setter[t].at = "execute" /\ waitingForPong => pc = "schedule"

\* There is one task at most: on the loop, running or scheduled.
Alone ==
    /\ Len(loop) <= 1
    /\ loop # <<>> => Idle /\ scheduled = {}
    /\ ~Idle => scheduled = {}
    /\ scheduled \subseteq {scheduledTask}

\* And it is the one scheduled last, or the setter's, which finds no ping to wait for.
Latest ==
    /\ loop # <<>> => \/ loop[1] = scheduledTask
                      \/ loop[1] = NoTimer /\ ~waitingForPong
    /\ pc = "test" => \/ running = scheduledTask
                      \/ running = NoTimer /\ ~waitingForPong
    /\ pc = "expire" => running = scheduledTask

CloseInv == TypeOK /\ LockInv /\ ForgotInv /\ (~crossed => Alone /\ Latest)

\* The setters keep it: what they put on the loop is alone there, or they cross.
LEMMA CloseSet ==
  ASSUME CloseInv, NEW t \in Setters, SetStep(t) \/ \E on \in BOOLEAN : Set(t, on)
  PROVE  LockInv' /\ ForgotInv' /\ (~crossed => Alone /\ Latest)'
<1>1. /\ TypeOK /\ LockInv /\ ForgotInv /\ (~crossed => Alone /\ Latest)
      /\ setter \in [Setters -> Setting \cup {NotSetting}]
  BY DEF CloseInv, TypeOK
<1>2. \A s \in Setters : setter[s] \in Setting \/ setter[s] = NotSetting BY <1>1
<1>3. \A s \in Setters : s # NoSetter BY SetsAssumption
<1>4. ASSUME NEW on \in BOOLEAN, Set(t, on)
      PROVE  LockInv' /\ ForgotInv' /\ (~crossed => Alone /\ Latest)'
  <2>1. \A s \in Setters : setter'[s].at = IF s = t THEN "cancel" ELSE setter[s].at
    BY <1>1, <1>4 DEF Set
  <2>2. LockInv' BY <1>1, <1>4, <2>1 DEF Set, LockInv
  <2>3. ForgotInv' BY <1>1, <1>4, <2>1 DEF Set, ForgotInv, loopVars
  <2>4. (~crossed => Alone /\ Latest)'
    BY <1>1, <1>4 DEF Set, Alone, Latest, Idle, loopVars
  <2> QED BY <2>2, <2>3, <2>4
<1>5. CASE SetCancel(t)
  <2>1. \A s \in Setters : setter'[s].at = IF s = t THEN "reset" ELSE setter[s].at
    BY <1>1, <1>2, <1>5 DEF SetCancel, Setting, NotSetting
  <2>2. LockInv' BY <1>1, <1>3, <1>5, <2>1 DEF SetCancel, LockInv
  <2>3. ForgotInv' BY <1>1, <1>5, <2>1 DEF SetCancel, ForgotInv, loopVars
  <2>4. (~crossed => Alone /\ Latest)'
    BY <1>1, <1>5 DEF SetCancel, Alone, Latest, Idle, loopVars
  <2> QED BY <2>2, <2>3, <2>4
<1>6. CASE SetReset(t)
  <2>1. \A s \in Setters : s # t => setter'[s] = setter[s]
    BY <1>1, <1>6 DEF SetReset
  <2>2. setter'[t].at = IF setter[t].on THEN "execute" ELSE "no"
    BY <1>1, <1>2, <1>6 DEF SetReset, Setting, NotSetting
  <2>3. LockInv'
    <3>1. \A s \in Setters : s # t => setter[s].at \notin {"reset", "execute"}
      BY <1>1, <1>6 DEF SetReset, LockInv
    <3> QED BY <1>6, <2>1, <2>2, <3>1 DEF SetReset, LockInv
  <2>4. ForgotInv' BY <1>6 DEF SetReset, ForgotInv
  <2>5. (~crossed => Alone /\ Latest)'
    BY <1>1, <1>6 DEF SetReset, Alone, Latest, Idle, loopVars, setVars
  <2> QED BY <2>3, <2>4, <2>5
<1>7. CASE SetExecute(t)
  <2>1. \A s \in Setters : setter'[s].at = IF s = t THEN "no" ELSE setter[s].at
    BY <1>1, <1>7 DEF SetExecute, NotSetting
  <2>2. LockInv' BY <1>1, <1>7, <2>1 DEF SetExecute, LockInv
  <2>3. ForgotInv' BY <1>1, <1>7, <2>1 DEF SetExecute, ForgotInv
  <2>4. ASSUME ~crossed' PROVE (Alone /\ Latest)'
    <3>1. loop = <<>> /\ Idle /\ scheduled = {} BY <1>7, <2>4 DEF SetExecute, Crosses
    <3>2. loop' = <<NoTimer>> BY <1>7, <3>1 DEF SetExecute
    <3>3. ~waitingForPong BY <1>1, <1>7, <3>1 DEF SetExecute, ForgotInv, Idle
    <3>4. pc' = "idle" /\ scheduled' = {} /\ ~waitingForPong'
      BY <1>7, <3>1, <3>3 DEF SetExecute, Idle
    <3> QED BY <3>2, <3>4 DEF Alone, Latest, Idle
  <2> QED BY <2>2, <2>3, <2>4
<1> QED BY <1>4, <1>5, <1>6, <1>7 DEF SetStep

\* The loop and the timers keep it: a task becomes the next one.
LEMMA CloseStep ==
  ASSUME CloseInv, LoopStep \/ TimerStep
  PROVE  LockInv' /\ ForgotInv' /\ (~crossed => Alone /\ Latest)'
<1>1. TypeOK /\ LockInv /\ ForgotInv /\ (~crossed => Alone /\ Latest)
  BY DEF CloseInv
<1>2. setter' = setter /\ taskLock' = taskLock /\ crossed' = crossed
  BY DEF LoopStep, TimerStep, Start, Test, Expire, Ping, Schedule, TimerDue, setVars
<1>3. LockInv' BY <1>1, <1>2 DEF LockInv
<1>4. CASE Start
  <2>1. ForgotInv' BY <1>1, <1>2, <1>4 DEF Start, ForgotInv, Idle
  <2>2. ASSUME ~crossed PROVE (Alone /\ Latest)'
    <3>1. /\ loop \in Seq(Timers \cup {NoTimer}) /\ loop # <<>> /\ Len(loop) <= 1
          /\ scheduled = {} /\ loop' = Tail(loop) /\ scheduled' = scheduled
      BY <1>1, <1>4, <2>2 DEF Start, Alone, TypeOK
    <3>2. loop' = <<>> /\ Head(loop) = loop[1] BY <3>1
    <3>3. CASE pingInterval
      BY <1>1, <1>4, <2>2, <3>1, <3>2, <3>3 DEF Start, Alone, Latest, Idle
    <3>4. CASE ~pingInterval
      BY <1>1, <1>4, <2>2, <3>1, <3>2, <3>4 DEF Start, Alone, Latest, Idle
    <3> QED BY <3>3, <3>4
  <2> QED BY <1>2, <1>3, <2>1, <2>2
<1>5. CASE Test
  <2>1. ForgotInv' BY <1>1, <1>2, <1>5 DEF Test, ForgotInv
  <2>2. ASSUME ~crossed PROVE (Alone /\ Latest)'
    BY <1>1, <1>5, <2>2 DEF Test, Alone, Latest, Idle
  <2> QED BY <1>2, <1>3, <2>1, <2>2
<1>6. CASE Expire
  <2>1. ForgotInv' BY <1>6 DEF Expire, ForgotInv
  <2>2. ASSUME ~crossed PROVE (Alone /\ Latest)'
    BY <1>1, <1>6, <2>2 DEF Expire, Alone, Latest, Idle
  <2> QED BY <1>2, <1>3, <2>1, <2>2
<1>7. CASE Ping
  <2>1. ForgotInv' BY <1>7 DEF Ping, ForgotInv
  <2>2. ASSUME ~crossed PROVE (Alone /\ Latest)'
    BY <1>1, <1>7, <2>2 DEF Ping, Alone, Latest, Idle
  <2> QED BY <1>2, <1>3, <2>1, <2>2
<1>8. CASE Schedule
  <2>1. \A t \in Setters : setter[t].at # "execute"
    BY <1>1, <1>8, SetsAssumption DEF Schedule, LockInv
  <2>2. ForgotInv' BY <1>2, <2>1 DEF ForgotInv
  <2>3. ASSUME ~crossed PROVE (Alone /\ Latest)'
    <3>1. scheduled = {} /\ loop = <<>> BY <1>1, <1>8, <2>3 DEF Schedule, Alone, Idle
    <3>2. loop' = <<>> /\ pc' = "idle" BY <1>8, <3>1 DEF Schedule
    <3>3. scheduled' = {scheduledTask'} BY <1>8, <3>1 DEF Schedule
    <3> QED BY <3>2, <3>3 DEF Alone, Latest, Idle
  <2> QED BY <1>2, <1>3, <2>2, <2>3
<1>9. ASSUME NEW k \in Timers, TimerDue(k)
      PROVE  LockInv' /\ ForgotInv' /\ (~crossed => Alone /\ Latest)'
  <2>1. ForgotInv' BY <1>1, <1>2, <1>9 DEF TimerDue, ForgotInv
  <2>2. ASSUME ~crossed PROVE (Alone /\ Latest)'
    <3>1. loop = <<>> /\ Idle /\ k = scheduledTask /\ scheduled = {k}
      BY <1>1, <1>9, <2>2 DEF TimerDue, Alone
    <3>2. loop' = <<k>> BY <1>9, <3>1 DEF TimerDue
    <3>3. /\ pc' = "idle" /\ scheduled' = {} /\ scheduledTask' = k
      BY <1>9, <3>1 DEF TimerDue, Idle
    <3> QED BY <3>2, <3>3 DEF Alone, Latest, Idle
  <2> QED BY <1>2, <1>3, <2>1, <2>2
<1> QED BY <1>4, <1>5, <1>6, <1>7, <1>8, <1>9 DEF LoopStep, TimerStep

\* PingInterval.NoSpuriousClose, for any number of threads that set the interval, any
\* number of calls and timers: without a set that crosses another task, the close of an
\* unanswered ping comes with the task that was scheduled with that ping.
THEOREM NoSpuriousCloseCorrect == Spec => []NoSpuriousClose
<1> DEFINE Parts == LockInv /\ ForgotInv /\ (~crossed => Alone /\ Latest)
<1>1. Init => Parts
  BY DEF Init, LockInv, ForgotInv, Alone, Latest, Idle, NotSetting
<1>2. CloseInv /\ [Next]_vars => Parts'
  <2> SUFFICES ASSUME CloseInv, [Next]_vars PROVE Parts' OBVIOUS
  <2>1. CASE \E t \in Setters : SetStep(t) \/ \E on \in BOOLEAN : Set(t, on)
    BY <2>1, CloseSet
  <2>2. CASE LoopStep \/ TimerStep BY <2>2, CloseStep
  <2>3. CASE Pong \/ PeerDies \/ ConnectionEnds \/ UNCHANGED vars
    <3>1. /\ (waitingForPong' => waitingForPong) /\ taskLock' = taskLock
          /\ crossed' = crossed /\ setter' = setter /\ loop' = loop /\ pc' = pc
          /\ scheduledTask' = scheduledTask /\ scheduled' = scheduled /\ running' = running
      BY <2>3 DEF Pong, PeerDies, ConnectionEnds, vars, loopVars, connVars, setVars
    <3> QED BY <3>1 DEF CloseInv, LockInv, ForgotInv, Alone, Latest, Idle
  <2> QED BY <2>1, <2>2, <2>3 DEF Next
<1>3. Parts => NoSpuriousClose BY DEF Latest, NoSpuriousClose
<1>4. Spec => []TypeOK BY TypeCorrect
<1>5. TypeOK /\ Parts => CloseInv BY DEF CloseInv
<1> HIDE DEF Parts
<1> QED BY <1>1, <1>2, <1>3, <1>4, <1>5, PTL DEF Spec
=============================================================================
