------------------------- MODULE PollServiceProofs -------------------------
(***************************************************************************)
(* Proofs about PollService, for any number of sends and closures.         *)
(***************************************************************************)
EXTENDS PollService, TLAPS, SequenceTheorems

(* Every action keeps the flags Boolean.                                     *)
LEMMA FlagsStep == TypeOK /\ [Next]_vars => TypeFlags'
<1> SUFFICES ASSUME TypeFlags, TypeThreads, [Next]_vars PROVE TypeFlags'
    BY DEF TypeOK
<1> USE DEF TypeFlags, TypeThreads
<1>1. CASE CallWritable BY <1>1, Zenon DEF CallWritable, flagVars, svcVars
<1>2. CASE Foreign
    <2>1. CASE CheckHandling BY <2>1, Zenon DEF CheckHandling, flagVars, svcVars
    <2>2. CASE LeaveActive BY <2>2, Zenon DEF LeaveActive, svcVars
    <2>3. CASE Lock BY <2>3, Zenon DEF Lock, svcVars
    <2>4. CASE Look BY <2>4, Zenon DEF Look, flagVars, svcVars
    <2>5. CASE AppendChange BY <2>5, Zenon DEF AppendChange, svcVars
    <2>6. CASE UnlockSignal BY <2>6, Zenon DEF UnlockSignal, svcVars
    <2>7. CASE Unlock BY <2>7, Zenon DEF Unlock, svcVars
    <2>8. CASE SetEvents BY <2>8, Zenon DEF SetEvents, svcVars
    <2> QED BY <1>2, <2>1, <2>2, <2>3, <2>4, <2>5, <2>6, <2>7, <2>8 DEF Foreign
<1>3. CASE Fast BY <1>3, Zenon DEF Fast, ScheduleFast, ForceCancelService, flagVars, svcVars
<1>4. CASE Service
    <2>1. CASE ServiceRipe BY <2>1, Zenon DEF ServiceRipe, flagVars, users
    <2>2. CASE EnterPoll BY <2>2, Zenon DEF EnterPoll, users
    <2>3. CASE PollWait BY <2>3, Zenon DEF PollWait, flagVars, users
    <2>4. CASE Wake
        <3>1. events' = kernel \/ events' = events BY <2>4, Zenon DEF Wake
        <3>2. torn' \in BOOLEAN BY <2>4, Zenon DEF Wake
        <3> QED BY <2>4, <3>1, <3>2, Zenon DEF Wake
    <2>5. PollReturn \/ PollTimeout \/ PollPong => Wake BY DEF PollReturn, PollTimeout, PollPong
    <2>6. CASE LeavePoll BY <2>6, Zenon DEF LeavePoll, users
    <2>7. CASE DrainRead BY <2>7, Zenon DEF DrainRead, flagVars, users
    <2>8. CASE DrainApply BY <2>8, Zenon DEF DrainApply, flagVars, users
    <2>9. CASE DrainClear BY <2>9, Zenon DEF DrainClear, users
    <2>10. CASE ServePipe BY <2>10, Zenon DEF ServePipe, flagVars, users
    <2>11. CASE BeginPollout BY <2>11, Zenon DEF BeginPollout, users
    <2>12. CASE HandlePolloutWs BY <2>12, Zenon DEF HandlePolloutWs, flagVars, users
    <2>13. CASE BailOk BY <2>13, Zenon DEF BailOk, users
    <2>14. CASE DropPollout BY <2>14, Zenon DEF DropPollout, flagVars, users
    <2>15. CASE EndHandling BY <2>15, Zenon DEF EndHandling, users
    <2>16. CASE Recheck BY <2>16, Zenon DEF Recheck, flagVars, users
    <2>17. CASE ResetLeave BY <2>17, Zenon DEF ResetLeave, users
    <2>18. CASE Callback BY <2>18, Zenon DEF Callback, flagVars, fastVars
    <2>19. CASE AfterCallback BY <2>19, Zenon DEF AfterCallback, flagVars, users
    <2>20. CASE RunFast BY <2>20, Zenon DEF RunFast, flagVars
    <2>21. CASE ChangeLock BY <2>21, Zenon DEF ChangeLock, users
    <2>22. CASE ChangeSet
        <3>1. svc.on \in BOOLEAN BY DEF SvcPcs
        <3> QED BY <2>22, <3>1, Zenon DEF ChangeSet, users
    <2> QED BY <1>4, <2>1, <2>2, <2>3, <2>4, <2>5, <2>6, <2>7, <2>8, <2>9, <2>10, <2>11,
               <2>12, <2>13, <2>14, <2>15, <2>16, <2>17, <2>18, <2>19, <2>20, <2>21, <2>22
            DEF Service
<1>5. CASE ValidityRipe BY <1>5, Zenon DEF ValidityRipe, flagVars, users
<1>6. CASE UNCHANGED vars BY <1>6, Zenon DEF vars, flagVars, svcVars, users
<1> QED BY <1>1, <1>2, <1>3, <1>4, <1>5, <1>6 DEF Next

(* Every action keeps the threads' control state in its range.               *)
LEMMA ThreadsStep == TypeOK /\ [Next]_vars => TypeThreads'
<1> SUFFICES ASSUME TypeFlags, TypeThreads, [Next]_vars PROVE TypeThreads'
    BY DEF TypeOK
<1> DEFINE S == [pc : SvcPcs \cup {"change", "change2"}, on : BOOLEAN, ret : SvcPcs]
<1>0. /\ \A pc \in SvcPcs : At(pc) \in S
      /\ \A on \in BOOLEAN, ret \in SvcPcs : Change(on, ret) \in S
    BY DEF At, Change
<1>1. ASSUME UNCHANGED <<svc, revents, validity>>, frg' \in FrgPcs PROVE TypeThreads'
    BY <1>1 DEF TypeThreads
<1>2. ASSUME svc' \in S, UNCHANGED <<revents, frg>>,
             validity' \in {"armed", "due", "check", "pinged"}
      PROVE  TypeThreads'
    BY <1>2 DEF TypeThreads
<1>3. CASE CallWritable BY <1>1, <1>3 DEF CallWritable, svcVars, FrgPcs
<1>4. CASE Foreign
    BY <1>1, <1>4 DEF Foreign, CheckHandling, LeaveActive, Lock, Look, AppendChange,
                      UnlockSignal, Unlock, SetEvents, svcVars, FrgPcs
<1>5. CASE Fast
    <2>1. frg' \in FrgPcs BY <1>5 DEF Fast, ScheduleFast, ForceCancelService, sendVars, TypeThreads
    <2> QED BY <1>1, <1>5, <2>1 DEF Fast, ScheduleFast, ForceCancelService, svcVars
<1>6. CASE Service
    <2> USE DEF users, sendVars, Goto
    <2> HIDE DEF S
    <2>a. {"sul", "enter", "entered", "polling", "woken", "spin", "apply", "clear", "pipe", "out",
           "role", "bail", "drop", "unhandle", "recheck", "reset", "callback", "after", "fast"}
            \subseteq SvcPcs
        BY DEF SvcPcs
    <2>b. /\ At("sul") \in S /\ At("enter") \in S /\ At("entered") \in S /\ At("polling") \in S
          /\ At("woken") \in S /\ At("spin") \in S /\ At("apply") \in S /\ At("clear") \in S
          /\ At("pipe") \in S /\ At("out") \in S /\ At("role") \in S /\ At("bail") \in S
          /\ At("drop") \in S /\ At("unhandle") \in S /\ At("recheck") \in S /\ At("reset") \in S
          /\ At("callback") \in S /\ At("after") \in S /\ At("fast") \in S
        BY <1>0, <2>a
    <2>c. \A on \in BOOLEAN :
            /\ Change(on, "enter") \in S /\ Change(on, "after") \in S
            /\ Change(on, "unhandle") \in S /\ Change(on, "fast") \in S
            /\ Change(on, "clear") \in S /\ Change(on, "reset") \in S
        BY <1>0, <2>a
    <2>0. validity \in {"armed", "due", "check", "pinged"} BY DEF TypeThreads
    <2>1. CASE ServiceRipe
        <3>1. svc' = At("enter") \/ svc' = Change(TRUE, "enter")
            BY <2>1 DEF ServiceRipe, ValidityCheck
        <3>2. At("enter") \in S /\ Change(TRUE, "enter") \in S BY <2>b, <2>c
        <3>3. svc' \in S BY <3>1, <3>2, Zenon
        <3> QED BY <1>2, <2>0, <2>1, <3>3 DEF ServiceRipe, ValidityCheck
    <2>2. CASE EnterPoll
        <3>1. svc' \in S BY <2>b, <2>c, <2>2 DEF EnterPoll
        <3> QED BY <1>2, <2>0, <2>2, <3>1 DEF EnterPoll
    <2>3. CASE PollWait
        <3>1. svc' \in S BY <2>b, <2>c, <2>3 DEF PollWait
        <3> QED BY <1>2, <2>0, <2>3, <3>1 DEF PollWait
    <2>4. CASE PollReturn \/ PollTimeout \/ PollPong
        <3>1. Wake /\ validity' \in {"armed", "due", "check", "pinged"}
            BY <2>0, <2>4 DEF PollReturn, PollTimeout, PollPong
        <3>2. svc' \in S BY <2>b, <3>1 DEF Wake
        <3>3. revents' \subseteq {"pipe", "out"} /\ frg' = frg BY <3>1 DEF Wake
        <3> QED BY <3>1, <3>2, <3>3 DEF S, TypeThreads
    <2>5. CASE LeavePoll
        <3>1. svc' \in S BY <2>b, <2>c, <2>5 DEF LeavePoll
        <3> QED BY <1>2, <2>0, <2>5, <3>1 DEF LeavePoll
    <2>6. CASE DrainRead
        <3>1. svc' \in S BY <2>b, <2>c, <2>6 DEF DrainRead
        <3> QED BY <1>2, <2>0, <2>6, <3>1 DEF DrainRead
    <2>7. CASE DrainApply
        <3>1. svc' \in S BY <2>b, <2>c, <2>7 DEF DrainApply
        <3> QED BY <1>2, <2>0, <2>7, <3>1 DEF DrainApply
    <2>8. CASE DrainClear
        <3>1. svc' \in S BY <2>b, <2>c, <2>8 DEF DrainClear
        <3> QED BY <1>2, <2>0, <2>8, <3>1 DEF DrainClear
    <2>9. CASE ServePipe
        <3>1. svc' \in S BY <2>b, <2>c, <2>9 DEF ServePipe
        <3> QED BY <1>2, <2>0, <2>9, <3>1 DEF ServePipe
    <2>10. CASE BeginPollout
        <3>1. svc' \in S BY <2>b, <2>c, <2>10 DEF BeginPollout
        <3> QED BY <1>2, <2>0, <2>10, <3>1 DEF BeginPollout
    <2>11. CASE HandlePolloutWs
        <3>1. svc' \in S BY <2>b, <2>c, <2>11 DEF HandlePolloutWs
        <3> QED BY <1>2, <2>0, <2>11, <3>1 DEF HandlePolloutWs
    <2>12. CASE BailOk
        <3>1. svc' \in S BY <2>b, <2>c, <2>12 DEF BailOk
        <3> QED BY <1>2, <2>0, <2>12, <3>1 DEF BailOk
    <2>13. CASE DropPollout
        <3>1. svc' \in S BY <2>b, <2>c, <2>13 DEF DropPollout
        <3> QED BY <1>2, <2>0, <2>13, <3>1 DEF DropPollout
    <2>14. CASE EndHandling
        <3>1. svc' \in S BY <2>b, <2>c, <2>14 DEF EndHandling
        <3> QED BY <1>2, <2>0, <2>14, <3>1 DEF EndHandling
    <2>15. CASE Recheck
        <3>1. svc' \in S BY <2>b, <2>c, <2>15 DEF Recheck
        <3> QED BY <1>2, <2>0, <2>15, <3>1 DEF Recheck
    <2>16. CASE ResetLeave
        <3>1. svc' \in S BY <2>b, <2>c, <2>16 DEF ResetLeave
        <3> QED BY <1>2, <2>0, <2>16, <3>1 DEF ResetLeave
    <2>17. CASE Callback
        <3>1. svc' = At("after") \/ svc' = Change(TRUE, "after")
            BY <2>17 DEF Callback, AskAgain
        <3>2. At("after") \in S /\ Change(TRUE, "after") \in S BY <2>b, <2>c
        <3>3. svc' \in S BY <3>1, <3>2, Zenon
        <3> QED BY <1>2, <2>0, <2>17, <3>3 DEF Callback
    <2>18. CASE AfterCallback
        <3>1. svc' \in S BY <2>b, <2>c, <2>18 DEF AfterCallback
        <3> QED BY <1>2, <2>0, <2>18, <3>1 DEF AfterCallback
    <2>19. CASE RunFast
        <3>1. svc \in S BY DEF S, TypeThreads
        <3>2. svc' = svc \/ svc' = At("sul") BY <2>19 DEF RunFast
        <3>3. svc' \in S BY <2>b, <3>1, <3>2
        <3> QED BY <1>2, <2>0, <2>19, <3>3 DEF RunFast
    <2>20. CASE ChangeLock
        <3>1. svc' \in S BY <2>b, <2>c, <2>20 DEF ChangeLock, At, S, TypeThreads
        <3> QED BY <1>2, <2>0, <2>20, <3>1 DEF ChangeLock
    <2>21. CASE ChangeSet
        <3>1. svc' \in S BY <2>b, <2>c, <2>21 DEF ChangeSet, At, S, TypeThreads
        <3> QED BY <1>2, <2>0, <2>21, <3>1 DEF ChangeSet
    <2> QED BY <1>6, <2>1, <2>2, <2>3, <2>4, <2>5, <2>6, <2>7, <2>8, <2>9, <2>10, <2>11, <2>12,
               <2>13, <2>14, <2>15, <2>16, <2>17, <2>18, <2>19, <2>20, <2>21
            DEF Service
<1>7. CASE ValidityRipe BY <1>7 DEF ValidityRipe, users, sendVars, TypeThreads
<1>8. CASE UNCHANGED vars BY <1>8 DEF vars, svcVars, users, sendVars, TypeThreads
<1> QED BY <1>3, <1>4, <1>5, <1>6, <1>7, <1>8 DEF Next

(* Every action keeps the queues in their types.                             *)
LEMMA QueuesStep == TypeOK /\ [Next]_vars => TypeQueues'
<1> SUFFICES ASSUME TypeThreads, TypeQueues, [Next]_vars PROVE TypeQueues'
    BY DEF TypeOK
<1> USE SendsAssumption
<1>1. ASSUME UNCHANGED <<toBeWritten, sends, fastVars>> PROVE TypeQueues'
    BY <1>1 DEF TypeQueues, fastVars
<1>2. CASE CallWritable BY <1>2 DEF CallWritable, TypeQueues, fastVars
<1>3. CASE Foreign
    BY <1>1, <1>3 DEF Foreign, CheckHandling, LeaveActive, Lock, Look, AppendChange,
                      UnlockSignal, Unlock, SetEvents
<1>4. CASE Fast
    <2>1. PICK c \in Closures : ScheduleFast(c) \/ ForceCancelService(c) BY <1>4 DEF Fast
    <2>2. Append(fastQueue, c) \in Seq(Closures) BY DEF TypeQueues
    <2>3. CASE ScheduleFast(c) BY <2>2, <2>3 DEF ScheduleFast, TypeQueues, sendVars
    <2>4. CASE ForceCancelService(c) BY <2>4 DEF ForceCancelService, TypeQueues, sendVars
    <2> QED BY <2>1, <2>3, <2>4
<1>5. CASE Service
    <2>1. CASE Callback BY <2>1 DEF Callback, TypeQueues, fastVars
    <2>2. CASE RunFast
        <3>1. fastQueue # <<>> => Tail(fastQueue) \in Seq(Closures) BY DEF TypeQueues
        <3>2. fastQueue' \in Seq(Closures) BY <2>2, <3>1 DEF RunFast, TypeQueues
        <3> QED BY <2>2, <3>2 DEF RunFast, TypeQueues, sendVars
    <2>3. \/ Callback \/ RunFast \/ UNCHANGED <<toBeWritten, sends, fastVars>>
        BY <1>5 DEF Service, ServiceRipe, EnterPoll, PollReturn, PollTimeout, PollPong, PollWait,
                    Wake, LeavePoll, DrainRead, DrainApply, DrainClear, ServePipe, BeginPollout,
                    HandlePolloutWs, BailOk, DropPollout, EndHandling, Recheck, ResetLeave,
                    AfterCallback, ChangeLock, ChangeSet, users, sendVars
    <2> QED BY <1>1, <2>1, <2>2, <2>3
<1>6. CASE ValidityRipe BY <1>1, <1>6 DEF ValidityRipe, users, sendVars
<1>7. CASE UNCHANGED vars BY <1>1, <1>7 DEF vars, users, sendVars
<1> QED BY <1>2, <1>3, <1>4, <1>5, <1>6, <1>7 DEF Next

(* The initial state is well typed.                                          *)
LEMMA InitType == Init => TypeOK
<1>1. Init => TypeFlags BY DEF Init, TypeFlags
<1>2. Init => TypeThreads BY DEF Init, TypeThreads, At, SvcPcs, FrgPcs
<1>3. Init => TypeQueues BY SendsAssumption DEF Init, TypeQueues
<1> QED BY <1>1, <1>2, <1>3 DEF TypeOK

(* Every reachable state is well typed, and the callback never takes a frame *)
(* that is not there.                                                        *)
THEOREM TypeCorrect == Spec => []TypeOK
<1>1. TypeOK /\ [Next]_vars => TypeOK' BY FlagsStep, ThreadsStep, QueuesStep DEF TypeOK
<1> QED BY <1>1, InitType, PTL DEF Spec


-----------------------------------------------------------------------------
(* Why no request for POLLOUT is forgotten.  What the service thread is      *)
(* doing tells what the flags are; the parts of the inductive invariant:     *)

\* handling_pollout is set only inside lws_handle_POLLOUT_event, before the callback
HandlingInv ==
    handling_pollout => \/ svc.pc \in {"role", "bail", "drop", "unhandle"}
                        \/ svc.pc \in {"change", "change2"} /\ svc.ret = "unhandle"

\* POLLOUT is switched at six places, and off at one only, on the way to the callback
OffInv ==
    svc.pc \in {"change", "change2"} =>
        /\ svc.ret \in {"enter", "clear", "unhandle", "reset", "after", "fast"}
        /\ ~svc.on => svc.ret = "unhandle"

\* what poll() was asked for and reports stays set until then
SeenInv ==
    /\ svc.pc = "polling" /\ kernel => events
    /\ svc.pc \in {"woken", "spin", "pipe"} \/ Draining => ("out" \in revents => events)
    /\ svc.pc \in {"out", "role", "bail"} => events

\* a listed change is applied before the list is cleared
ListInv ==
    /\ svc.pc = "apply" /\ foreign_pfd_list => taken \/ torn
    /\ svc.pc = "clear" /\ foreign_pfd_list => events \/ torn
    /\ svc.pc \in {"change", "change2"} /\ svc.ret = "clear" => svc.on

\* while poll() waits and a late note is under way, nobody has changed events
NoteInv == svc.pc = "polling" /\ frg = "leave" => kernel = events

\* a sender that is done, or only has a note to leave or a signal to give, has asked
AskedInv ==
    toBeWritten > 0 /\ frg \in {"idle", "leave", "unlockSignal"} =>
        \/ events \/ foreign_pfd_list \/ BeforeCallback \/ TurningOn
        \/ torn

WakeInv == /\ TypeOK /\ HandlingInv /\ OffInv /\ SeenInv /\ ListInv /\ NoteInv
           /\ AskedInv /\ LateNoteHarmless

(* Each step keeps the invariant.                                            *)
LEMMA WakeStep == WakeInv /\ [Next]_vars => WakeInv'
<1> SUFFICES ASSUME WakeInv, [Next]_vars
             PROVE  HandlingInv' /\ OffInv' /\ SeenInv' /\ ListInv' /\ NoteInv' /\ AskedInv'
                    /\ LateNoteHarmless'
    BY FlagsStep, ThreadsStep, QueuesStep DEF WakeInv, TypeOK
<1> USE DEF WakeInv, TypeOK, TypeFlags, TypeThreads, TypeQueues, HandlingInv, OffInv, SeenInv,
            ListInv, NoteInv, AskedInv, LateNoteHarmless, BeforeCallback, TurningOn, Draining,
            At, Change, Goto, SvcPcs, FrgPcs
<1>1. CASE CallWritable BY <1>1 DEF CallWritable, flagVars, svcVars, sendVars, fastVars
<1>2. CASE CheckHandling BY <1>2 DEF CheckHandling, flagVars, svcVars, sendVars, fastVars
<1>3. CASE LeaveActive BY <1>3 DEF LeaveActive, flagVars, svcVars, sendVars, fastVars
<1>4. CASE Lock BY <1>4 DEF Lock, flagVars, svcVars, sendVars, fastVars
<1>5. CASE Look BY <1>5 DEF Look, flagVars, svcVars, sendVars, fastVars
<1>6. CASE AppendChange BY <1>6 DEF AppendChange, flagVars, svcVars, sendVars, fastVars
<1>7. CASE UnlockSignal BY <1>7 DEF UnlockSignal, flagVars, svcVars, sendVars, fastVars
<1>8. CASE Unlock BY <1>8 DEF Unlock, flagVars, svcVars, sendVars, fastVars
<1>9. CASE SetEvents BY <1>9 DEF SetEvents, flagVars, svcVars, sendVars, fastVars
<1>10. CASE ServiceRipe
    BY <1>10 DEF ServiceRipe, ValidityCheck, flagVars, users, sendVars
<1>11. CASE EnterPoll BY <1>11 DEF EnterPoll, flagVars, svcVars, users, sendVars, fastVars
<1>12. CASE PollWait BY <1>12 DEF PollWait, flagVars, svcVars, users, sendVars, fastVars
<1>13. CASE Wake BY <1>13 DEF Wake, flagVars, svcVars, users, sendVars, fastVars
<1>14. CASE LeavePoll BY <1>14 DEF LeavePoll, flagVars, svcVars, users, sendVars, fastVars
<1>15. CASE DrainRead BY <1>15 DEF DrainRead, flagVars, svcVars, users, sendVars, fastVars
<1>16. CASE DrainApply BY <1>16 DEF DrainApply, flagVars, svcVars, users, sendVars, fastVars
<1>17. CASE DrainClear BY <1>17 DEF DrainClear, flagVars, svcVars, users, sendVars, fastVars
<1>18. CASE ServePipe BY <1>18 DEF ServePipe, flagVars, svcVars, users, sendVars, fastVars
<1>19. CASE BeginPollout BY <1>19 DEF BeginPollout, flagVars, svcVars, users, sendVars, fastVars
<1>20. CASE HandlePolloutWs
    <2>0. /\ svc.pc = "role"
          /\ UNCHANGED <<events, foreign_pfd_list, handling_pollout, kernel, revents, taken, frg,
                         toBeWritten, torn>>
        BY <1>20 DEF HandlePolloutWs, flagVars, users, sendVars
    <2>1. CASE svc' = At("bail") BY <2>0, <2>1
    <2>2. CASE svc' = At("drop") BY <2>0, <2>2
    <2> QED BY <1>20, <2>1, <2>2 DEF HandlePolloutWs
<1>21. CASE BailOk BY <1>21 DEF BailOk, flagVars, svcVars, users, sendVars, fastVars
<1>22. CASE DropPollout BY <1>22 DEF DropPollout, flagVars, svcVars, users, sendVars, fastVars
<1>23. CASE EndHandling BY <1>23 DEF EndHandling, flagVars, svcVars, users, sendVars, fastVars
<1>24. CASE Recheck BY <1>24 DEF Recheck, flagVars, svcVars, users, sendVars, fastVars
<1>25. CASE ResetLeave BY <1>25 DEF ResetLeave, flagVars, svcVars, users, sendVars, fastVars
<1>26. CASE Callback BY <1>26 DEF Callback, AskAgain, flagVars, svcVars, users, sendVars, fastVars
<1>27. CASE AfterCallback BY <1>27 DEF AfterCallback, flagVars, svcVars, users, sendVars, fastVars
<1>28. CASE RunFast BY <1>28 DEF RunFast, flagVars, svcVars, users, sendVars, fastVars
<1>29. CASE ChangeLock BY <1>29 DEF ChangeLock, flagVars, svcVars, users, sendVars, fastVars
<1>30. CASE ChangeSet
    <2>1. svc.ret \in SvcPcs OBVIOUS
    <2>2. CASE svc.on
        <3>1. events' = TRUE BY <1>30, <2>2, Zenon DEF ChangeSet
        <3>2. svc'.pc = svc.ret BY <1>30 DEF ChangeSet
        <3>3. UNCHANGED <<handling_pollout, foreign_pfd_list, kernel, revents, taken, frg,
                          toBeWritten, torn>>
            BY <1>30 DEF ChangeSet, users, sendVars
        <3> QED BY <1>30, <2>1, <3>1, <3>2, <3>3 DEF ChangeSet
    <2>3. CASE ~svc.on BY <1>30, <2>1, <2>3 DEF ChangeSet, users, sendVars
    <2> QED BY <2>2, <2>3
<1>31. CASE Fast
    BY <1>31 DEF Fast, ScheduleFast, ForceCancelService, flagVars, svcVars, users, sendVars
<1>32. CASE ValidityRipe BY <1>32 DEF ValidityRipe, flagVars, users, sendVars
<1>33. CASE UNCHANGED vars BY <1>33 DEF vars, flagVars, svcVars, users, sendVars, fastVars
<1> QED
    <2>1. PollReturn \/ PollTimeout \/ PollPong => Wake
        BY DEF PollReturn, PollTimeout, PollPong
    <2> QED BY <2>1, <1>1, <1>2, <1>3, <1>4, <1>5, <1>6, <1>7, <1>8, <1>9, <1>10, <1>11, <1>12,
               <1>13, <1>14, <1>15, <1>16, <1>17, <1>18, <1>19, <1>20, <1>21, <1>22, <1>23,
               <1>24, <1>25, <1>26, <1>27, <1>28, <1>29, <1>30, <1>31, <1>32, <1>33
            DEF Next, Foreign, Service

(* The inductive invariant holds in every reachable state.                   *)
LEMMA WakeInvariant == Spec => []WakeInv
<1>1. Init => WakeInv
    BY InitType DEF Init, WakeInv, HandlingInv, OffInv, SeenInv, ListInv, NoteInv, AskedInv,
                    LateNoteHarmless, Draining, At
<1> QED BY <1>1, WakeStep, PTL DEF Spec

(* No frame that waits to be written is forgotten, for any number of sends,  *)
(* unless its request met an access of the service thread (torn).            *)
THEOREM AskNotForgottenCorrect == Spec => []AskNotForgotten
<1>1. WakeInv => AskNotForgotten BY DEF WakeInv, AskedInv, AskNotForgotten
<1> QED BY <1>1, WakeInvariant, PTL

(* A note that comes after the service thread looked for it does no harm,    *)
(* whatever poll() writes back.                                              *)
THEOREM LateNoteHarmlessCorrect == Spec => []LateNoteHarmless
<1>1. WakeInv => LateNoteHarmless BY DEF WakeInv
<1> QED BY <1>1, WakeInvariant, PTL

-----------------------------------------------------------------------------
(* Why no closure sleeps.                                                    *)

(* Append adds one element and keeps the others.                             *)
LEMMA QueuedAppend ==
    ASSUME NEW q \in Seq(Closures), NEW c \in Closures
    PROVE  \A i \in DOMAIN Append(q, c) :
               Append(q, c)[i] = c \/ \E j \in DOMAIN q : q[j] = Append(q, c)[i]
OBVIOUS

(* Each step keeps FastWakes: the pipe is read only on the way to the queue. *)
LEMMA FastWakesStep == TypeOK /\ FastWakes /\ [Next]_vars => FastWakes'
<1> SUFFICES ASSUME TypeOK, FastWakes, [Next]_vars PROVE FastWakes'
    OBVIOUS
<1>1. ASSUME UNCHANGED <<pipe, fastQueue, signalling>>, Running => Running' PROVE FastWakes'
    BY <1>1 DEF FastWakes, Queued
<1>2. CASE CallWritable \/ Foreign \/ ValidityRipe \/ UNCHANGED vars
    <2>1. pipe' = TRUE \/ UNCHANGED pipe
        BY <1>2 DEF CallWritable, Foreign, CheckHandling, LeaveActive, Lock, Look, AppendChange,
                    UnlockSignal, Unlock, SetEvents, ValidityRipe, vars
    <2>2. UNCHANGED <<svc, fastQueue, signalling>>
        BY <1>2 DEF CallWritable, Foreign, CheckHandling, LeaveActive, Lock, Look, AppendChange,
                    UnlockSignal, Unlock, SetEvents, ValidityRipe, vars, svcVars, users, fastVars
    <2>3. CASE pipe' = TRUE BY <2>3 DEF FastWakes
    <2>4. CASE UNCHANGED pipe BY <1>1, <2>2, <2>4 DEF Running
    <2> QED BY <2>1, <2>3, <2>4
<1>3. CASE Fast
    <2>1. PICK c \in Closures : ScheduleFast(c) \/ ForceCancelService(c) BY <1>3 DEF Fast
    <2>2. CASE ScheduleFast(c)
        <3>1. Queued' \subseteq Queued \cup {c}
            BY <2>2, QueuedAppend DEF ScheduleFast, Queued, TypeOK, TypeQueues
        <3>2. Queued' \ signalling' \subseteq Queued \ signalling
            BY <2>2, <3>1 DEF ScheduleFast
        <3>3. UNCHANGED <<pipe, svc>> BY <2>2 DEF ScheduleFast, svcVars
        <3> QED BY <3>2, <3>3 DEF FastWakes, Running
    <2>3. CASE ForceCancelService(c) BY <2>3 DEF ForceCancelService, FastWakes
    <2> QED BY <2>1, <2>2, <2>3
<1>4. CASE Service
    <2>1. CASE ServePipe
        <3>1. Running' BY <2>1 DEF ServePipe, Goto, At, Running
        <3> QED BY <3>1 DEF FastWakes
    <2>2. CASE RunFast
        <3>1. CASE fastQueue = <<>>
            <4>1. Queued' = {} BY <2>2, <3>1 DEF RunFast, Queued
            <4> QED BY <4>1 DEF FastWakes
        <3>2. CASE fastQueue # <<>>
            <4>1. Running' BY <2>2, <3>2 DEF RunFast, Running
            <4> QED BY <4>1 DEF FastWakes
        <3> QED BY <3>1, <3>2
    <2>3. CASE ~(ServePipe \/ RunFast)
        <3>1. UNCHANGED <<pipe, fastQueue, signalling>>
            BY <1>4, <2>3
            DEF Service, ServiceRipe, EnterPoll, PollReturn, PollTimeout, PollPong, PollWait,
                Wake, LeavePoll, DrainRead, DrainApply, DrainClear, BeginPollout,
                HandlePolloutWs, BailOk, DropPollout, EndHandling, Recheck, ResetLeave,
                Callback, AfterCallback, ChangeLock, ChangeSet, users, fastVars
        <3>2. Running => Running'
            BY <1>4, <2>3
            DEF Service, ServiceRipe, EnterPoll, PollReturn, PollTimeout, PollPong, PollWait,
                Wake, LeavePoll, DrainRead, DrainApply, DrainClear, BeginPollout,
                HandlePolloutWs, BailOk, DropPollout, EndHandling, Recheck, ResetLeave,
                Callback, AskAgain, AfterCallback, ChangeLock, ChangeSet, Running, Goto, At, Change,
                TypeOK, TypeThreads, SvcPcs
        <3> QED BY <1>1, <3>1, <3>2
    <2> QED BY <2>1, <2>2, <2>3
<1> QED BY <1>2, <1>3, <1>4 DEF Next

(* The service thread never goes to sleep on a closure whose caller has      *)
(* signalled: scheduleFastServiceExecution needs no timeout.                 *)
THEOREM FastWakesCorrect == Spec => []FastWakes
<1>1. Init => FastWakes BY DEF Init, FastWakes, Queued
<1> QED BY <1>1, FastWakesStep, TypeCorrect, PTL DEF Spec
=============================================================================
