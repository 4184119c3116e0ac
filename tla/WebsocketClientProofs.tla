----------------------- MODULE WebsocketClientProofs -----------------------
(***************************************************************************)
(* Theorems about WebsocketClient, for any number of messages, of frames   *)
(* per message and of queued closures.                                     *)
(***************************************************************************)
EXTENDS WebsocketClient, FiniteSetTheorems, WellFoundedInduction, TLAPS

-----------------------------------------------------------------------------
(* Frames.                                                                   *)

\* Data.chunked: rounding up loses no byte and makes no piece without a byte.
LEMMA CeilingDivision ==
    ASSUME NEW s \in Nat, NEW k \in Nat \ {0}
    PROVE  LET n == (s + k - 1) \div k
           IN  n \in Nat /\ n * k >= s /\ (s > 0 => (n - 1) * k < s)
<1> DEFINE n == (s + k - 1) \div k
<1> DEFINE a == s + k - 1
<1>1. a \in Nat /\ k \in Nat /\ k > 0
  OBVIOUS
<1>2. n \in Int /\ n * k <= a /\ a < (n + 1) * k
  BY <1>1, SMT
<1>3. n >= 0
  BY <1>1, <1>2, SMT
<1> QED
  BY <1>1, <1>2, <1>3, SMT

\* send() appends frames: every piece has a non-negative length.
LEMMA FramesOfType ==
    ASSUME NEW m \in Msgs
    PROVE  FramesOf(m) \in Seq(Frame)
<1>1. Size[m] \in Nat /\ maxFrameSize \in Nat \ {0}
  BY SizeAssumption
<1>2. SingleFrame(m) \in Frame
  BY <1>1 DEF SingleFrame, Frame, Ops
<1>3. ASSUME Size[m] > maxFrameSize PROVE ChunkFrames(m) \in Seq(Frame)
  <2> DEFINE n == Pieces(Size[m])
  <2>1. n \in Nat /\ (n - 1) * maxFrameSize < Size[m]
    BY <1>1, <1>3, CeilingDivision DEF Pieces
  <2>2. Size[m] - (n - 1) * maxFrameSize \in Nat
    BY <1>1, <2>1
  <2> HIDE DEF n
  <2>3. ASSUME NEW i \in 1..n
        PROVE  [op |-> IF i = 1 THEN "data" ELSE "continuation",
                msg |-> m,
                len |-> IF i < n THEN maxFrameSize ELSE Size[m] - (n - 1) * maxFrameSize,
                fin |-> i = n,
                promise |-> i = n] \in Frame
    BY <1>1, <2>1, <2>2 DEF Frame, Ops
  <2> QED
    BY <2>1, <2>3 DEF ChunkFrames, n
<1> QED
  BY <1>1, <1>2, <1>3 DEF FramesOf

-----------------------------------------------------------------------------
(* Type correctness.                                                         *)

\* the closures the code submits to the event loop
LEMMA TasksType ==
    /\ \A m \in Msgs : Task("send", m) \in Tasks
    /\ \A s \in Statuses : Task("markAsClosed", s) \in Tasks /\ Task("notify", s) \in Tasks
    /\ \A t \in {"connectOk", "connectFail", "setOnClose"} : Task(t, Nil) \in Tasks
BY DEF Tasks, Task

\* the steps the event loop can be in the middle of
LEMMA CurType ==
    /\ Idle \in CurStates
    /\ \A m \in Msgs : At("enqueue", m) \in CurStates /\ At("writable", m) \in CurStates
    /\ \A s \in Statuses : At("resolve", s) \in CurStates /\ At("relock", s) \in CurStates
BY DEF CurStates, Idle, At

\* what a closure or a step in progress carries
LEMMA TaskArgs ==
    ASSUME NEW t \in Tasks
    PROVE  /\ t.t = "send" => t.arg \in Msgs
           /\ t.t \in {"markAsClosed", "notify"} => t.arg \in Statuses
BY DEF Tasks

\* what the step in progress carries
LEMMA CurArgs ==
    ASSUME NEW c \in CurStates
    PROVE  /\ c.pc \in {"enqueue", "writable"} => c.msg \in Msgs
           /\ c.pc \in {"resolve", "relock"} => c.msg \in Statuses
BY DEF CurStates, Idle

\* CLIENT_CLOSED always finds a status to report
LEMMA KillTask ==
    ASSUME NEW asked \in Statuses \cup {Nil}
    PROVE  Task("markAsClosed", IF asked = Nil THEN noStatus ELSE asked) \in Tasks
BY TasksType DEF Statuses

\* submitting a closure keeps the event loop's queue well typed
LEMMA LoopGrows ==
    ASSUME TypeOK, NEW t \in Tasks
    PROVE  Append(loop, t) \in Seq(Tasks)
BY DEF TypeOK, TypeQueues

\* the service thread holds at most one frame
LEMMA NoFrameType ==
    /\ NoFrame \in Seq(Frame) /\ Len(NoFrame) <= 1
    /\ <<>> \in Seq(Frame)
BY DEF NoFrame

\* resolving promises keeps them well typed
LEMMA ResolveType ==
    ASSUME TypeOK, NEW fs, NEW res \in {"ok", "failed"}
    PROVE  Resolve(fs, res) \in [Msgs -> {"none", "pending", "ok", "failed"}]
BY DEF TypeOK, TypeStates, Resolve

\* Every variable keeps its type: whatever the owner, the loop, the service thread and the
\* peer do, CLIENT_CLOSED reports a status, the queues hold frames and tasks.
THEOREM TypeCorrect == Spec => []TypeOK
<1>1. Init => TypeOK
  <2>1. Init => TypeFlags
    BY DEF Init, TypeFlags
  <2>2. Init => TypeQueues
    BY DEF Init, TypeQueues, NoFrame
  <2>3. Init => TypeStates
    BY CurType DEF Init, TypeStates, LRS
  <2> QED
    BY <2>1, <2>2, <2>3 DEF TypeOK
<1>2. TypeOK /\ [Next]_vars => TypeOK'
  <2> SUFFICES ASSUME TypeOK, [Next]_vars PROVE TypeOK'
    OBVIOUS
  <2> USE DEF TypeOK, clientVars, loopVars, wsiVars, seenVars
  <2>1. ASSUME NEW m \in Msgs, Send(m) PROVE TypeOK'
    <3>1. TypeFlags'
      BY <2>1 DEF Send, TypeFlags
    <3>2. TypeQueues'
      BY <2>1, TasksType, LoopGrows DEF Send, Execute, TypeQueues
    <3>3. TypeStates'
      BY <2>1 DEF Send, Promised, TypeStates
    <3> QED
      BY <3>1, <3>2, <3>3
  <2>2. ASSUME NEW m \in Msgs, Close(m) PROVE TypeOK'
    <3>1. TypeFlags'
      BY <2>2 DEF Close, TypeFlags
    <3>2. TypeQueues'
      BY <2>2, TasksType, LoopGrows DEF Close, Execute, TypeQueues
    <3>3. TypeStates'
      BY <2>2 DEF Close, TypeStates
    <3> QED
      BY <3>1, <3>2, <3>3
  <2>3. ASSUME OnClose PROVE TypeOK'
    <3>1. TypeFlags'
      BY <2>3 DEF OnClose, TypeFlags
    <3>2. TypeQueues'
      BY <2>3, TasksType, LoopGrows DEF OnClose, Execute, TypeQueues
    <3>3. TypeStates'
      BY <2>3 DEF OnClose, TypeStates
    <3> QED
      BY <3>1, <3>2, <3>3
  <2>4. ASSUME Release PROVE TypeOK'
    <3>1. TypeFlags'
      BY <2>4 DEF Release, TypeFlags
    <3>2. TypeQueues'
      BY <2>4 DEF Release, TypeQueues
    <3>3. TypeStates'
      BY <2>4 DEF Release, TypeStates
    <3> QED
      BY <3>1, <3>2, <3>3
  <2>5. ASSUME RunSend PROVE TypeOK'
    <3>1. TypeFlags'
      BY <2>5 DEF RunSend, TypeFlags
    <3>2. TypeQueues'
      BY <2>5 DEF RunSend, TypeQueues
    <3>3. TypeStates'
      BY <2>5, TaskArgs, CurType DEF RunSend, AfterCheck, TypeQueues, TypeStates
    <3> QED
      BY <3>1, <3>2, <3>3
  <2>6. ASSUME NEW m \in Msgs, LoopSend(m) PROVE TypeOK'
    <3>1. TypeFlags'
      BY <2>6 DEF LoopSend, TypeFlags
    <3>2. TypeQueues'
      BY <2>6 DEF LoopSend, TypeQueues
    <3>3. TypeStates'
      BY <2>6, CurType DEF LoopSend, AfterCheck, TypeStates
    <3> QED
      BY <3>1, <3>2, <3>3
  <2>7. ASSUME NEW m \in Msgs, LoopClose(m) PROVE TypeOK'
    <3>1. TypeFlags'
      BY <2>7 DEF LoopClose, TypeFlags
    <3>2. TypeQueues'
      BY <2>7 DEF LoopClose, TypeQueues
    <3>3. TypeStates'
      BY <2>7, CurType DEF LoopClose, AfterCheck, TypeStates
    <3> QED
      BY <3>1, <3>2, <3>3
  <2>8. ASSUME SendEnqueue PROVE TypeOK'
    <3>1. TypeFlags'
      BY <2>8 DEF SendEnqueue, TypeFlags
    <3>2. TypeQueues'
      <4>1. FramesOf(cur.msg) \in Seq(Frame)
        BY <2>8, CurArgs, FramesOfType DEF SendEnqueue, TypeStates
      <4>2. /\ toBeWritten \o FramesOf(cur.msg) \in Seq(Frame)
            /\ accepted \o FramesOf(cur.msg) \in Seq(Frame)
        BY <4>1 DEF TypeQueues
      <4> QED
        BY <2>8, <4>2 DEF SendEnqueue, TypeQueues
    <3>3. TypeStates'
      BY <2>8, CurType, CurArgs DEF SendEnqueue, TypeStates
    <3> QED
      BY <3>1, <3>2, <3>3
  <2>9. ASSUME SendWritable PROVE TypeOK'
    <3>1. TypeFlags'
      BY <2>9 DEF SendWritable, CallWritable, TypeFlags
    <3>2. TypeQueues'
      BY <2>9 DEF SendWritable, CallWritable, TypeQueues
    <3>3. TypeStates'
      BY <2>9, CurType DEF SendWritable, CallWritable, TypeStates
    <3> QED
      BY <3>1, <3>2, <3>3
  <2>10. ASSUME RunMarkAsClosed PROVE TypeOK'
    <3>1. TypeFlags'
      BY <2>10 DEF RunMarkAsClosed, TakeWrites, TypeFlags
    <3>2. TypeQueues'
      <4>1. CASE isClosedForever
        BY <2>10, <4>1 DEF RunMarkAsClosed, TypeQueues
      <4>2. CASE ~isClosedForever
        BY <2>10, <4>2, NoFrameType, Tail(loop) \in Seq(Tasks)
           DEF RunMarkAsClosed, TakeWrites, TypeQueues
      <4> QED
        BY <4>1, <4>2
    <3>3. TypeStates'
      BY <2>10, TaskArgs, CurType DEF RunMarkAsClosed, TakeWrites, TypeQueues, TypeStates
    <3> QED
      BY <3>1, <3>2, <3>3
  <2>11. ASSUME ResolvePending PROVE TypeOK'
    <3>1. TypeFlags'
      BY <2>11 DEF ResolvePending, TypeFlags
    <3>2. TypeQueues'
      BY <2>11 DEF ResolvePending, TypeQueues
    <3>3. TypeStates'
      BY <2>11, CurType, CurArgs DEF ResolvePending, TypeQueues, Frame, TypeStates
    <3> QED
      BY <3>1, <3>2, <3>3
  <2>12. ASSUME FinishMarkAsClosed PROVE TypeOK'
    <3>1. TypeFlags'
      BY <2>12 DEF FinishMarkAsClosed, TypeFlags
    <3>2. TypeQueues'
      <4>1. Append(loop, Task("notify", cur.msg)) \in Seq(Tasks)
        BY <2>12, CurArgs, TasksType, LoopGrows DEF FinishMarkAsClosed, TypeStates
      <4> QED
        BY <2>12, <4>1 DEF FinishMarkAsClosed, Execute, TypeQueues
    <3>3. TypeStates'
      BY <2>12, CurType DEF FinishMarkAsClosed, TypeStates
    <3> QED
      BY <3>1, <3>2, <3>3
  <2>13. ASSUME RunNotify PROVE TypeOK'
    <3>1. TypeFlags'
      BY <2>13 DEF RunNotify, TypeFlags
    <3>2. TypeQueues'
      BY <2>13, TaskArgs DEF RunNotify, TypeQueues
    <3>3. TypeStates'
      BY <2>13 DEF RunNotify, TypeStates
    <3> QED
      BY <3>1, <3>2, <3>3
  <2>14. ASSUME RunSetOnClose PROVE TypeOK'
    <3>1. TypeFlags'
      BY <2>14 DEF RunSetOnClose, TypeFlags
    <3>2. TypeQueues'
      BY <2>14 DEF RunSetOnClose, TypeQueues
    <3>3. TypeStates'
      BY <2>14 DEF RunSetOnClose, TypeStates
    <3> QED
      BY <3>1, <3>2, <3>3
  <2>15. ASSUME RunConnectResult PROVE TypeOK'
    <3>1. TypeFlags'
      BY <2>15 DEF RunConnectResult, FetchOnConnect, TypeFlags
    <3>2. TypeQueues'
      BY <2>15 DEF RunConnectResult, FetchOnConnect, TypeQueues
    <3>3. TypeStates'
      BY <2>15 DEF RunConnectResult, FetchOnConnect, TypeStates
    <3> QED
      BY <3>1, <3>2, <3>3
  <2>16. ASSUME ConnectTimeout PROVE TypeOK'
    <3>1. TypeFlags'
      BY <2>16 DEF ConnectTimeout, FetchOnConnect, TypeFlags
    <3>2. TypeQueues'
      BY <2>16 DEF ConnectTimeout, FetchOnConnect, TypeQueues
    <3>3. TypeStates'
      BY <2>16 DEF ConnectTimeout, FetchOnConnect, TypeStates
    <3> QED
      BY <3>1, <3>2, <3>3
  <2>17. ASSUME Deinit PROVE TypeOK'
    <3>1. TypeFlags'
      BY <2>17 DEF Deinit, FetchOnConnect, CallWritable, TypeFlags
    <3>2. TypeQueues'
      <4>1. Append(loop, Task("notify", goingAway)) \in Seq(Tasks)
        BY TasksType, LoopGrows DEF Statuses
      <4> QED
        BY <2>17, <4>1, NoFrameType DEF Deinit, Execute, TypeQueues
    <3>3. TypeStates'
      BY <2>17, ResolveType DEF Deinit, FetchOnConnect, CallWritable, Statuses, TypeStates
    <3> QED
      BY <3>1, <3>2, <3>3
  <2>18. ASSUME Connect PROVE TypeOK'
    <3>1. TypeFlags'
      <4>1. /\ UNCHANGED <<wasConnected, onConnect, onCloseCallback, alive, owned, timer, pollout,
                           closeNeedsAck, unusable>>
            /\ websocket' = websocket \/ websocket' = TRUE
            /\ connectionError' = connectionError \/ connectionError' = TRUE
        BY <2>18 DEF Connect, seenVars
      <4> QED
        BY <4>1 DEF TypeFlags
    <3>2. TypeQueues'
      <4>1. loop \o <<Task("connectFail", Nil), Task("connectFail", Nil)>> \in Seq(Tasks)
        BY TasksType DEF TypeQueues
      <4> QED
        BY <2>18, <4>1, TasksType, LoopGrows DEF Connect, Execute, TypeQueues
    <3>3. TypeStates'
      BY <2>18 DEF Connect, LRS, TypeStates
    <3> QED
      BY <3>1, <3>2, <3>3
  <2>19. ASSUME ConnectionError PROVE TypeOK'
    <3>1. TypeFlags'
      BY <2>19 DEF ConnectionError, TypeFlags
    <3>2. TypeQueues'
      BY <2>19, TasksType, LoopGrows DEF ConnectionError, Execute, TypeQueues
    <3>3. TypeStates'
      BY <2>19 DEF ConnectionError, LRS, TypeStates
    <3> QED
      BY <3>1, <3>2, <3>3
  <2>20. ASSUME Established PROVE TypeOK'
    <3>1. TypeFlags'
      BY <2>20 DEF Established, TypeFlags
    <3>2. TypeQueues'
      BY <2>20, TasksType, LoopGrows DEF Established, Execute, TypeQueues
    <3>3. TypeStates'
      BY <2>20 DEF Established, LRS, TypeStates
    <3> QED
      BY <3>1, <3>2, <3>3
  <2>21. ASSUME WriteableEmpty PROVE TypeOK'
    <3>1. TypeFlags'
      BY <2>21 DEF WriteableEmpty, TypeFlags
    <3>2. TypeQueues'
      BY <2>21 DEF WriteableEmpty, TypeQueues
    <3>3. TypeStates'
      BY <2>21 DEF WriteableEmpty, TypeStates
    <3> QED
      BY <3>1, <3>2, <3>3
  <2>22. ASSUME WriteablePop PROVE TypeOK'
    <3>1. TypeFlags'
      BY <2>22 DEF WriteablePop, TypeFlags
    <3>2. TypeQueues'
      BY <2>22 DEF WriteablePop, TypeQueues
    <3>3. TypeStates'
      BY <2>22 DEF WriteablePop, TypeStates
    <3> QED
      BY <3>1, <3>2, <3>3
  <2>23. ASSUME WriteableNoClient PROVE TypeOK'
    <3>1. TypeFlags'
      BY <2>23 DEF WriteableNoClient, CloseFreeWsi, JustKill, TypeFlags
    <3>2. TypeQueues'
      BY <2>23, TasksType, KillTask, LoopGrows DEF WriteableNoClient, CloseFreeWsi, JustKill, Execute, Statuses, TypeQueues
    <3>3. TypeStates'
      BY <2>23 DEF WriteableNoClient, CloseFreeWsi, JustKill, LRS, TypeStates
    <3> QED
      BY <3>1, <3>2, <3>3
  <2>24. ASSUME WriteData PROVE TypeOK'
    <3>1. TypeFlags'
      BY <2>24 DEF WriteData, TypeFlags
    <3>2. TypeQueues'
      <4>1. Append(wire, hand[1]) \in Seq(Frame)
        BY <2>24 DEF WriteData, NoFrame, TypeQueues
      <4> QED
        BY <2>24, <4>1, NoFrameType DEF WriteData, TypeQueues
    <3>3. TypeStates'
      BY <2>24, ResolveType DEF WriteData, TypeStates
    <3> QED
      BY <3>1, <3>2, <3>3
  <2>25. ASSUME WritePing PROVE TypeOK'
    <3>1. TypeFlags'
      BY <2>25 DEF WritePing, CloseFreeWsi, JustKill, TypeFlags
    <3>2. TypeQueues'
      <4>1. Append(wire, hand[1]) \in Seq(Frame)
        BY <2>25 DEF WritePing, NoFrame, TypeQueues
      <4> QED
        BY <2>25, <4>1, KillTask, LoopGrows, NoFrameType
           DEF WritePing, CloseFreeWsi, JustKill, Execute, TypeStates, TypeQueues
    <3>3. TypeStates'
      BY <2>25, ResolveType DEF WritePing, CloseFreeWsi, JustKill, LRS, TypeStates
    <3> QED
      BY <3>1, <3>2, <3>3
  <2>26. ASSUME WriteClose PROVE TypeOK'
    <3>1. TypeFlags'
      BY <2>26 DEF WriteClose, CloseFreeWsi, JustKill, TypeFlags
    <3>2. TypeQueues'
      <4>1. hand[1].msg \in Statuses
        BY <2>26 DEF WriteClose, NoFrame, TypeQueues, Frame, Statuses
      <4> QED
        BY <2>26, <4>1, KillTask, LoopGrows, NoFrameType
           DEF WriteClose, CloseFreeWsi, JustKill, Execute, TypeQueues
    <3>3. TypeStates'
      BY <2>26 DEF WriteClose, CloseFreeWsi, JustKill, LRS, Statuses, Frame, TypeQueues, NoFrame, TypeStates
    <3> QED
      BY <3>1, <3>2, <3>3
  <2>27. ASSUME SendClose PROVE TypeOK'
    <3>1. TypeFlags'
      BY <2>27 DEF SendClose, JustKill, TypeFlags
    <3>2. TypeQueues'
      BY <2>27, KillTask, LoopGrows DEF SendClose, JustKill, Execute, TypeStates, TypeQueues
    <3>3. TypeStates'
      <4>1. Len(wire) \in Nat
        BY DEF TypeQueues
      <4> QED
        BY <2>27, <4>1 DEF SendClose, JustKill, LRS, TypeStates
    <3> QED
      BY <3>1, <3>2, <3>3
  <2>28. ASSUME RecvClose PROVE TypeOK'
    <3>1. TypeFlags'
      BY <2>28 DEF RecvClose, CloseFreeWsi, JustKill, TypeFlags
    <3>2. TypeQueues'
      BY <2>28, TasksType, KillTask, LoopGrows DEF RecvClose, CloseFreeWsi, JustKill, Execute, Statuses, TypeQueues
    <3>3. TypeStates'
      BY <2>28 DEF RecvClose, CloseFreeWsi, JustKill, LRS, Statuses, TypeStates
    <3> QED
      BY <3>1, <3>2, <3>3
  <2>29. ASSUME RecvCloseAck PROVE TypeOK'
    <3>1. TypeFlags'
      BY <2>29 DEF RecvCloseAck, JustKill, TypeFlags
    <3>2. TypeQueues'
      BY <2>29, KillTask, LoopGrows DEF RecvCloseAck, JustKill, Execute, TypeStates, TypeQueues
    <3>3. TypeStates'
      BY <2>29 DEF RecvCloseAck, JustKill, LRS, TypeStates
    <3> QED
      BY <3>1, <3>2, <3>3
  <2>30. ASSUME RecvBad PROVE TypeOK'
    <3>1. TypeFlags'
      BY <2>30 DEF RecvBad, CloseFreeWsi, JustKill, TypeFlags
    <3>2. TypeQueues'
      BY <2>30, KillTask, LoopGrows DEF RecvBad, CloseFreeWsi, JustKill, Execute, TypeStates, TypeQueues
    <3>3. TypeStates'
      BY <2>30 DEF RecvBad, CloseFreeWsi, JustKill, LRS, Statuses, TypeStates
    <3> QED
      BY <3>1, <3>2, <3>3
  <2>31. ASSUME ConnectionLost PROVE TypeOK'
    <3>1. TypeFlags'
      BY <2>31 DEF ConnectionLost, CloseFreeWsi, JustKill, TypeFlags
    <3>2. TypeQueues'
      BY <2>31, KillTask, LoopGrows DEF ConnectionLost, CloseFreeWsi, JustKill, Execute, TypeStates, TypeQueues
    <3>3. TypeStates'
      BY <2>31 DEF ConnectionLost, CloseFreeWsi, JustKill, LRS, TypeStates
    <3> QED
      BY <3>1, <3>2, <3>3
  <2>32. ASSUME CloseTimeout PROVE TypeOK'
    <3>1. TypeFlags'
      BY <2>32 DEF CloseTimeout, JustKill, TypeFlags
    <3>2. TypeQueues'
      BY <2>32, KillTask, LoopGrows DEF CloseTimeout, JustKill, Execute, TypeStates, TypeQueues
    <3>3. TypeStates'
      BY <2>32 DEF CloseTimeout, JustKill, LRS, TypeStates
    <3> QED
      BY <3>1, <3>2, <3>3
  <2>33. ASSUME WsiDestroy PROVE TypeOK'
    <3>1. TypeFlags'
      BY <2>33 DEF WsiDestroy, TypeFlags
    <3>2. TypeQueues'
      BY <2>33 DEF WsiDestroy, TypeQueues
    <3>3. TypeStates'
      BY <2>33 DEF WsiDestroy, LRS, TypeStates
    <3> QED
      BY <3>1, <3>2, <3>3
  <2>34. CASE UNCHANGED vars
    BY <2>34 DEF vars, TypeFlags, TypeQueues, TypeStates
  <2> QED
    BY <2>1, <2>2, <2>3, <2>4, <2>5, <2>6, <2>7, <2>8, <2>9, <2>10, <2>11, <2>12,
       <2>13, <2>14, <2>15, <2>16, <2>17, <2>18, <2>19, <2>20, <2>21, <2>22, <2>23, <2>24,
       <2>25, <2>26, <2>27, <2>28, <2>29, <2>30, <2>31, <2>32, <2>33, <2>34
       DEF Next, Owner, LoopStep, LoopOwner, ServiceStep, Handshake, Network
<1> QED
  BY <1>1, <1>2, PTL DEF Spec

-----------------------------------------------------------------------------
(* Closing.                                                                  *)

\* the actions that leave the client's side of closing alone
LEMMA CloseUntouched ==
    ASSUME Next
    PROVE  \/ UNCHANGED <<lwsCloseStatus, toBeWritten, cur>>
           \/ RunSend \/ (\E m \in Msgs : LoopSend(m) \/ LoopClose(m))
           \/ SendEnqueue \/ SendWritable \/ RunMarkAsClosed \/ ResolvePending
           \/ FinishMarkAsClosed \/ Deinit \/ WriteablePop
BY DEF Next, Owner, LoopStep, LoopOwner, ServiceStep, Handshake, Network, clientVars,
       loopVars, Send, Close, OnClose, Release, RunNotify, RunSetOnClose, RunConnectResult,
       ConnectTimeout, Connect, WriteableEmpty, WriteableNoClient, WriteData, WritePing,
       WriteClose, SendClose, CloseTimeout, WsiDestroy, Established, ConnectionError,
       RecvClose, RecvCloseAck, RecvBad, ConnectionLost

\* Once the client has a close status its write queue stays empty and no send() appends to
\* it: every promise that was queued has been taken by markAsClosed or deinit.
THEOREM ClosedQueueEmptyCorrect == Spec => []ClosedQueueEmpty
<1>1. Init => ClosedQueueEmpty
  BY DEF Init, ClosedQueueEmpty
<1>2. TypeOK /\ ClosedQueueEmpty /\ [Next]_vars => ClosedQueueEmpty'
  <2> SUFFICES ASSUME TypeOK, ClosedQueueEmpty, [Next]_vars PROVE ClosedQueueEmpty'
    OBVIOUS
  <2> USE DEF ClosedQueueEmpty
  <2>1. CASE UNCHANGED <<lwsCloseStatus, toBeWritten, cur>>
    BY <2>1
  <2>2. CASE RunSend
    BY <2>2 DEF RunSend, AfterCheck, Refused, isClosedForever, At, Idle, clientVars
  <2>3. ASSUME NEW m \in Msgs, LoopSend(m) PROVE ClosedQueueEmpty'
    BY <2>3 DEF LoopSend, AfterCheck, Refused, isClosedForever, At, Idle, clientVars
  <2>4. ASSUME NEW m \in Msgs, LoopClose(m) PROVE ClosedQueueEmpty'
    BY <2>4 DEF LoopClose, AfterCheck, Refused, isClosedForever, At, Idle
  <2>5. CASE SendEnqueue
    BY <2>5 DEF SendEnqueue, At, Idle
  <2>6. CASE SendWritable
    BY <2>6 DEF SendWritable, Idle
  <2>7. CASE RunMarkAsClosed
    BY <2>7 DEF RunMarkAsClosed, TakeWrites, isClosedForever, At, Idle
  <2>8. CASE ResolvePending
    BY <2>8 DEF ResolvePending, At, clientVars
  <2>9. CASE FinishMarkAsClosed
    BY <2>9 DEF FinishMarkAsClosed, Idle
  <2>10. CASE Deinit
    BY <2>10 DEF Deinit, isClosedForever, Idle
  <2>11. CASE WriteablePop
    BY <2>11 DEF WriteablePop, loopVars
  <2>12. CASE UNCHANGED vars
    BY <2>12 DEF vars, clientVars, loopVars
  <2> QED
    BY <2>1, <2>2, <2>3, <2>4, <2>5, <2>6, <2>7, <2>8, <2>9, <2>10, <2>11, <2>12,
       CloseUntouched
<1> QED
  BY <1>1, <1>2, TypeCorrect, PTL DEF Spec

\* The close status, once set, is the final one, whichever of the peer's close,
\* CLIENT_CLOSED and deinit comes first and however many follow.
THEOREM CloseStatusFinalCorrect == Spec => CloseStatusFinal
<1>1. [Next]_vars => [lwsCloseStatus # Nil => lwsCloseStatus' = lwsCloseStatus]_vars
  <2> SUFFICES ASSUME Next, lwsCloseStatus # Nil PROVE lwsCloseStatus' = lwsCloseStatus
    OBVIOUS
  <2>1. CASE RunMarkAsClosed
    BY <2>1 DEF RunMarkAsClosed, isClosedForever
  <2>2. CASE Deinit
    BY <2>2 DEF Deinit, isClosedForever
  <2>3. CASE ~(RunMarkAsClosed \/ Deinit)
    BY <2>3, CloseUntouched
       DEF RunSend, LoopSend, LoopClose, SendEnqueue, SendWritable, ResolvePending,
           FinishMarkAsClosed, WriteablePop, clientVars
  <2> QED
    BY <2>1, <2>2, <2>3
<1> QED
  BY <1>1, PTL DEF Spec, CloseStatusFinal

-----------------------------------------------------------------------------
(* Connecting.                                                               *)

\* connect's promise, once resolved, has been taken out of the client
ConnectInv == connectResult # "none" => ~onConnect

\* Only fetchOnConnect resolves it.
LEMMA ConnectSteps ==
    ASSUME Next
    PROVE  \/ UNCHANGED <<connectResult, onConnect>>
           \/ \E res \in {"ok", "failed"} : FetchOnConnect(res)
BY DEF Next, Owner, LoopStep, LoopOwner, ServiceStep, Handshake, Network, clientVars,
         seenVars, Send, Close, OnClose, Release, RunSend, LoopSend, LoopClose, SendEnqueue,
         SendWritable, RunMarkAsClosed, ResolvePending, FinishMarkAsClosed, RunNotify,
         RunSetOnClose, RunConnectResult, ConnectTimeout, Deinit, Connect, WriteableEmpty,
         WriteablePop, WriteableNoClient, WriteData, WritePing, WriteClose, SendClose,
         CloseTimeout, WsiDestroy, Established, ConnectionError, RecvClose, RecvCloseAck,
         RecvBad, ConnectionLost

\* A resolved promise is never in the client.
LEMMA ConnectAlways == Spec => []ConnectInv
<1>1. Init => ConnectInv
  BY DEF Init, ConnectInv
<1>2. ConnectInv /\ [Next]_vars => ConnectInv'
  BY ConnectSteps DEF ConnectInv, FetchOnConnect, vars, clientVars, seenVars
<1> QED
  BY <1>1, <1>2, PTL DEF Spec

\* connect's promise is resolved at most once, in whatever order the timeout,
\* CLIENT_ESTABLISHED, CLIENT_CONNECTION_ERROR, a failed connect call and deinit come.
THEOREM ConnectResolvedOnceCorrect == Spec => ConnectResolvedOnce
<1>1. ConnectInv /\ [Next]_vars
        => [connectResult # "none" => connectResult' = connectResult]_vars
  BY ConnectSteps DEF ConnectInv, FetchOnConnect
<1> QED
  BY <1>1, ConnectAlways, PTL DEF Spec, ConnectResolvedOnce

-----------------------------------------------------------------------------
(* The onClose callback.                                                     *)

\* closures other than a notification, added to the loop or taken from it, leave the
\* notifications alone
LEMMA NotifyGrows ==
    ASSUME TypeOK, NotifyInv, NEW n \in Nat,
           DOMAIN loop' = 1..(Len(loop) + n),
           \A i \in 1..Len(loop) : loop'[i] = loop[i],
           \A i \in (Len(loop) + 1)..(Len(loop) + n) : loop'[i].t # "notify",
           UNCHANGED <<lwsCloseStatus, cur, notified>>
    PROVE  NotifyInv'
<1>1. DOMAIN loop = 1..Len(loop) /\ Len(loop) \in Nat
  BY DEF TypeOK, TypeQueues
<1>2. /\ Pending("notify")' = Pending("notify")
      /\ \A i \in Pending("notify") : loop'[i] = loop[i]
  BY <1>1 DEF Pending
<1> QED
  BY <1>2 DEF NotifyInv, Resolving

\* a closure that is no notification can be submitted at any time
LEMMA NotifyAppend ==
    ASSUME TypeOK, NotifyInv, NEW t \in Tasks, t.t # "notify", loop' = Append(loop, t),
           UNCHANGED <<lwsCloseStatus, cur, notified>>
    PROVE  NotifyInv'
<1>1. /\ DOMAIN loop' = 1..(Len(loop) + 1) /\ Len(loop) \in Nat
      /\ loop'[Len(loop) + 1] = t
      /\ \A i \in 1..Len(loop) : loop'[i] = loop[i]
  BY DEF TypeOK, TypeQueues
<1>2. \A i \in (Len(loop) + 1)..(Len(loop) + 1) : loop'[i].t # "notify"
  BY <1>1
<1> QED
  BY <1>1, <1>2, NotifyGrows

\* CLIENT_CLOSED asks for markAsClosed and does not notify anybody itself
LEMMA NotifyKill ==
    ASSUME TypeOK, NotifyInv, NEW asked \in Statuses \cup {Nil}, JustKill(asked),
           UNCHANGED <<lwsCloseStatus, cur, notified>>
    PROVE  NotifyInv'
<1> DEFINE t == Task("markAsClosed", IF asked = Nil THEN noStatus ELSE asked)
<1>1. CASE alive
  <2>1. t \in Tasks /\ t.t # "notify"
    BY KillTask DEF Task
  <2>2. loop' = Append(loop, t)
    BY <1>1 DEF JustKill, Execute
  <2> QED
    BY <2>1, <2>2, NotifyAppend
<1>2. CASE ~alive
  BY <1>2 DEF JustKill, NotifyInv, Pending, Resolving
<1> QED
  BY <1>1, <1>2

\* closing the wsi submits no notification of its own
LEMMA NotifyCloseFree ==
    ASSUME TypeOK, NotifyInv, NEW reason, NEW broken,
           NEW asked \in Statuses \cup {Nil}, CloseFreeWsi(reason, broken, asked),
           UNCHANGED <<lwsCloseStatus, cur, notified>>
    PROVE  NotifyInv'
<1>1. CASE UNCHANGED loop
  BY <1>1 DEF NotifyInv, Pending, Resolving
<1>2. CASE JustKill(asked)
  BY <1>2, NotifyKill
<1> QED
  BY <1>1, <1>2 DEF CloseFreeWsi

\* a closure that is no notification may be taken from the queue
LEMMA NotifyTail ==
    ASSUME TypeOK, NotifyInv, loop # <<>>, Head(loop).t # "notify", loop' = Tail(loop),
           UNCHANGED <<lwsCloseStatus, notified>>, ~Resolving, ~Resolving'
    PROVE  NotifyInv'
<1>1. /\ DOMAIN loop = 1..Len(loop) /\ Len(loop) \in Nat
      /\ DOMAIN loop' = 1..(Len(loop) - 1)
      /\ \A i \in DOMAIN loop' : loop'[i] = loop[i + 1]
  BY DEF TypeOK, TypeQueues
<1>2. \A i \in Pending("notify")' : i + 1 \in Pending("notify") /\ loop'[i] = loop[i + 1]
  BY <1>1 DEF Pending
<1>3. \A i \in Pending("notify")' : i \in Int
  BY <1>1 DEF Pending
<1>4. lwsCloseStatus = Nil => Pending("notify")' = {}
  BY <1>2 DEF NotifyInv
<1>5. \A i, j \in Pending("notify")' : i = j
  <2> SUFFICES ASSUME NEW i \in Pending("notify")', NEW j \in Pending("notify")' PROVE i = j
    OBVIOUS
  <2>1. i + 1 = j + 1
    BY <1>2 DEF NotifyInv
  <2> QED
    BY <2>1, <1>3
<1>6. \A i \in Pending("notify")' : loop'[i].arg = lwsCloseStatus /\ notified = <<>>
  BY <1>2 DEF NotifyInv
<1> QED
  BY <1>4, <1>5, <1>6 DEF NotifyInv, Resolving

\* What is known of the notifications still to come.
LEMMA NotifyAlways == Spec => []NotifyInv
<1>1. Init => NotifyInv
  BY DEF Init, NotifyInv, Pending, Resolving, Idle
<1>2. TypeOK /\ NotifyInv /\ [Next]_vars => NotifyInv'
  <2> SUFFICES ASSUME TypeOK, NotifyInv, [Next]_vars PROVE NotifyInv'
    OBVIOUS
  <2> USE DEF clientVars, loopVars, wsiVars, seenVars
  <2>1. CASE UNCHANGED <<lwsCloseStatus, loop, cur, notified>>
    BY <2>1 DEF NotifyInv, Pending, Resolving
  \* closures queued by the owner and by the handshake
  <2>2. ASSUME NEW m \in Msgs, Send(m) PROVE NotifyInv'
    BY <2>2, TasksType, NotifyAppend DEF Send, Execute, Task
  <2>3. ASSUME NEW m \in Msgs, Close(m) PROVE NotifyInv'
    <3>1. CASE UNCHANGED loop
      BY <2>3, <3>1, <2>1 DEF Close
    <3>2. CASE loop' = Append(loop, Task("send", m))
      BY <2>3, <3>2, TasksType, NotifyAppend DEF Close, Task
    <3> QED
      BY <2>3, <3>1, <3>2 DEF Close, Execute
  <2>4. CASE OnClose
    BY <2>4, TasksType, NotifyAppend DEF OnClose, Execute, Task
  <2>5. CASE Connect
    <3>1. CASE UNCHANGED loop
      BY <2>5, <3>1, <2>1 DEF Connect
    <3>2. CASE loop' = Append(loop, Task("connectFail", Nil))
      BY <2>5, <3>2, TasksType, NotifyAppend DEF Connect, Task
    <3>3. CASE loop' = loop \o <<Task("connectFail", Nil), Task("connectFail", Nil)>>
      <4>1. /\ DOMAIN loop' = 1..(Len(loop) + 2) /\ Len(loop) \in Nat
            /\ \A i \in 1..Len(loop) : loop'[i] = loop[i]
            /\ \A i \in (Len(loop) + 1)..(Len(loop) + 2) :
                    loop'[i] = Task("connectFail", Nil)
        <5> DEFINE t == Task("connectFail", Nil)
        <5>1. t \in Tasks /\ <<t, t>> \in Seq(Tasks) /\ Len(<<t, t>>) = 2
          BY TasksType
        <5>2. <<t, t>>[1] = t /\ <<t, t>>[2] = t
          OBVIOUS
        <5> HIDE DEF t
        <5>3. loop' = loop \o <<t, t>>
          BY <3>3 DEF t
        <5>4. loop \in Seq(Tasks) /\ Len(loop) \in Nat
          BY DEF TypeOK, TypeQueues
        <5>5. DOMAIN loop' = 1..(Len(loop) + 2) /\ \A i \in 1..Len(loop) : loop'[i] = loop[i]
          BY <5>1, <5>3, <5>4
        <5>6. loop'[Len(loop) + 1] = t /\ loop'[Len(loop) + 2] = t
          BY <5>1, <5>2, <5>3, <5>4
        <5>7. \A i \in (Len(loop) + 1)..(Len(loop) + 2) : i = Len(loop) + 1 \/ i = Len(loop) + 2
          BY <5>4
        <5>8. \A i \in (Len(loop) + 1)..(Len(loop) + 2) : loop'[i] = t
          BY <5>6, <5>7, Zenon
        <5> QED
          BY <5>4, <5>5, <5>8 DEF t
      <4> QED
        BY <2>5, <4>1, NotifyGrows DEF Connect, Task
    <3> QED
      BY <2>5, <3>1, <3>2, <3>3 DEF Connect, Execute
  <2>6. CASE ConnectionError
    <3>1. CASE UNCHANGED loop
      BY <2>6, <3>1, <2>1 DEF ConnectionError
    <3>2. CASE loop' = Append(loop, Task("connectFail", Nil))
      BY <2>6, <3>2, TasksType, NotifyAppend DEF ConnectionError, Task
    <3> QED
      BY <2>6, <3>1, <3>2 DEF ConnectionError, Execute
  <2>7. CASE Established
    <3>1. CASE UNCHANGED loop
      BY <2>7, <3>1, <2>1 DEF Established
    <3>2. CASE loop' = Append(loop, Task("connectOk", Nil))
      BY <2>7, <3>2, TasksType, NotifyAppend DEF Established, Task
    <3> QED
      BY <2>7, <3>1, <3>2 DEF Established, Execute
  \* closures run by the loop
  <2>8. CASE RunSend
    BY <2>8, NotifyTail DEF RunSend, AfterCheck, At, Idle, Resolving
  <2>9. CASE RunSetOnClose
    BY <2>9, NotifyTail DEF RunSetOnClose, Idle, Resolving
  <2>10. CASE RunConnectResult
    BY <2>10, NotifyTail DEF RunConnectResult, Idle, Resolving
  <2>11. CASE RunMarkAsClosed
    <3>1. CASE isClosedForever
      BY <2>11, <3>1, NotifyTail DEF RunMarkAsClosed, Idle, Resolving
    <3>2. CASE ~isClosedForever
      <4>1. lwsCloseStatus = Nil /\ Pending("notify") = {} /\ notified = <<>>
        BY <3>2 DEF isClosedForever, NotifyInv
      <4>2. /\ loop # <<>> /\ loop' = Tail(loop) /\ notified' = notified
            /\ lwsCloseStatus' = Head(loop).arg
            /\ cur' = At("resolve", Head(loop).arg)
        BY <2>11, <3>2 DEF RunMarkAsClosed
      <4>3. Head(loop).arg \in Statuses
        BY <2>11, TaskArgs DEF RunMarkAsClosed, TypeOK, TypeQueues
      <4>4. lwsCloseStatus' # Nil
        BY <4>2, <4>3, NilAssumption
      <4>5. Pending("notify")' = {}
        BY <4>1, <4>2 DEF Pending, TypeOK, TypeQueues
      <4> QED
        BY <4>1, <4>2, <4>4, <4>5 DEF NotifyInv, At
    <3> QED
      BY <3>1, <3>2
  <2>12. CASE RunNotify
    <3>1. /\ loop # <<>> /\ Head(loop).t = "notify" /\ loop' = Tail(loop)
          /\ notified' = Append(notified, Head(loop).arg) /\ cur = Idle
          /\ UNCHANGED <<lwsCloseStatus, cur>>
      BY <2>12 DEF RunNotify
    <3>2. 1 \in Pending("notify") /\ loop[1] = Head(loop)
      BY <3>1 DEF Pending, TypeOK, TypeQueues
    <3>3. notified = <<>> /\ Head(loop).arg = lwsCloseStatus
      BY <3>2 DEF NotifyInv
    <3>4. notified' = <<lwsCloseStatus>> /\ lwsCloseStatus # Nil
      BY <3>1, <3>2, <3>3 DEF NotifyInv
    <3>5. Pending("notify")' = {}
      <4>1. \A i \in Pending("notify")' : i \in Nat \ {0} /\ i + 1 \in Pending("notify")
        BY <3>1 DEF Pending, TypeOK, TypeQueues
      <4>2. \A i \in Pending("notify")' : i + 1 = 1
        BY <4>1, <3>2 DEF NotifyInv
      <4> QED
        BY <4>1, <4>2
    <3> QED
      BY <3>1, <3>4, <3>5 DEF NotifyInv, Resolving, Idle
  \* send() and close() in progress on the loop
  <2>13. ASSUME NEW m \in Msgs, LoopSend(m) \/ LoopClose(m) PROVE NotifyInv'
    BY <2>13 DEF LoopSend, LoopClose, AfterCheck, At, Idle, NotifyInv, Pending, Resolving
  <2>14. CASE SendEnqueue \/ SendWritable
    <3>1. UNCHANGED <<lwsCloseStatus, loop, notified>>
      BY <2>14 DEF SendEnqueue, SendWritable
    <3>2. ~Resolving /\ ~Resolving'
      <4>1. cur' = Idle \/ cur' = At("writable", cur.msg)
        BY <2>14 DEF SendEnqueue, SendWritable
      <4>2. cur'.pc \in {"idle", "writable"}
        BY <4>1 DEF At, Idle
      <4>3. cur.pc \in {"enqueue", "writable"}
        BY <2>14 DEF SendEnqueue, SendWritable
      <4> QED
        BY <4>2, <4>3 DEF Resolving
    <3> QED
      BY <3>1, <3>2 DEF NotifyInv, Pending
  \* markAsClosed in progress, and deinit
  <2>15. CASE ResolvePending
    BY <2>15 DEF ResolvePending, At, NotifyInv, Pending, Resolving
  <2>16. CASE FinishMarkAsClosed
    <3>1. /\ cur.msg = lwsCloseStatus /\ notified = <<>> /\ Pending("notify") = {}
          /\ lwsCloseStatus # Nil
      BY <2>16 DEF FinishMarkAsClosed, NotifyInv, Resolving
    <3>2. UNCHANGED <<lwsCloseStatus, notified>> /\ cur' = Idle
      BY <2>16 DEF FinishMarkAsClosed
    <3>3. CASE UNCHANGED loop
      BY <3>1, <3>2, <3>3 DEF NotifyInv, Pending, Resolving, Idle
    <3>4. CASE loop' = Append(loop, Task("notify", lwsCloseStatus))
      <4>1. \A i \in Pending("notify")' : i = Len(loop) + 1 /\ loop'[i].arg = lwsCloseStatus
        BY <3>1, <3>4 DEF Pending, Task, TypeOK, TypeQueues
      <4> QED
        BY <3>1, <3>2, <4>1 DEF NotifyInv, Resolving, Idle
    <3> QED
      BY <2>16, <3>1, <3>3, <3>4 DEF FinishMarkAsClosed, Execute
  <2>17. CASE Deinit
    <3>1. CASE isClosedForever
      BY <2>17, <3>1, <2>1 DEF Deinit
    <3>2. CASE ~isClosedForever
      <4>1. /\ notified = <<>> /\ Pending("notify") = {}
            /\ lwsCloseStatus' = goingAway /\ goingAway # Nil
            /\ notified' = notified /\ cur' = Idle
        BY <2>17, <3>2, NilAssumption DEF Deinit, isClosedForever, NotifyInv, Statuses
      <4>2. CASE UNCHANGED loop
        BY <4>1, <4>2 DEF NotifyInv, Pending, Resolving, Idle
      <4>3. CASE loop' = Append(loop, Task("notify", goingAway))
        <5>1. \A i \in Pending("notify")' : i = Len(loop) + 1 /\ loop'[i].arg = goingAway
          BY <4>1, <4>3 DEF Pending, Task, TypeOK, TypeQueues
        <5> QED
          BY <4>1, <5>1 DEF NotifyInv, Resolving, Idle
      <4> QED
        BY <2>17, <3>2, <4>2, <4>3 DEF Deinit, Execute
    <3> QED
      BY <3>1, <3>2
  \* the end of the connection
  <2>18. waitingLwsCloseStatus \in Statuses \cup {Nil}
    BY DEF TypeOK, TypeStates
  <2>19. CASE WriteableNoClient
    BY <2>19, NotifyCloseFree DEF WriteableNoClient
  <2>20. CASE WritePing
    <3>1. CASE UNCHANGED loop
      BY <2>20, <3>1, <2>1 DEF WritePing
    <3>2. CASE CloseFreeWsi(closeBuf, TRUE, waitingLwsCloseStatus)
      BY <2>20, <3>2, <2>18, NotifyCloseFree DEF WritePing
    <3> QED
      BY <2>20, <3>1, <3>2 DEF WritePing
  <2>21. CASE WriteClose
    <3>1. hand[1].msg \in Statuses \cup {Nil}
      BY <2>21 DEF WriteClose, NoFrame, TypeOK, TypeQueues, Frame, Statuses
    <3> QED
      BY <2>21, <3>1, NotifyCloseFree DEF WriteClose
  <2>22. CASE SendClose
    <3>1. CASE UNCHANGED loop
      BY <2>22, <3>1, <2>1 DEF SendClose
    <3>2. CASE JustKill(waitingLwsCloseStatus)
      BY <2>22, <3>2, <2>18, NotifyKill DEF SendClose
    <3> QED
      BY <2>22, <3>1, <3>2 DEF SendClose
  <2>23. CASE RecvClose
    <3>1. CASE loop' = Append(loop, Task("markAsClosed", peerStatus))
      BY <2>23, <3>1, TasksType, NotifyAppend DEF RecvClose, Task, Statuses
    <3>2. CASE CloseFreeWsi(closeBuf, FALSE, Nil)
      BY <2>23, <3>2, NotifyCloseFree DEF RecvClose
    <3> QED
      BY <2>23, <3>1, <3>2 DEF RecvClose, Execute
  <2>24. CASE RecvCloseAck \/ CloseTimeout
    BY <2>24, <2>18, NotifyKill DEF RecvCloseAck, CloseTimeout
  <2>25. CASE RecvBad
    BY <2>25, <2>18, NotifyCloseFree DEF RecvBad
  <2>26. CASE ConnectionLost
    BY <2>26, <2>18, NotifyCloseFree DEF ConnectionLost
  <2>27. CASE Release \/ ConnectTimeout \/ WriteableEmpty \/ WriteablePop \/ WriteData
              \/ WsiDestroy \/ UNCHANGED vars
    BY <2>27, <2>1
       DEF vars, Release, ConnectTimeout, WriteableEmpty, WriteablePop, WriteData, WsiDestroy
  <2> QED
    BY <2>2, <2>3, <2>4, <2>5, <2>6, <2>7, <2>8, <2>9, <2>10, <2>11, <2>12, <2>13, <2>14,
       <2>15, <2>16, <2>17, <2>19, <2>20, <2>21, <2>22, <2>23, <2>24, <2>25, <2>26, <2>27
       DEF Next, Owner, LoopStep, LoopOwner, ServiceStep, Handshake, Network
<1> QED
  BY <1>1, <1>2, TypeCorrect, PTL DEF Spec

\* The onClose callback runs at most once and gets the close status the client keeps.
THEOREM NotifiedOnceCorrect == Spec => []NotifiedOnce
<1>1. NotifyInv => NotifiedOnce
  BY DEF NotifyInv, NotifiedOnce
<1> QED
  BY <1>1, NotifyAlways, PTL

-----------------------------------------------------------------------------
(* Promises.  What a queue holds is stated with a set of its elements, so    *)
(* that one lemma for each way a queue changes serves the loop and the three *)
(* places frames are in.                                                     *)

\* some element of s is in Q; at most one is
Has(s, Q) == \E i \in DOMAIN s : s[i] \in Q
Once(s, Q) == \A i, j \in DOMAIN s : s[i] \in Q /\ s[j] \in Q => i = j

\* A sequence that is not empty and has at most one element has one.
LEMMA OneElement ==
    ASSUME NEW S, NEW s \in Seq(S), s # <<>>, Len(s) <= 1
    PROVE  DOMAIN s = {1} /\ s[1] \in S
<1>1. Len(s) \in Nat /\ Len(s) # 0 /\ DOMAIN s = 1..Len(s)
  OBVIOUS
<1> QED
  BY <1>1

\* Nothing is in the empty sequence.
LEMMA HasEmpty == ASSUME NEW Q PROVE ~Has(<<>>, Q) /\ Once(<<>>, Q)
BY DEF Has, Once

\* Appending an element adds that element.
LEMMA HasAppend ==
    ASSUME NEW S, NEW s \in Seq(S), NEW e \in S, NEW Q
    PROVE  /\ Has(Append(s, e), Q) <=> Has(s, Q) \/ e \in Q
           /\ Once(s, Q) /\ ~(Has(s, Q) /\ e \in Q) => Once(Append(s, e), Q)
<1> DEFINE t == Append(s, e)
<1>1. /\ DOMAIN s = 1..Len(s) /\ Len(s) \in Nat /\ DOMAIN t = 1..(Len(s) + 1)
      /\ t[Len(s) + 1] = e /\ \A i \in DOMAIN s : t[i] = s[i]
  OBVIOUS
<1>2. \A i \in DOMAIN t : i \in DOMAIN s \/ i = Len(s) + 1
  BY <1>1
<1>3. Len(s) + 1 \in DOMAIN t /\ DOMAIN s \subseteq DOMAIN t
  BY <1>1
<1> HIDE DEF t
<1> QED
  BY <1>1, <1>2, <1>3 DEF Has, Once, t

\* What a concatenation has, one of its parts has.
LEMMA HasConcat ==
    ASSUME NEW S, NEW s \in Seq(S), NEW t \in Seq(S), NEW Q
    PROVE  /\ Has(s \o t, Q) <=> Has(s, Q) \/ Has(t, Q)
           /\ Once(s, Q) /\ Once(t, Q) /\ ~(Has(s, Q) /\ Has(t, Q)) => Once(s \o t, Q)
<1> DEFINE u == s \o t
<1>1. /\ DOMAIN s = 1..Len(s) /\ Len(s) \in Nat /\ DOMAIN t = 1..Len(t) /\ Len(t) \in Nat
      /\ DOMAIN u = 1..(Len(s) + Len(t))
      /\ \A i \in DOMAIN s : u[i] = s[i]
      /\ \A i \in DOMAIN t : u[Len(s) + i] = t[i]
  OBVIOUS
<1> HIDE DEF u
<1>2. \A i \in DOMAIN u : i \in DOMAIN s \/ (i - Len(s) \in DOMAIN t /\ u[i] = t[i - Len(s)])
  BY <1>1
<1>3. \A i \in DOMAIN t : Len(s) + i \in DOMAIN u
  BY <1>1
<1>4. DOMAIN s \subseteq DOMAIN u /\ \A i, j \in DOMAIN u : i - Len(s) = j - Len(s) => i = j
  BY <1>1
<1>5. Has(u, Q) <=> Has(s, Q) \/ Has(t, Q)
  BY <1>1, <1>2, <1>3, <1>4 DEF Has
<1>6. ASSUME Once(s, Q), Once(t, Q), ~(Has(s, Q) /\ Has(t, Q)) PROVE Once(u, Q)
  BY <1>1, <1>2, <1>4, <1>6 DEF Has, Once
<1> QED
  BY <1>5, <1>6 DEF u

\* Head and Tail share out what a sequence has.
LEMMA HasTail ==
    ASSUME NEW S, NEW s \in Seq(S), s # <<>>, NEW Q
    PROVE  /\ Has(s, Q) <=> Head(s) \in Q \/ Has(Tail(s), Q)
           /\ Once(s, Q) => Once(Tail(s), Q)
           /\ Once(s, Q) /\ Head(s) \in Q => ~Has(Tail(s), Q)
<1> DEFINE t == Tail(s)
<1>1. /\ DOMAIN s = 1..Len(s) /\ Len(s) \in Nat /\ Len(s) > 0
      /\ DOMAIN t = 1..(Len(s) - 1) /\ Head(s) = s[1]
      /\ \A i \in DOMAIN t : t[i] = s[i + 1]
  OBVIOUS
<1> HIDE DEF t
<1>2. \A i \in DOMAIN t : i + 1 \in DOMAIN s /\ i + 1 # 1 /\ t[i] = s[i + 1]
  BY <1>1
<1>3. \A i \in DOMAIN s : i = 1 \/ (i - 1 \in DOMAIN t /\ t[i - 1] = s[i])
  BY <1>1
<1>4. 1 \in DOMAIN s /\ \A i, j \in DOMAIN t : i + 1 = j + 1 => i = j
  BY <1>1
<1>5. Has(s, Q) <=> Head(s) \in Q \/ Has(t, Q)
  BY <1>1, <1>2, <1>3, <1>4 DEF Has
<1>6. Once(s, Q) => Once(t, Q)
  BY <1>2, <1>4 DEF Once
<1>7. Once(s, Q) /\ Head(s) \in Q => ~Has(t, Q)
  BY <1>1, <1>2, <1>4 DEF Once, Has
<1> QED
  BY <1>5, <1>6, <1>7 DEF t

\* A sequence of one element has that element, once.
LEMMA HasOne ==
    ASSUME NEW e, NEW Q
    PROVE  (Has(<<e>>, Q) <=> e \in Q) /\ Once(<<e>>, Q)
BY DEF Has, Once

\* the frames that carry the promise of m, and the closure of its send()
Carry(m) == {f \in Frame : f.msg = m /\ f.promise}
Sending(m) == {Task("send", m)}

\* send() gives the promise to one of the frames it appends, and no frame of a close() or
\* of another message has it.
LEMMA FramesCarryOnce ==
    ASSUME NEW m \in Msgs, NEW p \in Promised
    PROVE  /\ Once(FramesOf(m), Carry(p))
           /\ Has(FramesOf(m), Carry(p)) <=> m = p
<1>1. Size[m] \in Nat /\ maxFrameSize \in Nat \ {0} /\ FramesOf(m) \in Seq(Frame)
  BY SizeAssumption, FramesOfType
<1>2. CASE m \in CloseMsgs \cup PingMsgs \/ Size[m] <= maxFrameSize
  <2>1. FramesOf(m) = <<SingleFrame(m)>> /\ SingleFrame(m) \in Frame
    BY <1>1, <1>2 DEF FramesOf
  <2>2. SingleFrame(m).msg = m /\ (SingleFrame(m).promise <=> m \in Promised)
    BY DEF SingleFrame
  <2>3. SingleFrame(m) \in Carry(p) <=> m = p
    BY <2>1, <2>2 DEF Carry
  <2> QED
    BY <2>1, <2>3, HasOne
<1>3. CASE ~(m \in CloseMsgs \cup PingMsgs \/ Size[m] <= maxFrameSize)
  <2> DEFINE n == Pieces(Size[m])
  <2>1. FramesOf(m) = ChunkFrames(m)
    BY <1>3 DEF FramesOf
  <2>2. n \in Nat /\ n >= 1
    BY <1>1, <1>3, CeilingDivision DEF Pieces
  <2> HIDE DEF n
  <2>3. DOMAIN FramesOf(m) = 1..n
    BY <2>1 DEF ChunkFrames, n
  <2>4. ASSUME NEW i \in 1..n PROVE FramesOf(m)[i] \in Carry(p) <=> m = p /\ i = n
    <3> DEFINE f == [op |-> IF i = 1 THEN "data" ELSE "continuation",
                     msg |-> m,
                     len |-> IF i < n THEN maxFrameSize
                             ELSE Size[m] - (n - 1) * maxFrameSize,
                     fin |-> i = n,
                     promise |-> i = n]
    <3>1. FramesOf(m)[i] = f /\ FramesOf(m)[i] \in Frame
      BY <1>1, <2>1, <2>2, <2>3 DEF ChunkFrames, n
    <3>2. f.msg = m
      OBVIOUS
    <3>3. f.promise <=> i = n
      OBVIOUS
    <3> QED
      BY <3>1, <3>2, <3>3 DEF Carry
  <2> QED
    BY <2>2, <2>3, <2>4 DEF Has, Once
<1> QED
  BY <1>2, <1>3

\* The promise of m is in one place: on the loop, in a send() in progress, in the write
\* queue, in what markAsClosed took, or in the WRITEABLE callback's hand.
HeldOnce(m) ==
    /\ Once(loop, Sending(m)) /\ Once(toBeWritten, Carry(m))
    /\ Once(pendingWrites, Carry(m)) /\ Once(hand, Carry(m))
    /\ ~(Has(loop, Sending(m)) /\ (\/ cur = At("enqueue", m) \/ Has(toBeWritten, Carry(m))
                                   \/ Has(pendingWrites, Carry(m)) \/ Has(hand, Carry(m))))
    /\ ~(cur = At("enqueue", m) /\ (\/ Has(toBeWritten, Carry(m))
                                    \/ Has(pendingWrites, Carry(m)) \/ Has(hand, Carry(m))))
    /\ ~(Has(toBeWritten, Carry(m)) /\ (Has(pendingWrites, Carry(m)) \/ Has(hand, Carry(m))))
    /\ ~(Has(pendingWrites, Carry(m)) /\ Has(hand, Carry(m)))

\* the promise of m is in one of these places
Held(m) == \/ Has(loop, Sending(m)) \/ cur = At("enqueue", m) \/ Has(toBeWritten, Carry(m))
           \/ Has(pendingWrites, Carry(m)) \/ Has(hand, Carry(m))

\* It is there exactly as long as it is not resolved; one that was not made yet is nowhere;
\* and markAsClosed has a queue in hand only while it runs.
HeldInv ==
    /\ \A m \in Promised : HeldOnce(m) /\ (Held(m) <=> promise[m] = "pending")
    /\ \A m \in Promised : m \notin submitted => promise[m] = "none"
    /\ pendingWrites # <<>> => Resolving

\* a queue that stays, or grows by something else
LEMMA HasGrown ==
    ASSUME NEW S, NEW s \in Seq(S), NEW t, NEW Q,
           t = s \/ \E e \in S : e \notin Q /\ t = Append(s, e)
    PROVE  (Has(t, Q) <=> Has(s, Q)) /\ (Once(s, Q) => Once(t, Q))
<1>1. CASE t = s
  BY <1>1
<1>2. CASE t # s
  <2>1. PICK e \in S : e \notin Q /\ t = Append(s, e)
    BY <1>2
  <2> QED
    BY <2>1, HasAppend
<1> QED
  BY <1>1, <1>2

\* what HeldInv is about, but for the loop and cur
heldVars == <<toBeWritten, pendingWrites, hand, promise, submitted>>

\* A step that leaves promises, frames and the closures of sends alone.
LEMMA HeldFrame ==
    ASSUME HeldInv, UNCHANGED heldVars,
           \A m \in Promised : /\ Has(loop', Sending(m)) <=> Has(loop, Sending(m))
                               /\ Once(loop, Sending(m)) => Once(loop', Sending(m))
                               /\ cur' = At("enqueue", m) <=> cur = At("enqueue", m),
           pendingWrites # <<>> => Resolving'
    PROVE  HeldInv'
BY DEF HeldInv, HeldOnce, Held, heldVars

\* Any closure but that of a send() may be queued.
LEMMA HeldAppend ==
    ASSUME TypeOK, HeldInv, UNCHANGED <<heldVars, cur>>, NEW t \in Tasks, t.t # "send",
           loop' = Append(loop, t)
    PROVE  HeldInv'
<1>1. \A m \in Promised : t \notin Sending(m)
  BY DEF Sending, Task
<1>2. loop \in Seq(Tasks)
  BY DEF TypeOK, TypeQueues
<1>3. \A m \in Promised : /\ Has(loop', Sending(m)) <=> Has(loop, Sending(m))
                          /\ Once(loop, Sending(m)) => Once(loop', Sending(m))
  BY <1>1, <1>2, HasAppend
<1> QED
  BY <1>3, HeldFrame DEF HeldInv, Resolving

\* Nothing at all happens to promises.
LEMMA HeldStays ==
    ASSUME HeldInv, UNCHANGED <<heldVars, cur, loop>>
    PROVE  HeldInv'
BY HeldFrame DEF HeldInv, Resolving

\* The kill path queues no send().
LEMMA HeldKill ==
    ASSUME TypeOK, HeldInv, UNCHANGED <<heldVars, cur>>, NEW asked \in Statuses \cup {Nil},
           JustKill(asked)
    PROVE  HeldInv'
<1> DEFINE t == Task("markAsClosed", IF asked = Nil THEN noStatus ELSE asked)
<1>1. t \in Tasks /\ t.t # "send"
  BY KillTask DEF Task
<1>2. UNCHANGED loop \/ loop' = Append(loop, t)
  BY DEF JustKill, Execute
<1> QED
  BY <1>1, <1>2, HeldAppend, HeldStays

\* Nor does the whole close path.
LEMMA HeldCloseFree ==
    ASSUME TypeOK, HeldInv, UNCHANGED <<heldVars, cur>>, NEW asked \in Statuses \cup {Nil},
           NEW reason, NEW broken, CloseFreeWsi(reason, broken, asked)
    PROVE  HeldInv'
BY HeldKill, HeldStays DEF CloseFreeWsi

\* A closure that is no send() is run.
LEMMA HeldTail ==
    ASSUME TypeOK, HeldInv, UNCHANGED <<toBeWritten, hand, promise, submitted, pendingWrites>>,
           loop # <<>>, Head(loop).t # "send", loop' = Tail(loop), cur = Idle, cur' = Idle
    PROVE  HeldInv'
<1>1. \A m \in Promised : Head(loop) \notin Sending(m)
  BY DEF Sending, Task
<1>2. loop \in Seq(Tasks)
  BY DEF TypeOK, TypeQueues
<1>3. \A m \in Promised : /\ Has(loop', Sending(m)) <=> Has(loop, Sending(m))
                          /\ Once(loop, Sending(m)) => Once(loop', Sending(m))
  BY <1>1, <1>2, HasTail
<1> QED
  BY <1>3, HeldFrame DEF HeldInv, Resolving, heldVars

\* A close() has neither the closure nor the step of a send() that has a promise.
LEMMA NotSending ==
    ASSUME NEW m \in Promised, NEW p \in CloseMsgs
    PROVE  Task("send", p) \notin Sending(m) /\ At("enqueue", p) # At("enqueue", m)
<1>1. p # m
  BY DEF Promised
<1>2. Task("send", p).arg # Task("send", m).arg
  BY <1>1 DEF Task
<1>3. At("enqueue", p).msg # At("enqueue", m).msg
  BY <1>1 DEF At
<1> QED
  BY <1>2, <1>3 DEF Sending

\* Closures and steps of send() are told apart by their message.
LEMMA EnqueueArg ==
    ASSUME NEW m, NEW p
    PROVE  /\ At("enqueue", m) = At("enqueue", p) <=> m = p
           /\ Task("send", m) \in Sending(p) <=> m = p
           /\ Idle # At("enqueue", m)
<1>1. At("enqueue", m).msg = m /\ At("enqueue", p).msg = p
  BY DEF At
<1>2. Task("send", m).arg = m /\ Task("send", p).arg = p
  BY DEF Task
<1>3. Idle.pc = "idle" /\ At("enqueue", m).pc = "enqueue"
  BY DEF Idle, At
<1> QED
  BY <1>1, <1>2, <1>3 DEF Sending

\* send() off the loop: the new promise goes with the closure.
LEMMA HeldSend ==
    ASSUME TypeOK, HeldInv, NEW p \in Msgs, Send(p)
    PROVE  HeldInv'
<1>1. /\ p \in Promised /\ p \notin submitted /\ submitted' = submitted \cup {p}
      /\ promise' = [promise EXCEPT ![p] = "pending"]
      /\ loop' = Append(loop, Task("send", p))
      /\ UNCHANGED <<toBeWritten, pendingWrites, hand, cur>>
  BY DEF Send, Execute, clientVars, wsiVars
<1>2. loop \in Seq(Tasks) /\ Task("send", p) \in Tasks
      /\ promise \in [Msgs -> {"none", "pending", "ok", "failed"}] /\ Promised \subseteq Msgs
  BY TasksType DEF TypeOK, TypeQueues, TypeStates, Promised
<1>3. ASSUME NEW m \in Promised
      PROVE  HeldOnce(m)' /\ (Held(m)' <=> promise'[m] = "pending")
  <2>1. HeldOnce(m) /\ (Held(m) <=> promise[m] = "pending") /\ (m = p => ~Held(m))
    BY <1>1 DEF HeldInv
  <2>2. /\ Has(loop', Sending(m)) <=> Has(loop, Sending(m)) \/ m = p
        /\ Once(loop', Sending(m))
    BY <1>1, <1>2, <2>1, HasAppend, EnqueueArg DEF HeldOnce, Held
  <2>3. promise'[m] = IF m = p THEN "pending" ELSE promise[m]
    BY <1>1, <1>2
  <2> QED
    BY <1>1, <2>1, <2>2, <2>3 DEF HeldOnce, Held
<1> QED
  BY <1>1, <1>2, <1>3 DEF HeldInv, Resolving

\* close() off the loop: its closure carries no promise.
LEMMA HeldClose ==
    ASSUME TypeOK, HeldInv, NEW p \in Msgs, Close(p)
    PROVE  HeldInv'
<1>1. /\ p \in CloseMsgs /\ submitted' = submitted \cup {p}
      /\ UNCHANGED loop \/ loop' = Append(loop, Task("send", p))
      /\ UNCHANGED <<toBeWritten, pendingWrites, hand, cur, promise>>
  BY DEF Close, Execute, clientVars, wsiVars
<1>2. loop \in Seq(Tasks) /\ Task("send", p) \in Tasks
  BY TasksType DEF TypeOK, TypeQueues
<1>3. \A m \in Promised : /\ Has(loop', Sending(m)) <=> Has(loop, Sending(m))
                          /\ Once(loop, Sending(m)) => Once(loop', Sending(m))
                          /\ m # p
  BY <1>1, <1>2, HasGrown, NotSending DEF Promised
<1> QED
  BY <1>1, <1>3 DEF HeldInv, Resolving, HeldOnce, Held

\* The closure of a send(): the promise moves into send(), or is failed.
LEMMA HeldRunSend ==
    ASSUME TypeOK, HeldInv, RunSend
    PROVE  HeldInv'
<1> DEFINE p == Head(loop).arg
<1>1. loop \in Seq(Tasks) /\ loop # <<>> /\ Head(loop) \in Tasks
      /\ promise \in [Msgs -> {"none", "pending", "ok", "failed"}] /\ Promised \subseteq Msgs
  BY DEF RunSend, TypeOK, TypeQueues, TypeStates, Promised
<1>2. Head(loop) = Task("send", p) /\ p \in Msgs
  BY <1>1, TaskArgs DEF RunSend, Tasks, Task
<1>3. /\ cur = Idle /\ loop' = Tail(loop) /\ cur' = AfterCheck(p)
      /\ promise' = IF Refused /\ p \in Promised
                    THEN [promise EXCEPT ![p] = "failed"] ELSE promise
      /\ UNCHANGED <<toBeWritten, pendingWrites, hand, submitted>>
  BY DEF RunSend, clientVars, wsiVars
<1> HIDE DEF p
<1>4. ASSUME NEW m \in Promised
      PROVE  /\ HeldOnce(m)' /\ (Held(m)' <=> promise'[m] = "pending")
             /\ m \notin submitted => promise'[m] = "none"
  <2>1. /\ HeldOnce(m) /\ (Held(m) <=> promise[m] = "pending")
        /\ m \notin submitted => promise[m] = "none"
    BY DEF HeldInv
  <2>2. /\ Has(loop, Sending(m)) <=> Head(loop) \in Sending(m) \/ Has(loop', Sending(m))
        /\ Once(loop', Sending(m))
        /\ Head(loop) \in Sending(m) => ~Has(loop', Sending(m))
    BY <1>1, <1>3, <2>1, HasTail DEF HeldOnce
  <2>3. Head(loop) \in Sending(m) <=> m = p
    BY <1>2, EnqueueArg
  <2>4. cur # At("enqueue", m) /\ (cur' = At("enqueue", m) <=> m = p /\ ~Refused)
    BY <1>3, EnqueueArg DEF AfterCheck
  <2>5. promise'[m] = IF m = p /\ Refused THEN "failed" ELSE promise[m]
    BY <1>1, <1>3
  <2> QED
    BY <1>3, <2>1, <2>2, <2>3, <2>4, <2>5 DEF HeldOnce, Held
<1>5. pendingWrites = <<>>
  BY <1>3 DEF HeldInv, Resolving, Idle
<1> QED
  BY <1>3, <1>4, <1>5 DEF HeldInv

\* send() on the loop: the new promise is in send(), or failed at once.
LEMMA HeldLoopSend ==
    ASSUME TypeOK, HeldInv, NEW p \in Msgs, LoopSend(p)
    PROVE  HeldInv'
<1>1. /\ p \in Promised /\ p \notin submitted /\ submitted' = submitted \cup {p}
      /\ cur = Idle /\ cur' = AfterCheck(p)
      /\ promise' = [promise EXCEPT ![p] = IF Refused THEN "failed" ELSE "pending"]
      /\ UNCHANGED <<toBeWritten, pendingWrites, hand, loop>>
  BY DEF LoopSend, clientVars, wsiVars
<1>2. promise \in [Msgs -> {"none", "pending", "ok", "failed"}] /\ Promised \subseteq Msgs
  BY DEF TypeOK, TypeStates, Promised
<1>3. ASSUME NEW m \in Promised
      PROVE  /\ HeldOnce(m)' /\ (Held(m)' <=> promise'[m] = "pending")
             /\ m \notin submitted' => promise'[m] = "none"
  <2>1. /\ HeldOnce(m) /\ (Held(m) <=> promise[m] = "pending")
        /\ m \notin submitted => promise[m] = "none" /\ ~Held(m)
    BY DEF HeldInv
  <2>2. cur # At("enqueue", m) /\ (cur' = At("enqueue", m) <=> m = p /\ ~Refused)
    BY <1>1, EnqueueArg DEF AfterCheck
  <2>3. promise'[m] = IF m # p THEN promise[m] ELSE IF Refused THEN "failed" ELSE "pending"
    BY <1>1, <1>2
  <2> QED
    BY <1>1, <2>1, <2>2, <2>3 DEF HeldOnce, Held
<1>4. pendingWrites = <<>>
  BY <1>1 DEF HeldInv, Resolving, Idle
<1> QED
  BY <1>1, <1>3, <1>4 DEF HeldInv

\* close() on the loop carries no promise.
LEMMA HeldLoopClose ==
    ASSUME TypeOK, HeldInv, NEW p \in Msgs, LoopClose(p)
    PROVE  HeldInv'
<1>1. /\ p \in CloseMsgs /\ submitted' = submitted \cup {p}
      /\ cur = Idle /\ cur' = AfterCheck(p)
      /\ UNCHANGED <<toBeWritten, pendingWrites, hand, loop, promise>>
  BY DEF LoopClose, wsiVars
<1>2. \A m \in Promised : cur # At("enqueue", m) /\ cur' # At("enqueue", m) /\ m # p
  BY <1>1, EnqueueArg, NotSending DEF AfterCheck
<1>3. pendingWrites = <<>>
  BY <1>1 DEF HeldInv, Resolving, Idle
<1> QED
  BY <1>1, <1>2, <1>3 DEF HeldInv, HeldOnce, Held

\* send() appends its frames: the promise moves into the last of them.
LEMMA HeldEnqueue ==
    ASSUME TypeOK, HeldInv, SendEnqueue
    PROVE  HeldInv'
<1> DEFINE p == cur.msg
<1>1. /\ p \in Msgs /\ cur = At("enqueue", p) /\ Promised \subseteq Msgs
      /\ promise \in [Msgs -> {"none", "pending", "ok", "failed"}]
      /\ toBeWritten \in Seq(Frame) /\ FramesOf(p) \in Seq(Frame)
  <2>1. cur \in CurStates /\ cur.pc = "enqueue"
    BY DEF SendEnqueue, TypeOK, TypeStates
  <2>2. p \in Msgs /\ cur = At("enqueue", p)
    BY <2>1 DEF CurStates, Idle, At
  <2> QED
    BY <2>2, FramesOfType DEF TypeOK, TypeStates, TypeQueues, Promised
<1>2. UNCHANGED <<loop, pendingWrites, hand, submitted>>
  BY DEF SendEnqueue, wsiVars
<1>3. pendingWrites = <<>>
  BY <1>1 DEF HeldInv, Resolving, At
<1>4. CASE ~websocket
  <2>1. /\ cur' = Idle /\ UNCHANGED toBeWritten
        /\ promise' = IF p \in Promised THEN [promise EXCEPT ![p] = "failed"] ELSE promise
    BY <1>4 DEF SendEnqueue
  <2> HIDE DEF p
  <2>2. ASSUME NEW m \in Promised
        PROVE  /\ HeldOnce(m)' /\ (Held(m)' <=> promise'[m] = "pending")
               /\ m \notin submitted => promise'[m] = "none"
    <3>1. /\ HeldOnce(m) /\ (Held(m) <=> promise[m] = "pending")
          /\ m \notin submitted => promise[m] = "none"
      BY DEF HeldInv
    <3>2. (cur = At("enqueue", m) <=> m = p) /\ cur' # At("enqueue", m)
      BY <1>1, <2>1, EnqueueArg
    <3>3. promise'[m] = IF m = p THEN "failed" ELSE promise[m]
      BY <1>1, <2>1
    <3> QED
      BY <1>2, <2>1, <3>1, <3>2, <3>3 DEF HeldOnce, Held
  <2> QED
    BY <1>2, <1>3, <2>2 DEF HeldInv
<1>5. CASE websocket
  <2>1. /\ cur' = At("writable", p) /\ toBeWritten' = toBeWritten \o FramesOf(p)
        /\ UNCHANGED promise
    BY <1>5 DEF SendEnqueue
  <2> HIDE DEF p
  <2>2. ASSUME NEW m \in Promised
        PROVE  HeldOnce(m)' /\ (Held(m)' <=> promise'[m] = "pending")
    <3>1. HeldOnce(m) /\ (Held(m) <=> promise[m] = "pending")
      BY DEF HeldInv
    <3>2. cur = At("enqueue", m) <=> m = p
      BY <1>1, EnqueueArg
    <3>3. cur' # At("enqueue", m)
      BY <2>1 DEF At
    <3>4. /\ Has(toBeWritten', Carry(m)) <=> Has(toBeWritten, Carry(m)) \/ m = p
          /\ Once(toBeWritten', Carry(m))
      BY <1>1, <2>1, <3>1, <3>2, HasConcat, FramesCarryOnce DEF HeldOnce, Held
    <3> QED
      BY <1>2, <2>1, <3>1, <3>2, <3>3, <3>4 DEF HeldOnce, Held
  <2> QED
    BY <1>2, <1>3, <2>1, <2>2 DEF HeldInv
<1> QED
  BY <1>4, <1>5 DEF TypeOK, TypeFlags

\* markAsClosed takes the write queue with all its promises.
LEMMA HeldMark ==
    ASSUME TypeOK, HeldInv, RunMarkAsClosed
    PROVE  HeldInv'
<1>1. /\ cur = Idle /\ loop # <<>> /\ Head(loop).t # "send" /\ loop' = Tail(loop)
      /\ UNCHANGED <<hand, promise, submitted>>
  BY DEF RunMarkAsClosed, wsiVars, seenVars
<1>2. CASE isClosedForever
  BY <1>1, <1>2, HeldTail DEF RunMarkAsClosed
<1>3. CASE ~isClosedForever
  <2>1. /\ pendingWrites' = toBeWritten /\ toBeWritten' = <<>>
        /\ cur' = At("resolve", Head(loop).arg)
    BY <1>3 DEF RunMarkAsClosed, TakeWrites
  <2>2. pendingWrites = <<>> /\ Resolving'
    BY <1>1, <2>1 DEF HeldInv, Resolving, Idle, At
  <2>3. \A m \in Promised : Head(loop) \notin Sending(m)
    BY <1>1 DEF Sending, Task
  <2>4. loop \in Seq(Tasks)
    BY DEF TypeOK, TypeQueues
  <2>5. ASSUME NEW m \in Promised
        PROVE  HeldOnce(m)' /\ (Held(m)' <=> promise'[m] = "pending")
    <3>1. HeldOnce(m) /\ (Held(m) <=> promise[m] = "pending")
      BY DEF HeldInv
    <3>2. /\ Has(loop', Sending(m)) <=> Has(loop, Sending(m))
          /\ Once(loop', Sending(m))
      BY <1>1, <2>3, <2>4, <3>1, HasTail DEF HeldOnce
    <3>3. cur # At("enqueue", m) /\ cur' # At("enqueue", m)
      BY <1>1, <2>1, EnqueueArg DEF At
    <3>4. /\ ~Has(toBeWritten', Carry(m)) /\ Once(toBeWritten', Carry(m))
          /\ ~Has(pendingWrites, Carry(m))
      BY <2>1, <2>2, HasEmpty
    <3> QED
      BY <1>1, <2>1, <3>1, <3>2, <3>3, <3>4 DEF HeldOnce, Held
  <2> QED
    BY <1>1, <2>2, <2>5 DEF HeldInv
<1> QED
  BY <1>2, <1>3

\* markAsClosed fails what it took, frame by frame, each promise once.
LEMMA HeldResolve ==
    ASSUME TypeOK, HeldInv, ResolvePending
    PROVE  HeldInv'
<1> DEFINE f == Head(pendingWrites)
<1>1. /\ cur.pc = "resolve" /\ pendingWrites # <<>> /\ pendingWrites \in Seq(Frame)
      /\ f \in Frame /\ Promised \subseteq Msgs
      /\ promise \in [Msgs -> {"none", "pending", "ok", "failed"}]
  BY DEF ResolvePending, TypeOK, TypeQueues, TypeStates, Promised
<1>2. /\ promise' = IF f.promise THEN [promise EXCEPT ![f.msg] = "failed"] ELSE promise
      /\ cur' = cur \/ cur' = At("relock", cur.msg)
      /\ pendingWrites' = Tail(pendingWrites)
      /\ UNCHANGED <<toBeWritten, loop, hand, submitted>>
  BY DEF ResolvePending, clientVars, wsiVars
<1> HIDE DEF f
<1>3. ASSUME NEW m \in Promised
      PROVE  /\ HeldOnce(m)' /\ (Held(m)' <=> promise'[m] = "pending")
             /\ m \notin submitted => promise'[m] = "none"
  <2>1. /\ HeldOnce(m) /\ (Held(m) <=> promise[m] = "pending")
        /\ m \notin submitted => promise[m] = "none"
    BY DEF HeldInv
  <2>2. /\ Has(pendingWrites, Carry(m)) <=> f \in Carry(m) \/ Has(pendingWrites', Carry(m))
        /\ Once(pendingWrites', Carry(m))
        /\ f \in Carry(m) => ~Has(pendingWrites', Carry(m))
    BY <1>1, <1>2, <2>1, HasTail DEF HeldOnce, f
  <2>3. f \in Carry(m) <=> f.msg = m /\ f.promise
    BY <1>1 DEF Carry
  <2>4. promise'[m] = IF f \in Carry(m) THEN "failed" ELSE promise[m]
    BY <1>1, <1>2, <2>3
  <2>5. cur # At("enqueue", m) /\ cur' # At("enqueue", m)
    BY <1>1, <1>2 DEF At
  <2> QED
    BY <1>2, <2>1, <2>2, <2>4, <2>5 DEF HeldOnce, Held
<1>4. Resolving'
  BY <1>1, <1>2 DEF Resolving, At
<1> QED
  BY <1>2, <1>3, <1>4 DEF HeldInv

\* markAsClosed ends with nothing in its hands.
LEMMA HeldFinish ==
    ASSUME TypeOK, HeldInv, FinishMarkAsClosed
    PROVE  HeldInv'
<1>1. /\ cur.pc = "resolve" /\ pendingWrites = <<>> /\ cur' = Idle
      /\ UNCHANGED loop \/ loop' = Append(loop, Task("notify", cur.msg))
      /\ UNCHANGED heldVars
  BY DEF FinishMarkAsClosed, Execute, wsiVars, seenVars, heldVars
<1>2. Task("notify", cur.msg) \in Tasks /\ loop \in Seq(Tasks)
  BY <1>1, CurArgs, TasksType DEF TypeOK, TypeStates, TypeQueues
<1>3. \A m \in Promised : Task("notify", cur.msg) \notin Sending(m)
  BY DEF Sending, Task
<1>4. \A m \in Promised : /\ Has(loop', Sending(m)) <=> Has(loop, Sending(m))
                          /\ Once(loop, Sending(m)) => Once(loop', Sending(m))
  BY <1>1, <1>2, <1>3, HasGrown
<1>5. \A m \in Promised : cur # At("enqueue", m) /\ cur' # At("enqueue", m)
  BY <1>1, EnqueueArg DEF At
<1> QED
  BY <1>1, <1>4, <1>5, HeldFrame

\* Resolve reaches exactly the promises in the frames it is given.
LEMMA ResolveCarried ==
    ASSUME NEW fs \in Seq(Frame), NEW res, NEW m \in Promised
    PROVE  Resolve(fs, res)[m] = IF Has(fs, Carry(m)) THEN res ELSE promise[m]
<1>1. m \in Msgs /\ \A i \in DOMAIN fs : fs[i] \in Frame
  BY DEF Promised
<1>2. (\E i \in DOMAIN fs : fs[i].msg = m /\ fs[i].promise) <=> Has(fs, Carry(m))
  BY <1>1 DEF Has, Carry
<1> QED
  BY <1>1, <1>2 DEF Resolve

\* deinit fails every promise of the write queue and empties it.
LEMMA HeldDeinit ==
    ASSUME TypeOK, HeldInv, Deinit
    PROVE  HeldInv'
<1>1. /\ cur = Idle /\ UNCHANGED <<cur, hand, pendingWrites, submitted>>
      /\ toBeWritten \in Seq(Frame) /\ loop \in Seq(Tasks)
  BY DEF Deinit, TypeOK, TypeQueues
<1>2. CASE isClosedForever
  <2>1. UNCHANGED <<heldVars, cur, loop>>
    BY <1>1, <1>2 DEF Deinit, heldVars
  <2> QED
    BY <2>1, HeldStays
<1>3. CASE ~isClosedForever
  <2>1. /\ promise' = Resolve(toBeWritten, "failed") /\ toBeWritten' = <<>>
        /\ UNCHANGED loop \/ loop' = Append(loop, Task("notify", goingAway))
    BY <1>3 DEF Deinit, Execute
  <2>2. Task("notify", goingAway) \in Tasks
        /\ \A m \in Promised : Task("notify", goingAway) \notin Sending(m)
    BY TasksType DEF Sending, Task, Statuses
  <2>3. ASSUME NEW m \in Promised
        PROVE  /\ HeldOnce(m)' /\ (Held(m)' <=> promise'[m] = "pending")
               /\ m \notin submitted => promise'[m] = "none"
    <3>1. /\ HeldOnce(m) /\ (Held(m) <=> promise[m] = "pending")
          /\ m \notin submitted => promise[m] = "none"
      BY DEF HeldInv
    <3>2. /\ Has(loop', Sending(m)) <=> Has(loop, Sending(m))
          /\ Once(loop', Sending(m))
      BY <1>1, <2>1, <2>2, <3>1, HasGrown DEF HeldOnce
    <3>3. promise'[m] = IF Has(toBeWritten, Carry(m)) THEN "failed" ELSE promise[m]
      BY <1>1, <2>1, ResolveCarried
    <3>4. ~Has(toBeWritten', Carry(m)) /\ Once(toBeWritten', Carry(m))
      BY <2>1, HasEmpty
    <3> QED
      BY <1>1, <3>1, <3>2, <3>3, <3>4 DEF HeldOnce, Held
  <2>4. pendingWrites = <<>>
    BY <1>1 DEF HeldInv, Resolving, Idle
  <2> QED
    BY <1>1, <2>3, <2>4 DEF HeldInv
<1> QED
  BY <1>2, <1>3

\* A WRITEABLE callback takes the first frame, with its promise, out of the queue.
LEMMA HeldPop ==
    ASSUME TypeOK, HeldInv, WriteablePop
    PROVE  HeldInv'
<1>1. /\ hand = <<>> /\ toBeWritten # <<>> /\ toBeWritten \in Seq(Frame)
      /\ hand' = <<Head(toBeWritten)>> /\ toBeWritten' = Tail(toBeWritten)
      /\ UNCHANGED <<loop, cur, pendingWrites, promise, submitted>>
  BY DEF WriteablePop, CallsWriteable, NoFrame, loopVars, seenVars, TypeOK, TypeQueues
<1>2. ASSUME NEW m \in Promised
      PROVE  HeldOnce(m)' /\ (Held(m)' <=> promise'[m] = "pending")
  <2> DEFINE h == Head(toBeWritten)
  <2>1. HeldOnce(m) /\ (Held(m) <=> promise[m] = "pending")
    BY DEF HeldInv
  <2>2. /\ Has(toBeWritten, Carry(m)) <=> h \in Carry(m) \/ Has(toBeWritten', Carry(m))
        /\ Once(toBeWritten', Carry(m))
        /\ h \in Carry(m) => ~Has(toBeWritten', Carry(m))
    BY <1>1, <2>1, HasTail DEF HeldOnce
  <2>3. ~Has(hand, Carry(m)) /\ (Has(hand', Carry(m)) <=> h \in Carry(m)) /\ Once(hand', Carry(m))
    BY <1>1, HasEmpty, HasOne
  <2> HIDE DEF h
  <2> QED
    BY <1>1, <2>1, <2>2, <2>3 DEF HeldOnce, Held
<1> QED
  BY <1>1, <1>2 DEF HeldInv, Resolving

\* the frame in hand is let go: its promise, if it has one, is resolved
LEMMA HeldLetGo ==
    ASSUME TypeOK, HeldInv, NEW res \in {"ok", "failed"}, hand' = <<>>,
           \/ promise' = Resolve(hand, res)
           \/ UNCHANGED promise /\ \A m \in Promised : ~Has(hand, Carry(m)),
           \/ UNCHANGED loop
           \/ \E t \in Tasks : t.t # "send" /\ loop' = Append(loop, t),
           UNCHANGED <<toBeWritten, pendingWrites, cur, submitted>>
    PROVE  HeldInv'
<1>1. hand \in Seq(Frame) /\ loop \in Seq(Tasks)
  BY DEF TypeOK, TypeQueues
<1>2. ASSUME NEW m \in Promised
      PROVE  /\ HeldOnce(m)' /\ (Held(m)' <=> promise'[m] = "pending")
             /\ m \notin submitted => promise'[m] = "none"
  <2>1. /\ HeldOnce(m) /\ (Held(m) <=> promise[m] = "pending")
        /\ m \notin submitted => promise[m] = "none"
    BY DEF HeldInv
  <2>2. promise'[m] = IF Has(hand, Carry(m)) THEN res ELSE promise[m]
    BY <1>1, ResolveCarried
  <2>3. ~Has(hand', Carry(m)) /\ Once(hand', Carry(m))
    BY HasEmpty
  <2>4. \A t \in Tasks : t.t # "send" => t \notin Sending(m)
    BY DEF Sending, Task
  <2>5. /\ Has(loop', Sending(m)) <=> Has(loop, Sending(m))
        /\ Once(loop', Sending(m))
    BY <1>1, <2>1, <2>4, HasGrown DEF HeldOnce
  <2> QED
    BY <2>1, <2>2, <2>3, <2>5 DEF HeldOnce, Held
<1> QED
  BY <1>2 DEF HeldInv, Resolving

\* The holders are counted.
LEMMA HoldersCounted ==
    ASSUME TypeOK, NEW m \in Promised, HeldOnce(m)
    PROVE  Cardinality(Holders(m)) = IF Held(m) THEN 1 ELSE 0
<1>1. /\ \A i \in DOMAIN toBeWritten : toBeWritten[i] \in Frame
      /\ \A i \in DOMAIN pendingWrites : pendingWrites[i] \in Frame
      /\ \A i \in DOMAIN hand : hand[i] \in Frame
  BY DEF TypeOK, TypeQueues
<1> DEFINE A == {<<"loop", i>> : i \in {j \in DOMAIN loop : loop[j] = Task("send", m)}}
           B == {<<"send", 0>> : x \in {y \in {cur} : y = At("enqueue", m)}}
           C == {<<"queue", i>> : i \in {j \in DOMAIN toBeWritten :
                                           toBeWritten[j].msg = m /\ toBeWritten[j].promise}}
           D == {<<"taken", i>> : i \in {j \in DOMAIN pendingWrites :
                                        pendingWrites[j].msg = m /\ pendingWrites[j].promise}}
           E == {<<"hand", i>> : i \in {j \in DOMAIN hand : hand[j].msg = m /\ hand[j].promise}}
<1>2. Holders(m) = A \cup B \cup C \cup D \cup E
  BY DEF Holders
<1>3. (A # {} <=> Has(loop, Sending(m))) /\ (\A x, y \in A : x = y)
  BY DEF HeldOnce, Has, Once, Sending
<1>4. (B # {} <=> cur = At("enqueue", m)) /\ (\A x, y \in B : x = y)
  OBVIOUS
<1>5. (C # {} <=> Has(toBeWritten, Carry(m))) /\ (\A x, y \in C : x = y)
  BY <1>1 DEF HeldOnce, Has, Once, Carry
<1>6. (D # {} <=> Has(pendingWrites, Carry(m))) /\ (\A x, y \in D : x = y)
  BY <1>1 DEF HeldOnce, Has, Once, Carry
<1>7. (E # {} <=> Has(hand, Carry(m))) /\ (\A x, y \in E : x = y)
  BY <1>1 DEF HeldOnce, Has, Once, Carry
<1> HIDE DEF A, B, C, D, E
<1>8. (Holders(m) # {} <=> Held(m)) /\ (\A x, y \in Holders(m) : x = y)
  BY <1>2, <1>3, <1>4, <1>5, <1>6, <1>7 DEF Held, HeldOnce
<1>9. CASE ~Held(m)
  BY <1>8, <1>9, FS_EmptySet
<1>10. CASE Held(m)
  <2>1. PICK h \in Holders(m) : TRUE
    BY <1>8, <1>10
  <2>2. Holders(m) = {h}
    BY <1>8, <2>1
  <2> QED
    BY <1>10, <2>2, FS_Singleton
<1> QED
  BY <1>9, <1>10

\* The promises are where HeldInv says.
LEMMA HeldAlways == Spec => []HeldInv
<1>1. Init => HeldInv
  <2> SUFFICES ASSUME Init PROVE HeldInv
    OBVIOUS
  <2>1. /\ loop = <<>> /\ toBeWritten = <<>> /\ pendingWrites = <<>> /\ hand = <<>>
        /\ cur = Idle /\ promise = [m \in Msgs |-> "none"] /\ Promised \subseteq Msgs
    BY DEF Init, NoFrame, Promised
  <2> QED
    BY <2>1, HasEmpty, EnqueueArg DEF HeldInv, HeldOnce, Held
<1>2. TypeOK /\ HeldInv /\ [Next]_vars => HeldInv'
  <2> SUFFICES ASSUME TypeOK, HeldInv, [Next]_vars PROVE HeldInv'
    OBVIOUS
  <2>0. waitingLwsCloseStatus \in Statuses \cup {Nil}
    BY DEF TypeOK, TypeStates
  \* the owner
  <2>1. ASSUME NEW m \in Msgs, Send(m) \/ Close(m) PROVE HeldInv'
    BY <2>1, HeldSend, HeldClose
  <2>2. CASE OnClose
    <3>1. Task("setOnClose", Nil) \in Tasks /\ Task("setOnClose", Nil).t # "send"
      BY TasksType DEF Task
    <3> QED
      BY <2>2, <3>1, HeldAppend DEF OnClose, Execute, heldVars, clientVars, wsiVars, seenVars
  <2>3. ASSUME NEW m \in Msgs, LoopSend(m) \/ LoopClose(m) PROVE HeldInv'
    BY <2>3, HeldLoopSend, HeldLoopClose
  \* the event loop
  <2>4. CASE RunSend \/ SendEnqueue \/ RunMarkAsClosed \/ ResolvePending \/ FinishMarkAsClosed
    BY <2>4, HeldRunSend, HeldEnqueue, HeldMark, HeldResolve, HeldFinish
  <2>5. CASE SendWritable
    <3>1. cur.pc = "writable" /\ cur' = Idle /\ UNCHANGED <<heldVars, loop>>
      BY <2>5 DEF SendWritable, heldVars
    <3>2. pendingWrites = <<>>
      BY <3>1 DEF HeldInv, Resolving
    <3>3. \A m \in Promised : cur # At("enqueue", m) /\ cur' # At("enqueue", m)
      BY <3>1, EnqueueArg DEF At
    <3> QED
      BY <3>1, <3>2, <3>3, HeldFrame
  <2>6. CASE RunNotify \/ RunSetOnClose \/ RunConnectResult
    <3>1. /\ cur = Idle /\ cur' = Idle /\ loop # <<>> /\ Head(loop).t # "send"
          /\ loop' = Tail(loop)
          /\ UNCHANGED <<toBeWritten, hand, promise, submitted, pendingWrites>>
      BY <2>6 DEF RunNotify, RunSetOnClose, RunConnectResult, clientVars, wsiVars, seenVars
    <3> QED
      BY <3>1, HeldTail
  \* connecting
  <2>7. CASE Connect
    <3>1. UNCHANGED <<heldVars, cur>>
      BY <2>7 DEF Connect, heldVars, seenVars
    <3>2. Task("connectFail", Nil) \in Tasks /\ Task("connectFail", Nil).t # "send"
      BY TasksType DEF Task
    <3>3. CASE loop' = loop \o <<Task("connectFail", Nil), Task("connectFail", Nil)>>
      <4> DEFINE t == Task("connectFail", Nil)
                 u == <<t, t>>
      <4>0. loop' = loop \o u
        BY <3>3
      <4>1. loop \in Seq(Tasks) /\ u \in Seq(Tasks)
        BY <3>2 DEF TypeOK, TypeQueues
      <4>2. \A m \in Promised : ~Has(u, Sending(m)) /\ Once(u, Sending(m))
        BY DEF Has, Once, Sending, Task
      <4> HIDE DEF u
      <4>3. \A m \in Promised : /\ Has(loop', Sending(m)) <=> Has(loop, Sending(m))
                                /\ Once(loop, Sending(m)) => Once(loop', Sending(m))
        BY <4>0, <4>1, <4>2, HasConcat
      <4> QED
        BY <3>1, <4>3, HeldFrame DEF HeldInv, Resolving
    <3> QED
      BY <2>7, <3>1, <3>2, <3>3, HeldAppend, HeldStays DEF Connect, Execute
  <2>8. CASE Established \/ ConnectionError
    <3>1. UNCHANGED <<heldVars, cur>>
      BY <2>8 DEF Established, ConnectionError, heldVars, seenVars
    <3>2. \A t \in {"connectOk", "connectFail"} : Task(t, Nil) \in Tasks /\ Task(t, Nil).t # "send"
      BY TasksType DEF Task
    <3> QED
      BY <2>8, <3>1, <3>2, HeldAppend, HeldStays DEF Established, ConnectionError, Execute
  <2>9. CASE Deinit
    BY <2>9, HeldDeinit
  \* the WRITEABLE callback
  <2>10. CASE WriteablePop
    BY <2>10, HeldPop
  <2>11. CASE WriteData
    BY <2>11, HeldLetGo DEF WriteData, NoFrame, clientVars, loopVars
  <2>12. CASE WritePing
    <3>1. \/ UNCHANGED loop
          \/ \E t \in Tasks : t.t # "send" /\ loop' = Append(loop, t)
      <4>1. CASE UNCHANGED loop
        BY <4>1
      <4>2. CASE JustKill(waitingLwsCloseStatus)
        BY <2>0, <4>2, KillTask DEF JustKill, Execute, Task
      <4> QED
        BY <2>12, <4>1, <4>2 DEF WritePing, CloseFreeWsi
    <3>2. promise' = Resolve(hand, "ok") \/ promise' = Resolve(hand, "failed")
      BY <2>12 DEF WritePing
    <3>3. hand' = <<>> /\ UNCHANGED <<toBeWritten, pendingWrites, cur, submitted>>
      BY <2>12 DEF WritePing, NoFrame, clientVars
    <3> QED
      BY <3>1, <3>2, <3>3, HeldLetGo
  <2>13. CASE WriteClose
    <3>1. hand \in Seq(Frame) /\ Len(hand) <= 1 /\ hand # <<>> /\ hand[1].op = "close"
      BY <2>13 DEF WriteClose, NoFrame, TypeOK, TypeQueues
    <3>2. hand[1].msg \in CloseMsgs /\ DOMAIN hand = {1}
      <4>2. DOMAIN hand = {1} /\ hand[1] \in Frame
        BY <3>1, OneElement
      <4> QED
        BY <3>1, <4>2 DEF Frame
    <3>3. \A m \in Promised : ~Has(hand, Carry(m))
      BY <3>2 DEF Has, Carry, Promised
    <3>4. \/ UNCHANGED loop
          \/ \E t \in Tasks : t.t # "send" /\ loop' = Append(loop, t)
      <4>1. CASE UNCHANGED loop
        BY <4>1
      <4>2. CASE JustKill(hand[1].msg)
        BY <3>2, <4>2, KillTask DEF JustKill, Execute, Task, Statuses
      <4> QED
        BY <2>13, <4>1, <4>2 DEF WriteClose, CloseFreeWsi
    <3>5. hand' = <<>> /\ UNCHANGED <<toBeWritten, pendingWrites, cur, submitted, promise>>
      BY <2>13 DEF WriteClose, NoFrame, seenVars
    <3> QED
      BY <3>3, <3>4, <3>5, HeldLetGo
  \* the end of the connection
  <2>14. CASE WriteableNoClient \/ RecvBad \/ ConnectionLost
    <3>1. UNCHANGED <<heldVars, cur>>
      BY <2>14 DEF WriteableNoClient, RecvBad, ConnectionLost, heldVars, clientVars, seenVars
    <3> QED
      BY <2>0, <2>14, <3>1, HeldCloseFree DEF WriteableNoClient, RecvBad, ConnectionLost
  <2>15. CASE SendClose \/ RecvCloseAck \/ CloseTimeout
    <3>1. UNCHANGED <<heldVars, cur>>
      BY <2>15 DEF SendClose, RecvCloseAck, CloseTimeout, heldVars, clientVars, seenVars
    <3>2. UNCHANGED loop \/ JustKill(waitingLwsCloseStatus)
      BY <2>15 DEF SendClose, RecvCloseAck, CloseTimeout
    <3> QED
      BY <2>0, <3>1, <3>2, HeldKill, HeldStays
  <2>16. CASE RecvClose
    <3>1. UNCHANGED <<heldVars, cur>>
      BY <2>16 DEF RecvClose, heldVars, clientVars, seenVars
    <3>2. Task("markAsClosed", peerStatus) \in Tasks /\ Task("markAsClosed", peerStatus).t # "send"
      BY TasksType DEF Task, Statuses
    <3> QED
      BY <2>16, <3>1, <3>2, HeldAppend, HeldCloseFree DEF RecvClose, Execute
  <2>17. CASE Release \/ ConnectTimeout \/ WriteableEmpty \/ WsiDestroy \/ UNCHANGED vars
    <3>1. UNCHANGED <<heldVars, cur, loop>>
      BY <2>17 DEF Release, ConnectTimeout, WriteableEmpty, WsiDestroy, vars, heldVars,
                   clientVars, loopVars, wsiVars, seenVars
    <3> QED
      BY <3>1, HeldStays
  <2> QED
    BY <2>1, <2>2, <2>3, <2>4, <2>5, <2>6, <2>7, <2>8, <2>9, <2>10, <2>11, <2>12, <2>13,
       <2>14, <2>15, <2>16, <2>17
       DEF Next, Owner, LoopStep, LoopOwner, ServiceStep, Handshake, Network
<1> QED
  BY <1>1, <1>2, TypeCorrect, PTL DEF Spec

\* A send promise that is not resolved is in exactly one place, a resolved one in none.
THEOREM PromiseHeldOnceCorrect == Spec => []PromiseHeldOnce
<1>1. TypeOK /\ HeldInv => PromiseHeldOnce
  BY HoldersCounted DEF HeldInv, PromiseHeldOnce
<1> QED
  BY <1>1, HeldAlways, TypeCorrect, PTL

-----------------------------------------------------------------------------
(* The close status.                                                         *)

\* the closures that run markAsClosed
Marks == {t \in Tasks : t.t = "markAsClosed"}

\* the first closure of s that runs markAsClosed, if there is one, runs it with x; there is
\* one that runs it with x
FirstMark(s, x) ==
    \A i \in DOMAIN s : s[i] \in Marks => \E j \in 1..i : s[j] = Task("markAsClosed", x)
Queued(s, x) == Has(s, {Task("markAsClosed", x)})

\* nobody has asked for markAsClosed; if somebody has, x comes first; somebody has
NotAsked == ~Has(loop, Marks) /\ lwsCloseStatus \in {Nil, goingAway}
Told(x) == /\ lwsCloseStatus \in {Nil, goingAway, x}
           /\ lwsCloseStatus = Nil => FirstMark(loop, x)
Asked(x) == Told(x) /\ (lwsCloseStatus = Nil => Queued(loop, x))

\* What is known of the status in each state of the wsi.  Before the close begins nobody
\* has asked for markAsClosed; our own close asks for it when the wsi is killed, with the
\* status that was remembered, the peer's before the answer is sent; CLIENT_CLOSED comes
\* later and loses.
StatusInv ==
    /\ lrs \in {"none", "connecting", "established"} =>
         closeBuf = Nil /\ waitingLwsCloseStatus = Nil /\ closeSent = Nil /\ NotAsked
    /\ lrs = "waiting_to_send_close" =>
         /\ closeSent = Nil
         /\ closeNeedsAck => NotAsked /\ closeBuf \in {waitingLwsCloseStatus, protocolErr}
         /\ ~closeNeedsAck => closeBuf = peerStatus /\ Asked(peerStatus)
    /\ lrs = "awaiting_close_ack" =>
         /\ closeSent = closeBuf
         /\ NotAsked /\ closeBuf \in {waitingLwsCloseStatus, protocolErr}
    /\ lrs \in {"dead", "freed"} =>
         (closeSent \in CloseMsgs \cup {peerStatus} => Told(closeSent))
    /\ ~alive => isClosedForever /\ ~Has(loop, Marks)
    /\ connectionError => lrs \in {"dead", "freed"} /\ closeSent = Nil
    /\ waitingLwsCloseStatus \in CloseMsgs \cup {Nil}
    /\ hand # NoFrame => lrs \in {"established", "awaiting_close_ack"}

\* the closure the service thread submits for a status
LEMMA MarkTasks ==
    ASSUME NEW x \in Statuses
    PROVE  Task("markAsClosed", x) \in Marks
BY TasksType DEF Marks, Task

\* A closure joins the loop's queue.
LEMMA MarkAppend ==
    ASSUME NEW s \in Seq(Tasks), NEW t \in Tasks, NEW x \in Statuses
    PROVE  /\ Has(Append(s, t), Marks) <=> Has(s, Marks) \/ t \in Marks
           /\ Queued(s, x) => Queued(Append(s, t), x)
           /\ t = Task("markAsClosed", x) => Queued(Append(s, t), x)
           /\ /\ FirstMark(s, x)
              /\ t \in Marks => Queued(s, x) \/ t = Task("markAsClosed", x)
              => FirstMark(Append(s, t), x)
<1> DEFINE u == Append(s, t)
<1>1. /\ DOMAIN s = 1..Len(s) /\ Len(s) \in Nat /\ DOMAIN u = 1..(Len(s) + 1)
      /\ \A i \in DOMAIN s : u[i] = s[i]
      /\ u[Len(s) + 1] = t
  OBVIOUS
<1>2. /\ Has(u, Marks) <=> Has(s, Marks) \/ t \in Marks
      /\ Queued(u, x) <=> Queued(s, x) \/ t = Task("markAsClosed", x)
  BY HasAppend DEF Queued
<1> HIDE DEF u
<1>3. ASSUME FirstMark(s, x), t \in Marks => Queued(s, x) \/ t = Task("markAsClosed", x)
      PROVE  FirstMark(u, x)
  <2> SUFFICES ASSUME NEW i \in DOMAIN u, u[i] \in Marks
               PROVE  \E j \in 1..i : u[j] = Task("markAsClosed", x)
    BY DEF FirstMark
  <2>1. CASE i \in DOMAIN s
    BY <1>1, <1>3, <2>1 DEF FirstMark
  <2>2. CASE i = Len(s) + 1
    <3>1. CASE t = Task("markAsClosed", x)
      BY <1>1, <2>2, <3>1
    <3>2. CASE Queued(s, x)
      BY <1>1, <2>2, <3>2 DEF Queued, Has
    <3> QED
      BY <1>1, <1>3, <2>2, <3>1, <3>2
  <2> QED
    BY <1>1, <2>1, <2>2
<1> QED
  BY <1>2, <1>3 DEF u

\* A closure that does not run markAsClosed leaves the queue.
LEMMA MarkTail ==
    ASSUME NEW s \in Seq(Tasks), s # <<>>, Head(s) \notin Marks, NEW x \in Statuses
    PROVE  /\ Has(Tail(s), Marks) => Has(s, Marks)
           /\ Queued(s, x) => Queued(Tail(s), x)
           /\ FirstMark(s, x) => FirstMark(Tail(s), x)
<1> DEFINE u == Tail(s)
<1>1. /\ DOMAIN s = 1..Len(s) /\ Len(s) \in Nat /\ DOMAIN u = 1..(Len(s) - 1)
      /\ \A i \in DOMAIN u : u[i] = s[i + 1]
      /\ s[1] \notin Marks
  OBVIOUS
<1>2. Task("markAsClosed", x) \in Marks
  BY MarkTasks
<1> HIDE DEF u
<1>3. Has(u, Marks) => Has(s, Marks)
  BY <1>1 DEF Has
<1>4. ASSUME NEW j \in DOMAIN s, s[j] = Task("markAsClosed", x)
      PROVE  j - 1 \in DOMAIN u /\ u[j - 1] = s[j]
  BY <1>1, <1>2, <1>4
<1>5. Queued(s, x) => Queued(u, x)
  BY <1>4 DEF Queued, Has
<1>6. ASSUME FirstMark(s, x) PROVE FirstMark(u, x)
  <2> SUFFICES ASSUME NEW i \in DOMAIN u, u[i] \in Marks
               PROVE  \E j \in 1..i : u[j] = Task("markAsClosed", x)
    BY DEF FirstMark
  <2>1. i + 1 \in DOMAIN s /\ s[i + 1] \in Marks /\ i \in Nat
    BY <1>1
  <2>2. PICK j \in 1..(i + 1) : s[j] = Task("markAsClosed", x)
    BY <1>6, <2>1 DEF FirstMark
  <2>3. j \in DOMAIN s
    BY <1>1, <2>1
  <2>4. j - 1 \in DOMAIN u /\ u[j - 1] = s[j] /\ j - 1 <= i
    BY <1>4, <2>1, <2>2, <2>3
  <2>5. j - 1 \in 1..i
    BY <1>1, <2>1, <2>4
  <2> QED
    BY <2>2, <2>4, <2>5
<1> QED
  BY <1>3, <1>5, <1>6 DEF u

\* When nobody has asked for markAsClosed, whoever does comes first.
LEMMA NoMark ==
    ASSUME NEW s, ~Has(s, Marks), NEW x
    PROVE  FirstMark(s, x)
BY DEF Has, FirstMark

\* The markAsClosed that runs is the one that was asked for first.
LEMMA MarkHead ==
    ASSUME NEW s \in Seq(Tasks), s # <<>>, Head(s).t = "markAsClosed", NEW x \in Statuses
    PROVE  Has(s, Marks) /\ (FirstMark(s, x) => Head(s).arg = x)
<1>1. Head(s) = s[1] /\ 1 \in DOMAIN s /\ s[1] \in Tasks
  OBVIOUS
<1>2. s[1] \in Marks
  BY <1>1 DEF Marks
<1>3. ASSUME FirstMark(s, x) PROVE s[1] = Task("markAsClosed", x)
  BY <1>1, <1>2, <1>3 DEF FirstMark
<1> QED
  BY <1>1, <1>2, <1>3 DEF Has, Task

\* what StatusInv is about, but for the loop and hand
statusVars == <<lrs, closeBuf, closeNeedsAck, waitingLwsCloseStatus, closeSent,
                lwsCloseStatus, connectionError, alive>>

\* the loop's queue grows or shrinks by closures that do not run markAsClosed
Quiet == /\ Has(loop', Marks) => Has(loop, Marks)
         /\ \A x \in Statuses : /\ FirstMark(loop, x) => FirstMark(loop', x)
                                /\ Queued(loop, x) => Queued(loop', x)

\* Every closure but one that runs markAsClosed comes and goes without disturbing them.
LEMMA QuietSteps ==
    ASSUME TypeOK
    PROVE  /\ UNCHANGED loop => Quiet
           /\ \A t \in Tasks : t.t # "markAsClosed" /\ loop' = Append(loop, t) => Quiet
           /\ /\ loop # <<>> /\ Head(loop).t # "markAsClosed" /\ loop' = Tail(loop)
              => Quiet
<1>1. loop \in Seq(Tasks)
  BY DEF TypeOK, TypeQueues
<1>2. ASSUME UNCHANGED loop PROVE Quiet
  BY <1>2 DEF Quiet
<1>3. ASSUME NEW t \in Tasks, t.t # "markAsClosed", loop' = Append(loop, t) PROVE Quiet
  <2>1. t \notin Marks /\ noStatus \in Statuses
    BY <1>3 DEF Marks, Statuses
  <2> QED
    BY <1>1, <1>3, <2>1, MarkAppend DEF Quiet
<1>4. ASSUME loop # <<>>, Head(loop).t # "markAsClosed", loop' = Tail(loop) PROVE Quiet
  <2>1. Head(loop) \notin Marks /\ noStatus \in Statuses
    BY <1>4 DEF Marks, Statuses
  <2> QED
    BY <1>1, <1>4, <2>1, MarkTail DEF Quiet
<1> QED
  BY <1>2, <1>3, <1>4

\* A step that leaves the closing handshake and the closures that run markAsClosed alone.
LEMMA StatusFrame ==
    ASSUME StatusInv, UNCHANGED statusVars, Quiet, hand' \in {hand, NoFrame}
    PROVE  StatusInv'
<1>1. peerStatus \in Statuses /\ CloseMsgs \subseteq Statuses
  BY DEF Statuses
<1>2. ~Has(loop, Marks) => ~Has(loop', Marks)
  BY DEF Quiet
<1>3. NotAsked => NotAsked'
  BY <1>2 DEF NotAsked, statusVars
<1>4. \A x \in Statuses : (Told(x) => Told(x)') /\ (Asked(x) => Asked(x)')
  BY DEF Told, Asked, Quiet, statusVars
<1> QED
  BY <1>1, <1>2, <1>3, <1>4 DEF StatusInv, statusVars, isClosedForever

\* The wsi is killed: the status of a close frame that was sent was asked for before, or is
\* the one CLIENT_CLOSED asks for now.
LEMMA StatusKill ==
    ASSUME TypeOK, StatusInv, lrs \in Live, NEW asked \in Statuses \cup {Nil},
           JustKill(asked), hand' = NoFrame,
           UNCHANGED <<alive, connectionError, lwsCloseStatus>>,
           waitingLwsCloseStatus' \in CloseMsgs \cup {Nil},
           closeSent' \in CloseMsgs \cup {peerStatus} =>
               Asked(closeSent') \/ (NotAsked /\ asked = closeSent')
    PROVE  StatusInv'
<1>1. /\ lrs' = "dead" /\ ~connectionError /\ loop \in Seq(Tasks)
      /\ peerStatus \in Statuses /\ CloseMsgs \subseteq Statuses
      /\ Nil \notin Statuses
  BY NilAssumption DEF StatusInv, Live, JustKill, TypeOK, TypeQueues, Statuses
<1>2. ASSUME alive, NEW x \in CloseMsgs \cup {peerStatus}, x = closeSent' PROVE Told(x)'
  <2> DEFINE t == Task("markAsClosed", IF asked = Nil THEN noStatus ELSE asked)
  <2>1. t \in Tasks /\ loop' = Append(loop, t) /\ x \in Statuses
    BY <1>1, <1>2, KillTask DEF JustKill, Execute
  <2>2. lwsCloseStatus' \in {Nil, goingAway, x}
    BY <1>2 DEF Asked, Told, NotAsked
  <2>3. lwsCloseStatus = Nil => FirstMark(loop', x)
    <3>1. CASE Asked(x)
      <4> HIDE DEF t
      <4> QED
        BY <1>1, <2>1, <3>1, MarkAppend DEF Asked, Told
    <3>2. CASE NotAsked /\ asked = x
      <4>1. FirstMark(loop, x)
        BY <3>2, NoMark DEF NotAsked
      <4>2. t = Task("markAsClosed", x)
        BY <1>1, <2>1, <3>2
      <4> HIDE DEF t
      <4> QED
        BY <1>1, <2>1, <4>1, <4>2, MarkAppend
    <3> QED
      BY <1>2, <3>1, <3>2
  <2> QED
    BY <2>2, <2>3 DEF Told
<1>3. ASSUME ~alive PROVE /\ UNCHANGED loop /\ lwsCloseStatus # Nil /\ ~Has(loop, Marks)
  BY <1>1, <1>3 DEF JustKill, StatusInv, isClosedForever
<1>4. ASSUME ~alive, NEW x \in CloseMsgs \cup {peerStatus}, x = closeSent' PROVE Told(x)'
  BY <1>3, <1>4 DEF Told, Asked, NotAsked
<1>5. (closeSent \in CloseMsgs \cup {peerStatus} => Told(closeSent))'
  BY <1>2, <1>4 DEF Told
<1>6. ~alive' => isClosedForever' /\ ~Has(loop', Marks)
  BY <1>3 DEF isClosedForever
<1> QED
  BY <1>1, <1>5, <1>6 DEF StatusInv

\* What the kill finds when the wsi was still open, or its close frame was not sent.
LEMMA NothingSent ==
    ASSUME StatusInv, lrs \in Live \ {"awaiting_close_ack"}
    PROVE  closeSent = Nil /\ Nil \notin CloseMsgs \cup {peerStatus}
BY NilAssumption DEF StatusInv, Live, Statuses

\* With a single close() call the status reported to the owner is the one in the close
\* frame, whoever began the closing handshake and however it ended.  (protocolErr is lws's
\* own reason, neither a close() call's nor the peer's.)
THEOREM StatusAgreesCorrect ==
    ASSUME \A a, b \in CloseMsgs : a = b, protocolErr \notin CloseMsgs \cup {peerStatus}
    PROVE  Spec => []StatusAgrees
<1>1. Init => StatusInv
  BY HasEmpty DEF Init, StatusInv, NotAsked, isClosedForever
<1>2. TypeOK /\ StatusInv /\ [Next]_vars => StatusInv'
  <2> SUFFICES ASSUME TypeOK, StatusInv, [Next]_vars PROVE StatusInv'
    OBVIOUS
  <2>0. /\ waitingLwsCloseStatus \in Statuses \cup {Nil} /\ loop \in Seq(Tasks)
        /\ waitingLwsCloseStatus \in CloseMsgs \cup {Nil}
        /\ peerStatus \in Statuses /\ CloseMsgs \subseteq Statuses /\ Nil \in Statuses \cup {Nil}
    BY DEF TypeOK, TypeStates, TypeQueues, Statuses, StatusInv
  \* the owner and the event loop
  <2>1. ASSUME NEW m \in Msgs, Send(m) \/ Close(m) PROVE StatusInv'
    <3>1. UNCHANGED statusVars /\ UNCHANGED hand
      BY <2>1 DEF Send, Close, statusVars, clientVars, wsiVars
    <3>2. Task("send", m) \in Tasks /\ Task("send", m).t # "markAsClosed"
      BY TasksType DEF Task
    <3>3. UNCHANGED loop \/ loop' = Append(loop, Task("send", m))
      BY <2>1 DEF Send, Close, Execute
    <3> QED
      BY <3>1, <3>2, <3>3, QuietSteps, StatusFrame
  <2>2. CASE OnClose \/ FinishMarkAsClosed
    <3>1. UNCHANGED statusVars /\ UNCHANGED hand
      BY <2>2 DEF OnClose, FinishMarkAsClosed, statusVars, clientVars, wsiVars, seenVars
    <3>2. \/ UNCHANGED loop
          \/ \E t \in Tasks : t.t # "markAsClosed" /\ loop' = Append(loop, t)
      <4>1. CASE OnClose
        BY <4>1, TasksType DEF OnClose, Execute, Task
      <4>2. CASE FinishMarkAsClosed
        <5>1. cur.msg \in Statuses
          BY <4>2, CurArgs DEF FinishMarkAsClosed, TypeOK, TypeStates
        <5>2. Task("notify", cur.msg) \in Tasks /\ Task("notify", cur.msg).t # "markAsClosed"
          BY <5>1, TasksType DEF Task
        <5> QED
          BY <4>2, <5>2 DEF FinishMarkAsClosed, Execute
      <4> QED
        BY <2>2, <4>1, <4>2
    <3> QED
      BY <3>1, <3>2, QuietSteps, StatusFrame
  <2>3. CASE RunSend \/ RunNotify \/ RunSetOnClose \/ RunConnectResult
    <3>1. UNCHANGED statusVars /\ UNCHANGED hand
      BY <2>3 DEF RunSend, RunNotify, RunSetOnClose, RunConnectResult, statusVars,
                  clientVars, wsiVars, seenVars
    <3>2. loop # <<>> /\ Head(loop).t # "markAsClosed" /\ loop' = Tail(loop)
      BY <2>3 DEF RunSend, RunNotify, RunSetOnClose, RunConnectResult
    <3> QED
      BY <3>1, <3>2, QuietSteps, StatusFrame
  <2>4. CASE UNCHANGED <<statusVars, loop, hand>>
    BY <2>4, QuietSteps, StatusFrame
  <2>5. CASE \/ Release \/ SendEnqueue \/ SendWritable \/ ResolvePending \/ ConnectTimeout
             \/ WriteableEmpty \/ (\E m \in Msgs : LoopSend(m) \/ LoopClose(m))
    BY <2>4, <2>5 DEF Release, SendEnqueue, SendWritable, ResolvePending, ConnectTimeout,
         WriteableEmpty, LoopSend, LoopClose, statusVars, clientVars, loopVars, wsiVars, seenVars
  <2>6. CASE RunMarkAsClosed
    <3>1. /\ loop # <<>> /\ Head(loop).t = "markAsClosed" /\ loop' = Tail(loop)
          /\ UNCHANGED <<lrs, closeBuf, closeNeedsAck, waitingLwsCloseStatus, closeSent,
                         connectionError, alive, hand>>
      BY <2>6 DEF RunMarkAsClosed, wsiVars, seenVars
    <3>2. Has(loop, Marks) /\ \A x \in Statuses : FirstMark(loop, x) => Head(loop).arg = x
      BY <2>0, <3>1, MarkHead
    <3>3. alive /\ ~NotAsked
      BY <3>2 DEF StatusInv, NotAsked
    <3>4. lrs \in {"dead", "freed"} \/ (lrs = "waiting_to_send_close" /\ ~closeNeedsAck)
      BY <3>3 DEF StatusInv, LRS, TypeOK, TypeStates
    <3>5. ASSUME NEW x \in Statuses, Told(x), ~connectionError
          PROVE  lwsCloseStatus' \in {goingAway, x}
      BY <2>6, <3>2, <3>5 DEF RunMarkAsClosed, isClosedForever, Told
    <3>6. Nil \notin Statuses
      BY NilAssumption
    <3>7. ASSUME NEW x \in Statuses, Told(x), ~connectionError, lwsCloseStatus' # Nil
          PROVE  Told(x)' /\ Asked(x)'
      BY <3>5, <3>7 DEF Told, Asked
    <3>8. lwsCloseStatus' = Nil => connectionError
      <4>1. Head(loop) \in Tasks
        BY <2>0, <3>1
      <4>2. Head(loop).arg \in Statuses
        BY <3>1, <4>1, TaskArgs
      <4> QED
        BY <2>6, <3>6, <4>2 DEF RunMarkAsClosed, isClosedForever
    <3>9. CASE connectionError
      BY <2>0, <3>1, <3>3, <3>9, NilAssumption DEF StatusInv, Statuses
    <3>10. CASE lrs = "waiting_to_send_close" /\ ~connectionError
      <4>1. ~closeNeedsAck
        BY <3>4, <3>10
      <4>2. closeSent = Nil /\ closeBuf = peerStatus /\ Asked(peerStatus)'
        BY <2>0, <3>7, <3>8, <3>10, <4>1 DEF StatusInv, Asked
      <4> QED
        BY <2>0, <3>1, <3>3, <3>10, <4>1, <4>2 DEF StatusInv
    <3>11. CASE lrs \in {"dead", "freed"} /\ ~connectionError
      <4>1. \A x \in CloseMsgs \cup {peerStatus} : x = closeSent => Told(x)'
        BY <2>0, <3>7, <3>8, <3>11 DEF StatusInv
      <4> QED
        BY <2>0, <3>1, <3>3, <3>11, <4>1 DEF StatusInv, Told
    <3> QED
      BY <3>4, <3>9, <3>10, <3>11
  <2>7. CASE Deinit
    <3>1. /\ UNCHANGED <<lrs, closeBuf, closeNeedsAck, waitingLwsCloseStatus, closeSent,
                         connectionError, hand>>
          /\ alive' = FALSE /\ hand = NoFrame
          /\ \A i \in DOMAIN loop : loop[i].t = "notify"
      BY <2>7 DEF Deinit
    <3>2. ~Has(loop, Marks)
      BY <3>1 DEF Has, Marks
    <3>3. \/ isClosedForever /\ UNCHANGED <<lwsCloseStatus, loop>>
          \/ ~isClosedForever /\ lwsCloseStatus' = goingAway
      BY <2>7 DEF Deinit
    <3>4. ~Has(loop', Marks)
      <4>1. Task("notify", goingAway) \in Tasks \ Marks
        BY TasksType DEF Task, Marks, Statuses
      <4>2. UNCHANGED loop \/ loop' = Append(loop, Task("notify", goingAway))
        BY <2>7 DEF Deinit, Execute
      <4> QED
        BY <2>0, <3>2, <4>1, <4>2, MarkAppend
    <3>5. isClosedForever'
      BY <3>1, <3>3, NilAssumption DEF isClosedForever, Statuses
    <3>6. NotAsked => NotAsked'
      BY <3>3, <3>4 DEF NotAsked
    <3>7. ASSUME NEW x, Told(x) PROVE Told(x)'
      BY <3>3, <3>4, <3>7, NoMark DEF Told
    <3>8. ASSUME Asked(peerStatus) PROVE Asked(peerStatus)'
      <4>1. lwsCloseStatus # Nil
        BY <2>0, <3>2, <3>8, MarkTasks DEF Asked, Queued, Has
      <4> QED
        BY <3>3, <3>7, <3>8, <4>1 DEF Asked, isClosedForever
    <3> QED
      BY <2>0, <3>1, <3>4, <3>5, <3>6, <3>7, <3>8 DEF StatusInv
  \* connecting
  <2>8. CASE Connect
    <3>1. /\ lrs = "none" /\ lrs' \in {"connecting", "freed"}
          /\ lrs' = "freed" \/ UNCHANGED connectionError
          /\ UNCHANGED <<closeBuf, closeNeedsAck, waitingLwsCloseStatus, closeSent,
                         lwsCloseStatus, alive, hand>>
      BY <2>8 DEF Connect, seenVars
    <3>2. ~Has(loop', Marks)
      <4> DEFINE t == Task("connectFail", Nil)
                 u == <<t, t>>
      <4>1. ~Has(loop, Marks) /\ t \in Tasks \ Marks
        BY <3>1, TasksType DEF StatusInv, NotAsked, Marks, Task
      <4>2. u \in Seq(Tasks) /\ ~Has(u, Marks) /\ noStatus \in Statuses
        BY <4>1 DEF Has, Statuses
      <4>3. UNCHANGED loop \/ loop' = Append(loop, t) \/ loop' = loop \o u
        BY <2>8 DEF Connect, Execute
      <4> HIDE DEF t, u
      <4>4. CASE loop' = Append(loop, t)
        BY <2>0, <4>1, <4>2, <4>4, MarkAppend
      <4>5. CASE loop' = loop \o u
        BY <2>0, <4>1, <4>2, <4>5, HasConcat
      <4> QED
        BY <4>1, <4>3, <4>4, <4>5
    <3>3. connectionError => connectionError'
      BY <2>8 DEF Connect
    <3>4. closeSent = Nil /\ NotAsked' /\ Nil \notin CloseMsgs \cup {peerStatus}
      BY <3>1, <3>2, NilAssumption DEF StatusInv, NotAsked, Statuses
    <3> QED
      BY <3>1, <3>2, <3>3, <3>4 DEF StatusInv, isClosedForever
  <2>9. CASE Established \/ ConnectionError
    <3>1. /\ lrs = "connecting" /\ lrs' \in {"established", "dead"}
          /\ lrs' = "dead" \/ UNCHANGED connectionError
          /\ connectionError => connectionError'
          /\ UNCHANGED <<closeBuf, closeNeedsAck, waitingLwsCloseStatus, closeSent,
                         lwsCloseStatus, alive, hand>>
      BY <2>9 DEF Established, ConnectionError, seenVars
    <3>2. ~Has(loop', Marks)
      <4>1. ~Has(loop, Marks) /\ \A t \in {"connectOk", "connectFail"} : Task(t, Nil) \in Tasks \ Marks
        BY <3>1, TasksType DEF StatusInv, NotAsked, Marks, Task
      <4>2. \/ UNCHANGED loop
            \/ \E t \in {"connectOk", "connectFail"} : loop' = Append(loop, Task(t, Nil))
        BY <2>9 DEF Established, ConnectionError, Execute
      <4> QED
        BY <2>0, <4>1, <4>2, MarkAppend
    <3>4. closeSent = Nil /\ NotAsked' /\ Nil \notin CloseMsgs \cup {peerStatus}
      BY <3>1, <3>2, NilAssumption DEF StatusInv, NotAsked, Statuses
    <3> QED
      BY <3>1, <3>2, <3>4 DEF StatusInv, isClosedForever
  \* the WRITEABLE callback
  <2>10. CASE WriteablePop
    <3>1. UNCHANGED statusVars /\ UNCHANGED loop /\ lrs \in {"established", "awaiting_close_ack"}
      BY <2>10 DEF WriteablePop, CallsWriteable, statusVars, loopVars, seenVars
    <3> QED
      BY <3>1 DEF StatusInv, statusVars, NotAsked, Told, Asked, isClosedForever
  <2>11. CASE WriteData
    <3>1. UNCHANGED statusVars /\ UNCHANGED loop /\ hand' = NoFrame
      BY <2>11 DEF WriteData, statusVars, clientVars, loopVars
    <3> QED
      BY <3>1, QuietSteps, StatusFrame
  <2>12. CASE WritePing
    <3>1. /\ hand # NoFrame /\ hand' = NoFrame
          /\ UNCHANGED <<alive, connectionError, lwsCloseStatus, closeBuf, closeSent,
                         waitingLwsCloseStatus>>
      BY <2>12 DEF WritePing, clientVars
    <3>2. lrs \in {"established", "awaiting_close_ack"} /\ lrs \in Live
      BY <3>1 DEF StatusInv, Live
    <3>3. CASE UNCHANGED <<lrs, closeNeedsAck, loop>>
      BY <3>1, <3>3, QuietSteps, StatusFrame DEF statusVars
    <3>4. CASE JustKill(waitingLwsCloseStatus)
      <4>1. closeSent \in CloseMsgs \cup {peerStatus} =>
                NotAsked /\ waitingLwsCloseStatus = closeSent
        BY <3>2, NilAssumption DEF StatusInv, Statuses
      <4> QED
        BY <2>0, <3>1, <3>2, <3>4, <4>1, StatusKill
    <3> QED
      BY <2>12, <3>3, <3>4 DEF WritePing, CloseFreeWsi
  <2>13. CASE WriteClose
    <3>1. /\ hand # NoFrame /\ hand[1].op = "close" /\ hand' = NoFrame
          /\ closeBuf' = hand[1].msg /\ waitingLwsCloseStatus' = hand[1].msg
          /\ UNCHANGED <<alive, connectionError, lwsCloseStatus, closeSent>>
      BY <2>13 DEF WriteClose, seenVars
    <3>2. lrs \in {"established", "awaiting_close_ack"} /\ lrs \in Live
      BY <3>1 DEF StatusInv, Live
    <3>3. hand[1].msg \in CloseMsgs
      <4>1. hand[1] \in Frame
        BY <3>1, OneElement DEF NoFrame, TypeOK, TypeQueues
      <4> QED
        BY <3>1, <4>1 DEF Frame
    <3>4. CASE /\ lrs = "established" /\ lrs' = "waiting_to_send_close"
               /\ closeNeedsAck' = TRUE /\ UNCHANGED loop
      <4>1. NotAsked' /\ closeSent = Nil
        BY <3>1, <3>4 DEF StatusInv, NotAsked
      <4> QED
        BY <3>1, <3>3, <3>4, <4>1 DEF StatusInv, isClosedForever
    <3>5. CASE JustKill(hand[1].msg)
      <4>1. closeSent \in CloseMsgs \cup {peerStatus} => NotAsked /\ hand[1].msg = closeSent
        <5>1. CASE lrs = "established"
          BY <5>1, NilAssumption DEF StatusInv, Statuses
        <5>2. CASE lrs = "awaiting_close_ack"
          <6>1. /\ closeSent \in {waitingLwsCloseStatus, protocolErr} /\ NotAsked
                /\ waitingLwsCloseStatus \in CloseMsgs \cup {Nil}
            BY <5>2 DEF StatusInv
          <6>2. Nil \notin CloseMsgs \cup {peerStatus}
            BY NilAssumption DEF Statuses
          <6> QED
            BY <3>3, <6>1, <6>2
        <5> QED
          BY <3>2, <5>1, <5>2
      <4>2. hand[1].msg \in Statuses \cup {Nil}
        BY <2>0, <3>3
      <4> QED
        BY <3>1, <3>2, <3>3, <3>5, <4>1, <4>2, StatusKill
    <3> QED
      BY <2>13, <3>4, <3>5 DEF WriteClose, CloseFreeWsi
  <2>14. CASE WriteableNoClient
    <3>1. /\ lrs \in {"established", "awaiting_close_ack"} /\ hand = NoFrame /\ hand' = NoFrame
          /\ CloseFreeWsi(closeBuf, FALSE, Nil) /\ ~alive
          /\ UNCHANGED <<alive, connectionError, lwsCloseStatus, closeBuf, closeSent,
                         waitingLwsCloseStatus>>
      BY <2>14 DEF WriteableNoClient, CallsWriteable, clientVars, seenVars
    <3>2. JustKill(Nil)
      BY <3>1 DEF CloseFreeWsi, StatusInv
    <3>3. lrs' = "dead" /\ UNCHANGED loop
      BY <3>1, <3>2 DEF JustKill
    <3>4. NotAsked /\ NotAsked'
      BY <3>1, <3>3 DEF StatusInv, NotAsked
    <3>5. ASSUME NEW x PROVE Told(x)'
      BY <3>1, <3>4, NoMark DEF NotAsked, Told
    <3> QED
      BY <3>1, <3>3, <3>5 DEF StatusInv, isClosedForever
  \* the closing handshake
  <2>15. CASE SendClose
    <3>1. /\ lrs = "waiting_to_send_close" /\ lrs \in Live
          /\ hand = NoFrame /\ hand' = NoFrame
          /\ UNCHANGED <<alive, connectionError, lwsCloseStatus, closeBuf, waitingLwsCloseStatus>>
      BY <2>15 DEF SendClose, clientVars, Live, StatusInv
    <3>2. CASE closeSent' = closeBuf /\ closeNeedsAck /\ lrs' = "awaiting_close_ack"
               /\ UNCHANGED <<closeNeedsAck, loop>>
      BY <3>1, <3>2 DEF StatusInv, NotAsked, isClosedForever
    <3>3. CASE closeSent' = closeBuf /\ ~closeNeedsAck /\ JustKill(waitingLwsCloseStatus)
      <4>1. Asked(closeSent')
        BY <3>1, <3>3 DEF StatusInv
      <4> QED
        BY <2>0, <3>1, <3>3, <4>1, StatusKill
    <3>4. CASE UNCHANGED closeSent /\ JustKill(waitingLwsCloseStatus)
      BY <2>0, <3>1, <3>4, NothingSent, StatusKill
    <3> QED
      BY <2>15, <3>2, <3>3, <3>4 DEF SendClose
  <2>16. CASE RecvClose
    <3>1. /\ lrs = "established" /\ lrs \in Live /\ hand = NoFrame /\ hand' = NoFrame
          /\ UNCHANGED <<alive, connectionError, lwsCloseStatus, closeSent, waitingLwsCloseStatus>>
          /\ closeBuf = Nil /\ closeSent = Nil /\ NotAsked /\ ~connectionError
      BY <2>16 DEF RecvClose, clientVars, seenVars, Live, StatusInv
    <3>2. CASE /\ alive /\ Execute(Task("markAsClosed", peerStatus))
               /\ closeBuf' = peerStatus /\ closeNeedsAck' = FALSE
               /\ lrs' = "waiting_to_send_close"
      <4> DEFINE t == Task("markAsClosed", peerStatus)
      <4>1. t \in Tasks /\ loop' = Append(loop, t) /\ FirstMark(loop, peerStatus)
        BY <2>0, <3>1, <3>2, TasksType, NoMark DEF Execute, NotAsked
      <4>2. t = Task("markAsClosed", peerStatus)
        OBVIOUS
      <4> HIDE DEF t
      <4>3. FirstMark(loop', peerStatus) /\ Queued(loop', peerStatus)
        BY <2>0, <4>1, <4>2, MarkAppend
      <4>4. Asked(peerStatus)'
        BY <3>1, <4>3 DEF Asked, Told, NotAsked
      <4> QED
        BY <2>0, <3>1, <3>2, <4>4 DEF StatusInv
    <3>3. CASE ~alive /\ CloseFreeWsi(closeBuf, FALSE, Nil) /\ UNCHANGED closeBuf
      <4>1. JustKill(Nil)
        BY <3>1, <3>3 DEF CloseFreeWsi
      <4> QED
        BY <2>0, <3>1, <4>1, NothingSent, StatusKill
    <3> QED
      BY <2>16, <3>2, <3>3 DEF RecvClose
  <2>17. CASE RecvCloseAck \/ CloseTimeout \/ ConnectionLost
    <3>1. /\ lrs \in Live \ {"connecting"} /\ hand = NoFrame /\ hand' = NoFrame
          /\ JustKill(waitingLwsCloseStatus)
          /\ UNCHANGED <<alive, connectionError, lwsCloseStatus, closeSent, waitingLwsCloseStatus>>
      BY <2>17 DEF RecvCloseAck, CloseTimeout, ConnectionLost, CloseFreeWsi, clientVars,
                   seenVars, Live, Upgraded
    <3>2. CASE lrs = "awaiting_close_ack"
      <4>1. closeSent \in CloseMsgs \cup {peerStatus} =>
                NotAsked /\ waitingLwsCloseStatus = closeSent
        BY <3>2 DEF StatusInv
      <4> QED
        BY <2>0, <3>1, <4>1, StatusKill
    <3>3. CASE lrs # "awaiting_close_ack"
      BY <2>0, <3>1, <3>3, NothingSent, StatusKill
    <3> QED
      BY <3>2, <3>3
  <2>18. CASE RecvBad
    <3>1. /\ lrs = "established" /\ lrs \in Live /\ hand = NoFrame /\ hand' = NoFrame
          /\ closeBuf' = protocolErr
          /\ UNCHANGED <<alive, connectionError, lwsCloseStatus, closeSent, waitingLwsCloseStatus>>
      BY <2>18 DEF RecvBad, clientVars, seenVars, Live
    <3>2. CASE lrs' = "waiting_to_send_close" /\ closeNeedsAck' = TRUE /\ UNCHANGED loop
      BY <3>1, <3>2 DEF StatusInv, NotAsked, isClosedForever
    <3>3. CASE JustKill(waitingLwsCloseStatus)
      BY <2>0, <3>1, <3>3, NothingSent, StatusKill
    <3> QED
      BY <2>18, <3>2, <3>3 DEF RecvBad, CloseFreeWsi
  <2>19. CASE WsiDestroy
    <3>1. /\ lrs = "dead" /\ lrs' = "freed"
          /\ UNCHANGED <<closeBuf, closeNeedsAck, waitingLwsCloseStatus, closeSent,
                         lwsCloseStatus, connectionError, alive, hand, loop>>
      BY <2>19 DEF WsiDestroy, loopVars, seenVars
    <3> QED
      BY <3>1 DEF StatusInv, Told, isClosedForever
  <2>20. CASE UNCHANGED vars
    BY <2>4, <2>20 DEF vars, statusVars, clientVars, loopVars, wsiVars, seenVars
  <2> QED
    BY <2>1, <2>2, <2>3, <2>5, <2>6, <2>7, <2>8, <2>9, <2>10, <2>11, <2>12, <2>13, <2>14,
       <2>15, <2>16, <2>17, <2>18, <2>19, <2>20
    DEF Next, Owner, LoopStep, LoopOwner, ServiceStep, Handshake, Network
<1>3. TypeOK /\ StatusInv => StatusAgrees
  <2> SUFFICES ASSUME TypeOK, StatusInv, closeSent \in CloseMsgs \cup {peerStatus}
               PROVE  lwsCloseStatus \in {Nil, goingAway, closeSent}
    BY DEF StatusAgrees
  <2>1. closeSent # Nil
    BY NilAssumption DEF Statuses
  <2>2. lrs \in {"awaiting_close_ack", "dead", "freed"}
    BY <2>1 DEF StatusInv, TypeOK, TypeStates, LRS
  <2> QED
    BY <2>2 DEF StatusInv, NotAsked, Told
<1> QED
  BY <1>1, <1>2, <1>3, TypeCorrect, PTL DEF Spec

-----------------------------------------------------------------------------
(* What Kept keeps.                                                          *)

\* Induction over the naturals, with the property as a set.
LEMMA SetInduction ==
    ASSUME NEW S, 0 \in S, \A n \in Nat : n \in S => n + 1 \in S
    PROVE  \A n \in Nat : n \in S
<1> DEFINE T == Nat \ S
<1>1. SUFFICES ASSUME T # {} PROVE FALSE
  OBVIOUS
<1>2. T \subseteq Nat
  OBVIOUS
<1> HIDE DEF T
<1>3. PICK m \in T : \A y \in T : ~(<<y, m>> \in OpToRel(<, Nat))
  BY <1>1, <1>2, WFMin, NatLessThanWellFounded, Zenon
<1>4. m \in Nat /\ m \notin S
  BY <1>3 DEF T
<1>5. m # 0 /\ m - 1 \in Nat /\ m - 1 < m /\ (m - 1) + 1 = m
  BY <1>4
<1>6. m - 1 \notin S
  BY <1>4, <1>5
<1>7. m - 1 \in T
  BY <1>5, <1>6 DEF T
<1>8. <<m - 1, m>> \in OpToRel(<, Nat)
  BY <1>4, <1>5 DEF OpToRel
<1> QED
  BY <1>3, <1>7, <1>8

\* h starts with e and goes on by step
Follows(h, e, step, N) == h[0] = e /\ \A i \in 1..N : h[i] = step[i][h[i - 1]]

\* A function on an interval can be defined by where it starts and how it goes on.
LEMMA Recursion ==
    ASSUME NEW X, NEW e \in X, NEW N \in Nat, NEW step \in [Nat -> [X -> X]]
    PROVE  \E h \in [0..N -> X] : Follows(h, e, step, N)
<1> DEFINE Is(h, n) == /\ h \in [0..n -> X] /\ h[0] = e
                       /\ \A i \in 1..n : h[i] = step[i][h[i - 1]]
           T == {n \in Nat : \E h : Is(h, n)}
<1>1. 0 \in T
  <2> DEFINE h == [i \in 0..0 |-> e]
  <2>1. Is(h, 0)
    OBVIOUS
  <2> HIDE DEF h, Is
  <2> QED
    BY <2>1
<1>2. ASSUME NEW n \in Nat, n \in T PROVE n + 1 \in T
  <2>1. PICK h : Is(h, n)
    BY <1>2
  <2> DEFINE x == step[n + 1][h[n]]
             g == [i \in 0..(n + 1) |-> IF i <= n THEN h[i] ELSE x]
  <2>2. x \in X
    BY <2>1
  <2> HIDE DEF x
  <2>3. g \in [0..(n + 1) -> X] /\ g[0] = e
    BY <2>1, <2>2
  <2>4. ASSUME NEW i \in 1..(n + 1) PROVE g[i] = step[i][g[i - 1]]
    <3>1. CASE i <= n
      <4>1. i \in 1..n /\ g[i] = h[i] /\ g[i - 1] = h[i - 1]
        BY <3>1
      <4> QED
        BY <2>1, <4>1
    <3>2. CASE i = n + 1
      <4>1. g[i] = x /\ g[i - 1] = h[n]
        BY <3>2
      <4> QED
        BY <3>2, <4>1 DEF x
    <3> QED
      BY <3>1, <3>2
  <2> HIDE DEF g
  <2>5. Is(g, n + 1)
    BY <2>3, <2>4
  <2> HIDE DEF Is
  <2> QED
    BY <2>5
<1>3. \A n \in Nat : n \in T
  <2> HIDE DEF T
  <2> QED
    BY <1>1, <1>2, SetInduction
<1>4. PICK h : Is(h, N)
  BY <1>3
<1> QED
  BY <1>4 DEF Follows

\* one more element
Extended(q, e, S) == IF e \in S THEN Append(q, e) ELSE q

\* It is an element of S more, or none.
LEMMA ExtendedType ==
    ASSUME NEW X, NEW S, NEW q \in Seq(X), NEW e \in X
    PROVE  Extended(q, e, S) \in Seq(X)
BY DEF Extended

\* The function KeptTo defines: where it starts and what an element adds.
LEMMA KeptToFacts ==
    ASSUME NEW X, NEW S, NEW s \in Seq(X)
    PROVE  /\ KeptTo(s, S)[0] = <<>>
           /\ \A n \in 0..Len(s) : KeptTo(s, S)[n] \in Seq(X)
           /\ \A n \in 1..Len(s) : KeptTo(s, S)[n] = Extended(KeptTo(s, S)[n - 1], s[n], S)
<1> DEFINE step == [i \in Nat |-> [q \in Seq(X) |->
                      IF i \in 1..Len(s) THEN Extended(q, s[i], S) ELSE q]]
<1>1. Len(s) \in Nat /\ <<>> \in Seq(X) /\ \A i \in 1..Len(s) : s[i] \in X
  OBVIOUS
<1>2. \A i \in 1..Len(s), q \in Seq(X) : Extended(q, s[i], S) \in Seq(X)
  BY <1>1, ExtendedType
<1>3. step \in [Nat -> [Seq(X) -> Seq(X)]]
  BY <1>2
<1>4. \A i \in 1..Len(s), q \in Seq(X) : step[i][q] = Extended(q, s[i], S)
  BY <1>1
<1> HIDE DEF step
<1>5. PICK h \in [0..Len(s) -> Seq(X)] :
        h[0] = <<>> /\ \A i \in 1..Len(s) : h[i] = Extended(h[i - 1], s[i], S)
  <2>1. PICK h \in [0..Len(s) -> Seq(X)] : Follows(h, <<>>, step, Len(s))
    BY <1>1, <1>3, Recursion
  <2>2. ASSUME NEW i \in 1..Len(s) PROVE h[i] = Extended(h[i - 1], s[i], S)
    <3>1. h[i - 1] \in Seq(X)
      BY <1>1
    <3> QED
      BY <1>4, <2>1, <3>1 DEF Follows
  <2> QED
    BY <2>1, <2>2 DEF Follows
<1> DEFINE F(g) == [n \in 0..Len(s) |->
                      IF n = 0 THEN <<>>
                      ELSE IF s[n] \in S THEN Append(g[n - 1], s[n]) ELSE g[n - 1]]
<1>6. h = F(h)
  <2>1. h \in [0..Len(s) -> Seq(X)]
    BY <1>5
  <2>2. ASSUME NEW i \in 0..Len(s) PROVE h[i] = F(h)[i]
    <3>1. CASE i = 0
      BY <1>5, <3>1
    <3>2. CASE i # 0
      <4>1. i \in 1..Len(s)
        BY <1>1, <3>2
      <4> QED
        BY <1>5, <3>2, <4>1 DEF Extended
    <3> QED
      BY <3>1, <3>2
  <2> QED
    BY <2>1, <2>2
<1> DEFINE k == KeptTo(s, S)
<1>7. k = CHOOSE g : g = F(g)
  BY DEF KeptTo
<1> HIDE DEF k
<1>8. k = F(k)
  <2> HIDE DEF F
  <2> QED
    BY <1>6, <1>7
<1>9. k[0] = <<>> /\ \A n \in 1..Len(s) : k[n] = Extended(k[n - 1], s[n], S)
  <2>2. \A n \in 0..Len(s) : k[n] = F(k)[n]
    BY <1>8
  <2>3. k[0] = <<>>
    BY <1>1, <2>2
  <2>4. ASSUME NEW n \in 1..Len(s) PROVE k[n] = Extended(k[n - 1], s[n], S)
    <3>1. n \in 0..Len(s) /\ n # 0
      BY <1>1
    <3> QED
      BY <2>2, <3>1 DEF Extended
  <2> QED
    BY <2>3, <2>4
<1>10. \A n \in 0..Len(s) : k[n] \in Seq(X)
  <2> DEFINE U == {n \in Nat : n <= Len(s) => k[n] \in Seq(X)}
  <2>1. 0 \in U
    <3>1. <<>> \in Seq(X)
      OBVIOUS
    <3> QED
      BY <1>9, <3>1
  <2>2. ASSUME NEW n \in Nat, n \in U PROVE n + 1 \in U
    <3>1. SUFFICES ASSUME n + 1 <= Len(s) PROVE k[n + 1] \in Seq(X)
      OBVIOUS
    <3>2. n + 1 \in 1..Len(s) /\ (n + 1) - 1 = n
      BY <1>1, <3>1
    <3>3. k[n] \in Seq(X)
      BY <1>1, <2>2, <3>1
    <3>4. k[n + 1] = Extended(k[n], s[n + 1], S)
      BY <1>9, <3>2
    <3> QED
      BY <1>1, <3>2, <3>3, <3>4, ExtendedType
  <2>3. \A n \in Nat : n \in U
    <3> HIDE DEF U
    <3> QED
      BY <2>1, <2>2, SetInduction
  <2> QED
    BY <1>1, <2>3
<1> QED
  BY <1>9, <1>10 DEF k

\* It depends on the elements so far only.
LEMMA KeptAgree ==
    ASSUME NEW X, NEW S, NEW s \in Seq(X), NEW t \in Seq(X), NEW m \in Nat,
           m <= Len(s), m <= Len(t), \A i \in 1..m : s[i] = t[i]
    PROVE  KeptTo(s, S)[m] = KeptTo(t, S)[m]
<1> DEFINE T == {n \in Nat : n <= m => KeptTo(s, S)[n] = KeptTo(t, S)[n]}
<1>1. Len(s) \in Nat /\ Len(t) \in Nat
  OBVIOUS
<1>2. 0 \in T
  BY KeptToFacts
<1>3. ASSUME NEW n \in Nat, n \in T PROVE n + 1 \in T
  <2>1. SUFFICES ASSUME n + 1 <= m PROVE KeptTo(s, S)[n + 1] = KeptTo(t, S)[n + 1]
    OBVIOUS
  <2>2. /\ n + 1 \in 1..Len(s) /\ n + 1 \in 1..Len(t) /\ n + 1 \in 1..m
        /\ (n + 1) - 1 = n /\ n <= m
    BY <1>1, <2>1
  <2>3. KeptTo(s, S)[n] = KeptTo(t, S)[n]
    BY <1>3, <2>2
  <2>4. KeptTo(s, S)[n + 1] = Extended(KeptTo(s, S)[n], s[n + 1], S)
    BY <2>2, KeptToFacts
  <2>5. KeptTo(t, S)[n + 1] = Extended(KeptTo(t, S)[n], t[n + 1], S)
    BY <2>2, KeptToFacts
  <2> QED
    BY <2>2, <2>3, <2>4, <2>5
<1>4. \A n \in Nat : n \in T
  <2> HIDE DEF T
  <2> QED
    BY <1>2, <1>3, SetInduction
<1> QED
  BY <1>4

\* The empty sequence, and one more element at the end.
LEMMA KeptBasics ==
    ASSUME NEW X, NEW S, NEW s \in Seq(X)
    PROVE  /\ Kept(<<>>, S) = <<>>
           /\ Kept(s, S) \in Seq(X)
           /\ \A e \in X : Kept(Append(s, e), S) = Extended(Kept(s, S), e, S)
<1>1. Kept(<<>>, S) = <<>>
  <2>1. <<>> \in Seq(X) /\ Len(<<>>) = 0
    OBVIOUS
  <2> QED
    BY <2>1, KeptToFacts DEF Kept
<1>2. Kept(s, S) \in Seq(X)
  <2>1. Len(s) \in 0..Len(s)
    OBVIOUS
  <2> QED
    BY <2>1, KeptToFacts DEF Kept
<1>3. ASSUME NEW e \in X PROVE Kept(Append(s, e), S) = Extended(Kept(s, S), e, S)
  <2> DEFINE t == Append(s, e)
             l == Len(s)
  <2>1. /\ t \in Seq(X) /\ Len(t) = l + 1 /\ l \in Nat /\ t[l + 1] = e
        /\ \A i \in 1..l : s[i] = t[i]
    OBVIOUS
  <2> HIDE DEF t
  <2>2. l <= Len(s) /\ l <= Len(t) /\ l + 1 \in 1..Len(t) /\ (l + 1) - 1 = l
    BY <2>1
  <2>3. KeptTo(s, S)[l] = KeptTo(t, S)[l]
    BY <2>1, <2>2, KeptAgree
  <2>4. KeptTo(t, S)[l + 1] = Extended(KeptTo(t, S)[l], t[l + 1], S)
    BY <2>1, <2>2, KeptToFacts
  <2> QED
    BY <2>1, <2>3, <2>4 DEF Kept, t
<1> QED
  BY <1>1, <1>2, <1>3

\* the first n elements
LEMMA Begin ==
    ASSUME NEW X, NEW s \in Seq(X), NEW n \in Nat, n <= Len(s)
    PROVE  /\ SubSeq(s, 1, n) \in Seq(X)
           /\ n = 0 => SubSeq(s, 1, n) = <<>>
           /\ n = Len(s) => SubSeq(s, 1, n) = s
           /\ n < Len(s) => SubSeq(s, 1, n + 1) = Append(SubSeq(s, 1, n), s[n + 1])
OBVIOUS

\* Sequences are built by Append.
LEMMA SeqInduction ==
    ASSUME NEW X, NEW P, <<>> \in P,
           \A s \in Seq(X), e \in X : s \in P => Append(s, e) \in P
    PROVE  \A s \in Seq(X) : s \in P
<1> SUFFICES ASSUME NEW s \in Seq(X) PROVE s \in P
  OBVIOUS
<1> DEFINE T == {n \in Nat : n <= Len(s) => SubSeq(s, 1, n) \in P}
<1>1. Len(s) \in Nat /\ \A i \in 1..Len(s) : s[i] \in X
  OBVIOUS
<1>2. 0 \in T
  <2>1. 0 <= Len(s) /\ 0 \in Nat
    BY <1>1
  <2>2. SubSeq(s, 1, 0) = <<>>
    BY <2>1, Begin
  <2> QED
    BY <2>2
<1>3. ASSUME NEW n \in Nat, n \in T PROVE n + 1 \in T
  <2>1. SUFFICES ASSUME n + 1 <= Len(s) PROVE SubSeq(s, 1, n + 1) \in P
    OBVIOUS
  <2>2. n < Len(s) /\ n <= Len(s) /\ s[n + 1] \in X
    BY <1>1, <2>1
  <2>3. SubSeq(s, 1, n) \in P /\ SubSeq(s, 1, n) \in Seq(X)
    BY <1>3, <2>2, Begin
  <2>4. SubSeq(s, 1, n + 1) = Append(SubSeq(s, 1, n), s[n + 1])
    BY <2>2, Begin
  <2> QED
    BY <2>2, <2>3, <2>4
<1>4. Len(s) \in T
  <2> HIDE DEF T
  <2>1. \A n \in Nat : n \in T
    BY <1>2, <1>3, SetInduction
  <2> QED
    BY <1>1, <2>1
<1>5. Len(s) <= Len(s)
  BY <1>1
<1> QED
  BY <1>1, <1>4, <1>5, Begin

\* One more element goes to the last part of a concatenation.
Associates(a, b, e, S) == Extended(a \o b, e, S) = a \o Extended(b, e, S)
\* An element is added behind a concatenation.
LEMMA ExtendedConcat ==
    ASSUME NEW X, NEW S, NEW a \in Seq(X), NEW b \in Seq(X), NEW e \in X
    PROVE  Associates(a, b, e, S)
<1>1. Append(a \o b, e) = a \o Append(b, e)
  OBVIOUS
<1> QED
  BY <1>1 DEF Extended, Associates

\* What is kept of a concatenation.
LEMMA KeptConcat ==
    ASSUME NEW X, NEW S, NEW s \in Seq(X), NEW t \in Seq(X)
    PROVE  Kept(s \o t, S) = Kept(s, S) \o Kept(t, S)
<1> DEFINE P == {u \in Seq(X) : Kept(s \o u, S) = Kept(s, S) \o Kept(u, S)}
<1>1. <<>> \in P
  <2>1. s \o <<>> = s /\ <<>> \in Seq(X)
    OBVIOUS
  <2>2. Kept(s, S) \in Seq(X) /\ Kept(<<>>, S) = <<>>
    BY KeptBasics
  <2>3. Kept(s, S) \o <<>> = Kept(s, S)
    BY <2>2
  <2> QED
    BY <2>1, <2>2, <2>3
<1>2. ASSUME NEW u \in Seq(X), NEW e \in X, u \in P PROVE Append(u, e) \in P
  <2>1. Append(u, e) \in Seq(X) /\ s \o u \in Seq(X)
    OBVIOUS
  <2>2. s \o Append(u, e) = Append(s \o u, e)
    OBVIOUS
  <2>3. Kept(s, S) \in Seq(X) /\ Kept(u, S) \in Seq(X)
    BY KeptBasics
  <2>4. /\ Kept(Append(s \o u, e), S) = Extended(Kept(s \o u, S), e, S)
        /\ Kept(Append(u, e), S) = Extended(Kept(u, S), e, S)
    BY <2>1, KeptBasics
  <2>5. Kept(s \o u, S) = Kept(s, S) \o Kept(u, S)
    BY <1>2
  <2>6. Extended(Kept(s, S) \o Kept(u, S), e, S) = Kept(s, S) \o Extended(Kept(u, S), e, S)
    <3>1. Associates(Kept(s, S), Kept(u, S), e, S)
      BY <2>3, ExtendedConcat
    <3> QED
      BY <3>1 DEF Associates
  <2>7. Kept(s \o Append(u, e), S) = Kept(s, S) \o Kept(Append(u, e), S)
    BY <2>2, <2>4, <2>5, <2>6
  <2> QED
    BY <2>1, <2>7
<1>3. \A u \in Seq(X) : u \in P
  <2> HIDE DEF P
  <2> QED
    BY <1>1, <1>2, SeqInduction
<1> QED
  BY <1>3

\* A sequence of elements of S stays whole, one without any leaves nothing.
LEMMA KeptAll ==
    ASSUME NEW X, NEW S, NEW s \in Seq(X)
    PROVE  /\ (\A i \in DOMAIN s : s[i] \in S) => Kept(s, S) = s
           /\ (\A i \in DOMAIN s : s[i] \notin S) => Kept(s, S) = <<>>
<1> DEFINE P == {u \in Seq(X) :
                   /\ (\A i \in DOMAIN u : u[i] \in S) => Kept(u, S) = u
                   /\ (\A i \in DOMAIN u : u[i] \notin S) => Kept(u, S) = <<>>}
<1>1. <<>> \in P
  <2>1. <<>> \in Seq(X) /\ DOMAIN <<>> = {}
    OBVIOUS
  <2>2. Kept(<<>>, S) = <<>>
    BY <2>1, KeptBasics
  <2> QED
    BY <2>1, <2>2
<1>2. ASSUME NEW u \in Seq(X), NEW e \in X, u \in P PROVE Append(u, e) \in P
  <2> DEFINE t == Append(u, e)
  <2>1. /\ t \in Seq(X) /\ DOMAIN u \subseteq DOMAIN t /\ \A i \in DOMAIN u : t[i] = u[i]
        /\ Len(u) + 1 \in DOMAIN t /\ t[Len(u) + 1] = e
    OBVIOUS
  <2>2. Kept(t, S) = Extended(Kept(u, S), e, S)
    BY KeptBasics
  <2> HIDE DEF t
  <2>3. (\A i \in DOMAIN t : t[i] \in S) => Kept(t, S) = t
    BY <1>2, <2>1, <2>2 DEF Extended, t
  <2>4. (\A i \in DOMAIN t : t[i] \notin S) => Kept(t, S) = <<>>
    BY <1>2, <2>1, <2>2 DEF Extended
  <2> QED
    BY <2>1, <2>3, <2>4 DEF t
<1>3. \A u \in Seq(X) : u \in P
  <2> HIDE DEF P
  <2> QED
    BY <1>1, <1>2, SeqInduction
<1> QED
  BY <1>3

\* What is kept was there, and is in S.
LEMMA KeptFrom ==
    ASSUME NEW X, NEW S, NEW s \in Seq(X)
    PROVE  \A i \in DOMAIN Kept(s, S) :
             Kept(s, S)[i] \in S /\ \E j \in DOMAIN s : s[j] = Kept(s, S)[i]
<1> DEFINE P == {u \in Seq(X) : \A i \in DOMAIN Kept(u, S) :
                   Kept(u, S)[i] \in S /\ \E j \in DOMAIN u : u[j] = Kept(u, S)[i]}
<1>1. <<>> \in P
  <2>1. <<>> \in Seq(X) /\ DOMAIN <<>> = {}
    OBVIOUS
  <2>2. Kept(<<>>, S) = <<>>
    BY <2>1, KeptBasics
  <2> QED
    BY <2>1, <2>2
<1>2. ASSUME NEW u \in Seq(X), NEW e \in X, u \in P PROVE Append(u, e) \in P
  <2> DEFINE t == Append(u, e)
             k == Kept(u, S)
             l == Kept(t, S)
  <2>1. /\ t \in Seq(X) /\ DOMAIN u \subseteq DOMAIN t /\ \A i \in DOMAIN u : t[i] = u[i]
        /\ Len(u) + 1 \in DOMAIN t /\ t[Len(u) + 1] = e
    OBVIOUS
  <2>2. l = Extended(k, e, S) /\ k \in Seq(X)
    BY KeptBasics
  <2>3. \A i \in DOMAIN k : k[i] \in S /\ \E j \in DOMAIN u : u[j] = k[i]
    BY <1>2
  <2> HIDE DEF t, k, l
  <2>4. ASSUME NEW i \in DOMAIN l PROVE l[i] \in S /\ \E j \in DOMAIN t : t[j] = l[i]
    <3>1. CASE e \in S
      <4>1. l = Append(k, e)
        BY <2>2, <3>1 DEF Extended
      <4>2. (i \in DOMAIN k /\ l[i] = k[i]) \/ l[i] = e
        BY <2>2, <4>1
      <4> QED
        BY <2>1, <2>3, <3>1, <4>2
    <3>2. CASE e \notin S
      BY <2>1, <2>2, <2>3, <3>2 DEF Extended
    <3> QED
      BY <3>1, <3>2
  <2> QED
    BY <2>1, <2>4 DEF t, k, l
<1>3. \A u \in Seq(X) : u \in P
  <2> HIDE DEF P
  <2> QED
    BY <1>1, <1>2, SeqInduction
<1> QED
  BY <1>3

-----------------------------------------------------------------------------
(* The messages of a sequence of frames.                                     *)

\* w is a followed by b.
Parts(w, a, b) ==
    /\ Len(w) = Len(a) + Len(b) /\ Len(a) \in Nat /\ Len(b) \in Nat
    /\ \A i \in 1..Len(a) : w[i] = a[i]
    /\ \A i \in 1..Len(b) : w[Len(a) + i] = b[i]

\* What is where in a concatenation.
LEMMA ConcatParts ==
    ASSUME NEW X, NEW a \in Seq(X), NEW b \in Seq(X)
    PROVE  a \o b \in Seq(X) /\ Parts(a \o b, a, b)
BY DEF Parts

\* Sequences are equal when their elements are.
LEMMA SameSeq ==
    ASSUME NEW X, NEW a \in Seq(X), NEW b \in Seq(X), Len(a) = Len(b),
           \A i \in 1..Len(b) : a[i] = b[i]
    PROVE  a = b
OBVIOUS

\* MsgsOf maps every frame to its message.
LEMMA MsgsOfAt ==
    ASSUME NEW s \in Seq(Frame)
    PROVE  /\ MsgsOf(s) \in Seq(Msgs) /\ Len(MsgsOf(s)) = Len(s)
           /\ \A i \in 1..Len(s) : MsgsOf(s)[i] = s[i].msg
<1>1. \A i \in DOMAIN s : s[i].msg \in Msgs
  BY DEF Frame
<1> QED
  BY <1>1 DEF MsgsOf

\* It maps the parts of a concatenation.
LEMMA MsgsOfConcat ==
    ASSUME NEW s \in Seq(Frame), NEW t \in Seq(Frame), NEW u, u = s \o t,
           NEW w, w = MsgsOf(s) \o MsgsOf(t)
    PROVE  MsgsOf(u) = w
<1> DEFINE p == MsgsOf(s)
           r == MsgsOf(t)
           v == MsgsOf(u)
<1>1. u \in Seq(Frame) /\ Parts(u, s, t)
  BY ConcatParts
<1>2. /\ p \in Seq(Msgs) /\ Len(p) = Len(s) /\ \A i \in 1..Len(s) : p[i] = s[i].msg
      /\ r \in Seq(Msgs) /\ Len(r) = Len(t) /\ \A i \in 1..Len(t) : r[i] = t[i].msg
      /\ v \in Seq(Msgs) /\ Len(v) = Len(u) /\ \A i \in 1..Len(u) : v[i] = u[i].msg
  BY <1>1, MsgsOfAt
<1>3. w = p \o r
  OBVIOUS
<1> HIDE DEF p, r, v
<1>4. w \in Seq(Msgs) /\ Parts(w, p, r)
  BY ONLY <1>2, <1>3, ConcatParts
<1>5. ASSUME NEW i \in 1..Len(w) PROVE v[i] = w[i]
  <2>1. CASE i \in 1..Len(s)
    <3>1. i \in 1..Len(u) /\ i \in 1..Len(p)
      BY ONLY <1>1, <1>2, <2>1 DEF Parts
    <3>2. v[i] = u[i].msg /\ u[i] = s[i] /\ p[i] = s[i].msg /\ w[i] = p[i]
      BY ONLY <1>1, <1>2, <1>4, <2>1, <3>1 DEF Parts
    <3> QED
      BY <3>2
  <2>2. CASE i > Len(s)
    <3> DEFINE j == i - Len(s)
    <3>1. j \in 1..Len(t) /\ i = Len(s) + j
      BY ONLY <1>1, <1>2, <1>4, <2>2, i \in 1..Len(w) DEF Parts
    <3> HIDE DEF j
    <3>2. i \in 1..Len(u) /\ j \in 1..Len(r) /\ i = Len(p) + j
      BY ONLY <1>1, <1>2, <3>1 DEF Parts
    <3>3. v[i] = u[i].msg /\ u[i] = t[j] /\ r[j] = t[j].msg /\ w[i] = r[j]
      BY ONLY <1>1, <1>2, <1>4, <3>1, <3>2 DEF Parts
    <3> QED
      BY <3>3
  <2> QED
    BY <1>1, <2>1, <2>2 DEF Parts
<1>6. Len(v) = Len(w)
  BY ONLY <1>1, <1>2, <1>4 DEF Parts
<1>7. v = w
  BY ONLY <1>2, <1>4, <1>5, <1>6, SameSeq
<1> QED
  BY <1>7 DEF v

\* What the map makes of no frame and of one.
LEMMA MsgsOfOne ==
    ASSUME NEW f
    PROVE  MsgsOf(<<>>) = <<>> /\ MsgsOf(<<f>>) = <<f.msg>>
BY DEF MsgsOf

\* the frames that carry a promise, those that end a message
Carriers == {f \in Frame : f.promise}
Ends == {f \in Frame : f.fin}

\* the messages of the frames of fs that are in S
In(fs, S) == MsgsOf(Kept(fs, S))

\* PromisedIn and WholeIn are this for two sets.
LEMMA InIs ==
    ASSUME NEW fs
    PROVE  PromisedIn(fs) = In(fs, Carriers) /\ WholeIn(fs) = In(fs, Ends)
BY DEF In, PromisedIn, WholeIn, Carriers, Ends

\* u is what is in S of s, then of t
Joined(s, t, S) == In(s \o t, S) = In(s, S) \o In(t, S)

\* What is in S of a concatenation, of one frame, of nothing.
LEMMA InFacts ==
    ASSUME NEW S, NEW s \in Seq(Frame)
    PROVE  /\ In(s, S) \in Seq(Msgs)
           /\ \A t \in Seq(Frame) : Joined(s, t, S)
           /\ In(<<>>, S) = <<>>
           /\ \A f \in Frame : In(<<f>>, S) = IF f \in S THEN <<f.msg>> ELSE <<>>
           /\ (\A i \in DOMAIN s : s[i] \notin S) => In(s, S) = <<>>
           /\ \A m \in Msgs : Has(In(s, S), {m}) => Has(s, {g \in S : g.msg = m})
<1>1. Kept(s, S) \in Seq(Frame)
  BY KeptBasics
<1>2. In(s, S) \in Seq(Msgs)
  BY <1>1, MsgsOfAt DEF In
<1>3. ASSUME NEW t \in Seq(Frame) PROVE Joined(s, t, S)
  <2>1. Kept(s \o t, S) = Kept(s, S) \o Kept(t, S) /\ Kept(t, S) \in Seq(Frame)
    BY KeptBasics, KeptConcat
  <2>2. ASSUME NEW a \in Seq(Frame), NEW b \in Seq(Frame)
        PROVE  MsgsOf(a \o b) = MsgsOf(a) \o MsgsOf(b)
    BY MsgsOfConcat, Zenon
  <2> QED
    BY <1>1, <2>1, <2>2, Zenon DEF In, Joined
<1>4. In(<<>>, S) = <<>>
  <2>1. Kept(<<>>, S) = <<>>
    BY KeptBasics
  <2> QED
    BY <2>1, MsgsOfOne DEF In
<1>5. ASSUME NEW f \in Frame PROVE In(<<f>>, S) = IF f \in S THEN <<f.msg>> ELSE <<>>
  <2>1. <<f>> \in Seq(Frame) /\ DOMAIN <<f>> = {1} /\ <<f>>[1] = f
    OBVIOUS
  <2>2. f \in S => Kept(<<f>>, S) = <<f>>
    BY <2>1, KeptAll
  <2>3. f \notin S => Kept(<<f>>, S) = <<>>
    BY <2>1, KeptAll
  <2> QED
    BY <2>2, <2>3, MsgsOfOne DEF In
<1>6. ASSUME \A i \in DOMAIN s : s[i] \notin S PROVE In(s, S) = <<>>
  <2>1. Kept(s, S) = <<>>
    BY <1>6, KeptAll
  <2> QED
    BY <2>1, MsgsOfOne DEF In
<1>7. ASSUME NEW m \in Msgs, Has(In(s, S), {m}) PROVE Has(s, {g \in S : g.msg = m})
  <2>1. PICK i \in DOMAIN In(s, S) : In(s, S)[i] = m
    BY <1>7 DEF Has
  <2>2. i \in DOMAIN Kept(s, S) /\ Kept(s, S)[i].msg = m
    BY <1>1, <2>1 DEF In, MsgsOf
  <2>3. PICK j \in DOMAIN s : s[j] = Kept(s, S)[i] /\ Kept(s, S)[i] \in S
    BY <2>2, KeptFrom
  <2> QED
    BY <2>2, <2>3 DEF Has
<1> QED
  BY <1>2, <1>3, <1>4, <1>5, <1>6, <1>7

\* Appending is concatenation with one element.
LEMMA AppendIs ==
    ASSUME NEW X, NEW s \in Seq(X), NEW e \in X
    PROVE  Append(s, e) = s \o <<e>>
OBVIOUS

\* One more frame on the wire.
LEMMA WholeAppend ==
    ASSUME NEW w \in Seq(Frame), NEW f \in Frame
    PROVE  WholeIn(Append(w, f)) = IF f.fin THEN Append(WholeIn(w), f.msg) ELSE WholeIn(w)
<1>1. Append(w, f) = w \o <<f>> /\ <<f>> \in Seq(Frame)
  OBVIOUS
<1>2. Joined(w, <<f>>, Ends) /\ In(w, Ends) \in Seq(Msgs)
  BY <1>1, InFacts
<1>3. In(<<f>>, Ends) = IF f.fin THEN <<f.msg>> ELSE <<>>
  <2>1. f \in Ends <=> f.fin
    BY DEF Ends
  <2>2. In(<<f>>, Ends) = IF f \in Ends THEN <<f.msg>> ELSE <<>>
    BY <1>1, InFacts
  <2> QED
    BY <2>1, <2>2
<1>4. In(Append(w, f), Ends) = In(w, Ends) \o In(<<f>>, Ends)
  BY <1>1, <1>2 DEF Joined
<1>5. ASSUME NEW a \in Seq(Msgs), NEW m PROVE a \o <<m>> = Append(a, m) /\ a \o <<>> = a
  OBVIOUS
<1>6. In(Append(w, f), Ends) = IF f.fin THEN Append(In(w, Ends), f.msg) ELSE In(w, Ends)
  BY <1>2, <1>3, <1>4, <1>5
<1> QED
  BY <1>6, InIs

\* The promises of the frames that send() appends for m: one, of m, unless it is a close().
LEMMA PromisedFrames ==
    ASSUME NEW m \in Msgs
    PROVE  In(FramesOf(m), Carriers) = IF m \in Promised THEN <<m>> ELSE <<>>
<1>1. Size[m] \in Nat /\ maxFrameSize \in Nat \ {0} /\ FramesOf(m) \in Seq(Frame)
  BY SizeAssumption, FramesOfType
<1>2. CASE m \in CloseMsgs \cup PingMsgs \/ Size[m] <= maxFrameSize
  <2>1. FramesOf(m) = <<SingleFrame(m)>> /\ SingleFrame(m) \in Frame
    BY <1>1, <1>2 DEF FramesOf
  <2>2. SingleFrame(m).msg = m /\ (SingleFrame(m).promise <=> m \in Promised)
    BY DEF SingleFrame
  <2>3. SingleFrame(m) \in Carriers <=> m \in Promised
    BY <2>1, <2>2 DEF Carriers
  <2>4. PICK f \in Frame : f = SingleFrame(m)
    BY <2>1
  <2>5. In(<<f>>, Carriers) = IF f \in Carriers THEN <<f.msg>> ELSE <<>>
    BY <1>1, InFacts
  <2> QED
    BY <2>1, <2>2, <2>3, <2>4, <2>5
<1>3. CASE ~(m \in CloseMsgs \cup PingMsgs \/ Size[m] <= maxFrameSize)
  <2> DEFINE n == Pieces(Size[m])
             fs == FramesOf(m)
             s == SubSeq(fs, 1, n - 1)
             f == fs[n]
  <2>1. fs = ChunkFrames(m) /\ m \in Promised
    BY <1>3 DEF FramesOf, Promised
  <2>2. n \in Nat /\ n >= 1 /\ n - 1 \in Nat /\ (n - 1) + 1 = n
    <3>1. n \in Nat /\ n >= 1
      BY <1>1, <1>3, CeilingDivision DEF Pieces
    <3> HIDE DEF n
    <3> QED
      BY <3>1
  <2> HIDE DEF n
  <2>3. Len(fs) = n /\ DOMAIN fs = 1..n
    <3>1. DOMAIN fs = 1..n
      BY <2>1 DEF ChunkFrames, n
    <3> QED
      BY <1>1, <2>2, <3>1
  <2>4. ASSUME NEW i \in 1..n PROVE fs[i] \in Frame /\ fs[i].msg = m /\ (fs[i].promise <=> i = n)
    <3> DEFINE g == [op |-> IF i = 1 THEN "data" ELSE "continuation",
                     msg |-> m,
                     len |-> IF i < n THEN maxFrameSize
                             ELSE Size[m] - (n - 1) * maxFrameSize,
                     fin |-> i = n,
                     promise |-> i = n]
    <3>1. fs[i] = g /\ fs[i] \in Frame
      BY <1>1, <2>1, <2>2, <2>3 DEF ChunkFrames, n
    <3>2. g.msg = m
      OBVIOUS
    <3>3. g.promise <=> i = n
      OBVIOUS
    <3> QED
      BY <3>1, <3>2, <3>3
  <2>5. fs \in Seq(Frame)
    BY <1>1
  <2> HIDE DEF fs
  <2>6. /\ s \in Seq(Frame) /\ DOMAIN s = 1..(n - 1) /\ \A i \in DOMAIN s : s[i] = fs[i]
        /\ fs = s \o <<f>> /\ f \in Frame /\ <<f>> \in Seq(Frame)
    <3>1. n \in 1..n /\ n - 1 < Len(fs) /\ n - 1 <= Len(fs) /\ n <= Len(fs)
      BY <2>2, <2>3
    <3>2. f \in Frame /\ <<f>> \in Seq(Frame)
      BY <2>4, <3>1
    <3>3. s \in Seq(Frame) /\ SubSeq(fs, 1, n) = Append(s, f) /\ SubSeq(fs, 1, n) = fs
      BY <2>2, <2>3, <2>5, <3>1, Begin
    <3>4. DOMAIN s = 1..(n - 1) /\ \A i \in DOMAIN s : s[i] = fs[i]
      BY <2>2, <2>3, <2>5, <3>1
    <3> HIDE DEF s, f
    <3>5. Append(s, f) = s \o <<f>>
      BY <3>2, <3>3, AppendIs, Zenon
    <3> QED
      BY <3>2, <3>3, <3>4, <3>5
  <2>7. f.msg = m /\ f \in Carriers
    BY <2>2, <2>4 DEF Carriers
  <2> HIDE DEF s, f
  <2>8. \A i \in DOMAIN s : s[i] \notin Carriers
    BY <2>2, <2>4, <2>6 DEF Carriers
  <2>9. In(s, Carriers) = <<>> /\ Joined(s, <<f>>, Carriers) /\ In(<<f>>, Carriers) = <<m>>
    BY <2>6, <2>7, <2>8, InFacts
  <2>10. In(fs, Carriers) = <<>> \o <<m>>
    BY <2>6, <2>9 DEF Joined
  <2>11. <<>> \o <<m>> = <<m>>
    OBVIOUS
  <2> QED
    BY <2>1, <2>10, <2>11 DEF fs
<1> QED
  BY <1>2, <1>3

\* what is left of a \o <<m>> \o b without m, of a without it
Without(a, m, b) == Kept((a \o <<m>>) \o b, Msgs \ {m}) = a \o b
Free(a, m) == Kept(a, Msgs \ {m}) = a

\* A message leaves a queue; one that was not there changes nothing.
LEMMA LeavesQueue ==
    ASSUME NEW m \in Msgs, NEW a \in Seq(Msgs), NEW b \in Seq(Msgs),
           ~Has(a, {m}), ~Has(b, {m})
    PROVE  Without(a, m, b) /\ Free(a, m)
<1> DEFINE S == Msgs \ {m}
<1>1. /\ <<m>> \in Seq(Msgs) /\ a \o <<m>> \in Seq(Msgs)
      /\ \A i \in DOMAIN <<m>> : <<m>>[i] = m
  OBVIOUS
<1>2. /\ \A i \in DOMAIN a : a[i] \in S
      /\ \A i \in DOMAIN b : b[i] \in S
  BY DEF Has
<1>3. Kept(a, S) = a /\ Kept(b, S) = b /\ Kept(<<m>>, S) = <<>>
  BY <1>1, <1>2, KeptAll
<1>4. Kept(a \o <<m>>, S) = Kept(a, S) \o Kept(<<m>>, S)
  BY <1>1, KeptConcat
<1>5. Kept((a \o <<m>>) \o b, S) = Kept(a \o <<m>>, S) \o Kept(b, S)
  BY <1>1, KeptConcat
<1>6. a \o <<>> = a
  OBVIOUS
<1> QED
  BY <1>3, <1>4, <1>5, <1>6 DEF Without, Free

-----------------------------------------------------------------------------
(* Where the frames and closures come from.                                  *)

\* frames of messages of S that have their promise where it belongs: with the last frame
\* of a send(), with none of a close()
Sound(S) == {f \in Frame : /\ f.msg \in S
                           /\ f.promise => f.msg \in Promised
                           /\ f.op # "close" => f.promise = f.fin}

\* closures that were submitted for a reason: a send() of a message of S, markAsClosed for a
\* close() of S or a status of lws or the peer; sends only once there is a connection
Known(S, open) ==
    {t \in Tasks : /\ t.t = "send" => t.arg \in S
                   /\ t.t \in {"send", "connectOk"} => open
                   /\ t.t = "markAsClosed" => t.arg \in S \cup {noStatus, peerStatus}}

\* Everything on its way comes from a call the owner has made.
KnownInv ==
    /\ toBeWritten \in Seq(Sound(submitted)) /\ pendingWrites \in Seq(Sound(submitted))
    /\ hand \in Seq(Sound(submitted))
    /\ loop \in Seq(Known(submitted, wasConnected))
    /\ cur.pc = "enqueue" => cur.msg \in submitted /\ wasConnected
    /\ waitingLwsCloseStatus \in submitted \cup {Nil}

\* The owner has a client that was connected; its wsi is there until it is freed; a
\* connection error is the end of the wsi; a frame is taken in hand only while the
\* transport works; the connect promise is resolved by the time the timer is gone.
OpenInv ==
    /\ connectResult = "ok" => wasConnected
    /\ lrs = "none" => ~wasConnected
    /\ lrs \in Live \cup {"dead"} => websocket
    /\ connectionError => lrs \in {"dead", "freed"}
    /\ hand # NoFrame => lrs \in {"established", "awaiting_close_ack"} /\ ~unusable
    /\ ~timer => ~onConnect

\* More calls, or a connection, make no frame and no closure wrong.
LEMMA KnownGrows ==
    ASSUME NEW S, NEW T, S \subseteq T, NEW o \in BOOLEAN, NEW p \in BOOLEAN, o => p
    PROVE  /\ Seq(Sound(S)) \subseteq Seq(Sound(T))
           /\ Seq(Known(S, o)) \subseteq Seq(Known(T, p))
<1>1. Sound(S) \subseteq Sound(T)
  BY DEF Sound
<1>2. Known(S, o) \subseteq Known(T, p)
  BY DEF Known
<1>3. ASSUME NEW A, NEW B, A \subseteq B PROVE Seq(A) \subseteq Seq(B)
  BY <1>3
<1> QED
  BY <1>1, <1>2, <1>3

\* The closures the code submits are known.
LEMMA KnownTasks ==
    ASSUME NEW S, NEW o \in BOOLEAN
    PROVE  /\ \A m \in Msgs : m \in S /\ o => Task("send", m) \in Known(S, o)
           /\ \A s \in Statuses : Task("notify", s) \in Known(S, o)
           /\ \A s \in Statuses : s \in S \cup {noStatus, peerStatus}
                => Task("markAsClosed", s) \in Known(S, o)
           /\ Task("connectFail", Nil) \in Known(S, o) /\ Task("setOnClose", Nil) \in Known(S, o)
           /\ o => Task("connectOk", Nil) \in Known(S, o)
<1>1. ASSUME NEW t, NEW a PROVE Task(t, a).t = t /\ Task(t, a).arg = a
  BY DEF Task
<1> QED
  BY <1>1, TasksType DEF Known

\* send() makes sound frames.
LEMMA FramesSound ==
    ASSUME NEW m \in Msgs, NEW S, m \in S
    PROVE  FramesOf(m) \in Seq(Sound(S))
<1>1. Size[m] \in Nat /\ maxFrameSize \in Nat \ {0} /\ FramesOf(m) \in Seq(Frame)
  BY SizeAssumption, FramesOfType
<1>2. CASE m \in CloseMsgs \cup PingMsgs \/ Size[m] <= maxFrameSize
  <2>1. FramesOf(m) = <<SingleFrame(m)>> /\ SingleFrame(m) \in Frame
    BY <1>1, <1>2 DEF FramesOf
  <2>2. /\ SingleFrame(m).msg = m /\ (SingleFrame(m).promise <=> m \in Promised)
        /\ SingleFrame(m).fin = TRUE /\ (SingleFrame(m).op = "close" <=> m \in CloseMsgs)
    BY DEF SingleFrame
  <2>3. SingleFrame(m).promise \in BOOLEAN
    BY <2>1 DEF Frame
  <2>4. SingleFrame(m) \in Sound(S)
    BY <2>1, <2>2, <2>3 DEF Sound, Promised
  <2> QED
    BY <2>1, <2>4
<1>3. CASE ~(m \in CloseMsgs \cup PingMsgs \/ Size[m] <= maxFrameSize)
  <2> DEFINE n == Pieces(Size[m])
             fs == FramesOf(m)
  <2>1. fs = ChunkFrames(m) /\ m \in Promised
    BY <1>3 DEF FramesOf, Promised
  <2>2. DOMAIN fs = 1..n /\ n \in Nat
    <3>1. n \in Nat
      BY <1>1, <1>3, CeilingDivision DEF Pieces
    <3> QED
      BY <2>1, <3>1 DEF ChunkFrames
  <2> HIDE DEF n
  <2>3. ASSUME NEW i \in 1..n PROVE fs[i] \in Sound(S)
    <3> DEFINE g == [op |-> IF i = 1 THEN "data" ELSE "continuation",
                     msg |-> m,
                     len |-> IF i < n THEN maxFrameSize
                             ELSE Size[m] - (n - 1) * maxFrameSize,
                     fin |-> i = n,
                     promise |-> i = n]
    <3>1. fs[i] = g /\ fs[i] \in Frame
      BY <1>1, <2>1, <2>2 DEF ChunkFrames, n
    <3>2. g.msg = m /\ g.promise = g.fin
      OBVIOUS
    <3> QED
      BY <2>1, <3>1, <3>2 DEF Sound
  <2> HIDE DEF fs
  <2>4. fs \in Seq(Frame)
    BY <1>1 DEF fs
  <2>5. Len(fs) = n /\ fs = [i \in 1..n |-> fs[i]]
    BY <2>2, <2>4
  <2>6. fs \in Seq(Sound(S))
    BY <2>2, <2>3, <2>5
  <2> QED
    BY <2>6 DEF fs
<1> QED
  BY <1>2, <1>3

\* Sequences over a set stay so when they grow.
LEMMA SeqOps ==
    ASSUME NEW X, NEW s \in Seq(X)
    PROVE  /\ \A e \in X : Append(s, e) \in Seq(X)
           /\ \A t \in Seq(X) : s \o t \in Seq(X)
OBVIOUS

\* what KnownInv is about
knownVars == <<submitted, wasConnected, waitingLwsCloseStatus, toBeWritten, pendingWrites, hand>>

\* A step that only takes a closure from the loop or submits one, and starts no send().
LEMMA KnownStep ==
    ASSUME KnownInv, UNCHANGED knownVars, cur' = cur \/ cur'.pc # "enqueue",
           loop' \in Seq(Known(submitted, wasConnected))
    PROVE  KnownInv'
BY DEF KnownInv, knownVars

\* What may become of the loop's queue.
LEMMA KnownLoop ==
    ASSUME KnownInv
    PROVE  /\ loop \in Seq(Known(submitted, wasConnected))
           /\ loop # <<>> => Tail(loop) \in Seq(Known(submitted, wasConnected))
           /\ \A t \in Known(submitted, wasConnected) :
                Append(loop, t) \in Seq(Known(submitted, wasConnected))
           /\ loop # <<>> => Head(loop) \in Known(submitted, wasConnected)
<1>1. loop \in Seq(Known(submitted, wasConnected))
  BY DEF KnownInv
<1> QED
  BY <1>1

\* The kill path reports a status somebody gave.
LEMMA KnownKill ==
    ASSUME TypeOK, KnownInv, NEW asked \in submitted \cup {Nil}, asked \in Statuses \cup {Nil},
           JustKill(asked)
    PROVE  loop' \in Seq(Known(submitted, wasConnected))
<1>1. wasConnected \in BOOLEAN
  BY DEF TypeOK, TypeFlags
<1> DEFINE s == IF asked = Nil THEN noStatus ELSE asked
<1>2. s \in Statuses /\ s \in submitted \cup {noStatus, peerStatus}
  BY DEF Statuses
<1>3. Task("markAsClosed", s) \in Known(submitted, wasConnected)
  BY <1>1, <1>2, KnownTasks
<1>4. loop' = loop \/ loop' = Append(loop, Task("markAsClosed", s))
  BY DEF JustKill, Execute
<1> QED
  BY <1>3, <1>4, KnownLoop

\* So does the whole close path.
LEMMA KnownCloseFree ==
    ASSUME TypeOK, KnownInv, NEW asked \in submitted \cup {Nil}, asked \in Statuses \cup {Nil},
           NEW reason, NEW broken, CloseFreeWsi(reason, broken, asked)
    PROVE  loop' \in Seq(Known(submitted, wasConnected))
BY KnownKill, KnownLoop DEF CloseFreeWsi

\* A call is made, on or off the loop.
LEMMA KnownCall ==
    ASSUME TypeOK, KnownInv, OpenInv, NEW m \in Msgs,
           Send(m) \/ Close(m) \/ LoopSend(m) \/ LoopClose(m)
    PROVE  KnownInv'
<1>1. /\ submitted' = submitted \cup {m} /\ wasConnected
      /\ UNCHANGED <<wasConnected, waitingLwsCloseStatus, toBeWritten, pendingWrites, hand>>
      /\ loop' = loop \/ loop' = Append(loop, Task("send", m))
      /\ cur' = cur \/ cur' = Idle \/ cur' = At("enqueue", m)
  BY DEF Send, Close, LoopSend, LoopClose, MayCall, OpenInv, Execute, AfterCheck, clientVars,
         wsiVars
<1>2. /\ Seq(Sound(submitted)) \subseteq Seq(Sound(submitted'))
      /\ Seq(Known(submitted, TRUE)) \subseteq Seq(Known(submitted', TRUE))
  BY <1>1, KnownGrows
<1>3. wasConnected = TRUE /\ wasConnected' = TRUE
  BY <1>1 DEF TypeOK, TypeFlags
<1>4. Task("send", m) \in Known(submitted', TRUE)
  BY <1>1, KnownTasks
<1>5. loop' \in Seq(Known(submitted', TRUE))
  <2>1. loop \in Seq(Known(submitted', TRUE))
    BY <1>2, <1>3 DEF KnownInv
  <2> QED
    BY <1>1, <1>4, <2>1, SeqOps
<1>6. cur'.pc = "enqueue" => cur'.msg \in submitted'
  BY <1>1 DEF KnownInv, Idle, At
<1> QED
  BY <1>1, <1>2, <1>3, <1>5, <1>6 DEF KnownInv

\* send() on the loop goes on to the queue.
LEMMA KnownRunSend ==
    ASSUME TypeOK, KnownInv, RunSend
    PROVE  KnownInv'
<1>1. /\ loop # <<>> /\ Head(loop).t = "send" /\ loop' = Tail(loop)
      /\ UNCHANGED knownVars
      /\ cur' = Idle \/ cur' = At("enqueue", Head(loop).arg)
  BY DEF RunSend, AfterCheck, knownVars, clientVars, wsiVars
<1>2. Head(loop) \in Known(submitted, wasConnected)
  BY <1>1, KnownLoop
<1>3. Head(loop).arg \in submitted /\ wasConnected
  BY <1>1, <1>2 DEF Known
<1>4. loop' \in Seq(Known(submitted, wasConnected))
  BY <1>1, KnownLoop
<1>5. cur'.pc = "enqueue" => cur'.msg \in submitted
  BY <1>1, <1>3 DEF Idle, At
<1> QED
  BY <1>1, <1>3, <1>4, <1>5 DEF KnownInv, knownVars

\* send() appends its frames.
LEMMA KnownEnqueue ==
    ASSUME TypeOK, KnownInv, SendEnqueue
    PROVE  KnownInv'
<1>1. /\ cur.pc = "enqueue" /\ cur'.pc # "enqueue"
      /\ UNCHANGED <<submitted, wasConnected, waitingLwsCloseStatus, pendingWrites, hand, loop>>
      /\ toBeWritten' = toBeWritten \/ toBeWritten' = toBeWritten \o FramesOf(cur.msg)
  BY DEF SendEnqueue, Idle, At, wsiVars
<1>2. cur.msg \in Msgs
  BY <1>1, CurArgs DEF TypeOK, TypeStates
<1>3. FramesOf(cur.msg) \in Seq(Sound(submitted))
  BY <1>1, <1>2, FramesSound DEF KnownInv
<1>4. toBeWritten' \in Seq(Sound(submitted))
  BY <1>1, <1>3, SeqOps DEF KnownInv
<1> QED
  BY <1>1, <1>4 DEF KnownInv

\* The rest of what the event loop does.
LEMMA KnownLoopSteps ==
    ASSUME TypeOK, KnownInv,
           \/ OnClose \/ Release \/ SendWritable \/ RunMarkAsClosed \/ ResolvePending
           \/ FinishMarkAsClosed \/ RunNotify \/ RunSetOnClose \/ RunConnectResult
           \/ ConnectTimeout \/ Deinit
    PROVE  KnownInv'
<1> DEFINE K == Known(submitted, wasConnected)
           Q == Sound(submitted)
<1>0. wasConnected \in BOOLEAN
  BY DEF TypeOK, TypeFlags
<1>1. CASE OnClose
  <2>1. Append(loop, Task("setOnClose", Nil)) \in Seq(K)
    BY <1>0, KnownTasks, KnownLoop
  <2> QED
    BY <1>1, <2>1, KnownStep DEF OnClose, Execute, knownVars, clientVars, wsiVars, seenVars
<1>2. CASE Release \/ ConnectTimeout \/ SendWritable
  <2>1. cur' = cur \/ cur'.pc # "enqueue"
    <3>1. CASE Release \/ ConnectTimeout
      BY <3>1 DEF Release, ConnectTimeout, loopVars
    <3>2. CASE SendWritable
      BY <3>2 DEF SendWritable, Idle
    <3> QED
      BY <1>2, <3>1, <3>2
  <2> QED
    BY <1>2, <2>1, KnownStep, KnownLoop DEF Release, ConnectTimeout, SendWritable, knownVars,
         loopVars, wsiVars, seenVars
<1>3. CASE RunMarkAsClosed
  <2>1. /\ loop # <<>> /\ loop' = Tail(loop)
        /\ UNCHANGED <<submitted, wasConnected, waitingLwsCloseStatus, hand>>
        /\ cur' = cur \/ cur'.pc # "enqueue"
        /\ \/ UNCHANGED <<toBeWritten, pendingWrites>>
           \/ toBeWritten' = <<>> /\ pendingWrites' = toBeWritten
    BY <1>3 DEF RunMarkAsClosed, TakeWrites, At, wsiVars, seenVars
  <2>2. loop' \in Seq(K)
    BY <2>1, KnownLoop
  <2>3. toBeWritten' \in Seq(Q) /\ pendingWrites' \in Seq(Q)
    <3>1. toBeWritten \in Seq(Q) /\ pendingWrites \in Seq(Q) /\ <<>> \in Seq(Q)
      BY DEF KnownInv
    <3> QED
      BY <2>1, <3>1
  <2> QED
    BY <2>1, <2>2, <2>3 DEF KnownInv
<1>4. CASE ResolvePending
  <2>1. /\ pendingWrites # <<>> /\ pendingWrites' = Tail(pendingWrites)
        /\ UNCHANGED <<submitted, wasConnected, waitingLwsCloseStatus, hand, toBeWritten, loop>>
        /\ cur' = cur \/ cur'.pc # "enqueue"
    BY <1>4 DEF ResolvePending, At, clientVars, wsiVars
  <2>2. pendingWrites' \in Seq(Q)
    <3>1. pendingWrites \in Seq(Q)
      BY DEF KnownInv
    <3> QED
      BY <2>1, <3>1
  <2> QED
    BY <2>1, <2>2 DEF KnownInv
<1>5. CASE FinishMarkAsClosed
  <2>1. cur.msg \in Statuses
    BY <1>5, CurArgs DEF FinishMarkAsClosed, TypeOK, TypeStates
  <2>2. Append(loop, Task("notify", cur.msg)) \in Seq(K)
    BY <1>0, <2>1, KnownTasks, KnownLoop
  <2>3. UNCHANGED knownVars /\ cur'.pc # "enqueue"
    BY <1>5 DEF FinishMarkAsClosed, knownVars, Idle, wsiVars, seenVars
  <2>4. loop' \in Seq(K)
    BY <1>5, <2>2, KnownLoop DEF FinishMarkAsClosed, Execute
  <2> QED
    BY <2>3, <2>4, KnownStep
<1>6. CASE RunNotify \/ RunSetOnClose \/ RunConnectResult
  <2>1. loop # <<>> /\ loop' = Tail(loop) /\ UNCHANGED knownVars /\ cur' = cur
    BY <1>6 DEF RunNotify, RunSetOnClose, RunConnectResult, knownVars, clientVars, wsiVars,
         seenVars
  <2> QED
    BY <2>1, KnownLoop, KnownStep
<1>7. CASE Deinit
  <2>1. /\ UNCHANGED <<submitted, wasConnected, waitingLwsCloseStatus, hand, pendingWrites, cur>>
        /\ toBeWritten' = toBeWritten \/ toBeWritten' = <<>>
        /\ loop' = loop \/ loop' = Append(loop, Task("notify", goingAway))
    BY <1>7 DEF Deinit, Execute
  <2>2. Append(loop, Task("notify", goingAway)) \in Seq(K)
    BY <1>0, KnownTasks, KnownLoop DEF Statuses
  <2>3. loop' \in Seq(K)
    BY <2>1, <2>2, KnownLoop
  <2>4. toBeWritten' \in Seq(Q)
    <3>1. toBeWritten \in Seq(Q) /\ <<>> \in Seq(Q)
      BY DEF KnownInv
    <3> QED
      BY <2>1, <3>1
  <2> QED
    BY <2>1, <2>3, <2>4 DEF KnownInv
<1> QED
  BY <1>1, <1>2, <1>3, <1>4, <1>5, <1>6, <1>7

\* What the service thread does.
LEMMA KnownService ==
    ASSUME TypeOK, KnownInv, ServiceStep \/ Handshake \/ Network
    PROVE  KnownInv'
<1> DEFINE K == Known(submitted, wasConnected)
           Q == Sound(submitted)
           W == waitingLwsCloseStatus
<1>0. /\ wasConnected \in BOOLEAN
      /\ W \in submitted \cup {Nil} /\ W \in Statuses \cup {Nil}
      /\ hand \in Seq(Q) /\ toBeWritten \in Seq(Q) /\ <<>> \in Seq(Q)
      /\ hand \in Seq(Frame) /\ Len(hand) <= 1
      /\ Nil \in submitted \cup {Nil} /\ Nil \in Statuses \cup {Nil}
  BY DEF TypeOK, TypeFlags, TypeStates, TypeQueues, KnownInv
<1>1. CASE Connect \/ ConnectionError
  <2> DEFINE t == Task("connectFail", Nil)
  <2>1. t \in K /\ loop \in Seq(K)
    BY <1>0, KnownTasks, KnownLoop
  <2>2. Append(loop, t) \in Seq(K) /\ loop \o <<t, t>> \in Seq(K)
    BY <2>1
  <2>3. loop' = loop \/ loop' = Append(loop, t) \/ loop' = loop \o <<t, t>>
    BY <1>1 DEF Connect, ConnectionError, Execute
  <2>4. UNCHANGED knownVars /\ cur' = cur
    BY <1>1 DEF Connect, ConnectionError, knownVars, seenVars
  <2> HIDE DEF t
  <2> QED
    BY <2>1, <2>2, <2>3, <2>4, KnownStep
<1>2. CASE Established
  <2>1. /\ UNCHANGED <<submitted, waitingLwsCloseStatus, toBeWritten, pendingWrites, hand, cur>>
        /\ \/ wasConnected' = TRUE /\ loop' = Append(loop, Task("connectOk", Nil))
           \/ UNCHANGED <<wasConnected, loop>>
    BY <1>2 DEF Established, Execute, seenVars
  <2>2. CASE UNCHANGED <<wasConnected, loop>>
    BY <2>1, <2>2 DEF KnownInv
  <2>3. CASE wasConnected' = TRUE /\ loop' = Append(loop, Task("connectOk", Nil))
    <3>1. Task("connectOk", Nil) \in Known(submitted, TRUE)
      BY KnownTasks
    <3>2. loop \in Seq(Known(submitted, TRUE))
      BY <1>0, KnownGrows DEF KnownInv
    <3>3. loop' \in Seq(Known(submitted, TRUE))
      BY <2>3, <3>1, <3>2, SeqOps
    <3> QED
      BY <2>1, <2>3, <3>3 DEF KnownInv
  <2> QED
    BY <2>1, <2>2, <2>3
<1>3. CASE WriteableEmpty \/ WsiDestroy
  <2>1. UNCHANGED knownVars /\ cur' = cur /\ loop' = loop
    BY <1>3 DEF WriteableEmpty, WsiDestroy, knownVars, clientVars, loopVars, seenVars
  <2> QED
    BY <2>1, KnownLoop, KnownStep
<1>4. CASE WriteablePop
  <2>1. /\ UNCHANGED <<submitted, wasConnected, waitingLwsCloseStatus, pendingWrites, loop, cur>>
        /\ toBeWritten # <<>> /\ hand' = <<Head(toBeWritten)>> /\ toBeWritten' = Tail(toBeWritten)
    BY <1>4 DEF WriteablePop, loopVars, seenVars
  <2>2. Head(toBeWritten) \in Q /\ Tail(toBeWritten) \in Seq(Q)
    BY <1>0, <2>1
  <2>3. hand' \in Seq(Q) /\ toBeWritten' \in Seq(Q)
    BY <2>1, <2>2
  <2> QED
    BY <2>1, <2>3 DEF KnownInv
<1>5. CASE WriteData \/ WritePing
  <2>1. /\ UNCHANGED <<submitted, wasConnected, waitingLwsCloseStatus, pendingWrites, cur,
                       toBeWritten>>
        /\ hand' = <<>>
        /\ loop' = loop \/ CloseFreeWsi(closeBuf, TRUE, W)
    BY <1>5 DEF WriteData, WritePing, NoFrame, clientVars, loopVars
  <2>2. loop' \in Seq(K)
    BY <1>0, <2>1, KnownCloseFree, KnownLoop
  <2> QED
    BY <1>0, <2>1, <2>2 DEF KnownInv
<1>6. CASE WriteClose
  <2>1. /\ UNCHANGED <<submitted, wasConnected, pendingWrites, cur, toBeWritten>>
        /\ hand # <<>> /\ hand[1].op = "close" /\ hand' = <<>>
        /\ waitingLwsCloseStatus' = hand[1].msg
        /\ CloseFreeWsi(hand[1].msg, FALSE, hand[1].msg)
    BY <1>6 DEF WriteClose, NoFrame, seenVars
  <2>2. hand[1] \in Q /\ hand[1] \in Frame
    BY <1>0, <2>1, OneElement
  <2>3. hand[1].msg \in submitted \cup {Nil} /\ hand[1].msg \in Statuses \cup {Nil}
    BY <2>1, <2>2 DEF Sound, Frame, Statuses
  <2>4. loop' \in Seq(K)
    BY <2>1, <2>3, KnownCloseFree
  <2> QED
    BY <1>0, <2>1, <2>3, <2>4 DEF KnownInv
<1>7. CASE RecvClose /\ alive
  <2>1. /\ UNCHANGED knownVars /\ cur' = cur
        /\ loop' = Append(loop, Task("markAsClosed", peerStatus))
    BY <1>7 DEF RecvClose, Execute, knownVars, clientVars, seenVars
  <2>2. Task("markAsClosed", peerStatus) \in K
    BY <1>0, KnownTasks DEF Statuses
  <2> QED
    BY <2>1, <2>2, KnownLoop, KnownStep
<1>8. CASE \/ WriteableNoClient \/ SendClose \/ CloseTimeout \/ (RecvClose /\ ~alive)
           \/ RecvCloseAck \/ RecvBad \/ ConnectionLost
  <2>1. UNCHANGED knownVars /\ cur' = cur
    BY <1>8 DEF WriteableNoClient, SendClose, CloseTimeout, RecvClose, RecvCloseAck, RecvBad,
         ConnectionLost, knownVars, clientVars, seenVars
  <2>2. \/ loop' = loop \/ JustKill(W)
        \/ \E r, b : CloseFreeWsi(r, b, W) \/ CloseFreeWsi(r, b, Nil)
    BY <1>8 DEF WriteableNoClient, SendClose, CloseTimeout, RecvClose, RecvCloseAck, RecvBad,
         ConnectionLost
  <2>3. loop' \in Seq(K)
    BY <1>0, <2>2, KnownKill, KnownCloseFree, KnownLoop
  <2> QED
    BY <2>1, <2>3, KnownStep
<1> QED
  BY <1>1, <1>2, <1>3, <1>4, <1>5, <1>6, <1>7, <1>8 DEF ServiceStep, Handshake, Network

\* what OpenInv is about
openVars == <<connectResult, wasConnected, lrs, websocket, connectionError, hand, unusable,
              timer, onConnect>>

\* OpenInv is kept by every step.
LEMMA OpenSteps ==
    ASSUME TypeOK, KnownInv, OpenInv, [Next]_vars
    PROVE  OpenInv'
<1>1. CASE UNCHANGED openVars
  BY <1>1 DEF OpenInv, openVars
<1>2. CASE \/ UNCHANGED vars \/ (\E m \in Msgs : Send(m) \/ Close(m) \/ LoopSend(m) \/ LoopClose(m))
           \/ OnClose \/ Release \/ RunSend \/ SendEnqueue \/ SendWritable \/ RunMarkAsClosed
           \/ ResolvePending \/ FinishMarkAsClosed \/ RunNotify \/ RunSetOnClose \/ WriteableEmpty
  BY <1>1, <1>2 DEF Send, Close, LoopSend, LoopClose, OnClose, Release, RunSend, SendEnqueue,
       SendWritable, RunMarkAsClosed, ResolvePending, FinishMarkAsClosed, RunNotify,
       RunSetOnClose, WriteableEmpty, openVars, vars, clientVars, wsiVars, seenVars
<1>3. CASE RunConnectResult \/ ConnectTimeout \/ Deinit
  <2>1. /\ UNCHANGED <<wasConnected, lrs, websocket, connectionError, hand, unusable>>
        /\ onConnect' = FALSE
        /\ \/ connectResult' \in {connectResult, "failed"}
           \/ RunConnectResult /\ Head(loop).t = "connectOk" /\ connectResult' = "ok"
    BY <1>3 DEF RunConnectResult, ConnectTimeout, Deinit, FetchOnConnect, wsiVars
  <2>2. RunConnectResult /\ Head(loop).t = "connectOk" => wasConnected
    <3>1. RunConnectResult => loop # <<>>
      BY DEF RunConnectResult
    <3> QED
      BY <3>1, KnownLoop DEF Known
  <2> QED
    BY <2>1, <2>2 DEF OpenInv
<1>4. CASE Connect \/ Established
  BY <1>4 DEF Connect, Established, OpenInv, Live, seenVars
<1>5. CASE ConnectionError
  BY <1>5 DEF ConnectionError, OpenInv, Live, seenVars
<1>6. CASE WriteablePop
  BY <1>6 DEF WriteablePop, CallsWriteable, OpenInv, seenVars
<1>7. CASE WriteData
  BY <1>7 DEF WriteData, OpenInv, clientVars
<1>8. CASE WsiDestroy
  BY <1>8 DEF WsiDestroy, OpenInv, Live, seenVars
<1>9. CASE \/ WritePing \/ WriteClose \/ WriteableNoClient \/ SendClose \/ CloseTimeout \/ RecvClose
           \/ RecvCloseAck \/ RecvBad \/ ConnectionLost
  <2>1. /\ UNCHANGED <<connectResult, wasConnected, websocket, connectionError, timer, onConnect>>
        /\ lrs \in Live \/ UNCHANGED lrs
        /\ lrs' = lrs \/ lrs' \in {"waiting_to_send_close", "awaiting_close_ack", "dead"}
    <3>1. CASE WritePing \/ WriteClose \/ WriteableNoClient
      BY <3>1 DEF WritePing, WriteClose, WriteableNoClient, CallsWriteable, CloseFreeWsi, JustKill,
           OpenInv, Live, clientVars, seenVars
    <3>2. CASE SendClose \/ CloseTimeout
      BY <3>2 DEF SendClose, CloseTimeout, JustKill, Live, Upgraded, clientVars, seenVars
    <3>3. CASE RecvClose \/ RecvCloseAck \/ RecvBad \/ ConnectionLost
      BY <3>3 DEF RecvClose, RecvCloseAck, RecvBad, ConnectionLost, CloseFreeWsi, JustKill, Live,
           clientVars, seenVars
    <3> QED
      BY <1>9, <3>1, <3>2, <3>3
  <2>2. hand' = NoFrame
    <3>1. CASE WritePing \/ WriteClose
      BY <3>1 DEF WritePing, WriteClose
    <3>2. CASE SendClose
      BY <3>2 DEF SendClose, OpenInv
    <3>3. CASE WriteableNoClient \/ CloseTimeout \/ RecvClose \/ RecvCloseAck \/ RecvBad
               \/ ConnectionLost
      BY <3>3 DEF WriteableNoClient, CallsWriteable, CloseTimeout, RecvClose, RecvCloseAck,
           RecvBad, ConnectionLost
    <3> QED
      BY <1>9, <3>1, <3>2, <3>3
  <2> QED
    BY <2>1, <2>2 DEF OpenInv, Live
<1> QED
  BY <1>2, <1>3, <1>4, <1>5, <1>6, <1>7, <1>8, <1>9
     DEF Next, Owner, LoopStep, LoopOwner, ServiceStep, Handshake, Network

-----------------------------------------------------------------------------
(* The refinement.                                                           *)

\* what Connection's variables are in the client
Queue == PromisedIn(hand \o toBeWritten \o pendingWrites)
Ended == unusable \/ lrs \in {"dead", "freed"}

\* what the proof of the refinement needs of the states on both sides of a step
ClientInv == /\ TypeOK /\ ClosedQueueEmpty /\ ConnectInv /\ NotifyInv /\ HeldInv
             /\ KnownInv /\ OpenInv

\* the promises in three sequences of frames, and in one after the other
Promises(a, b, c) == (In(a, Carriers) \o In(b, Carriers)) \o In(c, Carriers)
Split(a, b, c) == PromisedIn(a \o b \o c) = Promises(a, b, c)

\* The promises of a concatenation are those of its parts.
LEMMA SplitQueue ==
    ASSUME NEW a \in Seq(Frame), NEW b \in Seq(Frame), NEW c \in Seq(Frame)
    PROVE  Split(a, b, c)
<1>1. a \o b \in Seq(Frame)
  OBVIOUS
<1>2. Joined(a, b, Carriers) /\ Joined(a \o b, c, Carriers)
  BY <1>1, InFacts
<1>3. PromisedIn(a \o b \o c) = In(a \o b \o c, Carriers)
  BY InIs
<1> QED
  BY <1>2, <1>3, Zenon DEF Joined, Split, Promises

\* The queue is that of the three places frames are in.
LEMMA QueueIs ==
    ASSUME TypeOK
    PROVE  /\ Queue = Promises(hand, toBeWritten, pendingWrites)
           /\ In(hand, Carriers) \in Seq(Msgs) /\ In(toBeWritten, Carriers) \in Seq(Msgs)
           /\ In(pendingWrites, Carriers) \in Seq(Msgs) /\ Queue \in Seq(Msgs)
<1>1. hand \in Seq(Frame) /\ toBeWritten \in Seq(Frame) /\ pendingWrites \in Seq(Frame)
  BY DEF TypeOK, TypeQueues
<1>2. Split(hand, toBeWritten, pendingWrites)
  BY <1>1, SplitQueue
<1>3. /\ In(hand, Carriers) \in Seq(Msgs) /\ In(toBeWritten, Carriers) \in Seq(Msgs)
      /\ In(pendingWrites, Carriers) \in Seq(Msgs)
  BY <1>1, InFacts
<1>4. Queue = Promises(hand, toBeWritten, pendingWrites)
  BY <1>2 DEF Queue, Split
<1>5. Promises(hand, toBeWritten, pendingWrites) \in Seq(Msgs)
  BY <1>3, SeqOps DEF Promises
<1> QED
  BY <1>3, <1>4, <1>5

\* It is so after a step.
LEMMA QueueIsNext ==
    ASSUME TypeOK'
    PROVE  Queue' = Promises(hand', toBeWritten', pendingWrites')
<1>1. hand' \in Seq(Frame) /\ toBeWritten' \in Seq(Frame) /\ pendingWrites' \in Seq(Frame)
  BY DEF TypeOK, TypeQueues
<1>2. Split(hand', toBeWritten', pendingWrites')
  BY <1>1, SplitQueue
<1> QED
  BY <1>2 DEF Queue, Split

\* A message whose promise no frame of s carries.
LEMMA NotIn ==
    ASSUME NEW s \in Seq(Frame), NEW m \in Msgs, ~Has(s, Carry(m))
    PROVE  ~Has(In(s, Carriers), {m})
<1>1. {g \in Carriers : g.msg = m} = Carry(m)
  BY DEF Carriers, Carry
<1>2. Has(In(s, Carriers), {m}) => Has(s, {g \in Carriers : g.msg = m})
  BY InFacts
<1> QED
  BY <1>1, <1>2

\* A message whose promise is in none of them is not in the queue.
LEMMA NotQueued ==
    ASSUME TypeOK, NEW m \in Msgs, ~Has(hand, Carry(m)), ~Has(toBeWritten, Carry(m)),
           ~Has(pendingWrites, Carry(m))
    PROVE  ~Has(Queue, {m}) /\ Free(Queue, m)
<1>1. hand \in Seq(Frame) /\ toBeWritten \in Seq(Frame) /\ pendingWrites \in Seq(Frame)
  BY DEF TypeOK, TypeQueues
<1>3. /\ ~Has(In(hand, Carriers), {m}) /\ ~Has(In(toBeWritten, Carriers), {m})
      /\ ~Has(In(pendingWrites, Carriers), {m})
  BY <1>1, NotIn
<1>4. In(hand, Carriers) \o In(toBeWritten, Carriers) \in Seq(Msgs)
  BY QueueIs, SeqOps
<1>5. ~Has(In(hand, Carriers) \o In(toBeWritten, Carriers), {m})
  BY <1>3, QueueIs, HasConcat
<1>6. ~Has(Promises(hand, toBeWritten, pendingWrites), {m})
  <2>1. ASSUME NEW a \in Seq(Msgs), NEW b \in Seq(Msgs), ~Has(a, {m}), ~Has(b, {m})
        PROVE  ~Has(a \o b, {m})
    BY <2>1, HasConcat
  <2>2. ~Has((In(hand, Carriers) \o In(toBeWritten, Carriers)) \o In(pendingWrites, Carriers), {m})
    BY <1>3, <1>4, <1>5, <2>1, QueueIs
  <2> QED
    BY <2>2 DEF Promises
<1>7. ~Has(Queue, {m}) /\ Queue \in Seq(Msgs)
  BY <1>6, QueueIs
<1> QED
  BY <1>7, LeavesQueue

\* Connection's Settle, in the client's variables.
LEMMA SettleIs ==
    ASSUME NEW S, NEW res, Queue' = Kept(Queue, Msgs \ S),
           promise' = [m \in Msgs |-> IF m \in S THEN res ELSE promise[m]]
    PROVE  Conn!Settle(S, res)
BY DEF Conn!Settle, Queue, Conn!Kept, Kept, Conn!KeptTo, KeptTo

\* what the user and the peer see
sharedVars == <<connectResult, submitted, wire, lwsCloseStatus, notified>>
framesVars == <<hand, toBeWritten, pendingWrites>>

\* A step nobody sees.
LEMMA Unseen ==
    ASSUME UNCHANGED <<sharedVars, promise>>, Queue' = Queue, Ended' = Ended
    PROVE  UNCHANGED Conn!cvars
BY DEF Conn!cvars, sharedVars, Queue, Ended

\* The frames stay where they are.
LEMMA SameQueue == ASSUME UNCHANGED framesVars PROVE Queue' = Queue
BY DEF Queue, framesVars

\* A step that only may end the transport, and move a frame.
LEMMA MayEnd ==
    ASSUME UNCHANGED <<sharedVars, promise>>, Queue' = Queue, Ended => Ended'
    PROVE  [Conn!Next]_(Conn!cvars)
<1>1. Queue' = Queue
  OBVIOUS
<1>2. CASE Ended' = Ended
  BY <1>1, <1>2, Unseen
<1>3. CASE Ended' # Ended
  <2>1. ~Ended /\ Ended'
    BY <1>3 DEF Ended
  <2>2. Conn!End
    BY <1>1, <2>1 DEF Conn!End, Ended, Queue, sharedVars
  <2> QED
    BY <2>2 DEF Conn!Next
<1> QED
  BY <1>2, <1>3

\* A step that leaves the frames too.
LEMMA OnlyEnds ==
    ASSUME UNCHANGED <<sharedVars, promise, framesVars>>, Ended => Ended'
    PROVE  [Conn!Next]_(Conn!cvars)
BY MayEnd, SameQueue

\* send() refuses only when the connection is over.
LEMMA RefusedOver ==
    ASSUME TypeOK, OpenInv, wasConnected, Refused
    PROVE  Ended \/ lwsCloseStatus # Nil
BY DEF OpenInv, Refused, isClosed, isClosedForever, Ended, Live, LRS, TypeOK, TypeStates

\* A send() that is in no queue fails because the connection is over.
LEMMA FailsAlone ==
    ASSUME ClientInv, NEW m \in Promised, promise[m] = "pending", Ended \/ lwsCloseStatus # Nil,
           ~Has(hand, Carry(m)), ~Has(toBeWritten, Carry(m)), ~Has(pendingWrites, Carry(m)),
           promise' = [promise EXCEPT ![m] = "failed"],
           UNCHANGED <<sharedVars, framesVars, unusable, lrs>>
    PROVE  Conn!Fail
<1>1. m \in Msgs /\ promise \in [Msgs -> {"none", "pending", "ok", "failed"}]
  BY DEF Promised, ClientInv, TypeOK, TypeStates
<1>2. Queue' = Kept(Queue, Msgs \ {m})
  BY <1>1, NotQueued, SameQueue DEF Free, ClientInv
<1>3. promise' = [n \in Msgs |-> IF n \in {m} THEN "failed" ELSE promise[n]]
  BY <1>1
<1>4. Conn!Settle({m}, "failed")
  BY ONLY <1>2, <1>3, SettleIs, Zenon
<1>5. {m} \in SUBSET Conn!Pending
  BY <1>1 DEF Conn!Pending
<1> QED
  BY <1>4, <1>5 DEF Conn!Fail, Conn!Over, Ended, sharedVars

\* The owner calls send() or close(), off the loop or on it.
LEMMA RefinesCall ==
    ASSUME ClientInv, NEW m \in Msgs, Send(m) \/ Close(m) \/ LoopSend(m) \/ LoopClose(m)
    PROVE  Conn!Next
<1>1. /\ connectResult = "ok" /\ m \in Msgs \ submitted /\ submitted' = submitted \cup {m}
      /\ UNCHANGED <<connectResult, wire, lwsCloseStatus, notified, framesVars, unusable, lrs>>
  BY DEF Send, Close, LoopSend, LoopClose, MayCall, Promised, framesVars, clientVars, wsiVars
<1>2. wasConnected
  BY <1>1 DEF ClientInv, OpenInv
<1>3. \/ m \in CloseMsgs /\ UNCHANGED promise
      \/ m \notin CloseMsgs /\ promise' = [promise EXCEPT ![m] = "pending"]
      \/ /\ m \notin CloseMsgs /\ (Ended \/ lwsCloseStatus # Nil)
         /\ promise' = [promise EXCEPT ![m] = "failed"]
  BY <1>2, RefusedOver DEF Send, Close, LoopSend, LoopClose, Promised, ClientInv
<1>4. Conn!Call(m)
  BY <1>1, <1>3, SameQueue DEF Conn!Call, Conn!Over, Queue, Ended
<1> QED
  BY <1>4 DEF Conn!Next

\* send() on the loop: refused, it fails at once.
LEMMA RefinesRunSend ==
    ASSUME ClientInv, RunSend
    PROVE  [Conn!Next]_(Conn!cvars)
<1> DEFINE m == Head(loop).arg
<1>1. /\ loop # <<>> /\ Head(loop).t = "send"
      /\ UNCHANGED <<sharedVars, framesVars, unusable, lrs>>
      /\ \/ UNCHANGED promise
         \/ Refused /\ m \in Promised /\ promise' = [promise EXCEPT ![m] = "failed"]
  BY DEF RunSend, sharedVars, framesVars, clientVars, wsiVars
<1>2. CASE UNCHANGED promise
  BY <1>1, <1>2, OnlyEnds DEF Ended
<1>3. CASE Refused /\ m \in Promised /\ promise' = [promise EXCEPT ![m] = "failed"]
  <2>1. Head(loop) \in Known(submitted, wasConnected) /\ Head(loop) \in Tasks
    BY <1>1, KnownLoop DEF ClientInv, Known
  <2>2. wasConnected
    BY <1>1, <2>1 DEF Known
  <2>3. Head(loop) = Task("send", m)
    BY <1>1, <2>1 DEF Task, Tasks
  <2>4. Has(loop, Sending(m))
    <3>1. loop \in Seq(Tasks)
      BY DEF ClientInv, TypeOK, TypeQueues
    <3> QED
      BY <1>1, <2>3, <3>1, HasTail DEF Sending
  <2>5. /\ promise[m] = "pending"
        /\ ~Has(hand, Carry(m)) /\ ~Has(toBeWritten, Carry(m)) /\ ~Has(pendingWrites, Carry(m))
    BY <1>3, <2>4 DEF ClientInv, HeldInv, HeldOnce, Held
  <2>6. Ended \/ lwsCloseStatus # Nil
    BY <1>3, <2>2, RefusedOver DEF ClientInv
  <2> HIDE DEF m
  <2>7. Conn!Fail
    BY <1>1, <1>3, <2>5, <2>6, FailsAlone
  <2> QED
    BY <2>7 DEF Conn!Next
<1> QED
  BY <1>1, <1>2, <1>3

\* send() appends its frames, or finds the pointer gone.
LEMMA RefinesEnqueue ==
    ASSUME ClientInv, ClientInv', SendEnqueue
    PROVE  [Conn!Next]_(Conn!cvars)
<1> DEFINE m == cur.msg
<1>1. /\ cur.pc = "enqueue" /\ UNCHANGED <<sharedVars, unusable, lrs, hand, pendingWrites>>
      /\ \/ UNCHANGED <<promise, toBeWritten>>
         \/ /\ ~websocket /\ m \in Promised /\ promise' = [promise EXCEPT ![m] = "failed"]
            /\ UNCHANGED toBeWritten
         \/ toBeWritten' = toBeWritten \o FramesOf(m) /\ UNCHANGED promise
  BY DEF SendEnqueue, sharedVars, wsiVars
<1>2. m \in Msgs /\ cur = At("enqueue", m)
  BY <1>1, CurArgs DEF ClientInv, TypeOK, TypeStates, CurStates, Idle, At
<1>3. wasConnected /\ pendingWrites = <<>> /\ lwsCloseStatus = Nil
  BY <1>1 DEF ClientInv, KnownInv, HeldInv, Resolving, ClosedQueueEmpty
<1>4. ASSUME m \in Promised
      PROVE  /\ promise[m] = "pending"
             /\ ~Has(hand, Carry(m)) /\ ~Has(toBeWritten, Carry(m)) /\ ~Has(pendingWrites, Carry(m))
  BY <1>2, <1>4 DEF ClientInv, HeldInv, HeldOnce, Held
<1> HIDE DEF m
<1>5. CASE UNCHANGED <<promise, toBeWritten>>
  BY <1>1, <1>5, OnlyEnds DEF Ended, framesVars
<1>6. CASE /\ ~websocket /\ m \in Promised /\ promise' = [promise EXCEPT ![m] = "failed"]
           /\ UNCHANGED toBeWritten
  <2>1. Ended
    BY <1>3, <1>6 DEF ClientInv, OpenInv, Ended, Live, LRS, TypeOK, TypeStates
  <2>2. Conn!Fail
    BY <1>1, <1>4, <1>6, <2>1, FailsAlone DEF framesVars
  <2> QED
    BY <2>2 DEF Conn!Next
<1>7. CASE toBeWritten' = toBeWritten \o FramesOf(m) /\ UNCHANGED promise
  <2>1. toBeWritten \in Seq(Frame) /\ FramesOf(m) \in Seq(Frame) /\ TypeOK /\ TypeOK'
    BY <1>2, FramesOfType DEF ClientInv, TypeOK, TypeQueues
  <2>2. Queue' = Promises(hand', toBeWritten', pendingWrites')
    BY <2>1, QueueIsNext
  <2>3. Joined(toBeWritten, FramesOf(m), Carriers) /\ In(<<>>, Carriers) = <<>>
    BY <2>1, InFacts
  <2>4. In(toBeWritten', Carriers) = In(toBeWritten, Carriers) \o In(FramesOf(m), Carriers)
    BY <1>7, <2>3 DEF Joined
  <2>5. /\ Queue = (In(hand, Carriers) \o In(toBeWritten, Carriers)) \o <<>>
        /\ Queue' = (In(hand, Carriers) \o
                       (In(toBeWritten, Carriers) \o In(FramesOf(m), Carriers))) \o <<>>
    BY <1>1, <1>3, <2>1, <2>2, <2>3, <2>4, QueueIs DEF Promises
  <2>6. In(FramesOf(m), Carriers) = IF m \in Promised THEN <<m>> ELSE <<>>
    BY <1>2, PromisedFrames
  <2>7. ASSUME NEW a \in Seq(Msgs), NEW b \in Seq(Msgs)
        PROVE  /\ (a \o (b \o <<m>>)) \o <<>> = Append((a \o b) \o <<>>, m)
               /\ (a \o (b \o <<>>)) \o <<>> = (a \o b) \o <<>>
    BY <1>2
  <2>8. In(hand, Carriers) \in Seq(Msgs) /\ In(toBeWritten, Carriers) \in Seq(Msgs)
    BY <2>1, QueueIs
  <2>9. CASE m \in Promised
    <3>1. Queue' = Append(Queue, m)
      BY <2>5, <2>6, <2>7, <2>8, <2>9
    <3>2. ~Has(Queue, {m}) /\ Queue \in Seq(Msgs)
      BY <1>2, <1>4, <2>1, <2>9, NotQueued, QueueIs
    <3>3. ~Conn!Contains(Queue, m)
      BY <3>2 DEF Has, Conn!Contains
    <3>4. Conn!Accept(m)
      BY <1>1, <1>3, <1>4, <1>7, <2>9, <3>1, <3>3 DEF Conn!Accept, Queue, sharedVars
    <3> QED
      BY <1>2, <3>4 DEF Conn!Next
  <2>10. CASE m \notin Promised
    <3>1. Queue' = Queue
      BY <2>5, <2>6, <2>7, <2>8, <2>10
    <3> QED
      BY <1>1, <1>7, <3>1, Unseen DEF Ended
  <2> QED
    BY <2>9, <2>10
<1> QED
  BY <1>1, <1>5, <1>6, <1>7

\* markAsClosed sets the status and takes the queue.
LEMMA RefinesMark ==
    ASSUME ClientInv, ClientInv', RunMarkAsClosed
    PROVE  [Conn!Next]_(Conn!cvars)
<1> DEFINE s == Head(loop).arg
<1>1. /\ loop # <<>> /\ Head(loop).t = "markAsClosed" /\ cur = Idle
      /\ UNCHANGED <<connectResult, submitted, wire, notified, promise, unusable, lrs, hand>>
      /\ \/ UNCHANGED <<lwsCloseStatus, toBeWritten, pendingWrites>>
         \/ /\ lwsCloseStatus = Nil /\ lwsCloseStatus' = s
            /\ pendingWrites' = toBeWritten /\ toBeWritten' = <<>>
  BY DEF RunMarkAsClosed, TakeWrites, isClosedForever, wsiVars, seenVars
<1>2. CASE UNCHANGED <<lwsCloseStatus, toBeWritten, pendingWrites>>
  BY <1>1, <1>2, OnlyEnds DEF sharedVars, framesVars, Ended
<1>3. CASE /\ lwsCloseStatus = Nil /\ lwsCloseStatus' = s
           /\ pendingWrites' = toBeWritten /\ toBeWritten' = <<>>
  <2>1. Head(loop) \in Known(submitted, wasConnected)
    BY <1>1, KnownLoop DEF ClientInv
  <2>2. s \in Statuses /\ s \in submitted \cup {noStatus, peerStatus}
    BY <1>1, <2>1, TaskArgs DEF Known
  <2>3. s \in CloseMsgs => s \in submitted
    BY <2>2, StatusAssumption
  <2>4. pendingWrites = <<>> /\ TypeOK /\ TypeOK'
    BY <1>1 DEF ClientInv, HeldInv, Resolving, Idle
  <2>5. Queue = Promises(hand, toBeWritten, <<>>) /\ Queue' = Promises(hand, <<>>, toBeWritten)
    BY <1>1, <1>3, <2>4, QueueIs, QueueIsNext
  <2>6. /\ In(hand, Carriers) \in Seq(Msgs) /\ In(toBeWritten, Carriers) \in Seq(Msgs)
        /\ In(<<>>, Carriers) = <<>> /\ Queue \in Seq(Msgs)
    <3>1. hand \in Seq(Frame)
      BY <2>4 DEF TypeOK, TypeQueues
    <3> QED
      BY <2>4, <3>1, QueueIs, InFacts
  <2>7. ASSUME NEW a \in Seq(Msgs), NEW b \in Seq(Msgs) PROVE (a \o <<>>) \o b = (a \o b) \o <<>>
    OBVIOUS
  <2>8. Queue' = Queue
    BY <2>5, <2>6, <2>7 DEF Promises
  <2>9. Kept(Queue, Msgs \ {}) = Queue
    <3>1. \A i \in DOMAIN Queue : Queue[i] \in Msgs \ {}
      BY <2>6
    <3> QED
      BY <2>6, <3>1, KeptAll
  <2>10. promise' = [m \in Msgs |-> IF m \in {} THEN "failed" ELSE promise[m]]
    BY <1>1, <2>4 DEF TypeOK, TypeStates
  <2>11. Conn!Settle({}, "failed")
    BY <2>8, <2>9, <2>10, SettleIs
  <2> HIDE DEF s
  <2>12. Conn!Close
    BY <1>1, <1>3, <2>2, <2>3, <2>11 DEF Conn!Close
  <2> QED
    BY <2>12 DEF Conn!Next
<1> QED
  BY <1>1, <1>2, <1>3

\* The promise of the first frame, then those of the rest.
LEMMA PromisesOfHead ==
    ASSUME NEW s \in Seq(Frame), s # <<>>
    PROVE  /\ In(s, Carriers) = In(<<Head(s)>>, Carriers) \o In(Tail(s), Carriers)
           /\ In(<<Head(s)>>, Carriers) = IF Head(s).promise THEN <<Head(s).msg>> ELSE <<>>
           /\ In(Tail(s), Carriers) \in Seq(Msgs) /\ Head(s).msg \in Msgs
<1>1. /\ Head(s) \in Frame /\ Tail(s) \in Seq(Frame) /\ <<Head(s)>> \in Seq(Frame)
      /\ <<Head(s)>> \o Tail(s) = s
  OBVIOUS
<1>2. PICK h \in Frame, t \in Seq(Frame) : h = Head(s) /\ t = Tail(s)
  BY <1>1
<1>3. Joined(<<h>>, t, Carriers) /\ In(t, Carriers) \in Seq(Msgs)
  BY <1>1, <1>2, InFacts
<1>4. In(<<h>>, Carriers) = IF h \in Carriers THEN <<h.msg>> ELSE <<>>
  BY <1>1, InFacts
<1>5. h.msg \in Msgs /\ (h \in Carriers <=> h.promise)
  BY <1>2 DEF Carriers, Frame
<1>6. In(<<h>> \o t, Carriers) = In(<<h>>, Carriers) \o In(t, Carriers)
  BY <1>3 DEF Joined
<1> QED
  BY <1>1, <1>2, <1>3, <1>4, <1>5, <1>6, Zenon

\* Three parts of the queue with the first one, or the second one, put to the others.
LEMMA Regroup ==
    ASSUME NEW X, NEW a \in Seq(X), NEW b \in Seq(X), NEW c \in Seq(X)
    PROVE  /\ (a \o b) \o c \in Seq(X)
           /\ (<<>> \o (a \o b)) \o c = (a \o b) \o c
           /\ (a \o <<>>) \o (b \o c) = (a \o b) \o c
           /\ (<<>> \o a) \o b = (<<>> \o <<>>) \o (a \o b)
           /\ (a \o <<>>) \o b = a \o b
<1>1. (<<>> \o (a \o b)) \o c = (a \o b) \o c
  OBVIOUS
<1>2. (a \o <<>>) \o (b \o c) = (a \o b) \o c
  OBVIOUS
<1>3. (<<>> \o a) \o b = (<<>> \o <<>>) \o (a \o b)
  OBVIOUS
<1> QED
  BY <1>1, <1>2, <1>3

\* A WRITEABLE callback takes the first frame of the queue in hand.
LEMMA RefinesPop ==
    ASSUME ClientInv, ClientInv', WriteablePop
    PROVE  [Conn!Next]_(Conn!cvars)
<1>1. /\ UNCHANGED <<sharedVars, promise, unusable, lrs, pendingWrites>>
      /\ hand = <<>> /\ toBeWritten # <<>>
      /\ hand' = <<Head(toBeWritten)>> /\ toBeWritten' = Tail(toBeWritten)
  BY DEF WriteablePop, CallsWriteable, NoFrame, sharedVars, loopVars, seenVars
<1>2. TypeOK /\ TypeOK' /\ toBeWritten \in Seq(Frame)
  BY DEF ClientInv, TypeOK, TypeQueues
<1>3. /\ In(toBeWritten, Carriers) =
           In(<<Head(toBeWritten)>>, Carriers) \o In(Tail(toBeWritten), Carriers)
      /\ In(<<>>, Carriers) = <<>>
  BY <1>1, <1>2, PromisesOfHead, InFacts
<1>4. PICK h, t, p : /\ h = In(<<Head(toBeWritten)>>, Carriers)
                     /\ t = In(Tail(toBeWritten), Carriers)
                     /\ p = In(pendingWrites, Carriers)
  OBVIOUS
<1>5. h \in Seq(Msgs) /\ t \in Seq(Msgs) /\ p \in Seq(Msgs)
  <2>1. <<Head(toBeWritten)>> \in Seq(Frame) /\ Tail(toBeWritten) \in Seq(Frame)
    BY <1>1, <1>2
  <2> QED
    BY <1>2, <1>4, <2>1, QueueIs, InFacts
<1>6. Queue = (<<>> \o (h \o t)) \o p /\ Queue' = (h \o t) \o p
  BY <1>1, <1>2, <1>3, <1>4, QueueIs, QueueIsNext DEF Promises
<1>7. Queue' = Queue
  BY <1>5, <1>6, Regroup
<1> QED
  BY <1>1, <1>7, MayEnd DEF Ended

\* markAsClosed fails the promise of the next frame it took.
LEMMA RefinesResolve ==
    ASSUME ClientInv, ClientInv', ResolvePending
    PROVE  [Conn!Next]_(Conn!cvars)
<1> DEFINE f == Head(pendingWrites)
<1>1. /\ UNCHANGED <<sharedVars, unusable, lrs, hand, toBeWritten>>
      /\ cur.pc = "resolve" /\ pendingWrites # <<>> /\ pendingWrites' = Tail(pendingWrites)
      /\ promise' = IF f.promise THEN [promise EXCEPT ![f.msg] = "failed"] ELSE promise
  BY DEF ResolvePending, sharedVars, clientVars, wsiVars
<1>2. /\ TypeOK /\ TypeOK' /\ pendingWrites \in Seq(Frame) /\ hand \in Seq(Frame)
      /\ promise \in [Msgs -> {"none", "pending", "ok", "failed"}]
      /\ pendingWrites \in Seq(Sound(submitted))
  BY DEF ClientInv, TypeOK, TypeQueues, TypeStates, KnownInv
<1>3. lwsCloseStatus # Nil /\ toBeWritten = <<>>
  BY <1>1 DEF ClientInv, NotifyInv, Resolving, ClosedQueueEmpty
<1>4. PICK a, b : a = In(hand, Carriers) /\ b = In(Tail(pendingWrites), Carriers)
  OBVIOUS
<1>5. a \in Seq(Msgs) /\ b \in Seq(Msgs) /\ f.msg \in Msgs /\ f \in Frame
  <2>1. f \in Frame
    BY <1>1, <1>2
  <2>2. b \in Seq(Msgs) /\ f.msg \in Msgs
    BY <1>1, <1>2, <1>4, PromisesOfHead
  <2>3. a \in Seq(Msgs)
    BY <1>2, <1>4, InFacts
  <2> QED
    BY <2>1, <2>2, <2>3
<1>6. /\ In(pendingWrites, Carriers) = (IF f.promise THEN <<f.msg>> ELSE <<>>) \o b
      /\ In(<<>>, Carriers) = <<>>
  BY <1>1, <1>2, <1>4, PromisesOfHead, InFacts
<1>7. /\ Queue = (a \o <<>>) \o ((IF f.promise THEN <<f.msg>> ELSE <<>>) \o b)
      /\ Queue' = (a \o <<>>) \o b
  BY <1>1, <1>2, <1>3, <1>4, <1>6, QueueIs, QueueIsNext DEF Promises
<1>8. CASE f.promise
  <2>1. f \in Sound(submitted)
    BY <1>1, <1>2
  <2>2. f.msg \in Promised /\ f \in Carry(f.msg)
    BY <1>5, <1>8, <2>1 DEF Sound, Carry
  <2>3. Has(pendingWrites, Carry(f.msg)) /\ ~Has(Tail(pendingWrites), Carry(f.msg))
        /\ ~Has(hand, Carry(f.msg)) /\ promise[f.msg] = "pending"
    <3>1. Has(pendingWrites, Carry(f.msg))
      BY <1>1, <1>2, <2>2, HasTail
    <3>2. ~Has(hand, Carry(f.msg)) /\ promise[f.msg] = "pending" /\ Once(pendingWrites, Carry(f.msg))
      BY <2>2, <3>1 DEF ClientInv, HeldInv, HeldOnce, Held
    <3> QED
      BY <1>1, <1>2, <2>2, <3>1, <3>2, HasTail
  <2>4. Tail(pendingWrites) \in Seq(Frame)
    BY <1>1, <1>2
  <2>5. ~Has(a, {f.msg}) /\ ~Has(b, {f.msg})
    BY <1>2, <1>4, <1>5, <2>3, <2>4, NotIn
  <2> HIDE DEF f
  <2>6. Without(a, f.msg, b)
    BY <1>5, <2>5, LeavesQueue
  <2>7. PICK m \in Msgs : m = f.msg
    BY <1>5
  <2>8. (a \o <<>>) \o (<<m>> \o b) = (a \o <<m>>) \o b /\ (a \o <<>>) \o b = a \o b
    <3>1. <<m>> \in Seq(Msgs)
      OBVIOUS
    <3> QED
      BY <1>5, <3>1, Regroup
  <2>9. Queue' = Kept(Queue, Msgs \ {m})
    BY <1>7, <1>8, <2>6, <2>7, <2>8 DEF Without
  <2>10. promise' = [n \in Msgs |-> IF n \in {m} THEN "failed" ELSE promise[n]]
    BY <1>1, <1>2, <1>8, <2>7
  <2>11. Conn!Settle({m}, "failed")
    BY <2>9, <2>10, SettleIs
  <2>12. {m} \in SUBSET Conn!Pending
    BY <2>3, <2>7 DEF Conn!Pending
  <2>13. Conn!Fail
    BY <1>1, <1>3, <2>11, <2>12 DEF Conn!Fail, Conn!Over, Ended, sharedVars
  <2> QED
    BY <2>13 DEF Conn!Next
<1>9. CASE ~f.promise
  <2>1. ASSUME NEW x \in Seq(Msgs), NEW y \in Seq(Msgs) PROVE (x \o <<>>) \o (<<>> \o y) = (x \o <<>>) \o y
    OBVIOUS
  <2> HIDE DEF f
  <2>2. Queue' = Queue
    BY <1>5, <1>7, <1>9, <2>1
  <2> QED
    BY <1>1, <1>9, <2>2, MayEnd DEF Ended
<1> QED
  BY <1>8, <1>9

\* The frame in hand leaves it: its promise, if it has one, was the first of the queue.
LEMMA HandOut ==
    ASSUME ClientInv, ClientInv', hand # NoFrame, hand' = NoFrame,
           UNCHANGED <<toBeWritten, pendingWrites>>, NEW f, f = hand[1]
    PROVE  /\ f \in Frame /\ f \in Sound(submitted) /\ DOMAIN hand = {1}
           /\ f.promise => /\ f.msg \in Promised /\ promise[f.msg] = "pending"
                           /\ Queue # <<>> /\ Head(Queue) = f.msg
                           /\ Queue' = Kept(Queue, Msgs \ {f.msg})
           /\ ~f.promise => Queue' = Queue
<1>1. /\ TypeOK /\ TypeOK' /\ hand \in Seq(Frame) /\ Len(hand) <= 1 /\ hand # <<>>
      /\ hand \in Seq(Sound(submitted)) /\ hand' = <<>>
      /\ toBeWritten \in Seq(Frame) /\ pendingWrites \in Seq(Frame)
  BY DEF ClientInv, TypeOK, TypeQueues, KnownInv, NoFrame
<1>2. f \in Frame /\ f \in Sound(submitted) /\ DOMAIN hand = {1}
  BY <1>1, OneElement
<1>3. hand = <<f>>
  BY <1>1, <1>2
<1>4. PICK b, c : b = In(toBeWritten, Carriers) /\ c = In(pendingWrites, Carriers)
  OBVIOUS
<1>5. b \in Seq(Msgs) /\ c \in Seq(Msgs) /\ f.msg \in Msgs
  BY <1>1, <1>2, <1>4, QueueIs DEF Frame
<1>6. In(hand, Carriers) = (IF f.promise THEN <<f.msg>> ELSE <<>>) /\ In(<<>>, Carriers) = <<>>
  <2>1. f \in Carriers <=> f.promise
    BY <1>2 DEF Carriers
  <2>2. In(<<f>>, Carriers) = (IF f \in Carriers THEN <<f.msg>> ELSE <<>>)
    BY <1>1, <1>2, InFacts
  <2>3. In(<<>>, Carriers) = <<>>
    BY <1>1, InFacts
  <2> QED
    BY <1>3, <2>1, <2>2, <2>3
<1>7. Queue = ((IF f.promise THEN <<f.msg>> ELSE <<>>) \o b) \o c /\ Queue' = (<<>> \o b) \o c
  BY <1>1, <1>4, <1>6, QueueIs, QueueIsNext DEF Promises
<1>8. CASE f.promise
  <2>1. f.msg \in Promised /\ f \in Carry(f.msg)
    BY <1>2, <1>8 DEF Sound, Carry
  <2>2. Has(hand, Carry(f.msg))
    BY <1>3, <2>1, HasOne
  <2>3. /\ promise[f.msg] = "pending"
        /\ ~Has(toBeWritten, Carry(f.msg)) /\ ~Has(pendingWrites, Carry(f.msg))
    BY <2>1, <2>2 DEF ClientInv, HeldInv, HeldOnce, Held
  <2>4. ~Has(b, {f.msg}) /\ ~Has(c, {f.msg})
    BY <1>1, <1>4, <1>5, <2>3, NotIn
  <2>5. PICK m \in Msgs : m = f.msg
    BY <1>5
  <2>6. PICK r \in Seq(Msgs) : r = b \o c /\ ~Has(r, {m})
    BY <1>5, <2>4, <2>5, HasConcat, SeqOps
  <2>7. Without(<<>>, m, r)
    <3>1. <<>> \in Seq(Msgs) /\ ~Has(<<>>, {m})
      BY HasEmpty
    <3> QED
      BY <2>6, <3>1, LeavesQueue
  <2>8. (<<m>> \o b) \o c = (<<>> \o <<m>>) \o r /\ (<<>> \o b) \o c = <<>> \o r
    <3>1. (<<m>> \o b) \o c = (<<>> \o <<m>>) \o (b \o c)
      BY <1>5
    <3>2. (<<>> \o b) \o c = <<>> \o (b \o c)
      BY <1>5
    <3> QED
      BY <2>6, <3>1, <3>2
  <2>9. Queue' = Kept(Queue, Msgs \ {m})
    BY <1>7, <1>8, <2>5, <2>7, <2>8 DEF Without
  <2>10. Queue # <<>> /\ Head(Queue) = m
    <3>1. ASSUME NEW x \in Seq(Msgs), NEW y \in Seq(Msgs)
          PROVE  (<<m>> \o x) \o y # <<>> /\ Head((<<m>> \o x) \o y) = m
      OBVIOUS
    <3> QED
      BY <1>5, <1>7, <1>8, <2>5, <3>1
  <2> QED
    BY <1>2, <1>8, <2>1, <2>3, <2>5, <2>9, <2>10
<1>9. CASE ~f.promise
  <2>1. Queue' = Queue
    BY <1>7, <1>9
  <2> QED
    BY <1>2, <1>9, <2>1
<1> QED
  BY <1>8, <1>9

\* Its promise is resolved, nobody else's.
LEMMA HandResolved ==
    ASSUME ClientInv, DOMAIN hand = {1}, NEW f, f = hand[1], NEW res
    PROVE  /\ f.promise => Resolve(hand, res) = [m \in Msgs |-> IF m \in {f.msg} THEN res
                                                                ELSE promise[m]]
           /\ ~f.promise => Resolve(hand, res) = promise
BY DEF Resolve, ClientInv, TypeOK, TypeStates

\* The frame is written, or its write fails.
LEMMA RefinesWrite ==
    ASSUME ClientInv, ClientInv', WriteData \/ WritePing
    PROVE  [Conn!Next]_(Conn!cvars)
<1> DEFINE f == hand[1]
<1>1. /\ hand # NoFrame /\ hand' = NoFrame /\ UNCHANGED <<toBeWritten, pendingWrites>>
      /\ f.op # "close"
      /\ UNCHANGED <<connectResult, submitted, lwsCloseStatus, notified>>
      /\ \/ /\ wire' = Append(wire, f) /\ UNCHANGED <<unusable, lrs>>
            /\ promise' = Resolve(hand, "ok")
         \/ /\ unusable' = TRUE /\ UNCHANGED wire
            /\ \E res \in {"ok", "failed"} : promise' = Resolve(hand, res)
  BY DEF WriteData, WritePing, clientVars, loopVars
<1> HIDE DEF f
<1>2. /\ f \in Frame /\ f \in Sound(submitted) /\ DOMAIN hand = {1}
      /\ f.promise => /\ f.msg \in Promised /\ promise[f.msg] = "pending"
                      /\ Queue # <<>> /\ Head(Queue) = f.msg
                      /\ Queue' = Kept(Queue, Msgs \ {f.msg})
      /\ ~f.promise => Queue' = Queue
  BY <1>1, HandOut DEF f
<1>3. f.promise = f.fin /\ ~Ended /\ wire \in Seq(Frame)
  BY <1>1, <1>2 DEF Sound, ClientInv, OpenInv, Ended, TypeOK, TypeQueues
<1>4. ASSUME NEW res
      PROVE  /\ f.promise => Resolve(hand, res) = [m \in Msgs |-> IF m \in {f.msg} THEN res
                                                                  ELSE promise[m]]
             /\ ~f.promise => Resolve(hand, res) = promise
  BY <1>2, HandResolved DEF f
<1>5. CASE /\ wire' = Append(wire, f) /\ UNCHANGED <<unusable, lrs>>
           /\ promise' = Resolve(hand, "ok")
  <2>1. WholeIn(wire') = IF f.promise THEN Append(WholeIn(wire), f.msg) ELSE WholeIn(wire)
    BY <1>2, <1>3, <1>5, WholeAppend
  <2>2. CASE f.promise
    <3>1. Conn!Settle({f.msg}, "ok")
      BY <1>2, <1>4, <1>5, <2>2, SettleIs
    <3>2. Conn!Deliver
      BY <1>1, <1>2, <1>3, <1>5, <2>1, <2>2, <3>1 DEF Conn!Deliver, Queue, Ended
    <3> QED
      BY <3>2 DEF Conn!Next
  <2>3. CASE ~f.promise
    BY <1>1, <1>2, <1>4, <1>5, <2>1, <2>3 DEF Conn!cvars, Queue
  <2> QED
    BY <2>2, <2>3
<1>6. CASE /\ unusable' = TRUE /\ UNCHANGED wire
           /\ \E res \in {"ok", "failed"} : promise' = Resolve(hand, res)
  <2>1. PICK res \in {"ok", "failed"} : promise' = Resolve(hand, res)
    BY <1>6
  <2>2. CASE f.promise
    <3>1. Conn!Settle({f.msg}, res)
      BY <1>2, <1>4, <2>1, <2>2, SettleIs
    <3>2. Conn!End
      BY <1>1, <1>2, <1>3, <1>6, <2>2, <3>1 DEF Conn!End, Queue, Ended
    <3> QED
      BY <3>2 DEF Conn!Next
  <2>3. CASE ~f.promise
    <3>1. Queue' = Queue /\ UNCHANGED promise
      BY <1>2, <1>4, <2>1, <2>3
    <3> QED
      BY <1>1, <1>3, <1>6, <3>1, MayEnd DEF Ended, sharedVars
  <2> QED
    BY <2>2, <2>3
<1> QED
  BY <1>1, <1>5, <1>6

\* A close frame in hand starts the closing handshake; it has no promise.
LEMMA RefinesWriteClose ==
    ASSUME ClientInv, ClientInv', WriteClose
    PROVE  [Conn!Next]_(Conn!cvars)
<1> DEFINE f == hand[1]
<1>1. /\ hand # NoFrame /\ hand' = NoFrame /\ UNCHANGED <<toBeWritten, pendingWrites>>
      /\ f.op = "close" /\ UNCHANGED <<sharedVars, promise, unusable>>
      /\ CloseFreeWsi(f.msg, FALSE, f.msg)
  BY DEF WriteClose, sharedVars, seenVars
<1> HIDE DEF f
<1>2. /\ f \in Frame /\ f \in Sound(submitted)
      /\ ~f.promise => Queue' = Queue
  BY <1>1, HandOut DEF f
<1>3. ~f.promise
  BY <1>1, <1>2 DEF Sound, Frame, Promised
<1>4. Ended => Ended'
  BY <1>1 DEF Ended, ClientInv, OpenInv
<1> QED
  BY <1>1, <1>2, <1>3, <1>4, MayEnd

\* deinit closes with goingAway and fails what is still queued.
LEMMA RefinesDeinit ==
    ASSUME ClientInv, ClientInv', Deinit
    PROVE  [Conn!Next]_(Conn!cvars)
<1>1. /\ cur = Idle /\ hand = <<>> /\ ~timer
      /\ UNCHANGED <<submitted, wire, notified, unusable, lrs, hand, pendingWrites>>
      /\ connectResult' = IF onConnect THEN "failed" ELSE connectResult
      /\ \/ UNCHANGED <<lwsCloseStatus, toBeWritten, promise>>
         \/ /\ lwsCloseStatus = Nil /\ lwsCloseStatus' = goingAway
            /\ promise' = Resolve(toBeWritten, "failed") /\ toBeWritten' = <<>>
  BY DEF Deinit, FetchOnConnect, isClosedForever, NoFrame
<1>2. ~onConnect /\ pendingWrites = <<>> /\ TypeOK /\ TypeOK' /\ toBeWritten \in Seq(Frame)
  BY <1>1 DEF ClientInv, OpenInv, HeldInv, Resolving, Idle, TypeOK, TypeQueues
<1>3. CASE UNCHANGED <<lwsCloseStatus, toBeWritten, promise>>
  BY <1>1, <1>2, <1>3, OnlyEnds DEF sharedVars, framesVars, Ended
<1>4. CASE /\ lwsCloseStatus = Nil /\ lwsCloseStatus' = goingAway
           /\ promise' = Resolve(toBeWritten, "failed") /\ toBeWritten' = <<>>
  <2> DEFINE S == {m \in Msgs : Has(toBeWritten, Carry(m))}
  <2>1. ASSUME NEW m \in Msgs
        PROVE  m \in S <=> \E i \in DOMAIN toBeWritten : toBeWritten[i].msg = m /\ toBeWritten[i].promise
    BY <1>2 DEF Has, Carry
  <2>2. promise' = [m \in Msgs |-> IF m \in S THEN "failed" ELSE promise[m]]
    BY <1>4, <2>1 DEF Resolve
  <2>3. S \in SUBSET Conn!Pending
    <3>1. ASSUME NEW m \in S PROVE promise[m] = "pending"
      <4>1. PICK i \in DOMAIN toBeWritten : toBeWritten[i].msg = m /\ toBeWritten[i].promise
        BY <2>1
      <4>2. toBeWritten \in Seq(Sound(submitted))
        BY DEF ClientInv, KnownInv
      <4>3. m \in Promised
        BY <4>1, <4>2 DEF Sound
      <4> QED
        BY <4>3 DEF ClientInv, HeldInv, Held
    <3> QED
      BY <3>1 DEF Conn!Pending
  <2> HIDE DEF S
  <2>4. Queue = (<<>> \o In(toBeWritten, Carriers)) \o <<>> /\ Queue' = (<<>> \o <<>>) \o <<>>
    <3>1. In(<<>>, Carriers) = <<>>
      BY <1>2, InFacts
    <3> QED
      BY <1>1, <1>2, <1>4, <3>1, QueueIs, QueueIsNext DEF Promises
  <2>5. PICK q \in Seq(Msgs) : q = In(toBeWritten, Carriers)
    BY <1>2, QueueIs
  <2>6. Queue = q /\ Queue' = <<>>
    BY <2>4, <2>5
  <2>7. ASSUME NEW i \in DOMAIN q PROVE q[i] \notin Msgs \ S
    <3>1. PICK m \in Msgs : m = q[i]
      OBVIOUS
    <3>2. Has(q, {m})
      BY <3>1 DEF Has
    <3>3. Has(toBeWritten, Carry(m))
      BY <1>2, <2>5, <3>2, NotIn
    <3> QED
      BY <3>1, <3>3 DEF S
  <2>8. Kept(q, Msgs \ S) = <<>>
    BY <2>7, KeptAll
  <2>9. Conn!Settle(S, "failed")
    BY <2>2, <2>6, <2>8, SettleIs
  <2>10. goingAway \in Statuses /\ goingAway \notin CloseMsgs
    BY StatusAssumption DEF Statuses
  <2>11. Conn!Close
    BY <1>1, <1>2, <1>4, <2>3, <2>9, <2>10 DEF Conn!Close
  <2> QED
    BY <2>11 DEF Conn!Next
<1> QED
  BY <1>1, <1>3, <1>4

\* connect's promise is resolved, if it was not.
LEMMA RefinesConnect ==
    ASSUME ClientInv, RunConnectResult \/ ConnectTimeout
    PROVE  [Conn!Next]_(Conn!cvars)
<1>1. /\ UNCHANGED <<submitted, wire, lwsCloseStatus, notified, promise, framesVars, unusable, lrs>>
      /\ \/ UNCHANGED connectResult
         \/ onConnect /\ connectResult' \in {"ok", "failed"}
  BY DEF RunConnectResult, ConnectTimeout, FetchOnConnect, framesVars, loopVars, wsiVars
<1>2. CASE UNCHANGED connectResult
  BY <1>1, <1>2, OnlyEnds DEF sharedVars, Ended
<1>3. CASE onConnect /\ connectResult' \in {"ok", "failed"}
  <2>1. connectResult = "none"
    BY <1>3 DEF ClientInv, ConnectInv
  <2>2. Conn!Connect
    BY <1>1, <1>3, <2>1, SameQueue DEF Conn!Connect, Queue
  <2> QED
    BY <2>2 DEF Conn!Next
<1> QED
  BY <1>1, <1>2, <1>3

\* The onClose callback runs.
LEMMA RefinesNotify ==
    ASSUME ClientInv, RunNotify
    PROVE  [Conn!Next]_(Conn!cvars)
<1>1. /\ UNCHANGED <<connectResult, submitted, wire, lwsCloseStatus, promise, framesVars, unusable, lrs>>
      /\ loop # <<>> /\ Head(loop).t = "notify" /\ notified' = Append(notified, Head(loop).arg)
  BY DEF RunNotify, framesVars, clientVars, wsiVars
<1>2. loop[1] = Head(loop) /\ 1 \in Pending("notify")
  <2>1. loop \in Seq(Tasks)
    BY DEF ClientInv, TypeOK, TypeQueues
  <2> QED
    BY <1>1, <2>1 DEF Pending
<1>3. /\ Head(loop).arg = lwsCloseStatus /\ notified = <<>> /\ lwsCloseStatus # Nil
  BY <1>2 DEF ClientInv, NotifyInv
<1>4. notified' = <<lwsCloseStatus>>
  BY <1>1, <1>3
<1>5. Conn!Tell
  BY <1>1, <1>3, <1>4, SameQueue DEF Conn!Tell, Queue
<1> QED
  BY <1>5 DEF Conn!Next

\* The steps that show nothing but, at most, the end of the transport.
LEMMA RefinesRest ==
    ASSUME ClientInv,
           \/ OnClose \/ Release \/ SendWritable \/ FinishMarkAsClosed \/ RunSetOnClose
           \/ Connect \/ Established \/ ConnectionError \/ WriteableEmpty \/ WriteableNoClient
           \/ SendClose \/ CloseTimeout \/ WsiDestroy \/ Network \/ UNCHANGED vars
    PROVE  [Conn!Next]_(Conn!cvars)
<1>1. UNCHANGED <<sharedVars, promise, framesVars>>
  <2>1. CASE \/ OnClose \/ Release \/ SendWritable \/ FinishMarkAsClosed \/ RunSetOnClose
             \/ UNCHANGED vars
    BY <2>1 DEF OnClose, Release, SendWritable, FinishMarkAsClosed, RunSetOnClose, sharedVars,
         framesVars, vars, clientVars, loopVars, wsiVars, seenVars
  <2>2. CASE \/ Connect \/ Established \/ ConnectionError \/ WriteableEmpty \/ WriteableNoClient
             \/ SendClose \/ CloseTimeout \/ WsiDestroy \/ Network
    BY <2>2 DEF Connect, Established, ConnectionError, WriteableEmpty, WriteableNoClient,
         SendClose, CloseTimeout, WsiDestroy, Network, RecvClose, RecvCloseAck, RecvBad,
         ConnectionLost, sharedVars, framesVars, clientVars, loopVars, wsiVars, seenVars
  <2> QED
    BY <2>1, <2>2
<1>2. Ended => Ended'
  <2>1. CASE \/ OnClose \/ Release \/ SendWritable \/ FinishMarkAsClosed \/ RunSetOnClose
             \/ UNCHANGED vars
    BY <2>1 DEF OnClose, Release, SendWritable, FinishMarkAsClosed, RunSetOnClose, Ended, vars,
         wsiVars
  <2>2. CASE \/ Connect \/ Established \/ ConnectionError \/ WriteableEmpty \/ WriteableNoClient
             \/ SendClose \/ CloseTimeout \/ WsiDestroy
    BY <2>2 DEF Connect, Established, ConnectionError, WriteableEmpty, WriteableNoClient,
         CallsWriteable, SendClose, CloseTimeout, WsiDestroy, JustKill, CloseFreeWsi, Ended
  <2>3. CASE Network
    BY <2>3 DEF Network, RecvClose, RecvCloseAck, RecvBad, ConnectionLost, JustKill,
         CloseFreeWsi, Ended
  <2> QED
    BY <2>1, <2>2, <2>3
<1> QED
  BY <1>1, <1>2, OnlyEnds

\* What is on its way comes from the owner's calls, at every moment.
LEMMA KnownAlways == Spec => [](KnownInv /\ OpenInv)
<1>1. Init => KnownInv /\ OpenInv
  <2> SUFFICES ASSUME Init PROVE KnownInv /\ OpenInv
    OBVIOUS
  <2>1. <<>> \in Seq(Sound(submitted)) /\ <<>> \in Seq(Known(submitted, wasConnected))
    OBVIOUS
  <2>2. KnownInv
    BY <2>1 DEF Init, KnownInv, NoFrame, Idle
  <2>3. OpenInv
    BY DEF Init, OpenInv, Live
  <2> QED
    BY <2>2, <2>3
<1>2. TypeOK /\ KnownInv /\ OpenInv /\ [Next]_vars => (KnownInv /\ OpenInv)'
  <2> SUFFICES ASSUME TypeOK, KnownInv, OpenInv, [Next]_vars PROVE (KnownInv /\ OpenInv)'
    OBVIOUS
  <2>1. OpenInv'
    BY OpenSteps
  <2>2. CASE UNCHANGED vars
    BY <2>2, <2>1, KnownStep, KnownLoop DEF vars, clientVars, loopVars, wsiVars, seenVars, knownVars
  <2>3. CASE Next
    BY <2>1, <2>3, KnownCall, KnownRunSend, KnownEnqueue, KnownLoopSteps, KnownService
       DEF Next, Owner, LoopStep, LoopOwner
  <2> QED
    BY <2>2, <2>3
<1> QED
  BY <1>1, <1>2, TypeCorrect, PTL DEF Spec

\* The client, its event loop and its wsi implement Connection: to its user and its peer a
\* run of sends, callbacks, closes, timeouts and failures is one of a connection that settles
\* each send once, delivers in order what it accepted and nothing after its end, fails no
\* send before it is over, and closes and tells so once.
THEOREM Refinement == Spec => ImplementsConnection
<1>1. Init => Conn!Init
  <2> SUFFICES ASSUME Init PROVE Conn!Init
    OBVIOUS
  <2>1. hand \o toBeWritten \o pendingWrites = <<>> /\ <<>> \in Seq(Frame) /\ wire = <<>>
    BY DEF Init, NoFrame
  <2>2. PromisedIn(<<>>) = <<>> /\ WholeIn(<<>>) = <<>>
    BY <2>1, InFacts, InIs
  <2> QED
    BY <2>1, <2>2 DEF Init, Conn!Init
<1>2. ClientInv /\ ClientInv' /\ [Next]_vars => [Conn!Next]_(Conn!cvars)
  BY RefinesCall, RefinesRunSend, RefinesEnqueue, RefinesMark, RefinesResolve, RefinesPop,
     RefinesWrite, RefinesWriteClose, RefinesDeinit, RefinesConnect, RefinesNotify, RefinesRest
     DEF Next, Owner, LoopStep, LoopOwner, ServiceStep, Handshake
<1>3. Spec => []ClientInv
  <2>1. (TypeOK /\ ClosedQueueEmpty /\ ConnectInv /\ NotifyInv /\ HeldInv
         /\ KnownInv /\ OpenInv) => ClientInv
    BY DEF ClientInv
  <2> QED
    BY <2>1, TypeCorrect, ClosedQueueEmptyCorrect, ConnectAlways, NotifyAlways, HeldAlways,
       KnownAlways, PTL
<1> QED
  BY <1>1, <1>2, <1>3, PTL DEF Spec, ImplementsConnection, Conn!Spec

-----------------------------------------------------------------------------
(* The bytes of a sequence of frames.                                        *)

\* the sum Bytes takes
SumTo(fs) ==
    LET sum[n \in 0..Len(fs)] == IF n = 0 THEN 0 ELSE sum[n - 1] + fs[n].len
    IN  sum

\* Frames have lengths.
LEMMA FrameLen == \A f \in Frame : f.len \in Nat
BY DEF Frame

\* Where the sum starts and what a frame adds.
LEMMA SumToFacts ==
    ASSUME NEW s \in Seq(Frame)
    PROVE  /\ SumTo(s)[0] = 0 /\ Bytes(s) = SumTo(s)[Len(s)]
           /\ \A n \in 0..Len(s) : SumTo(s)[n] \in Nat
           /\ \A n \in 1..Len(s) : SumTo(s)[n] = SumTo(s)[n - 1] + s[n].len
<1> DEFINE l == [i \in Nat |-> IF i \in 1..Len(s) THEN s[i].len ELSE 0]
           step == [i \in Nat |-> [x \in Nat |-> x + l[i]]]
<1>1. Len(s) \in Nat /\ 0 \in Nat /\ \A i \in 1..Len(s) : s[i].len \in Nat
  BY FrameLen
<1>2. l \in [Nat -> Nat]
  BY <1>1
<1>3. \A i \in 1..Len(s) : l[i] = s[i].len
  BY <1>1
<1> HIDE DEF l
<1>4. step \in [Nat -> [Nat -> Nat]]
  <2>1. ASSUME NEW i \in Nat, NEW x \in Nat PROVE x + l[i] \in Nat
    <3>1. l[i] \in Nat
      BY <1>2
    <3> QED
      BY ONLY <3>1, x \in Nat
  <2> QED
    BY <2>1
<1>5. \A i \in Nat, x \in Nat : step[i][x] = x + l[i]
  OBVIOUS
<1> HIDE DEF step
<1>5a. \E h \in [0..Len(s) -> Nat] : Follows(h, 0, step, Len(s))
  BY <1>1, <1>4, Recursion
<1>6. PICK h \in [0..Len(s) -> Nat] :
        h[0] = 0 /\ \A i \in 1..Len(s) : h[i] = step[i][h[i - 1]]
  BY <1>5a DEF Follows
<1>7. \A i \in 1..Len(s) : h[i] = h[i - 1] + s[i].len
  <2> SUFFICES ASSUME NEW i \in 1..Len(s) PROVE h[i] = h[i - 1] + s[i].len
    OBVIOUS
  <2>1. i \in Nat /\ i - 1 \in 0..Len(s)
    BY <1>1
  <2>2. h[i - 1] \in Nat
    BY <2>1
  <2> QED
    BY <1>3, <1>5, <1>6, <2>1, <2>2
<1> DEFINE F(g) == [n \in 0..Len(s) |-> IF n = 0 THEN 0 ELSE g[n - 1] + s[n].len]
<1>8. h = F(h)
  <2>1. ASSUME NEW i \in 0..Len(s) PROVE h[i] = F(h)[i]
    BY <1>1, <1>6, <1>7
  <2> QED
    BY <2>1
<1> DEFINE k == SumTo(s)
<1>9. k = CHOOSE g : g = F(g)
  BY DEF SumTo
<1> HIDE DEF k
<1>10. k = F(k)
  <2> HIDE DEF F
  <2> QED
    BY <1>8, <1>9
<1>11. k[0] = 0 /\ \A n \in 1..Len(s) : k[n] = k[n - 1] + s[n].len
  <2>1. \A n \in 0..Len(s) : k[n] = F(k)[n]
    BY <1>10
  <2> QED
    BY <1>1, <2>1
<1>12. \A n \in 0..Len(s) : k[n] \in Nat
  <2> DEFINE U == {n \in Nat : n <= Len(s) => k[n] \in Nat}
  <2>1. 0 \in U
    BY <1>11
  <2>2. ASSUME NEW n \in Nat, n \in U PROVE n + 1 \in U
    BY <1>1, <1>11, <2>2
  <2>3. \A n \in Nat : n \in U
    <3> HIDE DEF U
    <3> QED
      BY <2>1, <2>2, SetInduction
  <2> QED
    BY <1>1, <2>3
<1>13. Bytes(s) = k[Len(s)]
  BY DEF Bytes, SumTo, k
<1> QED
  BY <1>11, <1>12, <1>13 DEF k

\* No frame has no byte; another frame adds its own.
LEMMA BytesBasics ==
    ASSUME NEW s \in Seq(Frame)
    PROVE  /\ Bytes(<<>>) = 0 /\ Bytes(s) \in Nat
           /\ \A f \in Frame : Bytes(Append(s, f)) = Bytes(s) + f.len
<1>1. Bytes(<<>>) = 0
  <2>1. <<>> \in Seq(Frame) /\ Len(<<>>) = 0
    OBVIOUS
  <2> QED
    BY <2>1, SumToFacts
<1>2. Bytes(s) \in Nat
  <2>1. Len(s) \in 0..Len(s)
    OBVIOUS
  <2> QED
    BY <2>1, SumToFacts
<1>3. ASSUME NEW f \in Frame PROVE Bytes(Append(s, f)) = Bytes(s) + f.len
  <2> DEFINE t == Append(s, f)
             l == Len(s)
             T == {n \in Nat : n <= l => SumTo(s)[n] = SumTo(t)[n]}
  <2>1. /\ t \in Seq(Frame) /\ Len(t) = l + 1 /\ l \in Nat /\ t[l + 1] = f
        /\ \A i \in 1..l : s[i] = t[i]
    OBVIOUS
  <2> HIDE DEF t
  <2>2. 0 \in T
    BY <2>1, SumToFacts
  <2>3. ASSUME NEW n \in Nat, n \in T PROVE n + 1 \in T
    <3>1. SUFFICES ASSUME n + 1 <= l PROVE SumTo(s)[n + 1] = SumTo(t)[n + 1]
      OBVIOUS
    <3>2. n + 1 \in 1..Len(s) /\ n + 1 \in 1..Len(t) /\ (n + 1) - 1 = n /\ n <= l
      BY <2>1, <3>1
    <3>3. SumTo(s)[n] = SumTo(t)[n]
      BY <2>3, <3>2
    <3>4. SumTo(s)[n + 1] = SumTo(s)[n] + s[n + 1].len
      BY <3>2, SumToFacts
    <3>5. SumTo(t)[n + 1] = SumTo(t)[n] + t[n + 1].len
      BY <2>1, <3>2, SumToFacts
    <3> QED
      BY <2>1, <3>2, <3>3, <3>4, <3>5
  <2>4. \A n \in Nat : n \in T
    <3> HIDE DEF T
    <3> QED
      BY <2>2, <2>3, SetInduction
  <2>5. SumTo(s)[l] = SumTo(t)[l]
    BY <2>1, <2>4
  <2>6. l + 1 \in 1..Len(t) /\ (l + 1) - 1 = l
    BY <2>1
  <2>7. SumTo(t)[l + 1] = SumTo(t)[l] + t[l + 1].len
    BY <2>1, <2>6, SumToFacts
  <2>8. Bytes(t) = SumTo(t)[l + 1] /\ Bytes(s) = SumTo(s)[l]
    BY <2>1, SumToFacts
  <2> QED
    BY <2>1, <2>5, <2>7, <2>8 DEF t
<1> QED
  BY <1>1, <1>2, <1>3

\* the frames of message m
Of(m) == {f \in Frame : f.msg = m}

\* A frame adds its bytes to the payload of its message only.
LEMMA PayloadBasics ==
    ASSUME NEW m, NEW s \in Seq(Frame)
    PROVE  /\ Payload(<<>>, m) = 0 /\ Payload(s, m) \in Nat
           /\ \A f \in Frame :
                Payload(Append(s, f), m) = Payload(s, m) + IF f.msg = m THEN f.len ELSE 0
<1>1. \A u : Payload(u, m) = Bytes(Kept(u, Of(m)))
  BY DEF Payload, Of
<1>2. Kept(<<>>, Of(m)) = <<>> /\ Kept(s, Of(m)) \in Seq(Frame)
  BY KeptBasics
<1>3. ASSUME NEW f \in Frame
      PROVE  Payload(Append(s, f), m) = Payload(s, m) + IF f.msg = m THEN f.len ELSE 0
  <2>1. Kept(Append(s, f), Of(m)) = Extended(Kept(s, Of(m)), f, Of(m))
    BY KeptBasics
  <2>2. f \in Of(m) <=> f.msg = m
    BY DEF Of
  <2>3. f.len \in Nat /\ Bytes(Kept(s, Of(m))) \in Nat
    BY <1>2, FrameLen, BytesBasics
  <2>4. CASE f.msg = m
    <3>1. Bytes(Append(Kept(s, Of(m)), f)) = Bytes(Kept(s, Of(m))) + f.len
      BY <1>2, BytesBasics
    <3> QED
      BY <1>1, <2>1, <2>2, <2>4, <3>1 DEF Extended
  <2>5. CASE f.msg # m
    BY <1>1, <2>1, <2>2, <2>3, <2>5 DEF Extended
  <2> QED
    BY <2>4, <2>5
<1> QED
  BY <1>1, <1>2, <1>3, BytesBasics

\* The payload of a concatenation.
LEMMA PayloadConcat ==
    ASSUME NEW m, NEW s \in Seq(Frame), NEW u \in Seq(Frame)
    PROVE  Payload(s \o u, m) = Payload(s, m) + Payload(u, m)
<1> DEFINE P == {v \in Seq(Frame) : Payload(s \o v, m) = Payload(s, m) + Payload(v, m)}
<1>1. <<>> \in P
  <2>1. s \o <<>> = s /\ <<>> \in Seq(Frame)
    OBVIOUS
  <2>2. Payload(<<>>, m) = 0 /\ Payload(s, m) \in Nat
    BY PayloadBasics
  <2> QED
    BY <2>1, <2>2
<1>2. ASSUME NEW v \in Seq(Frame), NEW f \in Frame, v \in P PROVE Append(v, f) \in P
  <2> DEFINE x == IF f.msg = m THEN f.len ELSE 0
  <2>1. s \o v \in Seq(Frame) /\ Append(v, f) \in Seq(Frame)
    OBVIOUS
  <2>2. s \o Append(v, f) = Append(s \o v, f)
    OBVIOUS
  <2>3. Payload(Append(s \o v, f), m) = Payload(s \o v, m) + x
    BY <2>1, PayloadBasics
  <2>4. Payload(Append(v, f), m) = Payload(v, m) + x
    BY PayloadBasics
  <2>5. Payload(s, m) \in Nat /\ Payload(v, m) \in Nat /\ x \in Nat
    BY PayloadBasics, FrameLen
  <2>6. Payload(s \o v, m) = Payload(s, m) + Payload(v, m)
    BY <1>2
  <2> HIDE DEF x
  <2>7. Payload(s \o Append(v, f), m) = Payload(s, m) + Payload(Append(v, f), m)
    BY ONLY <2>2, <2>3, <2>4, <2>5, <2>6
  <2> QED
    BY <2>1, <2>7
<1>3. \A v \in Seq(Frame) : v \in P
  <2> HIDE DEF P
  <2> QED
    BY <1>1, <1>2, SeqInduction
<1> QED
  BY <1>3

\* Frames of other messages have no byte of m.
LEMMA PayloadOfOthers ==
    ASSUME NEW m, NEW s \in Seq(Frame), \A i \in DOMAIN s : s[i].msg # m
    PROVE  Payload(s, m) = 0
<1>1. Kept(s, Of(m)) = <<>>
  <2>1. \A i \in DOMAIN s : s[i] \notin Of(m)
    BY DEF Of
  <2> QED
    BY <2>1, KeptAll
<1>2. Payload(s, m) = Bytes(Kept(s, Of(m)))
  BY DEF Payload, Of
<1> QED
  BY <1>1, <1>2, BytesBasics

-----------------------------------------------------------------------------
(* What the peer gets.                                                       *)

\* the frames of a message follow each other, the first is no continuation, and no other
\* frame comes before the last; pieces are short; with the last frame of a message it is
\* complete, and nothing of it follows
Linked(f, g) == /\ g.op = "continuation" <=> ~f.fin
                /\ ~f.fin => f.msg = g.msg
Chained(s) ==
    /\ s # <<>> => s[1].op # "continuation"
    /\ \A i \in 1..(Len(s) - 1) : Linked(s[i], s[i + 1])
Short(s) == \A i \in DOMAIN s : s[i].op # "ping" => s[i].len <= maxFrameSize
Complete(s) ==
    \A i \in DOMAIN s :
        s[i].fin => /\ Payload(s, s[i].msg) = Size[s[i].msg]
                    /\ \A j \in DOMAIN s : i < j => s[j].msg # s[i].msg
Good(s) == Chained(s) /\ Short(s) /\ Complete(s)

\* no message of s lacks its last frame
EndsWhole(s) == s # <<>> => s[Len(s)].fin

\* Frames of one message only have its bytes.
LEMMA PayloadOfAll ==
    ASSUME NEW m, NEW s \in Seq(Of(m))
    PROVE  s \in Seq(Frame) /\ Payload(s, m) = Bytes(s)
<1>1. s \in Seq(Frame) /\ \A i \in DOMAIN s : s[i] \in Of(m)
  BY DEF Of
<1>2. Kept(s, Of(m)) = s
  BY <1>1, KeptAll
<1>3. Payload(s, m) = Bytes(Kept(s, Of(m)))
  BY DEF Payload, Of
<1> QED
  BY <1>1, <1>2, <1>3

\* The pieces of a message that is split have its bytes between them.
LEMMA PiecesSum ==
    ASSUME NEW s \in Seq(Frame), NEW k \in Nat, NEW t \in Nat, Len(s) >= 1,
           \A i \in 1..Len(s) : s[i].len = IF i < Len(s) THEN k ELSE t - (Len(s) - 1) * k
    PROVE  Bytes(s) = t
<1> DEFINE n == Len(s)
           T == {i \in Nat : i < n => SumTo(s)[i] = i * k}
<1>1. n \in Nat
  OBVIOUS
<1>2. 0 \in T
  BY SumToFacts
<1>3. ASSUME NEW i \in Nat, i \in T PROVE i + 1 \in T
  <2>1. SUFFICES ASSUME i + 1 < n PROVE SumTo(s)[i + 1] = (i + 1) * k
    OBVIOUS
  <2>2. i + 1 \in 1..n /\ (i + 1) - 1 = i /\ i < n
    BY <1>1, <2>1
  <2>3. SumTo(s)[i] = i * k
    BY <1>3, <2>2
  <2>4. SumTo(s)[i + 1] = SumTo(s)[i] + s[i + 1].len
    BY <2>2, SumToFacts
  <2>5. s[i + 1].len = k
    BY <2>1, <2>2
  <2>6. (i + 1) * k = i * k + k
    OBVIOUS
  <2> QED
    BY <2>3, <2>4, <2>5, <2>6
<1>4. \A i \in Nat : i \in T
  <2> HIDE DEF T
  <2> QED
    BY <1>2, <1>3, SetInduction
<1>5. n - 1 \in Nat /\ n - 1 < n /\ n \in 1..n
  BY <1>1
<1>6. SumTo(s)[n - 1] = (n - 1) * k
  BY <1>4, <1>5
<1>7. SumTo(s)[n] = SumTo(s)[n - 1] + s[n].len /\ Bytes(s) = SumTo(s)[n]
  BY <1>5, SumToFacts
<1>8. s[n].len = t - (n - 1) * k
  BY <1>5
<1>9. (n - 1) * k \in Nat
  BY <1>5
<1> HIDE DEF n
<1> QED
  BY <1>6, <1>7, <1>8, <1>9

\* The frames send() makes of a message are good by themselves.
LEMMA FramesGood ==
    ASSUME NEW m \in Promised
    PROVE  /\ FramesOf(m) \in Seq(Of(m) \cap Written) /\ FramesOf(m) # <<>>
           /\ Good(FramesOf(m)) /\ EndsWhole(FramesOf(m))
<1>1. /\ m \in Msgs /\ m \notin CloseMsgs /\ Size[m] \in Nat /\ maxFrameSize \in Nat \ {0}
      /\ FramesOf(m) \in Seq(Frame)
  BY SizeAssumption, FramesOfType DEF Promised
<1>2. CASE m \in PingMsgs \/ Size[m] <= maxFrameSize
  <2> DEFINE f == SingleFrame(m)
             F == FramesOf(m)
  <2>1. F = <<f>> /\ DOMAIN F = {1} /\ F[1] = f /\ Len(F) = 1 /\ f \in Frame
    BY <1>1, <1>2 DEF FramesOf
  <2>2. /\ f.msg = m /\ f.op \in {"ping", "data"} /\ f.len = Size[m] /\ f.fin
        /\ f.op # "ping" => m \notin PingMsgs
    BY <1>1 DEF SingleFrame
  <2> HIDE DEF f
  <2>3. f \in Of(m) \cap Written
    BY <2>1, <2>2 DEF Of, Written
  <2>4. F \in Seq(Of(m) \cap Written) /\ F \in Seq(Of(m))
    BY <2>1, <2>3
  <2>5. Bytes(F) = Size[m]
    <3>1. <<>> \in Seq(Frame) /\ F = Append(<<>>, f)
      BY <2>1
    <3>2. Bytes(Append(<<>>, f)) = Bytes(<<>>) + f.len /\ Bytes(<<>>) = 0
      BY <2>1, <3>1, BytesBasics
    <3> QED
      BY <1>1, <2>2, <3>1, <3>2
  <2>6. Payload(F, m) = Size[m]
    BY <2>4, <2>5, PayloadOfAll
  <2> HIDE DEF F
  <2>7. Short(F) /\ Chained(F) /\ EndsWhole(F)
    BY <1>1, <1>2, <2>1, <2>2 DEF Short, Chained, EndsWhole
  <2>8. Complete(F)
    BY <2>1, <2>2, <2>6 DEF Complete
  <2> QED
    BY <2>1, <2>2, <2>4, <2>7, <2>8 DEF Good, F
<1>3. CASE ~(m \in PingMsgs \/ Size[m] <= maxFrameSize)
  <2> DEFINE n == Pieces(Size[m])
             F == FramesOf(m)
             last == Size[m] - (n - 1) * maxFrameSize
  <2>1. F = ChunkFrames(m)
    BY <1>1, <1>3 DEF FramesOf
  <2>2. n \in Nat /\ n >= 1 /\ n * maxFrameSize >= Size[m]
    <3>1. n \in Nat /\ n * maxFrameSize >= Size[m]
      BY <1>1, CeilingDivision DEF Pieces
    <3> HIDE DEF n
    <3>2. n # 0
      BY <1>1, <1>3, <3>1
    <3> QED
      BY <3>1, <3>2
  <2>3. last <= maxFrameSize
    <3> HIDE DEF n
    <3>1. n * maxFrameSize = (n - 1) * maxFrameSize + maxFrameSize
      BY <1>1, <2>2
    <3>2. (n - 1) * maxFrameSize \in Nat
      BY <1>1, <2>2
    <3> QED
      BY <1>1, <2>2, <3>1, <3>2
  <2>4. DOMAIN F = 1..n
    BY <2>1 DEF ChunkFrames
  <2>5. Len(F) = n
    BY <1>1, <2>2, <2>4
  <2>6. ASSUME NEW i \in 1..n
        PROVE  /\ F[i].op = (IF i = 1 THEN "data" ELSE "continuation") /\ F[i].msg = m
               /\ F[i].len = (IF i < n THEN maxFrameSize ELSE last)
               /\ (F[i].fin <=> i = n) /\ F[i] \in Frame
    <3> DEFINE f == [op |-> IF i = 1 THEN "data" ELSE "continuation",
                     msg |-> m,
                     len |-> IF i < n THEN maxFrameSize ELSE last,
                     fin |-> i = n,
                     promise |-> i = n]
    <3>1. F[i] = f
      BY <2>1 DEF ChunkFrames
    <3>2. F[i] \in Frame
      <4> HIDE DEF F, n
      <4>1. F \in Seq(Frame)
        BY <1>1 DEF F
      <4> QED
        BY <2>4, <2>5, <4>1
    <3> HIDE DEF F, n, last
    <3>3. f.fin <=> i = n
      OBVIOUS
    <3>4. f.msg = m /\ f.op = (IF i = 1 THEN "data" ELSE "continuation")
          /\ f.len = (IF i < n THEN maxFrameSize ELSE last)
      OBVIOUS
    <3> HIDE DEF f
    <3> QED
      BY <3>1, <3>2, <3>3, <3>4
  <2> HIDE DEF n, last, F
  <2>7. \A i \in 1..n : F[i] \in Of(m) \cap Written
    BY <2>6 DEF Of, Written
  <2>8. F \in Seq(Of(m) \cap Written) /\ F \in Seq(Of(m)) /\ F \in Seq(Frame)
    <3>1. F \in Seq(Frame)
      BY <1>1 DEF F
    <3>2. ASSUME NEW X, \A i \in 1..n : F[i] \in X PROVE F \in Seq(X)
      BY <2>4, <2>5, <3>1, <3>2
    <3>3. \A i \in 1..n : F[i] \in Of(m)
      BY <2>7
    <3> QED
      BY <2>7, <3>1, <3>2, <3>3
  <2>9. Bytes(F) = Size[m]
    <3>1. \A i \in 1..Len(F) : F[i].len = IF i < Len(F) THEN maxFrameSize
                                          ELSE Size[m] - (Len(F) - 1) * maxFrameSize
      BY <2>5, <2>6 DEF last
    <3> QED
      BY <1>1, <2>2, <2>5, <2>8, <3>1, PiecesSum
  <2>10. Payload(F, m) = Size[m]
    BY <2>8, <2>9, PayloadOfAll
  <2>11. Short(F)
    BY <1>1, <2>3, <2>4, <2>6 DEF Short
  <2>12. Chained(F)
    <3>1. ASSUME NEW i \in 1..(n - 1)
          PROVE  Linked(F[i], F[i + 1])
      <4>1. i \in 1..n /\ i + 1 \in 1..n /\ i + 1 # 1 /\ i # n
        BY <2>2
      <4>2. F[i + 1].op = "continuation" /\ F[i].msg = F[i + 1].msg /\ ~F[i].fin
        BY <2>6, <4>1
      <4> QED
        BY <4>2 DEF Linked
    <3>2. F[1].op # "continuation"
      BY <2>2, <2>6
    <3> QED
      BY <2>5, <3>1, <3>2 DEF Chained
  <2>13. Complete(F)
    <3>1. ASSUME NEW i \in 1..n, F[i].fin PROVE i = n /\ F[i].msg = m
      BY <2>6, <3>1
    <3> QED
      BY <2>2, <2>4, <2>10, <3>1 DEF Complete
  <2>14. F # <<>> /\ EndsWhole(F)
    BY <2>2, <2>5, <2>6 DEF EndsWhole
  <2> QED
    BY <2>8, <2>11, <2>12, <2>13, <2>14 DEF Good, F
<1> QED
  BY <1>2, <1>3

\* The beginning of a good sequence of frames is good.
LEMMA GoodStart ==
    ASSUME NEW s \in Seq(Frame), NEW u \in Seq(Frame), Good(s \o u)
    PROVE  Good(s)
<1> DEFINE w == s \o u
<1>1. w \in Seq(Frame) /\ Parts(w, s, u)
  BY ConcatParts
<1>2. \A m : Payload(w, m) = Payload(s, m) + Payload(u, m)
  BY PayloadConcat
<1>3. Good(w)
  OBVIOUS
<1> HIDE DEF w
<1>4. /\ DOMAIN s = 1..Len(s) /\ DOMAIN u = 1..Len(u) /\ DOMAIN w = 1..Len(w)
      /\ Len(s) \in Nat /\ Len(u) \in Nat /\ Len(w) \in Nat /\ Len(w) = Len(s) + Len(u)
  BY <1>1 DEF Parts
<1>5. \A i \in 1..Len(s) : i \in 1..Len(w) /\ w[i] = s[i]
  BY <1>1, <1>4 DEF Parts
<1>6. Chained(s)
  <2>1. ASSUME NEW i \in 1..(Len(s) - 1)
        PROVE  i \in 1..(Len(w) - 1) /\ w[i] = s[i] /\ w[i + 1] = s[i + 1]
    BY <1>4, <1>5
  <2>2. Chained(w)
    BY <1>3 DEF Good
  <2>3. ASSUME s # <<>> PROVE 1 \in 1..Len(s) /\ w # <<>> /\ w[1] = s[1]
    <3>1. 1 \in 1..Len(s)
      BY <1>4, <2>3
    <3>2. Len(w) # 0
      BY <1>4, <3>1
    <3> QED
      BY <1>5, <3>1, <3>2
  <2>4. s # <<>> => s[1].op # "continuation"
    BY <2>2, <2>3 DEF Chained
  <2>5. \A i \in 1..(Len(s) - 1) : Linked(s[i], s[i + 1])
    BY <2>1, <2>2 DEF Chained
  <2> QED
    BY <2>4, <2>5 DEF Chained
<1>7. Short(s)
  BY <1>3, <1>4, <1>5 DEF Good, Short
<1>8. Complete(s)
  <2> SUFFICES ASSUME NEW i \in DOMAIN s, s[i].fin
               PROVE  /\ Payload(s, s[i].msg) = Size[s[i].msg]
                      /\ \A j \in DOMAIN s : i < j => s[j].msg # s[i].msg
    BY DEF Complete
  <2> DEFINE m == s[i].msg
  <2>1. i \in DOMAIN w /\ w[i] = s[i]
    BY <1>4, <1>5
  <2>2. Payload(w, m) = Size[m] /\ \A j \in DOMAIN w : i < j => w[j].msg # m
    BY <1>3, <2>1 DEF Good, Complete
  <2> HIDE DEF m
  <2>3. \A j \in DOMAIN s : i < j => s[j].msg # m
    BY <1>4, <1>5, <2>2
  <2>4. ASSUME NEW j \in DOMAIN u PROVE u[j].msg # m
    <3>1. Len(s) + j \in DOMAIN w /\ i < Len(s) + j
      BY <1>4
    <3>2. w[Len(s) + j] = u[j]
      BY <1>1, <1>4 DEF Parts
    <3> QED
      BY <2>2, <3>1, <3>2
  <2>5. Payload(u, m) = 0
    BY <2>4, PayloadOfOthers
  <2>6. Payload(s, m) \in Nat
    BY PayloadBasics
  <2> QED
    BY <1>2, <2>2, <2>3, <2>5, <2>6 DEF m
<1> QED
  BY <1>6, <1>7, <1>8 DEF Good

\* The frames of one message, none of which is there yet, make a good sequence longer
\* that lacks no last frame.
LEMMA GoodConcat ==
    ASSUME NEW s \in Seq(Frame), NEW m, NEW u \in Seq(Of(m)), Good(s), Good(u),
           EndsWhole(s), EndsWhole(u), \A i \in DOMAIN s : s[i].msg # m, u # <<>>
    PROVE  Good(s \o u) /\ EndsWhole(s \o u)
<1> DEFINE w == s \o u
<1>1. u \in Seq(Frame) /\ \A i \in DOMAIN u : u[i].msg = m
  BY DEF Of
<1>2. w \in Seq(Frame) /\ Parts(w, s, u)
  BY <1>1, ConcatParts
<1>3. \A n : Payload(w, n) = Payload(s, n) + Payload(u, n)
  BY <1>1, PayloadConcat
<1>4. Payload(s, m) = 0
  BY PayloadOfOthers
<1> HIDE DEF w
<1>5. /\ DOMAIN s = 1..Len(s) /\ DOMAIN u = 1..Len(u) /\ DOMAIN w = 1..Len(w)
      /\ Len(s) \in Nat /\ Len(u) \in Nat /\ Len(w) \in Nat /\ Len(w) = Len(s) + Len(u)
      /\ Len(u) >= 1
  BY <1>1, <1>2 DEF Parts
<1>6. \A i \in 1..Len(s) : i \in 1..Len(w) /\ w[i] = s[i]
  BY <1>2, <1>5 DEF Parts
<1>7. \A i \in 1..Len(u) : Len(s) + i \in 1..Len(w) /\ w[Len(s) + i] = u[i]
  BY <1>2, <1>5 DEF Parts
<1>8. ASSUME NEW i \in 1..Len(w)
      PROVE  i \in 1..Len(s) \/ (i - Len(s) \in 1..Len(u) /\ w[i] = u[i - Len(s)])
  <2>1. CASE i > Len(s)
    <3>1. i - Len(s) \in 1..Len(u) /\ Len(s) + (i - Len(s)) = i
      BY <1>5, <2>1
    <3> QED
      BY <1>7, <3>1
  <2> QED
    BY <1>5, <2>1
<1>9. Chained(w)
  <2>0. w # <<>> => w[1].op # "continuation"
    <3>1. CASE s = <<>>
      <4>1. Len(s) + 1 = 1 /\ 1 \in 1..Len(u)
        BY <1>5, <3>1
      <4>2. w[1] = u[1]
        BY <1>7, <4>1
      <4> QED
        BY <4>2 DEF Good, Chained
    <3>2. CASE s # <<>>
      <4>1. 1 \in 1..Len(s)
        BY <1>5, <3>2
      <4>2. w[1] = s[1]
        BY <1>6, <4>1
      <4> QED
        BY <3>2, <4>2 DEF Good, Chained
    <3> QED
      BY <3>1, <3>2
  <2> SUFFICES ASSUME NEW i \in 1..(Len(w) - 1)
               PROVE  Linked(w[i], w[i + 1])
    BY <2>0 DEF Chained
  <2>1. CASE i < Len(s)
    <3>1. /\ i \in 1..(Len(s) - 1) /\ i \in 1..Len(s) /\ i + 1 \in 1..Len(s)
      BY <1>5, <2>1
    <3>2. w[i] = s[i] /\ w[i + 1] = s[i + 1]
      BY <1>6, <3>1
    <3> QED
      BY <3>1, <3>2 DEF Good, Chained
  <2>2. CASE i = Len(s)
    <3>1. i \in 1..Len(s) /\ 1 \in 1..Len(u)
      BY <1>5, <2>2
    <3>2. w[i] = s[i] /\ w[i + 1] = u[1]
      BY <1>6, <1>7, <2>2, <3>1
    <3>3. u[1].op # "continuation"
      BY DEF Good, Chained
    <3>4. s # <<>>
      BY <1>5, <3>1
    <3>5. s[i].fin
      BY <2>2, <3>4 DEF EndsWhole
    <3> QED
      BY <3>2, <3>3, <3>5 DEF Linked
  <2>3. CASE i > Len(s)
    <3> DEFINE k == i - Len(s)
    <3>1. k \in 1..(Len(u) - 1) /\ k \in 1..Len(u) /\ k + 1 \in 1..Len(u)
      BY <1>5, <2>3
    <3>2. Len(s) + k = i /\ Len(s) + (k + 1) = i + 1
      BY <1>5
    <3>3. w[i] = u[k] /\ w[i + 1] = u[k + 1]
      BY <1>7, <3>1, <3>2
    <3> HIDE DEF k
    <3> QED
      BY <3>1, <3>3 DEF Good, Chained
  <2>4. i < Len(s) \/ i = Len(s) \/ i > Len(s)
    <3>1. i \in Int /\ Len(s) \in Int
      BY <1>5
    <3> QED
      BY ONLY <3>1
  <2> QED
    BY ONLY <2>1, <2>2, <2>3, <2>4
<1>10. Short(w)
  BY <1>5, <1>6, <1>8 DEF Good, Short
<1>11. Complete(w)
  <2> SUFFICES ASSUME NEW i \in 1..Len(w), w[i].fin
               PROVE  /\ Payload(w, w[i].msg) = Size[w[i].msg]
                      /\ \A j \in 1..Len(w) : i < j => w[j].msg # w[i].msg
    BY <1>5 DEF Complete
  <2>1. CASE i \in 1..Len(s)
    <3> DEFINE n == s[i].msg
    <3>1. w[i] = s[i] /\ n # m
      BY <1>5, <1>6, <2>1
    <3>2. Payload(s, n) = Size[n] /\ \A j \in 1..Len(s) : i < j => s[j].msg # n
      BY <1>5, <2>1, <3>1 DEF Good, Complete
    <3> HIDE DEF n
    <3>3. Payload(u, n) = 0
      BY <1>1, <3>1, PayloadOfOthers
    <3>4. Payload(s, n) \in Nat
      BY PayloadBasics
    <3>5. \A j \in 1..Len(w) : i < j => w[j].msg # n
      <4> SUFFICES ASSUME NEW j \in 1..Len(w), i < j PROVE w[j].msg # n
        OBVIOUS
      <4>1. CASE j \in 1..Len(s)
        BY <1>6, <3>2, <4>1
      <4>2. CASE j - Len(s) \in 1..Len(u) /\ w[j] = u[j - Len(s)]
        BY <1>1, <1>5, <3>1, <4>2
      <4> QED
        BY <1>8, <4>1, <4>2
    <3> QED
      BY <1>3, <3>1, <3>2, <3>3, <3>4, <3>5 DEF n
  <2>2. CASE i \notin 1..Len(s)
    <3> DEFINE k == i - Len(s)
    <3>1. k \in 1..Len(u) /\ w[i] = u[k] /\ u[k].msg = m
      BY <1>1, <1>5, <1>8, <2>2
    <3>2. Payload(u, m) = Size[m] /\ \A j \in 1..Len(u) : k < j => u[j].msg # m
      <4> HIDE DEF k
      <4> QED
        BY <1>5, <3>1 DEF Good, Complete
    <3>3. Payload(u, m) \in Nat
      BY <1>1, PayloadBasics
    <3>4. ASSUME NEW j \in 1..Len(w), i < j PROVE w[j].msg # m
      <4>1. j \notin 1..Len(s) /\ k < j - Len(s)
        BY <1>5, <2>2, <3>4
      <4> QED
        BY <1>8, <3>2, <4>1
    <3> QED
      BY <1>3, <1>4, <3>1, <3>2, <3>3, <3>4
  <2> QED
    BY <2>1, <2>2
<1>12. EndsWhole(w)
  <2>1. Len(u) \in 1..Len(u) /\ Len(s) + Len(u) = Len(w)
    BY <1>5
  <2>2. w[Len(w)] = u[Len(u)]
    BY <1>7, <2>1
  <2> QED
    BY <2>2 DEF EndsWhole
<1> QED
  BY <1>9, <1>10, <1>11, <1>12 DEF Good, w

\* the closures but that of send() m; the messages whose send() has gone by the loop; the
\* frames of messages of S, and close frames
Others(m) == Tasks \ Sending(m)
Through == {m \in submitted : loop \in Seq(Others(m)) /\ cur # At("enqueue", m)}
Passed(S) == {f \in Frame : f.op # "close" => f.msg \in S}

\* A message is accepted once: whatever was, its send() is over.
PassedInv == accepted \in Seq(Passed(Through))

\* what a step may do to the loop's queue, and to the send() in progress
LoopMoves ==
    \/ loop' = loop
    \/ loop # <<>> /\ loop' = Tail(loop)
    \/ \E t \in Tasks : t.t # "send" /\ (loop' = Append(loop, t) \/ loop' = loop \o <<t, t>>)
    \/ \E m \in Msgs \ submitted : loop' = Append(loop, Task("send", m))
CurMoves ==
    \/ cur' = cur
    \/ cur'.pc # "enqueue"
    \/ loop # <<>> /\ \E m \in Msgs : Head(loop) = Task("send", m) /\ cur' = At("enqueue", m)
    \/ \E m \in Msgs \ submitted : cur' = At("enqueue", m)

\* The kill path moves the loop's queue like that.
LEMMA MovesKill ==
    ASSUME NEW asked \in Statuses \cup {Nil}, JustKill(asked)
    PROVE  LoopMoves
<1> DEFINE t == Task("markAsClosed", IF asked = Nil THEN noStatus ELSE asked)
<1>1. t \in Tasks /\ t.t # "send"
  BY KillTask DEF Task
<1>2. loop' = loop \/ loop' = Append(loop, t)
  BY DEF JustKill, Execute
<1> HIDE DEF t
<1> QED
  BY <1>1, <1>2 DEF LoopMoves

\* So does the whole close path.
LEMMA MovesCloseFree ==
    ASSUME NEW asked \in Statuses \cup {Nil}, NEW reason, NEW broken,
           CloseFreeWsi(reason, broken, asked)
    PROVE  LoopMoves
<1>1. loop' = loop => LoopMoves
  BY DEF LoopMoves
<1> QED
  BY <1>1, MovesKill DEF CloseFreeWsi

\* A closure but a send() is queued.
LEMMA MovesAppend ==
    ASSUME NEW k \in {"markAsClosed", "notify", "connectOk", "connectFail", "setOnClose"}, NEW a,
           Task(k, a) \in Tasks, loop' = Append(loop, Task(k, a)) \/ loop' = loop
    PROVE  LoopMoves
<1>1. Task(k, a).t # "send"
  BY DEF Task
<1> QED
  BY <1>1 DEF LoopMoves

\* Every step moves the loop and cur so.
LEMMA Moves ==
    ASSUME TypeOK, [Next]_vars
    PROVE  LoopMoves /\ CurMoves /\ submitted \subseteq submitted'
<1>0. /\ waitingLwsCloseStatus \in Statuses \cup {Nil} /\ hand \in Seq(Frame) /\ Len(hand) <= 1
      /\ Nil \in Statuses \cup {Nil} /\ loop \in Seq(Tasks) /\ cur \in CurStates
  BY DEF TypeOK, TypeStates, TypeQueues
<1>a. loop' = loop => LoopMoves
  BY DEF LoopMoves
<1>b. (loop # <<>> /\ loop' = Tail(loop)) => LoopMoves
  BY DEF LoopMoves
<1>c. cur' = cur \/ cur' = Idle => CurMoves
  BY DEF CurMoves, Idle
<1>1. ASSUME NEW m \in Msgs, Send(m) \/ Close(m) PROVE LoopMoves /\ CurMoves /\ submitted \subseteq submitted'
  <2>1. /\ m \notin submitted /\ submitted' = submitted \cup {m} /\ cur' = cur
        /\ loop' = loop \/ loop' = Append(loop, Task("send", m))
    BY <1>1 DEF Send, Close, Execute
  <2> QED
    BY <1>c, <2>1 DEF LoopMoves
<1>2. ASSUME NEW m \in Msgs, LoopSend(m) \/ LoopClose(m)
      PROVE  LoopMoves /\ CurMoves /\ submitted \subseteq submitted'
  <2>1. /\ m \notin submitted /\ submitted' = submitted \cup {m} /\ loop' = loop
        /\ cur' = Idle \/ cur' = At("enqueue", m)
    BY <1>2 DEF LoopSend, LoopClose, AfterCheck
  <2> QED
    BY <1>a, <1>c, <2>1 DEF CurMoves
<1>3. CASE RunSend
  <2> DEFINE m == Head(loop).arg
  <2>1. loop # <<>> /\ Head(loop) \in Tasks /\ Head(loop).t = "send"
    BY <1>0, <1>3 DEF RunSend
  <2>2. Head(loop) = Task("send", m) /\ m \in Msgs
    BY <2>1, TaskArgs DEF Tasks, Task
  <2>3. /\ loop' = Tail(loop) /\ submitted' = submitted
        /\ cur' = Idle \/ cur' = At("enqueue", m)
    BY <1>3 DEF RunSend, AfterCheck
  <2> HIDE DEF m
  <2> QED
    BY <1>b, <1>c, <2>1, <2>2, <2>3 DEF CurMoves
<1>4. CASE SendEnqueue \/ SendWritable \/ ResolvePending
  <2>1. loop' = loop /\ submitted' = submitted
    BY <1>4 DEF SendEnqueue, SendWritable, ResolvePending
  <2>2. cur' = Idle \/ cur' = cur \/ cur'.pc # "enqueue"
    <3>1. CASE SendEnqueue
      BY <3>1 DEF SendEnqueue, At
    <3>2. CASE SendWritable
      BY <3>2 DEF SendWritable
    <3>3. CASE ResolvePending
      <4>1. cur' = At("relock", cur.msg) \/ cur' = cur
        BY <3>3 DEF ResolvePending
      <4> QED
        BY <4>1 DEF At
    <3> QED
      BY <1>4, <3>1, <3>2, <3>3
  <2> QED
    BY <1>a, <1>c, <2>1, <2>2 DEF CurMoves
<1>5. CASE RunMarkAsClosed
  <2>1. loop # <<>> /\ loop' = Tail(loop) /\ submitted' = submitted
    BY <1>5 DEF RunMarkAsClosed, seenVars
  <2>2. cur' = cur \/ cur'.pc # "enqueue"
    BY <1>5 DEF RunMarkAsClosed, At
  <2> QED
    BY <1>b, <2>1, <2>2 DEF CurMoves
<1>6. CASE RunNotify \/ RunSetOnClose \/ RunConnectResult
  <2>1. loop # <<>> /\ loop' = Tail(loop) /\ submitted' = submitted /\ cur' = cur
    BY <1>6 DEF RunNotify, RunSetOnClose, RunConnectResult, seenVars
  <2> QED
    BY <1>b, <1>c, <2>1
<1>7. CASE FinishMarkAsClosed
  <2>1. cur.msg \in Statuses
    BY <1>7, CurArgs DEF FinishMarkAsClosed, TypeOK, TypeStates
  <2>2. Task("notify", cur.msg) \in Tasks
    BY <2>1, TasksType
  <2>3. /\ loop' = Append(loop, Task("notify", cur.msg)) \/ loop' = loop
        /\ submitted' = submitted /\ cur' = Idle
    BY <1>7 DEF FinishMarkAsClosed, Execute, seenVars
  <2> QED
    BY <1>c, <2>2, <2>3, MovesAppend
<1>8. CASE OnClose \/ Deinit
  <2>1. Task("setOnClose", Nil) \in Tasks /\ Task("notify", goingAway) \in Tasks
    BY TasksType DEF Statuses
  <2>2. /\ \/ loop' = Append(loop, Task("setOnClose", Nil))
           \/ loop' = Append(loop, Task("notify", goingAway)) \/ loop' = loop
        /\ submitted' = submitted /\ cur' = cur
    BY <1>8 DEF OnClose, Deinit, Execute, seenVars
  <2> QED
    BY <1>c, <2>1, <2>2, MovesAppend
<1>9. CASE \/ UNCHANGED vars \/ Release \/ ConnectTimeout \/ WriteableEmpty \/ WriteablePop
           \/ WriteData \/ WsiDestroy
  <2>1. loop' = loop /\ submitted' = submitted /\ cur' = cur
    BY <1>9 DEF vars, Release, ConnectTimeout, WriteableEmpty, WriteablePop, WriteData, WsiDestroy,
         loopVars, seenVars
  <2> QED
    BY <1>a, <1>c, <2>1
<1>10. CASE Connect \/ ConnectionError \/ Established
  <2>1. /\ Task("connectFail", Nil) \in Tasks /\ Task("connectFail", Nil).t # "send"
        /\ Task("connectOk", Nil) \in Tasks
    BY TasksType DEF Task
  <2>2. /\ \/ loop' = Append(loop, Task("connectFail", Nil))
           \/ loop' = loop \o <<Task("connectFail", Nil), Task("connectFail", Nil)>>
           \/ loop' = Append(loop, Task("connectOk", Nil)) \/ loop' = loop
        /\ submitted' = submitted /\ cur' = cur
    BY <1>10 DEF Connect, ConnectionError, Established, Execute, seenVars
  <2>3. loop' = loop \o <<Task("connectFail", Nil), Task("connectFail", Nil)>> => LoopMoves
    BY <2>1 DEF LoopMoves
  <2> QED
    BY <1>c, <2>1, <2>2, <2>3, MovesAppend
<1>11. CASE WriteClose
  <2>1. /\ hand # <<>> /\ hand[1].op = "close" /\ CloseFreeWsi(hand[1].msg, FALSE, hand[1].msg)
        /\ submitted' = submitted /\ cur' = cur
    BY <1>11 DEF WriteClose, NoFrame, seenVars
  <2>2. hand[1].msg \in Statuses \cup {Nil}
    BY <1>0, <2>1, OneElement DEF Frame, Statuses
  <2> QED
    BY <1>c, <2>1, <2>2, MovesCloseFree
<1>12. CASE \/ WritePing \/ WriteableNoClient \/ SendClose \/ CloseTimeout \/ RecvClose
            \/ RecvCloseAck \/ RecvBad \/ ConnectionLost
  <2>1. submitted' = submitted /\ cur' = cur
    BY <1>12 DEF WritePing, WriteableNoClient, SendClose, CloseTimeout, RecvClose, RecvCloseAck,
         RecvBad, ConnectionLost, seenVars
  <2>2. \/ loop' = loop \/ loop' = Append(loop, Task("markAsClosed", peerStatus))
        \/ JustKill(waitingLwsCloseStatus)
        \/ \E r, b : CloseFreeWsi(r, b, waitingLwsCloseStatus) \/ CloseFreeWsi(r, b, Nil)
    BY <1>12 DEF WritePing, WriteableNoClient, SendClose, CloseTimeout, RecvClose, RecvCloseAck,
         RecvBad, ConnectionLost, Execute
  <2>3. Task("markAsClosed", peerStatus) \in Tasks
    BY TasksType DEF Statuses
  <2>4. LoopMoves
    BY <1>0, <1>a, <2>2, <2>3, MovesAppend, MovesKill, MovesCloseFree
  <2> QED
    BY <1>c, <2>1, <2>4
<1> QED
  BY <1>1, <1>2, <1>3, <1>4, <1>5, <1>6, <1>7, <1>8, <1>9, <1>10, <1>11, <1>12
     DEF Next, Owner, LoopStep, LoopOwner, ServiceStep, Handshake, Network

\* A send() that has gone by the loop does not come back.
LEMMA ThroughGrows ==
    ASSUME TypeOK, [Next]_vars
    PROVE  Through \subseteq Through'
<1> SUFFICES ASSUME NEW p \in Through PROVE p \in Through'
  OBVIOUS
<1>1. p \in submitted /\ loop \in Seq(Others(p)) /\ cur # At("enqueue", p) /\ p \in submitted'
  BY Moves DEF Through
<1>2. \A t \in Tasks : t.t # "send" => t \in Others(p)
  BY DEF Others, Sending, Task
<1>3. \A m \in Msgs : m # p => Task("send", m) \in Others(p)
  BY TasksType, EnqueueArg DEF Others
<1>4. loop' \in Seq(Others(p))
  <2> DEFINE S == Others(p)
  <2> HIDE DEF S
  <2>1. CASE loop' = loop \/ (loop # <<>> /\ loop' = Tail(loop))
    <3>1. loop \in Seq(S)
      BY <1>1 DEF S
    <3>2. loop' \in Seq(S)
      BY <2>1, <3>1
    <3> QED
      BY <3>2 DEF S
  <2>2. ASSUME NEW t \in S, loop' = Append(loop, t) \/ loop' = loop \o <<t, t>>
        PROVE  loop' \in Seq(S)
    <3>1. loop \in Seq(S)
      BY <1>1 DEF S
    <3>2. <<t, t>> \in Seq(S)
      BY <2>2
    <3>3. Append(loop, t) \in Seq(S) /\ loop \o <<t, t>> \in Seq(S)
      BY <2>2, <3>1, <3>2, SeqOps
    <3> QED
      BY <2>2, <3>3
  <2> QED
    BY <1>1, <1>2, <1>3, <2>1, <2>2, Moves DEF LoopMoves, S
<1>5. cur' # At("enqueue", p)
  <2>1. CASE cur' = cur \/ cur'.pc # "enqueue"
    BY <1>1, <2>1 DEF At
  <2>2. ASSUME NEW m \in Msgs, loop # <<>>, Head(loop) = Task("send", m), cur' = At("enqueue", m)
        PROVE  cur' # At("enqueue", p)
    <3>1. Head(loop) \in Others(p)
      BY <1>1, <2>2
    <3> QED
      BY <2>2, <3>1, EnqueueArg DEF Others
  <2>3. ASSUME NEW m \in Msgs \ submitted, cur' = At("enqueue", m) PROVE cur' # At("enqueue", p)
    BY <1>1, <2>3, EnqueueArg
  <2> QED
    BY <2>1, <2>2, <2>3, Moves DEF CurMoves
<1> QED
  BY <1>1, <1>4, <1>5 DEF Through

\* t begins with s
Starts(s, t) == \E u \in Seq(Frame) : t = s \o u

\* of the frames a that were accepted w are on the wire and d are due next, unless the socket
\* failed (bad); until the client is closed (open) those are all
InOrder(a, w, d, bad, open) ==
    /\ a \in Seq(Frame) /\ w \in Seq(Frame) /\ d \in Seq(Frame)
    /\ Starts(w, a)
    /\ ~bad => Starts(w \o d, a)
    /\ ~bad /\ open => a = w \o d

Accepted == Kept(accepted, Written)
Due == Kept(hand \o toBeWritten, Written)
OrderInv == InOrder(Accepted, wire, Due, unusable, lwsCloseStatus = Nil)

\* What was accepted is good, and no message of it lacks its last frame: send() queues
\* the frames of a message at once.
GoodInv == Good(Accepted) /\ EndsWhole(Accepted)

\* two ways to put three parts together
ThreeParts(a, b, c) == (a \o b) \o c = a \o (b \o c)

\* Concatenation is associative.
LEMMA InThreeParts ==
    ASSUME NEW a \in Seq(Frame), NEW b \in Seq(Frame), NEW c \in Seq(Frame)
    PROVE  ThreeParts(a, b, c) /\ b \o c \in Seq(Frame)
BY DEF ThreeParts

\* The due frames are dropped from some point on.
LEMMA OrderDrop ==
    ASSUME NEW a, NEW w, NEW d \in Seq(Frame), NEW e \in Seq(Frame), NEW bad, NEW open,
           InOrder(a, w, d \o e, bad, open)
    PROVE  InOrder(a, w, d, bad, FALSE)
<1>1. a \in Seq(Frame) /\ w \in Seq(Frame)
  BY DEF InOrder
<1>2. ASSUME ~bad PROVE Starts(w \o d, a)
  <2>1. PICK u \in Seq(Frame) : a = (w \o (d \o e)) \o u
    BY <1>2 DEF InOrder, Starts
  <2>2. w \o d \in Seq(Frame) /\ e \o u \in Seq(Frame)
    BY <1>1
  <2>3. ThreeParts(w, d, e)
    BY <1>1, InThreeParts
  <2>4. ThreeParts(w \o d, e, u)
    BY <2>2, InThreeParts
  <2> QED
    BY ONLY <2>1, <2>2, <2>3, <2>4 DEF Starts, ThreeParts
<1> QED
  BY <1>1, <1>2 DEF InOrder

\* The first due frame is written.
LEMMA OrderWrite ==
    ASSUME NEW a, NEW w, NEW d \in Seq(Frame), NEW f \in Frame, NEW open,
           InOrder(a, w, <<f>> \o d, FALSE, open)
    PROVE  InOrder(a, Append(w, f), d, FALSE, open)
<1>1. /\ a \in Seq(Frame) /\ w \in Seq(Frame) /\ Starts(w \o (<<f>> \o d), a)
      /\ open => a = w \o (<<f>> \o d)
  BY DEF InOrder
<1>2. /\ Append(w, f) \in Seq(Frame) /\ <<f>> \in Seq(Frame) /\ Append(w, f) = w \o <<f>>
  BY <1>1
<1>3. w \o (<<f>> \o d) = Append(w, f) \o d
  <2>1. ThreeParts(w, <<f>>, d)
    BY <1>1, <1>2, InThreeParts
  <2> QED
    BY ONLY <1>2, <2>1 DEF ThreeParts
<1>4. Starts(Append(w, f) \o d, a)
  BY <1>1, <1>3
<1>5. Starts(Append(w, f), a)
  <2>1. PICK u \in Seq(Frame) : a = (Append(w, f) \o d) \o u
    BY <1>4 DEF Starts
  <2>2. ThreeParts(Append(w, f), d, u) /\ d \o u \in Seq(Frame)
    BY <1>2, InThreeParts
  <2> QED
    BY ONLY <2>1, <2>2 DEF Starts, ThreeParts
<1> QED
  BY ONLY <1>1, <1>2, <1>3, <1>4, <1>5, d \in Seq(Frame) DEF InOrder

\* The socket fails.
LEMMA OrderFail ==
    ASSUME NEW a, NEW w, NEW d, NEW bad, NEW open, InOrder(a, w, d, bad, open),
           NEW e \in Seq(Frame), NEW o
    PROVE  InOrder(a, w, e, TRUE, o)
BY DEF InOrder

\* More frames are accepted while the client is open.
LEMMA OrderAccept ==
    ASSUME NEW a, NEW w, NEW d, NEW e \in Seq(Frame), NEW bad, InOrder(a, w, d, bad, TRUE)
    PROVE  InOrder(a \o e, w, d \o e, bad, TRUE)
<1>1. /\ a \in Seq(Frame) /\ w \in Seq(Frame) /\ d \in Seq(Frame) /\ Starts(w, a)
      /\ ~bad => a = w \o d
  BY DEF InOrder
<1>2. a \o e \in Seq(Frame) /\ d \o e \in Seq(Frame)
  BY <1>1
<1>3. Starts(w, a \o e)
  <2>1. PICK u \in Seq(Frame) : a = w \o u
    BY <1>1 DEF Starts
  <2>2. ThreeParts(w, u, e) /\ u \o e \in Seq(Frame)
    BY <1>1, InThreeParts
  <2> QED
    BY ONLY <2>1, <2>2 DEF Starts, ThreeParts
<1>4. ASSUME ~bad PROVE a \o e = w \o (d \o e) /\ Starts(w \o (d \o e), a \o e)
  <2>1. a \o e = w \o (d \o e)
    <3>1. ThreeParts(w, d, e) /\ a = w \o d
      BY <1>1, <1>4, InThreeParts
    <3> QED
      BY ONLY <3>1 DEF ThreeParts
  <2>2. w \o (d \o e) \in Seq(Frame)
    BY <1>1, <1>2
  <2>3. (w \o (d \o e)) \o <<>> = w \o (d \o e) /\ <<>> \in Seq(Frame)
    BY <2>2
  <2> QED
    BY ONLY <2>1, <2>3 DEF Starts
<1> QED
  BY ONLY <1>1, <1>2, <1>3, <1>4 DEF InOrder

\* The due frames are those of the hand and of the queue; a close frame is not due.
LEMMA DueIs ==
    ASSUME NEW h \in Seq(Frame), NEW q \in Seq(Frame)
    PROVE  /\ Kept(h, Written) \in Seq(Frame) /\ Kept(h \o q, Written) \in Seq(Frame)
           /\ Kept(h \o q, Written) = Kept(h, Written) \o Kept(q, Written)
           /\ \A f \in Frame : Kept(<<f>>, Written) = IF f \in Written THEN <<f>> ELSE <<>>
<1>1. h \o q \in Seq(Frame)
  OBVIOUS
<1>2. ASSUME NEW f \in Frame PROVE Kept(<<f>>, Written) = IF f \in Written THEN <<f>> ELSE <<>>
  <2>1. <<f>> \in Seq(Frame) /\ DOMAIN <<f>> = {1} /\ <<f>>[1] = f
    OBVIOUS
  <2> DEFINE s == <<f>>
  <2> HIDE DEF s
  <2>2. s \in Seq(Frame) /\ DOMAIN s = {1} /\ s[1] = f
    BY <2>1 DEF s
  <2>3. Kept(s, Written) = IF f \in Written THEN s ELSE <<>>
    BY <2>2, KeptAll
  <2> QED
    BY <2>3 DEF s
<1> QED
  BY <1>1, <1>2, KeptBasics, KeptConcat

\* what OrderInv is about
orderVars == <<accepted, wire, hand, toBeWritten, unusable, lwsCloseStatus>>

\* The frames of the hand and the queues.
LEMMA OrderTypes ==
    ASSUME TypeOK
    PROVE  /\ hand \in Seq(Frame) /\ toBeWritten \in Seq(Frame) /\ accepted \in Seq(Frame)
           /\ wire \in Seq(Frame) /\ unusable \in BOOLEAN
           /\ hand # <<>> => hand = <<hand[1]>> /\ hand[1] \in Frame
           /\ Due = Kept(hand, Written) \o Kept(toBeWritten, Written) /\ Due \in Seq(Frame)
           /\ Kept(hand, Written) \in Seq(Frame) /\ Kept(toBeWritten, Written) \in Seq(Frame)
<1>1. /\ hand \in Seq(Frame) /\ toBeWritten \in Seq(Frame) /\ accepted \in Seq(Frame)
      /\ wire \in Seq(Frame) /\ unusable \in BOOLEAN /\ Len(hand) <= 1
  BY DEF TypeOK, TypeQueues, TypeFlags
<1>2. ASSUME hand # <<>> PROVE hand = <<hand[1]>> /\ hand[1] \in Frame
  <2>1. DOMAIN hand = {1} /\ hand[1] \in Frame
    BY <1>1, <1>2, OneElement
  <2>2. Len(hand) = 1
    <3>1. Len(hand) \in Nat /\ DOMAIN hand = 1..Len(hand)
      BY <1>1
    <3> QED
      BY <1>1, <2>1, <3>1
  <2> QED
    BY <1>1, <2>1, <2>2
<1>3. /\ Due = Kept(hand, Written) \o Kept(toBeWritten, Written) /\ Due \in Seq(Frame)
      /\ Kept(hand, Written) \in Seq(Frame) /\ Kept(toBeWritten, Written) \in Seq(Frame)
  BY <1>1, DueIs DEF Due
<1> QED
  BY <1>1, <1>2, <1>3

\* send() appends: the frames are accepted in the order they will be written.
LEMMA OrderEnqueue ==
    ASSUME TypeOK, ClosedQueueEmpty, OrderInv, SendEnqueue
    PROVE  OrderInv'
<1>1. CASE UNCHANGED orderVars
  BY <1>1 DEF orderVars, OrderInv, Accepted, Due
<1>2. CASE ~UNCHANGED orderVars
  <2> DEFINE F == FramesOf(cur.msg)
             G == Kept(F, Written)
  <2>1. /\ toBeWritten' = toBeWritten \o F /\ accepted' = accepted \o F /\ cur.pc = "enqueue"
        /\ UNCHANGED <<wire, hand, unusable, lwsCloseStatus>>
    BY <1>2 DEF SendEnqueue, orderVars, wsiVars
  <2>2. cur.msg \in Msgs
    BY <2>1, CurArgs DEF TypeOK, TypeStates
  <2>3. F \in Seq(Frame)
    BY <2>2, FramesOfType
  <2>4. lwsCloseStatus = Nil
    BY <2>1 DEF ClosedQueueEmpty
  <2> HIDE DEF F
  <2>5. G \in Seq(Frame) /\ Accepted' = Accepted \o G
    BY <2>1, <2>3, DueIs, OrderTypes DEF Accepted
  <2>6. Due' = Due \o G
    <3>1. hand \o (toBeWritten \o F) = (hand \o toBeWritten) \o F
      <4>1. hand \in Seq(Frame) /\ toBeWritten \in Seq(Frame)
        BY OrderTypes
      <4> QED
        BY ONLY <2>3, <4>1, InThreeParts DEF ThreeParts
    <3>2. hand \o toBeWritten \in Seq(Frame)
      BY OrderTypes
    <3>3. Kept((hand \o toBeWritten) \o F, Written) = Kept(hand \o toBeWritten, Written) \o G
      BY <2>3, <3>2, DueIs
    <3> QED
      BY <2>1, <3>1, <3>3 DEF Due
  <2> HIDE DEF G
  <2>7. InOrder(Accepted, wire, Due, unusable, TRUE)
    BY <2>4 DEF OrderInv
  <2>8. InOrder(Accepted \o G, wire, Due \o G, unusable, TRUE)
    BY <2>5, <2>7, OrderAccept
  <2> QED
    BY <2>1, <2>4, <2>5, <2>6, <2>8 DEF OrderInv
<1> QED
  BY <1>1, <1>2

\* markAsClosed and deinit drop the queue, not what a callback has in hand.
LEMMA OrderClose ==
    ASSUME TypeOK, OrderInv, lwsCloseStatus' # Nil, toBeWritten' = <<>>,
           UNCHANGED <<accepted, wire, hand, unusable>>
    PROVE  OrderInv'
<1>1. InOrder(Accepted, wire, Kept(hand, Written), unusable, FALSE)
  <2> DEFINE o == lwsCloseStatus = Nil
             h == Kept(hand, Written)
             q == Kept(toBeWritten, Written)
  <2> HIDE DEF o, h, q
  <2>1. h \in Seq(Frame) /\ q \in Seq(Frame) /\ Due = h \o q
    BY OrderTypes DEF h, q
  <2>2. InOrder(Accepted, wire, h \o q, unusable, o)
    BY <2>1 DEF OrderInv, o
  <2> QED
    BY <2>1, <2>2, OrderDrop DEF h
<1>2. hand \o <<>> = hand
  BY OrderTypes
<1>3. Due' = Kept(hand, Written) /\ Accepted' = Accepted
  BY <1>2 DEF Due, Accepted
<1>4. (lwsCloseStatus' = Nil) = FALSE
  OBVIOUS
<1> QED
  BY <1>1, <1>3, <1>4 DEF OrderInv

\* The queue's first frame goes to the hand.
LEMMA OrderPop ==
    ASSUME TypeOK, OrderInv, WriteablePop
    PROVE  OrderInv'
<1>1. /\ hand = <<>> /\ toBeWritten # <<>> /\ hand' = <<Head(toBeWritten)>>
      /\ toBeWritten' = Tail(toBeWritten)
      /\ UNCHANGED <<accepted, wire, unusable, lwsCloseStatus>>
  BY DEF WriteablePop, CallsWriteable, NoFrame, seenVars
<1>2. <<Head(toBeWritten)>> \o Tail(toBeWritten) = <<>> \o toBeWritten
  BY <1>1, OrderTypes
<1>3. Due' = Due /\ Accepted' = Accepted
  BY <1>1, <1>2 DEF Due, Accepted
<1> QED
  BY <1>1, <1>3 DEF OrderInv

\* The hand's frame is written, or the socket fails, or it was a close frame.
LEMMA OrderHand ==
    ASSUME TypeOK, OpenInv, OrderInv, hand # <<>>, hand' = <<>>,
           UNCHANGED <<accepted, toBeWritten, lwsCloseStatus>>,
           \/ hand[1].op # "close" /\ wire' = Append(wire, hand[1]) /\ UNCHANGED unusable
           \/ unusable' = TRUE /\ UNCHANGED wire
           \/ hand[1].op = "close" /\ UNCHANGED <<wire, unusable>>
    PROVE  OrderInv'
<1> DEFINE q == Kept(toBeWritten, Written)
           f == hand[1]
           o == lwsCloseStatus = Nil
<1>1. /\ hand = <<f>> /\ f \in Frame /\ q \in Seq(Frame) /\ unusable = FALSE
      /\ Due = Kept(hand, Written) \o q
  BY OrderTypes DEF OpenInv, NoFrame
<1>2. <<>> \o toBeWritten = toBeWritten
  BY OrderTypes
<1>3. Due' = q /\ Accepted' = Accepted
  BY <1>2 DEF Due, Accepted
<1>4. Kept(hand, Written) = IF f \in Written THEN <<f>> ELSE <<>>
  <2>1. Kept(<<f>>, Written) = IF f \in Written THEN <<f>> ELSE <<>>
    BY <1>1, DueIs
  <2> QED
    BY ONLY <1>1, <2>1
<1>5. InOrder(Accepted, wire, Due, FALSE, o)
  BY <1>1 DEF OrderInv
<1>6. f \in Written <=> f.op # "close"
  BY <1>1 DEF Written
<1> HIDE DEF q, f, o
<1>7. CASE f.op # "close" /\ wire' = Append(wire, f) /\ UNCHANGED unusable
  <2>1. Due = <<f>> \o q
    BY <1>1, <1>4, <1>6, <1>7
  <2>2. InOrder(Accepted, Append(wire, f), q, FALSE, o)
    BY <1>1, <1>5, <2>1, OrderWrite
  <2> QED
    BY <1>1, <1>3, <1>7, <2>2 DEF OrderInv, o
<1>8. CASE unusable' = TRUE /\ UNCHANGED wire
  <2>1. InOrder(Accepted, wire, q, TRUE, o)
    BY <1>1, <1>5, OrderFail
  <2> QED
    BY <1>3, <1>8, <2>1 DEF OrderInv, o
<1>9. CASE f.op = "close" /\ UNCHANGED <<wire, unusable>>
  <2>1. Due = q
    BY <1>1, <1>4, <1>6, <1>9
  <2> QED
    BY <1>1, <1>3, <1>5, <1>9, <2>1 DEF OrderInv, o
<1> QED
  BY <1>7, <1>8, <1>9 DEF f

\* Any other step leaves the frames, and may only break the socket.
LEMMA OrderRest ==
    ASSUME TypeOK, OrderInv, UNCHANGED <<accepted, wire, hand, toBeWritten, lwsCloseStatus>>,
           unusable' = TRUE \/ UNCHANGED unusable
    PROVE  OrderInv'
<1>1. Due' = Due /\ Accepted' = Accepted
  BY DEF Due, Accepted
<1>2. CASE UNCHANGED unusable
  BY <1>1, <1>2 DEF OrderInv
<1>3. CASE unusable' = TRUE
  <2> DEFINE o == lwsCloseStatus = Nil
  <2> HIDE DEF o
  <2>1. InOrder(Accepted, wire, Due, unusable, o)
    BY DEF OrderInv, o
  <2>2. InOrder(Accepted, wire, Due, TRUE, o)
    BY <2>1, OrderTypes, OrderFail
  <2> QED
    BY <1>1, <1>3, <2>2 DEF OrderInv, o
<1> QED
  BY <1>2, <1>3

\* Every step keeps the order.
LEMMA OrderSteps ==
    ASSUME TypeOK, ClosedQueueEmpty, OpenInv, OrderInv, [Next]_vars
    PROVE  OrderInv'
<1>1. CASE RunMarkAsClosed \/ Deinit
  <2>1. /\ UNCHANGED <<accepted, wire, hand, unusable>>
        /\ \/ UNCHANGED <<lwsCloseStatus, toBeWritten>>
           \/ toBeWritten' = <<>> /\ RunMarkAsClosed /\ lwsCloseStatus' = Head(loop).arg
           \/ toBeWritten' = <<>> /\ lwsCloseStatus' = goingAway
    BY <1>1 DEF RunMarkAsClosed, Deinit, TakeWrites, wsiVars, seenVars
  <2>2. RunMarkAsClosed => Head(loop).arg # Nil
    <3>1. RunMarkAsClosed => loop # <<>> /\ loop \in Seq(Tasks) /\ Head(loop).t = "markAsClosed"
      BY DEF RunMarkAsClosed, TypeOK, TypeQueues
    <3>2. RunMarkAsClosed => Head(loop) \in Tasks
      BY <3>1
    <3> QED
      BY <3>1, <3>2, TaskArgs, NilAssumption
  <2>3. goingAway # Nil
    BY NilAssumption DEF Statuses
  <2> QED
    BY <2>1, <2>2, <2>3, OrderRest, OrderClose
<1>2. CASE WriteData \/ WritePing
  <2>1. /\ hand # <<>> /\ hand[1].op # "close" /\ hand' = <<>>
        /\ UNCHANGED <<accepted, toBeWritten, lwsCloseStatus>>
        /\ \/ wire' = Append(wire, hand[1]) /\ UNCHANGED unusable
           \/ unusable' = TRUE /\ UNCHANGED wire
    BY <1>2 DEF WriteData, WritePing, NoFrame, clientVars
  <2> QED
    BY <2>1, OrderHand
<1>3. CASE WriteClose
  <2>1. /\ hand # <<>> /\ hand[1].op = "close" /\ hand' = <<>>
        /\ UNCHANGED <<accepted, toBeWritten, lwsCloseStatus, wire, unusable>>
    BY <1>3 DEF WriteClose, NoFrame, seenVars
  <2> QED
    BY <2>1, OrderHand
<1>4. CASE \/ UNCHANGED vars \/ (\E m \in Msgs : Send(m) \/ Close(m) \/ LoopSend(m) \/ LoopClose(m))
           \/ OnClose \/ Release \/ RunSend \/ SendWritable \/ ResolvePending
           \/ FinishMarkAsClosed \/ RunNotify \/ RunSetOnClose \/ RunConnectResult
           \/ ConnectTimeout
  <2>1. UNCHANGED orderVars
    BY <1>4 DEF vars, Send, Close, LoopSend, LoopClose, OnClose, Release, RunSend, SendWritable,
         ResolvePending, FinishMarkAsClosed, RunNotify, RunSetOnClose, RunConnectResult,
         ConnectTimeout, clientVars, wsiVars, seenVars, orderVars
  <2> QED
    BY <2>1, OrderRest DEF orderVars
<1>5. CASE \/ Connect \/ WriteableEmpty \/ WriteableNoClient \/ SendClose \/ CloseTimeout
           \/ WsiDestroy \/ Handshake \/ Network
  <2>1. /\ UNCHANGED <<accepted, wire, hand, toBeWritten, lwsCloseStatus>>
        /\ unusable' = TRUE \/ UNCHANGED unusable
    BY <1>5 DEF Connect, WriteableEmpty, WriteableNoClient, SendClose, CloseTimeout, WsiDestroy,
         Handshake, Network, Established, ConnectionError, RecvClose, RecvCloseAck, RecvBad,
         ConnectionLost, clientVars, seenVars
  <2> QED
    BY <2>1, OrderRest
<1> QED
  BY <1>1, <1>2, <1>3, <1>4, <1>5, OrderEnqueue, OrderPop
     DEF Next, Owner, LoopStep, LoopOwner, ServiceStep

\* Only send() accepts frames.
LEMMA AcceptedStays ==
    ASSUME [Next]_vars, ~SendEnqueue
    PROVE  UNCHANGED accepted
<1>1. CASE \/ UNCHANGED vars \/ (\E m \in Msgs : Send(m) \/ Close(m) \/ LoopSend(m) \/ LoopClose(m))
           \/ OnClose \/ Release \/ RunSend \/ SendWritable \/ ResolvePending
           \/ FinishMarkAsClosed \/ RunNotify \/ RunSetOnClose \/ RunConnectResult
           \/ ConnectTimeout \/ RunMarkAsClosed \/ Deinit
  BY <1>1 DEF vars, Send, Close, LoopSend, LoopClose, OnClose, Release, RunSend, SendWritable,
       ResolvePending, FinishMarkAsClosed, RunNotify, RunSetOnClose, RunConnectResult,
       ConnectTimeout, RunMarkAsClosed, Deinit, seenVars
<1>2. CASE ServiceStep \/ Handshake \/ Network
  BY <1>2 DEF ServiceStep, Connect, WriteableEmpty, WriteablePop, WriteableNoClient, WriteData,
       WritePing, WriteClose, SendClose, CloseTimeout, WsiDestroy, Handshake, Network,
       Established, ConnectionError, RecvClose, RecvCloseAck, RecvBad, ConnectionLost, seenVars
<1> QED
  BY <1>1, <1>2 DEF Next, Owner, LoopStep, LoopOwner

\* What send() does when it gets as far as the queue.
LEMMA EnqueueIs ==
    ASSUME TypeOK, KnownInv, SendEnqueue, ~UNCHANGED accepted
    PROVE  /\ accepted' = accepted \o FramesOf(cur.msg) /\ cur = At("enqueue", cur.msg)
           /\ cur.msg \in Msgs /\ cur.msg \in submitted /\ cur' = At("writable", cur.msg)
           /\ UNCHANGED <<loop, submitted>>
<1>1. /\ accepted' = accepted \o FramesOf(cur.msg) /\ cur.pc = "enqueue"
      /\ cur' = At("writable", cur.msg) /\ UNCHANGED <<loop, submitted>>
  BY DEF SendEnqueue
<1>2. cur \in CurStates /\ cur.msg \in Msgs
  BY <1>1, CurArgs DEF TypeOK, TypeStates
<1>3. cur = At("enqueue", cur.msg)
  BY <1>1, <1>2 DEF CurStates, At, Idle
<1> QED
  BY <1>1, <1>2, <1>3 DEF KnownInv

\* The frame of a close() is one that is not written.
LEMMA CloseFrames ==
    ASSUME NEW m \in CloseMsgs, NEW S
    PROVE  FramesOf(m) \in Seq(Passed(S)) /\ Kept(FramesOf(m), Written) = <<>>
<1> DEFINE f == SingleFrame(m)
<1>1. m \in Msgs /\ FramesOf(m) = <<f>>
  BY MsgsAssumption DEF FramesOf
<1>2. f \in Frame /\ f.op = "close"
  <2>1. FramesOf(m) \in Seq(Frame)
    BY <1>1, FramesOfType
  <2>2. f \in Frame
    BY <1>1, <2>1
  <2> QED
    BY <2>2 DEF SingleFrame
<1> HIDE DEF f
<1>3. f \in Passed(S) /\ f \notin Written
  BY <1>2 DEF Passed, Written
<1>4. Kept(<<f>>, Written) = <<>>
  <2>1. <<>> \in Seq(Frame)
    OBVIOUS
  <2> QED
    BY <1>2, <1>3, <2>1, DueIs
<1> QED
  BY <1>1, <1>3, <1>4

\* Every step keeps accepted messages out of the loop.
LEMMA PassedSteps ==
    ASSUME TypeOK, HeldInv, KnownInv, PassedInv, [Next]_vars
    PROVE  PassedInv'
<1>1. accepted \in Seq(Passed(Through'))
  <2>1. Passed(Through) \subseteq Passed(Through')
    BY ThroughGrows DEF Passed
  <2> QED
    BY <2>1 DEF PassedInv
<1>2. CASE UNCHANGED accepted
  BY <1>1, <1>2 DEF PassedInv
<1>3. CASE ~UNCHANGED accepted
  <2> DEFINE m == cur.msg
  <2>1. SendEnqueue
    BY <1>3, AcceptedStays
  <2>2. /\ accepted' = accepted \o FramesOf(m) /\ cur = At("enqueue", m)
        /\ m \in Msgs /\ m \in submitted /\ cur' = At("writable", m)
        /\ UNCHANGED <<loop, submitted>>
    BY <1>3, <2>1, EnqueueIs
  <2> HIDE DEF m
  <2>3. FramesOf(m) \in Seq(Passed(Through'))
    <3>1. CASE m \in CloseMsgs
      BY <3>1, CloseFrames
    <3>2. CASE m \notin CloseMsgs
      <4>1. m \in Promised
        BY <2>2, <3>2 DEF Promised
      <4>2. ~Has(loop, Sending(m))
        BY <2>2, <4>1 DEF HeldInv, HeldOnce
      <4>3. loop \in Seq(Others(m))
        <5>1. loop \in Seq(Tasks)
          BY DEF TypeOK, TypeQueues
        <5>2. \A i \in DOMAIN loop : loop[i] \in Others(m)
          BY <4>2, <5>1 DEF Has, Others
        <5> QED
          BY <5>1, <5>2
      <4>4. cur' # At("enqueue", m)
        BY <2>2 DEF At
      <4>5. m \in Through'
        BY <2>2, <4>3, <4>4 DEF Through
      <4>6. Of(m) \cap Written \subseteq Passed(Through')
        BY <4>5 DEF Of, Written, Passed
      <4>7. FramesOf(m) \in Seq(Of(m) \cap Written)
        BY <4>1, FramesGood
      <4> QED
        BY <4>6, <4>7
    <3> QED
      BY <3>1, <3>2
  <2>4. accepted \o FramesOf(m) \in Seq(Passed(Through'))
    BY <1>1, <2>3, SeqOps
  <2> QED
    BY <2>2, <2>4 DEF PassedInv
<1> QED
  BY <1>2, <1>3

\* Every step keeps what was accepted good.
LEMMA GoodSteps ==
    ASSUME TypeOK, KnownInv, PassedInv, GoodInv, [Next]_vars
    PROVE  GoodInv'
<1>1. CASE UNCHANGED accepted
  BY <1>1 DEF GoodInv, Accepted
<1>2. CASE ~UNCHANGED accepted
  <2> DEFINE m == cur.msg
             F == FramesOf(m)
  <2>1. SendEnqueue
    BY <1>2, AcceptedStays
  <2>2. accepted' = accepted \o F /\ cur = At("enqueue", m) /\ m \in Msgs
    BY <1>2, <2>1, EnqueueIs
  <2> HIDE DEF m
  <2>3. F \in Seq(Frame) /\ accepted \in Seq(Frame)
    BY <2>2, FramesOfType DEF TypeOK, TypeQueues
  <2>4. Accepted' = Accepted \o Kept(F, Written) /\ Accepted \in Seq(Frame)
    BY <2>2, <2>3, DueIs DEF Accepted
  <2>5. CASE m \in CloseMsgs
    <3>1. Kept(F, Written) = <<>>
      BY <2>5, CloseFrames
    <3>2. Accepted \o <<>> = Accepted
      BY <2>4
    <3> QED
      BY <2>4, <3>1, <3>2 DEF GoodInv
  <2>6. CASE m \notin CloseMsgs
    <3>1. m \in Promised
      BY <2>2, <2>6 DEF Promised
    <3>2. /\ F \in Seq(Of(m) \cap Written) /\ F # <<>> /\ Good(F) /\ EndsWhole(F)
      BY <3>1, FramesGood
    <3> HIDE DEF F
    <3>3. Kept(F, Written) = F
      <4>1. \A i \in DOMAIN F : F[i] \in Written
        BY <3>2
      <4> QED
        BY <2>3, <4>1, KeptAll
    <3>4. F \in Seq(Of(m))
      BY <3>2
    <3>5. \A i \in DOMAIN Accepted : Accepted[i].msg # m
      <4> SUFFICES ASSUME NEW i \in DOMAIN Accepted PROVE Accepted[i].msg # m
        OBVIOUS
      <4>1. Accepted[i] \in Written /\ \E j \in DOMAIN accepted : accepted[j] = Accepted[i]
        BY <2>3, KeptFrom DEF Accepted
      <4>2. \A j \in DOMAIN accepted : accepted[j] \in Passed(Through)
        BY DEF PassedInv
      <4>3. Accepted[i].msg \in Through
        BY <4>1, <4>2 DEF Passed, Written
      <4>4. m \notin Through
        BY <2>2 DEF Through
      <4> QED
        BY <4>3, <4>4
    <3>6. Good(Accepted \o F) /\ EndsWhole(Accepted \o F)
      BY <2>4, <3>2, <3>4, <3>5, GoodConcat DEF GoodInv
    <3> QED
      BY <2>4, <3>3, <3>6 DEF GoodInv, F
  <2> QED
    BY <2>5, <2>6
<1> QED
  BY <1>1, <1>2

\* The peer gets the frames in the order the sends were accepted, the frames of a message
\* next to each other up to its last, none but a ping longer than maxFrameSize, and with the last frame
\* of a message exactly its bytes: whatever markAsClosed, deinit, a failing write or another
\* thread's send() does to the queue meanwhile.
THEOREM WireInOrderCorrect == Spec => []WireInOrder
<1> DEFINE Inv == PassedInv /\ GoodInv /\ OrderInv
           Other == TypeOK /\ ClosedQueueEmpty /\ HeldInv /\ (KnownInv /\ OpenInv)
<1>1. Init => Inv
  <2> SUFFICES ASSUME Init PROVE Inv
    OBVIOUS
  <2>1. /\ accepted = <<>> /\ wire = <<>> /\ hand \o toBeWritten = <<>> /\ <<>> \in Seq(Frame)
        /\ <<>> \in Seq(Passed(Through)) /\ <<>> \o <<>> = <<>>
    BY DEF Init, NoFrame
  <2>2. Kept(<<>>, Written) = <<>>
    BY <2>1, KeptBasics
  <2>3. PassedInv
    BY <2>1 DEF PassedInv
  <2>4. GoodInv
    BY <2>1, <2>2 DEF GoodInv, Accepted, Good, Chained, Short, Complete, EndsWhole
  <2>5. Starts(<<>>, <<>>)
    BY <2>1 DEF Starts
  <2>6. InOrder(<<>>, <<>>, <<>>, unusable, lwsCloseStatus = Nil)
    BY <2>1, <2>5 DEF InOrder
  <2>7. OrderInv
    BY <2>1, <2>2, <2>6 DEF OrderInv, Accepted, Due
  <2> QED
    BY <2>3, <2>4, <2>7
<1>2. Inv /\ Other /\ [Next]_vars => Inv'
  BY PassedSteps, GoodSteps, OrderSteps
<1>3. TypeOK /\ Inv => WireInOrder
  <2> SUFFICES ASSUME TypeOK, Inv PROVE WireInOrder
    OBVIOUS
  <2>1. wire \in Seq(Frame) /\ Accepted \in Seq(Frame)
    BY DEF OrderInv, InOrder
  <2>2. PICK u \in Seq(Frame) : Accepted = wire \o u
    BY DEF OrderInv, InOrder, Starts
  <2>3. Good(wire)
    <3>1. Good(wire \o u)
      BY <2>2 DEF GoodInv
    <3> QED
      BY <2>1, <3>1, GoodStart
  <2>4. IsPrefix(wire, Kept(accepted, Written))
    <3>1. Parts(Accepted, wire, u)
      BY <2>1, <2>2, ConcatParts
    <3>2. /\ Len(wire) <= Len(Accepted) /\ Len(wire) \in Nat
          /\ \A i \in 1..Len(wire) : Accepted[i] = wire[i]
      BY <3>1 DEF Parts
    <3>3. SubSeq(wire, 1, Len(wire)) = SubSeq(Accepted, 1, Len(wire))
      BY <2>1, <3>2
    <3> QED
      BY <3>2, <3>3 DEF IsPrefix, Accepted
  <2> QED
    BY <2>3, <2>4 DEF WireInOrder, Good, Chained, Linked, Short, Complete
<1>4. Spec => []Other
  BY TypeCorrect, ClosedQueueEmptyCorrect, HeldAlways, KnownAlways, PTL
<1> HIDE DEF Inv, Other
<1>5. Inv /\ Other => WireInOrder
  BY <1>3 DEF Other
<1> QED
  BY <1>1, <1>2, <1>4, <1>5, PTL DEF Spec
=============================================================================
