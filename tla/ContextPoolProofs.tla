------------------------- MODULE ContextPoolProofs -------------------------
(***************************************************************************)
(* Proofs about ContextPool, for any number of threads, cores and calls.   *)
(*                                                                         *)
(* BuiltOnce and CanRetry need each other: the flag is the token of the    *)
(* thread that builds the pool, so the invariant says who may have it      *)
(* (BuildInv).  Spread needs the state of the turn: the contexts up to     *)
(* nextSharedContext have been given out once more than the rest           *)
(* (TurnInv), which starts from a turn that early callers left at 0.       *)
(***************************************************************************)
EXTENDS ContextPool, TLAPS

\* the flag is set exactly while a thread builds the pool or once it is there
BuildInv ==
    /\ BuiltOnce
    /\ CanRetry
    /\ \A t \in Threads : Building(t) => sharedContextCreated
    /\ shared > 0 => sharedContextCreated

\* the contexts 1..nextSharedContext had their turn in this round
Turn(k) == \A i \in Indices : used[i] = IF 1 <= i /\ i <= nextSharedContext THEN k + 1 ELSE k
TurnInv ==
    /\ \E k \in Nat : Turn(k)
    /\ shared = 0 => nextSharedContext = 0

\* Initially the variables have their types.
LEMMA TypeInit == Init => TypeOK
<1> SUFFICES ASSUME Init PROVE TypeOK
  OBVIOUS
<1>1. 0 \in Indices
  BY PoolAssumption DEF Indices
<1>2. sharedContextCreated \in BOOLEAN
  BY DEF Init
<1>3. /\ nextSharedContext \in Indices /\ shared \in {0, coreCount}
      /\ calls \in 0..maxCalls
  BY <1>1, PoolAssumption DEF Init
<1>4. /\ made \in [Threads -> 0..coreCount] /\ nextId \in [Threads -> Indices]
      /\ used \in [Indices -> Nat]
  BY <1>1, PoolAssumption DEF Init
<1>5. /\ pc \in [Threads -> {"idle", "look", "create", "store", "next", "index"}]
      /\ result \in [Threads -> Indices \cup {Nil, NotYet}]
  BY DEF Init
<1> QED BY <1>2, <1>3, <1>4, <1>5 DEF TypeOK

\* The index given out is one of the pool's.
LEMMA AdvanceInRange == TypeOK => Advance \in Indices
BY PoolAssumption DEF TypeOK, Advance, Indices

\* Every step keeps the types.
LEMMA TypeStep == TypeOK /\ [Next]_vars => TypeOK'
<1> SUFFICES ASSUME TypeOK, [Next]_vars PROVE TypeOK'
  OBVIOUS
<1> USE PoolAssumption DEF TypeOK, Goto, Indices, Nil, NotYet
<1>1. ASSUME NEW t \in Threads, Call(t) PROVE TypeOK'
  BY <1>1 DEF Call
<1>2. ASSUME NEW t \in Threads, Look(t) PROVE TypeOK'
  BY <1>2 DEF Look
<1>3. ASSUME NEW t \in Threads, Create(t) PROVE TypeOK'
  BY <1>3 DEF Create
<1>4. ASSUME NEW t \in Threads, Store(t) PROVE TypeOK'
  BY <1>4 DEF Store
<1>5. ASSUME NEW t \in Threads, NextId(t) PROVE TypeOK'
  <2>1. Advance \in Indices
    BY AdvanceInRange
  <2>2. used' \in [Indices -> Nat] /\ nextId' \in [Threads -> Indices]
    BY <1>5, <2>1 DEF NextId
  <2> QED BY <1>5, <2>1, <2>2 DEF NextId
<1>6. ASSUME NEW t \in Threads, Index(t) PROVE TypeOK'
  BY <1>6 DEF Index
<1>7. CASE UNCHANGED vars
  BY <1>7 DEF vars
<1> QED BY <1>1, <1>2, <1>3, <1>4, <1>5, <1>6, <1>7 DEF Next, Step

\* Type correctness of shared(): in particular the index it uses is always in range.
THEOREM TypeCorrect == Spec => []TypeOK
<1> QED BY TypeInit, TypeStep, PTL DEF Spec

-----------------------------------------------------------------------------

\* Initially nobody builds and the flag is clear.
LEMMA BuildInit == Init => BuildInv
BY DEF Init, BuildInv, BuiltOnce, CanRetry, Building

\* Every step keeps the flag with the thread that builds.
LEMMA BuildStep == TypeOK /\ BuildInv /\ [Next]_vars => BuildInv'
<1> SUFFICES ASSUME TypeOK, BuildInv, [Next]_vars PROVE BuildInv'
  OBVIOUS
<1> USE PoolAssumption DEF TypeOK, BuildInv, BuiltOnce, CanRetry, Building, Goto
<1>1. ASSUME NEW t \in Threads, Call(t) PROVE BuildInv'
  BY <1>1 DEF Call
<1>2. ASSUME NEW t \in Threads, Look(t) PROVE BuildInv'
  BY <1>2 DEF Look
<1>3. ASSUME NEW t \in Threads, Create(t) PROVE BuildInv'
  BY <1>3 DEF Create
<1>4. ASSUME NEW t \in Threads, Store(t) PROVE BuildInv'
  BY <1>4 DEF Store
<1>5. ASSUME NEW t \in Threads, NextId(t) PROVE BuildInv'
  BY <1>5 DEF NextId
<1>6. ASSUME NEW t \in Threads, Index(t) PROVE BuildInv'
  BY <1>6 DEF Index
<1>7. CASE UNCHANGED vars
  BY <1>7 DEF vars
<1> QED BY <1>1, <1>2, <1>3, <1>4, <1>5, <1>6, <1>7 DEF Next, Step

\* One thread at a time builds the pool, and none once it is there.
THEOREM BuiltOnceCorrect == Spec => []BuiltOnce
<1>1. Spec => []BuildInv
  BY TypeCorrect, BuildInit, BuildStep, PTL DEF Spec
<1> QED BY <1>1, PTL DEF BuildInv

\* After a failed creation the next caller creates.
THEOREM CanRetryCorrect == Spec => []CanRetry
<1>1. Spec => []BuildInv
  BY TypeCorrect, BuildInit, BuildStep, PTL DEF Spec
<1> QED BY <1>1, PTL DEF BuildInv

-----------------------------------------------------------------------------

\* The turn starts at 0 with nothing given out.
LEMMA TurnInit == Init => TurnInv
<1> SUFFICES ASSUME Init PROVE TurnInv
  OBVIOUS
<1>1. Turn(0)
  BY DEF Init, Turn, Indices
<1> QED BY <1>1 DEF Init, TurnInv

\* Taking an index moves the turn on by one context, or starts the next round.
LEMMA TurnNext ==
    ASSUME TypeOK, TurnInv, NEW t \in Threads, NextId(t) PROVE TurnInv'
<1> USE PoolAssumption DEF TypeOK, Indices
<1>1. PICK k \in Nat : Turn(k)
  BY DEF TurnInv
<1>2. CASE shared = 0
  <2>1. Turn(k)' /\ nextSharedContext' = 0
    BY <1>1, <1>2 DEF NextId, Advance, Turn, TurnInv
  <2> QED BY <2>1 DEF TurnInv
<1>3. CASE shared # 0 /\ nextSharedContext >= shared - 1
  <2>1. Turn(k + 1)'
    BY <1>1, <1>3 DEF NextId, Advance, Turn
  <2> QED BY <1>3, <2>1 DEF TurnInv, NextId
<1>4. CASE shared # 0 /\ nextSharedContext < shared - 1
  <2>1. Turn(k)'
    BY <1>1, <1>4 DEF NextId, Advance, Turn
  <2> QED BY <1>4, <2>1 DEF TurnInv, NextId
<1> QED BY <1>2, <1>3, <1>4

\* Every step keeps the turn; a pool that is there does not go away.
LEMMA TurnStep == TypeOK /\ TurnInv /\ [Next]_vars => TurnInv'
<1> SUFFICES ASSUME TypeOK, TurnInv, [Next]_vars PROVE TurnInv'
  OBVIOUS
<1>1. ASSUME NEW t \in Threads, NextId(t) PROVE TurnInv'
  BY <1>1, TurnNext
<1>2. CASE UNCHANGED <<used, nextSharedContext>> /\ (shared' = 0 => shared = 0)
  BY <1>2 DEF TurnInv, Turn
<1>3. ASSUME NEW t \in Threads, Call(t) \/ Look(t) \/ Create(t) \/ Store(t) \/ Index(t)
      PROVE UNCHANGED <<used, nextSharedContext>> /\ (shared' = 0 => shared = 0)
  BY <1>3, PoolAssumption DEF Call, Look, Create, Store, Index
<1>4. UNCHANGED vars => UNCHANGED <<used, nextSharedContext>> /\ (shared' = 0 => shared = 0)
  BY DEF vars
<1> QED BY <1>1, <1>2, <1>3, <1>4 DEF Next, Step

\* Connections are spread evenly over the pool, whoever came while it was being built.
THEOREM SpreadCorrect == Spec => []Spread
<1>1. Spec => []TurnInv
  BY TypeCorrect, TurnInit, TurnStep, PTL DEF Spec
<1>2. TypeOK /\ TurnInv => Spread
  BY DEF TypeOK, TurnInv, Turn, Spread
<1> QED BY <1>1, <1>2, TypeCorrect, PTL
=============================================================================
