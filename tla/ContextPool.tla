---------------------------- MODULE ContextPool ----------------------------
(***************************************************************************)
(* WebsocketClientContext.shared(): the pool of one lws context per core,  *)
(* created by the first connect() and handed out in turn.  Any number of   *)
(* threads call it.  _sharedContextCreated and _nextSharedContext are      *)
(* locked values; _shared is a plain variable, read and written by steps   *)
(* of their own.                                                           *)
(***************************************************************************)
EXTENDS Integers

CONSTANTS
    Threads,
    coreCount,    \* System.coreCount
    maxCalls      \* bound on the calls of shared()

ASSUME PoolAssumption == coreCount \in Nat \ {0} /\ maxCalls \in Nat

VARIABLES
    sharedContextCreated, nextSharedContext,
    shared,      \* how many contexts _shared holds; 0 is nil
    made,        \* contexts the creating thread has made so far
    pc,          \* each thread's progress in shared()
    nextId,      \* the index it was given
    calls, used, \* history: calls made; how often the pool's contexts were given out
    result       \* each thread's last result: an index, Nil or none yet

vars == <<sharedContextCreated, nextSharedContext, shared, made, pc, nextId, calls, used,
          result>>

Indices == 0..(coreCount - 1)
Nil == -1
NotYet == -2

\* Every variable has its type.
TypeOK ==
    /\ sharedContextCreated \in BOOLEAN /\ nextSharedContext \in Indices
    /\ shared \in {0, coreCount} /\ made \in [Threads -> 0..coreCount]
    /\ pc \in [Threads -> {"idle", "look", "create", "store", "next", "index"}]
    /\ nextId \in [Threads -> Indices]
    /\ calls \in 0..maxCalls /\ used \in [Indices -> Nat]
    /\ result \in [Threads -> Indices \cup {Nil, NotYet}]

Init ==
    /\ sharedContextCreated = FALSE /\ nextSharedContext = 0 /\ shared = 0
    /\ made = [t \in Threads |-> 0]
    /\ pc = [t \in Threads |-> "idle"] /\ nextId = [t \in Threads |-> 0]
    /\ calls = 0 /\ used = [i \in Indices |-> 0]
    /\ result = [t \in Threads |-> NotYet]

Goto(t, l) == pc' = [pc EXCEPT ![t] = l]

-----------------------------------------------------------------------------

\* mutant: the flag is read and set without the lock's protection
CallUnlocked(t) ==
    /\ pc[t] = "idle" /\ calls < maxCalls
    /\ calls' = calls + 1
    /\ Goto(t, IF shared > 0 THEN "next" ELSE "create")
    /\ made' = [made EXCEPT ![t] = 0]
    /\ UNCHANGED <<sharedContextCreated, nextSharedContext, shared, nextId, used, result>>

\* shared() is called: test and set _sharedContextCreated
Call(t) ==
    /\ pc[t] = "idle" /\ calls < maxCalls
    /\ calls' = calls + 1
    /\ sharedContextCreated' = TRUE
    /\ Goto(t, IF sharedContextCreated THEN "next" ELSE "look")
    /\ UNCHANGED <<nextSharedContext, shared, made, nextId, used, result>>

\* the thread that set the flag: is there a pool all the same?
Look(t) ==
    /\ pc[t] = "look"
    /\ Goto(t, IF shared > 0 THEN "next" ELSE "create")
    /\ made' = [made EXCEPT ![t] = 0]
    /\ UNCHANGED <<sharedContextCreated, nextSharedContext, shared, nextId, calls, used,
                   result>>

\* coreCount times WebsocketClientContext(); each may fail, which is nil to shared() if the
\* process survives the deinit of the object that has no context (its init fails last)
Create(t) ==
    /\ pc[t] = "create"
    /\ \E n \in 0..coreCount : made' = [made EXCEPT ![t] = n]
    /\ Goto(t, "store")
    /\ UNCHANGED <<sharedContextCreated, nextSharedContext, shared, nextId, calls, used,
                   result>>

\* mutant: the flag stays set after a failure
StoreFlagKept(t) ==
    /\ pc[t] = "store"
    /\ shared' = IF made[t] = coreCount THEN coreCount ELSE shared
    /\ Goto(t, IF made[t] = coreCount THEN "next" ELSE "idle")
    /\ result' = IF made[t] = coreCount THEN result ELSE [result EXCEPT ![t] = Nil]
    /\ UNCHANGED <<sharedContextCreated, nextSharedContext, made, nextId, calls, used>>

\* all or nothing: _shared is set, or the flag is cleared for another try
Store(t) ==
    /\ pc[t] = "store"
    /\ \/ /\ made[t] = coreCount
          /\ shared' = coreCount /\ Goto(t, "next")
          /\ UNCHANGED <<sharedContextCreated, result>>
       \/ /\ made[t] < coreCount
          /\ sharedContextCreated' = FALSE
          /\ result' = [result EXCEPT ![t] = Nil] /\ Goto(t, "idle")
          /\ UNCHANGED shared
    /\ UNCHANGED <<nextSharedContext, made, nextId, calls, used>>

\* mutant: the turn goes back to 0 one index early
AdvanceEarly == IF nextSharedContext >= shared - 2 THEN 0 ELSE nextSharedContext + 1

\* the index after nextSharedContext; without a pool the count is taken as 0
Advance == IF nextSharedContext >= shared - 1 THEN 0 ELSE nextSharedContext + 1

\* nextShared(): take an index, under the lock of _nextSharedContext
NextId(t) ==
    /\ pc[t] = "next"
    /\ nextSharedContext' = Advance
    /\ nextId' = [nextId EXCEPT ![t] = Advance]
    /\ used' = IF shared = 0 THEN used ELSE [used EXCEPT ![Advance] = @ + 1]
    /\ Goto(t, "index")
    /\ UNCHANGED <<sharedContextCreated, shared, made, calls, result>>

\* _shared?[nextId]
Index(t) ==
    /\ pc[t] = "index"
    /\ result' = [result EXCEPT ![t] = IF shared = 0 THEN Nil ELSE nextId[t]]
    /\ Goto(t, "idle")
    /\ UNCHANGED <<sharedContextCreated, nextSharedContext, shared, made, nextId, calls,
                   used>>

Step(t) == Look(t) \/ Create(t) \/ Store(t) \/ NextId(t) \/ Index(t)
Next == \E t \in Threads : Call(t) \/ Step(t)

Spec == Init /\ [][Next]_vars

-----------------------------------------------------------------------------
(* Properties.                                                               *)

Building(t) == pc[t] \in {"look", "create", "store"}

\* The pool is built once: one thread at a time is building it, and as soon as it is there
\* none, which would strand the connections of the first.
BuiltOnce ==
    /\ \A t \in Threads : Building(t) => shared = 0
    /\ \A t, u \in Threads : Building(t) /\ Building(u) => t = u

\* A failed creation can be tried again: with no pool and nobody on the way to one the
\* next caller will create.
CanRetry == (shared = 0 /\ \A t \in Threads : ~Building(t)) => ~sharedContextCreated

\* Connections are spread evenly: since the pool is there every context was given out as
\* often as any other, give or take one; callers that came too early do not upset the turn.
Spread == \A i, j \in Indices : used[i] <= used[j] + 1
=============================================================================
