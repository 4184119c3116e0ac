----------------------------- MODULE Connection -----------------------------
(***************************************************************************)
(* What a WebsocketConnection promises its user, without a word on how:    *)
(* connect succeeds or fails once; a send() is settled once; the messages  *)
(* the connection has accepted reach the peer in the order it accepted     *)
(* them and nothing follows the end of the transport; the close status is  *)
(* set once, and told once.                                                *)
(***************************************************************************)
EXTENDS Naturals, Sequences, SequencesExt, Subsequences

CONSTANTS Msgs,        \* the send() and close() calls
          CloseMsgs,   \* the close() calls
          Statuses, Nil

VARIABLES result,      \* of connect
          calls,       \* the calls made so far
          promise,     \* of every send()
          queue,       \* the sends that are accepted and not yet settled, in order
          received,    \* the messages the peer has whole
          ended,       \* the transport is gone
          status, told

cvars == <<result, calls, promise, queue, received, ended, status, told>>

Init ==
    /\ result = "none" /\ calls = {} /\ promise = [m \in Msgs |-> "none"]
    /\ queue = <<>> /\ received = <<>> /\ ended = FALSE /\ status = Nil /\ told = <<>>

Over == ended \/ status # Nil

\* the promises of the sends S get the result res, and they leave the queue
Settle(S, res) ==
    /\ promise' = [m \in Msgs |-> IF m \in S THEN res ELSE promise[m]]
    /\ queue' = Kept(queue, Msgs \ S)

Connect ==
    /\ result = "none"
    /\ result' \in {"ok", "failed"}
    /\ UNCHANGED <<calls, promise, queue, received, ended, status, told>>

\* send() and close(): only a connection that is over refuses at once
Call(m) ==
    /\ result = "ok" /\ m \in Msgs \ calls
    /\ calls' = calls \cup {m}
    /\ \/ m \in CloseMsgs /\ UNCHANGED promise
       \/ m \notin CloseMsgs /\ promise' = [promise EXCEPT ![m] = "pending"]
       \/ m \notin CloseMsgs /\ Over /\ promise' = [promise EXCEPT ![m] = "failed"]
    /\ UNCHANGED <<result, queue, received, ended, status, told>>

Accept(m) ==
    /\ promise[m] = "pending" /\ ~Contains(queue, m) /\ status = Nil
    /\ queue' = Append(queue, m)
    /\ UNCHANGED <<result, calls, promise, received, ended, status, told>>

\* the first of the queue reaches the peer
Deliver ==
    /\ queue # <<>> /\ ~ended
    /\ received' = Append(received, Head(queue))
    /\ Settle({Head(queue)}, "ok")
    /\ UNCHANGED <<result, calls, ended, status, told>>

\* the transport ends; the send that was being written is settled either way, or waits
End ==
    /\ ~ended /\ ended' = TRUE
    /\ \/ UNCHANGED <<promise, queue>>
       \/ queue # <<>> /\ \E res \in {"ok", "failed"} : Settle({Head(queue)}, res)
    /\ UNCHANGED <<result, calls, received, status, told>>

Pending == {m \in Msgs : promise[m] = "pending"}

\* sends fail when, and only when, the connection is over
Fail ==
    /\ Over
    /\ \E S \in SUBSET Pending : S # {} /\ Settle(S, "failed")
    /\ UNCHANGED <<result, calls, received, ended, status, told>>

\* a close status: one the user asked for, or one that comes from elsewhere.  Sends that
\* wait may fail with it.
Close ==
    /\ status = Nil
    /\ status' \in Statuses /\ (status' \in CloseMsgs => status' \in calls)
    /\ \E S \in SUBSET Pending : Settle(S, "failed")
    /\ UNCHANGED <<result, calls, received, ended, told>>

Tell ==
    /\ status # Nil /\ told = <<>>
    /\ told' = <<status>>
    /\ UNCHANGED <<result, calls, promise, queue, received, ended, status>>

Next == Connect \/ (\E m \in Msgs : Call(m) \/ Accept(m)) \/ Deliver \/ End \/ Fail
        \/ Close \/ Tell

Spec == Init /\ [][Next]_cvars
=============================================================================
