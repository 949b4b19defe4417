--------------------------------- MODULE Queue ---------------------------------
(***************************************************************************)
(* The send queue (queue.go): a ring buffer, a mutex, a condition variable *)
(* and a closed flag, used by any number of goroutines.                    *)
(*                                                                         *)
(* What a goroutine does while it holds the mutex is one step.  Signal and *)
(* Broadcast of the senders come after the unlock and are steps of their   *)
(* own; Wait joins the waiting set before it lets go of the mutex, and a   *)
(* goroutine that has been woken must take the mutex again and tests the   *)
(* condition again.  The buffer is the queue the ring buffer implements    *)
(* (RingBuffer).  A call on a closed queue that changes nothing (Send and  *)
(* BatchSend returning false) is a stuttering step.                        *)
(***************************************************************************)
EXTENDS Integers, Sequences, FiniteSets

CONSTANTS
    Proc,      \* goroutines
    Value,     \* elements
    MaxLen,    \* bound on the number of elements in the buffer
    MaxBatch   \* bound on the length of a batch

ASSUME QueueAssumption ==
    /\ IsFiniteSet(Proc)
    /\ MaxLen \in Nat
    /\ MaxBatch \in Nat

VARIABLES
    buffer,
    closed,
    waiting,  \* the goroutines in notEmpty.Wait()
    call,     \* what each goroutine has still to do
    ended     \* a receiver has been told that the queue is closed

vars == <<buffer, closed, waiting, call, ended>>

Receiving == {"receive", "receiveBatch"}

TypeOK ==
    /\ buffer \in Seq(Value)
    /\ closed \in BOOLEAN
    /\ waiting \subseteq Proc
    /\ call \in [Proc -> {"none", "signal", "broadcast"} \cup Receiving]
    /\ ended \in BOOLEAN
    /\ \A p \in waiting : call[p] \in Receiving

Init ==
    /\ buffer = <<>> /\ closed = FALSE
    /\ waiting = {}
    /\ call = [p \in Proc |-> "none"]
    /\ ended = FALSE

-----------------------------------------------------------------------------
(* Senders.                                                                *)

\* How many are to be woken for n new elements.
MutAnnounce(n) == IF n > 0 THEN "signal" ELSE "none"

Announce(n) ==
    CASE n = 0 -> "none"
      [] n = 1 -> "signal"
      [] n > 1 -> "broadcast"

\* BatchSend, and Send when the batch has one element: a closed queue takes
\* nothing.
BatchSend(p, values) ==
    /\ call[p] = "none" /\ ~closed
    /\ Len(buffer) + Len(values) <= MaxLen
    /\ buffer' = buffer \o values
    /\ call' = [call EXCEPT ![p] = Announce(Len(values))]
    /\ UNCHANGED <<closed, waiting, ended>>

\* notEmpty.Signal(): one waiting goroutine, if there is one.
Signal(p) ==
    /\ call[p] = "signal"
    /\ call' = [call EXCEPT ![p] = "none"]
    /\ IF waiting = {} THEN UNCHANGED waiting
       ELSE \E w \in waiting : waiting' = waiting \ {w}
    /\ UNCHANGED <<buffer, closed, ended>>

\* notEmpty.Broadcast()
Broadcast(p) ==
    /\ call[p] = "broadcast"
    /\ call' = [call EXCEPT ![p] = "none"]
    /\ waiting' = {}
    /\ UNCHANGED <<buffer, closed, ended>>

-----------------------------------------------------------------------------
(* Receivers.                                                              *)

\* Pop or PopAll.
Take(p, how) ==
    /\ buffer # <<>>
    /\ buffer' = IF how = "receive" THEN Tail(buffer) ELSE <<>>
    /\ call' = [call EXCEPT ![p] = "none"]
    /\ UNCHANGED <<closed, waiting, ended>>

\* Closed and nothing left: the receiver is told so.
TellEnd(p) ==
    /\ buffer = <<>> /\ closed
    /\ ended' = TRUE
    /\ call' = [call EXCEPT ![p] = "none"]
    /\ UNCHANGED <<buffer, closed, waiting>>

Wait(p, how) ==
    /\ buffer = <<>> /\ ~closed
    /\ waiting' = waiting \cup {p}
    /\ call' = [call EXCEPT ![p] = how]
    /\ UNCHANGED <<buffer, closed, ended>>

\* Receive and ReceiveBatch, called ...
Receive(p, how) ==
    /\ call[p] = "none"
    /\ Take(p, how) \/ TellEnd(p) \/ Wait(p, how)

\* ... and going on after Wait has returned.
MutRetryOnce(p) ==
    /\ call[p] \in Receiving /\ p \notin waiting
    /\ \/ Take(p, call[p]) \/ TellEnd(p)
       \/ /\ buffer = <<>> /\ ~closed
          /\ call' = [call EXCEPT ![p] = "none"]
          /\ UNCHANGED <<buffer, closed, waiting, ended>>

Retry(p) ==
    /\ call[p] \in Receiving /\ p \notin waiting
    /\ Take(p, call[p]) \/ TellEnd(p) \/ Wait(p, call[p])

\* TryReceive and TryReceiveBatch: as above, without waiting.  TryReceive does
\* not tell a closed queue from an empty one.
TryReceive(p) == call[p] = "none" /\ Take(p, "receive")

TryReceiveBatch(p) == call[p] = "none" /\ (Take(p, "receiveBatch") \/ TellEnd(p))

-----------------------------------------------------------------------------
\* Close, once: everybody is woken before the mutex is released.
MutClose(p) ==
    /\ call[p] = "none" /\ ~closed
    /\ closed' = TRUE
    /\ UNCHANGED <<buffer, waiting, call, ended>>

Close(p) ==
    /\ call[p] = "none" /\ ~closed
    /\ closed' = TRUE /\ waiting' = {}
    /\ UNCHANGED <<buffer, call, ended>>

Batch == UNION {[1 .. n -> Value] : n \in 0 .. MaxBatch}

Next == \E p \in Proc :
    \/ \E values \in Batch : BatchSend(p, values)
    \/ Signal(p) \/ Broadcast(p)
    \/ \E how \in Receiving : Receive(p, how)
    \/ Retry(p)
    \/ TryReceive(p) \/ TryReceiveBatch(p)
    \/ Close(p)

\* A goroutine that has been woken or has a wake-up to deliver goes on.  Nobody
\* has to send, to close or to call Receive.
Fairness == \A p \in Proc : WF_vars(Signal(p)) /\ WF_vars(Broadcast(p)) /\ WF_vars(Retry(p))

Spec == Init /\ [][Next]_vars
FairSpec == Spec /\ Fairness

-----------------------------------------------------------------------------
(* Properties.                                                             *)

\* No wake-up is lost: while anybody waits, the queue is open and there are at
\* least as many goroutines that are going to look at the buffer, woken or about
\* to be woken, as there are elements in it.  Signals are sent after the unlock,
\* and anybody may have taken the element or closed the queue in between.
Woken(p) == call[p] \in Receiving /\ p \notin waiting

WakeUps == {p \in Proc : call[p] = "signal" \/ Woken(p)}

WakeUpsSuffice ==
    waiting # {} =>
        /\ ~closed
        /\ \/ \E p \in Proc : call[p] = "broadcast"
           \/ Len(buffer) <= Cardinality(WakeUps)

\* Who is told that the queue has ended has been given everything: nothing is
\* left and nothing is accepted any more.  The sender goroutine of a connection
\* closes the socket on that word (conn.go:80).
EndIsFinal == ended => closed /\ buffer = <<>>

\* Mutex and condition variable implement a channel.
WaitsFor(p) ==
    IF call[p] = "receive" THEN "one"
    ELSE IF call[p] = "receiveBatch" THEN "all" ELSE "nothing"

C == INSTANCE Channel WITH items <- buffer, waits <- [p \in Proc |-> WaitsFor(p)]

ImplementsChannel == C!Spec

\* ... that serves those who wait: none of them sleeps while there is something
\* for it.
ServesWaiters == C!Fairness
================================================================================
