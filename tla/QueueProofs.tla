------------------------------ MODULE QueueProofs ------------------------------
(***************************************************************************)
(* Proofs about Queue, for any number of goroutines, values and bounds: no *)
(* wake-up is lost, the end of the queue is final, and the mutex and the   *)
(* condition variable implement a channel.                                 *)
(***************************************************************************)
EXTENDS Queue, SequenceTheorems, FiniteSetTheorems, TLAPS

Sound == TypeOK /\ EndIsFinal /\ WakeUpsSuffice

-----------------------------------------------------------------------------
(* Types.                                                                  *)

LEMMA BatchIsSeq ==
  ASSUME NEW values \in Batch
  PROVE  values \in Seq(Value) /\ Len(values) \in Nat
<1>1. PICK n \in 0 .. MaxBatch : values \in [1 .. n -> Value]
  BY DEF Batch
<1>2. n \in Nat
  BY QueueAssumption
<1> QED BY <1>1, <1>2, SeqDef

LEMMA AnnounceType ==
  ASSUME NEW n \in Nat
  PROVE  /\ Announce(n) \in {"none", "signal", "broadcast"}
         /\ n = 0 <=> Announce(n) = "none"
         /\ n = 1 <=> Announce(n) = "signal"
<1>1. CASE n = 0
  BY <1>1 DEF Announce
<1>2. CASE n = 1
  BY <1>2 DEF Announce
<1>3. CASE n > 1
  BY <1>3 DEF Announce
<1> QED BY <1>1, <1>2, <1>3

LEMMA TailIsShorter ==
  ASSUME NEW S, NEW s \in Seq(S), s # <<>>
  PROVE  /\ Tail(s) \in Seq(S)
         /\ Len(s) \in Nat /\ Len(Tail(s)) = Len(s) - 1
  BY HeadTailProperties, LenProperties

LEMMA TypeInit == Init => TypeOK
  BY EmptySeq DEF Init, TypeOK, Receiving

LEMMA TypeTake ==
  ASSUME TypeOK, NEW p \in Proc, NEW how, Take(p, how), p \notin waiting
  PROVE  TypeOK'
<1>1. buffer' \in Seq(Value)
  BY TailIsShorter DEF Take, TypeOK
<1> QED BY <1>1 DEF Take, TypeOK

LEMMA TypeTellEnd ==
  ASSUME TypeOK, NEW p \in Proc, TellEnd(p), p \notin waiting
  PROVE  TypeOK'
  BY DEF TellEnd, TypeOK

LEMMA TypeWait ==
  ASSUME TypeOK, NEW p \in Proc, NEW how \in Receiving, Wait(p, how)
  PROVE  TypeOK'
  BY DEF Wait, TypeOK

LEMMA TypeNext == TypeOK /\ [Next]_vars => TypeOK'
<1> SUFFICES ASSUME TypeOK, [Next]_vars PROVE TypeOK'
  OBVIOUS
<1>0. ASSUME NEW p \in Proc, call[p] = "none" PROVE p \notin waiting
  BY <1>0 DEF TypeOK, Receiving
<1>1. ASSUME NEW p \in Proc, NEW values \in Batch, BatchSend(p, values) PROVE TypeOK'
  <2>1. values \in Seq(Value) /\ Len(values) \in Nat
    BY BatchIsSeq
  <2>2. Announce(Len(values)) \in {"none", "signal", "broadcast"}
    BY <2>1, AnnounceType
  <2>3. buffer \o values \in Seq(Value)
    BY <2>1, ConcatProperties DEF TypeOK
  <2>4. p \notin waiting
    BY <1>0, <1>1 DEF BatchSend
  <2> QED BY <1>1, <2>2, <2>3, <2>4 DEF BatchSend, TypeOK
<1>2. ASSUME NEW p \in Proc, Signal(p) \/ Broadcast(p) PROVE TypeOK'
  BY <1>2 DEF Signal, Broadcast, TypeOK, Receiving
<1>3. ASSUME NEW p \in Proc, NEW how \in Receiving, Receive(p, how) PROVE TypeOK'
  BY <1>0, <1>3, TypeTake, TypeTellEnd, TypeWait DEF Receive
<1>4. ASSUME NEW p \in Proc, Retry(p) PROVE TypeOK'
  BY <1>4, TypeTake, TypeTellEnd, TypeWait DEF Retry
<1>5. ASSUME NEW p \in Proc, TryReceive(p) \/ TryReceiveBatch(p) PROVE TypeOK'
  BY <1>0, <1>5, TypeTake, TypeTellEnd DEF TryReceive, TryReceiveBatch
<1>6. ASSUME NEW p \in Proc, Close(p) PROVE TypeOK'
  BY <1>6 DEF Close, TypeOK
<1>7. CASE UNCHANGED vars
  BY <1>7 DEF vars, TypeOK
<1> QED BY <1>1, <1>2, <1>3, <1>4, <1>5, <1>6, <1>7, Zenon DEF Next

-----------------------------------------------------------------------------
(* The end is final.                                                       *)

LEMMA EndNext ==
  ASSUME TypeOK, EndIsFinal, [Next]_vars
  PROVE  EndIsFinal'
<1>1. ASSUME NEW p \in Proc, NEW values \in Batch, BatchSend(p, values) PROVE EndIsFinal'
  BY <1>1 DEF BatchSend, EndIsFinal
<1>2. ASSUME NEW p \in Proc, Signal(p) \/ Broadcast(p) PROVE EndIsFinal'
  BY <1>2 DEF Signal, Broadcast, EndIsFinal
<1>3. ASSUME NEW p \in Proc, NEW how, Take(p, how) \/ TellEnd(p) \/ Wait(p, how) PROVE EndIsFinal'
  BY <1>3 DEF Take, TellEnd, Wait, EndIsFinal
<1>4. ASSUME NEW p \in Proc, Close(p) PROVE EndIsFinal'
  BY <1>4 DEF Close, EndIsFinal
<1>5. CASE UNCHANGED vars
  BY <1>5 DEF vars, EndIsFinal
<1> QED BY <1>1, <1>2, <1>3, <1>4, <1>5, Zenon
        DEF Next, Receive, Retry, TryReceive, TryReceiveBatch

-----------------------------------------------------------------------------
(* Wake-ups suffice.                                                       *)

\* The cardinalities involved are numbers.
LEMMA WakeUpsCount ==
  /\ IsFiniteSet(WakeUps) /\ Cardinality(WakeUps) \in Nat
  /\ IsFiniteSet(WakeUps') /\ Cardinality(WakeUps') \in Nat
<1>1. WakeUps \subseteq Proc /\ WakeUps' \subseteq Proc
  BY DEF WakeUps
<1> QED BY <1>1, QueueAssumption, FS_Subset, FS_CardinalityType

LEMMA LenIsNat == ASSUME NEW s \in Seq(Value) PROVE Len(s) \in Nat
  BY LenProperties

\* One element comes with one wake-up to deliver, several with a broadcast.
LEMMA WakeSend ==
  ASSUME TypeOK, WakeUpsSuffice, NEW p \in Proc, NEW values \in Batch, BatchSend(p, values)
  PROVE  WakeUpsSuffice'
<1> SUFFICES ASSUME waiting # {}
             PROVE  \/ \E q \in Proc : call'[q] = "broadcast"
                    \/ Len(buffer') <= Cardinality(WakeUps')
  BY DEF WakeUpsSuffice, BatchSend
<1> DEFINE n == Len(values)
<1>1. values \in Seq(Value) /\ n \in Nat
  BY BatchIsSeq
<1>2. Len(buffer') = Len(buffer) + n /\ Len(buffer) \in Nat
  BY <1>1, ConcatProperties, LenIsNat DEF BatchSend, TypeOK
<1>3. call' = [call EXCEPT ![p] = Announce(n)] /\ call[p] = "none"
  BY DEF BatchSend
<1>4. ASSUME NEW q \in Proc, call[q] = "broadcast" PROVE call'[q] = "broadcast"
  BY <1>3, <1>4 DEF TypeOK
<1>5. CASE n > 1
  <2>1. Announce(n) \notin {"none", "signal"}
    BY <1>1, <1>5, AnnounceType
  <2>2. Announce(n) = "broadcast"
    BY <1>1, <2>1, AnnounceType
  <2> QED BY <1>3, <2>2 DEF TypeOK
<1>6. CASE n = 1
  <2>1. Announce(n) = "signal"
    BY <1>6, AnnounceType
  <2>2. WakeUps' = WakeUps \cup {p} /\ p \notin WakeUps
    BY <1>3, <2>1 DEF WakeUps, Woken, Receiving, BatchSend, TypeOK
  <2>3. Cardinality(WakeUps') = Cardinality(WakeUps) + 1
    BY <2>2, WakeUpsCount, FS_AddElement
  <2> QED BY <1>2, <1>4, <1>6, <2>3, WakeUpsCount DEF WakeUpsSuffice
<1>7. CASE n = 0
  <2>1. Announce(n) = "none"
    BY <1>7, AnnounceType
  <2>2. WakeUps' = WakeUps
    BY <1>3, <2>1 DEF WakeUps, Woken, Receiving, BatchSend, TypeOK
  <2> QED BY <1>2, <1>4, <1>7, <2>2 DEF WakeUpsSuffice
<1>8. n = 0 \/ n = 1 \/ n > 1
  BY <1>1
<1> QED BY <1>5, <1>6, <1>7, <1>8

\* A signal that is delivered turns into a goroutine that has been woken.
LEMMA WakeSignal ==
  ASSUME TypeOK, WakeUpsSuffice, NEW p \in Proc, Signal(p)
  PROVE  WakeUpsSuffice'
<1> SUFFICES ASSUME waiting' # {} PROVE WakeUpsSuffice'
  BY DEF WakeUpsSuffice
<1>1. waiting # {}
  BY DEF Signal
<1>2. PICK w \in waiting : waiting' = waiting \ {w}
  BY <1>1 DEF Signal
<1>3. call' = [call EXCEPT ![p] = "none"] /\ call[p] = "signal"
  BY DEF Signal
<1>4. w \in Proc /\ call[w] \in Receiving /\ w # p
  BY <1>3 DEF TypeOK, Receiving
<1>5. w \notin WakeUps /\ p \in WakeUps
  BY <1>3, <1>4 DEF WakeUps, Woken, Receiving
<1>6. WakeUps' = (WakeUps \ {p}) \cup {w}
  BY <1>2, <1>3, <1>4 DEF WakeUps, Woken, Receiving, TypeOK
<1>7. Cardinality(WakeUps') = Cardinality(WakeUps)
  <2>1. /\ IsFiniteSet(WakeUps \ {p})
        /\ Cardinality(WakeUps \ {p}) = Cardinality(WakeUps) - 1
    BY <1>5, WakeUpsCount, FS_RemoveElement
  <2>2. Cardinality(WakeUps') = Cardinality(WakeUps \ {p}) + 1
    BY <1>5, <1>6, <2>1, FS_AddElement
  <2> QED BY <2>1, <2>2, WakeUpsCount
<1>8. ASSUME NEW q \in Proc, call[q] = "broadcast" PROVE call'[q] = "broadcast"
  BY <1>3, <1>8 DEF TypeOK
<1> QED BY <1>1, <1>7, <1>8 DEF WakeUpsSuffice, Signal

\* Who takes something gives up at most one wake-up.
LEMMA WakeTake ==
  ASSUME TypeOK, WakeUpsSuffice, NEW p \in Proc, NEW how, Take(p, how),
         call[p] = "none" \/ Woken(p)
  PROVE  WakeUpsSuffice'
<1>1. call' = [call EXCEPT ![p] = "none"] /\ waiting' = waiting /\ closed' = closed
  BY DEF Take
<1>2. WakeUps' = WakeUps \ {p}
  BY <1>1 DEF WakeUps, Woken, Receiving, TypeOK
<1>3. Cardinality(WakeUps') >= Cardinality(WakeUps) - 1
  BY <1>2, WakeUpsCount, FS_RemoveElement
<1>4. Len(buffer') <= Len(buffer) - 1 /\ Len(buffer') \in Nat /\ Len(buffer) \in Nat
  <2>1. buffer \in Seq(Value) /\ buffer # <<>>
    BY DEF Take, TypeOK
  <2>2. CASE buffer' = Tail(buffer)
    BY <2>1, <2>2, TailIsShorter, LenIsNat
  <2>3. CASE buffer' = <<>>
    BY <2>1, <2>3, EmptySeq, LenProperties
  <2> QED BY <2>2, <2>3 DEF Take
<1>5. ASSUME NEW q \in Proc, call[q] = "broadcast" PROVE call'[q] = "broadcast"
  BY <1>1, <1>5 DEF TypeOK, Woken, Receiving
<1> QED BY <1>1, <1>3, <1>4, <1>5, WakeUpsCount DEF WakeUpsSuffice

\* Waiting begins when there is nothing to be woken for.
LEMMA WakeWait ==
  ASSUME NEW p, NEW how, Wait(p, how)
  PROVE  WakeUpsSuffice'
<1>1. Len(buffer') = 0 /\ ~closed'
  BY EmptySeq DEF Wait
<1> QED BY <1>1, WakeUpsCount DEF WakeUpsSuffice

\* The end is told when nobody waits any more.
LEMMA WakeTellEnd ==
  ASSUME WakeUpsSuffice, NEW p, TellEnd(p)
  PROVE  WakeUpsSuffice'
  BY DEF TellEnd, WakeUpsSuffice

LEMMA WakeNext ==
  ASSUME TypeOK, WakeUpsSuffice, [Next]_vars
  PROVE  WakeUpsSuffice'
<1>1. ASSUME NEW p \in Proc, NEW how \in Receiving, Receive(p, how) PROVE WakeUpsSuffice'
  BY <1>1, WakeTake, WakeWait, WakeTellEnd DEF Receive
<1>2. ASSUME NEW p \in Proc, Retry(p) PROVE WakeUpsSuffice'
  BY <1>2, WakeTake, WakeWait, WakeTellEnd DEF Retry, Woken
<1>3. ASSUME NEW p \in Proc, TryReceive(p) \/ TryReceiveBatch(p) PROVE WakeUpsSuffice'
  BY <1>3, WakeTake, WakeTellEnd DEF TryReceive, TryReceiveBatch
<1>4. ASSUME NEW p \in Proc, Broadcast(p) \/ Close(p) PROVE WakeUpsSuffice'
  BY <1>4 DEF Broadcast, Close, WakeUpsSuffice
<1>5. CASE UNCHANGED vars
  BY <1>5 DEF vars, WakeUpsSuffice, WakeUps, Woken
<1> QED BY <1>1, <1>2, <1>3, <1>4, <1>5, WakeSend, WakeSignal, Zenon DEF Next

-----------------------------------------------------------------------------
(* However the goroutines' calls interleave, no wake-up is lost            *)
(* (Signal and Broadcast after the unlock, queue.go:40-41, 56-62), and a   *)
(* queue that was reported as ended stays closed and empty                 *)
(* (queue.go:78-81, 96-99, 127-130).                                       *)
THEOREM NoLostWakeUp == Spec => [](TypeOK /\ EndIsFinal /\ WakeUpsSuffice)
<1>1. Init => Sound
  BY TypeInit DEF Sound, Init, EndIsFinal, WakeUpsSuffice
<1>2. Sound /\ [Next]_vars => Sound'
  BY TypeNext, EndNext, WakeNext DEF Sound
<1> QED BY <1>1, <1>2, PTL DEF Spec, Sound

-----------------------------------------------------------------------------
(* The queue is a channel.                                                 *)

\* What a process of the channel waits for, as call changes.
LEMMA WaitsAfter ==
  ASSUME TypeOK, NEW p \in Proc, NEW c, call' = [call EXCEPT ![p] = c]
  PROVE  /\ \A q \in Proc : q # p => WaitsFor(q)' = WaitsFor(q)
         /\ c = "receive" => WaitsFor(p)' = "one"
         /\ c = "receiveBatch" => WaitsFor(p)' = "all"
         /\ c \notin Receiving => WaitsFor(p)' = "nothing"
  BY DEF WaitsFor, TypeOK, Receiving

\* Its call is over.
LEMMA WaitsNoMore ==
  ASSUME TypeOK, NEW p \in Proc, call' = [call EXCEPT ![p] = "none"]
  PROVE  [q \in Proc |-> WaitsFor(q)]' = [[q \in Proc |-> WaitsFor(q)] EXCEPT ![p] = "nothing"]
<1>1. "none" \notin Receiving
  BY DEF Receiving
<1>2. WaitsFor(p)' = "nothing"
  BY <1>1, WaitsAfter
<1>3. ASSUME NEW q \in Proc, q # p PROVE WaitsFor(q)' = WaitsFor(q)
  BY <1>3, WaitsAfter
<1> QED BY <1>2, <1>3

\* A step of call that leaves its process waiting for the same.
LEMMA WaitsSame ==
  ASSUME TypeOK, NEW p \in Proc, NEW c, call' = [call EXCEPT ![p] = c],
         \/ c = call[p]
         \/ c \notin Receiving /\ call[p] \notin Receiving
  PROVE  [q \in Proc |-> WaitsFor(q)]' = [q \in Proc |-> WaitsFor(q)]
<1>1. ASSUME NEW q \in Proc PROVE WaitsFor(q)' = WaitsFor(q)
  BY DEF WaitsFor, TypeOK, Receiving
<1> QED BY <1>1

LEMMA SendIsPut ==
  ASSUME TypeOK, NEW p \in Proc, NEW values \in Batch, BatchSend(p, values)
  PROVE  C!Put
<1>1. values \in Seq(Value) /\ Len(values) \in Nat
  BY BatchIsSeq
<1>2. Announce(Len(values)) \notin Receiving
  BY <1>1, AnnounceType DEF Receiving
<1>3. [q \in Proc |-> WaitsFor(q)]' = [q \in Proc |-> WaitsFor(q)]
  BY <1>2, WaitsSame DEF BatchSend, Receiving
<1>4. /\ buffer' \in Seq(Value) /\ Len(buffer') >= Len(buffer)
      /\ SubSeq(buffer', 1, Len(buffer)) = buffer
  <2>1. buffer \in Seq(Value) /\ buffer' = buffer \o values
    BY DEF BatchSend, TypeOK
  <2> QED BY <1>1, <2>1, ConcatProperties, LenProperties, SubSeqProperties
<1> QED BY <1>3, <1>4 DEF C!Put, BatchSend

\* What Receive and Retry have in common, for a process that asks how.
What(how) == IF how = "receive" THEN "one" ELSE "all"

LEMMA TakeIsGive ==
  ASSUME TypeOK, NEW p \in Proc, NEW how \in Receiving, Take(p, how)
  PROVE  C!Give(p, What(how))
<1>1. [q \in Proc |-> WaitsFor(q)]' = [[q \in Proc |-> WaitsFor(q)] EXCEPT ![p] = "nothing"]
  BY WaitsNoMore DEF Take
<1> QED BY <1>1 DEF C!Give, Take, What, Receiving

LEMMA TellEndIsEnd ==
  ASSUME TypeOK, NEW p \in Proc, TellEnd(p)
  PROVE  C!End(p)
<1>1. [q \in Proc |-> WaitsFor(q)]' = [[q \in Proc |-> WaitsFor(q)] EXCEPT ![p] = "nothing"]
  BY WaitsNoMore DEF TellEnd
<1> QED BY <1>1 DEF C!End, TellEnd

LEMMA WaitIsBlock ==
  ASSUME TypeOK, NEW p \in Proc, NEW how \in Receiving, Wait(p, how), call[p] = "none"
  PROVE  C!Block(p, What(how))
<1>1. [q \in Proc |-> WaitsFor(q)]'
        = [[q \in Proc |-> WaitsFor(q)] EXCEPT ![p] = What(how)]
  BY WaitsAfter DEF Wait, Receiving, What
<1>2. [q \in Proc |-> WaitsFor(q)][p] = "nothing"
  BY DEF WaitsFor
<1> QED BY <1>1, <1>2 DEF C!Block, Wait

LEMMA StepIsChannelStep ==
  ASSUME TypeOK, [Next]_vars
  PROVE  [C!Next]_C!channel
<1>0. ASSUME NEW p \in Proc, call[p] = "none" \/ call[p] \in Receiving
      PROVE  [q \in Proc |-> WaitsFor(q)][p]
               = IF call[p] = "none" THEN "nothing" ELSE What(call[p])
  BY <1>0 DEF WaitsFor, What, Receiving
<1>a. ASSUME NEW how \in Receiving PROVE What(how) \in {"one", "all"} /\ What(how) # "nothing"
  BY DEF What
<1>1. ASSUME NEW p \in Proc, NEW values \in Batch, BatchSend(p, values) PROVE C!Next
  BY <1>1, SendIsPut DEF C!Next
<1>2. ASSUME NEW p \in Proc, Signal(p) \/ Broadcast(p) PROVE UNCHANGED C!channel
  <2>1. [q \in Proc |-> WaitsFor(q)]' = [q \in Proc |-> WaitsFor(q)]
    BY <1>2, WaitsSame DEF Signal, Broadcast, Receiving
  <2> QED BY <1>2, <2>1 DEF C!channel, Signal, Broadcast
<1>3. ASSUME NEW p \in Proc, NEW how \in Receiving, call[p] = "none",
             Take(p, how) \/ TellEnd(p) \/ Wait(p, how)
      PROVE  C!Next
  BY <1>0, <1>a, <1>3, TakeIsGive, TellEndIsEnd, WaitIsBlock DEF C!Next
<1>4. ASSUME NEW p \in Proc, Retry(p) PROVE C!Next \/ UNCHANGED C!channel
  <2>1. call[p] \in Receiving /\ call[p] # "none"
    BY <1>4 DEF Retry, Receiving
  <2>2. [q \in Proc |-> WaitsFor(q)][p] = What(call[p])
    BY <1>0, <2>1
  <2>3. ASSUME Take(p, call[p]) \/ TellEnd(p) PROVE C!Serve(p)
    BY <1>a, <2>1, <2>2, <2>3, TakeIsGive, TellEndIsEnd DEF C!Serve
  <2>4. ASSUME Wait(p, call[p]) PROVE UNCHANGED C!channel
    <3>1. [q \in Proc |-> WaitsFor(q)]' = [q \in Proc |-> WaitsFor(q)]
      BY <2>4, WaitsSame DEF Wait
    <3> QED BY <2>4, <3>1 DEF C!channel, Wait
  <2> QED BY <1>4, <2>3, <2>4 DEF Retry, C!Next
<1>5. ASSUME NEW p \in Proc, Close(p) PROVE C!Next
  <2>1. UNCHANGED [q \in Proc |-> WaitsFor(q)]
    BY <1>5 DEF Close, WaitsFor
  <2> QED BY <1>5, <2>1 DEF Close, C!Close, C!Next
<1>6. CASE UNCHANGED vars
  <2>1. UNCHANGED [q \in Proc |-> WaitsFor(q)]
    BY <1>6 DEF vars, WaitsFor
  <2> QED BY <1>6, <2>1 DEF vars, C!channel
<1> QED
  BY <1>1, <1>2, <1>3, <1>4, <1>5, <1>6, Zenon
     DEF Next, Receive, TryReceive, TryReceiveBatch, Receiving

\* The callers of the queue see a channel without a bound (queue.go:7): what is
\* sent is received once, in order, and the end comes after the last element.
THEOREM QueueIsChannel == Spec => ImplementsChannel
<1>1. Init => C!Init
  BY DEF Init, C!Init, WaitsFor
<1>2. TypeOK /\ [Next]_vars => [C!Next]_C!channel
  BY StepIsChannelStep
<1>3. Spec => []TypeOK
  BY NoLostWakeUp, PTL
<1> QED BY <1>1, <1>2, <1>3, PTL DEF Spec, ImplementsChannel, C!Spec

\* The calls, the waiters and the buffer keep their types.
THEOREM QueueTypes == Spec => []TypeOK
BY NoLostWakeUp, PTL

\* A receiver that was told the end has been given everything that was accepted.
THEOREM EndAlwaysFinal == Spec => []EndIsFinal
BY NoLostWakeUp, PTL
================================================================================
