---------------------------- MODULE ConnSocketProofs ----------------------------
(***************************************************************************)
(* Proofs about ConnSocket, for frames of any length, any number of them,  *)
(* any cut of the stream and any failures: the stream arrives intact, a    *)
(* socket is closed only after the queue has been written, and the end of  *)
(* the connection is reported unless the application asked for it.         *)
(***************************************************************************)
EXTENDS ConnSocket, SequenceTheorems, TLAPS

-----------------------------------------------------------------------------
(* Sequences of consecutive numbers.                                       *)

LEMMA EmptyConsecutive == \A from : Consecutive(<<>>, from)
  BY EmptySeq DEF Consecutive

LEMMA ConsecutiveConcat ==
  ASSUME NEW s \in Seq(Nat), NEW t \in Seq(Nat), NEW from \in Nat,
         Consecutive(s, from), Consecutive(t, from + Len(s))
  PROVE  s \o t \in Seq(Nat) /\ Len(s \o t) = Len(s) + Len(t) /\ Consecutive(s \o t, from)
<1>1. /\ s \o t \in Seq(Nat) /\ Len(s \o t) = Len(s) + Len(t)
      /\ Len(s) \in Nat /\ Len(t) \in Nat
      /\ \A i \in 1 .. Len(s) + Len(t) :
           (s \o t)[i] = IF i <= Len(s) THEN s[i] ELSE t[i - Len(s)]
  BY ConcatProperties, LenProperties
<1>2. ASSUME NEW i \in 1 .. Len(s) + Len(t) PROVE (s \o t)[i] = from + i
  <2>1. CASE i <= Len(s)
    BY <1>1, <2>1, LenProperties DEF Consecutive
  <2>2. CASE i > Len(s)
    <3>1. i - Len(s) \in 1 .. Len(t)
      BY <1>1, <2>2
    <3>2. t[i - Len(s)] = from + Len(s) + (i - Len(s))
      BY <3>1, LenProperties DEF Consecutive
    <3> QED BY <1>1, <2>2, <3>2
  <2> QED BY <1>1, <2>1, <2>2
<1>3. DOMAIN (s \o t) = 1 .. Len(s) + Len(t)
  BY <1>1, LenProperties
<1> QED BY <1>1, <1>2, <1>3 DEF Consecutive

\* The first n elements, and the others.
First(s, n) == SubSeq(s, 1, n)
Rest(s, n) == SubSeq(s, n + 1, Len(s))

LEMMA ConsecutiveParts ==
  ASSUME NEW s \in Seq(Nat), NEW from \in Nat, NEW n \in 0 .. Len(s), Consecutive(s, from)
  PROVE  /\ First(s, n) \in Seq(Nat) /\ Len(First(s, n)) = n
         /\ Consecutive(First(s, n), from)
         /\ Rest(s, n) \in Seq(Nat)
         /\ Len(Rest(s, n)) = Len(s) - n
         /\ Consecutive(Rest(s, n), from + n)
<1>1. Len(s) \in Nat /\ n \in Nat /\ DOMAIN s = 1 .. Len(s)
  BY LenProperties
<1>2. /\ First(s, n) = [i \in 1 .. n |-> s[i]]
      /\ Rest(s, n) = [i \in 1 .. Len(s) - n |-> s[n + i]]
  BY <1>1 DEF First, Rest
<1>3. ASSUME NEW i \in 1 .. Len(s) PROVE s[i] = from + i /\ s[i] \in Nat
  <2>1. i \in DOMAIN s
    BY <1>1
  <2>2. s[i] = from + i
    BY <2>1 DEF Consecutive
  <2> QED BY <2>2
<1>4. /\ First(s, n) \in Seq(Nat) /\ Len(First(s, n)) = n
      /\ Consecutive(First(s, n), from)
  BY <1>1, <1>2, <1>3 DEF Consecutive
<1>5. /\ Rest(s, n) \in Seq(Nat)
      /\ Len(Rest(s, n)) = Len(s) - n
  <2>1. ASSUME NEW i \in 1 .. Len(s) - n PROVE s[n + i] \in Nat
    <3>1. n + i \in 1 .. Len(s)
      BY <1>1
    <3> QED BY <1>3, <3>1
  <2>2. Len(s) - n \in Nat
    BY <1>1
  <2>3. [i \in 1 .. Len(s) - n |-> s[n + i]] \in Seq(Nat)
    BY <2>1, <2>2, SeqDef
  <2> QED BY <1>2, <2>2, <2>3
<1>6. ASSUME NEW i \in 1 .. Len(s) - n PROVE s[n + i] = from + n + i
  <2>1. n + i \in 1 .. Len(s)
    BY <1>1
  <2> QED BY <1>1, <1>3, <2>1
<1>7. Consecutive(Rest(s, n), from + n)
  BY <1>1, <1>2, <1>6 DEF Consecutive
<1> QED BY <1>4, <1>5, <1>7

-----------------------------------------------------------------------------
(* One direction: what was received (r), is on the wire (w), is being      *)
(* written (m) and waits in the queue (q), of a accepted frames.           *)

\* Bytes of the frames that have left the queue.
Out(q, a) == (a - Len(q)) * FrameLen

Flow(r, w, m, q, a) ==
    /\ Consecutive(r, 0)
    /\ Consecutive(w, Len(r))
    /\ Len(q) <= a
    /\ Consecutive(q, a - Len(q))
    /\ Len(m) <= Out(q, a)
    /\ Consecutive(m, Out(q, a) - Len(m))
    /\ Len(r) + Len(w) + Len(m) <= Out(q, a)

\* Nothing has been lost.
Full(r, w, m, q, a) == Len(r) + Len(w) + Len(m) = Out(q, a)

LEMMA OutType ==
  ASSUME NEW q \in Seq(Nat), NEW a \in Nat, Len(q) <= a
  PROVE  Out(q, a) \in Nat /\ Len(q) \in Nat /\ a - Len(q) \in Nat
<1>1. Len(q) \in Nat /\ a - Len(q) \in Nat
  BY LenProperties
<1>2. \A k \in Nat : k * FrameLen \in Nat
  BY ConnAssumption
<1> QED BY <1>1, <1>2 DEF Out

LEMMA OneMoreFrame == \A k \in Nat : (k + 1) * FrameLen = k * FrameLen + FrameLen
  BY ConnAssumption

LEMMA FlowSend ==
  ASSUME NEW r \in Seq(Nat), NEW w \in Seq(Nat), NEW m \in Seq(Nat), NEW q \in Seq(Nat),
         NEW a \in Nat, Flow(r, w, m, q, a)
  PROVE  /\ Flow(r, w, m, Append(q, a + 1), a + 1)
         /\ Full(r, w, m, q, a) => Full(r, w, m, Append(q, a + 1), a + 1)
<1>1. /\ Append(q, a + 1) \in Seq(Nat) /\ Len(Append(q, a + 1)) = Len(q) + 1
      /\ Len(q) \in Nat /\ Len(q) <= a
  BY LenProperties, AppendProperties DEF Flow
<1>2. Out(Append(q, a + 1), a + 1) = Out(q, a)
  <2>1. a + 1 - (Len(q) + 1) = a - Len(q)
    BY <1>1
  <2> QED BY <1>1, <2>1 DEF Out
<1>3. Consecutive(Append(q, a + 1), a - Len(q))
  <2>1. ASSUME NEW i \in 1 .. Len(q) + 1 PROVE Append(q, a + 1)[i] = a - Len(q) + i
    <3>1. CASE i <= Len(q)
      BY <1>1, <3>1, AppendProperties, LenProperties DEF Flow, Consecutive
    <3>2. CASE i = Len(q) + 1
      BY <1>1, <3>2, AppendProperties
    <3> QED BY <1>1, <3>1, <3>2
  <2> QED BY <1>1, <2>1, LenProperties DEF Consecutive
<1> QED BY <1>1, <1>2, <1>3 DEF Flow, Full

LEMMA FrameType ==
  ASSUME NEW k \in Nat
  PROVE  /\ Frame(k + 1) \in Seq(Nat) /\ Len(Frame(k + 1)) = FrameLen
         /\ Consecutive(Frame(k + 1), k * FrameLen)
<1> DEFINE b == k * FrameLen
<1>1. b \in Nat /\ FrameLen \in Nat
  BY ConnAssumption
<1>2. Frame(k + 1) = [i \in 1 .. FrameLen |-> b + i]
  <2>1. k + 1 - 1 = k
    OBVIOUS
  <2>2. Frame(k + 1) = [i \in 1 .. FrameLen |-> (k + 1 - 1) * FrameLen + i]
    BY DEF Frame
  <2> QED BY <2>1, <2>2, Zenon
<1> HIDE DEF b
<1>3. /\ [i \in 1 .. FrameLen |-> b + i] \in Seq(Nat)
      /\ Len([i \in 1 .. FrameLen |-> b + i]) = FrameLen
      /\ Consecutive([i \in 1 .. FrameLen |-> b + i], b)
  BY <1>1 DEF Consecutive
<1> QED BY <1>2, <1>3 DEF b

LEMMA FlowDequeue ==
  ASSUME NEW r \in Seq(Nat), NEW w \in Seq(Nat), NEW q \in Seq(Nat),
         NEW a \in Nat, Flow(r, w, <<>>, q, a), q # <<>>
  PROVE  /\ Frame(Head(q)) \in Seq(Nat) /\ Frame(Head(q)) # <<>>
         /\ Flow(r, w, Frame(Head(q)), Tail(q), a)
         /\ Full(r, w, <<>>, q, a) => Full(r, w, Frame(Head(q)), Tail(q), a)
<1> DEFINE k == a - Len(q)  t == Tail(q)  f == Frame(Head(q))
<1>1. t \in Seq(Nat) /\ Len(t) = Len(q) - 1 /\ Len(q) \in Nat \ {0}
  BY HeadTailProperties, EmptySeq
<1>2. k \in Nat /\ Len(q) <= a /\ Consecutive(q, k)
  BY <1>1 DEF Flow
<1>3. a - Len(t) = k + 1 /\ Len(t) <= a
  BY <1>1, <1>2
<1>4. \A i \in 1 .. Len(q) : q[i] = k + i
  BY LenProperties, <1>2 DEF Consecutive
<1>5. \A i \in 1 .. Len(t) : t[i] = q[i + 1]
  BY HeadTailProperties
<1>6. Head(q) = q[1] /\ DOMAIN t = 1 .. Len(t)
  BY <1>1, LenProperties
<1>7. Out(t, a) = (k + 1) * FrameLen /\ Out(q, a) = k * FrameLen
  BY <1>3 DEF Out
<1>8. Out(q, a) \in Nat
  BY <1>2, OutType
<1> HIDE DEF k, t
<1>9. Head(q) = k + 1
  BY <1>1, <1>2, <1>4, <1>6
<1>10. f \in Seq(Nat) /\ Len(f) = FrameLen /\ Consecutive(f, k * FrameLen)
  BY <1>2, <1>9, FrameType, Zenon
<1>11. Consecutive(t, a - Len(t))
  <2>1. ASSUME NEW i \in 1 .. Len(t) PROVE t[i] = k + 1 + i
    <3>1. i + 1 \in 1 .. Len(q)
      BY <1>1
    <3> QED BY <1>2, <1>4, <1>5, <3>1
  <2>2. Consecutive(t, k + 1)
    BY <1>6, <2>1 DEF Consecutive
  <2> QED BY <1>3, <2>2, Zenon
<1>12. Out(t, a) = Out(q, a) + FrameLen
  BY <1>2, <1>7, OneMoreFrame
<1> HIDE DEF f
<1>13. /\ Len(<<>>) = 0 /\ FrameLen \in Nat \ {0}
       /\ Len(r) \in Nat /\ Len(w) \in Nat
  BY ConnAssumption, EmptySeq, LenProperties
<1>14. f # <<>>
  BY <1>10, <1>13
<1>15. Len(f) <= Out(t, a) /\ Consecutive(f, Out(t, a) - Len(f))
  <2>1. Len(f) <= Out(t, a) /\ Out(t, a) - Len(f) = Out(q, a)
    BY <1>8, <1>10, <1>12, <1>13
  <2>2. Out(t, a) - Len(f) = k * FrameLen
    BY <1>7, <2>1, Zenon
  <2> QED BY <1>10, <2>1, <2>2, Zenon
<1>16. Len(r) + Len(w) + 0 <= Out(q, a) => Len(r) + Len(w) + Len(f) <= Out(t, a)
  BY <1>8, <1>10, <1>12, <1>13
<1>17. Len(r) + Len(w) + 0 = Out(q, a) => Len(r) + Len(w) + Len(f) = Out(t, a)
  BY <1>8, <1>10, <1>12, <1>13
<1>18. Flow(r, w, f, t, a)
  BY <1>3, <1>11, <1>13, <1>15, <1>16, Zenon DEF Flow
<1>19. Full(r, w, <<>>, q, a) => Full(r, w, f, t, a)
  BY <1>13, <1>17, Zenon DEF Full
<1> QED BY <1>10, <1>14, <1>18, <1>19 DEF f, t

\* What remains of a frame when n bytes of it have been written.
LEMMA RestOf ==
  ASSUME NEW m \in Seq(Nat), NEW q \in Seq(Nat), NEW a \in Nat, NEW n \in 1 .. Len(m),
         Len(q) <= a, Len(m) <= Out(q, a), Consecutive(m, Out(q, a) - Len(m))
  PROVE  /\ Rest(m, n) \in Seq(Nat) /\ Len(Rest(m, n)) = Len(m) - n
         /\ Len(Rest(m, n)) <= Out(q, a) /\ Consecutive(Rest(m, n), Out(q, a) - Len(Rest(m, n)))
         /\ First(m, n) \in Seq(Nat) /\ Len(First(m, n)) = n
         /\ Consecutive(First(m, n), Out(q, a) - Len(m))
<1> DEFINE m1 == Rest(m, n)  from == Out(q, a) - Len(m)
<1>1. Out(q, a) \in Nat /\ Len(m) \in Nat
  BY OutType, LenProperties
<1>2. from \in Nat /\ n \in 0 .. Len(m) /\ Consecutive(m, from)
  BY <1>1
<1>3. /\ First(m, n) \in Seq(Nat) /\ Len(First(m, n)) = n
      /\ Consecutive(First(m, n), from)
      /\ m1 \in Seq(Nat) /\ Len(m1) = Len(m) - n /\ Consecutive(m1, from + n)
  BY <1>2, ConsecutiveParts, Zenon
<1>4. Len(m1) <= Out(q, a) /\ Out(q, a) - Len(m1) = from + n
  BY <1>1, <1>3
<1> QED BY <1>3, <1>4, Zenon

LEMMA FlowWrite ==
  ASSUME NEW r \in Seq(Nat), NEW w \in Seq(Nat), NEW m \in Seq(Nat), NEW q \in Seq(Nat),
         NEW a \in Nat, NEW n \in 1 .. Len(m), Flow(r, w, m, q, a), Full(r, w, m, q, a)
  PROVE  /\ w \o First(m, n) \in Seq(Nat) /\ Rest(m, n) \in Seq(Nat) /\ Len(Rest(m, n)) = Len(m) - n
         /\ Flow(r, w \o First(m, n), Rest(m, n), q, a) /\ Full(r, w \o First(m, n), Rest(m, n), q, a)
<1> DEFINE m1 == Rest(m, n)  w1 == w \o First(m, n)
<1>1. /\ Len(q) <= a /\ Len(m) <= Out(q, a) /\ Consecutive(m, Out(q, a) - Len(m))
      /\ Consecutive(w, Len(r))
  BY DEF Flow
<1>2. /\ Out(q, a) \in Nat /\ Len(r) \in Nat /\ Len(w) \in Nat /\ Len(m) \in Nat
  BY <1>1, OutType, LenProperties
<1>3. Len(r) + Len(w) + Len(m) = Out(q, a)
  BY DEF Full
<1>4. /\ m1 \in Seq(Nat) /\ Len(m1) = Len(m) - n
      /\ Len(m1) <= Out(q, a) /\ Consecutive(m1, Out(q, a) - Len(m1))
      /\ First(m, n) \in Seq(Nat) /\ Len(First(m, n)) = n
      /\ Consecutive(First(m, n), Out(q, a) - Len(m))
  BY <1>1, RestOf, Zenon
<1>5. Consecutive(First(m, n), Len(r) + Len(w))
  <2>1. Out(q, a) - Len(m) = Len(r) + Len(w)
    BY <1>2, <1>3
  <2> QED BY <1>4, <2>1, Zenon
<1>6. w1 \in Seq(Nat) /\ Len(w1) = Len(w) + Len(First(m, n)) /\ Consecutive(w1, Len(r))
  BY <1>1, <1>2, <1>4, <1>5, ConsecutiveConcat, Zenon
<1>7. /\ Len(r) + Len(w1) + Len(m1) = Out(q, a)
      /\ Len(r) + Len(w1) + Len(m1) <= Out(q, a)
  <2>1. Len(w1) = Len(w) + n
    BY <1>4, <1>6, Zenon
  <2> QED BY <1>2, <1>3, <1>4, <2>1
<1> QED BY <1>4, <1>6, <1>7, Zenon DEF Flow, Full

LEMMA FlowLost ==
  ASSUME NEW r \in Seq(Nat), NEW w \in Seq(Nat), NEW m \in Seq(Nat), NEW q \in Seq(Nat),
         NEW a \in Nat, NEW n \in 1 .. Len(m), Flow(r, w, m, q, a)
  PROVE  Rest(m, n) \in Seq(Nat) /\ Len(Rest(m, n)) = Len(m) - n /\ Flow(r, w, Rest(m, n), q, a)
<1> DEFINE m1 == Rest(m, n)
<1>1. /\ Len(q) <= a /\ Len(m) <= Out(q, a) /\ Consecutive(m, Out(q, a) - Len(m))
      /\ Len(r) + Len(w) + Len(m) <= Out(q, a)
  BY DEF Flow
<1>2. /\ Out(q, a) \in Nat /\ Len(r) \in Nat /\ Len(w) \in Nat /\ Len(m) \in Nat
  BY <1>1, OutType, LenProperties
<1>3. /\ m1 \in Seq(Nat) /\ Len(m1) = Len(m) - n
      /\ Len(m1) <= Out(q, a) /\ Consecutive(m1, Out(q, a) - Len(m1))
      /\ First(m, n) \in Seq(Nat) /\ Len(First(m, n)) = n
      /\ Consecutive(First(m, n), Out(q, a) - Len(m))
  BY <1>1, RestOf, Zenon
<1>4. Len(r) + Len(w) + Len(m1) <= Out(q, a)
  BY <1>1, <1>2, <1>3
<1> QED BY <1>3, <1>4, Zenon DEF Flow

LEMMA FlowRead ==
  ASSUME NEW r \in Seq(Nat), NEW w \in Seq(Nat), NEW m \in Seq(Nat), NEW q \in Seq(Nat),
         NEW a \in Nat, NEW n \in 1 .. Len(w), Flow(r, w, m, q, a)
  PROVE  /\ r \o First(w, n) \in Seq(Nat) /\ Rest(w, n) \in Seq(Nat)
         /\ Flow(r \o First(w, n), Rest(w, n), m, q, a)
         /\ Full(r, w, m, q, a) => Full(r \o First(w, n), Rest(w, n), m, q, a)
<1> DEFINE w1 == Rest(w, n)  r1 == r \o First(w, n)
<1>1. Consecutive(r, 0) /\ Consecutive(w, Len(r)) /\ Len(q) <= a
  BY DEF Flow
<1>2. /\ Out(q, a) \in Nat /\ Len(r) \in Nat /\ Len(w) \in Nat /\ Len(m) \in Nat
      /\ n \in 0 .. Len(w)
  BY <1>1, OutType, LenProperties
<1>3. /\ First(w, n) \in Seq(Nat) /\ Len(First(w, n)) = n
      /\ Consecutive(First(w, n), Len(r))
      /\ w1 \in Seq(Nat) /\ Len(w1) = Len(w) - n /\ Consecutive(w1, Len(r) + n)
  BY <1>1, <1>2, ConsecutiveParts, Zenon
<1>4. 0 + Len(r) = Len(r) /\ 0 \in Nat
  BY <1>2
<1>5. r1 \in Seq(Nat) /\ Len(r1) = Len(r) + Len(First(w, n)) /\ Consecutive(r1, 0)
  BY <1>1, <1>3, <1>4, ConsecutiveConcat, Zenon
<1>6. Len(r1) = Len(r) + n /\ Len(r1) + Len(w1) = Len(r) + Len(w)
  <2>1. Len(r1) = Len(r) + n
    BY <1>3, <1>5, Zenon
  <2> QED BY <1>2, <1>3, <2>1
<1>7. Consecutive(w1, Len(r1))
  BY <1>3, <1>6, Zenon
<1> QED BY <1>3, <1>5, <1>6, <1>7, Zenon DEF Flow, Full

-----------------------------------------------------------------------------
(* The inductive invariant.                                                *)

\* The direction from d to its peer.
Direction(d) ==
    /\ Flow(received[Peer(d)], wire[d], writing[d], queue[d], accepted[d])
    /\ ~Dead(d) => Full(received[Peer(d)], wire[d], writing[d], queue[d], accepted[d])

Sound ==
    /\ TypeOK
    /\ \A d \in End : Direction(d)
    /\ \A d \in End : sender[d] = "dequeue" => writing[d] = <<>>

LEMMA PeerEnd == \A e \in End : Peer(e) \in End /\ Peer(e) # e /\ Peer(Peer(e)) = e
  BY ConnAssumption DEF End, Peer

LEMMA TypeInit == Init => TypeOK
<1> SUFFICES ASSUME Init PROVE TypeOK
  OBVIOUS
<1>1. <<>> \in Seq(Nat)
  BY EmptySeq
<1> QED BY <1>1 DEF Init, TypeOK

LEMMA SoundInit == Init => Sound
<1> SUFFICES ASSUME Init PROVE Sound
  OBVIOUS
<1>1. ASSUME NEW d \in End PROVE Direction(d)
  <2>1. /\ received[Peer(d)] = <<>> /\ wire[d] = <<>> /\ writing[d] = <<>>
        /\ queue[d] = <<>> /\ accepted[d] = 0
    BY PeerEnd DEF Init
  <2>2. Len(<<>>) = 0 /\ 0 - 0 = 0 /\ 0 + 0 + 0 = 0 /\ 0 <= 0
    BY EmptySeq
  <2>3. Out(<<>>, 0) = 0
    BY <2>2, ConnAssumption DEF Out
  <2>4. Flow(<<>>, <<>>, <<>>, <<>>, 0) /\ Full(<<>>, <<>>, <<>>, <<>>, 0)
    BY <2>2, <2>3, EmptyConsecutive DEF Flow, Full
  <2> QED BY <2>1, <2>4, Zenon DEF Direction
<1> QED BY <1>1, TypeInit DEF Sound, Init

\* A direction stays as it was if the step leaves its bytes alone.
LEMMA DirectionKept ==
  ASSUME NEW d, Direction(d),
         /\ received[Peer(d)]' = received[Peer(d)] /\ wire[d]' = wire[d]
         /\ writing[d]' = writing[d] /\ queue[d]' = queue[d] /\ accepted[d]' = accepted[d],
         Dead(d) => Dead(d)'
  PROVE  Direction(d)'
  BY Zenon DEF Direction

LEMMA SendSound == ASSUME Sound, NEW e \in End, SendData(e) PROVE Sound'
<1> USE DEF appVars, senderVars, receiverVars
<1> DEFINE a == accepted[e]
<1>1. /\ TypeOK /\ Direction(e) /\ Peer(e) \in End
  BY PeerEnd DEF Sound
<1>2. a \in Nat /\ a + 1 \in Nat /\ Append(queue[e], a + 1) \in Seq(Nat)
  BY <1>1, AppendProperties DEF TypeOK
<1>3. TypeOK'
  BY <1>1, <1>2, SendData(e) DEF TypeOK, SendData
<1>4. /\ received' = received /\ wire' = wire /\ writing' = writing /\ sender' = sender
      /\ queue'[e] = Append(queue[e], a + 1) /\ accepted'[e] = a + 1
      /\ broken' = broken /\ open' = open
      /\ \A d \in End \ {e} : queue'[d] = queue[d] /\ accepted'[d] = accepted[d]
  BY <1>1, SendData(e) DEF TypeOK, SendData
<1>5. \A d : Dead(d)' = Dead(d)
  BY <1>4 DEF Dead
<1>6. Direction(e)'
  <2>1. /\ received[Peer(e)] \in Seq(Nat) /\ wire[e] \in Seq(Nat)
        /\ writing[e] \in Seq(Nat) /\ queue[e] \in Seq(Nat)
    BY <1>1 DEF TypeOK
  <2>2. /\ Flow(received[Peer(e)], wire[e], writing[e], Append(queue[e], a + 1), a + 1)
        /\ ~Dead(e) => Full(received[Peer(e)], wire[e], writing[e], Append(queue[e], a + 1), a + 1)
    BY <1>1, <1>2, <2>1, FlowSend, Zenon DEF Direction
  <2> QED BY <1>4, <1>5, <2>2, Zenon DEF Direction
<1>7. ASSUME NEW d \in End, d # e PROVE Direction(d)'
  BY <1>4, <1>5, <1>7, DirectionKept, Zenon DEF Sound
<1> QED BY <1>3, <1>4, <1>6, <1>7 DEF Sound

LEMMA DequeueSound == ASSUME Sound, NEW e \in End, Dequeue(e) PROVE Sound'
<1> USE DEF appVars, senderVars, receiverVars
<1> DEFINE f == Frame(Head(queue[e]))
<1>1. /\ TypeOK /\ Direction(e) /\ Peer(e) \in End /\ writing[e] = <<>>
  BY PeerEnd, Dequeue(e) DEF Sound, Dequeue
<1>2. /\ received[Peer(e)] \in Seq(Nat) /\ wire[e] \in Seq(Nat) /\ queue[e] \in Seq(Nat)
      /\ accepted[e] \in Nat /\ queue[e] # <<>>
  BY <1>1, Dequeue(e) DEF TypeOK, Dequeue
<1>3. Flow(received[Peer(e)], wire[e], <<>>, queue[e], accepted[e])
  BY <1>1, Zenon DEF Direction
<1>4. /\ f \in Seq(Nat) /\ f # <<>>
      /\ Flow(received[Peer(e)], wire[e], f, Tail(queue[e]), accepted[e])
      /\ \/ ~Full(received[Peer(e)], wire[e], <<>>, queue[e], accepted[e])
         \/ Full(received[Peer(e)], wire[e], f, Tail(queue[e]), accepted[e])
  BY <1>2, <1>3, FlowDequeue, Zenon
<1> HIDE DEF f
<1>5. Tail(queue[e]) \in Seq(Nat)
  BY <1>2, HeadTailProperties
<1>6. writing' = [writing EXCEPT ![e] = f]
  BY Dequeue(e), Zenon DEF Dequeue, f
<1>7. /\ UNCHANGED <<accepted, asked, closed, receiver, received, reported, open, wire, broken>>
      /\ queue' \in [End -> Seq(Nat)] /\ writing' \in [End -> Seq(Nat)]
      /\ sender' \in [End -> {"dequeue", "write", "done"}]
      /\ writing'[e] = f /\ queue'[e] = Tail(queue[e]) /\ sender'[e] = "write"
      /\ \A d \in End \ {e} : /\ queue'[d] = queue[d] /\ writing'[d] = writing[d]
                              /\ sender'[d] = sender[d]
  <2>1. /\ sender' = [sender EXCEPT ![e] = "write"] /\ queue' = [queue EXCEPT ![e] = Tail(@)]
        /\ UNCHANGED <<accepted, asked, closed, receiver, received, reported, open, wire, broken>>
    BY Dequeue(e) DEF Dequeue
  <2> QED BY <1>1, <1>4, <1>5, <1>6, <2>1 DEF TypeOK
<1>8. \A d : Dead(d)' = Dead(d)
  BY <1>7 DEF Dead
<1>9. Direction(e)'
  <2>1. ~Dead(e) => Full(received[Peer(e)], wire[e], f, Tail(queue[e]), accepted[e])
    BY <1>1, <1>4, Zenon DEF Direction
  <2> QED BY <1>4, <1>7, <1>8, <2>1, Zenon DEF Direction
<1>10. ASSUME NEW d \in End, d # e PROVE Direction(d)'
  BY <1>7, <1>8, <1>10, DirectionKept, Zenon DEF Sound
<1>11. TypeOK'
  BY <1>1, <1>4, <1>7 DEF TypeOK
<1> QED BY <1>7, <1>9, <1>10, <1>11 DEF Sound

LEMMA WriteSound == ASSUME Sound, NEW e \in End, Write(e) PROVE Sound'
<1> USE DEF appVars, senderVars, receiverVars
<1>1. /\ TypeOK /\ Direction(e) /\ Peer(e) \in End
  BY PeerEnd DEF Sound
<1>2. /\ received[Peer(e)] \in Seq(Nat) /\ wire[e] \in Seq(Nat) /\ queue[e] \in Seq(Nat)
      /\ writing[e] \in Seq(Nat) /\ Len(writing[e]) \in Nat /\ accepted[e] \in Nat
  BY <1>1, LenProperties DEF TypeOK
<1>3. PICK n \in 1 .. Len(writing[e]) :
        /\ writing' = [writing EXCEPT ![e] = Rest(writing[e], n)]
        /\ sender' = [sender EXCEPT ![e] = IF n = Len(writing[e]) THEN "dequeue" ELSE @]
        /\ wire' = IF Dead(e) THEN wire
                   ELSE [wire EXCEPT ![e] = wire[e] \o First(writing[e], n)]
  BY Write(e), Zenon DEF Write, First, Rest
<1> DEFINE m == Rest(writing[e], n)  w == wire[e] \o First(writing[e], n)
<1>4. /\ m \in Seq(Nat) /\ Len(m) = Len(writing[e]) - n
      /\ Flow(received[Peer(e)], wire[e], m, queue[e], accepted[e])
  BY <1>1, <1>2, FlowLost, Zenon DEF Direction
<1>5. ~Dead(e) => /\ w \in Seq(Nat)
                  /\ Flow(received[Peer(e)], w, m, queue[e], accepted[e])
                  /\ Full(received[Peer(e)], w, m, queue[e], accepted[e])
  BY <1>1, <1>2, FlowWrite, Zenon DEF Direction
<1> HIDE DEF m, w
<1>6. /\ UNCHANGED <<accepted, asked, queue, closed, receiver, received, reported, open>>
      /\ broken' \in BOOLEAN /\ (broken => broken') /\ sender[e] = "write"
  BY <1>1, Write(e) DEF TypeOK, Write, MayReset
<1>7. \A d \in End : Dead(d) => Dead(d)'
  BY <1>6 DEF Dead
<1>8. /\ sender' \in [End -> {"dequeue", "write", "done"}]
      /\ writing' \in [End -> Seq(Nat)] /\ wire' \in [End -> Seq(Nat)]
      /\ writing'[e] = m /\ wire'[e] = IF Dead(e) THEN wire[e] ELSE w
      /\ \A d \in End \ {e} : /\ writing'[d] = writing[d] /\ wire'[d] = wire[d]
                              /\ sender'[d] = sender[d]
      /\ sender'[e] = IF n = Len(writing[e]) THEN "dequeue" ELSE "write"
  BY <1>1, <1>3, <1>4, <1>5, <1>6 DEF TypeOK, m, w
<1>9. IF n = Len(writing[e]) THEN m = <<>> ELSE m # <<>>
  <2>1. m = <<>> <=> Len(m) = 0
    BY <1>4, EmptySeq
  <2> QED BY <1>2, <1>4, <2>1
<1>10. TypeOK'
  BY <1>1, <1>6, <1>8, <1>9 DEF TypeOK
<1>11. Direction(e)'
  <2>1. CASE Dead(e)
    BY <1>4, <1>6, <1>7, <1>8, <2>1, Zenon DEF Direction
  <2>2. CASE ~Dead(e)
    BY <1>5, <1>6, <1>8, <2>2, Zenon DEF Direction
  <2> QED BY <2>1, <2>2
<1>12. ASSUME NEW d \in End, d # e PROVE Direction(d)'
  BY <1>6, <1>7, <1>8, <1>12, DirectionKept, Zenon DEF Sound
<1>13. \A d \in End : sender'[d] = "dequeue" => writing'[d] = <<>>
  BY <1>8, <1>9 DEF Sound
<1> QED BY <1>10, <1>11, <1>12, <1>13 DEF Sound

LEMMA ReadSound == ASSUME Sound, NEW e \in End, Read(e) PROVE Sound'
<1> USE DEF appVars, senderVars, receiverVars
<1> DEFINE p == Peer(e)
<1>1. /\ TypeOK /\ p \in End /\ Peer(p) = e /\ p # e /\ Direction(p)
  BY PeerEnd DEF Sound
<1> HIDE DEF p
<1>2. /\ received[e] \in Seq(Nat) /\ wire[p] \in Seq(Nat) /\ queue[p] \in Seq(Nat)
      /\ writing[p] \in Seq(Nat) /\ accepted[p] \in Nat
  BY <1>1 DEF TypeOK
<1>3. PICK n \in 1 .. Len(wire[p]) :
        /\ received' = [received EXCEPT ![e] = received[e] \o First(wire[p], n)]
        /\ wire' = [wire EXCEPT ![p] = Rest(wire[p], n)]
  BY Read(e), Zenon DEF Read, First, Rest, p
<1> DEFINE r == received[e] \o First(wire[p], n)  w == Rest(wire[p], n)
<1>4. /\ Flow(received[e], wire[p], writing[p], queue[p], accepted[p])
      /\ ~Dead(p) => Full(received[e], wire[p], writing[p], queue[p], accepted[p])
  BY <1>1, Zenon DEF Direction
<1>5. /\ r \in Seq(Nat) /\ w \in Seq(Nat)
      /\ Flow(r, w, writing[p], queue[p], accepted[p])
      /\ \/ ~Full(received[e], wire[p], writing[p], queue[p], accepted[p])
         \/ Full(r, w, writing[p], queue[p], accepted[p])
  BY <1>2, <1>4, FlowRead, Zenon
<1> HIDE DEF r, w
<1>6. /\ UNCHANGED <<accepted, asked, queue, closed, sender, writing, reported, open, broken>>
      /\ receiver' \in [End -> {"read", "failed", "closing", "callback", "done"}]
  BY SMTT(30), <1>1, Read(e) DEF TypeOK, Read
<1>7. \A d : Dead(d)' = Dead(d)
  BY <1>6 DEF Dead
<1>8. /\ received' \in [End -> Seq(Nat)] /\ wire' \in [End -> Seq(Nat)]
      /\ received'[e] = r /\ wire'[p] = w
      /\ \A d \in End \ {e} : received'[d] = received[d]
      /\ \A d \in End \ {p} : wire'[d] = wire[d]
  BY <1>1, <1>3, <1>5 DEF TypeOK, r, w
<1>9. TypeOK'
  BY <1>1, <1>6, <1>8 DEF TypeOK
<1>10. Direction(p)'
  <2>1. ~Dead(p) => Full(r, w, writing[p], queue[p], accepted[p])
    BY <1>4, <1>5, Zenon
  <2> QED BY <1>1, <1>5, <1>6, <1>7, <1>8, <2>1, Zenon DEF Direction
<1>11. ASSUME NEW d \in End, d # p PROVE Direction(d)'
  <2>1. Peer(d) # e /\ Peer(d) \in End
    BY <1>11, PeerEnd DEF p
  <2> QED BY <1>6, <1>7, <1>8, <1>11, <2>1, DirectionKept, Zenon DEF Sound
<1> QED BY <1>6, <1>9, <1>10, <1>11 DEF Sound

\* The other steps move no byte.
LEMMA QuietSound ==
  ASSUME Sound, TypeOK',
         UNCHANGED <<accepted, queue, writing, wire, received>>,
         \A d \in End : sender'[d] = "dequeue" => sender[d] = "dequeue",
         \A d \in End : Dead(d) => Dead(d)'
  PROVE  Sound'
<1>1. ASSUME NEW d \in End PROVE Direction(d)'
  BY <1>1, DirectionKept, Zenon DEF Sound
<1> QED BY <1>1 DEF Sound

LEMMA SoundStep == Sound /\ [Next]_vars => Sound'
<1> SUFFICES ASSUME Sound, [Next]_vars PROVE Sound'
  OBVIOUS
<1> USE DEF appVars, senderVars, receiverVars
<1>1. TypeOK /\ \A d \in End : Peer(d) \in End
  BY PeerEnd DEF Sound
<1>2. ASSUME NEW e \in End, Disconnect(e) PROVE Sound'
  <2>1. TypeOK'
    BY <1>1, <1>2 DEF TypeOK, Disconnect
  <2> QED BY <1>2, <2>1, QuietSound DEF Disconnect, Dead
<1>3. ASSUME NEW e \in End, WriteFails(e) PROVE Sound'
  <2>1. TypeOK'
    BY <1>1, <1>3 DEF TypeOK, WriteFails
  <2>2. \A d \in End : sender'[d] = "dequeue" => sender[d] = "dequeue"
    BY <1>1, <1>3 DEF TypeOK, WriteFails
  <2> QED BY <1>3, <2>1, <2>2, QuietSound DEF WriteFails, Dead
<1>4. ASSUME NEW e \in End, SenderCloses(e) PROVE Sound'
  <2>1. TypeOK'
    BY <1>1, <1>4 DEF TypeOK, SenderCloses, MayReset
  <2>2. \A d \in End : sender'[d] = "dequeue" => sender[d] = "dequeue"
    BY <1>1, <1>4 DEF TypeOK, SenderCloses
  <2>3. \A d \in End : Dead(d) => Dead(d)'
    BY <1>1, <1>4 DEF TypeOK, SenderCloses, MayReset, Dead
  <2> QED BY <1>4, <2>1, <2>2, <2>3, QuietSound DEF SenderCloses
<1>5. ASSUME NEW e \in End, ReadFails(e) PROVE Sound'
  <2>1. TypeOK'
    BY <1>1, <1>5 DEF TypeOK, ReadFails
  <2> QED BY <1>5, <2>1, QuietSound DEF ReadFails, Dead
<1>6. ASSUME NEW e \in End, TestClosed(e) PROVE Sound'
  <2>1. TypeOK'
    BY <1>1, <1>6 DEF TypeOK, TestClosed
  <2> QED BY <1>6, <2>1, QuietSound DEF TestClosed, Dead
<1>7. ASSUME NEW e \in End, ReceiverCloses(e) PROVE Sound'
  <2>1. TypeOK'
    BY <1>1, <1>7 DEF TypeOK, ReceiverCloses
  <2> QED BY <1>7, <2>1, QuietSound DEF ReceiverCloses, Dead
<1>8. ASSUME NEW e \in End, OnDisconnect(e) PROVE Sound'
  <2>1. TypeOK'
    BY <1>1, <1>8 DEF TypeOK, OnDisconnect
  <2> QED BY <1>8, <2>1, QuietSound DEF OnDisconnect, Dead
<1>9. CASE Break
  <2>1. TypeOK'
    BY <1>1, <1>9 DEF TypeOK, Break
  <2> QED BY <1>9, <2>1, QuietSound DEF Break, Dead
<1>10. CASE UNCHANGED vars
  <2>1. TypeOK'
    BY <1>1, <1>10 DEF TypeOK, vars
  <2> QED BY <1>10, <2>1, QuietSound DEF vars, Dead
<1> QED BY <1>2, <1>3, <1>4, <1>5, <1>6, <1>7, <1>8, <1>9, <1>10,
           SendSound, DequeueSound, WriteSound, ReadSound DEF Next, Sender, Receiver

\* What the bytes on their way say about the two ends.
LEMMA SoundStream == Sound => StreamIntact
<1> SUFFICES ASSUME Sound, NEW e \in End
             PROVE  /\ Consecutive(received[Peer(e)], 0)
                    /\ Consecutive(wire[e], Len(received[Peer(e)]))
                    /\ Len(received[Peer(e)]) + Len(wire[e]) <= accepted[e] * FrameLen
  BY DEF StreamIntact
<1> DEFINE a == accepted[e]  q == Len(queue[e])  r == Len(received[Peer(e)])
           w == Len(wire[e])  m == Len(writing[e])
<1>1. /\ Consecutive(received[Peer(e)], 0) /\ Consecutive(wire[e], r)
      /\ q <= a /\ r + w + m <= Out(queue[e], a)
  BY Zenon DEF Sound, Direction, Flow
<1>2. /\ received[Peer(e)] \in Seq(Nat) /\ wire[e] \in Seq(Nat) /\ writing[e] \in Seq(Nat)
      /\ queue[e] \in Seq(Nat) /\ a \in Nat
  BY PeerEnd DEF Sound, TypeOK
<1>3. r \in Nat /\ w \in Nat /\ m \in Nat /\ q \in Nat
  BY <1>2, LenProperties
<1>4. Out(queue[e], a) = (a - q) * FrameLen
  BY DEF Out
<1>5. r + w + m <= (a - q) * FrameLen
  BY <1>1, <1>4, Zenon
<1>6. r + w <= a * FrameLen
  <2> HIDE DEF a, q, r, w, m
  <2>1. (a - q) * FrameLen <= a * FrameLen /\ a * FrameLen \in Nat /\ (a - q) * FrameLen \in Nat
    BY <1>1, <1>2, <1>3, ConnAssumption
  <2> QED BY <1>3, <1>5, <2>1
<1> QED BY <1>1, <1>6, Zenon

\* The stream arrives intact: OnData sees the accepted bytes in their order.
THEOREM IntactStream == Spec => []StreamIntact
<1>1. Init => Sound
  BY SoundInit
<1>2. Sound /\ [Next]_vars => Sound'
  BY SoundStep
<1>3. Sound => StreamIntact
  BY SoundStream
<1> QED BY <1>1, <1>2, <1>3, PTL DEF Spec

-----------------------------------------------------------------------------
(* The end of a connection.                                                *)

\* The sender is through once it has closed the socket; the receiver is on its
\* way to report the end if it, and not the application, closed the queue.
Ends ==
    \A e \in End :
        /\ ~open[e] => closed[e] /\ sender[e] = "done"
        /\ ~open[e] => queue[e] = <<>> /\ writing[e] = <<>>
        /\ closed[e] => asked[e] \/ receiver[e] \in {"callback", "done"}
        /\ receiver[e] = "callback" => closed[e]
        /\ receiver[e] = "done" => closed[e] /\ (reported[e] \/ asked[e])

LEMMA EndsStep == Sound /\ Ends /\ [Next]_vars => Ends'
<1> SUFFICES ASSUME Sound, Ends, [Next]_vars PROVE Ends'
  OBVIOUS
<1> USE DEF Ends, TypeOK, appVars, senderVars, receiverVars
<1>1. TypeOK /\ \A d \in End : sender[d] = "dequeue" => writing[d] = <<>>
  BY DEF Sound
<1>2. ASSUME NEW e \in End, SendData(e) PROVE Ends'
  BY <1>1, <1>2 DEF SendData
<1>3. ASSUME NEW e \in End, Disconnect(e) PROVE Ends'
  BY <1>1, <1>3 DEF Disconnect
<1>4. ASSUME NEW e \in End, Dequeue(e) PROVE Ends'
  BY <1>1, <1>4 DEF Dequeue
<1>5. ASSUME NEW e \in End, Write(e) PROVE Ends'
  BY <1>1, <1>5 DEF Write
<1>6. ASSUME NEW e \in End, WriteFails(e) PROVE Ends'
  BY <1>1, <1>6 DEF WriteFails
<1>7. ASSUME NEW e \in End, SenderCloses(e) PROVE Ends'
  BY <1>1, <1>7 DEF SenderCloses
<1>8. ASSUME NEW e \in End, Read(e) PROVE Ends'
  BY <1>1, <1>8 DEF Read
<1>9. ASSUME NEW e \in End, ReadFails(e) PROVE Ends'
  BY <1>1, <1>9 DEF ReadFails
<1>10. ASSUME NEW e \in End, TestClosed(e) PROVE Ends'
  BY <1>1, <1>10 DEF TestClosed
<1>11. ASSUME NEW e \in End, ReceiverCloses(e) PROVE Ends'
  BY <1>1, <1>11 DEF ReceiverCloses
<1>12. ASSUME NEW e \in End, OnDisconnect(e) PROVE Ends'
  BY <1>1, <1>12 DEF OnDisconnect
<1>13. CASE Break
  BY <1>13 DEF Break
<1>14. CASE UNCHANGED vars
  BY <1>14 DEF vars
<1> QED BY <1>2, <1>3, <1>4, <1>5, <1>6, <1>7, <1>8, <1>9, <1>10, <1>11, <1>12,
           <1>13, <1>14 DEF Next, Sender, Receiver

\* A socket is closed only after the queue was closed and every accepted frame
\* was written, whatever the order of SendData, Disconnect and failures.
THEOREM CloseAfterDrain == Spec => []CloseDrains
<1>1. Init => Sound /\ Ends
  BY SoundInit DEF Init, Ends
<1>2. Sound /\ Ends /\ [Next]_vars => (Sound /\ Ends)'
  BY SoundStep, EndsStep
<1>3. Ends => CloseDrains
  BY DEF Ends, CloseDrains
<1> QED BY <1>1, <1>2, <1>3, PTL DEF Spec

\* The end of a connection the application did not ask for reaches its callback
\* before the receiver goroutine returns.
THEOREM EndIsReported == Spec => []EndReported
<1>1. Init => Sound /\ Ends
  BY SoundInit DEF Init, Ends
<1>2. Sound /\ Ends /\ [Next]_vars => (Sound /\ Ends)'
  BY SoundStep, EndsStep
<1>3. Ends => EndReported
  BY DEF Ends, EndReported
<1> QED BY <1>1, <1>2, <1>3, PTL DEF Spec

\* Both goroutines of both ends, the two queues and what is between them keep
\* their types, the bytes of a message that is half written included.
THEOREM ConnTypes == Spec => []TypeOK
<1>1. Sound => TypeOK
  BY DEF Sound
<1> QED BY <1>1, SoundInit, SoundStep, PTL DEF Spec
=================================================================================
