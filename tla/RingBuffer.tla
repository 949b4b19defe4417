------------------------------ MODULE RingBuffer ------------------------------
(***************************************************************************)
(* The growing ring buffer of the send queue (ring_buffer.go).  It is not  *)
(* safe for concurrent use: its callers run one operation after the other, *)
(* so an operation is one step.  PushBatch, whose two loops have no bound, *)
(* is one step per iteration; "pending" holds what it has still to write,  *)
(* and nothing else runs before it is done.                                *)
(***************************************************************************)
EXTENDS Integers, Sequences

CONSTANTS
    Value,     \* elements
    Zero,      \* the zero value of the element type
    BaseSize,  \* argument of NewRingBuffer
    MaxCount,  \* bound on the number of elements stored
    MaxBatch   \* bound on the length of a batch

ASSUME RingAssumption ==
    /\ Zero \notin Value
    /\ BaseSize \in Nat \ {0}  \* NewRingBuffer panics otherwise
    /\ MaxCount \in Nat
    /\ MaxBatch \in Nat

VARIABLES
    buffer,   \* slots, indexed from 0
    size,
    head,     \* the next slot to read
    tail,     \* the next slot to write
    count,
    pending,  \* elements PushBatch has not written yet
    returned  \* what the last operation that returns elements returned

ring == <<buffer, size, head, tail, count>>
vars == <<ring, pending, returned>>

TypeOK ==
    /\ size \in Nat \ {0}
    /\ buffer \in [0 .. size - 1 -> Value \cup {Zero}]
    /\ head \in 0 .. size - 1
    /\ tail \in 0 .. size - 1
    /\ count \in 0 .. size
    /\ pending \in Seq(Value)
    /\ returned \in Seq(Value)

Init ==
    /\ size = BaseSize
    /\ buffer = [i \in 0 .. BaseSize - 1 |-> Zero]
    /\ head = 0 /\ tail = 0 /\ count = 0
    /\ pending = <<>> /\ returned = <<>>

IsEmpty == count = 0
IsFull  == count = size

\* PopAll, GetAll: the elements in order.
Slot(i) == (head + i) % size
Contents == [i \in 1 .. count |-> buffer[Slot(i - 1)]]

-----------------------------------------------------------------------------
\* The slots of a buffer twice as large: what lies between head and tail or,
\* if the elements wrap around, from head to the end and then from 0 to tail.
MutGrown ==
    LET stretch == IF head <= tail THEN tail - head ELSE size - head
        wrapped == IF head <= tail THEN 0 ELSE tail
    IN  [i \in 0 .. 2 * size - 1 |->
            CASE i < stretch -> buffer[head + i]
              [] i >= stretch /\ i < stretch + wrapped -> buffer[i - stretch]
              [] OTHER -> Zero]

Grown ==
    LET stretch == IF head < tail THEN tail - head ELSE size - head
        wrapped == IF head < tail THEN 0 ELSE tail
    IN  [i \in 0 .. 2 * size - 1 |->
            CASE i < stretch -> buffer[head + i]
              [] i >= stretch /\ i < stretch + wrapped -> buffer[i - stretch]
              [] OTHER -> Zero]

Grow ==
    /\ buffer' = Grown /\ size' = 2 * size
    /\ head' = 0 /\ tail' = count /\ count' = count

Store(v) ==
    /\ buffer' = [buffer EXCEPT ![tail] = v]
    /\ tail' = (tail + 1) % size
    /\ count' = count + 1
    /\ UNCHANGED <<size, head>>

\* Growing a full buffer and writing to slot count of the new one.
GrowAndStore(v) ==
    /\ buffer' = [Grown EXCEPT ![count] = v] /\ size' = 2 * size
    /\ head' = 0 /\ tail' = (count + 1) % (2 * size) /\ count' = count + 1

Push(v) ==
    /\ pending = <<>> /\ count < MaxCount
    /\ IF IsFull THEN GrowAndStore(v) ELSE Store(v)
    /\ UNCHANGED <<pending, returned>>

\* PushBatch: an empty batch changes nothing.  The loop condition of the growth
\* never becomes true again while elements are written, so it tells the two
\* loops apart.
PushBatch(values) ==
    /\ pending = <<>> /\ count + Len(values) <= MaxCount
    /\ pending' = values
    /\ UNCHANGED <<ring, returned>>

BatchTooLarge == size - count < Len(pending)

BatchGrow ==
    /\ pending # <<>> /\ BatchTooLarge
    /\ Grow /\ UNCHANGED <<pending, returned>>

BatchStore ==
    /\ pending # <<>> /\ ~BatchTooLarge
    /\ Store(Head(pending))
    /\ pending' = Tail(pending) /\ UNCHANGED returned

MutPop ==
    /\ pending = <<>>
    /\ IF IsEmpty
       THEN returned' = <<>> /\ UNCHANGED ring
       ELSE /\ returned' = <<buffer[head]>>
            /\ head' = (head + 1) % size
            /\ count' = count - 1
            /\ UNCHANGED <<buffer, size, tail>>
    /\ UNCHANGED pending

Pop ==
    /\ pending = <<>>
    /\ IF IsEmpty
       THEN returned' = <<>> /\ UNCHANGED ring
       ELSE /\ returned' = <<buffer[head]>>
            /\ buffer' = [buffer EXCEPT ![head] = Zero]
            /\ head' = (head + 1) % size
            /\ count' = count - 1
            /\ UNCHANGED <<size, tail>>
    /\ UNCHANGED pending

PopAll ==
    /\ pending = <<>>
    /\ returned' = Contents
    /\ IF IsEmpty
       THEN UNCHANGED ring
       ELSE /\ buffer' = [s \in DOMAIN buffer |->
                            IF \E i \in 0 .. count - 1 : s = Slot(i)
                            THEN Zero ELSE buffer[s]]
            /\ head' = 0 /\ tail' = 0 /\ count' = 0 /\ UNCHANGED size
    /\ UNCHANGED pending

Peek ==
    /\ pending = <<>>
    /\ returned' = IF IsEmpty THEN <<>> ELSE <<buffer[head]>>
    /\ UNCHANGED <<ring, pending>>

GetAll ==
    /\ pending = <<>>
    /\ returned' = Contents
    /\ UNCHANGED <<ring, pending>>

Clear ==
    /\ pending = <<>>
    /\ head' = 0 /\ tail' = 0 /\ count' = 0
    /\ UNCHANGED <<buffer, size, pending, returned>>

Batch == UNION {[1 .. n -> Value] : n \in 0 .. MaxBatch}

Next ==
    \/ \E v \in Value : Push(v)
    \/ \E values \in Batch : PushBatch(values)
    \/ BatchGrow \/ BatchStore
    \/ Pop \/ PopAll \/ Peek \/ GetAll \/ Clear

Spec == Init /\ [][Next]_vars

-----------------------------------------------------------------------------
(* Properties.                                                             *)

\* The ring buffer is a first-in first-out queue, however often it wraps
\* around and grows: no element is lost, duplicated, reordered or replaced by
\* an old one.
F == INSTANCE Fifo WITH items <- Contents

ImplementsFifo == F!Spec

\* head, tail and count describe one stretch of slots, which may wrap around,
\* and every slot of it holds an element: an operation never returns a zero
\* value as if it were one.  A full and an empty buffer have head = tail alike.
Consistent ==
    /\ tail = Slot(count)
    /\ \A i \in 0 .. count - 1 : buffer[Slot(i)] \in Value

\* An element that has been taken out is not kept reachable: every slot
\* outside the occupied stretch holds the zero value, so that growth cannot
\* bring an old element back either.  Only Clear, which nobody in the
\* repository calls and which does not clean the slots, leaves elements behind.
Occupied == {Slot(i) : i \in 0 .. count - 1}
NoneKept == \A s \in DOMAIN buffer \ Occupied : buffer[s] = Zero

NoRetention == [][NoneKept => NoneKept' \/ Clear]_vars
===============================================================================
