--------------------------- MODULE RingBufferProofs ---------------------------
(***************************************************************************)
(* Proofs about RingBuffer: its slots stay consistent through every wrap   *)
(* and growth, nothing is retained, and it implements a first-in first-out *)
(* queue of any size.                                                      *)
(***************************************************************************)
EXTENDS RingBuffer, SequenceTheorems, TLAPS

Sound == TypeOK /\ Consistent

-----------------------------------------------------------------------------
(* Positions modulo the size, without the modulo.                            *)

At(h, s, i) == IF h + i < s THEN h + i ELSE h + i - s

LEMMA ModAt ==
  ASSUME NEW s \in Nat \ {0}, NEW h \in 0 .. s - 1, NEW i \in 0 .. s
  PROVE  /\ (h + i) % s = At(h, s, i)
         /\ At(h, s, i) \in 0 .. s - 1
  BY SMT DEF At

LEMMA AtShift ==
  ASSUME NEW s \in Nat \ {0}, NEW h \in 0 .. s - 1, NEW i \in 0 .. s - 1
  PROVE  /\ At(At(h, s, 1), s, i) = At(h, s, i + 1)
         /\ i + 1 < s => At(h, s, i + 1) # h
         /\ At(h, s, i + 1) \in 0 .. s - 1
  BY DEF At

\* Consistent, of any ring, with and without the modulo.
Mod(b, h, s, c, t) ==
    t = (h + c) % s /\ \A i \in 0 .. c - 1 : b[(h + i) % s] \in Value

NoMod(b, h, s, c, t) ==
    t = At(h, s, c) /\ \A i \in 0 .. c - 1 : b[At(h, s, i)] \in Value

LEMMA SameSlots ==
  ASSUME NEW s \in Nat \ {0}, NEW h \in 0 .. s - 1, NEW c \in 0 .. s, NEW b, NEW t
  PROVE  Mod(b, h, s, c, t) <=> NoMod(b, h, s, c, t)
<1>1. (h + c) % s = At(h, s, c)
  BY ModAt
<1>2. ASSUME NEW i \in 0 .. c - 1 PROVE (h + i) % s = At(h, s, i)
  <2>1. i \in 0 .. s
    OBVIOUS
  <2> QED BY <2>1, ModAt
<1>3. (\A i \in 0 .. c - 1 : b[(h + i) % s] \in Value)
        <=> (\A i \in 0 .. c - 1 : b[At(h, s, i)] \in Value)
  BY <1>2, Zenon
<1> QED BY <1>1, <1>3, Zenon DEF Mod, NoMod

LEMMA Slots ==
  ASSUME TypeOK
  PROVE  Consistent <=> NoMod(buffer, head, size, count, tail)
<1>1. Consistent <=> Mod(buffer, head, size, count, tail)
  BY Zenon DEF Consistent, Slot, Mod
<1> QED BY <1>1, SameSlots DEF TypeOK

LEMMA SlotsNext ==
  ASSUME TypeOK'
  PROVE  Consistent' <=> NoMod(buffer', head', size', count', tail')
<1>1. Consistent' <=> Mod(buffer', head', size', count', tail')
  BY Zenon DEF Consistent, Slot, Mod
<1> QED BY <1>1, SameSlots DEF TypeOK

-----------------------------------------------------------------------------
(* The elements as a sequence.                                               *)

Elements(b, h, s, c) == [i \in 1 .. c |-> b[(h + (i - 1)) % s]]

LEMMA ElementsSeq ==
  ASSUME NEW s \in Nat \ {0}, NEW h \in 0 .. s - 1, NEW c \in 0 .. s, NEW b,
         \A i \in 0 .. c - 1 : b[At(h, s, i)] \in Value
  PROVE  /\ Elements(b, h, s, c) \in Seq(Value)
         /\ Len(Elements(b, h, s, c)) = c
         /\ \A i \in 1 .. c : Elements(b, h, s, c)[i] = b[At(h, s, i - 1)]
<1> DEFINE e == Elements(b, h, s, c)
<1>1. ASSUME NEW i \in 1 .. c PROVE e[i] = b[At(h, s, i - 1)]
  <2>1. (h + (i - 1)) % s = At(h, s, i - 1)
    BY ModAt
  <2> QED BY <2>1 DEF Elements
<1>2. ASSUME NEW i \in 1 .. c PROVE e[i] \in Value
  <2>1. i - 1 \in 0 .. c - 1
    OBVIOUS
  <2> QED BY <2>1, <1>1
<1>3. e \in [1 .. c -> Value]
  BY <1>2 DEF Elements
<1>4. e \in Seq(Value)
  BY <1>3, SeqDef
<1>5. Len(e) = c
  <2>1. DOMAIN e = 1 .. c
    BY DEF Elements
  <2> QED BY <2>1, <1>4, LenProperties
<1> QED BY <1>1, <1>4, <1>5

LEMMA ContentsSeq ==
  ASSUME Sound
  PROVE  /\ Contents \in Seq(Value)
         /\ Len(Contents) = count
         /\ \A i \in 1 .. count : Contents[i] = buffer[At(head, size, i - 1)]
<1>1. size \in Nat \ {0} /\ head \in 0 .. size - 1 /\ count \in 0 .. size
  BY DEF Sound, TypeOK
<1>2. Contents = Elements(buffer, head, size, count)
  BY DEF Contents, Slot, Elements
<1>3. \A i \in 0 .. count - 1 : buffer[At(head, size, i)] \in Value
  BY Slots DEF Sound, NoMod
<1> QED BY <1>1, <1>2, <1>3, ElementsSeq

\* The same in the next state.
LEMMA ContentsNext ==
  ASSUME Sound'
  PROVE  /\ Contents' \in Seq(Value)
         /\ Len(Contents') = count'
         /\ \A i \in 1 .. count' : Contents'[i] = buffer'[At(head', size', i - 1)]
<1>1. size' \in Nat \ {0} /\ head' \in 0 .. size' - 1 /\ count' \in 0 .. size'
  BY DEF Sound, TypeOK
<1>2. Contents' = Elements(buffer', head', size', count')
  BY DEF Contents, Slot, Elements
<1>3. \A i \in 0 .. count' - 1 : buffer'[At(head', size', i)] \in Value
  BY SlotsNext DEF Sound, NoMod
<1>4. /\ Elements(buffer', head', size', count') \in Seq(Value)
      /\ Len(Elements(buffer', head', size', count')) = count'
      /\ \A i \in 1 .. count' :
            Elements(buffer', head', size', count')[i] = buffer'[At(head', size', i - 1)]
  BY <1>1, <1>3, ElementsSeq
<1> QED BY <1>2, <1>4, Zenon

LEMMA AppendFacts ==
  ASSUME NEW q \in Seq(Value), NEW n, Len(q) = n, NEW v \in Value
  PROVE  /\ Append(q, v) \in Seq(Value)
         /\ Len(Append(q, v)) = n + 1
         /\ \A i \in 1 .. n : Append(q, v)[i] = q[i]
         /\ Append(q, v)[n + 1] = v
  BY AppendProperties

-----------------------------------------------------------------------------
(* Writing, growing and reading, on consistent buffers.                      *)

LEMMA StoreAppends ==
  ASSUME Sound, count < size, NEW v \in Value, Store(v),
         pending' \in Seq(Value), returned' \in Seq(Value)
  PROVE  Sound' /\ Contents' = Append(Contents, v)
<1>1. /\ size \in Nat \ {0} /\ size' = size
      /\ head \in 0 .. size - 1 /\ head' = head
      /\ count \in 0 .. size - 1 /\ count' = count + 1
      /\ tail \in 0 .. size - 1 /\ tail' = (tail + 1) % size
      /\ buffer \in [0 .. size - 1 -> Value \cup {Zero}]
      /\ buffer' = [buffer EXCEPT ![tail] = v]
  BY DEF Sound, TypeOK, Store
<1>2. NoMod(buffer, head, size, count, tail)
  BY Slots DEF Sound
<1>3. tail = At(head, size, count)
  BY <1>2 DEF NoMod
<1>4. tail' = At(tail, size, 1) /\ tail' \in 0 .. size - 1
  BY <1>1, ModAt
<1>5. tail' = At(head, size, count + 1)
  BY <1>1, <1>3, <1>4 DEF At
<1>6. ASSUME NEW i \in 0 .. count - 1
      PROVE  buffer'[At(head, size, i)] = buffer[At(head, size, i)]
  <2>1. At(head, size, i) # tail /\ At(head, size, i) \in 0 .. size - 1
    BY <1>1, <1>3 DEF At
  <2> QED BY <1>1, <2>1
<1>7. buffer'[At(head, size, count)] = v
  BY <1>1, <1>3
<1>8. TypeOK'
  BY <1>1, <1>4 DEF TypeOK
<1>9. ASSUME NEW i \in 0 .. count PROVE buffer'[At(head, size, i)] \in Value
  <2>1. CASE i = count
    BY <2>1, <1>7
  <2>2. CASE i # count
    <3>1. i \in 0 .. count - 1
      BY <1>1, <2>2
    <3> QED BY <3>1, <1>2, <1>6 DEF NoMod
  <2> QED BY <2>1, <2>2
<1>10. Sound'
  <2>1. NoMod(buffer', head', size', count', tail')
    <3>1. 0 .. count' - 1 = 0 .. count
      BY <1>1
    <3> QED BY <1>1, <1>5, <1>9, <3>1 DEF NoMod
  <2> QED BY <1>8, <2>1, SlotsNext DEF Sound
<1>11. Contents' = Append(Contents, v)
  <2>1. /\ Contents \in Seq(Value) /\ Len(Contents) = count
        /\ \A i \in 1 .. count : Contents[i] = buffer[At(head, size, i - 1)]
    BY ContentsSeq
  <2>2. /\ Contents' \in Seq(Value) /\ Len(Contents') = count + 1
        /\ \A i \in 1 .. count + 1 : Contents'[i] = buffer'[At(head, size, i - 1)]
    BY <1>1, <1>10, ContentsNext, Zenon
  <2>3. /\ Append(Contents, v) \in Seq(Value)
        /\ Len(Append(Contents, v)) = count + 1
        /\ \A i \in 1 .. count : Append(Contents, v)[i] = Contents[i]
        /\ Append(Contents, v)[count + 1] = v
    BY <2>1, AppendFacts
  <2>4. ASSUME NEW i \in 1 .. count + 1
        PROVE  Contents'[i] = Append(Contents, v)[i]
    <3>1. CASE i = count + 1
      <4>1. i - 1 = count
        BY <3>1, <1>1
      <4> QED BY <3>1, <4>1, <2>2, <2>3, <1>7
    <3>2. CASE i # count + 1
      <4>1. i \in 1 .. count /\ i - 1 \in 0 .. count - 1
        BY <3>2, <1>1
      <4> QED BY <4>1, <2>1, <2>2, <2>3, <1>6
    <3> QED BY <3>1, <3>2
  <2> QED BY <2>2, <2>3, <2>4, SeqEqual
<1> QED BY <1>10, <1>11

\* Growth moves the i-th element to slot i, wrapped around or not.
LEMMA GrownKeeps ==
  ASSUME Sound
  PROVE  /\ Grown \in [0 .. 2 * size - 1 -> Value \cup {Zero}]
         /\ \A i \in 0 .. count - 1 : Grown[i] = buffer[At(head, size, i)]
<1> DEFINE stretch == IF head < tail THEN tail - head ELSE size - head
           wrapped == IF head < tail THEN 0 ELSE tail
           slot(i) == CASE i < stretch -> buffer[head + i]
                        [] i >= stretch /\ i < stretch + wrapped -> buffer[i - stretch]
                        [] OTHER -> Zero
<1>1. /\ size \in Nat \ {0} /\ head \in 0 .. size - 1 /\ tail \in 0 .. size - 1
      /\ count \in 0 .. size /\ buffer \in [0 .. size - 1 -> Value \cup {Zero}]
  BY DEF Sound, TypeOK
<1>2. tail = At(head, size, count)
  BY Slots DEF Sound, NoMod
<1>3. Grown = [i \in 0 .. 2 * size - 1 |-> slot(i)]
  BY DEF Grown
<1>4. ASSUME NEW i \in 0 .. 2 * size - 1 PROVE slot(i) \in Value \cup {Zero}
  <2>1. CASE i < stretch
    <3>1. slot(i) = buffer[head + i] /\ head + i \in 0 .. size - 1
      BY <1>1, <2>1
    <3> QED BY <3>1, <1>1
  <2>2. CASE i >= stretch /\ i < stretch + wrapped
    <3>1. slot(i) = buffer[i - stretch] /\ i - stretch \in 0 .. size - 1
      BY <1>1, <2>2
    <3> QED BY <3>1, <1>1
  <2>3. CASE ~(i < stretch) /\ ~(i >= stretch /\ i < stretch + wrapped)
    BY <2>3
  <2> QED BY <2>1, <2>2, <2>3
<1>5. ASSUME NEW i \in 0 .. count - 1 PROVE slot(i) = buffer[At(head, size, i)]
  <2>1. i < stretch + wrapped
    BY <1>1, <1>2 DEF At
  <2>2. CASE i < stretch
    <3>1. slot(i) = buffer[head + i] /\ head + i = At(head, size, i)
      BY <1>1, <2>2 DEF At
    <3> QED BY <3>1
  <2>3. CASE i >= stretch
    <3>1. i - stretch = At(head, size, i)
      BY <1>1, <1>2, <2>1, <2>3 DEF At
    <3>2. slot(i) = buffer[i - stretch]
      BY <1>1, <2>1, <2>3
    <3> QED BY <3>1, <3>2
  <2> QED BY <1>1, <2>2, <2>3
<1>6. ASSUME NEW i \in 0 .. count - 1 PROVE Grown[i] = slot(i)
  <2>1. i \in 0 .. 2 * size - 1
    BY <1>1
  <2> QED BY <2>1, <1>3
<1>7. Grown \in [0 .. 2 * size - 1 -> Value \cup {Zero}]
  <2> HIDE DEF slot
  <2> QED BY <1>3, <1>4
<1> QED BY <1>5, <1>6, <1>7

LEMMA GrowKeeps ==
  ASSUME Sound, Grow, pending' \in Seq(Value), returned' \in Seq(Value)
  PROVE  Sound' /\ Contents' = Contents
<1>1. /\ size \in Nat \ {0} /\ size' = 2 * size /\ size' \in Nat \ {0}
      /\ head \in 0 .. size - 1 /\ head' = 0
      /\ count \in 0 .. size /\ count' = count /\ tail' = count
      /\ buffer' = Grown
  BY DEF Sound, TypeOK, Grow
<1>2. /\ buffer' \in [0 .. size' - 1 -> Value \cup {Zero}]
      /\ \A i \in 0 .. count - 1 : buffer'[i] = buffer[At(head, size, i)]
  BY <1>1, GrownKeeps
<1>3. \A i \in 0 .. count - 1 : buffer[At(head, size, i)] \in Value
  BY Slots DEF Sound, NoMod
<1>4. \A i \in 0 .. count : At(head', size', i) = i
  BY <1>1 DEF At
<1>5. \A i \in 0 .. count - 1 :
        buffer'[At(head', size', i)] = buffer[At(head, size, i)]
  <2> TAKE i \in 0 .. count - 1
  <2>1. At(head', size', i) = i
    BY <1>1, <1>4
  <2> QED BY <2>1, <1>2
<1>6. Sound'
  <2>1. TypeOK'
    BY <1>1, <1>2 DEF TypeOK
  <2>2. tail' = At(head', size', count')
    BY <1>1, <1>4
  <2>3. NoMod(buffer', head', size', count', tail')
    BY <1>1, <1>3, <1>5, <2>2 DEF NoMod
  <2> QED BY <2>1, <2>3, SlotsNext DEF Sound
<1>7. Contents' = Contents
  <2>1. /\ Contents \in Seq(Value) /\ Len(Contents) = count
        /\ \A i \in 1 .. count : Contents[i] = buffer[At(head, size, i - 1)]
    BY ContentsSeq
  <2>2. /\ Contents' \in Seq(Value) /\ Len(Contents') = count
        /\ \A i \in 1 .. count : Contents'[i] = buffer'[At(head', size', i - 1)]
    BY <1>1, <1>6, ContentsNext, Zenon
  <2>3. ASSUME NEW i \in 1 .. count PROVE Contents'[i] = Contents[i]
    <3>1. i - 1 \in 0 .. count - 1
      BY <1>1
    <3> QED BY <3>1, <2>1, <2>2, <1>5
  <2> QED BY <2>1, <2>2, <2>3, SeqEqual
<1> QED BY <1>6, <1>7

LEMMA GrowAndStoreAppends ==
  ASSUME Sound, IsFull, NEW v \in Value, GrowAndStore(v),
         pending' \in Seq(Value), returned' \in Seq(Value)
  PROVE  Sound' /\ Contents' = Append(Contents, v)
<1>1. /\ size \in Nat \ {0} /\ size' = 2 * size /\ size' \in Nat \ {0}
      /\ head \in 0 .. size - 1 /\ head' = 0
      /\ count = size /\ count' = count + 1
      /\ tail' = (count + 1) % size'
      /\ buffer' = [Grown EXCEPT ![count] = v]
  BY DEF Sound, TypeOK, GrowAndStore, IsFull
<1>2. /\ Grown \in [0 .. size' - 1 -> Value \cup {Zero}]
      /\ \A i \in 0 .. count - 1 : Grown[i] = buffer[At(head, size, i)]
  BY <1>1, GrownKeeps
<1>3. /\ buffer' \in [0 .. size' - 1 -> Value \cup {Zero}]
      /\ buffer'[count] = v
      /\ \A i \in 0 .. count - 1 : buffer'[i] = buffer[At(head, size, i)]
  BY <1>1, <1>2
<1>4. \A i \in 0 .. count - 1 : buffer[At(head, size, i)] \in Value
  BY Slots DEF Sound, NoMod
<1>5. \A i \in 0 .. count : At(head', size', i) = i
  BY <1>1 DEF At
<1>6. tail' = At(head', size', count') /\ tail' \in 0 .. size' - 1
  <2>1. head' \in 0 .. size' - 1 /\ count' \in 0 .. size' /\ head' + count' = count + 1
    BY <1>1
  <2>2. /\ (head' + count') % size' = At(head', size', count')
        /\ At(head', size', count') \in 0 .. size' - 1
    BY <1>1, <2>1, ModAt
  <2>3. tail' = (head' + count') % size'
    BY <1>1, <2>1
  <2> QED BY <2>2, <2>3, Zenon
<1>7. ASSUME NEW i \in 0 .. count PROVE buffer'[At(head', size', i)] \in Value
  <2>1. At(head', size', i) = i
    BY <1>5
  <2>2. CASE i = count
    BY <2>1, <2>2, <1>3
  <2>3. CASE i # count
    <3>1. i \in 0 .. count - 1
      BY <1>1, <2>3
    <3> QED BY <2>1, <3>1, <1>3, <1>4
  <2> QED BY <2>2, <2>3
<1>8. Sound'
  <2>1. TypeOK'
    BY <1>1, <1>3, <1>6 DEF TypeOK
  <2>2. 0 .. count' - 1 = 0 .. count
    BY <1>1
  <2>3. NoMod(buffer', head', size', count', tail')
    BY <1>6, <1>7, <2>2 DEF NoMod
  <2> QED BY <2>1, <2>3, SlotsNext DEF Sound
<1>9. Contents' = Append(Contents, v)
  <2>1. /\ Contents \in Seq(Value) /\ Len(Contents) = count
        /\ \A i \in 1 .. count : Contents[i] = buffer[At(head, size, i - 1)]
    BY ContentsSeq
  <2>2. /\ Contents' \in Seq(Value) /\ Len(Contents') = count + 1
        /\ \A i \in 1 .. count + 1 : Contents'[i] = buffer'[At(head', size', i - 1)]
    BY <1>1, <1>8, ContentsNext, Zenon
  <2>3. /\ Append(Contents, v) \in Seq(Value)
        /\ Len(Append(Contents, v)) = count + 1
        /\ \A i \in 1 .. count : Append(Contents, v)[i] = Contents[i]
        /\ Append(Contents, v)[count + 1] = v
    BY <2>1, AppendFacts
  <2>4. ASSUME NEW i \in 1 .. count + 1
        PROVE  Contents'[i] = Append(Contents, v)[i]
    <3>1. i - 1 \in 0 .. count /\ At(head', size', i - 1) = i - 1
      BY <1>1, <1>5
    <3>2. CASE i = count + 1
      <4>1. i - 1 = count
        BY <3>2, <1>1
      <4> QED BY <3>1, <3>2, <4>1, <2>2, <2>3, <1>3
    <3>3. CASE i # count + 1
      <4>1. i \in 1 .. count /\ i - 1 \in 0 .. count - 1
        BY <3>3, <1>1
      <4> QED BY <3>1, <4>1, <2>1, <2>2, <2>3, <1>3
    <3> QED BY <3>2, <3>3
  <2> QED BY <2>2, <2>3, <2>4, SeqEqual
<1> QED BY <1>8, <1>9

LEMMA FirstElement ==
  ASSUME Sound, ~IsEmpty
  PROVE  /\ Contents \in Seq(Value) /\ Contents # <<>>
         /\ Head(Contents) = buffer[head] /\ buffer[head] \in Value
<1>1. /\ size \in Nat \ {0} /\ head \in 0 .. size - 1 /\ count \in 1 .. size
  BY DEF Sound, TypeOK, IsEmpty
<1>2. /\ Contents \in Seq(Value) /\ Len(Contents) = count
      /\ \A i \in 1 .. count : Contents[i] = buffer[At(head, size, i - 1)]
  BY ContentsSeq
<1>3. At(head, size, 0) = head
  BY <1>1 DEF At
<1>4. Contents # <<>> /\ Head(Contents) = Contents[1] /\ Contents[1] \in Value
  BY <1>1, <1>2
<1>5. Contents[1] = buffer[head]
  <2>1. 1 \in 1 .. count /\ 1 - 1 = 0
    BY <1>1
  <2> QED BY <2>1, <1>2, <1>3
<1> QED BY <1>2, <1>4, <1>5

LEMMA PopTakes ==
  ASSUME Sound, ~IsEmpty, Pop
  PROVE  /\ Sound' /\ Contents # <<>>
         /\ returned' = <<Head(Contents)>> /\ Contents' = Tail(Contents)
<1>1. /\ size \in Nat \ {0} /\ size' = size
      /\ head \in 0 .. size - 1 /\ head' = (head + 1) % size
      /\ count \in 1 .. size /\ count' = count - 1 /\ count # 0
      /\ tail \in 0 .. size - 1 /\ tail' = tail
      /\ buffer \in [0 .. size - 1 -> Value \cup {Zero}]
      /\ buffer' = [buffer EXCEPT ![head] = Zero]
      /\ returned' = <<buffer[head]>> /\ pending' = pending /\ pending \in Seq(Value)
  BY DEF Sound, TypeOK, Pop, IsEmpty
<1>2. /\ tail = At(head, size, count)
      /\ \A i \in 0 .. count - 1 : buffer[At(head, size, i)] \in Value
  BY Slots DEF Sound, NoMod
<1>3. head' = At(head, size, 1) /\ head' \in 0 .. size - 1
  BY <1>1, ModAt
<1>4. tail' = At(head', size', count')
  <2>1. count - 1 \in 0 .. size - 1 /\ (count - 1) + 1 = count
    BY <1>1
  <2>2. At(At(head, size, 1), size, count - 1) = At(head, size, count)
    BY <1>1, <2>1, AtShift
  <2> QED BY <1>1, <1>2, <1>3, <2>2, Zenon
<1>5. ASSUME NEW i \in 0 .. count - 2
      PROVE  buffer'[At(head', size', i)] = buffer[At(head, size, i + 1)]
  <2>1. i \in 0 .. size - 1 /\ i + 1 < size
    BY <1>1
  <2>2. /\ At(At(head, size, 1), size, i) = At(head, size, i + 1)
        /\ At(head, size, i + 1) # head /\ At(head, size, i + 1) \in 0 .. size - 1
    BY <1>1, <2>1, AtShift
  <2> QED BY <1>1, <1>3, <2>2
<1>6. ASSUME NEW i \in 0 .. count - 2 PROVE buffer'[At(head', size', i)] \in Value
  <2>1. i + 1 \in 0 .. count - 1
    BY <1>1
  <2> QED BY <2>1, <1>2, <1>5
<1>7. buffer[head] \in Value
  BY FirstElement
<1>8. Sound'
  <2>1. <<buffer[head]>> \in Seq(Value)
    BY <1>7
  <2>2. buffer' \in [0 .. size' - 1 -> Value \cup {Zero}] /\ count' \in 0 .. size'
    BY <1>1
  <2>3. TypeOK'
    BY <1>1, <1>3, <2>1, <2>2 DEF TypeOK
  <2>4. 0 .. count' - 1 = 0 .. count - 2
    BY <1>1
  <2>5. NoMod(buffer', head', size', count', tail')
    BY <1>4, <1>6, <2>4 DEF NoMod
  <2> QED BY <2>3, <2>5, SlotsNext DEF Sound
<1>9. /\ Contents \in Seq(Value) /\ Len(Contents) = count
      /\ \A i \in 1 .. count : Contents[i] = buffer[At(head, size, i - 1)]
  BY ContentsSeq
<1>10. Contents # <<>> /\ Head(Contents) = buffer[head]
  BY FirstElement
<1>11. Contents' = Tail(Contents)
  <2>1. /\ Contents' \in Seq(Value) /\ Len(Contents') = count - 1
        /\ \A i \in 1 .. count - 1 : Contents'[i] = buffer'[At(head', size', i - 1)]
    BY <1>1, <1>8, ContentsNext, Zenon
  <2>2. /\ Tail(Contents) \in Seq(Value) /\ Len(Tail(Contents)) = count - 1
        /\ \A i \in 1 .. count - 1 : Tail(Contents)[i] = Contents[i + 1]
    BY <1>9, <1>10, HeadTailProperties
  <2>3. ASSUME NEW i \in 1 .. count - 1 PROVE Contents'[i] = Tail(Contents)[i]
    <3>1. /\ i - 1 \in 0 .. count - 2 /\ i + 1 \in 1 .. count
          /\ (i - 1) + 1 = i /\ (i + 1) - 1 = i
      BY <1>1
    <3> QED BY <3>1, <2>1, <2>2, <1>5, <1>9
  <2> QED BY <2>1, <2>2, <2>3, SeqEqual
<1> QED BY <1>1, <1>8, <1>10, <1>11

\* PopAll and Clear.
LEMMA Emptied ==
  ASSUME TypeOK, buffer' \in [0 .. size - 1 -> Value \cup {Zero}], size' = size,
         head' = 0, tail' = 0, count' = 0,
         pending' \in Seq(Value), returned' \in Seq(Value)
  PROVE  Sound' /\ Contents' = <<>>
<1>1. TypeOK'
  BY DEF TypeOK
<1>2. NoMod(buffer', head', size', count', tail')
  BY DEF NoMod, At, TypeOK
<1>3. Sound'
  BY <1>1, <1>2, SlotsNext DEF Sound
<1>4. Contents' \in Seq(Value) /\ Len(Contents') = 0
  BY <1>3, ContentsNext, Zenon
<1> QED BY <1>3, <1>4

LEMMA EmptyContents == ASSUME Sound PROVE IsEmpty <=> Contents = <<>>
<1>1. count \in Nat /\ Contents \in Seq(Value) /\ Len(Contents) = count
  BY ContentsSeq DEF Sound, TypeOK
<1> QED BY <1>1 DEF IsEmpty

-----------------------------------------------------------------------------
(* Every step keeps the buffer consistent and is a step of Fifo.             *)

FifoStep == [F!Next]_<<Contents, returned>>

\* Steps that leave the ring alone.
LEMMA ReadStep ==
  ASSUME Sound, UNCHANGED ring, pending' \in Seq(Value), returned' \in Seq(Value)
  PROVE  Sound' /\ Contents' = Contents
  BY DEF Sound, TypeOK, Consistent, Slot, Contents, ring

LEMMA PutStep ==
  ASSUME NEW v \in Value, Contents' = Append(Contents, v), returned' = returned
  PROVE  FifoStep
  BY DEF FifoStep, F!Next, F!Put

LEMMA RingStep ==
  ASSUME Sound, [Next]_vars
  PROVE  Sound' /\ FifoStep
<1>1. /\ size \in Nat \ {0} /\ count \in 0 .. size /\ tail \in 0 .. size - 1
      /\ buffer \in [0 .. size - 1 -> Value \cup {Zero}]
      /\ pending \in Seq(Value) /\ returned \in Seq(Value)
  BY DEF Sound, TypeOK
<1>2. Contents \in Seq(Value) /\ (IsEmpty <=> Contents = <<>>)
  BY ContentsSeq, EmptyContents
<1>3. ASSUME NEW v \in Value, Push(v) PROVE Sound' /\ FifoStep
  <2>1. pending' \in Seq(Value) /\ returned' \in Seq(Value) /\ returned' = returned
    BY <1>1, <1>3 DEF Push
  <2>2. CASE IsFull
    <3>1. GrowAndStore(v)
      BY <1>3, <2>2 DEF Push
    <3> QED BY <2>1, <2>2, <3>1, GrowAndStoreAppends, PutStep
  <2>3. CASE ~IsFull
    <3>1. Store(v) /\ count < size
      BY <1>1, <1>3, <2>3 DEF Push, IsFull
    <3> QED BY <2>1, <3>1, StoreAppends, PutStep
  <2> QED BY <2>2, <2>3
<1>4. ASSUME NEW values \in Batch, PushBatch(values) PROVE Sound' /\ FifoStep
  <2>1. values \in Seq(Value)
    <3>1. PICK n \in 0 .. MaxBatch : values \in [1 .. n -> Value]
      BY DEF Batch
    <3>2. n \in Nat
      BY RingAssumption
    <3> QED BY <3>1, <3>2, SeqDef
  <2>2. UNCHANGED ring /\ pending' \in Seq(Value) /\ returned' = returned
    BY <1>4, <2>1 DEF PushBatch
  <2>3. Sound' /\ Contents' = Contents
    BY <1>1, <2>2, ReadStep
  <2> QED BY <2>2, <2>3 DEF FifoStep
<1>5. ASSUME BatchGrow PROVE Sound' /\ FifoStep
  <2>1. Grow /\ pending' = pending /\ returned' = returned
    BY <1>5 DEF BatchGrow
  <2>2. Sound' /\ Contents' = Contents
    BY <1>1, <2>1, GrowKeeps
  <2> QED BY <2>1, <2>2 DEF FifoStep
<1>6. ASSUME BatchStore PROVE Sound' /\ FifoStep
  <2>1. /\ pending # <<>> /\ ~BatchTooLarge /\ Store(Head(pending))
        /\ pending' = Tail(pending) /\ returned' = returned
    BY <1>6 DEF BatchStore
  <2>2. /\ Head(pending) \in Value /\ Tail(pending) \in Seq(Value)
        /\ Len(pending) \in Nat \ {0}
    BY <1>1, <2>1, HeadTailProperties, EmptySeq
  <2>3. count < size
    BY <1>1, <2>1, <2>2 DEF BatchTooLarge
  <2> QED BY <1>1, <2>1, <2>2, <2>3, StoreAppends, PutStep
<1>7. ASSUME Pop PROVE Sound' /\ FifoStep
  <2>1. CASE IsEmpty
    <3>1. UNCHANGED ring /\ pending' = pending /\ returned' = <<>>
      BY <1>7, <2>1 DEF Pop
    <3>2. Sound' /\ Contents' = Contents
      BY <1>1, <3>1, ReadStep, EmptySeq
    <3> QED BY <1>2, <2>1, <3>1, <3>2 DEF FifoStep, F!Next, F!Take
  <2>2. CASE ~IsEmpty
    BY <1>7, <2>2, PopTakes DEF FifoStep, F!Next, F!Take
  <2> QED BY <2>1, <2>2
<1>8. ASSUME PopAll PROVE Sound' /\ FifoStep
  <2>1. pending' = pending /\ returned' = Contents /\ returned' \in Seq(Value)
    BY <1>2, <1>8 DEF PopAll
  <2>2. Sound' /\ Contents' = <<>>
    <3>1. CASE IsEmpty
      <4>1. UNCHANGED ring
        BY <1>8, <3>1 DEF PopAll
      <4> QED BY <1>1, <1>2, <2>1, <3>1, <4>1, ReadStep
    <3>2. CASE ~IsEmpty
      <4>1. /\ buffer' \in [0 .. size - 1 -> Value \cup {Zero}] /\ size' = size
            /\ head' = 0 /\ tail' = 0 /\ count' = 0
        BY <1>1, <1>8, <3>2 DEF PopAll
      <4> QED BY <1>1, <2>1, <4>1, Emptied DEF Sound
    <3> QED BY <3>1, <3>2
  <2> QED BY <2>1, <2>2 DEF FifoStep, F!Next, F!TakeAll
<1>9. ASSUME Peek PROVE Sound' /\ FifoStep
  <2>1. UNCHANGED ring /\ pending' = pending
    BY <1>9 DEF Peek
  <2>2. returned' = IF Contents = <<>> THEN <<>> ELSE <<Head(Contents)>>
    <3>1. CASE IsEmpty
      BY <1>2, <1>9, <3>1 DEF Peek
    <3>2. CASE ~IsEmpty
      <4>1. returned' = <<buffer[head]>> /\ Contents # <<>>
        BY <1>2, <1>9, <3>2 DEF Peek
      <4>2. Head(Contents) = buffer[head]
        BY <3>2, FirstElement
      <4> QED BY <4>1, <4>2
    <3> QED BY <3>1, <3>2
  <2>3. returned' \in Seq(Value)
    BY <1>2, <2>2, HeadTailProperties, EmptySeq
  <2>4. Sound' /\ Contents' = Contents
    BY <1>1, <2>1, <2>3, ReadStep
  <2> QED BY <2>2, <2>4 DEF FifoStep, F!Next, F!Look
<1>10. ASSUME GetAll PROVE Sound' /\ FifoStep
  <2>1. UNCHANGED ring /\ pending' = pending /\ returned' = Contents
    BY <1>10 DEF GetAll
  <2>2. Sound' /\ Contents' = Contents
    BY <1>1, <1>2, <2>1, ReadStep
  <2> QED BY <2>1, <2>2 DEF FifoStep, F!Next, F!LookAll
<1>11. ASSUME Clear PROVE Sound' /\ FifoStep
  <2>1. /\ head' = 0 /\ tail' = 0 /\ count' = 0 /\ buffer' = buffer /\ size' = size
        /\ pending' = pending /\ returned' = returned
    BY <1>11 DEF Clear
  <2>2. Sound' /\ Contents' = <<>>
    BY <1>1, <2>1, Emptied DEF Sound
  <2> QED BY <2>1, <2>2 DEF FifoStep, F!Next, F!Drop
<1>12. CASE UNCHANGED vars
  <2>1. UNCHANGED ring /\ pending' = pending /\ returned' = returned
    BY <1>12 DEF vars
  <2>2. Sound' /\ Contents' = Contents
    BY <1>1, <2>1, ReadStep
  <2> QED BY <2>1, <2>2 DEF FifoStep
<1> QED BY <1>3, <1>4, <1>5, <1>6, <1>7, <1>8, <1>9, <1>10, <1>11, <1>12 DEF Next

LEMMA RingInit == Init => Sound /\ F!Init
<1> SUFFICES ASSUME Init PROVE Sound /\ F!Init
  OBVIOUS
<1>1. /\ size \in Nat \ {0} /\ buffer \in [0 .. size - 1 -> Value \cup {Zero}]
      /\ head = 0 /\ tail = 0 /\ count = 0 /\ pending = <<>> /\ returned = <<>>
  BY RingAssumption DEF Init
<1>2. TypeOK
  BY <1>1, EmptySeq DEF TypeOK
<1>3. NoMod(buffer, head, size, count, tail)
  BY <1>1 DEF NoMod, At
<1>4. Sound
  BY <1>2, <1>3, Slots DEF Sound
<1>5. Contents = <<>>
  BY <1>1, <1>4, EmptyContents DEF IsEmpty
<1> QED BY <1>1, <1>4, <1>5 DEF F!Init

\* Head, tail and count describe one stretch of slots full of elements, and what
\* is returned are elements, through any number of wraps and growths.
THEOREM RingConsistent == Spec => [](TypeOK /\ Consistent)
<1>1. Init => Sound
  BY RingInit
<1>2. Sound /\ [Next]_vars => Sound'
  BY RingStep
<1> QED BY <1>1, <1>2, PTL DEF Spec, Sound

\* The ring buffer implements a first-in first-out queue without a capacity.
THEOREM RingIsFifo == Spec => ImplementsFifo
<1>1. Init => Sound /\ F!Init
  BY RingInit
<1>2. Sound /\ [Next]_vars => Sound' /\ [F!Next]_<<Contents, returned>>
  BY RingStep DEF FifoStep
<1> QED BY <1>1, <1>2, PTL DEF Spec, ImplementsFifo, F!Spec

-----------------------------------------------------------------------------
(* Nothing is retained.                                                      *)

FreeSlot(b, h, s, c) ==
    \A x \in 0 .. s - 1 : (\A i \in 0 .. c - 1 : At(h, s, i) # x) => b[x] = Zero

Clean == FreeSlot(buffer, head, size, count)

LEMMA CleanStore ==
  ASSUME Sound, count < size, NEW v, Store(v), FreeSlot(buffer, head, size, count)
  PROVE  FreeSlot(buffer', head', size', count')
<1>1. /\ size \in Nat \ {0} /\ size' = size /\ head' = head
      /\ count \in 0 .. size - 1 /\ count' = count + 1
      /\ buffer \in [0 .. size - 1 -> Value \cup {Zero}]
      /\ buffer' = [buffer EXCEPT ![tail] = v]
      /\ tail = At(head, size, count)
  BY Slots DEF Sound, TypeOK, Store, NoMod
<1>2. ASSUME NEW x \in 0 .. size - 1, \A i \in 0 .. count' - 1 : At(head, size, i) # x
      PROVE  buffer'[x] = Zero
  <2>1. x # tail
    <3>1. count \in 0 .. count' - 1
      BY <1>1
    <3> QED BY <1>1, <1>2, <3>1
  <2>2. \A i \in 0 .. count - 1 : At(head, size, i) # x
    <3>1. \A i \in 0 .. count - 1 : i \in 0 .. count' - 1
      BY <1>1
    <3> QED BY <1>2, <3>1
  <2>3. buffer[x] = Zero
    BY <2>2 DEF FreeSlot
  <2> QED BY <1>1, <2>1, <2>3
<1> QED BY <1>1, <1>2 DEF FreeSlot

LEMMA CleanGrown ==
  ASSUME Sound, FreeSlot(buffer, head, size, count), NEW x \in count .. 2 * size - 1
  PROVE  Grown[x] = Zero
<1> DEFINE stretch == IF head < tail THEN tail - head ELSE size - head
           wrapped == IF head < tail THEN 0 ELSE tail
<1>1. /\ size \in Nat \ {0} /\ head \in 0 .. size - 1 /\ tail \in 0 .. size - 1
      /\ count \in 0 .. size /\ tail = At(head, size, count)
  BY Slots DEF Sound, TypeOK, NoMod
<1>2. Grown[x] = CASE x < stretch -> buffer[head + x]
                   [] x >= stretch /\ x < stretch + wrapped -> buffer[x - stretch]
                   [] OTHER -> Zero
  <2>1. x \in 0 .. 2 * size - 1
    BY <1>1
  <2> QED BY <2>1 DEF Grown
<1>3. CASE stretch + wrapped <= count
  <2>1. ~(x < stretch) /\ ~(x < stretch + wrapped)
    BY <1>1, <1>3
  <2> QED BY <1>2, <2>1
<1>4. CASE ~(stretch + wrapped <= count)
  <2>1. count = 0 /\ stretch + wrapped = size /\ stretch = size - head
    BY <1>1, <1>4 DEF At
  <2>2. \A y \in 0 .. size - 1 : buffer[y] = Zero
    BY <2>1 DEF FreeSlot
  <2>3. CASE x < stretch
    <3>1. head + x \in 0 .. size - 1
      BY <1>1, <2>1, <2>3
    <3>2. Grown[x] = buffer[head + x]
      BY <1>1, <1>2, <2>3
    <3> QED BY <2>2, <3>1, <3>2
  <2>4. CASE x >= stretch /\ x < stretch + wrapped
    <3>1. x - stretch \in 0 .. size - 1 /\ ~(x < stretch)
      BY <1>1, <2>1, <2>4
    <3>2. Grown[x] = buffer[x - stretch]
      BY <1>2, <2>4, <3>1
    <3> QED BY <2>2, <3>1, <3>2
  <2>5. CASE ~(x < stretch) /\ ~(x >= stretch /\ x < stretch + wrapped)
    BY <1>2, <2>5
  <2> QED BY <2>3, <2>4, <2>5
<1> QED BY <1>3, <1>4

LEMMA CleanNext ==
  ASSUME Sound, Clean, [Next]_vars, ~Clear
  PROVE  Clean'
<1> SUFFICES FreeSlot(buffer', head', size', count')
  BY DEF Clean
<1>1. FreeSlot(buffer, head, size, count)
  BY DEF Clean
<1>2. /\ size \in Nat \ {0} /\ head \in 0 .. size - 1
      /\ count \in 0 .. size /\ tail \in 0 .. size - 1
      /\ buffer \in [0 .. size - 1 -> Value \cup {Zero}] /\ pending \in Seq(Value)
  BY DEF Sound, TypeOK
<1>3. ASSUME UNCHANGED ring PROVE FreeSlot(buffer', head', size', count')
  BY <1>1, <1>3 DEF ring
<1>4. ASSUME Grow PROVE FreeSlot(buffer', head', size', count')
  <2>1. buffer' = Grown /\ size' = 2 * size /\ head' = 0 /\ count' = count
    BY <1>4 DEF Grow
  <2>2. ASSUME NEW x \in 0 .. size' - 1, \A i \in 0 .. count' - 1 : At(head', size', i) # x
        PROVE  buffer'[x] = Zero
    <3>1. At(0, 2 * size, x) = x
      BY <1>2, <2>1 DEF At
    <3>2. x \in count .. 2 * size - 1
      BY <1>2, <2>1, <2>2, <3>1
    <3> QED BY <1>1, <2>1, <3>2, CleanGrown
  <2> QED BY <2>2 DEF FreeSlot
<1>5. ASSUME NEW v \in Value, Push(v) PROVE FreeSlot(buffer', head', size', count')
  <2>1. CASE IsFull
    <3>1. /\ buffer' = [Grown EXCEPT ![count] = v] /\ size' = 2 * size
          /\ head' = 0 /\ count' = count + 1
      BY <1>5, <2>1 DEF Push, GrowAndStore
    <3>2. ASSUME NEW x \in 0 .. size' - 1, \A i \in 0 .. count' - 1 : At(head', size', i) # x
          PROVE  buffer'[x] = Zero
      <4>1. At(0, 2 * size, x) = x
        BY <1>2, <3>1 DEF At
      <4>2. x \in count + 1 .. 2 * size - 1
        BY <1>2, <3>1, <3>2, <4>1
      <4>3. x \in count .. 2 * size - 1
        BY <1>2, <4>2
      <4>4. Grown[x] = Zero
        BY <1>1, <4>3, CleanGrown
      <4>5. x # count /\ x \in 0 .. 2 * size - 1
        BY <1>2, <4>2
      <4>6. buffer'[x] = Grown[x]
        BY <3>1, <4>5, GrownKeeps
      <4> QED BY <4>4, <4>6
    <3> QED BY <3>2 DEF FreeSlot
  <2>2. CASE ~IsFull
    <3>1. Store(v) /\ count < size
      BY <1>2, <1>5, <2>2 DEF Push, IsFull
    <3> QED BY <1>1, <3>1, CleanStore
  <2> QED BY <2>1, <2>2
<1>6. ASSUME BatchStore PROVE FreeSlot(buffer', head', size', count')
  <2>1. pending # <<>> /\ ~BatchTooLarge /\ Store(Head(pending))
    BY <1>6 DEF BatchStore
  <2>2. Len(pending) \in Nat \ {0}
    BY <1>2, <2>1, EmptySeq
  <2>3. count < size
    BY <1>2, <2>1, <2>2 DEF BatchTooLarge
  <2> QED BY <1>1, <2>1, <2>3, CleanStore
<1>7. ASSUME Pop, ~IsEmpty PROVE FreeSlot(buffer', head', size', count')
  <2>1. /\ size' = size /\ count' = count - 1 /\ count \in 1 .. size
        /\ buffer' = [buffer EXCEPT ![head] = Zero] /\ head' = At(head, size, 1)
    <3>1. (head + 1) % size = At(head, size, 1)
      BY <1>2, ModAt
    <3> QED BY <1>2, <1>7, <3>1 DEF Pop, IsEmpty
  <2>2. ASSUME NEW x \in 0 .. size - 1, \A i \in 0 .. count' - 1 : At(head', size', i) # x
        PROVE  buffer'[x] = Zero
    <3>1. CASE x = head
      BY <1>2, <2>1, <3>1
    <3>2. CASE x # head
      <4>1. ASSUME NEW i \in 0 .. count - 1 PROVE At(head, size, i) # x
        <5>1. CASE i = 0
          BY <1>2, <3>2, <5>1 DEF At
        <5>2. CASE i # 0
          <6>1. i - 1 \in 0 .. size - 1 /\ (i - 1) + 1 = i /\ i - 1 \in 0 .. count' - 1
            BY <1>2, <2>1, <5>2
          <6>2. At(At(head, size, 1), size, i - 1) = At(head, size, i)
            BY <1>2, <6>1, AtShift
          <6> QED BY <2>1, <2>2, <6>1, <6>2
        <5> QED BY <5>1, <5>2
      <4>2. buffer[x] = Zero
        BY <1>1, <4>1 DEF FreeSlot
      <4> QED BY <1>2, <2>1, <3>2, <4>2
    <3> QED BY <3>1, <3>2
  <2> QED BY <2>1, <2>2 DEF FreeSlot
<1>8. ASSUME PopAll, ~IsEmpty PROVE FreeSlot(buffer', head', size', count')
  <2>1. /\ size' = size /\ count' = 0
        /\ buffer' = [s \in DOMAIN buffer |->
                        IF \E i \in 0 .. count - 1 : s = Slot(i)
                        THEN Zero ELSE buffer[s]]
    BY <1>8 DEF PopAll
  <2>2. ASSUME NEW x \in 0 .. size - 1 PROVE buffer'[x] = Zero
    <3>1. CASE \E i \in 0 .. count - 1 : x = Slot(i)
      BY <1>2, <2>1, <3>1
    <3>2. CASE ~\E i \in 0 .. count - 1 : x = Slot(i)
      <4>1. ASSUME NEW i \in 0 .. count - 1 PROVE At(head, size, i) # x
        <5>1. i \in 0 .. size
          BY <1>2
        <5>2. Slot(i) = At(head, size, i)
          BY <1>2, <5>1, ModAt DEF Slot
        <5> QED BY <3>2, <5>2
      <4> QED BY <1>1, <1>2, <2>1, <3>2, <4>1 DEF FreeSlot
    <3> QED BY <3>1, <3>2
  <2> QED BY <2>1, <2>2 DEF FreeSlot
<1>9. ASSUME NEW values, PushBatch(values) PROVE UNCHANGED ring
  BY <1>9 DEF PushBatch
<1>10. (Pop \/ PopAll) /\ IsEmpty => UNCHANGED ring
  BY DEF Pop, PopAll
<1>11. Peek \/ GetAll => UNCHANGED ring
  BY DEF Peek, GetAll
<1>12. UNCHANGED vars => UNCHANGED ring
  BY DEF vars
<1>13. BatchGrow => Grow
  BY DEF BatchGrow
<1> QED
  BY <1>3, <1>4, <1>5, <1>6, <1>7, <1>8, <1>9, <1>10, <1>11, <1>12, <1>13
     DEF Next

LEMMA CleanIsNoneKept ==
  ASSUME Sound PROVE Clean <=> NoneKept
<1>1. /\ size \in Nat \ {0} /\ head \in 0 .. size - 1 /\ count \in 0 .. size
      /\ DOMAIN buffer = 0 .. size - 1
  BY DEF Sound, TypeOK
<1>2. ASSUME NEW i \in 0 .. count - 1 PROVE Slot(i) = At(head, size, i)
  <2>1. i \in 0 .. size
    BY <1>1
  <2> QED BY <1>1, <2>1, ModAt DEF Slot
<1>3. ASSUME NEW x \in 0 .. size - 1
      PROVE  x \notin Occupied <=> \A i \in 0 .. count - 1 : At(head, size, i) # x
  BY <1>2 DEF Occupied
<1> QED BY <1>1, <1>3 DEF Clean, NoneKept, FreeSlot

\* While nothing is retained, an operation other than Clear retains nothing:
\* Pop and PopAll let go of what they return, and growth copies no old slot.
THEOREM RingRetainsNothing == Spec => NoRetention
<1>1. Spec => []Sound
  BY RingInit, RingStep, PTL DEF Spec
<1>2. Sound => (Clean <=> NoneKept)
  BY CleanIsNoneKept
<1>3. Sound /\ Clean /\ [Next]_vars => Clean' \/ Clear
  BY CleanNext
<1> QED BY <1>1, <1>2, <1>3, PTL DEF Spec, NoRetention

\* Head, tail, count and size keep their ranges through every growth and wrap.
THEOREM RingTypes == Spec => []TypeOK
<1>1. Spec => []Sound
  BY RingInit, RingStep, PTL DEF Spec
<1>2. Sound => TypeOK
  BY DEF Sound
<1> QED BY <1>1, <1>2, PTL
===============================================================================
