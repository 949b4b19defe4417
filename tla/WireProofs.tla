------------------------------ MODULE WireProofs -------------------------------
(***************************************************************************)
(* Proofs about Framing, Codec and Wire, for any sizes, message types and  *)
(* envelopes within their assumptions: a frame is cut off the stream as it *)
(* was packed and never too early, whatever TCP makes of the stream, and   *)
(* what the receiving system makes of it is what was accepted.             *)
(***************************************************************************)
EXTENDS Wire, SequenceTheorems, FiniteSetTheorems, TLAPS

-----------------------------------------------------------------------------
(* Framing.                                                                *)

LEMMA NoMod ==
  ASSUME NEW x \in Nat, NEW m \in Nat, x < m
  PROVE  x % m = x
OBVIOUS

Bytes == Nat \X Nat

\* Frame n in front of other bytes.
LEMMA Packed ==
  ASSUME NEW n \in Nat, NEW frame, frame.msgId \in 0 .. MaxMsgId, frame.size \in 0 .. MaxPayload,
         NEW rest \in Seq(Bytes)
  PROVE  /\ PackMessage(n, frame) \o rest \in Seq(Bytes)
         /\ Len(PackMessage(n, frame) \o rest) = PacketHeaderSize + frame.size + Len(rest)
         /\ \A i \in 1 .. PacketHeaderSize + frame.size : (PackMessage(n, frame) \o rest)[i] = <<n, i>>
         /\ \A i \in 1 .. Len(rest) : (PackMessage(n, frame) \o rest)[PacketHeaderSize + frame.size + i] = rest[i]
<1>1. LenBytes \in Nat \ {0} /\ MaxMsgId \in Nat /\ MaxPayload \in Nat
  BY FramingAssumption
<1> DEFINE l == PacketHeaderSize + frame.size
           pack == [i \in 1 .. l |-> <<n, i>>]
<1>2. l \in Nat
  BY <1>1 DEF PacketHeaderSize
<1>3. PackMessage(n, frame) = pack
  BY <1>1 DEF PackMessage
<1> HIDE DEF l
<1>4. pack \in Seq(Bytes) /\ Len(pack) = l /\ \A i \in 1 .. l : pack[i] = <<n, i>>
  BY <1>2 DEF Bytes
<1> HIDE DEF pack
<1>5. /\ pack \o rest \in Seq(Bytes) /\ Len(pack \o rest) = l + Len(rest)
      /\ \A i \in 1 .. Len(pack) + Len(rest) :
            (pack \o rest)[i] = IF i <= Len(pack) THEN pack[i] ELSE rest[i - Len(pack)]
  BY <1>4, ConcatProperties
<1>6. Len(rest) \in Nat
  BY LenProperties
<1>7. /\ \A i \in 1 .. l : (pack \o rest)[i] = <<n, i>>
      /\ \A i \in 1 .. Len(rest) : (pack \o rest)[l + i] = rest[i]
  BY <1>2, <1>4, <1>5, <1>6
<1> QED BY <1>3, <1>4, <1>5, <1>7 DEF l

\* What Next reads from the length field of frame n.
LEMMA LengthRead ==
  ASSUME NEW n, NEW fs, fs[n].size \in 0 .. MaxPayload,
         NEW bs, \A i \in 1 .. LenBytes : bs[i] = <<n, i>>
  PROVE  /\ Uint32(fs, bs) = fs[n].size
         /\ (Uint32(fs, bs) + PacketHeaderSize) % Mod = PacketHeaderSize + fs[n].size
<1>1. /\ LenBytes \in Nat \ {0} /\ MaxPayload \in Nat /\ Mod \in Nat /\ ReadBuf \in Nat \ {0}
      /\ MaxPayload + PacketHeaderSize + ReadBuf <= Mod /\ PacketHeaderSize \in Nat
  BY FramingAssumption DEF PacketHeaderSize
<1>2. bs[1] = <<n, 1>>
  BY <1>1
<1>3. bs[1][1] = n
  BY <1>2
<1>4. Uint32(fs, bs) = fs[n].size % Mod
  BY <1>3 DEF Uint32
<1>5. fs[n].size % Mod = fs[n].size
  BY <1>1, NoMod
<1>6. (fs[n].size + PacketHeaderSize) % Mod = fs[n].size + PacketHeaderSize
  <2> DEFINE x == fs[n].size + PacketHeaderSize
  <2>1. x \in Nat /\ x < Mod
    BY <1>1
  <2> HIDE DEF x
  <2>2. x % Mod = x
    BY <1>1, <2>1, NoMod
  <2> QED BY <2>2 DEF x
<1> QED BY <1>1, <1>4, <1>5, <1>6

\* A packed frame is cut off the stream as it was packed (packet.go:17-57): the
\* kind, all bytes of the package and nothing else, and the bytes behind it stay,
\* in spite of the sums in 32 bits, for what a receiver can hold.
THEOREM FrameIsCut ==
  ASSUME NEW n \in Nat, NEW fs,
         fs[n].msgId \in 0 .. MaxMsgId, fs[n].size \in 0 .. MaxPayload,
         NEW rest \in Seq(Bytes), Len(rest) < ReadBuf
  PROVE  NextFrame(fs, PackMessage(n, fs[n]) \o rest) =
            [ok      |-> TRUE,
             msgId   |-> fs[n].msgId,
             payload |-> [i \in 1 .. fs[n].size |-> <<n, PacketHeaderSize + i>>],
             rest    |-> rest]
<1> DEFINE bs == PackMessage(n, fs[n]) \o rest
           size == fs[n].size
           l == PacketHeaderSize + size
<1>1. /\ LenBytes \in Nat \ {0} /\ MaxPayload \in Nat /\ Mod \in Nat /\ ReadBuf \in Nat
      /\ MaxPayload + PacketHeaderSize + ReadBuf <= Mod
      /\ PacketHeaderSize \in Nat \ {0} /\ LenBytes <= PacketHeaderSize
  BY FramingAssumption DEF PacketHeaderSize
<1>2. /\ bs \in Seq(Bytes) /\ Len(bs) = l + Len(rest)
      /\ \A i \in 1 .. l : bs[i] = <<n, i>>
      /\ \A i \in 1 .. Len(rest) : bs[l + i] = rest[i]
  <2> DEFINE frame == fs[n]
  <2>1. frame.msgId \in 0 .. MaxMsgId /\ frame.size \in 0 .. MaxPayload
    OBVIOUS
  <2> HIDE DEF frame
  <2>2. /\ PackMessage(n, frame) \o rest \in Seq(Bytes)
        /\ Len(PackMessage(n, frame) \o rest) = PacketHeaderSize + frame.size + Len(rest)
        /\ \A i \in 1 .. PacketHeaderSize + frame.size : (PackMessage(n, frame) \o rest)[i] = <<n, i>>
        /\ \A i \in 1 .. Len(rest) : (PackMessage(n, frame) \o rest)[PacketHeaderSize + frame.size + i] = rest[i]
    BY <2>1, Packed
  <2> QED BY <2>2 DEF frame
<1>3. size \in 0 .. MaxPayload /\ l \in Nat /\ Len(rest) \in Nat
  BY <1>1, LenProperties
<1> HIDE DEF bs, size
<1>4. Len(bs) % Mod = Len(bs)
  <2> DEFINE x == Len(bs)
  <2>1. x \in Nat /\ x < Mod
    BY <1>1, <1>2, <1>3
  <2> HIDE DEF x
  <2>2. x % Mod = x
    BY <1>1, <2>1, NoMod
  <2> QED BY <2>2 DEF x
<1>5. (Uint32(fs, bs) + PacketHeaderSize) % Mod = l
  <2>1. \A i \in 1 .. LenBytes : bs[i] = <<n, i>>
    BY <1>1, <1>2, <1>3
  <2> QED BY <1>3, <2>1, LengthRead DEF size
<1>6. MsgIdByte(fs, bs[PacketHeaderSize]) = fs[n].msgId
  <2>1. bs[PacketHeaderSize] = <<n, PacketHeaderSize>>
    BY <1>1, <1>2, <1>3
  <2> QED BY <2>1 DEF MsgIdByte
<1>7. SubSeq(bs, PacketHeaderSize + 1, l) = [i \in 1 .. size |-> <<n, PacketHeaderSize + i>>]
  <2>1. \A i \in PacketHeaderSize + 1 .. l : bs[i] \in Bytes
    BY <1>1, <1>2, <1>3 DEF Bytes
  <2>2. /\ SubSeq(bs, PacketHeaderSize + 1, l) \in Seq(Bytes)
        /\ Len(SubSeq(bs, PacketHeaderSize + 1, l)) = size
        /\ \A i \in 1 .. size : SubSeq(bs, PacketHeaderSize + 1, l)[i] = bs[PacketHeaderSize + i]
    <3>1. PacketHeaderSize + 1 \in Int /\ l \in Int
      BY <1>1, <1>3
    <3>2. /\ SubSeq(bs, PacketHeaderSize + 1, l) \in Seq(Bytes)
          /\ Len(SubSeq(bs, PacketHeaderSize + 1, l)) =
                IF PacketHeaderSize + 1 <= l THEN l - (PacketHeaderSize + 1) + 1 ELSE 0
          /\ \A i \in 1 .. l - (PacketHeaderSize + 1) + 1 :
                SubSeq(bs, PacketHeaderSize + 1, l)[i] = bs[PacketHeaderSize + 1 + i - 1]
      BY <2>1, <3>1, SubSeqProperties
    <3>3. l - (PacketHeaderSize + 1) + 1 = size
      BY <1>1, <1>3
    <3>4. (IF PacketHeaderSize + 1 <= l THEN size ELSE 0) = size
      BY <1>1, <1>3
    <3>5. \A i \in 1 .. size : PacketHeaderSize + 1 + i - 1 = PacketHeaderSize + i
      BY <1>1, <1>3
    <3> HIDE DEF l
    <3> QED BY <3>2, <3>3, <3>4, <3>5
  <2>3. \A i \in 1 .. size : bs[PacketHeaderSize + i] = <<n, PacketHeaderSize + i>>
    <3> SUFFICES ASSUME NEW i \in 1 .. size PROVE bs[PacketHeaderSize + i] = <<n, PacketHeaderSize + i>>
      OBVIOUS
    <3>1. PacketHeaderSize + i \in 1 .. l
      BY <1>1, <1>3
    <3> HIDE DEF l
    <3> QED BY <1>2, <3>1
  <2> DEFINE q == SubSeq(bs, PacketHeaderSize + 1, l)
  <2>4. q = [i \in 1 .. Len(q) |-> q[i]]
    <3>1. q \in Seq(Bytes)
      BY <2>2
    <3> HIDE DEF q
    <3> QED BY <3>1
  <2> QED BY <2>2, <2>3, <2>4
<1>8. SubSeq(bs, l + 1, Len(bs)) = rest
  <2> DEFINE q == SubSeq(bs, l + 1, Len(bs))
  <2>1. \A i \in l + 1 .. Len(bs) : bs[i] \in Bytes
    BY <1>2, <1>3
  <2>2. l + 1 \in Int /\ Len(bs) \in Int
    BY <1>2, <1>3
  <2>3. /\ q \in Seq(Bytes)
        /\ Len(q) = IF l + 1 <= Len(bs) THEN Len(bs) - (l + 1) + 1 ELSE 0
        /\ \A i \in 1 .. Len(bs) - (l + 1) + 1 : q[i] = bs[l + 1 + i - 1]
    <3> HIDE DEF l
    <3> QED BY <2>1, <2>2, SubSeqProperties
  <2>4. Len(q) = Len(rest)
    BY <1>2, <1>3, <2>3
  <2>5. \A i \in 1 .. Len(rest) : q[i] = rest[i]
    <3> SUFFICES ASSUME NEW i \in 1 .. Len(rest) PROVE q[i] = rest[i]
      OBVIOUS
    <3>1. i \in 1 .. Len(bs) - (l + 1) + 1 /\ l + 1 + i - 1 = l + i
      BY <1>2, <1>3
    <3> HIDE DEF q, l
    <3> QED BY <1>2, <2>3, <3>1
  <2>6. q \in Seq(Bytes)
    BY <2>3
  <2> HIDE DEF q
  <2>7. q = [i \in 1 .. Len(q) |-> q[i]] /\ rest = [i \in 1 .. Len(rest) |-> rest[i]]
    BY <2>6
  <2>8. q = rest
    BY <2>4, <2>5, <2>7
  <2> QED BY <2>8 DEF q
<1>9. ~(Len(bs) < PacketHeaderSize \/ Len(bs) < l)
  BY <1>1, <1>2, <1>3
<1> HIDE DEF l
<1>10. NextFrame(fs, bs) =
         [ok |-> TRUE, msgId |-> fs[n].msgId,
          payload |-> [i \in 1 .. size |-> <<n, PacketHeaderSize + i>>], rest |-> rest]
  BY <1>4, <1>5, <1>6, <1>7, <1>8, <1>9 DEF NextFrame
<1> QED BY <1>10 DEF bs, size

\* No frame is cut before its last byte is there, wherever a read ends: inside
\* the length field, the header or the package.
THEOREM NoFrameTooEarly ==
  ASSUME NEW n \in Nat, NEW fs,
         fs[n].msgId \in 0 .. MaxMsgId, fs[n].size \in 0 .. MaxPayload,
         NEW k \in 0 .. PacketHeaderSize + fs[n].size - 1
  PROVE  NextFrame(fs, SubSeq(PackMessage(n, fs[n]), 1, k)) = NoFrame
<1> DEFINE size == fs[n].size
           l == PacketHeaderSize + size
           pack == PackMessage(n, fs[n])
           bs == SubSeq(pack, 1, k)
<1>1. /\ LenBytes \in Nat \ {0} /\ MaxPayload \in Nat /\ Mod \in Nat /\ ReadBuf \in Nat
      /\ MaxPayload + PacketHeaderSize + ReadBuf <= Mod
      /\ PacketHeaderSize \in Nat \ {0} /\ LenBytes <= PacketHeaderSize
  BY FramingAssumption DEF PacketHeaderSize
<1>2. size \in 0 .. MaxPayload /\ l \in Nat /\ k \in Nat /\ k < l
  BY <1>1
<1>3. pack = [i \in 1 .. l |-> <<n, i>>]
  <2>1. ~(fs[n].msgId > MaxMsgId)
    BY FramingAssumption
  <2> QED BY <2>1 DEF PackMessage
<1> HIDE DEF l, size, pack
<1>4. \A i \in 1 .. k : pack[i] = <<n, i>> /\ pack[i] \in Bytes
  BY <1>2, <1>3 DEF Bytes
<1>5. Len(bs) = k /\ \A i \in 1 .. k : bs[i] = <<n, i>>
  <2>1. /\ Len(bs) = IF 1 <= k THEN k - 1 + 1 ELSE 0
        /\ \A i \in 1 .. k - 1 + 1 : bs[i] = pack[1 + i - 1]
    BY <1>2, <1>4, SubSeqProperties
  <2>2. k - 1 + 1 = k /\ \A i \in 1 .. k : 1 + i - 1 = i
    BY <1>2
  <2> HIDE DEF bs
  <2> QED BY <1>2, <1>4, <2>1, <2>2
<1> HIDE DEF bs
<1>6. Len(bs) % Mod = k
  <2>1. k < Mod
    BY <1>1, <1>2 DEF l
  <2> QED BY <1>1, <1>2, <1>5, <2>1, NoMod
<1>7. ASSUME k < PacketHeaderSize PROVE NextFrame(fs, bs) = NoFrame
  <2> HIDE DEF NoFrame
  <2> QED BY <1>6, <1>7 DEF NextFrame
<1>8. ASSUME k >= PacketHeaderSize PROVE NextFrame(fs, bs) = NoFrame
  <2>1. \A i \in 1 .. LenBytes : bs[i] = <<n, i>>
    BY <1>1, <1>2, <1>5, <1>8
  <2>2. (Uint32(fs, bs) + PacketHeaderSize) % Mod = l
    BY <1>2, <2>1, LengthRead DEF size, l
  <2> QED BY <1>2, <1>6, <2>2 DEF NextFrame
<1> QED BY <1>1, <1>2, <1>7, <1>8 DEF bs, pack

-----------------------------------------------------------------------------
(* Frames laid one behind the other.                                       *)

FrameLen(fs, n) == PacketHeaderSize + fs[n].size

\* The bytes q are those of the frames of fs behind the first h, and frame n
\* begins behind byte base[n].
Laid(q, fs, h, base) ==
    /\ base \in [h + 1 .. Len(fs) + 1 -> Nat] /\ base[h + 1] = 0 /\ Len(q) = base[Len(fs) + 1]
    /\ \A n \in h + 1 .. Len(fs) :
          /\ base[n + 1] = base[n] + FrameLen(fs, n)
          /\ \A m \in n + 1 .. Len(fs) + 1 : base[n] + FrameLen(fs, n) <= base[m]
          /\ \A i \in 1 .. FrameLen(fs, n) : q[base[n] + i] = <<n, i>>

LEMMA ConcatAt ==
  ASSUME NEW S, NEW s \in Seq(S), NEW t \in Seq(S)
  PROVE  /\ s \o t \in Seq(S) /\ Len(s) \in Nat /\ Len(t) \in Nat /\ Len(s \o t) = Len(s) + Len(t)
         /\ \A i \in 1 .. Len(s) : (s \o t)[i] = s[i]
         /\ \A i \in 1 .. Len(t) : (s \o t)[Len(s) + i] = t[i]
<1> DEFINE r == s \o t
<1>1. Len(s) \in Nat /\ Len(t) \in Nat
  BY LenProperties
<1>2. /\ r \in Seq(S) /\ Len(r) = Len(s) + Len(t)
      /\ \A i \in 1 .. Len(s) + Len(t) : r[i] = IF i <= Len(s) THEN s[i] ELSE t[i - Len(s)]
  BY ConcatProperties
<1> HIDE DEF r
<1>3. ASSUME NEW i \in 1 .. Len(s) PROVE r[i] = s[i]
  BY <1>1, <1>2
<1>4. ASSUME NEW i \in 1 .. Len(t) PROVE r[Len(s) + i] = t[i]
  <2>1. Len(s) + i \in 1 .. Len(s) + Len(t) /\ ~(Len(s) + i <= Len(s)) /\ Len(s) + i - Len(s) = i
    BY <1>1
  <2> QED BY <1>2, <2>1
<1> QED BY <1>1, <1>2, <1>3, <1>4 DEF r

LEMMA SuffixAt ==
  ASSUME NEW S, NEW s \in Seq(S), NEW k \in 0 .. Len(s)
  PROVE  LET r == SubSeq(s, k + 1, Len(s)) IN
         r \in Seq(S) /\ Len(r) = Len(s) - k /\ \A i \in 1 .. Len(r) : r[i] = s[k + i]
<1> DEFINE n == Len(s)
           r == SubSeq(s, k + 1, n)
<1>1. n \in Nat /\ k \in Nat /\ k <= n
  BY LenProperties
<1>2. \A i \in k + 1 .. n : s[i] \in S
  BY <1>1, ElementOfSeq
<1> HIDE DEF n
<1>3. /\ r \in Seq(S) /\ Len(r) = IF k + 1 <= n THEN n - (k + 1) + 1 ELSE 0
      /\ \A i \in 1 .. n - (k + 1) + 1 : r[i] = s[k + 1 + i - 1]
  BY <1>1, <1>2, SubSeqProperties
<1> HIDE DEF r
<1>4. n - (k + 1) + 1 = n - k /\ \A i \in 1 .. n - k : k + 1 + i - 1 = k + i
  BY <1>1
<1>5. (IF k + 1 <= n THEN n - k ELSE 0) = n - k
  BY <1>1
<1> QED BY <1>3, <1>4, <1>5 DEF r, n

LEMMA PrefixAt ==
  ASSUME NEW S, NEW s \in Seq(S), NEW k \in 0 .. Len(s)
  PROVE  LET r == SubSeq(s, 1, k) IN
         r \in Seq(S) /\ Len(r) = k /\ \A i \in 1 .. k : r[i] = s[i]
<1> DEFINE n == Len(s)
           r == SubSeq(s, 1, k)
<1>1. n \in Nat /\ k \in Nat /\ k <= n
  BY LenProperties
<1>2. \A i \in 1 .. k : s[i] \in S
  BY <1>1, ElementOfSeq
<1>3. /\ r \in Seq(S) /\ Len(r) = IF 1 <= k THEN k - 1 + 1 ELSE 0
      /\ \A i \in 1 .. k - 1 + 1 : r[i] = s[1 + i - 1]
  BY <1>1, <1>2, SubSeqProperties
<1> HIDE DEF r, n
<1>4. k - 1 + 1 = k /\ \A i \in 1 .. k : 1 + i - 1 = i
  BY <1>1
<1>5. (IF 1 <= k THEN k ELSE 0) = k
  BY <1>1
<1> QED BY <1>3, <1>4, <1>5 DEF r

LEMMA LaidAppend ==
  ASSUME NEW S, NEW fs \in Seq(S), \A n \in 1 .. Len(fs) : fs[n].size \in Nat,
         NEW f \in S, f.size \in 0 .. MaxPayload, f.msgId \in 0 .. MaxMsgId,
         NEW q \in Seq(Bytes), NEW h \in 0 .. Len(fs), NEW base, Laid(q, fs, h, base)
  PROVE  LET pack == PackMessage(Len(fs) + 1, f) IN
         /\ q \o pack \in Seq(Bytes)
         /\ \E b : Laid(q \o pack, Append(fs, f), h, b)
<1> DEFINE N == Len(fs)
           l == PacketHeaderSize + f.size
           pack == PackMessage(N + 1, f)
           gs == Append(fs, f)
           r == q \o pack
           b == [n \in h + 1 .. N + 2 |-> IF n = N + 2 THEN base[N + 1] + l ELSE base[n]]
<1>1. N \in Nat /\ h \in Nat /\ h <= N /\ PacketHeaderSize \in Nat /\ l \in Nat
  BY LenProperties, FramingAssumption DEF PacketHeaderSize
<1>2. Len(gs) = N + 1 /\ gs[N + 1] = f /\ \A n \in 1 .. N : gs[n] = fs[n]
  BY AppendProperties
<1>3. pack = [i \in 1 .. l |-> <<N + 1, i>>]
  BY FramingAssumption, <1>1 DEF PackMessage
<1> HIDE DEF l
<1>4. pack \in Seq(Bytes) /\ Len(pack) = l /\ \A i \in 1 .. l : pack[i] = <<N + 1, i>>
  <2> HIDE DEF N, pack
  <2> QED BY <1>1, <1>3 DEF Bytes
<1> HIDE DEF pack
<1>5. /\ r \in Seq(Bytes) /\ Len(r) = Len(q) + l /\ Len(q) \in Nat
      /\ \A i \in 1 .. Len(q) : r[i] = q[i]
      /\ \A i \in 1 .. l : r[Len(q) + i] = <<N + 1, i>>
  <2>0. q \in Seq(Bytes) /\ pack \in Seq(Bytes)
    BY <1>4
  <2>1. /\ r \in Seq(Bytes) /\ Len(q) \in Nat /\ Len(r) = Len(q) + Len(pack)
        /\ \A i \in 1 .. Len(q) : r[i] = q[i]
        /\ \A i \in 1 .. Len(pack) : r[Len(q) + i] = pack[i]
    BY <2>0, ConcatAt
  <2> HIDE DEF r
  <2> QED BY <1>4, <2>1
<1> HIDE DEF r, gs
<1>6. /\ base \in [h + 1 .. N + 1 -> Nat] /\ base[h + 1] = 0 /\ Len(q) = base[N + 1]
      /\ \A n \in h + 1 .. N :
            /\ base[n + 1] = base[n] + FrameLen(fs, n)
            /\ \A m \in n + 1 .. N + 1 : base[n] + FrameLen(fs, n) <= base[m]
            /\ \A i \in 1 .. FrameLen(fs, n) : q[base[n] + i] = <<n, i>>
  BY DEF Laid
<1>7. \A n \in h + 1 .. N : FrameLen(gs, n) = FrameLen(fs, n) /\ FrameLen(fs, n) \in Nat
  BY <1>1, <1>2 DEF FrameLen
<1>8. FrameLen(gs, N + 1) = l
  BY <1>2 DEF FrameLen, l
<1> HIDE DEF N
<1>9. /\ b \in [h + 1 .. N + 2 -> Nat] /\ b[h + 1] = 0 /\ Len(r) = b[N + 2]
      /\ \A n \in h + 1 .. N + 1 : b[n] = base[n] /\ base[n] \in Nat
      /\ b[N + 2] = base[N + 1] + l
  BY <1>1, <1>5, <1>6
<1> HIDE DEF b
<1>10. ASSUME NEW n \in h + 1 .. N + 1
       PROVE  /\ b[n + 1] = b[n] + FrameLen(gs, n)
              /\ \A m \in n + 1 .. N + 2 : b[n] + FrameLen(gs, n) <= b[m]
              /\ \A i \in 1 .. FrameLen(gs, n) : r[b[n] + i] = <<n, i>>
  <2>1. CASE n \in h + 1 .. N
    <3>1. FrameLen(gs, n) = FrameLen(fs, n) /\ FrameLen(fs, n) \in Nat /\ b[n] = base[n] /\ base[n] \in Nat
      BY <1>7, <1>9, <2>1
    <3>2. n + 1 \in h + 1 .. N + 1 /\ b[n + 1] = base[n + 1]
      BY <1>1, <1>9, <2>1
    <3>3. \A m \in n + 1 .. N + 1 : b[m] = base[m] /\ base[n] + FrameLen(fs, n) <= base[m]
      BY <1>1, <1>6, <1>9, <2>1
    <3>4. base[n] + FrameLen(fs, n) <= base[N + 1]
      BY <1>1, <1>6, <2>1
    <3>5. \A m \in n + 1 .. N + 2 : b[n] + FrameLen(gs, n) <= b[m]
      <4> SUFFICES ASSUME NEW m \in n + 1 .. N + 2 PROVE b[n] + FrameLen(gs, n) <= b[m]
        OBVIOUS
      <4>1. CASE m = N + 2
        <5>1. base[N + 1] \in Nat
          BY <1>1, <1>6
        <5>2. b[m] = base[N + 1] + l /\ b[n] = base[n] /\ FrameLen(gs, n) = FrameLen(fs, n)
          BY <1>9, <3>1, <4>1
        <5> QED BY <1>1, <3>1, <3>4, <5>1, <5>2, SMTT(30)
      <4>2. CASE m # N + 2
        <5>1. m \in n + 1 .. N + 1
          BY <1>1, <4>2
        <5> QED BY <3>1, <3>3, <5>1
      <4> QED BY <4>1, <4>2
    <3>6. \A i \in 1 .. FrameLen(fs, n) : base[n] + i \in 1 .. Len(q)
      BY <1>1, <1>6, <3>1, <3>4
    <3>7. \A i \in 1 .. FrameLen(fs, n) : r[base[n] + i] = <<n, i>>
      BY <1>5, <1>6, <2>1, <3>6
    <3> QED BY <1>6, <2>1, <3>1, <3>2, <3>5, <3>7
  <2>2. CASE n = N + 1
    <3>1. b[n] = Len(q) /\ b[n + 1] = Len(q) + l /\ FrameLen(gs, n) = l
      BY <1>1, <1>6, <1>8, <1>9, <2>2
    <3>2. \A m \in n + 1 .. N + 2 : m = N + 2
      BY <1>1, <2>2
    <3> QED BY <1>1, <1>5, <2>2, <3>1, <3>2
  <2>3. n \in h + 1 .. N \/ n = N + 1
    BY <1>1
  <2> QED BY <2>1, <2>2, <2>3
<1>11. Laid(r, gs, h, b)
  <2>1. Len(gs) + 1 = N + 2
    BY <1>1, <1>2
  <2> QED BY <1>2, <1>9, <1>10, <2>1 DEF Laid
<1> QED BY <1>5, <1>11 DEF r, gs, pack, N

LEMMA LaidFirst ==
  ASSUME NEW q \in Seq(Bytes), NEW fs, Len(fs) \in Nat, NEW h \in 0 .. Len(fs), NEW base, Laid(q, fs, h, base),
         \A n \in 1 .. Len(fs) : fs[n].size \in Nat
  PROVE  /\ h = Len(fs) => q = <<>>
         /\ h < Len(fs) => /\ Len(q) >= FrameLen(fs, h + 1)
                           /\ \A i \in 1 .. FrameLen(fs, h + 1) : q[i] = <<h + 1, i>>
<1> DEFINE N == Len(fs)
<1>1. N \in Nat /\ h \in Nat /\ h <= N /\ PacketHeaderSize \in Nat
  BY FramingAssumption DEF PacketHeaderSize
<1>2. /\ base \in [h + 1 .. N + 1 -> Nat] /\ base[h + 1] = 0 /\ Len(q) = base[N + 1]
      /\ \A n \in h + 1 .. N :
            /\ base[n + 1] = base[n] + FrameLen(fs, n)
            /\ \A m \in n + 1 .. N + 1 : base[n] + FrameLen(fs, n) <= base[m]
            /\ \A i \in 1 .. FrameLen(fs, n) : q[base[n] + i] = <<n, i>>
  BY DEF Laid
<1>3. ASSUME h = N PROVE q = <<>>
  <2>1. Len(q) = 0
    BY <1>1, <1>2, <1>3
  <2> QED BY <2>1, EmptySeq
<1>4. ASSUME h < N
      PROVE  /\ Len(q) >= FrameLen(fs, h + 1)
             /\ \A i \in 1 .. FrameLen(fs, h + 1) : q[i] = <<h + 1, i>>
  <2>1. h + 1 \in 1 .. N /\ h + 1 \in h + 1 .. N /\ N + 1 \in h + 1 + 1 .. N + 1
    BY <1>1, <1>4
  <2>2. FrameLen(fs, h + 1) \in Nat
    BY <1>1, <2>1 DEF FrameLen
  <2>3. base[h + 1] + FrameLen(fs, h + 1) <= base[N + 1]
    BY <1>2, <2>1
  <2>4. \A i \in 1 .. FrameLen(fs, h + 1) : q[base[h + 1] + i] = <<h + 1, i>>
    BY <1>2, <2>1
  <2>5. \A i \in 1 .. FrameLen(fs, h + 1) : 0 + i = i
    BY <2>2
  <2> QED BY <1>2, <2>2, <2>3, <2>4, <2>5
<1> QED BY <1>1, <1>3, <1>4

LEMMA Shifted ==
  ASSUME NEW a \in Nat, NEW l \in Nat, NEW f \in Nat, NEW z \in Nat, NEW i \in 1 .. f, l <= a, a + f <= z
  PROVE  a - l + i \in 1 .. z - l /\ l + (a - l + i) = a + i
OBVIOUS

\* The bytes behind the first frame.
LEMMA LaidCut ==
  ASSUME NEW q \in Seq(Bytes), NEW fs, Len(fs) \in Nat, NEW h \in 0 .. Len(fs), NEW base, Laid(q, fs, h, base),
         \A n \in 1 .. Len(fs) : fs[n].size \in Nat, h < Len(fs),
         NEW r \in Seq(Bytes), Len(r) = Len(q) - FrameLen(fs, h + 1),
         \A i \in 1 .. Len(r) : r[i] = q[FrameLen(fs, h + 1) + i]
  PROVE  \E b : Laid(r, fs, h + 1, b)
<1> DEFINE N == Len(fs)
           l == FrameLen(fs, h + 1)
           k == h + 1
           b == [n \in k + 1 .. N + 1 |-> base[n] - l]
<1>1. N \in Nat /\ h \in Nat /\ h < N /\ k \in Nat /\ l \in Nat /\ k <= N
  BY FramingAssumption DEF PacketHeaderSize, FrameLen
<1>2. /\ base \in [k .. N + 1 -> Nat] /\ base[k] = 0 /\ Len(q) = base[N + 1]
      /\ \A n \in k .. N :
            /\ base[n + 1] = base[n] + FrameLen(fs, n)
            /\ \A m \in n + 1 .. N + 1 : base[n] + FrameLen(fs, n) <= base[m]
            /\ \A i \in 1 .. FrameLen(fs, n) : q[base[n] + i] = <<n, i>>
  BY DEF Laid
<1>3. Len(r) = Len(q) - l /\ \A i \in 1 .. Len(r) : r[i] = q[l + i]
  OBVIOUS
<1>4. \A n \in k .. N : FrameLen(fs, n) \in Nat
  BY <1>1, FramingAssumption DEF PacketHeaderSize, FrameLen
<1> HIDE DEF N, l
<1>5. k \in k .. N
  BY <1>1
<1>6. base[k + 1] = l /\ \A m \in k + 1 .. N + 1 : base[m] \in Nat /\ l <= base[m]
  BY <1>1, <1>2, <1>5 DEF l
<1> HIDE DEF k
<1>7. /\ b \in [k + 1 .. N + 1 -> Nat] /\ b[k + 1] = 0 /\ Len(r) = b[N + 1]
      /\ \A n \in k + 1 .. N + 1 : b[n] = base[n] - l /\ b[n] \in Nat
  <2>1. \A n \in k + 1 .. N + 1 : base[n] - l \in Nat
    BY <1>1, <1>6
  <2>2. k + 1 \in k + 1 .. N + 1 /\ N + 1 \in k + 1 .. N + 1
    BY <1>1
  <2> QED BY <1>1, <1>2, <1>3, <1>6, <2>1, <2>2
<1> HIDE DEF b
<1>8. ASSUME NEW n \in k + 1 .. N
      PROVE  /\ b[n + 1] = b[n] + FrameLen(fs, n)
             /\ \A m \in n + 1 .. N + 1 : b[n] + FrameLen(fs, n) <= b[m]
             /\ \A i \in 1 .. FrameLen(fs, n) : r[b[n] + i] = <<n, i>>
  <2>1. n \in k .. N /\ n \in k + 1 .. N + 1 /\ n + 1 \in k + 1 .. N + 1 /\ N + 1 \in n + 1 .. N + 1
    BY <1>1
  <2>2. /\ b[n] = base[n] - l /\ b[n + 1] = base[n + 1] - l /\ FrameLen(fs, n) \in Nat
        /\ base[n] \in Nat /\ l <= base[n]
    BY <1>4, <1>6, <1>7, <2>1
  <2>3. \A m \in n + 1 .. N + 1 : b[n] + FrameLen(fs, n) <= b[m]
    <3> SUFFICES ASSUME NEW m \in n + 1 .. N + 1 PROVE b[n] + FrameLen(fs, n) <= b[m]
      OBVIOUS
    <3>1. m \in k + 1 .. N + 1
      BY <1>1, <2>1
    <3>2. base[n] + FrameLen(fs, n) <= base[m] /\ b[m] = base[m] - l /\ base[m] \in Nat
      BY <1>2, <1>6, <1>7, <2>1, <3>1
    <3> QED BY <1>1, <2>2, <3>2
  <2>4. \A i \in 1 .. FrameLen(fs, n) : r[b[n] + i] = <<n, i>>
    <3> SUFFICES ASSUME NEW i \in 1 .. FrameLen(fs, n) PROVE r[b[n] + i] = <<n, i>>
      OBVIOUS
    <3>1. base[n] + FrameLen(fs, n) <= base[N + 1]
      BY <1>2, <2>1
    <3>2. base[N + 1] \in Nat
      <4>1. N + 1 \in k + 1 .. N + 1
        BY <1>1
      <4> QED BY <1>6, <4>1
    <3>3. b[n] + i \in 1 .. Len(r) /\ l + (b[n] + i) = base[n] + i
      <4>1. base[n] - l + i \in 1 .. base[N + 1] - l /\ l + (base[n] - l + i) = base[n] + i
        <5> DEFINE a == base[n]
                   f == FrameLen(fs, n)
                   z == base[N + 1]
        <5>1. a \in Nat /\ l \in Nat /\ f \in Nat /\ z \in Nat /\ i \in 1 .. f /\ l <= a /\ a + f <= z
          BY <1>1, <2>2, <3>1, <3>2
        <5> HIDE DEF a, f, z
        <5>2. a - l + i \in 1 .. z - l /\ l + (a - l + i) = a + i
          BY <5>1, Shifted
        <5> QED BY <5>2 DEF a, f, z
      <4> QED BY <1>2, <1>3, <2>2, <4>1
    <3>4. r[b[n] + i] = q[base[n] + i]
      BY <1>3, <3>3
    <3> QED BY <1>2, <2>1, <3>4
  <2>5. base[n + 1] = base[n] + FrameLen(fs, n)
    BY <1>2, <2>1
  <2>6. b[n + 1] = b[n] + FrameLen(fs, n)
    BY <1>1, <2>2, <2>5
  <2> QED BY <2>3, <2>4, <2>6
<1>9. Laid(r, fs, k, b)
  BY <1>7, <1>8 DEF Laid, N
<1> QED BY <1>9 DEF k

\* What NextFrame makes of the bytes of frame n that are there, and what may be
\* behind them.
LEMMA NextFrameIs ==
  ASSUME NEW n \in Nat, NEW frs, frs[n].msgId \in 0 .. MaxMsgId, frs[n].size \in 0 .. MaxPayload,
         NEW q \in Seq(Bytes), Len(q) < FrameLen(frs, n) + ReadBuf,
         \A i \in 1 .. Len(q) : i <= FrameLen(frs, n) => q[i] = <<n, i>>
  PROVE  NextFrame(frs, q) =
            IF Len(q) < FrameLen(frs, n) THEN NoFrame
            ELSE [ok      |-> TRUE,
                  msgId   |-> frs[n].msgId,
                  payload |-> [i \in 1 .. frs[n].size |-> <<n, PacketHeaderSize + i>>],
                  rest    |-> SubSeq(q, FrameLen(frs, n) + 1, Len(q))]
<1> DEFINE l == FrameLen(frs, n)
           k == Len(q)
           pack == PackMessage(n, frs[n])
<1>1. l \in Nat /\ k \in Nat /\ PacketHeaderSize \in Nat /\ ReadBuf \in Nat /\ frs[n].size \in Nat
  BY FramingAssumption, LenProperties DEF PacketHeaderSize, FrameLen
<1>2. pack = [i \in 1 .. l |-> <<n, i>>]
  BY FramingAssumption DEF PackMessage, FrameLen
<1>3. k < l + ReadBuf /\ \A i \in 1 .. k : i <= l => q[i] = <<n, i>>
  OBVIOUS
<1> HIDE DEF pack
<1>4. pack \in Seq(Bytes) /\ Len(pack) = l /\ \A i \in 1 .. l : pack[i] = <<n, i>>
  <2> HIDE DEF l
  <2> QED BY <1>1, <1>2 DEF Bytes
<1>5. ASSUME k < l PROVE NextFrame(frs, q) = NoFrame
  <2> DEFINE r == SubSeq(pack, 1, k)
  <2>1. k \in 0 .. PacketHeaderSize + frs[n].size - 1
    BY <1>1, <1>5 DEF FrameLen
  <2> HIDE DEF l, k
  <2>2. r \in Seq(Bytes) /\ Len(r) = k /\ \A i \in 1 .. k : r[i] = pack[i]
    <3>1. k \in 0 .. Len(pack)
      BY <1>1, <1>4, <1>5
    <3> QED BY <1>4, <3>1, PrefixAt
  <2> HIDE DEF r
  <2>3. \A i \in 1 .. k : r[i] = q[i]
    <3> SUFFICES ASSUME NEW i \in 1 .. k PROVE r[i] = q[i]
      OBVIOUS
    <3>1. i \in 1 .. l /\ i <= l
      BY <1>1, <1>5
    <3> QED BY <1>3, <1>4, <2>2, <3>1
  <2>4. r = q
    BY <2>2, <2>3, SeqEqual DEF k
  <2>5. NextFrame(frs, SubSeq(pack, 1, k)) = NoFrame
    BY <2>1, NoFrameTooEarly DEF pack
  <2> QED BY <2>4, <2>5 DEF r
<1>6. ASSUME l <= k
      PROVE  NextFrame(frs, q) =
                [ok |-> TRUE, msgId |-> frs[n].msgId,
                 payload |-> [i \in 1 .. frs[n].size |-> <<n, PacketHeaderSize + i>>],
                 rest |-> SubSeq(q, l + 1, k)]
  <2> DEFINE r == SubSeq(q, l + 1, k)
             c == pack \o r
  <2> HIDE DEF l
  <2>1. r \in Seq(Bytes) /\ Len(r) = k - l /\ \A i \in 1 .. Len(r) : r[i] = q[l + i]
    <3>1. l \in 0 .. Len(q)
      BY <1>1, <1>6
    <3> QED BY <3>1, SuffixAt
  <2> HIDE DEF r, k
  <2>2. /\ c \in Seq(Bytes) /\ Len(c) = l + Len(r)
        /\ \A i \in 1 .. l : c[i] = pack[i]
        /\ \A i \in 1 .. Len(r) : c[l + i] = r[i]
    <3>1. pack \in Seq(Bytes) /\ r \in Seq(Bytes)
      BY <1>4, <2>1
    <3>2. Len(pack) = l
      BY <1>4
    <3>3. /\ c \in Seq(Bytes) /\ Len(c) = Len(pack) + Len(r)
          /\ \A i \in 1 .. Len(pack) : c[i] = pack[i]
          /\ \A i \in 1 .. Len(r) : c[Len(pack) + i] = r[i]
      BY <3>1, ConcatAt
    <3> HIDE DEF c
    <3> QED BY <3>2, <3>3
  <2> HIDE DEF c
  <2>3. \A i \in 1 .. k : c[i] = q[i]
    <3> SUFFICES ASSUME NEW i \in 1 .. k PROVE c[i] = q[i]
      OBVIOUS
    <3>1. CASE i <= l
      <4>1. i \in 1 .. l
        BY <1>1, <3>1
      <4> QED BY <1>3, <1>4, <2>2, <3>1, <4>1
    <3>2. CASE i > l
      <4>1. i - l \in 1 .. Len(r) /\ l + (i - l) = i
        BY <1>1, <1>6, <2>1, <3>2
      <4>2. c[l + (i - l)] = q[l + (i - l)]
        BY <2>1, <2>2, <4>1
      <4> QED BY <4>1, <4>2
    <3> QED BY <1>1, <3>1, <3>2
  <2>4. Len(c) = k /\ Len(r) < ReadBuf
    BY <1>1, <1>3, <1>6, <2>1, <2>2
  <2>5. c = q
    BY <2>2, <2>3, <2>4, SeqEqual DEF k
  <2>6. NextFrame(frs, pack \o r) =
            [ok |-> TRUE, msgId |-> frs[n].msgId,
             payload |-> [i \in 1 .. frs[n].size |-> <<n, PacketHeaderSize + i>>], rest |-> r]
    BY <2>1, <2>4, FrameIsCut DEF pack
  <2> QED BY <2>5, <2>6 DEF c, r
<1> HIDE DEF NoFrame
<1>7. k < l \/ l <= k
  BY <1>1
<1>8. CASE k < l
  BY <1>5, <1>8
<1>9. CASE l <= k
  <2>1. ~(k < l)
    BY <1>1, <1>9
  <2> QED BY <1>6, <1>9, <2>1
<1> QED BY <1>7, <1>8, <1>9

-----------------------------------------------------------------------------
(* Wire: what has been packed, what is on its way, what was made of it.    *)

EnvelopeKinds == {"EnvelopeSend", "EnvelopeBatchSend", "EnvelopeRequestAsync",
                  "EnvelopeResponseAsync", "EnvelopeRequest", "EnvelopeResponse",
                  "EnvelopeWatch", "EnvelopeNotify", "EnvelopeFireNotify"}

\* Send knows nine kinds of envelopes.
LEMMA KindsSent ==
  ASSUME NEW r, NEW e, Succeeded(Send(r, e))
  PROVE  e.kind \in EnvelopeKinds /\ Send(r, e) = Encoded(r, e) /\ Serializable(e)
<1>1. Failed(ErrorCodeMessageSerializeFail).err # NoError /\ Failed(ErrorCodeUnknownEnvelope).err # NoError
  BY CodecAssumption DEF Failed, ErrorCodeMessageSerializeFail, ErrorCodeUnknownEnvelope
<1>2. Send(r, e) = Encoded(r, e) /\ Serializable(e)
  <2>1. CASE Succeeded(Encoded(r, e)) /\ ~Serializable(e)
    <3>1. Send(r, e) = Failed(ErrorCodeMessageSerializeFail)
      BY <2>1 DEF Send
    <3> QED BY <1>1, <3>1 DEF Succeeded
  <2>2. CASE ~(Succeeded(Encoded(r, e)) /\ ~Serializable(e))
    <3>1. Send(r, e) = Encoded(r, e)
      BY <2>2 DEF Send
    <3> QED BY <2>2, <3>1
  <2> QED BY <2>1, <2>2
<1>3. ASSUME e.kind \notin EnvelopeKinds PROVE FALSE
  <2>1. Encoded(r, e) = Failed(ErrorCodeUnknownEnvelope)
    BY <1>3 DEF Encoded, EnvelopeKinds
  <2> QED BY <1>1, <1>2, <2>1 DEF Succeeded
<1> QED BY <1>2, <1>3

\* The kinds of packages.
LEMMA PkgTypes ==
  /\ \A k \in EnvelopeKinds : k \in DOMAIN PkgType /\ PkgType[k] \in 1 .. 9 /\ PkgType[k] \in 0 .. MaxMsgId
  /\ PkgType.RegisterSystemReq = 10 /\ PkgType.RegisterSystemRsp = 11
  /\ PkgType.RegisterSystemReq \in 0 .. MaxMsgId /\ PkgType.RegisterSystemRsp \in 0 .. MaxMsgId
<1>1. \A k \in EnvelopeKinds : k \in DOMAIN PkgType /\ PkgType[k] \in 1 .. 9
  BY DEF PkgType, EnvelopeKinds
<1>2. PkgType.RegisterSystemReq = 10 /\ PkgType.RegisterSystemRsp = 11
  BY DEF PkgType
<1>3. "RegisterSystemReq" \in DOMAIN PkgType /\ "RegisterSystemRsp" \in DOMAIN PkgType
  BY DEF PkgType
<1>4. MaxMsgId \in Nat /\ \A k \in DOMAIN PkgType : PkgType[k] <= MaxMsgId
  BY FramingAssumption, WireAssumption
<1>5. \A k \in EnvelopeKinds : PkgType[k] \in 0 .. MaxMsgId
  BY <1>1, <1>4
<1>6. 10 <= MaxMsgId /\ 11 <= MaxMsgId
  <2>1. PkgType["RegisterSystemReq"] <= MaxMsgId /\ PkgType["RegisterSystemRsp"] <= MaxMsgId
    BY <1>3, <1>4
  <2> QED BY <1>2, <2>1
<1> QED BY <1>1, <1>2, <1>4, <1>5, <1>6

\* The frame of an accepted envelope, and what the receiving system makes of the
\* n-th frame when all its bytes reach it.
FrameOf(e) == [msgId |-> PkgType[e.kind], size |-> SizeOf[e], pkg |-> Send(reg["from"], e).val]
Result(n) ==
    IF n = 1 THEN Done(Registration)
    ELSE OnMessage(reg["to"], PkgType[sent[n].kind], Send(reg["from"], sent[n]).val)

Packages == {Send(r, e).val : r \in Registry, e \in Envelopes}
            \cup {[SystemId |-> 1], [ErrorCode |-> ErrorCodeSuccess]}
Frames   == [msgId : 0 .. MaxMsgId, size : 0 .. MaxPayload, pkg : Packages]
Results  == {OnMessage(r, PkgType[k], p) : r \in Registry, k \in EnvelopeKinds, p \in Packages}
            \cup {Done(Registration)}

Typed ==
    /\ rcv \in {"server", "client"} /\ started \in BOOLEAN /\ closed \in BOOLEAN
    /\ socketOpen \in BOOLEAN /\ (~socketOpen => closed)
    /\ reg \in [System -> Registry]
    /\ registered \in SUBSET (System \X Ids \X Types)
    /\ sent \in Seq(Envelopes \cup {Registration}) /\ frames \in Seq(Frames)
    /\ stream \in Seq(Bytes) /\ buf \in Seq(Bytes)
    /\ receiver \in {"read", "split"} /\ handled \in Seq(Results)

\* The two maps of a registry know what was registered, and nothing else.
KnownTo(s) ==
    /\ \A t \in Types : reg[s].msgTypeIds[t] # None => <<s, reg[s].msgTypeIds[t], t>> \in registered
    /\ \A id \in Ids : reg[s].msgCreators[id] # None => <<s, id, reg[s].msgCreators[id]>> \in registered
    /\ \A id \in Ids, t \in Types : <<s, id, t>> \in registered =>
          reg[s].msgTypeIds[t] # None /\ reg[s].msgCreators[id] # None
Known == \A s \in System : KnownTo(s)

PackedAt(n) ==
    sent[n] \in Envelopes /\ Succeeded(Send(reg["from"], sent[n])) /\ frames[n] = FrameOf(sent[n])

Packaged ==
    /\ Len(frames) = Len(sent) /\ Len(sent) > 0
    /\ sent[1] = Registration /\ frames[1] = RegistrationFrame(rcv)
    /\ \A n \in 2 .. Len(sent) : PackedAt(n)
    /\ \A r \in refused : \E e \in Envelopes :
          ~Succeeded(Send(reg["from"], e)) /\ r = <<e, Send(reg["from"], e).err>>
    /\ ~started => Len(sent) = 1 /\ refused = {} /\ handled = <<>> /\ buf = <<>> /\ receiver = "read"

\* Behind the frames handled come the bytes of the others, and the receiver never
\* holds more than it can cut.
Held == IF receiver = "split" THEN ReadBuf ELSE 0
Framed ==
    /\ Len(handled) <= Len(frames)
    /\ \E base : Laid(buf \o stream, frames, Len(handled), base)
    /\ Len(handled) < Len(frames) => Len(buf) < FrameLen(frames, Len(handled) + 1) + Held
    /\ \A n \in 1 .. Len(handled) : handled[n] = Result(n)

IInv == Typed /\ Known /\ Packaged /\ Framed

LEMMA RegistrationFrames ==
  ASSUME NEW end \in {"server", "client"}
  PROVE  RegistrationFrame(end) \in Frames /\ RegistrationFrame(end).msgId \in {10, 11}
<1>1. MaxPayload \in Nat /\ 0 \in 0 .. MaxPayload /\ 1 \in 0 .. MaxPayload
  BY FramingAssumption, WireAssumption
<1>2. [SystemId |-> 1] \in Packages /\ [ErrorCode |-> ErrorCodeSuccess] \in Packages
  BY DEF Packages
<1>3. /\ PkgType.RegisterSystemReq \in 0 .. MaxMsgId /\ PkgType.RegisterSystemReq = 10
      /\ PkgType.RegisterSystemRsp \in 0 .. MaxMsgId /\ PkgType.RegisterSystemRsp = 11
  BY PkgTypes
<1>4. CASE end = "server"
  BY <1>1, <1>2, <1>3, <1>4 DEF RegistrationFrame, Frames
<1>5. CASE end # "server"
  BY <1>1, <1>2, <1>3, <1>5 DEF RegistrationFrame, Frames
<1> QED BY <1>4, <1>5

LEMMA FramesSized ==
  ASSUME Typed
  PROVE  /\ Len(frames) \in Nat
         /\ \A n \in 1 .. Len(frames) : /\ frames[n] \in Frames /\ frames[n].size \in 0 .. MaxPayload
                                        /\ frames[n].size \in Nat /\ frames[n].msgId \in 0 .. MaxMsgId
                                        /\ FrameLen(frames, n) \in Nat \ {0}
<1>1. frames \in Seq(Frames) /\ MaxPayload \in Nat /\ LenBytes \in Nat
  BY FramingAssumption DEF Typed
<1>2. Len(frames) \in Nat /\ \A n \in 1 .. Len(frames) : frames[n] \in Frames
  BY <1>1, LenProperties, ElementOfSeq
<1>3. \A f \in Frames : f.size \in 0 .. MaxPayload /\ f.size \in Nat /\ f.msgId \in 0 .. MaxMsgId
  BY <1>1 DEF Frames
<1> QED BY <1>1, <1>2, <1>3 DEF FrameLen, PacketHeaderSize

LEMMA EmptyTyped ==
  EmptyRegistry \in Registry
BY DEF EmptyRegistry, Registry

LEMMA IInvInit ==
  ASSUME Init PROVE IInv
<1> DEFINE f == RegistrationFrame(rcv)
<1>1. rcv \in {"server", "client"} /\ f \in Frames /\ f.size \in 0 .. MaxPayload /\ f.msgId \in 0 .. MaxMsgId
  BY RegistrationFrames DEF Init, Frames
<1>2. frames = <<f>> /\ stream = PackMessage(1, f) /\ buf = <<>> /\ handled = <<>> /\ receiver = "read"
  BY DEF Init
<1> HIDE DEF f
<1>3. stream \in Seq(Bytes) /\ \E b : Laid(stream, <<f>>, 0, b)
  <2> DEFINE e == [n \in 1 .. 1 |-> 0]
             none == <<>>
  <2>1. none \in Seq(Frames) /\ none \in Seq(Bytes) /\ Len(none) = 0
    OBVIOUS
  <2>2. Laid(none, none, 0, e)
    BY <2>1 DEF Laid
  <2> HIDE DEF e, none
  <2>3. \A n \in 1 .. Len(none) : none[n].size \in Nat
    BY <2>1
  <2>4. 0 \in 0 .. Len(none)
    BY <2>1
  <2>5. /\ none \o PackMessage(Len(none) + 1, f) \in Seq(Bytes)
        /\ \E b : Laid(none \o PackMessage(Len(none) + 1, f), Append(none, f), 0, b)
    BY <1>1, <2>1, <2>2, <2>3, <2>4, LaidAppend
  <2>6. PackMessage(1, f) \in Seq(Bytes)
    <3> DEFINE l == PacketHeaderSize + f.size
    <3>1. PackMessage(1, f) = [i \in 1 .. l |-> <<1, i>>] /\ l \in Nat
      BY <1>1, FramingAssumption DEF PackMessage, PacketHeaderSize
    <3> HIDE DEF l
    <3> QED BY <3>1 DEF Bytes
  <2>7. none \o PackMessage(Len(none) + 1, f) = stream
    BY <1>2, <2>1, <2>6, ConcatEmptySeq DEF none
  <2>8. Append(none, f) = <<f>>
    BY DEF none
  <2> QED BY <2>5, <2>7, <2>8
<1>4. Typed
  <2>1. sent \in Seq(Envelopes \cup {Registration}) /\ handled \in Seq(Results)
    BY DEF Init
  <2>2. reg \in [System -> Registry] /\ registered \in SUBSET (System \X Ids \X Types)
    BY EmptyTyped DEF Init
  <2>3. buf \in Seq(Bytes) /\ frames \in Seq(Frames)
    BY <1>1, <1>2
  <2> QED BY <1>1, <1>2, <1>3, <2>1, <2>2, <2>3 DEF Typed, Init
<1>5. Known
  <2> SUFFICES ASSUME NEW s \in System PROVE KnownTo(s)
    BY DEF Known
  <2>1. registered = {} /\ reg[s] = EmptyRegistry
    BY DEF Init
  <2> QED BY <2>1 DEF KnownTo, EmptyRegistry
<1>6. Packaged
  <2>1. /\ Len(frames) = 1 /\ Len(sent) = 1 /\ sent[1] = Registration /\ frames[1] = f /\ refused = {}
        /\ handled = <<>>
    BY <1>2 DEF Init
  <2> QED BY <1>2, <2>1 DEF Packaged, f
<1>7. Framed
  <2>1. buf \o stream = stream
    BY <1>2, <1>3, ConcatEmptySeq
  <2>2. Len(handled) = 0 /\ Len(frames) = 1 /\ Len(buf) = 0 /\ Held = 0
    BY <1>2 DEF Held
  <2>3. FrameLen(frames, 1) \in Nat \ {0}
    BY <1>4, <2>2, FramesSized
  <2> QED BY <1>2, <1>3, <2>1, <2>2, <2>3 DEF Framed
<1> QED BY <1>4, <1>5, <1>6, <1>7 DEF IInv

LEMMA Registered ==
  ASSUME IInv, NEW s \in System, NEW id \in Ids, NEW t \in Types, Register(s, id, t)
  PROVE  reg' \in [System -> Registry] /\ Known'
<1>1. reg \in [System -> Registry] /\ reg[s] \in Registry
  BY DEF IInv, Typed
<1>2. /\ reg' = [reg EXCEPT ![s] = RegisterMessageType(reg[s], id, t)]
      /\ registered' = registered \cup {<<s, id, t>>}
  BY DEF Register
<1> DEFINE new == RegisterMessageType(reg[s], id, t)
<1>3. new = [msgTypeIds |-> [reg[s].msgTypeIds EXCEPT ![t] = id],
             msgCreators |-> [reg[s].msgCreators EXCEPT ![id] = t]]
  <2> DEFINE ids == reg[s].msgTypeIds
             creators == reg[s].msgCreators
  <2>1. reg[s] = [msgTypeIds |-> ids, msgCreators |-> creators]
    BY <1>1 DEF Registry
  <2> DEFINE newIds == [ids EXCEPT ![t] = id]
             newCreators == [creators EXCEPT ![id] = t]
  <2>2. new = [[[msgTypeIds |-> ids, msgCreators |-> creators] EXCEPT !.msgTypeIds = newIds]
                   EXCEPT !.msgCreators = newCreators]
    <3> HIDE DEF ids, creators
    <3> QED BY <2>1 DEF RegisterMessageType
  <2> HIDE DEF newIds, newCreators, ids, creators, new
  <2>3. new = [msgTypeIds |-> newIds, msgCreators |-> newCreators]
    BY <2>2
  <2> QED BY <2>3 DEF ids, creators, newIds, newCreators
<1>4. new \in Registry
  BY <1>1, <1>3 DEF Registry
<1>5. /\ \A u \in Types : new.msgTypeIds[u] = IF u = t THEN id ELSE reg[s].msgTypeIds[u]
      /\ \A i \in Ids : new.msgCreators[i] = IF i = id THEN t ELSE reg[s].msgCreators[i]
  BY <1>1, <1>3 DEF Registry
<1> HIDE DEF new
<1>6. ASSUME NEW u \in System PROVE KnownTo(u)'
  <2>1. KnownTo(u)
    BY DEF IInv, Known
  <2>2. CASE u # s
    <3>1. reg'[u] = reg[u]
      BY <1>1, <1>2, <2>2
    <3>2. \A i \in Ids, x \in Types : <<u, i, x>> \in registered' <=> <<u, i, x>> \in registered
      BY <1>2, <2>2
    <3>3. reg[u] \in Registry
      BY <1>1
    <3>4. reg[u].msgTypeIds \in [Types -> Ids \cup {None}] /\ reg[u].msgCreators \in [Ids -> Types \cup {None}]
      BY <3>3 DEF Registry
    <3> QED BY <2>1, <3>1, <3>2, <3>4 DEF KnownTo
  <2>3. CASE u = s
    <3>1. reg'[u] = new
      BY <1>1, <1>2, <2>3 DEF new
    <3>2. \A i \in Ids, x \in Types :
             <<u, i, x>> \in registered' <=> (<<u, i, x>> \in registered \/ (i = id /\ x = t))
      BY <1>2, <2>3
    <3>3. reg[u].msgTypeIds \in [Types -> Ids \cup {None}] /\ reg[u].msgCreators \in [Ids -> Types \cup {None}]
      BY <1>1, <2>3 DEF Registry
    <3>4. None \notin Types /\ None \notin Ids
      BY CodecAssumption
    <3>5. \A x \in Types : new.msgTypeIds[x] # None => <<u, new.msgTypeIds[x], x>> \in registered'
      BY <1>5, <2>1, <2>3, <3>2, <3>3, <3>4 DEF KnownTo
    <3>6. \A i \in Ids : new.msgCreators[i] # None => <<u, i, new.msgCreators[i]>> \in registered'
      BY <1>5, <2>1, <2>3, <3>2, <3>3, <3>4 DEF KnownTo
    <3>7. \A i \in Ids, x \in Types : <<u, i, x>> \in registered' =>
             new.msgTypeIds[x] # None /\ new.msgCreators[i] # None
      BY <1>5, <2>1, <2>3, <3>2, <3>3, <3>4 DEF KnownTo
    <3> QED BY <3>1, <3>5, <3>6, <3>7 DEF KnownTo
  <2> QED BY <2>2, <2>3
<1> QED BY <1>1, <1>2, <1>4, <1>6 DEF Known, new

\* Unless the registries or the frames change, what was packed stays as it is.
LEMMA PackagedStays ==
  ASSUME Packaged, reg' = reg, sent' = sent, frames' = frames, refused' = refused, rcv' = rcv, started'
  PROVE  Packaged'
BY DEF Packaged, PackedAt, FrameOf

LEMMA RegisterStep ==
  ASSUME IInv, NEW s \in System, NEW id \in Ids, NEW t \in Types, Register(s, id, t)
  PROVE  IInv'
<1>1. reg' \in [System -> Registry] /\ Known'
  BY Registered
<1>2. /\ ~started /\ registered' = registered \cup {<<s, id, t>>}
      /\ UNCHANGED <<rcv, started, sent, refused, frames, stream, buf, receiver, handled, closed, socketOpen>>
  BY DEF Register, sendVars, receiveVars
<1>3. Typed'
  BY <1>1, <1>2 DEF IInv, Typed
<1>4. Len(sent) = 1 /\ refused = {} /\ handled = <<>>
  BY <1>2 DEF IInv, Packaged
<1>5. Packaged'
  BY <1>2, <1>4 DEF IInv, Packaged
<1>6. Framed'
  BY <1>2, <1>4 DEF IInv, Framed, Held
<1> QED BY <1>1, <1>3, <1>5, <1>6 DEF IInv

LEMMA StartStep ==
  ASSUME IInv, Start PROVE IInv'
<1>1. started' /\ started' \in BOOLEAN
      /\ UNCHANGED <<rcv, reg, registered, sent, refused, frames, stream, buf, receiver, handled, closed, socketOpen>>
  BY DEF Start, sendVars, receiveVars
<1>2. Typed'
  BY <1>1 DEF IInv, Typed
<1>3. Known'
  BY <1>1 DEF IInv, Known, KnownTo
<1>4. Packaged'
  BY <1>1, PackagedStays DEF IInv
<1>5. Framed'
  BY <1>1 DEF IInv, Framed, Held, Result
<1> QED BY <1>2, <1>3, <1>4, <1>5 DEF IInv

LEMMA RefuseStep ==
  ASSUME IInv, NEW e \in Envelopes, Refuse(e) PROVE IInv'
<1>1. /\ started /\ ~Succeeded(Send(reg["from"], e))
      /\ refused' = refused \cup {<<e, Send(reg["from"], e).err>>}
      /\ UNCHANGED <<rcv, started, reg, registered, sent, frames, stream, buf, receiver, handled, closed, socketOpen>>
  BY DEF Refuse, Ready, receiveVars
<1>2. Typed'
  BY <1>1 DEF IInv, Typed
<1>3. Known'
  BY <1>1 DEF IInv, Known, KnownTo
<1>4. Packaged'
  BY <1>1 DEF IInv, Packaged, PackedAt, FrameOf
<1>5. Framed'
  BY <1>1 DEF IInv, Framed, Held, Result
<1> QED BY <1>2, <1>3, <1>4, <1>5 DEF IInv

LEMMA AcceptStep ==
  ASSUME IInv, NEW e \in Envelopes, Accept(e) PROVE IInv'
<1> DEFINE N == Len(frames)
           f == FrameOf(e)
           h == Len(handled)
<1>1. /\ started /\ Succeeded(Send(reg["from"], e))
      /\ sent' = Append(sent, e) /\ frames' = Append(frames, f)
      /\ stream' = stream \o PackMessage(N + 1, f)
      /\ UNCHANGED <<rcv, started, reg, registered, refused, buf, receiver, handled, closed, socketOpen>>
  BY DEF Accept, Ready, receiveVars, FrameOf
<1>2. f \in Frames /\ f.size \in 0 .. MaxPayload /\ f.msgId \in 0 .. MaxMsgId
  <2>1. PkgType[e.kind] \in 0 .. MaxMsgId
    BY <1>1, KindsSent, PkgTypes
  <2>2. SizeOf[e] \in 0 .. MaxPayload
    BY WireAssumption, FramingAssumption
  <2>3. Send(reg["from"], e).val \in Packages
    BY DEF IInv, Typed, Packages, System
  <2> QED BY <2>1, <2>2, <2>3 DEF FrameOf, Frames
<1>3. /\ N \in Nat /\ Len(sent) = N /\ Len(handled) <= N /\ h \in 0 .. N
      /\ sent \in Seq(Envelopes \cup {Registration}) /\ frames \in Seq(Frames)
      /\ buf \in Seq(Bytes) /\ stream \in Seq(Bytes) /\ N > 0
  <2>1. h \in Nat
    BY LenProperties DEF IInv, Typed
  <2> QED BY <2>1, FramesSized DEF IInv, Typed, Packaged, Framed
<1> HIDE DEF f
<1>4. /\ Len(sent') = N + 1 /\ sent'[N + 1] = e /\ \A n \in 1 .. N : sent'[n] = sent[n]
      /\ Len(frames') = N + 1 /\ frames'[N + 1] = f /\ \A n \in 1 .. N : frames'[n] = frames[n]
      /\ sent' \in Seq(Envelopes \cup {Registration}) /\ frames' \in Seq(Frames)
  BY <1>1, <1>2, <1>3, AppendProperties
<1>5. \A n \in 1 .. N : frames[n].size \in Nat
  BY FramesSized DEF IInv
<1> HIDE DEF N, h
<1>6. stream' \in Seq(Bytes) /\ \E b : Laid(buf' \o stream', frames', h, b)
  <2> DEFINE pack == PackMessage(N + 1, f)
             q == buf \o stream
  <2>1. pack \in Seq(Bytes)
    <3> DEFINE l == PacketHeaderSize + f.size
    <3>1. pack = [i \in 1 .. l |-> <<N + 1, i>>] /\ l \in Nat
      BY <1>2, FramingAssumption DEF PackMessage, PacketHeaderSize
    <3> HIDE DEF l, pack
    <3> QED BY <1>3, <3>1 DEF Bytes
  <2>2. stream \o pack \in Seq(Bytes)
    BY <1>3, <2>1, ConcatProperties
  <2>3. q \in Seq(Bytes)
    BY <1>3, ConcatProperties
  <2>4. PICK base : Laid(q, frames, h, base)
    BY DEF IInv, Framed, h
  <2> HIDE DEF q
  <2>5. /\ q \o PackMessage(Len(frames) + 1, f) \in Seq(Bytes)
        /\ \E b : Laid(q \o PackMessage(Len(frames) + 1, f), Append(frames, f), h, b)
    BY <1>2, <1>3, <1>5, <2>3, <2>4, LaidAppend DEF N
  <2>6. q \o pack = buf \o (stream \o pack)
    <3> HIDE DEF pack
    <3> QED BY <1>3, <2>1, ConcatAssociative DEF q
  <2>7. buf' \o stream' = q \o pack
    BY <1>1, <2>6
  <2> QED BY <1>1, <2>2, <2>5, <2>7 DEF N
<1>7. Typed'
  BY <1>1, <1>4, <1>6 DEF IInv, Typed
<1>8. Known'
  BY <1>1 DEF IInv, Known, KnownTo
<1>9. Packaged'
  <2>1. Packaged
    BY DEF IInv
  <2>2. Len(frames') = Len(sent') /\ Len(sent') > 0
    BY <1>3, <1>4
  <2>3. sent'[1] = Registration /\ frames'[1] = RegistrationFrame(rcv')
    BY <1>1, <1>3, <1>4, <2>1 DEF Packaged
  <2>4. ASSUME NEW n \in 2 .. Len(sent') PROVE PackedAt(n)'
    <3>1. CASE n = N + 1
      BY <1>1, <1>4, <3>1 DEF PackedAt, FrameOf, f
    <3>2. CASE n \in 2 .. N
      <4>1. PackedAt(n)
        BY <1>3, <2>1, <3>2 DEF Packaged
      <4>2. sent'[n] = sent[n] /\ frames'[n] = frames[n]
        BY <1>3, <1>4, <3>2
      <4> QED BY <1>1, <4>1, <4>2 DEF PackedAt, FrameOf
    <3>3. n = N + 1 \/ n \in 2 .. N
      BY <1>3, <1>4
    <3> QED BY <3>1, <3>2, <3>3
  <2> QED BY <1>1, <2>1, <2>2, <2>3, <2>4 DEF Packaged
<1>10. Framed'
  <2>1. Framed
    BY DEF IInv
  <2>2. h < Len(frames') => Len(buf) < FrameLen(frames', h + 1) + Held
    <3>1. CASE h < N
      <4>1. frames'[h + 1] = frames[h + 1]
        BY <1>3, <1>4, <3>1
      <4> QED BY <2>1, <3>1, <4>1 DEF Framed, FrameLen, N, h
    <3>2. CASE h = N
      <4>1. PICK base : Laid(buf \o stream, frames, h, base)
        BY <2>1 DEF Framed, h
      <4>2. buf \o stream \in Seq(Bytes) /\ Len(buf \o stream) = Len(buf) + Len(stream)
            /\ Len(buf) \in Nat /\ Len(stream) \in Nat
        BY <1>3, ConcatProperties, LenProperties
      <4>3. buf \o stream = <<>>
        BY <1>3, <1>5, <3>2, <4>1, <4>2, LaidFirst DEF N
      <4>4. Len(buf) = 0
        BY <4>2, <4>3
      <4>5. FrameLen(frames', h + 1) \in Nat \ {0}
        BY <1>2, <1>3, <1>4, <3>2, FramingAssumption DEF FrameLen, PacketHeaderSize
      <4> QED BY <4>4, <4>5, FramingAssumption DEF Held
    <3> QED BY <1>3, <3>1, <3>2
  <2>3. Held' = Held
    BY <1>1 DEF Held
  <2>4. ASSUME NEW n \in 1 .. Len(handled) PROVE (handled[n] = Result(n))'
    <3>1. sent'[n] = sent[n]
      BY <1>3, <1>4 DEF h
    <3> QED BY <1>1, <2>1, <3>1 DEF Framed, Result
  <2> QED BY <1>1, <1>3, <1>4, <1>6, <2>1, <2>2, <2>3, <2>4 DEF Framed, h
<1> QED BY <1>7, <1>8, <1>9, <1>10 DEF IInv

LEMMA ReceiveStep ==
  ASSUME IInv, Receive PROVE IInv'
<1>1. PICK k \in 1 .. ReadBuf : /\ k <= Len(stream)
                                /\ buf' = AppendData(buf, SubSeq(stream, 1, k))
                                /\ stream' = SubSeq(stream, k + 1, Len(stream))
  BY DEF Receive
<1>2. /\ started /\ receiver = "read" /\ receiver' = "split"
      /\ UNCHANGED <<rcv, started, reg, registered, sent, refused, frames, handled, closed, socketOpen>>
  BY DEF Receive, sendVars
<1>3. buf \in Seq(Bytes) /\ stream \in Seq(Bytes) /\ Len(stream) \in Nat /\ Len(buf) \in Nat
  BY LenProperties DEF IInv, Typed
<1>4. k \in Nat /\ k <= ReadBuf /\ ReadBuf \in Nat /\ k \in 0 .. Len(stream)
  BY <1>1, <1>3, FramingAssumption
<1> DEFINE a == SubSeq(stream, 1, k)
           b == SubSeq(stream, k + 1, Len(stream))
<1>5. /\ a \in Seq(Bytes) /\ Len(a) = k /\ \A i \in 1 .. k : a[i] = stream[i]
      /\ b \in Seq(Bytes) /\ Len(b) = Len(stream) - k /\ \A i \in 1 .. Len(b) : b[i] = stream[k + i]
  BY <1>3, <1>4, PrefixAt, SuffixAt
<1>6. buf' = buf \o a /\ stream' = b
  BY <1>1 DEF AppendData
<1> HIDE DEF a, b
<1>7. a \o b = stream
  <2>1. /\ a \o b \in Seq(Bytes) /\ Len(a \o b) = Len(a) + Len(b)
        /\ \A i \in 1 .. Len(a) : (a \o b)[i] = a[i]
        /\ \A i \in 1 .. Len(b) : (a \o b)[Len(a) + i] = b[i]
    <3>1. a \in Seq(Bytes) /\ b \in Seq(Bytes)
      BY <1>5
    <3> QED BY <3>1, ConcatAt
  <2> DEFINE c == a \o b
  <2> HIDE DEF c
  <2>2. \A i \in 1 .. Len(stream) : c[i] = stream[i]
    <3> SUFFICES ASSUME NEW i \in 1 .. Len(stream) PROVE c[i] = stream[i]
      OBVIOUS
    <3>1. CASE i <= k
      BY <1>4, <1>5, <2>1, <3>1 DEF c
    <3>2. CASE i > k
      <4>1. i - k \in 1 .. Len(b) /\ k + (i - k) = i
        BY <1>3, <1>4, <1>5, <3>2
      <4>2. c[k + (i - k)] = stream[k + (i - k)]
        BY <1>5, <2>1, <4>1 DEF c
      <4> QED BY <4>1, <4>2
    <3> QED BY <1>4, <3>1, <3>2
  <2>3. c \in Seq(Bytes) /\ Len(c) = Len(stream)
    BY <1>3, <1>4, <1>5, <2>1 DEF c
  <2>4. c = stream
    BY <1>3, <2>2, <2>3, SeqEqual
  <2> QED BY <2>4 DEF c
<1>8. buf' \o stream' = buf \o stream
  <2>1. a \in Seq(Bytes) /\ b \in Seq(Bytes) /\ buf \in Seq(Bytes)
    BY <1>3, <1>5
  <2>2. (buf \o a) \o b = buf \o (a \o b)
    BY <2>1, ConcatAssociative
  <2> QED BY <1>6, <1>7, <2>2
<1>9. buf' \in Seq(Bytes) /\ Len(buf') = Len(buf) + k
  BY <1>3, <1>5, <1>6, ConcatProperties
<1>10. Typed'
  BY <1>2, <1>5, <1>6, <1>9 DEF IInv, Typed
<1>11. Known'
  BY <1>2 DEF IInv, Known, KnownTo
<1>12. Packaged'
  BY <1>2, PackagedStays DEF IInv
<1>13. Framed'
  <2>1. Framed
    BY DEF IInv
  <2>2. ASSUME Len(handled) < Len(frames)
        PROVE  Len(buf') < FrameLen(frames, Len(handled) + 1) + ReadBuf
    <3>1. Len(buf) < FrameLen(frames, Len(handled) + 1) + 0
      BY <1>2, <2>1, <2>2 DEF Framed, Held
    <3>2. Len(handled) + 1 \in 1 .. Len(frames)
      <4>1. Len(handled) \in Nat /\ Len(frames) \in Nat
        BY LenProperties DEF IInv, Typed
      <4> QED BY <2>2, <4>1
    <3>3. FrameLen(frames, Len(handled) + 1) \in Nat
      BY <3>2, FramesSized DEF IInv
    <3> QED BY <1>3, <1>4, <1>9, <3>1, <3>3
  <2>3. Held' = ReadBuf
    BY <1>2 DEF Held
  <2>4. \A n \in 1 .. Len(handled) : (handled[n] = Result(n))'
    BY <1>2, <2>1 DEF Framed, Result
  <2> QED BY <1>2, <1>8, <2>1, <2>2, <2>3, <2>4 DEF Framed, FrameLen
<1> QED BY <1>10, <1>11, <1>12, <1>13 DEF IInv

\* What is made of a whole frame.
LEMMA HandleIs ==
  ASSUME IInv, NEW n \in 1 .. Len(frames)
  PROVE  LET payload == [i \in 1 .. frames[n].size |-> <<n, PacketHeaderSize + i>>] IN
         Handle(frames[n].msgId, payload) = Result(n) /\ Result(n) \in Results
<1> DEFINE payload == [i \in 1 .. frames[n].size |-> <<n, PacketHeaderSize + i>>]
<1>1. Len(frames) \in Nat /\ Len(sent) = Len(frames) /\ Packaged
  BY FramesSized DEF IInv, Packaged
<1>2. PkgType.RegisterSystemReq = 10 /\ PkgType.RegisterSystemRsp = 11
  BY PkgTypes
<1>3. CASE n = 1
  <2>1. frames[n].msgId \in {10, 11}
    BY <1>1, <1>3, RegistrationFrames DEF IInv, Typed, Packaged
  <2> QED BY <1>2, <1>3, <2>1 DEF Handle, Result, Results
<1>4. CASE n # 1
  <2>1. sent[n] \in Envelopes /\ Succeeded(Send(reg["from"], sent[n])) /\ frames[n] = FrameOf(sent[n])
    BY <1>1, <1>4 DEF Packaged, PackedAt
  <2>2. frames[n].msgId = PkgType[sent[n].kind] /\ frames[n].pkg = Send(reg["from"], sent[n]).val
        /\ frames[n].size = SizeOf[sent[n]]
    BY <2>1 DEF FrameOf
  <2>3. sent[n].kind \in EnvelopeKinds /\ frames[n].msgId \in 1 .. 9
    BY <2>1, <2>2, KindsSent, PkgTypes
  <2>4. frames[n].size \in Nat /\ frames[n].size > 0
    BY <2>1, <2>2, WireAssumption, FramingAssumption
  <2>5. payload \in Seq(Bytes) /\ Len(payload) = frames[n].size /\ payload[1] = <<n, PacketHeaderSize + 1>>
    <3> DEFINE size == frames[n].size
    <3>1. size \in Nat /\ size > 0 /\ PacketHeaderSize \in Nat /\ n \in Nat
      BY <2>4, FramingAssumption DEF PacketHeaderSize
    <3>2. payload = [i \in 1 .. size |-> <<n, PacketHeaderSize + i>>]
      OBVIOUS
    <3> HIDE DEF size, payload
    <3>3. payload \in Seq(Bytes) /\ Len(payload) = size /\ payload[1] = <<n, PacketHeaderSize + 1>>
      BY <3>1, <3>2 DEF Bytes
    <3> QED BY <3>3 DEF size
  <2>6. payload # <<>> /\ payload[1][1] = n
    <3> HIDE DEF payload
    <3> QED BY <2>4, <2>5
  <2>7. Whole(frames, payload)
    BY <2>6 DEF Whole
  <2> HIDE DEF payload
  <2>8. Handle(frames[n].msgId, payload) = OnMessage(reg["to"], frames[n].msgId, frames[n].pkg)
    BY <1>2, <2>3, <2>6, <2>7 DEF Handle
  <2>9. Result(n) = OnMessage(reg["to"], PkgType[sent[n].kind], frames[n].pkg)
    BY <1>4, <2>2 DEF Result
  <2>10. reg["to"] \in Registry /\ frames[n].pkg \in Packages
    <3>1. reg["to"] \in Registry /\ reg["from"] \in Registry
      BY DEF IInv, Typed, System
    <3> QED BY <2>1, <2>2, <3>1 DEF Packages
  <2> QED BY <2>2, <2>3, <2>8, <2>9, <2>10 DEF Results, payload
<1> QED BY <1>3, <1>4

LEMMA SplitStep ==
  ASSUME IInv, Split PROVE IInv'
<1> DEFINE h == Len(handled)
           N == Len(frames)
           l == FrameLen(frames, h + 1)
           f == NextFrame(frames, buf)
           q == buf \o stream
<1>1. /\ receiver = "split"
      /\ UNCHANGED <<rcv, started, reg, registered, sent, refused, frames, stream, socketOpen>>
      /\ IF ~f.ok THEN receiver' = "read" /\ UNCHANGED <<buf, handled, closed>>
         ELSE /\ buf' = f.rest
              /\ handled' = Append(handled, Handle(f.msgId, f.payload))
              /\ closed' = (closed \/ (rcv = "server" /\ ~Succeeded(Handle(f.msgId, f.payload))))
              /\ UNCHANGED receiver
  BY DEF Split, sendVars
<1>2. /\ N \in Nat /\ h \in Nat /\ h <= N /\ handled \in Seq(Results)
      /\ buf \in Seq(Bytes) /\ stream \in Seq(Bytes) /\ ReadBuf \in Nat
  BY FramesSized, LenProperties, FramingAssumption DEF IInv, Typed, Framed
<1>3. /\ q \in Seq(Bytes) /\ Len(buf) \in Nat /\ Len(stream) \in Nat /\ Len(q) = Len(buf) + Len(stream)
      /\ \A i \in 1 .. Len(buf) : q[i] = buf[i]
      /\ \A i \in 1 .. Len(stream) : q[Len(buf) + i] = stream[i]
  BY <1>2, ConcatAt
<1>4. PICK base : Laid(q, frames, h, base)
  BY DEF IInv, Framed
<1>5. \A n \in 1 .. N : frames[n].size \in Nat
  BY FramesSized DEF IInv
<1> HIDE DEF q
<1>6. /\ h = N => q = <<>>
      /\ h < N => Len(q) >= l /\ \A i \in 1 .. l : q[i] = <<h + 1, i>>
  <2>1. q \in Seq(Bytes) /\ h \in 0 .. N
    BY <1>2, <1>3
  <2> QED BY <1>2, <1>4, <1>5, <2>1, LaidFirst
<1>7. h < N => /\ h + 1 \in 1 .. N /\ l \in Nat \ {0} /\ Len(buf) < l + ReadBuf
               /\ frames[h + 1].msgId \in 0 .. MaxMsgId /\ frames[h + 1].size \in 0 .. MaxPayload
  <2>1. h < N => h + 1 \in 1 .. N
    BY <1>2
  <2>2. h < N => Len(buf) < l + ReadBuf
    BY <1>1 DEF IInv, Framed, Held
  <2> QED BY <2>1, <2>2, FramesSized DEF IInv
<1>8. Known'
  BY <1>1 DEF IInv, Known, KnownTo
<1>9. started
  BY <1>1 DEF IInv, Packaged
<1>10. Packaged'
  BY <1>1, <1>9, PackagedStays DEF IInv
<1> DEFINE size == frames[h + 1].size
           whole == [ok |-> TRUE, msgId |-> frames[h + 1].msgId,
                     payload |-> [i \in 1 .. size |-> <<h + 1, PacketHeaderSize + i>>],
                     rest |-> SubSeq(buf, l + 1, Len(buf))]
<1>11. h < N => f = IF Len(buf) < l THEN NoFrame ELSE whole
  <2> SUFFICES ASSUME h < N PROVE f = IF Len(buf) < l THEN NoFrame ELSE whole
    OBVIOUS
  <2>1. \A i \in 1 .. Len(buf) : i <= l => buf[i] = <<h + 1, i>>
    BY <1>3, <1>6, <1>7
  <2>2. h + 1 \in Nat
    BY <1>2
  <2> QED BY <1>2, <1>7, <2>1, <2>2, NextFrameIs
<1>12. h = N => f = NoFrame
  <2> SUFFICES ASSUME h = N PROVE f = NoFrame
    OBVIOUS
  <2>1. Len(buf) = 0
    BY <1>3, <1>6
  <2>2. 0 % Mod = 0 /\ 0 < PacketHeaderSize
    <3>1. Mod \in Nat /\ 0 < Mod /\ 0 < PacketHeaderSize
      BY FramingAssumption DEF PacketHeaderSize
    <3> QED BY <3>1, NoMod
  <2> QED BY <2>1, <2>2 DEF NextFrame
<1> HIDE DEF f, whole
<1>13. CASE f.ok
  <2>1. h < N /\ f = whole /\ ~(Len(buf) < l)
    BY <1>2, <1>11, <1>12, <1>13 DEF NoFrame
  <2> DEFINE rest == SubSeq(buf, l + 1, Len(buf))
             r == rest \o stream
  <2>2. l \in 0 .. Len(buf)
    BY <1>3, <1>7, <2>1
  <2>3. rest \in Seq(Bytes) /\ Len(rest) = Len(buf) - l /\ \A i \in 1 .. Len(rest) : rest[i] = buf[l + i]
    BY <1>2, <2>2, SuffixAt
  <2>4. buf' = rest /\ handled' = Append(handled, Result(h + 1)) /\ Result(h + 1) \in Results
        /\ closed' \in BOOLEAN /\ (closed => closed') /\ receiver' = receiver
    <3>1. f.rest = rest /\ f.msgId = frames[h + 1].msgId
          /\ f.payload = [i \in 1 .. size |-> <<h + 1, PacketHeaderSize + i>>]
      BY <2>1 DEF whole
    <3>2. Handle(f.msgId, f.payload) = Result(h + 1) /\ Result(h + 1) \in Results
      BY <1>7, <2>1, <3>1, HandleIs
    <3> QED BY <1>1, <1>13, <3>1, <3>2 DEF IInv, Typed
  <2> HIDE DEF rest
  <2>5. /\ r \in Seq(Bytes) /\ Len(r) = Len(rest) + Len(stream)
        /\ \A i \in 1 .. Len(rest) : r[i] = rest[i]
        /\ \A i \in 1 .. Len(stream) : r[Len(rest) + i] = stream[i]
    <3>1. rest \in Seq(Bytes) /\ stream \in Seq(Bytes)
      BY <1>2, <2>3
    <3> QED BY <3>1, ConcatAt
  <2> HIDE DEF r, l
  <2>6. Len(r) = Len(q) - l
    BY <1>3, <1>7, <2>1, <2>2, <2>3, <2>5
  <2>7. \A i \in 1 .. Len(r) : r[i] = q[l + i]
    <3> SUFFICES ASSUME NEW i \in 1 .. Len(r) PROVE r[i] = q[l + i]
      OBVIOUS
    <3>1. CASE i <= Len(rest)
      <4>1. i \in 1 .. Len(rest) /\ l + i \in 1 .. Len(buf)
        BY <1>3, <1>7, <2>1, <2>2, <2>3, <3>1
      <4> QED BY <1>3, <2>3, <2>5, <4>1
    <3>2. CASE i > Len(rest)
      <4>1. /\ i - Len(rest) \in 1 .. Len(stream) /\ Len(rest) + (i - Len(rest)) = i
            /\ Len(buf) + (i - Len(rest)) = l + i
        BY <1>3, <1>7, <2>1, <2>2, <2>3, <2>5, <3>2
      <4>2. r[Len(rest) + (i - Len(rest))] = stream[i - Len(rest)]
        BY <2>5, <4>1
      <4>3. q[Len(buf) + (i - Len(rest))] = stream[i - Len(rest)]
        BY <1>3, <4>1
      <4> QED BY <4>1, <4>2, <4>3
    <3> QED BY <1>3, <2>2, <2>3, <3>1, <3>2
  <2>8. \E b : Laid(r, frames, h + 1, b)
    <3>1. h \in 0 .. N
      BY <1>2
    <3> QED BY <1>2, <1>3, <1>4, <1>5, <2>1, <2>5, <2>6, <2>7, <3>1, LaidCut DEF l
  <2>9. handled' \in Seq(Results) /\ Len(handled') = h + 1
        /\ handled'[h + 1] = Result(h + 1) /\ \A n \in 1 .. h : handled'[n] = handled[n]
    BY <1>2, <2>4, AppendProperties
  <2>10. Typed'
    BY <1>1, <2>3, <2>4, <2>9 DEF IInv, Typed
  <2>11. ASSUME h + 1 < N PROVE Len(buf') < FrameLen(frames, h + 1 + 1) + ReadBuf
    <3>1. FrameLen(frames, h + 1 + 1) \in Nat
      <4>1. h + 1 + 1 \in 1 .. N
        BY <1>2, <2>11
      <4> QED BY <4>1, FramesSized DEF IInv
    <3>2. Len(rest) < ReadBuf
      BY <1>2, <1>3, <1>7, <2>1, <2>2, <2>3
    <3> QED BY <1>2, <2>3, <2>4, <3>1, <3>2
  <2>12. Held' = ReadBuf
    BY <1>1, <2>4 DEF Held
  <2>13. ASSUME NEW n \in 1 .. h + 1 PROVE (handled[n] = Result(n))'
    <3>1. Result(n)' = Result(n)
      BY <1>1 DEF Result
    <3>2. handled'[n] = Result(n)
      <4>1. n = h + 1 \/ n \in 1 .. h
        BY <1>2
      <4>2. n \in 1 .. h => handled[n] = Result(n)
        BY DEF IInv, Framed
      <4> QED BY <2>9, <4>1, <4>2
    <3> QED BY <3>1, <3>2
  <2>14. Framed'
    <3>1. h + 1 <= N /\ Len(frames') = N /\ Len(handled') = h + 1
      BY <1>1, <1>2, <2>1, <2>9
    <3>2. \E b : Laid(buf' \o stream', frames', Len(handled'), b)
      BY <1>1, <2>4, <2>8, <3>1 DEF r
    <3>3. h + 1 < N => Len(buf') < FrameLen(frames', h + 1 + 1) + Held'
      BY <1>1, <2>11, <2>12
    <3> QED BY <2>13, <3>1, <3>2, <3>3 DEF Framed, FrameLen
  <2> QED BY <1>8, <1>10, <2>10, <2>14 DEF IInv
<1>14. CASE ~f.ok
  <2>1. receiver' = "read" /\ UNCHANGED <<buf, handled, closed>>
    BY <1>1, <1>14
  <2>2. Typed'
    BY <1>1, <2>1 DEF IInv, Typed
  <2>3. h < N => Len(buf) < l + 0
    BY <1>7, <1>11, <1>14 DEF whole
  <2>4. Held' = 0
    BY <2>1 DEF Held
  <2>5. Framed'
    BY <1>1, <2>1, <2>3, <2>4 DEF IInv, Framed, FrameLen, Result
  <2> QED BY <1>8, <1>10, <2>2, <2>5 DEF IInv
<1> QED BY <1>13, <1>14

LEMMA CloseSocketStep ==
  ASSUME IInv, CloseSocket PROVE IInv'
<1>1. /\ closed /\ socketOpen' = FALSE
      /\ UNCHANGED <<rcv, started, reg, registered, sent, refused, frames, stream, buf, receiver, handled, closed>>
  BY DEF CloseSocket, sendVars
<1>2. Typed'
  BY <1>1 DEF IInv, Typed
<1>3. Known'
  BY <1>1 DEF IInv, Known, KnownTo
<1>4. Packaged'
  BY <1>1 DEF IInv, Packaged, PackedAt, FrameOf
<1>5. Framed'
  BY <1>1 DEF IInv, Framed, Held, Result
<1> QED BY <1>2, <1>3, <1>4, <1>5 DEF IInv

LEMMA Kept ==
  Spec => []IInv
<1>1. Init => IInv
  BY IInvInit
<1>2. IInv /\ [Next]_vars => IInv'
  <2> SUFFICES ASSUME IInv, [Next]_vars PROVE IInv'
    OBVIOUS
  <2>1. ASSUME NEW s \in System, NEW id \in Ids, NEW t \in Types, Register(s, id, t) PROVE IInv'
    BY <2>1, RegisterStep
  <2>2. CASE Start
    BY <2>2, StartStep
  <2>3. ASSUME NEW e \in Envelopes, Accept(e) PROVE IInv'
    BY <2>3, AcceptStep
  <2>4. ASSUME NEW e \in Envelopes, Refuse(e) PROVE IInv'
    BY <2>4, RefuseStep
  <2>5. CASE Receive
    BY <2>5, ReceiveStep
  <2>6. CASE Split
    BY <2>6, SplitStep
  <2>7. CASE UNCHANGED vars
    <3>1. UNCHANGED <<rcv, started, reg, registered, sent, refused, frames, stream,
                      buf, receiver, handled, closed, socketOpen>>
      BY <2>7 DEF vars, sendVars, receiveVars
    <3>2. Typed' /\ Known' /\ Framed'
      BY <3>1 DEF IInv, Typed, Known, KnownTo, Framed, Held, Result
    <3>3. Packaged'
      BY <3>1 DEF IInv, Packaged, PackedAt, FrameOf
    <3> QED BY <3>2, <3>3 DEF IInv
  <2>8. CASE CloseSocket
    BY <2>8, CloseSocketStep
  <2> QED BY <2>1, <2>2, <2>3, <2>4, <2>5, <2>6, <2>7, <2>8 DEF Next
<1> QED BY <1>1, <1>2, PTL DEF Spec

-----------------------------------------------------------------------------
(* Codec: what comes back of a package.                                    *)

LEMMA Outcomes ==
  /\ \A v : Succeeded(Done(v)) /\ Done(v).val = v /\ Value(Done(v)) = v
  /\ \A c \in 101 .. 105 : ~Succeeded(Failed(c)) /\ Failed(c).err = c
  /\ ~Succeeded(Failed(DecodeError))
BY CodecAssumption DEF Succeeded, Done, Failed, Value

LEMMA RefBack ==
  ASSUME NEW ref \in AnyRef
  PROVE  ActorRefFromProto(ActorRefToProto(ref)) = ref /\ (ref = NoRef \/ ref.ActorId # Broken => ActorRefToProto(ref) \in Ref)
<1>1. CASE ref = NoRef
  BY <1>1 DEF ActorRefFromProto, ActorRefToProto, Ref
<1>2. CASE ref # NoRef
  <2>1. ref \in [SystemId : Nat, GroupSlot : Nat, ActorType : Nat, ActorId : STRING \cup {Broken}]
    BY <1>2 DEF AnyRef
  <2>2. ref = [SystemId |-> ref.SystemId, GroupSlot |-> ref.GroupSlot,
               ActorType |-> ref.ActorType, ActorId |-> ref.ActorId]
    BY <2>1
  <2>3. ActorRefToProto(ref) = ref
    BY <1>2, <2>2 DEF ActorRefToProto
  <2>4. ActorRefFromProto(ref) = ref
    BY <1>2, <2>2 DEF ActorRefFromProto
  <2>5. ref.ActorId # Broken => ref \in ActorRef
    BY <2>1 DEF ActorRef
  <2> QED BY <1>2, <2>3, <2>4, <2>5 DEF Ref
<1> QED BY <1>1, <1>2

LEMMA RefsBack ==
  ASSUME NEW refs \in Seq(AnyRef)
  PROVE  /\ Map(Map(refs, ActorRefToProto), ActorRefFromProto) = refs
         /\ (\A i \in DOMAIN refs : refs[i] = NoRef \/ refs[i].ActorId # Broken)
              => Map(refs, ActorRefToProto) \in Seq(Ref)
<1>1. DOMAIN refs = 1 .. Len(refs) /\ Len(refs) \in Nat /\ \A i \in 1 .. Len(refs) : refs[i] \in AnyRef
  BY LenProperties, ElementOfSeq
<1>2. \A i \in DOMAIN refs : ActorRefFromProto(ActorRefToProto(refs[i])) = refs[i]
  BY <1>1, RefBack
<1>3. Map(Map(refs, ActorRefToProto), ActorRefFromProto)
        = [i \in DOMAIN refs |-> ActorRefFromProto(ActorRefToProto(refs[i]))]
  BY DEF Map
<1>4. refs = [i \in DOMAIN refs |-> refs[i]]
  BY <1>1
<1>5. ASSUME \A i \in DOMAIN refs : refs[i] = NoRef \/ refs[i].ActorId # Broken
      PROVE  Map(refs, ActorRefToProto) \in Seq(Ref)
  <2>1. \A i \in 1 .. Len(refs) : ActorRefToProto(refs[i]) \in Ref
    BY <1>1, <1>5, RefBack
  <2> QED BY <1>1, <2>1 DEF Map
<1> QED BY <1>2, <1>3, <1>4, <1>5

LEMMA ErrorBack ==
  ASSUME NEW x \in AnyError
  PROVE  errorCodeToVAError(ErrorCodeOf(x)) = x /\ ErrorCodeOf(x) \in Nat
BY CodecAssumption DEF AnyError, errorCodeToVAError, ErrorCodeOf, ErrorCodeSuccess

\* MarshalMessage says why it fails, and what it makes is a message of the package.
LEMMA Marshalled ==
  ASSUME NEW r \in Registry, NEW m \in AnyMessage
  PROVE  LET w == MarshalMessage(r, m) IN
         /\ Succeeded(w) <=> m # NoMessage /\ r.msgTypeIds[m.type] # None /\ m.body # Broken
         /\ ~Succeeded(w) => w.err \in 101 .. 105
         /\ Succeeded(w) =>
               /\ m \in Messages /\ m.type \in Types /\ m = [type |-> m.type, body |-> m.type]
               /\ r.msgTypeIds[m.type] \in Ids
               /\ w = Done([Type |-> r.msgTypeIds[m.type], Data |-> <<r.msgTypeIds[m.type], m.type>>])
               /\ Value(w) \in Message /\ Value(w) # NoMessage
<1> DEFINE w == MarshalMessage(r, m)
<1>1. CASE m = NoMessage
  BY <1>1, Outcomes DEF MarshalMessage, ErrorCodeMessageCannotSerialize
<1>2. CASE m # NoMessage
  <2>1. m \in Messages /\ m.type \in Types /\ m.body \in {m.type, Broken} /\ m = [type |-> m.type, body |-> m.body]
    BY <1>2 DEF AnyMessage, Messages
  <2> DEFINE id == r.msgTypeIds[m.type]
  <2>2. id \in Ids \cup {None}
    BY <2>1 DEF Registry
  <2> HIDE DEF id
  <2>3. w = IF id = None THEN Failed(ErrorCodeMessageNotRegister)
            ELSE IF m.body = Broken THEN Failed(ErrorCodeMessageSerializeFail)
            ELSE Done([Type |-> id, Data |-> <<id, m.body>>])
    BY <1>2 DEF MarshalMessage, id
  <2> HIDE DEF w
  <2>4. CASE id = None
    BY <1>2, <2>3, <2>4, Outcomes DEF ErrorCodeMessageNotRegister, id, w
  <2>5. CASE id # None /\ m.body = Broken
    BY <1>2, <2>3, <2>5, Outcomes DEF ErrorCodeMessageSerializeFail, id, w
  <2>6. CASE id # None /\ m.body # Broken
    <3>1. w = Done([Type |-> id, Data |-> <<id, m.type>>]) /\ id \in Ids
      BY <2>1, <2>2, <2>3, <2>6
    <3>2. [Type |-> id, Data |-> <<id, m.type>>] \in Message
      BY <2>1, <3>1 DEF Message
    <3>3. Succeeded(w) /\ Value(w) \in Message /\ Value(w) # NoMessage
      BY <3>1, <3>2, Outcomes, NilAssumption
    <3> QED BY <1>2, <2>1, <2>6, <3>1, <3>3 DEF id, w
  <2> QED BY <2>4, <2>5, <2>6
<1> QED BY <1>1, <1>2

\* An envelope with one message, when the message can be marshalled and when not:
\* whatever the receiving system makes of the message, the rest is as it was.
WithMessage(e, m) == [e EXCEPT !.Message = m]
Comes(o, e, w, p) ==
    LET u == UnmarshalMessage(o, Value(w)) IN
    OnMessage(o, PkgType[e.kind], p.val) =
        IF Succeeded(u) THEN Done(WithMessage(e, Value(u))) ELSE u
Carried(r, o, e) ==
    LET w == MarshalMessage(r, e.Message)
        p == Encoded(r, e)
    IN  /\ ~Succeeded(w) => p = w
        /\ Succeeded(w) => /\ Succeeded(p) /\ Comes(o, e, w, p)
                           /\ Serializable(e) => p.val \in PkgOf(PkgType[e.kind])

LEMMA SendCarried ==
  ASSUME NEW r \in Registry, NEW o, NEW e \in EnvelopeOf.EnvelopeSend
  PROVE  Carried(r, o, e)
<1> DEFINE w == MarshalMessage(r, e.Message)
           u == UnmarshalMessage(o, Value(w))
           from == e.FromActorRef
           to == e.ToActorRef
<1>1. /\ from \in AnyRef /\ to \in AnyRef /\ e.Message \in AnyMessage /\ e.kind = "EnvelopeSend"
      /\ \A x : WithMessage(e, x) = [kind |-> "EnvelopeSend", FromActorRef |-> from, ToActorRef |-> to,
                                     Message |-> x]
      /\ DOMAIN e = {"kind", "FromActorRef", "ToActorRef", "Message"}
  BY DEF EnvelopeOf, WithMessage
<1> DEFINE pkg == [FromActorRef |-> ActorRefToProto(from), ToActorRef |-> ActorRefToProto(to),
                   Message |-> Value(w)]
<1>2. Encoded(r, e) = IF Succeeded(w) THEN Done(pkg) ELSE w
  BY <1>1 DEF Encoded, SendEnvelope, Package
<1>3. ASSUME Succeeded(w) PROVE Comes(o, e, w, Done(pkg))
  <2>1. Done(pkg).val = pkg /\ PkgType[e.kind] = 1
    BY <1>1, Outcomes DEF PkgType
  <2>2. OnMessage(o, 1, pkg) = OnEnvelopeSend(o, pkg)
    BY DEF OnMessage, PkgType
  <2>3. OnEnvelopeSend(o, pkg) = IF Succeeded(u) THEN Done(WithMessage(e, Value(u))) ELSE u
    <3> HIDE DEF w, from, to
    <3> QED BY <1>1, RefBack DEF OnEnvelopeSend, Envelope
  <2> QED BY <2>1, <2>2, <2>3 DEF Comes
<1>4. ASSUME Succeeded(w), Serializable(e) PROVE pkg \in PkgOf(PkgType[e.kind])
  <2>1. Value(w) \in Message
    BY <1>1, <1>4, Marshalled
  <2>2. ActorRefToProto(from) \in Ref /\ ActorRefToProto(to) \in Ref
    BY <1>1, <1>4, RefBack DEF Serializable, RefsOf
  <2>3. PkgOf(PkgType[e.kind]) = PkgEnvelopeSend
    BY <1>1 DEF PkgOf, PkgType
  <2> QED BY <2>1, <2>2, <2>3 DEF PkgEnvelopeSend
<1> HIDE DEF w, pkg
<1> QED BY <1>2, <1>3, <1>4, Outcomes DEF Carried, w

LEMMA RequestAsyncCarried ==
  ASSUME NEW r \in Registry, NEW o, NEW e \in EnvelopeOf.EnvelopeRequestAsync
  PROVE  Carried(r, o, e)
<1> DEFINE w == MarshalMessage(r, e.Message)
           u == UnmarshalMessage(o, Value(w))
           from == e.FromActorRef
           to == e.ToActorRef
<1>1. /\ from \in AnyRef /\ to \in AnyRef /\ e.Message \in AnyMessage /\ e.kind = "EnvelopeRequestAsync"
      /\ e.CallbackId \in Nat /\ e.CallbackAddress \in Nat
      /\ \A x : WithMessage(e, x) =
            [kind |-> "EnvelopeRequestAsync", FromActorRef |-> from, ToActorRef |-> to,
             CallbackId |-> e.CallbackId, CallbackAddress |-> e.CallbackAddress,
             Message |-> x]
      /\ DOMAIN e = {"kind", "FromActorRef", "ToActorRef", "Message", "CallbackId", "CallbackAddress"}
  BY DEF EnvelopeOf, WithMessage
<1> DEFINE pkg == [FromActorRef |-> ActorRefToProto(from),
                   ToActorRef |-> ActorRefToProto(to), CallbackId |-> e.CallbackId,
                   CallbackAddress |-> e.CallbackAddress, Message |-> Value(w)]
<1>2. Encoded(r, e) = IF Succeeded(w) THEN Done(pkg) ELSE w
  BY <1>1 DEF Encoded, SendRequestAsync, Package
<1>3. ASSUME Succeeded(w) PROVE Comes(o, e, w, Done(pkg))
  <2>1. Done(pkg).val = pkg /\ PkgType[e.kind] = 3
    BY <1>1, Outcomes DEF PkgType
  <2>2. OnMessage(o, 3, pkg) = OnRequestAsync(o, pkg)
    BY DEF OnMessage, PkgType
  <2>3. OnRequestAsync(o, pkg) = IF Succeeded(u) THEN Done(WithMessage(e, Value(u))) ELSE u
    <3> HIDE DEF w, from, to
    <3> QED BY <1>1, RefBack DEF OnRequestAsync, Envelope
  <2> QED BY <2>1, <2>2, <2>3 DEF Comes
<1>4. ASSUME Succeeded(w), Serializable(e) PROVE pkg \in PkgOf(PkgType[e.kind])
  <2>1. Value(w) \in Message
    BY <1>1, <1>4, Marshalled
  <2>2. ActorRefToProto(from) \in Ref /\ ActorRefToProto(to) \in Ref
    BY <1>1, <1>4, RefBack DEF Serializable, RefsOf
  <2>3. PkgOf(PkgType[e.kind]) = PkgEnvelopeRequestAsync
    BY <1>1 DEF PkgOf, PkgType
  <2> QED BY <1>1, <2>1, <2>2, <2>3 DEF PkgEnvelopeRequestAsync
<1> HIDE DEF w, pkg
<1> QED BY <1>2, <1>3, <1>4, Outcomes DEF Carried, w

LEMMA ResponseAsyncCarried ==
  ASSUME NEW r \in Registry, NEW o, NEW e \in EnvelopeOf.EnvelopeResponseAsync
  PROVE  Carried(r, o, e)
<1> DEFINE w == MarshalMessage(r, e.Message)
           u == UnmarshalMessage(o, Value(w))
           from == e.FromActorRef
           to == e.ToActorRef
           err == e.Error
<1>1. /\ from \in AnyRef /\ to \in AnyRef /\ e.Message \in AnyMessage /\ e.kind = "EnvelopeResponseAsync"
      /\ err \in AnyError /\ e.CallbackId \in Nat /\ e.CallbackAddress \in Nat
      /\ \A x : WithMessage(e, x) =
            [kind |-> "EnvelopeResponseAsync", FromActorRef |-> from, ToActorRef |-> to, Error |-> err,
             CallbackId |-> e.CallbackId, CallbackAddress |-> e.CallbackAddress,
             Message |-> x]
      /\ DOMAIN e = {"kind", "FromActorRef", "ToActorRef", "Message", "Error", "CallbackId", "CallbackAddress"}
  BY DEF EnvelopeOf, WithMessage
<1> DEFINE pkg == [FromActorRef |-> ActorRefToProto(from),
                   ToActorRef |-> ActorRefToProto(to), CallbackId |-> e.CallbackId,
                   CallbackAddress |-> e.CallbackAddress,
                   Response |-> [ErrorCode |-> ErrorCodeOf(err), Message |-> Value(w)]]
<1>2. Encoded(r, e) = IF Succeeded(w) THEN Done(pkg) ELSE w
  BY <1>1 DEF Encoded, SendResponseAsync, Package
<1>3. ASSUME Succeeded(w) PROVE Comes(o, e, w, Done(pkg))
  <2>1. Done(pkg).val = pkg /\ PkgType[e.kind] = 4
    BY <1>1, Outcomes DEF PkgType
  <2>2. OnMessage(o, 4, pkg) = OnResponseAsync(o, pkg)
    BY DEF OnMessage, PkgType
  <2>3. OnResponseAsync(o, pkg) = IF Succeeded(u) THEN Done(WithMessage(e, Value(u))) ELSE u
    <3>1. Value(w) # NoMessage
      BY <1>1, <1>3, Marshalled
    <3>2. ResponseMessage(o, pkg.Response) = u
      BY <3>1 DEF ResponseMessage
    <3>3. pkg.Response.ErrorCode = ErrorCodeOf(err)
      OBVIOUS
    <3> HIDE DEF w, u, from, to, err
    <3> QED BY <1>1, <3>2, <3>3, RefBack, ErrorBack DEF OnResponseAsync, Envelope
  <2> QED BY <2>1, <2>2, <2>3 DEF Comes
<1>4. ASSUME Succeeded(w), Serializable(e) PROVE pkg \in PkgOf(PkgType[e.kind])
  <2>1. Value(w) \in Message
    BY <1>1, <1>4, Marshalled
  <2>2. ActorRefToProto(from) \in Ref /\ ActorRefToProto(to) \in Ref
    BY <1>1, <1>4, RefBack DEF Serializable, RefsOf
  <2>3. [ErrorCode |-> ErrorCodeOf(err), Message |-> Value(w)] \in Response
    BY <1>1, <2>1, ErrorBack DEF Response
  <2>4. PkgOf(PkgType[e.kind]) = PkgEnvelopeResponseAsync
    BY <1>1 DEF PkgOf, PkgType
  <2> HIDE DEF w, from, to, err
  <2> QED BY <1>1, <2>1, <2>2, <2>3, <2>4 DEF PkgEnvelopeResponseAsync
<1> HIDE DEF w, pkg
<1> QED BY <1>2, <1>3, <1>4, Outcomes DEF Carried, w

LEMMA RequestCarried ==
  ASSUME NEW r \in Registry, NEW o, NEW e \in EnvelopeOf.EnvelopeRequest
  PROVE  Carried(r, o, e)
<1> DEFINE w == MarshalMessage(r, e.Message)
           u == UnmarshalMessage(o, Value(w))
           from == e.FromActorRef
           to == e.ToActorRef
<1>1. /\ from \in AnyRef /\ to \in AnyRef /\ e.Message \in AnyMessage /\ e.kind = "EnvelopeRequest"
      /\ e.RequestId \in Nat
      /\ \A x : WithMessage(e, x) =
            [kind |-> "EnvelopeRequest", FromActorRef |-> from, ToActorRef |-> to, RequestId |-> e.RequestId,
             Message |-> x]
      /\ DOMAIN e = {"kind", "FromActorRef", "ToActorRef", "Message", "RequestId"}
  BY DEF EnvelopeOf, WithMessage
<1> DEFINE pkg == [FromActorRef |-> ActorRefToProto(from),
                   ToActorRef |-> ActorRefToProto(to), RequestId |-> e.RequestId,
                   Message |-> Value(w)]
<1>2. Encoded(r, e) = IF Succeeded(w) THEN Done(pkg) ELSE w
  BY <1>1 DEF Encoded, SendRequest, Package
<1>3. ASSUME Succeeded(w) PROVE Comes(o, e, w, Done(pkg))
  <2>1. Done(pkg).val = pkg /\ PkgType[e.kind] = 5
    BY <1>1, Outcomes DEF PkgType
  <2>2. OnMessage(o, 5, pkg) = OnRequest(o, pkg)
    BY DEF OnMessage, PkgType
  <2>3. OnRequest(o, pkg) = IF Succeeded(u) THEN Done(WithMessage(e, Value(u))) ELSE u
    <3> HIDE DEF w, from, to
    <3> QED BY <1>1, RefBack DEF OnRequest, Envelope
  <2> QED BY <2>1, <2>2, <2>3 DEF Comes
<1>4. ASSUME Succeeded(w), Serializable(e) PROVE pkg \in PkgOf(PkgType[e.kind])
  <2>1. Value(w) \in Message
    BY <1>1, <1>4, Marshalled
  <2>2. ActorRefToProto(from) \in Ref /\ ActorRefToProto(to) \in Ref
    BY <1>1, <1>4, RefBack DEF Serializable, RefsOf
  <2>3. PkgOf(PkgType[e.kind]) = PkgEnvelopeRequest
    BY <1>1 DEF PkgOf, PkgType
  <2> QED BY <1>1, <2>1, <2>2, <2>3 DEF PkgEnvelopeRequest
<1> HIDE DEF w, pkg
<1> QED BY <1>2, <1>3, <1>4, Outcomes DEF Carried, w

LEMMA ResponseCarried ==
  ASSUME NEW r \in Registry, NEW o, NEW e \in EnvelopeOf.EnvelopeResponse
  PROVE  Carried(r, o, e)
<1> DEFINE w == MarshalMessage(r, e.Message)
           u == UnmarshalMessage(o, Value(w))
           from == e.FromActorRef
           to == e.ToActorRef
           err == e.Error
<1>1. /\ from \in AnyRef /\ to \in AnyRef /\ e.Message \in AnyMessage /\ e.kind = "EnvelopeResponse"
      /\ err \in AnyError /\ e.RequestId \in Nat
      /\ \A x : WithMessage(e, x) =
            [kind |-> "EnvelopeResponse", FromActorRef |-> from, ToActorRef |-> to, Error |-> err,
             RequestId |-> e.RequestId, Message |-> x]
      /\ DOMAIN e = {"kind", "FromActorRef", "ToActorRef", "Message", "Error", "RequestId"}
  BY DEF EnvelopeOf, WithMessage
<1> DEFINE pkg == [FromActorRef |-> ActorRefToProto(from),
                   ToActorRef |-> ActorRefToProto(to), RequestId |-> e.RequestId,
                   Response |-> [ErrorCode |-> ErrorCodeOf(err), Message |-> Value(w)]]
<1>2. Encoded(r, e) = IF Succeeded(w) THEN Done(pkg) ELSE w
  BY <1>1 DEF Encoded, SendResponse, Package
<1>3. ASSUME Succeeded(w) PROVE Comes(o, e, w, Done(pkg))
  <2>1. Done(pkg).val = pkg /\ PkgType[e.kind] = 6
    BY <1>1, Outcomes DEF PkgType
  <2>2. OnMessage(o, 6, pkg) = OnResponse(o, pkg)
    BY DEF OnMessage, PkgType
  <2>3. OnResponse(o, pkg) = IF Succeeded(u) THEN Done(WithMessage(e, Value(u))) ELSE u
    <3>1. Value(w) # NoMessage
      BY <1>1, <1>3, Marshalled
    <3>2. ResponseMessage(o, pkg.Response) = u
      BY <3>1 DEF ResponseMessage
    <3>3. pkg.Response.ErrorCode = ErrorCodeOf(err)
      OBVIOUS
    <3> HIDE DEF w, u, from, to, err
    <3> QED BY <1>1, <3>2, <3>3, RefBack, ErrorBack DEF OnResponse, Envelope
  <2> QED BY <2>1, <2>2, <2>3 DEF Comes
<1>4. ASSUME Succeeded(w), Serializable(e) PROVE pkg \in PkgOf(PkgType[e.kind])
  <2>1. Value(w) \in Message
    BY <1>1, <1>4, Marshalled
  <2>2. ActorRefToProto(from) \in Ref /\ ActorRefToProto(to) \in Ref
    BY <1>1, <1>4, RefBack DEF Serializable, RefsOf
  <2>3. [ErrorCode |-> ErrorCodeOf(err), Message |-> Value(w)] \in Response
    BY <1>1, <2>1, ErrorBack DEF Response
  <2>4. PkgOf(PkgType[e.kind]) = PkgEnvelopeResponse
    BY <1>1 DEF PkgOf, PkgType
  <2> HIDE DEF w, from, to, err
  <2> QED BY <1>1, <2>1, <2>2, <2>3, <2>4 DEF PkgEnvelopeResponse
<1> HIDE DEF w, pkg
<1> QED BY <1>2, <1>3, <1>4, Outcomes DEF Carried, w

LEMMA NotifyCarried ==
  ASSUME NEW r \in Registry, NEW o, NEW e \in EnvelopeOf.EnvelopeNotify
  PROVE  Carried(r, o, e)
<1> DEFINE w == MarshalMessage(r, e.Message)
           u == UnmarshalMessage(o, Value(w))
           from == e.FromActorRef
           to == e.ToActorRefs
           about == e.ActorRef
<1>1. /\ from \in AnyRef /\ to \in Seq(AnyRef) /\ e.Message \in AnyMessage /\ e.kind = "EnvelopeNotify"
      /\ about \in AnyRef /\ e.NotifyType \in Nat /\ e.WatchType \in Nat
      /\ \A x : WithMessage(e, x) =
            [kind |-> "EnvelopeNotify", FromActorRef |-> from, ToActorRefs |-> to, ActorRef |-> about,
             NotifyType |-> e.NotifyType, WatchType |-> e.WatchType, Message |-> x]
      /\ DOMAIN e = {"kind", "FromActorRef", "ToActorRefs", "Message", "ActorRef", "NotifyType", "WatchType"}
  BY DEF EnvelopeOf, WithMessage
<1> DEFINE pkg == [FromActorRef |-> ActorRefToProto(from),
                   ToActorRefs |-> Map(to, ActorRefToProto),
                   ActorRef |-> ActorRefToProto(about), NotifyType |-> e.NotifyType,
                   WatchType |-> e.WatchType, Message |-> Value(w)]
<1>2. Encoded(r, e) = IF Succeeded(w) THEN Done(pkg) ELSE w
  BY <1>1 DEF Encoded, SendNotify, Package
<1>3. ASSUME Succeeded(w) PROVE Comes(o, e, w, Done(pkg))
  <2>1. Done(pkg).val = pkg /\ PkgType[e.kind] = 8
    BY <1>1, Outcomes DEF PkgType
  <2>2. OnMessage(o, 8, pkg) = OnNotify(o, pkg)
    BY DEF OnMessage, PkgType
  <2>3. OnNotify(o, pkg) = IF Succeeded(u) THEN Done(WithMessage(e, Value(u))) ELSE u
    <3>1. Map(Map(to, ActorRefToProto), ActorRefFromProto) = to
      BY <1>1, RefsBack
    <3> HIDE DEF w, from, to, about
    <3> QED BY <1>1, <3>1, RefBack DEF OnNotify, Envelope
  <2> QED BY <2>1, <2>2, <2>3 DEF Comes
<1>4. ASSUME Succeeded(w), Serializable(e) PROVE pkg \in PkgOf(PkgType[e.kind])
  <2>1. Value(w) \in Message
    BY <1>1, <1>4, Marshalled
  <2>2. ActorRefToProto(from) \in Ref /\ ActorRefToProto(about) \in Ref
    BY <1>1, <1>4, RefBack DEF Serializable, RefsOf
  <2>3. Map(to, ActorRefToProto) \in Seq(Ref)
    BY <1>1, <1>4, RefsBack DEF Serializable, RefsOf
  <2>4. PkgOf(PkgType[e.kind]) = PkgEnvelopeNotify
    BY <1>1 DEF PkgOf, PkgType
  <2> QED BY <1>1, <2>1, <2>2, <2>3, <2>4 DEF PkgEnvelopeNotify
<1> HIDE DEF w, pkg
<1> QED BY <1>2, <1>3, <1>4, Outcomes DEF Carried, w

LEMMA FireNotifyCarried ==
  ASSUME NEW r \in Registry, NEW o, NEW e \in EnvelopeOf.EnvelopeFireNotify
  PROVE  Carried(r, o, e)
<1> DEFINE w == MarshalMessage(r, e.Message)
           u == UnmarshalMessage(o, Value(w))
           from == e.FromActorRef
           to == e.ToActorRef
<1>1. /\ from \in AnyRef /\ to \in AnyRef /\ e.Message \in AnyMessage /\ e.kind = "EnvelopeFireNotify"
      /\ e.NotifyType \in Nat /\ e.WatchType \in Nat
      /\ \A x : WithMessage(e, x) =
            [kind |-> "EnvelopeFireNotify", FromActorRef |-> from, ToActorRef |-> to,
             NotifyType |-> e.NotifyType, WatchType |-> e.WatchType, Message |-> x]
      /\ DOMAIN e = {"kind", "FromActorRef", "ToActorRef", "Message", "NotifyType", "WatchType"}
  BY DEF EnvelopeOf, WithMessage
<1> DEFINE pkg == [FromActorRef |-> ActorRefToProto(from),
                   ToActorRef |-> ActorRefToProto(to), NotifyType |-> e.NotifyType,
                   WatchType |-> e.WatchType, Message |-> Value(w)]
<1>2. Encoded(r, e) = IF Succeeded(w) THEN Done(pkg) ELSE w
  BY <1>1 DEF Encoded, SendFireNotify, Package
<1>3. ASSUME Succeeded(w) PROVE Comes(o, e, w, Done(pkg))
  <2>1. Done(pkg).val = pkg /\ PkgType[e.kind] = 9
    BY <1>1, Outcomes DEF PkgType
  <2>2. OnMessage(o, 9, pkg) = OnFireNotify(o, pkg)
    BY DEF OnMessage, PkgType
  <2>3. OnFireNotify(o, pkg) = IF Succeeded(u) THEN Done(WithMessage(e, Value(u))) ELSE u
    <3> HIDE DEF w, from, to
    <3> QED BY <1>1, RefBack DEF OnFireNotify, Envelope
  <2> QED BY <2>1, <2>2, <2>3 DEF Comes
<1>4. ASSUME Succeeded(w), Serializable(e) PROVE pkg \in PkgOf(PkgType[e.kind])
  <2>1. Value(w) \in Message
    BY <1>1, <1>4, Marshalled
  <2>2. ActorRefToProto(from) \in Ref /\ ActorRefToProto(to) \in Ref
    BY <1>1, <1>4, RefBack DEF Serializable, RefsOf
  <2>3. PkgOf(PkgType[e.kind]) = PkgEnvelopeFireNotify
    BY <1>1 DEF PkgOf, PkgType
  <2> QED BY <1>1, <2>1, <2>2, <2>3 DEF PkgEnvelopeFireNotify
<1> HIDE DEF w, pkg
<1> QED BY <1>2, <1>3, <1>4, Outcomes DEF Carried, w

-----------------------------------------------------------------------------
(* Selection: the positions of a set in their order.                       *)

LEMMA RankTyped ==
  ASSUME NEW n \in Nat, NEW K \in SUBSET (1 .. n), NEW i \in Nat
  PROVE  /\ IsFiniteSet(K) /\ Cardinality(K) \in Nat
         /\ IsFiniteSet(K \cap (1 .. i)) /\ Rank(K, i) \in 0 .. Cardinality(K)
<1>1. IsFiniteSet(1 .. n)
  BY FS_Interval
<1>2. IsFiniteSet(K)
  BY <1>1, FS_Subset
<1>3. Cardinality(K) \in Nat
  BY <1>2, FS_CardinalityType
<1>4. IsFiniteSet(K \cap (1 .. i)) /\ Cardinality(K \cap (1 .. i)) <= Cardinality(K)
  BY <1>2, FS_Intersection
<1>5. Cardinality(K \cap (1 .. i)) \in Nat
  BY <1>4, FS_CardinalityType
<1> QED BY <1>2, <1>3, <1>4, <1>5 DEF Rank

LEMMA RankGrows ==
  ASSUME NEW n \in Nat, NEW K \in SUBSET (1 .. n), NEW i \in K, NEW j \in K, i < j
  PROVE  Rank(K, i) < Rank(K, j)
<1> DEFINE S == K \cap (1 .. i)
           T == K \cap (1 .. j)
<1>1. i \in Nat /\ j \in Nat
  OBVIOUS
<1>2. S \in SUBSET T /\ j \in T /\ j \notin S
  BY <1>1
<1>3. IsFiniteSet(S) /\ IsFiniteSet(T)
  BY <1>1, RankTyped
<1>4. Cardinality(S) \in Nat /\ Cardinality(T) \in Nat
  BY <1>3, FS_CardinalityType
<1> HIDE DEF S, T
<1>5. Cardinality(S) <= Cardinality(T) /\ (Cardinality(T) = Cardinality(S) => T = S)
  BY <1>2, <1>3, FS_Subset
<1>6. Cardinality(S) < Cardinality(T)
  BY <1>2, <1>4, <1>5
<1> QED BY <1>6 DEF Rank, S, T

\* The ranks of the positions are 1, 2, ... and Nth finds the position of each.
LEMMA NthRank ==
  ASSUME NEW n \in Nat, NEW K \in SUBSET (1 .. n)
  PROVE  /\ \A i \in K : Rank(K, i) \in 1 .. Cardinality(K) /\ Nth(K, Rank(K, i)) = i
         /\ \A j \in 1 .. Cardinality(K) : Nth(K, j) \in K /\ Rank(K, Nth(K, j)) = j
<1> DEFINE c == Cardinality(K)
           f == [i \in K |-> Rank(K, i)]
<1>1. IsFiniteSet(K) /\ c \in Nat
  BY RankTyped
<1>2. ASSUME NEW i \in K PROVE Rank(K, i) \in 1 .. c
  <2>1. i \in Nat /\ i \in K \cap (1 .. i)
    OBVIOUS
  <2>2. IsFiniteSet(K \cap (1 .. i)) /\ Rank(K, i) \in 0 .. c
    BY <2>1, RankTyped
  <2>3. Rank(K, i) # 0
    BY <2>1, <2>2, FS_EmptySet DEF Rank
  <2> QED BY <1>1, <2>2, <2>3
<1>3. \A i, j \in K : Rank(K, i) = Rank(K, j) => i = j
  <2> SUFFICES ASSUME NEW i \in K, NEW j \in K, Rank(K, i) = Rank(K, j) PROVE i = j
    OBVIOUS
  <2>1. i \in Nat /\ j \in Nat
    OBVIOUS
  <2>2. Rank(K, i) \in Nat /\ Rank(K, j) \in Nat
    BY <1>2
  <2>3. ~(i < j)
    <3> SUFFICES ASSUME i < j PROVE FALSE
      OBVIOUS
    <3>1. Rank(K, i) < Rank(K, j)
      BY RankGrows
    <3> QED BY <2>2, <3>1
  <2>4. ~(j < i)
    <3> SUFFICES ASSUME j < i PROVE FALSE
      OBVIOUS
    <3>1. Rank(K, j) < Rank(K, i)
      BY RankGrows
    <3> QED BY <2>2, <3>1
  <2> QED BY <2>1, <2>3, <2>4
<1>4. ASSUME NEW j \in 1 .. c PROVE \E i \in K : Rank(K, i) = j
  <2>1. f \in Injection(K, 1 .. c)
    BY <1>2, <1>3 DEF Injection, IsInjective
  <2>2. IsFiniteSet(1 .. c) /\ Cardinality(1 .. c) = c
    BY <1>1, FS_Interval
  <2>3. f \in Surjection(K, 1 .. c)
    <3> HIDE DEF f
    <3>1. Cardinality(K) = Cardinality(1 .. c)
      BY <2>2
    <3> HIDE DEF c
    <3> QED BY <2>1, <2>2, <3>1, FS_Injection
  <2>4. \E i \in K : f[i] = j
    BY <2>3 DEF Surjection
  <2> QED BY <2>4
<1>5. ASSUME NEW j \in 1 .. c PROVE Nth(K, j) \in K /\ Rank(K, Nth(K, j)) = j
  BY <1>4 DEF Nth
<1>6. ASSUME NEW i \in K PROVE Nth(K, Rank(K, i)) = i
  BY <1>2, <1>3, <1>5
<1> QED BY <1>2, <1>5, <1>6

\* Picking from what was picked.
LEMMA NthOfNth ==
  ASSUME NEW n \in Nat, NEW K \in SUBSET (1 .. n), NEW B \in SUBSET (1 .. Cardinality(K))
  PROVE  LET C == {Nth(K, j) : j \in B} IN
         /\ C \in SUBSET (1 .. n) /\ Cardinality(C) = Cardinality(B)
         /\ \A k \in 1 .. Cardinality(B) : Nth(C, k) = Nth(K, Nth(B, k))
<1> DEFINE C == {Nth(K, j) : j \in B}
<1>1. /\ \A i \in K : Rank(K, i) \in 1 .. Cardinality(K) /\ Nth(K, Rank(K, i)) = i
      /\ \A j \in 1 .. Cardinality(K) : Nth(K, j) \in K /\ Rank(K, Nth(K, j)) = j
  BY NthRank
<1>2. \A j \in B : Nth(K, j) \in K /\ Rank(K, Nth(K, j)) = j /\ Nth(K, j) \in C
  BY <1>1
<1>3. Cardinality(K) \in Nat
  BY RankTyped
<1>4. IsFiniteSet(B)
  BY <1>3, RankTyped
<1>5. C \in SUBSET (1 .. n)
  BY <1>2
<1>6. ASSUME NEW i \in B, NEW j \in B PROVE Nth(K, i) <= Nth(K, j) <=> i <= j
  <2>1. i \in Nat /\ j \in Nat /\ Nth(K, i) \in Nat /\ Nth(K, j) \in Nat
    BY <1>2, <1>3
  <2>2. Nth(K, i) < Nth(K, j) => i < j
    <3> SUFFICES ASSUME Nth(K, i) < Nth(K, j) PROVE i < j
      OBVIOUS
    <3>1. Nth(K, i) \in K /\ Nth(K, j) \in K
      BY <1>2
    <3>2. Rank(K, Nth(K, i)) < Rank(K, Nth(K, j))
      BY <3>1, RankGrows
    <3> QED BY <1>2, <3>2
  <2>3. Nth(K, j) < Nth(K, i) => j < i
    <3> SUFFICES ASSUME Nth(K, j) < Nth(K, i) PROVE j < i
      OBVIOUS
    <3>1. Nth(K, i) \in K /\ Nth(K, j) \in K
      BY <1>2
    <3>2. Rank(K, Nth(K, j)) < Rank(K, Nth(K, i))
      BY <3>1, RankGrows
    <3> QED BY <1>2, <3>2
  <2>4. Nth(K, i) = Nth(K, j) => i = j
    BY <1>2
  <2> QED BY <2>1, <2>2, <2>3, <2>4
<1>7. \A i, j \in B : Nth(K, i) = Nth(K, j) => i = j
  BY <1>2
<1>8. ASSUME NEW D \in SUBSET B
      PROVE  Cardinality({Nth(K, j) : j \in D}) = Cardinality(D)
  <2> DEFINE E == {Nth(K, j) : j \in D}
             g == [j \in D |-> Nth(K, j)]
  <2>1. IsFiniteSet(D)
    BY <1>4, FS_Subset
  <2>2. g \in Bijection(D, E)
    BY <1>7 DEF Bijection, Injection, Surjection, IsInjective
  <2>3. ExistsBijection(D, E)
    BY <2>2 DEF ExistsBijection
  <2> HIDE DEF E
  <2>4. Cardinality(E) = Cardinality(D)
    BY <2>1, <2>3, FS_Bijection
  <2> QED BY <2>4 DEF E
<1>9. Cardinality(C) = Cardinality(B)
  BY <1>8
<1>10. ASSUME NEW j \in B PROVE Rank(C, Nth(K, j)) = Rank(B, j)
  <2> DEFINE D == B \cap (1 .. j)
  <2>1. C \cap (1 .. Nth(K, j)) = {Nth(K, i) : i \in D}
    <3>1. ASSUME NEW i \in B PROVE Nth(K, i) \in 1 .. Nth(K, j) <=> i \in 1 .. j
      <4>1. Nth(K, i) \in 1 .. n /\ Nth(K, j) \in 1 .. n /\ i \in 1 .. Cardinality(K) /\ j \in 1 .. Cardinality(K)
        BY <1>2
      <4> QED BY <1>3, <1>6, <4>1
    <3> QED BY <3>1
  <2>2. D \in SUBSET B
    OBVIOUS
  <2>3. Cardinality({Nth(K, i) : i \in D}) = Cardinality(D)
    BY <1>8, <2>2
  <2> QED BY <2>1, <2>3 DEF Rank
<1>11. ASSUME NEW k \in 1 .. Cardinality(B) PROVE Nth(C, k) = Nth(K, Nth(B, k))
  <2>1. Nth(B, k) \in B /\ Rank(B, Nth(B, k)) = k
    BY <1>3, NthRank
  <2> DEFINE j == Nth(B, k)
             c == Nth(K, j)
  <2>2. Rank(C, c) = k /\ c \in C
    BY <1>2, <1>10, <2>1
  <2> HIDE DEF C, c
  <2>3. Nth(C, Rank(C, c)) = c
    BY <1>5, <2>2, NthRank
  <2> QED BY <2>2, <2>3 DEF c
<1> QED BY <1>5, <1>9, <1>11

-----------------------------------------------------------------------------
(* Codec: envelopes of any kind.                                           *)

LEMMA WatchCarried ==
  ASSUME NEW r, NEW o, NEW e \in EnvelopeOf.EnvelopeWatch
  PROVE  LET p == Encoded(r, e) IN
         /\ Succeeded(p) /\ OnMessage(o, PkgType[e.kind], p.val) = Done(e)
         /\ Serializable(e) => p.val \in PkgOf(PkgType[e.kind])
<1> DEFINE from == e.FromActorRef
           to == e.ToActorRef
<1>1. /\ from \in AnyRef /\ to \in AnyRef /\ e.WatchType \in Nat /\ e.IsWatch \in BOOLEAN
      /\ e.kind = "EnvelopeWatch"
      /\ e = [kind |-> "EnvelopeWatch", FromActorRef |-> from, ToActorRef |-> to,
              WatchType |-> e.WatchType, IsWatch |-> e.IsWatch]
      /\ DOMAIN e = {"kind", "FromActorRef", "ToActorRef", "WatchType", "IsWatch"}
  BY DEF EnvelopeOf
<1> DEFINE pkg == [FromActorRef |-> ActorRefToProto(from), ToActorRef |-> ActorRefToProto(to),
                   WatchType |-> e.WatchType, IsWatch |-> e.IsWatch]
<1>2. Encoded(r, e) = Done(pkg)
  BY <1>1 DEF Encoded, SendWatch
<1>3. PkgType[e.kind] = 7 /\ OnMessage(o, 7, pkg) = OnWatch(o, pkg)
  BY <1>1 DEF OnMessage, PkgType
<1>4. OnWatch(o, pkg) = Done(e)
  <2> HIDE DEF from, to
  <2> QED BY <1>1, RefBack DEF OnWatch
<1>5. ASSUME Serializable(e) PROVE pkg \in PkgOf(PkgType[e.kind])
  <2>1. ActorRefToProto(from) \in Ref /\ ActorRefToProto(to) \in Ref
    BY <1>1, <1>5, RefBack DEF Serializable, RefsOf
  <2>2. PkgOf(PkgType[e.kind]) = PkgEnvelopeWatch
    BY <1>1 DEF PkgOf, PkgType
  <2> QED BY <1>1, <2>1, <2>2 DEF PkgEnvelopeWatch
<1> HIDE DEF pkg
<1> QED BY <1>2, <1>3, <1>4, <1>5, Outcomes

\* The messages of a batch that the sender can marshal, and of those the ones the
\* receiver can unmarshal.
Marshals(r, e) == {i \in DOMAIN e.Messages : Succeeded(MarshalMessage(r, e.Messages[i]))}
Unmarshals(r, o, e) ==
    LET A == Marshals(r, e) IN
    {j \in 1 .. Cardinality(A) :
        Succeeded(UnmarshalMessage(o, Value(MarshalMessage(r, e.Messages[Nth(A, j)]))))}
BatchMessages(r, o, e) ==
    LET A == Marshals(r, e)
        B == Unmarshals(r, o, e)
    IN  [k \in 1 .. Cardinality(B) |->
            Value(UnmarshalMessage(o, Value(MarshalMessage(r, e.Messages[Nth(A, Nth(B, k))]))))]

LEMMA BatchCarried ==
  ASSUME NEW r \in Registry, NEW o, NEW e \in EnvelopeOf.EnvelopeBatchSend
  PROVE  LET p == Encoded(r, e) IN
         /\ ~Succeeded(p) => p.err \in 101 .. 105 /\ Marshals(r, e) = {}
         /\ Succeeded(p) =>
               OnMessage(o, PkgType[e.kind], p.val) = Done([e EXCEPT !.Messages = BatchMessages(r, o, e)])
         /\ Succeeded(p) /\ Serializable(e) => p.val \in PkgOf(PkgType[e.kind])
<1> DEFINE from == e.FromActorRef
           to == e.ToActorRefs
           s == e.Messages
           A == Marshals(r, e)
           B == Unmarshals(r, o, e)
           w == [i \in DOMAIN s |-> MarshalMessage(r, s[i])]
           ok == [j \in 1 .. Cardinality(A) |-> w[Nth(A, j)]]
           ms == [j \in 1 .. Cardinality(A) |-> Value(w[Nth(A, j)])]
           u == [j \in 1 .. Cardinality(A) |-> UnmarshalMessage(o, ms[j])]
<1>1. /\ from \in AnyRef /\ to \in Seq(AnyRef) /\ s \in Seq(AnyMessage) /\ e.kind = "EnvelopeBatchSend"
      /\ \A x : [e EXCEPT !.Messages = x] =
            [kind |-> "EnvelopeBatchSend", FromActorRef |-> from, ToActorRefs |-> to, Messages |-> x]
      /\ DOMAIN e = {"kind", "FromActorRef", "ToActorRefs", "Messages"}
  BY DEF EnvelopeOf
<1>2. /\ DOMAIN s = 1 .. Len(s) /\ Len(s) \in Nat /\ \A i \in 1 .. Len(s) : s[i] \in AnyMessage
      /\ A \in SUBSET (1 .. Len(s))
  BY <1>1, LenProperties, ElementOfSeq DEF Marshals
<1>3. /\ Cardinality(A) \in Nat /\ IsFiniteSet(A)
      /\ \A j \in 1 .. Cardinality(A) : Nth(A, j) \in A
  <2> HIDE DEF A, s
  <2> QED BY <1>2, RankTyped, NthRank
<1>4. /\ A = {i \in DOMAIN w : Succeeded(w[i])}
      /\ \A i \in A : i \in DOMAIN s /\ w[i] = MarshalMessage(r, s[i]) /\ Succeeded(w[i])
  BY DEF Marshals
<1> DEFINE pkg == [FromActorRef |-> ActorRefToProto(from), ToActorRefs |-> Map(to, ActorRefToProto),
                   Messages |-> ms]
<1>5. Encoded(r, e) = IF ok = <<>> THEN Failed(ErrorCodeMessageLenError) ELSE Done(pkg)
  <2>1. Map(s, LAMBDA msg : MarshalMessage(r, msg)) = w
    BY DEF Map
  <2>2. Successes(w) = ok
    BY <1>4 DEF Successes, Sub
  <2>3. Map(ok, Value) = ms
    BY DEF Map
  <2>4. Encoded(r, e) = SendBatch(r, e)
    BY <1>1 DEF Encoded
  <2> HIDE DEF ok, w, ms
  <2> QED BY <2>1, <2>2, <2>3, <2>4 DEF SendBatch
<1>6. ASSUME ok = <<>> PROVE A = {}
  <2>1. DOMAIN ok = 1 .. Cardinality(A)
    OBVIOUS
  <2> HIDE DEF ok
  <2>2. DOMAIN ok = {}
    BY <1>6
  <2> HIDE DEF A
  <2>3. Cardinality(A) = 0
    BY <1>3, <2>1, <2>2
  <2> QED BY <1>3, <2>3, FS_EmptySet
<1>7. OnMessage(o, PkgType[e.kind], pkg) = Done([e EXCEPT !.Messages = BatchMessages(r, o, e)])
  <2>1. PkgType[e.kind] = 2 /\ OnMessage(o, 2, pkg) = OnBatchSend(o, pkg)
    BY <1>1 DEF OnMessage, PkgType
  <2>2. Map(pkg.Messages, LAMBDA m : UnmarshalMessage(o, m)) = u
    BY DEF Map
  <2>3. B = {j \in DOMAIN u : Succeeded(u[j])}
    BY <1>3, <1>4 DEF Unmarshals
  <2>4. \A k \in 1 .. Cardinality(B) : Nth(B, k) \in B
    <3>1. B \in SUBSET (1 .. Cardinality(A))
      BY DEF Unmarshals
    <3> HIDE DEF A, B
    <3> QED BY <1>3, <3>1, NthRank
  <2>5. Map(Successes(u), Value) = [k \in 1 .. Cardinality(B) |-> Value(u[Nth(B, k)])]
    <3> HIDE DEF B, u
    <3> QED BY <2>3 DEF Map, Successes, Sub
  <2>6. BatchMessages(r, o, e) = [k \in 1 .. Cardinality(B) |-> Value(u[Nth(B, k)])]
    <3>1. \A j \in 1 .. Cardinality(A) :
             u[j] = UnmarshalMessage(o, Value(MarshalMessage(r, s[Nth(A, j)])))
      BY <1>3, <1>4
    <3>2. \A j \in B : j \in 1 .. Cardinality(A)
      BY DEF Unmarshals
    <3> HIDE DEF A, B, u, w, s
    <3> QED BY <2>4, <3>1, <3>2 DEF BatchMessages, A, B, s
  <2>7. Map(Map(to, ActorRefToProto), ActorRefFromProto) = to
    BY <1>1, RefsBack
  <2>8. ActorRefFromProto(ActorRefToProto(from)) = from
    BY <1>1, RefBack
  <2>9. OnBatchSend(o, pkg) = Done([e EXCEPT !.Messages = BatchMessages(r, o, e)])
    <3>1. pkg.FromActorRef = ActorRefToProto(from) /\ pkg.ToActorRefs = Map(to, ActorRefToProto)
      OBVIOUS
    <3> HIDE DEF pkg, u, B, from, to
    <3> QED BY <1>1, <2>2, <2>5, <2>6, <2>7, <2>8, <3>1 DEF OnBatchSend
  <2> QED BY <2>1, <2>9
<1>8. ASSUME Serializable(e) PROVE pkg \in PkgOf(PkgType[e.kind])
  <2>1. ms \in Seq(Message)
    <3>1. ASSUME NEW i \in A PROVE Value(w[i]) \in Message
      BY <1>2, <1>4, Marshalled
    <3>2. \A j \in 1 .. Cardinality(A) : Value(w[Nth(A, j)]) \in Message
      BY <1>3, <3>1
    <3> HIDE DEF w, A
    <3> QED BY <1>3, <3>2
  <2>2. ActorRefToProto(from) \in Ref
    BY <1>1, <1>8, RefBack DEF Serializable, RefsOf
  <2>3. Map(to, ActorRefToProto) \in Seq(Ref)
    BY <1>1, <1>8, RefsBack DEF Serializable, RefsOf
  <2>4. PkgOf(PkgType[e.kind]) = PkgEnvelopeBatchSend
    BY <1>1 DEF PkgOf, PkgType
  <2> HIDE DEF ms
  <2> QED BY <2>1, <2>2, <2>3, <2>4 DEF PkgEnvelopeBatchSend
<1>9. ErrorCodeMessageLenError \in 101 .. 105
  BY DEF ErrorCodeMessageLenError
<1> HIDE DEF pkg, ok, A
<1> QED BY <1>5, <1>6, <1>7, <1>8, <1>9, Outcomes DEF A

-----------------------------------------------------------------------------
(* Codec and Wire: the messages that cross.                                *)

LEMMA KnownReg ==
  ASSUME Typed
  PROVE  reg["from"] \in Registry /\ reg["to"] \in Registry /\ "from" \in System /\ "to" \in System
BY DEF Typed, System

\* Unless the receiver has another type under the sender's id, a message comes
\* out of the two conversions exactly when both systems have registered its type
\* under that id, and then it is what went in.
LEMMA Crossing ==
  ASSUME Typed, Known, NEW m \in AnyMessage, ~Misread(m)
  PROVE  LET w == MarshalMessage(reg["from"], m)
             u == UnmarshalMessage(reg["to"], Value(w))
         IN  /\ Crosses(m) <=> Succeeded(w) /\ Succeeded(u)
             /\ Succeeded(w) /\ Succeeded(u) => Value(u) = m
<1> DEFINE r == reg["from"]
           o == reg["to"]
           w == MarshalMessage(r, m)
           u == UnmarshalMessage(o, Value(w))
           id == r.msgTypeIds[m.type]
<1>1. r \in Registry /\ o \in Registry
  BY KnownReg
<1>2. /\ Succeeded(w) <=> m # NoMessage /\ id # None /\ m.body # Broken
      /\ Succeeded(w) => /\ m.type \in Types /\ m = [type |-> m.type, body |-> m.type] /\ id \in Ids
                         /\ w = Done([Type |-> id, Data |-> <<id, m.type>>])
  BY <1>1, Marshalled
<1>3. None \notin Types /\ None \notin Ids /\ \A t \in Types : <<t, t>> \in Parses
  BY CodecAssumption
<1> HIDE DEF w
<1>4. Crosses(m) => Succeeded(w)
  <2> SUFFICES ASSUME Crosses(m) PROVE Succeeded(w)
    OBVIOUS
  <2>1. m # NoMessage /\ m.body # Broken /\ <<"to", id, m.type>> \in registered
    BY DEF Crosses
  <2>2. id \in Ids
    BY <2>1 DEF Typed
  <2> QED BY <1>2, <1>3, <2>1, <2>2
<1>5. ASSUME Succeeded(w)
      PROVE  /\ Succeeded(u) <=> <<"to", id, m.type>> \in registered
             /\ Succeeded(u) => Value(u) = m
  <2> DEFINE t == o.msgCreators[id]
             pkg == [Type |-> id, Data |-> <<id, m.type>>]
  <2>1. Value(w) = pkg /\ pkg.Type = id /\ Len(pkg.Data) = 2 /\ pkg.Data[2] = m.type
    BY <1>2, <1>5, Outcomes
  <2> HIDE DEF pkg
  <2>2. u = IF t = None \/ <<m.type, t>> \notin Parses THEN Failed(DecodeError)
            ELSE Done([type |-> t, body |-> m.type])
    BY <2>1 DEF UnmarshalMessage
  <2>3. id \in Ids /\ m.type \in Types /\ id # None /\ m = [type |-> m.type, body |-> m.type]
    BY <1>2, <1>5
  <2>5. t # None => <<"to", id, t>> \in registered /\ t \in Types
    BY <1>1, <2>3, KnownReg DEF Known, KnownTo, Registry
  <2>6. t # None => t = m.type
    <3> HIDE DEF t, id
    <3> SUFFICES ASSUME t # None PROVE t = m.type
      OBVIOUS
    <3> DEFINE x == <<"to", id, t>>
    <3>1. x \in registered /\ x[1] = "to" /\ x[2] = id /\ x[3] = t
      BY <2>5
    <3> HIDE DEF x
    <3>2. m # NoMessage
      BY <1>2, <1>5
    <3> QED BY <3>1, <3>2 DEF Misread, id
  <2>7. <<"to", id, m.type>> \in registered => t # None
    BY <2>3, KnownReg DEF Known, KnownTo
  <2> HIDE DEF t, u, id
  <2>8. Succeeded(u) <=> t # None /\ t = m.type
    BY <1>3, <2>2, <2>3, <2>6, Outcomes
  <2>9. Succeeded(u) => Value(u) = m
    <3> SUFFICES ASSUME Succeeded(u) PROVE Value(u) = m
      OBVIOUS
    <3>1. u = Done([type |-> m.type, body |-> m.type])
      BY <1>3, <2>2, <2>3, <2>8
    <3> QED BY <2>3, <3>1, Outcomes
  <2> QED BY <2>5, <2>6, <2>7, <2>8, <2>9
<1>6. Succeeded(w) /\ Succeeded(u) => Crosses(m)
  BY <1>2, <1>5 DEF Crosses
<1>7. Crosses(m) => Succeeded(u)
  BY <1>4, <1>5 DEF Crosses
<1> HIDE DEF u
<1> QED BY <1>4, <1>5, <1>6, <1>7 DEF w, u

\* The kinds of envelopes with one message.
MessageKinds == EnvelopeKinds \ {"EnvelopeBatchSend", "EnvelopeWatch"}

LEMMA KindsOfEnvelopes ==
  ASSUME NEW e \in Envelopes, e.kind \in EnvelopeKinds
  PROVE  /\ e.kind \in MessageKinds =>
               /\ "Message" \in DOMAIN e /\ "Messages" \notin DOMAIN e /\ e.Message \in AnyMessage
               /\ MessagesOf(e) = {e.Message} /\ WithMessage(e, e.Message) = e
               /\ \A r \in Registry : \A o : Carried(r, o, e)
         /\ e.kind = "EnvelopeWatch" =>
               e \in EnvelopeOf.EnvelopeWatch /\ MessagesOf(e) = {}
         /\ e.kind = "EnvelopeBatchSend" =>
               /\ e \in EnvelopeOf.EnvelopeBatchSend /\ "Message" \notin DOMAIN e /\ "Messages" \in DOMAIN e
               /\ e.Messages \in Seq(AnyMessage)
               /\ MessagesOf(e) = {e.Messages[i] : i \in DOMAIN e.Messages}
<1>1. e \in EnvelopeOf[e.kind]
  BY PkgTypes, WireAssumption
<1>2. CASE e.kind = "EnvelopeSend"
  <2>1. e \in EnvelopeOf.EnvelopeSend
    BY <1>1, <1>2
  <2>2. "Message" \in DOMAIN e /\ "Messages" \notin DOMAIN e /\ e.Message \in AnyMessage
        /\ WithMessage(e, e.Message) = e
    BY <2>1 DEF EnvelopeOf, WithMessage
  <2> QED BY <1>2, <2>1, <2>2, SendCarried DEF MessagesOf, MessageKinds
<1>3. CASE e.kind = "EnvelopeRequestAsync"
  <2>1. e \in EnvelopeOf.EnvelopeRequestAsync
    BY <1>1, <1>3
  <2>2. "Message" \in DOMAIN e /\ "Messages" \notin DOMAIN e /\ e.Message \in AnyMessage
        /\ WithMessage(e, e.Message) = e
    BY <2>1 DEF EnvelopeOf, WithMessage
  <2> QED BY <1>3, <2>1, <2>2, RequestAsyncCarried DEF MessagesOf, MessageKinds
<1>4. CASE e.kind = "EnvelopeResponseAsync"
  <2>1. e \in EnvelopeOf.EnvelopeResponseAsync
    BY <1>1, <1>4
  <2>2. "Message" \in DOMAIN e /\ "Messages" \notin DOMAIN e /\ e.Message \in AnyMessage
        /\ WithMessage(e, e.Message) = e
    BY <2>1 DEF EnvelopeOf, WithMessage
  <2> QED BY <1>4, <2>1, <2>2, ResponseAsyncCarried DEF MessagesOf, MessageKinds
<1>5. CASE e.kind = "EnvelopeRequest"
  <2>1. e \in EnvelopeOf.EnvelopeRequest
    BY <1>1, <1>5
  <2>2. "Message" \in DOMAIN e /\ "Messages" \notin DOMAIN e /\ e.Message \in AnyMessage
        /\ WithMessage(e, e.Message) = e
    BY <2>1 DEF EnvelopeOf, WithMessage
  <2> QED BY <1>5, <2>1, <2>2, RequestCarried DEF MessagesOf, MessageKinds
<1>6. CASE e.kind = "EnvelopeResponse"
  <2>1. e \in EnvelopeOf.EnvelopeResponse
    BY <1>1, <1>6
  <2>2. "Message" \in DOMAIN e /\ "Messages" \notin DOMAIN e /\ e.Message \in AnyMessage
        /\ WithMessage(e, e.Message) = e
    BY <2>1 DEF EnvelopeOf, WithMessage
  <2> QED BY <1>6, <2>1, <2>2, ResponseCarried DEF MessagesOf, MessageKinds
<1>7. CASE e.kind = "EnvelopeNotify"
  <2>1. e \in EnvelopeOf.EnvelopeNotify
    BY <1>1, <1>7
  <2>2. "Message" \in DOMAIN e /\ "Messages" \notin DOMAIN e /\ e.Message \in AnyMessage
        /\ WithMessage(e, e.Message) = e
    BY <2>1 DEF EnvelopeOf, WithMessage
  <2> QED BY <1>7, <2>1, <2>2, NotifyCarried DEF MessagesOf, MessageKinds
<1>8. CASE e.kind = "EnvelopeFireNotify"
  <2>1. e \in EnvelopeOf.EnvelopeFireNotify
    BY <1>1, <1>8
  <2>2. "Message" \in DOMAIN e /\ "Messages" \notin DOMAIN e /\ e.Message \in AnyMessage
        /\ WithMessage(e, e.Message) = e
    BY <2>1 DEF EnvelopeOf, WithMessage
  <2> QED BY <1>8, <2>1, <2>2, FireNotifyCarried DEF MessagesOf, MessageKinds
<1>9. CASE e.kind = "EnvelopeWatch"
  <2>1. e \in EnvelopeOf.EnvelopeWatch
    BY <1>1, <1>9
  <2>2. "Message" \notin DOMAIN e /\ "Messages" \notin DOMAIN e
    BY <2>1 DEF EnvelopeOf
  <2> QED BY <1>9, <2>1, <2>2 DEF MessagesOf, MessageKinds
<1>10. CASE e.kind = "EnvelopeBatchSend"
  <2>1. e \in EnvelopeOf.EnvelopeBatchSend
    BY <1>1, <1>10
  <2>2. "Message" \notin DOMAIN e /\ "Messages" \in DOMAIN e /\ e.Messages \in Seq(AnyMessage)
    BY <2>1 DEF EnvelopeOf
  <2> QED BY <1>10, <2>1, <2>2 DEF MessagesOf, MessageKinds
<1> QED BY <1>2, <1>3, <1>4, <1>5, <1>6, <1>7, <1>8, <1>9, <1>10 DEF EnvelopeKinds

\* What became of the n-th envelope.
LEMMA Became ==
  ASSUME IInv, NEW n \in DOMAIN handled, n # 1
  PROVE  LET e == sent[n]
             w == MarshalMessage(reg["from"], e.Message)
             u == UnmarshalMessage(reg["to"], Value(w))
         IN  /\ e \in Envelopes /\ e.kind \in EnvelopeKinds /\ Serializable(e) /\ n \in 1 .. Len(handled)
             /\ e.kind \in MessageKinds =>
                   Succeeded(w) /\ handled[n] = IF Succeeded(u) THEN Done(WithMessage(e, Value(u))) ELSE u
             /\ e.kind = "EnvelopeWatch" => handled[n] = Done(e)
             /\ e.kind = "EnvelopeBatchSend" =>
                   handled[n] = Done([e EXCEPT !.Messages = BatchMessages(reg["from"], reg["to"], e)])
<1> DEFINE e == sent[n]
           r == reg["from"]
           o == reg["to"]
           p == Encoded(r, e)
           w == MarshalMessage(r, e.Message)
<1>1. n \in 2 .. Len(sent) /\ n \in 1 .. Len(handled) /\ handled[n] = Result(n)
  <2>1. DOMAIN handled = 1 .. Len(handled) /\ Len(handled) \in Nat
    BY LenProperties DEF IInv, Typed
  <2>2. Len(handled) <= Len(sent) /\ Len(sent) \in Nat
    BY FramesSized DEF IInv, Framed, Packaged
  <2> QED BY <2>1, <2>2 DEF IInv, Framed
<1>2. e \in Envelopes /\ Succeeded(Send(r, e))
  BY <1>1 DEF IInv, Packaged, PackedAt
<1>3. e.kind \in EnvelopeKinds /\ Send(r, e) = p /\ Serializable(e) /\ Succeeded(p)
  BY <1>2, KindsSent
<1>4. r \in Registry /\ o \in Registry
  BY KnownReg DEF IInv
<1>5. handled[n] = OnMessage(o, PkgType[e.kind], p.val)
  BY <1>1, <1>3 DEF Result
<1> HIDE DEF e, r, o, p
<1>6. CASE e.kind \in MessageKinds
  <2>1. Carried(r, o, e)
    BY <1>2, <1>3, <1>4, <1>6, KindsOfEnvelopes
  <2>2. Succeeded(w) /\ Comes(o, e, w, p)
    BY <1>3, <2>1 DEF Carried, p
  <2> QED BY <1>1, <1>2, <1>3, <1>5, <1>6, <2>2 DEF Comes, MessageKinds, e, r, o
<1>7. CASE e.kind = "EnvelopeWatch"
  <2>1. OnMessage(o, PkgType[e.kind], p.val) = Done(e)
    BY <1>2, <1>3, <1>7, KindsOfEnvelopes, WatchCarried DEF p
  <2> QED BY <1>1, <1>2, <1>3, <1>5, <1>7, <2>1 DEF MessageKinds, e
<1>8. CASE e.kind = "EnvelopeBatchSend"
  <2>1. e \in EnvelopeOf.EnvelopeBatchSend
    BY <1>2, <1>3, <1>8, KindsOfEnvelopes
  <2>2. OnMessage(o, PkgType[e.kind], p.val) = Done([e EXCEPT !.Messages = BatchMessages(r, o, e)])
    BY <1>3, <1>4, <2>1, BatchCarried DEF p
  <2> QED BY <1>1, <1>2, <1>3, <1>5, <1>8, <2>2 DEF MessageKinds, e, r, o
<1> QED BY <1>3, <1>6, <1>7, <1>8 DEF MessageKinds

LEMMA SafeAddressed ==
  ASSUME IInv PROVE Addressed
<1> SUFFICES ASSUME NEW n \in DOMAIN handled, Succeeded(handled[n]), sent[n] # Registration
             PROVE  Address(handled[n].val) = Address(sent[n])
  BY DEF Addressed
<1> DEFINE e == sent[n]
<1>1. n # 1
  BY DEF IInv, Packaged
<1>2. e \in Envelopes /\ e.kind \in EnvelopeKinds
  BY <1>1, Became
<1>3. CASE e.kind \in MessageKinds
  <2> DEFINE u == UnmarshalMessage(reg["to"], Value(MarshalMessage(reg["from"], e.Message)))
  <2>1. handled[n] = IF Succeeded(u) THEN Done(WithMessage(e, Value(u))) ELSE u
    BY <1>1, <1>3, Became
  <2> HIDE DEF u, e
  <2>2. handled[n].val = WithMessage(e, Value(u))
    BY <2>1, Outcomes
  <2>3. Address(WithMessage(e, Value(u))) = Address(e)
    BY DEF Address, WithMessage
  <2> QED BY <2>2, <2>3 DEF e
<1>4. CASE e.kind = "EnvelopeWatch"
  <2>1. handled[n] = Done(e)
    BY <1>1, <1>4, Became
  <2> QED BY <2>1, Outcomes
<1>5. CASE e.kind = "EnvelopeBatchSend"
  <2> DEFINE m == BatchMessages(reg["from"], reg["to"], e)
  <2>1. handled[n] = Done([e EXCEPT !.Messages = m])
    BY <1>1, <1>5, Became
  <2> HIDE DEF m, e
  <2>2. handled[n].val = [e EXCEPT !.Messages = m]
    BY <2>1, Outcomes
  <2>3. Address([e EXCEPT !.Messages = m]) = Address(e)
    BY DEF Address
  <2> QED BY <2>2, <2>3 DEF e
<1> QED BY <1>2, <1>3, <1>4, <1>5 DEF MessageKinds

\* Of a batch arrive the messages that cross, in their order.
LEMMA BatchArrives ==
  ASSUME IInv, NEW s \in Seq(AnyMessage), NEW e, e.Messages = s, \A i \in DOMAIN s : ~Misread(s[i])
  PROVE  BatchMessages(reg["from"], reg["to"], e) = Sub(s, {i \in DOMAIN s : Crosses(s[i])})
<1> DEFINE r == reg["from"]
           o == reg["to"]
           A == Marshals(r, e)
           B == Unmarshals(r, o, e)
           back(i) == UnmarshalMessage(o, Value(MarshalMessage(r, s[i])))
           C == {i \in DOMAIN s : Crosses(s[i])}
           D == {Nth(A, j) : j \in B}
<1>1. DOMAIN s = 1 .. Len(s) /\ Len(s) \in Nat /\ \A i \in DOMAIN s : s[i] \in AnyMessage
  BY LenProperties, ElementOfSeq
<1>2. A = {i \in DOMAIN s : Succeeded(MarshalMessage(r, s[i]))}
  BY DEF Marshals
<1>3. B = {j \in 1 .. Cardinality(A) : Succeeded(back(Nth(A, j)))}
  BY DEF Unmarshals
<1>4. \A i \in DOMAIN s : /\ Crosses(s[i]) <=> Succeeded(MarshalMessage(r, s[i])) /\ Succeeded(back(i))
                          /\ Succeeded(MarshalMessage(r, s[i])) /\ Succeeded(back(i)) => Value(back(i)) = s[i]
  BY <1>1, Crossing DEF IInv
<1>5. BatchMessages(r, o, e) = [k \in 1 .. Cardinality(B) |-> Value(back(Nth(A, Nth(B, k))))]
  BY DEF BatchMessages
<1> HIDE DEF A, B, back, r, o
<1>6. A \in SUBSET (1 .. Len(s)) /\ B \in SUBSET (1 .. Cardinality(A)) /\ Cardinality(A) \in Nat
  <2>1. A \in SUBSET (1 .. Len(s))
    BY <1>1, <1>2
  <2>2. Cardinality(A) \in Nat
    BY <1>1, <2>1, RankTyped
  <2> QED BY <1>3, <2>1, <2>2
<1>7. /\ \A i \in A : Rank(A, i) \in 1 .. Cardinality(A) /\ Nth(A, Rank(A, i)) = i
      /\ \A j \in 1 .. Cardinality(A) : Nth(A, j) \in A
  BY <1>1, <1>6, NthRank
<1>8. C = D
  <2>1. ASSUME NEW i \in C PROVE i \in D
    <3>1. i \in A /\ Succeeded(back(i))
      BY <1>2, <1>4
    <3>2. Rank(A, i) \in 1 .. Cardinality(A) /\ Nth(A, Rank(A, i)) = i
      BY <1>7, <3>1
    <3>3. Rank(A, i) \in B
      BY <1>3, <3>1, <3>2
    <3> QED BY <3>2, <3>3
  <2>2. ASSUME NEW j \in B PROVE Nth(A, j) \in C
    <3>1. j \in 1 .. Cardinality(A) /\ Succeeded(back(Nth(A, j))) /\ Nth(A, j) \in A
      BY <1>3, <1>7
    <3> QED BY <1>2, <1>4, <3>1
  <2> QED BY <2>1, <2>2
<1>9. Cardinality(C) = Cardinality(B) /\ \A k \in 1 .. Cardinality(B) : Nth(C, k) = Nth(A, Nth(B, k))
  <2>1. Cardinality(D) = Cardinality(B) /\ \A k \in 1 .. Cardinality(B) : Nth(D, k) = Nth(A, Nth(B, k))
    BY <1>1, <1>6, NthOfNth
  <2> HIDE DEF C, D
  <2> QED BY <1>8, <2>1
<1>10. ASSUME NEW k \in 1 .. Cardinality(B)
       PROVE  Value(back(Nth(A, Nth(B, k)))) = s[Nth(A, Nth(B, k))]
  <2>1. Nth(B, k) \in B
    BY <1>6, NthRank
  <2>2. Nth(A, Nth(B, k)) \in A /\ Succeeded(back(Nth(A, Nth(B, k))))
    BY <1>3, <1>7, <2>1
  <2> QED BY <1>2, <1>4, <2>2
<1> HIDE DEF C, D
<1>11. Sub(s, C) = [k \in 1 .. Cardinality(B) |-> s[Nth(A, Nth(B, k))]]
  BY <1>9 DEF Sub
<1>12. BatchMessages(r, o, e) = Sub(s, C)
  BY <1>5, <1>10, <1>11
<1> QED BY <1>12 DEF r, o, C

LEMMA SafeFaithful ==
  ASSUME IInv PROVE Faithful
<1> SUFFICES ASSUME NEW n \in DOMAIN handled, Succeeded(handled[n]), sent[n] # Registration,
                    \A m \in MessagesOf(sent[n]) : ~Misread(m)
             PROVE  handled[n].val = Arrival(sent[n])
  BY DEF Faithful
<1> DEFINE e == sent[n]
<1>1. n # 1
  BY DEF IInv, Packaged
<1>2. e \in Envelopes /\ e.kind \in EnvelopeKinds
  BY <1>1, Became
<1>3. CASE e.kind \in MessageKinds
  <2> DEFINE w == MarshalMessage(reg["from"], e.Message)
             u == UnmarshalMessage(reg["to"], Value(w))
  <2>1. Succeeded(w) /\ handled[n] = IF Succeeded(u) THEN Done(WithMessage(e, Value(u))) ELSE u
    BY <1>1, <1>3, Became
  <2>2. e.Message \in AnyMessage /\ WithMessage(e, e.Message) = e /\ ~Misread(e.Message)
    BY <1>2, <1>3, KindsOfEnvelopes
  <2>3. Succeeded(u) => Value(u) = e.Message
    BY <2>1, <2>2, Crossing DEF IInv
  <2>4. Arrival(e) = e
    BY <1>3 DEF Arrival, MessageKinds
  <2> HIDE DEF u, e
  <2>5. handled[n].val = WithMessage(e, e.Message)
    BY <2>1, <2>3, Outcomes
  <2> QED BY <2>2, <2>4, <2>5 DEF e
<1>4. CASE e.kind = "EnvelopeWatch"
  <2>1. handled[n] = Done(e)
    BY <1>1, <1>4, Became
  <2>2. Arrival(e) = e
    BY <1>4 DEF Arrival
  <2> QED BY <2>1, <2>2, Outcomes
<1>5. CASE e.kind = "EnvelopeBatchSend"
  <2> DEFINE m == BatchMessages(reg["from"], reg["to"], e)
             s == e.Messages
  <2>1. handled[n] = Done([e EXCEPT !.Messages = m])
    BY <1>1, <1>5, Became
  <2>2. s \in Seq(AnyMessage) /\ \A i \in DOMAIN s : ~Misread(s[i])
    BY <1>2, <1>5, KindsOfEnvelopes
  <2>3. m = Sub(s, {i \in DOMAIN s : Crosses(s[i])})
    <3> HIDE DEF s
    <3>1. e.Messages = s
      BY DEF s
    <3> HIDE DEF e
    <3> QED BY <2>2, <3>1, BatchArrives
  <2>4. Arrival(e) = [e EXCEPT !.Messages = Sub(s, {i \in DOMAIN s : Crosses(s[i])})]
    BY <1>5 DEF Arrival
  <2> HIDE DEF m, e
  <2> QED BY <2>1, <2>3, <2>4, Outcomes DEF e
<1> QED BY <1>2, <1>3, <1>4, <1>5 DEF MessageKinds

LEMMA SafeRejected ==
  ASSUME IInv PROVE OnlyUnknownRejected
<1> SUFFICES ASSUME NEW n \in DOMAIN handled, ~Succeeded(handled[n])
             PROVE  sent[n] # Registration /\ \E m \in MessagesOf(sent[n]) : ~Crosses(m) \/ Misread(m)
  BY DEF OnlyUnknownRejected
<1> DEFINE e == sent[n]
<1>1. n # 1
  <2> SUFFICES ASSUME n = 1 PROVE FALSE
    OBVIOUS
  <2>1. handled[1] = Result(1)
    <3>1. n \in 1 .. Len(handled)
      BY LenProperties DEF IInv, Typed
    <3> QED BY <3>1 DEF IInv, Framed
  <2> QED BY <2>1, Outcomes DEF Result
<1>2. e \in Envelopes /\ e.kind \in EnvelopeKinds /\ e # Registration
  <2>1. e \in Envelopes /\ e.kind \in EnvelopeKinds
    BY <1>1, Became
  <2> QED BY <2>1, WireAssumption DEF Registration
<1>3. e.kind \in MessageKinds
  <2>1. e.kind = "EnvelopeWatch" => \E v : handled[n] = Done(v)
    BY <1>1, Became
  <2>2. e.kind = "EnvelopeBatchSend" => \E v : handled[n] = Done(v)
    BY <1>1, Became
  <2>3. ~\E v : handled[n] = Done(v)
    BY Outcomes
  <2> QED BY <1>2, <2>1, <2>2, <2>3 DEF MessageKinds
<1> DEFINE w == MarshalMessage(reg["from"], e.Message)
           u == UnmarshalMessage(reg["to"], Value(w))
<1>4. handled[n] = IF Succeeded(u) THEN Done(WithMessage(e, Value(u))) ELSE u
  BY <1>1, <1>3, Became
<1>5. ~Succeeded(u)
  <2> HIDE DEF u, e
  <2> QED BY <1>4, Outcomes
<1>6. e.Message \in AnyMessage /\ MessagesOf(e) = {e.Message}
  BY <1>2, <1>3, KindsOfEnvelopes
<1>7. ~Crosses(e.Message) \/ Misread(e.Message)
  BY <1>5, <1>6, Crossing DEF IInv
<1> QED BY <1>2, <1>6, <1>7

\* Why an envelope is refused, and with which error.
LEMMA WhyRefused ==
  ASSUME IInv, NEW e \in Envelopes, ~Succeeded(Send(reg["from"], e))
  PROVE  /\ Send(reg["from"], e).err \in 101 .. 105
         /\ \/ e.kind \notin DOMAIN PkgType
            \/ \A m \in MessagesOf(e) : m \in AnyMessage /\ ~Succeeded(MarshalMessage(reg["from"], m))
            \/ ~Serializable(e)
<1> DEFINE r == reg["from"]
           p == Encoded(r, e)
<1>1. r \in Registry
  BY KnownReg DEF IInv
<1>2. CASE Succeeded(p)
  <2>1. ~Serializable(e) /\ Send(r, e) = Failed(ErrorCodeMessageSerializeFail)
    BY <1>2 DEF Send
  <2> QED BY <2>1, Outcomes DEF ErrorCodeMessageSerializeFail
<1>3. CASE ~Succeeded(p)
  <2>1. Send(r, e) = p
    BY <1>3 DEF Send
  <2>2. CASE e.kind \notin EnvelopeKinds
    <3>1. p = Failed(ErrorCodeUnknownEnvelope)
      BY <2>2 DEF Encoded, EnvelopeKinds
    <3>2. e.kind \notin DOMAIN PkgType
      <4>1. DOMAIN EnvelopeOf = EnvelopeKinds
        BY DEF EnvelopeOf, EnvelopeKinds
      <4> QED BY <2>2, <4>1, WireAssumption
    <3> QED BY <2>1, <3>1, <3>2, Outcomes DEF ErrorCodeUnknownEnvelope
  <2>3. CASE e.kind \in MessageKinds
    <3>1. Carried(r, 0, e) /\ e.Message \in AnyMessage /\ MessagesOf(e) = {e.Message}
      BY <1>1, <2>3, KindsOfEnvelopes DEF MessageKinds
    <3>2. ~Succeeded(MarshalMessage(r, e.Message)) /\ p = MarshalMessage(r, e.Message)
      BY <1>3, <3>1 DEF Carried
    <3>3. p.err \in 101 .. 105
      BY <1>1, <3>1, <3>2, Marshalled
    <3> QED BY <2>1, <3>1, <3>2, <3>3
  <2>4. CASE e.kind = "EnvelopeWatch"
    <3>1. e \in EnvelopeOf.EnvelopeWatch
      BY <2>4, KindsOfEnvelopes DEF EnvelopeKinds
    <3> QED BY <1>3, <3>1, WatchCarried
  <2>5. CASE e.kind = "EnvelopeBatchSend"
    <3>1. /\ e \in EnvelopeOf.EnvelopeBatchSend /\ e.Messages \in Seq(AnyMessage)
          /\ MessagesOf(e) = {e.Messages[i] : i \in DOMAIN e.Messages}
      BY <2>5, KindsOfEnvelopes DEF EnvelopeKinds
    <3>2. p.err \in 101 .. 105 /\ Marshals(r, e) = {}
      BY <1>1, <1>3, <3>1, BatchCarried
    <3>3. \A i \in DOMAIN e.Messages : e.Messages[i] \in AnyMessage
      BY <3>1, LenProperties, ElementOfSeq
    <3> QED BY <2>1, <3>1, <3>2, <3>3 DEF Marshals
  <2> QED BY <2>2, <2>3, <2>4, <2>5 DEF MessageKinds
<1> QED BY <1>2, <1>3

LEMMA SafeRefused ==
  ASSUME IInv PROVE RefusedForCause
<1> SUFFICES ASSUME NEW x \in refused, x[1].kind \in DOMAIN PkgType, Serializable(x[1]),
                    NEW m \in MessagesOf(x[1]), m # NoMessage, m.body # Broken,
                    NEW id \in Ids, <<"from", id, m.type>> \in registered
             PROVE  FALSE
  BY DEF RefusedForCause
<1>1. PICK e \in Envelopes : ~Succeeded(Send(reg["from"], e)) /\ x = <<e, Send(reg["from"], e).err>>
  BY DEF IInv, Packaged
<1>2. x[1] = e
  BY <1>1
<1>3. m \in AnyMessage /\ ~Succeeded(MarshalMessage(reg["from"], m))
  BY <1>1, <1>2, WhyRefused
<1>4. reg["from"].msgTypeIds[m.type] = None
  BY <1>3, Marshalled, KnownReg DEF IInv
<1>5. m.type \in Types
  BY <1>3 DEF AnyMessage, Messages
<1> QED BY <1>4, <1>5, KnownReg DEF IInv, Known, KnownTo

LEMMA SafeTypes ==
  ASSUME IInv PROVE TypeOK
<1>1. Len(frames) = Len(sent) /\ Len(handled) <= Len(sent) /\ DOMAIN frames = 1 .. Len(frames) /\ frames \in Seq(Frames)
  BY LenProperties DEF IInv, Typed, Packaged, Framed
<1>2. ASSUME NEW n \in DOMAIN frames
      PROVE  frames[n].msgId \in Nat /\ frames[n].size \in 0 .. MaxPayload
             /\ frames[n].pkg \in PkgOf(frames[n].msgId)
  <2>1. frames[n].msgId \in Nat /\ frames[n].size \in 0 .. MaxPayload
    BY <1>1, FramesSized, FramingAssumption DEF IInv
  <2>2. CASE n = 1
    <3>1. frames[1] = RegistrationFrame(rcv) /\ rcv \in {"server", "client"}
      BY DEF IInv, Typed, Packaged
    <3>2. [SystemId |-> 1] \in PkgOf(10) /\ [ErrorCode |-> ErrorCodeSuccess] \in PkgOf(11)
      BY DEF PkgOf, PkgType, PkgRegisterSystemReq, PkgRegisterSystemRsp, ErrorCodeSuccess
    <3> QED BY <2>1, <2>2, <3>1, <3>2, PkgTypes DEF RegistrationFrame
  <2>3. CASE n # 1
    <3> DEFINE e == sent[n]
               r == reg["from"]
               p == Encoded(r, e)
    <3>1. e \in Envelopes /\ Succeeded(Send(r, e)) /\ frames[n] = FrameOf(e)
      <4>1. n \in 2 .. Len(sent)
        BY <1>1, <2>3, FramesSized DEF IInv
      <4> QED BY <4>1 DEF IInv, Packaged, PackedAt
    <3>2. e.kind \in EnvelopeKinds /\ Send(r, e) = p /\ Serializable(e) /\ Succeeded(p)
      BY <3>1, KindsSent
    <3>3. r \in Registry
      BY KnownReg DEF IInv
    <3>4. p.val \in PkgOf(PkgType[e.kind])
      <4> HIDE DEF e, r
      <4>1. CASE e.kind \in MessageKinds
        <5>1. Carried(r, 0, e)
          BY <3>1, <3>2, <3>3, <4>1, KindsOfEnvelopes
        <5> QED BY <3>2, <5>1 DEF Carried
      <4>2. CASE e.kind = "EnvelopeWatch"
        BY <3>1, <3>2, <4>2, KindsOfEnvelopes, WatchCarried
      <4>3. CASE e.kind = "EnvelopeBatchSend"
        BY <3>1, <3>2, <3>3, <4>3, KindsOfEnvelopes, BatchCarried
      <4> QED BY <3>2, <4>1, <4>2, <4>3 DEF MessageKinds
    <3>5. frames[n].pkg = p.val /\ frames[n].msgId = PkgType[e.kind]
      BY <3>1, <3>2 DEF FrameOf
    <3> QED BY <2>1, <3>4, <3>5
  <2> QED BY <2>2, <2>3
<1>3. ASSUME NEW x \in refused PROVE x[1] \in Envelopes /\ x[2] \in 101 .. 105
  <2>1. PICK e \in Envelopes : ~Succeeded(Send(reg["from"], e)) /\ x = <<e, Send(reg["from"], e).err>>
    BY DEF IInv, Packaged
  <2> QED BY <2>1, WhyRefused
<1>4. stream \in Seq(Nat \X Nat) /\ buf \in Seq(Nat \X Nat)
  BY DEF IInv, Typed, Bytes
<1> QED BY <1>1, <1>2, <1>3, <1>4 DEF TypeOK, IInv, Typed

-----------------------------------------------------------------------------
(* Theorems.                                                               *)

\* Whatever TCP makes of the stream, what the receiver goroutine makes of the n-th
\* frame is what onMessage makes of the n-th package packed: none is lost, none is
\* cut wrongly, and never is more held back than one frame lacks (client.go,
\* server.go, packet.go).
THEOREM FramesHandledInOrder ==
  Spec => [](Framed /\ Packaged)
<1>1. IInv => Framed /\ Packaged
  BY DEF IInv
<1> QED BY <1>1, Kept, PTL

\* Types of the variables; every frame holds a package of its kind (cluster.pb.go).
THEOREM WireTypes ==
  Spec => []TypeOK
BY Kept, SafeTypes, PTL

\* Every envelope handed to the actors of the other system is the one accepted, a
\* batch without the messages one of the two does not know, unless the receiver
\* has another type under the id of a message in it (cluster_net.go:152-490).
THEOREM EnvelopesArriveAsSent ==
  Spec => []Faithful
BY Kept, SafeFaithful, PTL

\* Even then the addresses and the ids of requests are those of the envelope
\* accepted (cluster_net.go:152-490).
THEOREM EnvelopesArriveWhereSent ==
  Spec => []Addressed
BY Kept, SafeAddressed, PTL

\* A frame is rejected only for a message the two systems do not both know, or
\* whose id the receiver has for another type
\* (cluster_net.go:308-490).
THEOREM OnlyUnknownMessagesAreRejected ==
  Spec => []OnlyUnknownRejected
BY Kept, SafeRejected, PTL

\* Send refuses only what cannot cross (cluster_net.go:152-306).
THEOREM SendRefusesForCause ==
  Spec => []RefusedForCause
BY Kept, SafeRefused, PTL
================================================================================
