-------------------------------- MODULE Framing --------------------------------
(***************************************************************************)
(* The frames of packet.go: a length field, one byte with the kind of      *)
(* package, and the package.                                               *)
(*                                                                         *)
(* frames is the sequence of frames a sender has packed, each a record     *)
(* [msgId, size, pkg]; byte i of the n-th of them is the pair <<n, i>>.    *)
(* A stretch of bytes therefore says where it is from, and the big-endian  *)
(* length is read from the bytes it was written to.                        *)
(***************************************************************************)
EXTENDS Naturals, Sequences

CONSTANTS
    LenBytes,    \* bytes of the length field (4)
    Mod,         \* one more than the largest length (2^32)
    MaxMsgId,    \* largest kind that fits its byte (255)
    MaxPayload,  \* bound on the size of a package
    ReadBuf      \* bytes a read returns at most (4096)

PacketHeaderSize == LenBytes + 1

(* A receiver holds at most a frame that lacks one byte and what one read
   has added to it.  Beyond this bound the uint32 sums of Next wrap. *)
ASSUME FramingAssumption ==
    /\ LenBytes \in Nat \ {0} /\ MaxMsgId \in Nat
    /\ MaxPayload \in Nat /\ ReadBuf \in Nat \ {0} /\ Mod \in Nat
    /\ MaxPayload + PacketHeaderSize + ReadBuf <= Mod

(* frame n *)
PackMessage(n, frame) ==
    IF frame.msgId > MaxMsgId THEN <<>>
    ELSE [i \in 1 .. PacketHeaderSize + frame.size |-> <<n, i>>]

(* Uint32 of the first bytes: what PutUint32 wrote, if these are the bytes of
   one length field, else some other number *)
Uint32(frames, buf) ==
    IF \A i \in 1 .. LenBytes : buf[i] = <<buf[1][1], i>>
    THEN frames[buf[1][1]].size % Mod ELSE 0

MsgIdByte(frames, byte) ==
    IF byte[2] = PacketHeaderSize THEN frames[byte[1]].msgId ELSE 0

AppendData(buf, data) == buf \o data

NoFrame == [ok |-> FALSE, msgId |-> 0, payload |-> <<>>, rest |-> <<>>]

(* mutant: waits for a byte behind the frame *)
MutWaitOneMore(frames, buf) ==
    LET l      == Len(buf)
        msgLen == Uint32(frames, buf) + PacketHeaderSize
    IN  IF l < PacketHeaderSize \/ l <= msgLen THEN NoFrame
        ELSE [ok |-> TRUE, msgId |-> MsgIdByte(frames, buf[PacketHeaderSize]),
              payload |-> SubSeq(buf, PacketHeaderSize + 1, msgLen),
              rest |-> SubSeq(buf, msgLen + 1, Len(buf))]

(* the next frame of buf and the bytes behind it *)
NextFrame(frames, buf) ==
    LET l      == Len(buf) % Mod
        msgLen == (Uint32(frames, buf) + PacketHeaderSize) % Mod
    IN  IF l < PacketHeaderSize \/ l < msgLen THEN NoFrame
        ELSE [ok |-> TRUE, msgId |-> MsgIdByte(frames, buf[PacketHeaderSize]),
              payload |-> SubSeq(buf, PacketHeaderSize + 1, msgLen),
              rest |-> SubSeq(buf, msgLen + 1, Len(buf))]

(* proto.Unmarshal of the payload finds the package: the bytes are those of
   one package, all of them *)
Whole(frames, payload) ==
    payload # <<>> /\
    LET n == payload[1][1] IN
    payload = [i \in 1 .. frames[n].size |-> <<n, PacketHeaderSize + i>>]
================================================================================
