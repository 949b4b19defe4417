--------------------------------- MODULE Codec ---------------------------------
(***************************************************************************)
(* How a message and an envelope are turned into a package and back: the   *)
(* two maps of RegisterMessageType (system.go), clusterNet.Send and        *)
(* clusterNet.OnMessage (cluster_net.go), over the package types of        *)
(* protocol/cluster.pb.go.                                                 *)
(*                                                                         *)
(* A Go message is its type and its body; the bytes proto.Marshal makes of *)
(* it are named by the body.  What proto.Unmarshal does with the bytes of  *)
(* one type when asked for another is the relation Parses.  A step that    *)
(* may fail returns its value or an error, as the functions of the code do.*)
(***************************************************************************)
EXTENDS Selection

CONSTANTS
    Types,      \* Go types that implement proto.Message
    Ids,        \* message type ids
    Broken,     \* a string or a body that is not UTF-8: proto.Marshal refuses it
    Parses,     \* <<s, t>>: Unmarshal makes a message of type t of bytes of type s
    None,       \* no entry in a map
    NoMessage,  \* nil, or a value that is no proto.Message
    NoRef,      \* the nil actor reference
    NoError     \* the nil error

Done(v)   == [err |-> NoError, val |-> v]
Failed(c) == [err |-> c, val |-> None]
Succeeded(r) == r.err = NoError
Value(r)     == r.val

ErrorCodeMessageCannotSerialize == 101
ErrorCodeMessageNotRegister     == 102
ErrorCodeMessageSerializeFail   == 103
ErrorCodeMessageLenError        == 104
ErrorCodeUnknownEnvelope        == 105
DecodeError == "decode error"   \* the Go errors of UnmarshalMessage

ASSUME CodecAssumption ==
    /\ Ids \subseteq Nat /\ Parses \subseteq Types \X Types
    /\ \A t \in Types : <<t, t>> \in Parses
    /\ None \notin Types /\ None \notin Ids /\ Broken \notin Types
    /\ NoError \notin Nat /\ NoError # DecodeError

(* ----------------------- the registry of messages ---------------------- *)

(* What a caller may hand over as a message: the bytes of a valid body are those
   of its type. *)
Messages == {m \in [type : Types, body : Types \cup {Broken}] : m.body \in {m.type, Broken}}

Registry == [msgTypeIds : [Types -> Ids \cup {None}],
             msgCreators : [Ids -> Types \cup {None}]]

EmptyRegistry == [msgTypeIds  |-> [t \in Types |-> None],
                  msgCreators |-> [id \in Ids |-> None]]

(* mutant: keeps the two maps inverse to each other *)
MutRegisterMessageType(reg, id, t) ==
    [msgTypeIds  |-> [reg.msgTypeIds EXCEPT ![t] = id],
     msgCreators |-> [i \in Ids |-> IF i = id THEN t
                                   ELSE IF i = reg.msgTypeIds[t] THEN None
                                   ELSE reg.msgCreators[i]]]

RegisterMessageType(reg, id, t) ==
    [reg EXCEPT !.msgTypeIds[t] = id, !.msgCreators[id] = t]

MarshalMessage(reg, msg) ==
    IF msg = NoMessage THEN Failed(ErrorCodeMessageCannotSerialize)
    ELSE IF reg.msgTypeIds[msg.type] = None THEN Failed(ErrorCodeMessageNotRegister)
    ELSE IF msg.body = Broken THEN Failed(ErrorCodeMessageSerializeFail)
    ELSE Done([Type |-> reg.msgTypeIds[msg.type], Data |-> <<reg.msgTypeIds[msg.type], msg.body>>])

UnmarshalMessage(reg, m) ==
    LET t == reg.msgCreators[m.Type] IN
    IF Len(m.Data) # 2 \/ t = None \/ <<m.Data[2], t>> \notin Parses
    THEN Failed(DecodeError)
    ELSE Done([type |-> t, body |-> m.Data[2]])

(* ------------------------------ envelopes ------------------------------ *)

(* The envelopes of the actor library that clusterNet.Send has a case for, with
   the fields it reads. *)
AnyRef == [SystemId : Nat, GroupSlot : Nat, ActorType : Nat, ActorId : STRING \cup {Broken}]
          \cup {NoRef}
AnyMessage == Messages \cup {NoMessage}
AnyError   == (Nat \ {0}) \cup {NoError}

EnvelopeOf ==
    [EnvelopeSend |->
        [kind : {"EnvelopeSend"}, FromActorRef : AnyRef, ToActorRef : AnyRef, Message : AnyMessage],
     EnvelopeBatchSend |->
        [kind : {"EnvelopeBatchSend"}, FromActorRef : AnyRef, ToActorRefs : Seq(AnyRef),
         Messages : Seq(AnyMessage)],
     EnvelopeRequestAsync |->
        [kind : {"EnvelopeRequestAsync"}, FromActorRef : AnyRef, ToActorRef : AnyRef,
         Message : AnyMessage, CallbackId : Nat, CallbackAddress : Nat],
     EnvelopeResponseAsync |->
        [kind : {"EnvelopeResponseAsync"}, FromActorRef : AnyRef, ToActorRef : AnyRef,
         Error : AnyError, Message : AnyMessage, CallbackId : Nat, CallbackAddress : Nat],
     EnvelopeRequest |->
        [kind : {"EnvelopeRequest"}, FromActorRef : AnyRef, ToActorRef : AnyRef,
         Message : AnyMessage, RequestId : Nat],
     EnvelopeResponse |->
        [kind : {"EnvelopeResponse"}, FromActorRef : AnyRef, ToActorRef : AnyRef,
         Error : AnyError, Message : AnyMessage, RequestId : Nat],
     EnvelopeWatch |->
        [kind : {"EnvelopeWatch"}, FromActorRef : AnyRef, ToActorRef : AnyRef,
         WatchType : Nat, IsWatch : BOOLEAN],
     EnvelopeNotify |->
        [kind : {"EnvelopeNotify"}, FromActorRef : AnyRef, ToActorRefs : Seq(AnyRef),
         NotifyType : Nat, ActorRef : AnyRef, WatchType : Nat, Message : AnyMessage],
     EnvelopeFireNotify |->
        [kind : {"EnvelopeFireNotify"}, FromActorRef : AnyRef, ToActorRef : AnyRef,
         NotifyType : Nat, WatchType : Nat, Message : AnyMessage]]

(* ------------------------- the package types --------------------------- *)

PkgType == [EnvelopeSend |-> 1, EnvelopeBatchSend |-> 2, EnvelopeRequestAsync |-> 3,
            EnvelopeResponseAsync |-> 4, EnvelopeRequest |-> 5, EnvelopeResponse |-> 6,
            EnvelopeWatch |-> 7, EnvelopeNotify |-> 8, EnvelopeFireNotify |-> 9,
            RegisterSystemReq |-> 10, RegisterSystemRsp |-> 11]

ErrorCodeSuccess == 0

Message  == [Type : Ids, Data : Ids \X Types]
ASSUME NilAssumption == NoMessage \notin Message
ActorRef == [SystemId : Nat, GroupSlot : Nat, ActorType : Nat, ActorId : STRING]
Ref      == ActorRef \cup {NoRef}
Response == [ErrorCode : Nat, Message : Message \cup {NoMessage}]

PkgEnvelopeSend == [FromActorRef : Ref, ToActorRef : Ref, Message : Message]
PkgEnvelopeBatchSend ==
    [FromActorRef : Ref, ToActorRefs : Seq(Ref), Messages : Seq(Message)]
PkgEnvelopeRequestAsync ==
    [FromActorRef : Ref, ToActorRef : Ref, Message : Message,
     CallbackId : Nat, CallbackAddress : Nat]
PkgEnvelopeResponseAsync ==
    [FromActorRef : Ref, ToActorRef : Ref, Response : Response,
     CallbackId : Nat, CallbackAddress : Nat]
PkgEnvelopeRequest ==
    [FromActorRef : Ref, ToActorRef : Ref, Message : Message, RequestId : Nat]
PkgEnvelopeResponse ==
    [FromActorRef : Ref, ToActorRef : Ref, Response : Response, RequestId : Nat]
PkgEnvelopeWatch ==
    [FromActorRef : Ref, ToActorRef : Ref, WatchType : Nat, IsWatch : BOOLEAN]
PkgEnvelopeNotify ==
    [FromActorRef : Ref, ToActorRefs : Seq(Ref), NotifyType : Nat,
     ActorRef : Ref, WatchType : Nat, Message : Message]
PkgEnvelopeFireNotify ==
    [FromActorRef : Ref, ToActorRef : Ref, NotifyType : Nat,
     WatchType : Nat, Message : Message]
PkgRegisterSystemReq == [SystemId : Nat]
PkgRegisterSystemRsp == [ErrorCode : Nat]

PkgOf(id) ==
    CASE id = PkgType.EnvelopeSend          -> PkgEnvelopeSend
      [] id = PkgType.EnvelopeBatchSend     -> PkgEnvelopeBatchSend
      [] id = PkgType.EnvelopeRequestAsync  -> PkgEnvelopeRequestAsync
      [] id = PkgType.EnvelopeResponseAsync -> PkgEnvelopeResponseAsync
      [] id = PkgType.EnvelopeRequest       -> PkgEnvelopeRequest
      [] id = PkgType.EnvelopeResponse      -> PkgEnvelopeResponse
      [] id = PkgType.EnvelopeWatch         -> PkgEnvelopeWatch
      [] id = PkgType.EnvelopeNotify        -> PkgEnvelopeNotify
      [] id = PkgType.EnvelopeFireNotify    -> PkgEnvelopeFireNotify
      [] id = PkgType.RegisterSystemReq     -> PkgRegisterSystemReq
      [] id = PkgType.RegisterSystemRsp     -> PkgRegisterSystemRsp
      [] OTHER                              -> {}

ActorRefToProto(ref) ==
    IF ref = NoRef THEN NoRef
    ELSE [SystemId |-> ref.SystemId, GroupSlot |-> ref.GroupSlot,
          ActorType |-> ref.ActorType, ActorId |-> ref.ActorId]

ActorRefFromProto(ref) ==
    IF ref = NoRef THEN NoRef
    ELSE [SystemId |-> ref.SystemId, GroupSlot |-> ref.GroupSlot,
          ActorType |-> ref.ActorType, ActorId |-> ref.ActorId]

Map(s, F(_)) == [i \in DOMAIN s |-> F(s[i])]

Successes(results) == Sub(results, {i \in DOMAIN results : Succeeded(results[i])})

errorCodeToVAError(code) == IF code = ErrorCodeSuccess THEN NoError ELSE code
ErrorCodeOf(e) == IF e = NoError THEN ErrorCodeSuccess ELSE e

(* --------------------------- clusterNet.Send --------------------------- *)

(* each case of the switch: the package, or the error of MarshalMessage *)

Package(m, pkg) == IF Succeeded(m) THEN Done(pkg) ELSE m

SendEnvelope(reg, e) ==
    LET m == MarshalMessage(reg, e.Message) IN
    Package(m, [FromActorRef |-> ActorRefToProto(e.FromActorRef),
                ToActorRef |-> ActorRefToProto(e.ToActorRef), Message |-> Value(m)])

(* mutant: keeps a place for a message that cannot be marshalled *)
MutSendBatch(reg, e) ==
    LET all == Map(e.Messages, LAMBDA msg : MarshalMessage(reg, msg)) IN
    IF \A i \in DOMAIN all : ~Succeeded(all[i]) THEN Failed(ErrorCodeMessageLenError)
    ELSE Done([FromActorRef |-> ActorRefToProto(e.FromActorRef),
               ToActorRefs |-> Map(e.ToActorRefs, ActorRefToProto),
               Messages |-> Map(all, Value)])

(* mutant: refuses a batch that has a message that cannot be marshalled *)
MutRefuseBatch(reg, e) ==
    IF \A i \in DOMAIN e.Messages : Succeeded(MarshalMessage(reg, e.Messages[i]))
    THEN MutSendBatch(reg, e) ELSE Failed(ErrorCodeMessageLenError)

SendBatch(reg, e) ==
    LET ok == Successes(Map(e.Messages, LAMBDA msg : MarshalMessage(reg, msg))) IN
    IF ok = <<>> THEN Failed(ErrorCodeMessageLenError)
    ELSE Done([FromActorRef |-> ActorRefToProto(e.FromActorRef),
               ToActorRefs |-> Map(e.ToActorRefs, ActorRefToProto),
               Messages |-> Map(ok, Value)])

SendRequestAsync(reg, e) ==
    LET m == MarshalMessage(reg, e.Message) IN
    Package(m, [FromActorRef |-> ActorRefToProto(e.FromActorRef),
                ToActorRef |-> ActorRefToProto(e.ToActorRef), Message |-> Value(m),
                CallbackId |-> e.CallbackId, CallbackAddress |-> e.CallbackAddress])

SendResponseAsync(reg, e) ==
    LET m == MarshalMessage(reg, e.Message) IN
    Package(m, [FromActorRef |-> ActorRefToProto(e.FromActorRef),
                ToActorRef |-> ActorRefToProto(e.ToActorRef),
                Response |-> [ErrorCode |-> ErrorCodeOf(e.Error), Message |-> Value(m)],
                CallbackId |-> e.CallbackId, CallbackAddress |-> e.CallbackAddress])

SendRequest(reg, e) ==
    LET m == MarshalMessage(reg, e.Message) IN
    Package(m, [FromActorRef |-> ActorRefToProto(e.FromActorRef),
                ToActorRef |-> ActorRefToProto(e.ToActorRef), Message |-> Value(m),
                RequestId |-> e.RequestId])

SendResponse(reg, e) ==
    LET m == MarshalMessage(reg, e.Message) IN
    Package(m, [FromActorRef |-> ActorRefToProto(e.FromActorRef),
                ToActorRef |-> ActorRefToProto(e.ToActorRef),
                Response |-> [ErrorCode |-> ErrorCodeOf(e.Error), Message |-> Value(m)],
                RequestId |-> e.RequestId])

SendWatch(reg, e) ==
    Done([FromActorRef |-> ActorRefToProto(e.FromActorRef),
          ToActorRef |-> ActorRefToProto(e.ToActorRef),
          WatchType |-> e.WatchType, IsWatch |-> e.IsWatch])

SendNotify(reg, e) ==
    LET m == MarshalMessage(reg, e.Message) IN
    Package(m, [FromActorRef |-> ActorRefToProto(e.FromActorRef),
                ToActorRefs |-> Map(e.ToActorRefs, ActorRefToProto),
                NotifyType |-> e.NotifyType, ActorRef |-> ActorRefToProto(e.ActorRef),
                WatchType |-> e.WatchType, Message |-> Value(m)])

SendFireNotify(reg, e) ==
    LET m == MarshalMessage(reg, e.Message) IN
    Package(m, [FromActorRef |-> ActorRefToProto(e.FromActorRef),
                ToActorRef |-> ActorRefToProto(e.ToActorRef),
                NotifyType |-> e.NotifyType, WatchType |-> e.WatchType, Message |-> Value(m)])

Encoded(reg, e) ==
    CASE e.kind = "EnvelopeSend"          -> SendEnvelope(reg, e)
      [] e.kind = "EnvelopeBatchSend"     -> SendBatch(reg, e)
      [] e.kind = "EnvelopeRequestAsync"  -> SendRequestAsync(reg, e)
      [] e.kind = "EnvelopeResponseAsync" -> SendResponseAsync(reg, e)
      [] e.kind = "EnvelopeRequest"       -> SendRequest(reg, e)
      [] e.kind = "EnvelopeResponse"      -> SendResponse(reg, e)
      [] e.kind = "EnvelopeWatch"         -> SendWatch(reg, e)
      [] e.kind = "EnvelopeNotify"        -> SendNotify(reg, e)
      [] e.kind = "EnvelopeFireNotify"    -> SendFireNotify(reg, e)
      [] OTHER                            -> Failed(ErrorCodeUnknownEnvelope)

(* proto.Marshal of the package: every string in it must be UTF-8 *)
RefsOf(e) ==
    {e.FromActorRef}
    \cup (IF "ToActorRef" \in DOMAIN e THEN {e.ToActorRef}
          ELSE {e.ToActorRefs[i] : i \in DOMAIN e.ToActorRefs})
    \cup (IF "ActorRef" \in DOMAIN e THEN {e.ActorRef} ELSE {})
Serializable(e) == \A r \in RefsOf(e) \ {NoRef} : r.ActorId # Broken

Send(reg, e) ==
    LET p == Encoded(reg, e) IN
    IF Succeeded(p) /\ ~Serializable(e) THEN Failed(ErrorCodeMessageSerializeFail) ELSE p

(* ------------------------- clusterNet.OnMessage ------------------------ *)

Envelope(m, e) == IF Succeeded(m) THEN Done(e) ELSE m

OnEnvelopeSend(reg, p) ==
    LET m == UnmarshalMessage(reg, p.Message) IN
    Envelope(m, [kind |-> "EnvelopeSend", FromActorRef |-> ActorRefFromProto(p.FromActorRef),
                 ToActorRef |-> ActorRefFromProto(p.ToActorRef), Message |-> Value(m)])

(* mutant: gives up the batch at a message it does not know *)
MutOnBatchSend(reg, p) ==
    LET all == Map(p.Messages, LAMBDA m : UnmarshalMessage(reg, m))
        ok  == IF \A i \in DOMAIN all : Succeeded(all[i]) THEN all ELSE <<>>
    IN  Done([kind |-> "EnvelopeBatchSend", FromActorRef |-> ActorRefFromProto(p.FromActorRef),
              ToActorRefs |-> Map(p.ToActorRefs, ActorRefFromProto), Messages |-> Map(ok, Value)])

OnBatchSend(reg, p) ==
    LET ok == Successes(Map(p.Messages, LAMBDA m : UnmarshalMessage(reg, m))) IN
    Done([kind |-> "EnvelopeBatchSend", FromActorRef |-> ActorRefFromProto(p.FromActorRef),
          ToActorRefs |-> Map(p.ToActorRefs, ActorRefFromProto), Messages |-> Map(ok, Value)])

OnRequestAsync(reg, p) ==
    LET m == UnmarshalMessage(reg, p.Message) IN
    Envelope(m, [kind |-> "EnvelopeRequestAsync",
                 FromActorRef |-> ActorRefFromProto(p.FromActorRef),
                 ToActorRef |-> ActorRefFromProto(p.ToActorRef), Message |-> Value(m),
                 CallbackId |-> p.CallbackId, CallbackAddress |-> p.CallbackAddress])

ResponseMessage(reg, rsp) ==
    IF rsp.Message = NoMessage THEN Done(NoMessage) ELSE UnmarshalMessage(reg, rsp.Message)

OnResponseAsync(reg, p) ==
    LET m == ResponseMessage(reg, p.Response) IN
    Envelope(m, [kind |-> "EnvelopeResponseAsync",
                 FromActorRef |-> ActorRefFromProto(p.FromActorRef),
                 ToActorRef |-> ActorRefFromProto(p.ToActorRef),
                 Error |-> errorCodeToVAError(p.Response.ErrorCode), Message |-> Value(m),
                 CallbackId |-> p.CallbackId, CallbackAddress |-> p.CallbackAddress])

OnRequest(reg, p) ==
    LET m == UnmarshalMessage(reg, p.Message) IN
    Envelope(m, [kind |-> "EnvelopeRequest", FromActorRef |-> ActorRefFromProto(p.FromActorRef),
                 ToActorRef |-> ActorRefFromProto(p.ToActorRef), Message |-> Value(m),
                 RequestId |-> p.RequestId])

OnResponse(reg, p) ==
    LET m == ResponseMessage(reg, p.Response) IN
    Envelope(m, [kind |-> "EnvelopeResponse", FromActorRef |-> ActorRefFromProto(p.FromActorRef),
                 ToActorRef |-> ActorRefFromProto(p.ToActorRef),
                 Error |-> errorCodeToVAError(p.Response.ErrorCode), Message |-> Value(m),
                 RequestId |-> p.RequestId])

(* mutant: sends a watch back to the one who asked for it *)
MutOnWatch(reg, p) ==
    Done([kind |-> "EnvelopeWatch", FromActorRef |-> ActorRefFromProto(p.ToActorRef),
          ToActorRef |-> ActorRefFromProto(p.FromActorRef),
          WatchType |-> p.WatchType, IsWatch |-> p.IsWatch])

OnWatch(reg, p) ==
    Done([kind |-> "EnvelopeWatch", FromActorRef |-> ActorRefFromProto(p.FromActorRef),
          ToActorRef |-> ActorRefFromProto(p.ToActorRef),
          WatchType |-> p.WatchType, IsWatch |-> p.IsWatch])

OnNotify(reg, p) ==
    LET m == UnmarshalMessage(reg, p.Message) IN
    Envelope(m, [kind |-> "EnvelopeNotify", FromActorRef |-> ActorRefFromProto(p.FromActorRef),
                 ToActorRefs |-> Map(p.ToActorRefs, ActorRefFromProto),
                 NotifyType |-> p.NotifyType, ActorRef |-> ActorRefFromProto(p.ActorRef),
                 WatchType |-> p.WatchType, Message |-> Value(m)])

OnFireNotify(reg, p) ==
    LET m == UnmarshalMessage(reg, p.Message) IN
    Envelope(m, [kind |-> "EnvelopeFireNotify",
                 FromActorRef |-> ActorRefFromProto(p.FromActorRef),
                 ToActorRef |-> ActorRefFromProto(p.ToActorRef),
                 NotifyType |-> p.NotifyType, WatchType |-> p.WatchType, Message |-> Value(m)])

(* the envelope given to LocalRouter; None when the package kind is not one
   of the switch, which is no error *)
OnMessage(reg, msgId, p) ==
    CASE msgId = PkgType.EnvelopeSend          -> OnEnvelopeSend(reg, p)
      [] msgId = PkgType.EnvelopeBatchSend     -> OnBatchSend(reg, p)
      [] msgId = PkgType.EnvelopeRequestAsync  -> OnRequestAsync(reg, p)
      [] msgId = PkgType.EnvelopeResponseAsync -> OnResponseAsync(reg, p)
      [] msgId = PkgType.EnvelopeRequest       -> OnRequest(reg, p)
      [] msgId = PkgType.EnvelopeResponse      -> OnResponse(reg, p)
      [] msgId = PkgType.EnvelopeWatch         -> OnWatch(reg, p)
      [] msgId = PkgType.EnvelopeNotify        -> OnNotify(reg, p)
      [] msgId = PkgType.EnvelopeFireNotify    -> OnFireNotify(reg, p)
      [] OTHER                                 -> Done(None)
================================================================================
