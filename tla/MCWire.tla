-------------------------------- MODULE MCWire ---------------------------------
EXTENDS Wire

CONSTANTS t1, t2

MCParses == {<<t1, t1>>, <<t2, t2>>, <<t1, t2>>}

Actor(k, id) == [SystemId |-> k, GroupSlot |-> 3, ActorType |-> 20 + k, ActorId |-> id]
A == Actor(1, "a")
B == Actor(2, "b")
C == Actor(2, "c")
Msg(t) == [type |-> t, body |-> t]
To(kind, m) == [kind |-> kind, FromActorRef |-> A, ToActorRef |-> B, Message |-> m]

Called(e, id, addr) ==
    [kind |-> e.kind, FromActorRef |-> e.FromActorRef, ToActorRef |-> e.ToActorRef,
     Message |-> e.Message, CallbackId |-> id, CallbackAddress |-> addr]
Asked(e, id) ==
    [kind |-> e.kind, FromActorRef |-> e.FromActorRef, ToActorRef |-> e.ToActorRef,
     Message |-> e.Message, RequestId |-> id]
WithError(e, err) == [f \in DOMAIN e \cup {"Error"} |-> IF f = "Error" THEN err ELSE e[f]]

Batch(s) == [kind |-> "EnvelopeBatchSend", FromActorRef |-> NoRef,
             ToActorRefs |-> <<C, B>>, Messages |-> s]

MCEnvelopes ==
    {To("EnvelopeSend", Msg(t1)), To("EnvelopeSend", [type |-> t1, body |-> Broken]),
     [To("EnvelopeSend", Msg(t2)) EXCEPT !.ToActorRef = Actor(2, Broken)],
     Batch(<<Msg(t2), Msg(t1)>>), Batch(<<NoMessage, Msg(t2)>>),
     Called(To("EnvelopeRequestAsync", Msg(t1)), 4, 5),
     WithError(Called(To("EnvelopeResponseAsync", Msg(t1)), 4, 5), 7),
     Asked(To("EnvelopeRequest", Msg(t2)), 6),
     WithError(Asked(To("EnvelopeResponse", Msg(t1)), 6), NoError),
     [kind |-> "EnvelopeWatch", FromActorRef |-> A, ToActorRef |-> B,
      WatchType |-> 8, IsWatch |-> FALSE],
     [kind |-> "EnvelopeNotify", FromActorRef |-> NoRef, ToActorRefs |-> <<B, C>>,
      NotifyType |-> 9, ActorRef |-> A, WatchType |-> 8, Message |-> Msg(t2)],
     [kind |-> "EnvelopeFireNotify", FromActorRef |-> A, ToActorRef |-> C,
      NotifyType |-> 9, WatchType |-> 8, Message |-> Msg(t1)],
     WithError(Asked(To("EnvelopeResponse", NoMessage), 6), 7),
     To("EnvelopeOuterRequest", Msg(t1))}

(* Sub picks what SelectSeq picks *)
ASSUME SubSelects ==
    \A n \in 0 .. 4 : \A s \in [1 .. n -> 1 .. 3] :
        Sub(s, {i \in DOMAIN s : s[i] # 2}) = SelectSeq(s, LAMBDA x : x # 2)

MCSizeOf == [e \in MCEnvelopes |-> IF e.kind \in {"EnvelopeWatch", "EnvelopeSend"} THEN 1 ELSE 2]
================================================================================
