--------------------------- MODULE ClusterLinkProofs ---------------------------
(***************************************************************************)
(* What holds of ClusterLink for any set of connections, any number of     *)
(* faults and sends and any payload.                                       *)
(***************************************************************************)
EXTENDS ClusterLink, TLAPS

\* Types and counts need each other: a count goes up only from zero because
\* it matches the registration (or the state of the loop).
Counted == TypeOK /\ CountsMatch

LEMMA EmptySeq == \A S : <<>> \in Seq(S)
  OBVIOUS

LEMMA PushType ==
  ASSUME NEW S, NEW in \in [Conn -> Seq(S)], NEW peerEnd, NEW k, NEW m \in S
  PROVE  Push(in, peerEnd, k, m) \in [Conn -> Seq(S)]
<1>1. CASE k \in Conn
  <2>1. Append(in[k], m) \in Seq(S)
    BY <1>1
  <2> QED
    BY <2>1 DEF Push
<1>2. CASE k \notin Conn
  BY <1>2 DEF Push
<1> QED
  BY <1>1, <1>2

LEMMA PopType ==
  ASSUME NEW S, NEW in \in [Conn -> Seq(S)], NEW k \in Conn, in[k] # <<>>
  PROVE  Pop(in, k) \in [Conn -> Seq(S)]
<1>1. Tail(in[k]) \in Seq(S)
  OBVIOUS
<1> QED
  BY <1>1 DEF Pop

LEMMA DisconnectType ==
  ASSUME NEW end \in [Conn -> EndState], NEW k
  PROVE  Disconnect(end, k) \in [Conn -> EndState]
  BY DEF Disconnect, EndState

LEMMA CountedInit == Init => Counted
<1> SUFFICES ASSUME Init PROVE Counted
  OBVIOUS
<1>1. clientIn \in [Conn -> Seq({"RegRsp", "Env"})]
      /\ serverIn \in [Conn -> Seq({"RegReq"} \cup ClientPayload)]
  BY EmptySeq DEF Init
<1>2. CountsMatch
  BY DEF Init, CountsMatch
<1>3. /\ clientEnd \in [Conn -> EndState] /\ serverEnd \in [Conn -> EndState]
      /\ clientRecv \in [Conn -> RecvState] /\ serverRecv \in [Conn -> RecvState]
  BY DEF Init, EndState, RecvState
<1> QED
  BY <1>1, <1>2, <1>3 DEF Init, Counted, TypeOK, LoopState

LEMMA CountedLoop ==
  ASSUME Counted, ClientLoop PROVE Counted'
<1> USE LinkAssumption DEF Counted, TypeOK, CountsMatch, LoopState, EndState, RecvState,
        chanVars, clientVars, serverVars, infoVars, envVars
<1>1. CASE DrainDisconnect BY <1>1 DEF DrainDisconnect
<1>2. ASSUME NEW k \in Conn, Dial(k) PROVE Counted'
  <2>1. /\ clientIn' \in [Conn -> Seq({"RegRsp", "Env"})]
        /\ serverIn' \in [Conn -> Seq({"RegReq"} \cup ClientPayload)]
    BY <1>2, EmptySeq DEF Dial
  <2>2. /\ clientEnd' \in [Conn -> EndState] /\ serverEnd' \in [Conn -> EndState]
        /\ clientRecv' \in [Conn -> RecvState] /\ serverRecv' \in [Conn -> RecvState]
    BY <1>2 DEF Dial
  <2>3. UNCHANGED <<infoCli, clientCount, chanVars, session, bound, serverCount,
                    owed, faults, sent>>
        /\ pc = "dial" /\ pc' = "register" /\ cur' = k
        /\ broken' \subseteq Conn /\ sessions' \subseteq Conn
    BY <1>2 DEF Dial
  <2> QED
    BY <2>1, <2>2, <2>3
<1>3. CASE SendRegisterReq
  <2>1. serverIn' \in [Conn -> Seq({"RegReq"} \cup ClientPayload)]
    BY <1>3, PushType DEF SendRegisterReq
  <2> QED
    BY <1>3, <2>1 DEF SendRegisterReq
<1>4. CASE SendRegisterReqFails
  <2>1. clientEnd' \in [Conn -> EndState]
    BY <1>4, DisconnectType DEF SendRegisterReqFails
  <2> QED
    BY <1>4, <2>1 DEF SendRegisterReqFails
<1>5. CASE AwaitDisconnect BY <1>5 DEF AwaitDisconnect
<1>6. CASE AwaitResponse BY <1>6 DEF AwaitResponse
<1>7. CASE SetCli BY <1>7 DEF SetCli
<1>8. CASE CountUp BY <1>8 DEF CountUp
<1>9. CASE ReadyDisconnect BY <1>9 DEF ReadyDisconnect
<1>10. CASE ClearCli BY <1>10 DEF ClearCli
<1>11. CASE CountDown BY <1>11 DEF CountDown
<1>12. CASE Wake BY <1>12 DEF Wake
<1> QED BY <1>1, <1>2, <1>3, <1>4, <1>5, <1>6, <1>7, <1>8, <1>9, <1>10, <1>11, <1>12
        DEF ClientLoop

LEMMA CountedClientEnd ==
  ASSUME Counted, NEW k \in Conn, ClientReceiver(k) \/ ClientSenderCloses(k)
  PROVE  Counted'
<1> USE DEF Counted, TypeOK, CountsMatch, EndState, RecvState,
        loopVars, chanVars, clientVars, serverVars, infoVars, envVars
<1>1. ASSUME \/ ClientReadRsp(k) \/ ClientReadEnv(k)
      PROVE  Counted'
  <2>1. clientIn' = Pop(clientIn, k) /\ clientIn[k] # <<>>
    BY <1>1 DEF ClientReadRsp, ClientReadEnv, Readable
  <2>2. clientIn' \in [Conn -> Seq({"RegRsp", "Env"})]
    BY <2>1, PopType
  <2> QED
    BY <1>1, <2>2 DEF ClientReadRsp, ClientReadEnv
<1>2. CASE ClientUnblocked(k) BY <1>2 DEF ClientUnblocked
<1>3. CASE ClientReadFails(k) BY <1>3 DEF ClientReadFails
<1>4. CASE ClientCloses(k)
  <2>1. clientEnd' \in [Conn -> EndState]
    BY <1>4, DisconnectType DEF ClientCloses
  <2> QED
    BY <1>4, <2>1 DEF ClientCloses
<1>5. CASE ClientOnDisconnect(k) BY <1>5 DEF ClientOnDisconnect
<1>6. CASE ClientSenderCloses(k) BY <1>6 DEF ClientSenderCloses
<1> QED
  BY <1>1, <1>2, <1>3, <1>4, <1>5, <1>6 DEF ClientReceiver

LEMMA CountedServerEnd ==
  ASSUME Counted, NEW k \in Conn, Accept(k) \/ ServerReceiver(k) \/ ServerSenderCloses(k)
  PROVE  Counted'
<1> USE LinkAssumption DEF Counted, TypeOK, CountsMatch, EndState, RecvState,
        loopVars, chanVars, clientVars, serverVars, infoVars, envVars
<1>1. CASE Accept(k) BY <1>1 DEF Accept
<1>2. ASSUME Register(k) \/ RejectRegister(k) \/ ServerReadEnv(k) \/ ServerReadBad(k)
      PROVE  /\ serverIn' \in [Conn -> Seq({"RegReq"} \cup ClientPayload)]
             /\ serverEnd' \in [Conn -> EndState]
  <2>1. serverIn' = Pop(serverIn, k) /\ serverIn[k] # <<>>
    BY <1>2 DEF Register, RejectRegister, ServerReadEnv, ServerReadBad, Readable
  <2>2. serverIn' \in [Conn -> Seq({"RegReq"} \cup ClientPayload)]
    BY <2>1, PopType
  <2>3. serverEnd' = serverEnd \/ serverEnd' = Disconnect(serverEnd, k)
    BY <1>2 DEF Register, RejectRegister, ServerReadEnv, ServerReadBad
  <2>4. serverEnd \in [Conn -> EndState] /\ Disconnect(serverEnd, k) \in [Conn -> EndState]
    BY DisconnectType
  <2> QED
    BY <2>2, <2>3, <2>4
<1>3. CASE Register(k)
  <2>1. clientIn' \in [Conn -> Seq({"RegRsp", "Env"})]
    BY <1>3, PushType DEF Register
  <2>2. CountsMatch'
    BY <1>3 DEF Register
  <2>3. session' \in Conn /\ bound' \subseteq Conn /\ serverCount' \in {0, 1}
    BY <1>3 DEF Register
  <2> QED
    BY <1>2, <1>3, <2>1, <2>2, <2>3 DEF Register
<1>4. CASE RejectRegister(k) BY <1>2, <1>4 DEF RejectRegister
<1>5. CASE ServerReadEnv(k) BY <1>2, <1>5 DEF ServerReadEnv
<1>6. CASE ServerReadBad(k) BY <1>2, <1>6 DEF ServerReadBad
<1>7. CASE ServerReadFails(k) BY <1>7 DEF ServerReadFails
<1>8. CASE ServerCloses(k)
  <2>1. serverEnd' \in [Conn -> EndState]
    BY <1>8, DisconnectType DEF ServerCloses
  <2> QED
    BY <1>8, <2>1 DEF ServerCloses
<1>9. CASE ServerOnDisconnect(k) BY <1>9 DEF ServerOnDisconnect
<1>10. CASE ServerSenderCloses(k) BY <1>10 DEF ServerSenderCloses
<1> QED
  BY <1>1, <1>3, <1>4, <1>5, <1>6, <1>7, <1>8, <1>9, <1>10 DEF ServerReceiver

LEMMA CountedTraffic ==
  ASSUME Counted, Traffic PROVE Counted'
<1> USE DEF Counted, TypeOK, CountsMatch,
        loopVars, chanVars, clientVars, serverVars, infoVars, envVars
<1>1. CASE ServerSend
  <2>1. clientIn' \in [Conn -> Seq({"RegRsp", "Env"})]
    BY <1>1, PushType DEF ServerSend
  <2> QED
    BY <1>1, <2>1 DEF ServerSend
<1>2. ASSUME NEW m \in ClientPayload, ClientSend(m) PROVE Counted'
  <2>1. serverIn' \in [Conn -> Seq({"RegReq"} \cup ClientPayload)]
    <3>1. m \in {"RegReq"} \cup ClientPayload
      OBVIOUS
    <3> QED
      BY <1>2, <3>1, PushType DEF ClientSend
  <2> QED
    BY <1>2, <2>1 DEF ClientSend
<1>3. CASE Answer
  <2>1. serverIn' \in [Conn -> Seq({"RegReq"} \cup ClientPayload)]
    <3>1. "Env" \in {"RegReq"} \cup ClientPayload
      BY LinkAssumption
    <3> QED
      BY <1>3, <3>1, PushType DEF Answer
  <2> QED
    BY <1>3, <2>1 DEF Answer
<1>4. CASE AnswerFails BY <1>4 DEF AnswerFails
<1> QED
  BY <1>1, <1>2, <1>3, <1>4 DEF Traffic

LEMMA CountedFault ==
  ASSUME Counted, Fault PROVE Counted'
<1> USE LinkAssumption DEF Counted, TypeOK, CountsMatch, LoopState, EndState, RecvState,
        loopVars, chanVars, clientVars, serverVars, infoVars, envVars
<1>1. CASE DialFails BY <1>1 DEF DialFails
<1>2. ASSUME NEW k \in Conn, Break(k) PROVE Counted'
  BY <1>2 DEF Break
<1>3. CASE ClientRestart
  <2>1. /\ clientIn' \in [Conn -> Seq({"RegRsp", "Env"})]
        /\ clientEnd' \in [Conn -> EndState]
        /\ clientRecv' \in [Conn -> RecvState]
    BY <1>3, EmptySeq DEF ClientRestart
  <2>2. /\ pc' = "drain" /\ cur' = NoConn /\ infoCli' = NoConn /\ clientCount' = 0
        /\ disconnectChan' = FALSE /\ registerResponseChan' = FALSE
        /\ owed' = FALSE /\ faults' = faults + 1
        /\ UNCHANGED <<serverVars, infoVars, broken, sent>>
    BY <1>3 DEF ClientRestart
  <2>3. CountsMatch'
    BY <2>2
  <2>4. /\ serverIn' \in [Conn -> Seq({"RegReq"} \cup ClientPayload)]
        /\ serverEnd' \in [Conn -> EndState]
        /\ serverRecv' \in [Conn -> RecvState]
        /\ session' \in Conn \cup {NoConn} /\ sessions' \subseteq Conn
        /\ bound' \subseteq Conn /\ broken' \subseteq Conn /\ serverCount' \in {0, 1}
    BY <2>2
  <2>5. /\ pc' \in LoopState /\ cur' \in Conn \cup {NoConn}
        /\ infoCli' \in Conn \cup {NoConn} /\ clientCount' \in {0, 1}
        /\ faults' \in Nat /\ sent' \in Nat
    BY <2>2
  <2>6. disconnectChan' \in BOOLEAN /\ registerResponseChan' \in BOOLEAN /\ owed' \in BOOLEAN
    BY <2>2
  <2> QED
    BY <2>1, <2>3, <2>4, <2>5, <2>6
<1>4. CASE ServerRestart
  <2>1. /\ serverIn' \in [Conn -> Seq({"RegReq"} \cup ClientPayload)]
        /\ serverEnd' \in [Conn -> EndState]
        /\ serverRecv' \in [Conn -> RecvState]
    BY <1>4, EmptySeq DEF ServerRestart
  <2>2. /\ session' = NoConn /\ bound' = {} /\ sessions' = {} /\ serverCount' = 0
        /\ faults' = faults + 1
        /\ UNCHANGED <<loopVars, chanVars, clientVars, broken, owed, sent>>
    BY <1>4 DEF ServerRestart
  <2> QED
    BY <2>1, <2>2
<1> QED
  BY <1>1, <1>2, <1>3, <1>4 DEF Fault

LEMMA CountedNext ==
  ASSUME Counted, [Next]_vars PROVE Counted'
<1>1. CASE Next
  BY <1>1, CountedLoop, CountedClientEnd, CountedServerEnd, CountedTraffic, CountedFault
     DEF Next
<1>2. CASE UNCHANGED vars
  BY <1>2 DEF vars, loopVars, chanVars, clientVars, serverVars, infoVars, envVars,
              Counted, TypeOK, CountsMatch
<1> QED
  BY <1>1, <1>2

THEOREM CountedAlways == Spec => []Counted
  BY CountedInit, CountedNext, PTL DEF Spec

\* Every variable keeps its type; in particular neither share of
\* connectedSystemCount goes below zero or above one.
THEOREM TypeCorrect == Spec => []TypeOK
  BY CountedAlways, PTL DEF Counted

\* connectedSystemCount (cluster_client.go:78, 88 and cluster_server.go:39, 65)
\* matches the registration and the state of the client loop.
THEOREM CountsAlwaysMatch == Spec => []CountsMatch
  BY CountedAlways, PTL DEF Counted

-----------------------------------------------------------------------------
(* The server implements Registration.                                       *)

\* A connection that waits to be accepted has no receiver goroutine yet and
\* does not hold the registration.
BacklogIsFresh ==
    \A k \in Conn : serverEnd[k] = "backlog" => serverRecv[k] = "none" /\ session # k

Leased == Counted /\ BacklogIsFresh

LEMMA LeasedInit == Init => Leased
  BY CountedInit DEF Init, Leased, BacklogIsFresh

LEMMA LeasedNext ==
  ASSUME Leased, [Next]_vars PROVE Leased'
<1> USE DEF Leased, BacklogIsFresh, Counted, TypeOK, loopVars, chanVars, clientVars,
        serverVars, infoVars, envVars
<1>1. Counted'
  BY CountedNext
<1>2. ASSUME ClientLoop PROVE BacklogIsFresh'
  <2>1. ASSUME NEW k \in Conn, Dial(k) PROVE BacklogIsFresh'
    BY <2>1 DEF Dial, Free
  <2>2. ASSUME \A k \in Conn : ~Dial(k)
        PROVE  UNCHANGED <<serverEnd, serverRecv, session>>
    BY <1>2, <2>2 DEF ClientLoop, DrainDisconnect, SendRegisterReq, SendRegisterReqFails,
       AwaitDisconnect, AwaitResponse, SetCli, CountUp, ReadyDisconnect, ClearCli,
       CountDown, Wake
  <2> QED
    BY <2>1, <2>2
<1>3. ASSUME NEW k \in Conn,
             \/ ClientReceiver(k) \/ ClientSenderCloses(k)
      PROVE  BacklogIsFresh'
  BY <1>3 DEF ClientReceiver, ClientReadRsp, ClientUnblocked, ClientReadEnv,
     ClientReadFails, ClientCloses, ClientOnDisconnect, ClientSenderCloses
<1>4. ASSUME NEW k \in Conn,
             Accept(k) \/ ServerReceiver(k) \/ ServerSenderCloses(k)
      PROVE  BacklogIsFresh'
  <2>1. CASE Accept(k) BY <2>1 DEF Accept
  <2>2. CASE Register(k) BY <2>2 DEF Register, Readable
  <2>3. CASE RejectRegister(k) \/ ServerReadBad(k)
    BY <2>3 DEF RejectRegister, ServerReadBad, Readable, Disconnect
  <2>4. CASE ServerReadEnv(k) BY <2>4 DEF ServerReadEnv
  <2>5. CASE ServerReadFails(k) BY <2>5 DEF ServerReadFails, ReadFails
  <2>6. CASE ServerCloses(k) BY <2>6 DEF ServerCloses, Disconnect
  <2>7. CASE ServerOnDisconnect(k) BY <2>7, LinkAssumption DEF ServerOnDisconnect
  <2>8. CASE ServerSenderCloses(k) BY <2>8 DEF ServerSenderCloses
  <2> QED
    BY <1>4, <2>1, <2>2, <2>3, <2>4, <2>5, <2>6, <2>7, <2>8 DEF ServerReceiver
<1>5. ASSUME Traffic PROVE BacklogIsFresh'
  BY <1>5 DEF Traffic, ServerSend, ClientSend, Answer, AnswerFails
<1>6. ASSUME Fault PROVE BacklogIsFresh'
  BY <1>6 DEF Fault, DialFails, Break, ClientRestart, ServerRestart
<1>7. ASSUME UNCHANGED vars PROVE BacklogIsFresh'
  BY <1>7 DEF vars
<1> QED
  BY <1>1, <1>2, <1>3, <1>4, <1>5, <1>6, <1>7 DEF Next

LEMMA RegistrationStep ==
  ASSUME Leased, [Next]_vars PROVE [R!Next]_(R!lease)
<1> USE DEF Leased, Counted, TypeOK, Alive, R!lease, loopVars, chanVars, clientVars,
        serverVars, infoVars, envVars
<1> DEFINE Same == UNCHANGED <<serverRecv, session, serverCount>>
<1>0. Same => UNCHANGED R!lease
  OBVIOUS
<1>1. ASSUME ClientLoop PROVE UNCHANGED R!lease
  <2>1. ASSUME NEW k \in Conn, Dial(k) PROVE UNCHANGED R!lease
    BY <2>1 DEF Dial, Free
  <2>2. ASSUME \A k \in Conn : ~Dial(k) PROVE Same
    BY <1>1, <2>2 DEF ClientLoop, DrainDisconnect, SendRegisterReq, SendRegisterReqFails,
       AwaitDisconnect, AwaitResponse, SetCli, CountUp, ReadyDisconnect, ClearCli,
       CountDown, Wake
  <2> QED
    BY <1>0, <2>1, <2>2
<1>2. ASSUME NEW k \in Conn, ClientReceiver(k) \/ ClientSenderCloses(k)
      PROVE  Same
  BY <1>2 DEF ClientReceiver, ClientReadRsp, ClientUnblocked, ClientReadEnv,
     ClientReadFails, ClientCloses, ClientOnDisconnect, ClientSenderCloses
<1>3. ASSUME NEW k \in Conn, Accept(k) \/ ServerReceiver(k) \/ ServerSenderCloses(k)
      PROVE  [R!Next]_(R!lease)
  <2>1. CASE Accept(k)
    <3>1. k \notin Alive /\ k # session
      BY <2>1 DEF Accept, BacklogIsFresh
    <3>2. Alive' = Alive \cup {k}
      BY <2>1 DEF Accept
    <3> QED
      BY <2>1, <3>1, <3>2 DEF Accept, R!Next, R!Begin
  <2>2. CASE Register(k)
    BY <2>2 DEF Register, Readable, R!Next, R!Admit
  <2>3. CASE RejectRegister(k) \/ ServerReadEnv(k) \/ ServerReadBad(k)
    BY <1>0, <2>3 DEF RejectRegister, ServerReadEnv, ServerReadBad
  <2>4. CASE ServerReadFails(k)
    <3>1. Alive' = Alive
      BY <2>4 DEF ServerReadFails, ReadFails
    <3> QED
      BY <2>4, <3>1 DEF ServerReadFails
  <2>5. CASE ServerCloses(k)
    <3>1. k \in Alive /\ Alive' = Alive \ {k}
      BY <2>5 DEF ServerCloses
    <3> QED
      BY <2>5, <3>1 DEF ServerCloses, R!Next, R!End
  <2>6. CASE ServerOnDisconnect(k)
    <3>1. k \notin Alive /\ Alive' = Alive
      BY <2>6 DEF ServerOnDisconnect
    <3>2. CASE k \in bound /\ session = k
      BY <2>6, <3>1, <3>2, LinkAssumption DEF ServerOnDisconnect, R!Next, R!Release
    <3>3. CASE ~(k \in bound /\ session = k)
      BY <2>6, <3>1, <3>3 DEF ServerOnDisconnect
    <3> QED
      BY <3>2, <3>3
  <2>7. CASE ServerSenderCloses(k)
    BY <1>0, <2>7 DEF ServerSenderCloses
  <2> QED
    BY <1>3, <2>1, <2>2, <2>3, <2>4, <2>5, <2>6, <2>7 DEF ServerReceiver
<1>4. ASSUME Traffic PROVE Same
  BY <1>4 DEF Traffic, ServerSend, ClientSend, Answer, AnswerFails
<1>5. ASSUME Fault PROVE [R!Next]_(R!lease)
  <2>1. CASE ServerRestart
    <3>1. Alive' = {}
      BY <2>1 DEF ServerRestart
    <3> QED
      BY <2>1, <3>1 DEF ServerRestart, R!Next, R!Restart
  <2>2. ASSUME ~ServerRestart PROVE Same
    BY <1>5, <2>2 DEF Fault, DialFails, Break, ClientRestart
  <2> QED
    BY <1>0, <2>1, <2>2
<1>6. ASSUME UNCHANGED vars PROVE Same
  BY <1>6 DEF vars
<1> QED
  BY <1>0, <1>1, <1>2, <1>3, <1>4, <1>5, <1>6 DEF Next

\* The registration slot systemInfo.session, its bind object and the count of
\* the server behave as Registration says: cluster_server.go:23-41, 55-75.
THEOREM RegistrationImplemented == Spec => ImplementsRegistration
<1>1. Init => R!Init
  BY DEF Init, R!Init, Alive
<1>2. Leased /\ [Next]_vars => Leased'
  BY LeasedNext
<1>3. Leased /\ [Next]_vars => [R!Next]_(R!lease)
  BY RegistrationStep
<1> QED
  BY <1>1, <1>2, <1>3, LeasedInit, PTL DEF Spec, ImplementsRegistration, R!Spec

-----------------------------------------------------------------------------
(* The client loop keeps track of its connection, as long as the 5 s back-off *)
(* outlasts a disconnect callback that is about to run.                       *)

Working == {"register", "await", "setCli", "countUp", "ready"}

\* Until its receiver goroutine closes it, a connection is open.
OpenUntilClosed ==
    \A k \in Conn : clientEnd[k] = "open" <=> clientRecv[k] \in {"reading", "blocked", "failed"}

\* At most one of these is there at a time, and it is about the connection the
\* loop works on or backs off from: an open connection, a callback that has not
\* run yet, a token in disconnectChan.
OneDisconnectPending ==
    /\ \A k \in Conn : clientEnd[k] = "open" =>
          k = cur /\ pc \in Working /\ ~disconnectChan
    /\ \A k \in Conn : clientRecv[k] = "callback" =>
          k = cur /\ pc \in Working \cup {"sleep"} /\ ~disconnectChan
    /\ disconnectChan => pc \in Working \cup {"sleep", "drain"}

Tracked == Counted /\ OpenUntilClosed /\ OneDisconnectPending

LEMMA TrackedInit == Init => Tracked
  BY CountedInit DEF Init, Tracked, OpenUntilClosed, OneDisconnectPending

LEMMA TrackedNext ==
  ASSUME PromptCallbacks, Tracked, [Next]_vars PROVE Tracked'
<1> USE DEF Tracked, OpenUntilClosed, OneDisconnectPending, Working, Counted, TypeOK,
        loopVars, chanVars, clientVars, serverVars, infoVars, envVars
<1>1. Counted'
  BY CountedNext
<1> DEFINE Goal == OpenUntilClosed' /\ OneDisconnectPending'
<1>2. ASSUME ClientLoop PROVE Goal
  <2>1. CASE DrainDisconnect BY <2>1 DEF DrainDisconnect
  <2>2. ASSUME NEW k \in Conn, Dial(k) PROVE Goal
    BY <2>2 DEF Dial, Free
  <2>3. CASE SendRegisterReq BY <2>3 DEF SendRegisterReq
  <2>4. CASE SendRegisterReqFails BY <2>4 DEF SendRegisterReqFails, Disconnect
  <2>5. CASE AwaitDisconnect BY <2>5 DEF AwaitDisconnect
  <2>6. CASE AwaitResponse BY <2>6 DEF AwaitResponse
  <2>7. CASE SetCli BY <2>7 DEF SetCli
  <2>8. CASE CountUp BY <2>8 DEF CountUp
  <2>9. CASE ReadyDisconnect BY <2>9 DEF ReadyDisconnect
  <2>10. CASE ClearCli BY <2>10 DEF ClearCli
  <2>11. CASE CountDown BY <2>11 DEF CountDown
  <2>12. CASE Wake
    \* A pending callback excludes a token, so the back-off lasts until it has run.
    <3>1. \A k \in Conn : clientRecv[k] # "callback"
      BY <2>12 DEF Wake
    <3> QED
      BY <2>12, <3>1 DEF Wake
  <2> QED
    BY <1>2, <2>1, <2>2, <2>3, <2>4, <2>5, <2>6, <2>7, <2>8, <2>9, <2>10, <2>11, <2>12
       DEF ClientLoop
<1>3. ASSUME NEW k \in Conn, ClientReceiver(k) \/ ClientSenderCloses(k) PROVE Goal
  <2>1. CASE ClientReadRsp(k) BY <2>1 DEF ClientReadRsp, Readable
  <2>2. CASE ClientUnblocked(k) BY <2>2 DEF ClientUnblocked
  <2>3. CASE ClientReadEnv(k) BY <2>3 DEF ClientReadEnv
  <2>4. CASE ClientReadFails(k) BY <2>4 DEF ClientReadFails, ReadFails
  <2>5. CASE ClientCloses(k)
    \* Nobody else closes the queue, so the callback is due.
    <3>1. clientEnd[k] = "open"
      BY <2>5 DEF ClientCloses
    <3> QED
      BY <2>5, <3>1 DEF ClientCloses, Disconnect
  <2>6. CASE ClientOnDisconnect(k) BY <2>6 DEF ClientOnDisconnect
  <2>7. CASE ClientSenderCloses(k) BY <2>7 DEF ClientSenderCloses
  <2> QED
    BY <1>3, <2>1, <2>2, <2>3, <2>4, <2>5, <2>6, <2>7 DEF ClientReceiver
<1>4. ASSUME NEW k \in Conn, Accept(k) \/ ServerReceiver(k) \/ ServerSenderCloses(k)
      PROVE  UNCHANGED <<pc, cur, disconnectChan, clientEnd, clientRecv>>
  BY <1>4 DEF Accept, ServerReceiver, Register, RejectRegister, ServerReadEnv,
     ServerReadBad, ServerReadFails, ServerCloses, ServerOnDisconnect, ServerSenderCloses
<1>5. ASSUME Traffic
      PROVE  UNCHANGED <<pc, cur, disconnectChan, clientEnd, clientRecv>>
  BY <1>5 DEF Traffic, ServerSend, ClientSend, Answer, AnswerFails
<1>6. ASSUME Fault PROVE Goal
  <2>1. CASE DialFails BY <2>1 DEF DialFails
  <2>2. ASSUME NEW k \in Conn, Break(k) PROVE Goal
    BY <2>2 DEF Break
  <2>3. CASE ClientRestart BY <2>3 DEF ClientRestart
  <2>4. CASE ServerRestart BY <2>4 DEF ServerRestart
  <2> QED
    BY <1>6, <2>1, <2>2, <2>3, <2>4 DEF Fault
<1>7. ASSUME UNCHANGED vars
      PROVE  UNCHANGED <<pc, cur, disconnectChan, clientEnd, clientRecv>>
  BY <1>7 DEF vars
<1>8. ASSUME UNCHANGED <<pc, cur, disconnectChan, clientEnd, clientRecv>> PROVE Goal
  BY <1>8
<1> HIDE DEF Goal
<1>9. Goal
  BY <1>2, <1>3, <1>4, <1>5, <1>6, <1>7, <1>8 DEF Next
<1> QED
  BY <1>1, <1>9 DEF Goal

\* With a back-off that outlasts the callback, no connection of the client is
\* ever left open behind its back: cluster_client.go:33-90, conn.go:54-75.
THEOREM NeverOrphaned ==
  ASSUME PromptCallbacks
  PROVE  Spec => []NoOrphanConnection
<1>1. Tracked /\ [Next]_vars => Tracked'
  BY TrackedNext
<1>2. Tracked => NoOrphanConnection
  BY DEF Tracked, OneDisconnectPending, Working, NoOrphanConnection
<1> QED
  BY <1>1, <1>2, TrackedInit, PTL DEF Spec

-----------------------------------------------------------------------------
(* A registered session is always going to be cleared, as long as the server  *)
(* can decode what the client sends.                                          *)

\* Envelopes go out over a connection only once the client has registered it.
SendsOnlyWhenRegistered ==
    /\ infoCli # NoConn => infoCli = cur /\ pc \in {"countUp", "ready", "clearCli"}
    /\ pc \in Working => cur \in Conn

\* Before the client registers, nothing is on its way on the new connection and
\* the server has not closed it.
FreshBeforeRegister ==
    pc = "register" =>
        /\ serverIn[cur] = <<>> /\ session # cur
        /\ serverRecv[cur] = "reading" => serverEnd[cur] = "open"

\* A registration request comes first and finds its connection open and not
\* yet registered.
OneRegistration ==
    \A k \in Conn : \A i \in DOMAIN serverIn[k] :
        serverIn[k][i] = "RegReq" =>
            /\ i = 1
            /\ serverRecv[k] = "reading" => serverEnd[k] = "open" /\ session # k

SessionsListed ==
    \A k \in Conn : serverRecv[k] \in {"reading", "failed", "callback"} => k \in sessions

Clearable ==
    /\ Leased /\ SendsOnlyWhenRegistered /\ FreshBeforeRegister /\ OneRegistration
    /\ SessionsListed /\ BindingWillBeCleared

LEMMA EmptyDomain == DOMAIN <<>> = {}
  OBVIOUS

LEMMA AppendElements ==
  ASSUME NEW S, NEW s \in Seq(S), NEW m \in S, NEW i \in DOMAIN Append(s, m)
  PROVE  \/ i \in DOMAIN s /\ Append(s, m)[i] = s[i]
         \/ i = Len(s) + 1 /\ Append(s, m)[i] = m
  OBVIOUS

LEMMA PushElements ==
  ASSUME NEW S, NEW in \in [Conn -> Seq(S)], NEW peerEnd, NEW k \in Conn, NEW m \in S,
         NEW c \in Conn, NEW i \in DOMAIN Push(in, peerEnd, k, m)[c]
  PROVE  \/ i \in DOMAIN in[c] /\ Push(in, peerEnd, k, m)[c][i] = in[c][i]
         \/ c = k /\ i = Len(in[c]) + 1 /\ Push(in, peerEnd, k, m)[c][i] = m
<1>1. in[c] \in Seq(S)
  OBVIOUS
<1>2. \/ Push(in, peerEnd, k, m)[c] = in[c]
      \/ c = k /\ Push(in, peerEnd, k, m)[c] = Append(in[c], m)
  BY DEF Push
<1>3. CASE Push(in, peerEnd, k, m)[c] = in[c]
  BY <1>3
<1>4. CASE c = k /\ Push(in, peerEnd, k, m)[c] = Append(in[c], m)
  BY <1>1, <1>4, AppendElements
<1> QED
  BY <1>2, <1>3, <1>4

LEMMA PopElements ==
  ASSUME NEW S, NEW in \in [Conn -> Seq(S)], NEW k \in Conn, in[k] # <<>>,
         NEW c \in Conn, NEW i \in DOMAIN Pop(in, k)[c]
  PROVE  \/ c # k /\ Pop(in, k)[c] = in[c]
         \/ c = k /\ i + 1 \in DOMAIN in[c] /\ i \in Nat \ {0} /\ Pop(in, k)[c][i] = in[c][i + 1]
<1>1. in[c] \in Seq(S)
  OBVIOUS
<1>2. CASE c = k
  <2>1. Pop(in, k)[c] = Tail(in[c])
    BY <1>2 DEF Pop
  <2> QED
    BY <1>1, <1>2, <2>1
<1>3. CASE c # k
  BY <1>3 DEF Pop
<1> QED
  BY <1>2, <1>3

LEMMA ClearableInit == Init => Clearable
<1> SUFFICES ASSUME Init PROVE Clearable
  OBVIOUS
<1>1. Leased
  BY LeasedInit
<1>2. OneRegistration
  <2>1. \A k \in Conn : serverIn[k] = <<>>
    BY DEF Init
  <2>2. \A k \in Conn : DOMAIN serverIn[k] = {}
    BY <2>1, EmptyDomain
  <2> QED
    BY <2>2 DEF OneRegistration
<1>3. /\ SendsOnlyWhenRegistered /\ FreshBeforeRegister /\ SessionsListed
      /\ BindingWillBeCleared
  BY DEF Init, SendsOnlyWhenRegistered, FreshBeforeRegister, SessionsListed, Working,
     BindingWillBeCleared
<1> QED
  BY <1>1, <1>2, <1>3 DEF Clearable

LEMMA SendsOnlyWhenRegisteredNext ==
  ASSUME Counted, SendsOnlyWhenRegistered, [Next]_vars
  PROVE  SendsOnlyWhenRegistered'
<1> USE DEF SendsOnlyWhenRegistered, Working, Counted, TypeOK, loopVars, chanVars,
        clientVars, serverVars, infoVars, envVars
<1>1. CASE ClientLoop
  BY <1>1, LinkAssumption DEF ClientLoop, DrainDisconnect, Dial, SendRegisterReq,
     SendRegisterReqFails, AwaitDisconnect, AwaitResponse, SetCli, CountUp,
     ReadyDisconnect, ClearCli, CountDown, Wake
<1>2. ASSUME NEW k \in Conn,
             \/ ClientReceiver(k) \/ ClientSenderCloses(k)
             \/ Accept(k) \/ ServerReceiver(k) \/ ServerSenderCloses(k)
      PROVE  UNCHANGED <<pc, cur, infoCli>>
  BY <1>2 DEF ClientReceiver, ClientReadRsp, ClientUnblocked, ClientReadEnv,
     ClientReadFails, ClientCloses, ClientOnDisconnect, ClientSenderCloses, Accept,
     ServerReceiver, Register, RejectRegister, ServerReadEnv, ServerReadBad,
     ServerReadFails, ServerCloses, ServerOnDisconnect, ServerSenderCloses
<1>3. CASE Traffic
  BY <1>3 DEF Traffic, ServerSend, ClientSend, Answer, AnswerFails
<1>4. CASE Fault
  BY <1>4 DEF Fault, DialFails, Break, ClientRestart, ServerRestart
<1>5. CASE UNCHANGED vars
  BY <1>5 DEF vars
<1> QED
  BY <1>1, <1>2, <1>3, <1>4, <1>5 DEF Next

\* Once a message of a connection is read, no registration request is left on it.
LEMMA RequestReadOnce ==
  ASSUME Clearable, NEW c \in Conn, serverIn[c] # <<>>, serverIn' = Pop(serverIn, c)
  PROVE  \A i \in DOMAIN serverIn'[c] : serverIn'[c][i] # "RegReq"
<1> DEFINE Sort == {"RegReq"} \cup ClientPayload
<1>1. serverIn \in [Conn -> Seq(Sort)]
  BY DEF Clearable, Leased, Counted, TypeOK
<1> SUFFICES ASSUME NEW i \in DOMAIN serverIn'[c], serverIn'[c][i] = "RegReq"
             PROVE  FALSE
  OBVIOUS
<1>2. i \in DOMAIN Pop(serverIn, c)[c]
  OBVIOUS
<1> HIDE DEF Sort
<1>3. /\ i + 1 \in DOMAIN serverIn[c] /\ i \in Nat \ {0}
      /\ serverIn'[c][i] = serverIn[c][i + 1]
  BY <1>1, <1>2, PopElements
<1>4. i + 1 = 1
  BY <1>3 DEF Clearable, OneRegistration
<1> QED
  BY <1>3, <1>4

\* What a step does to the messages on their way to the server.
LEMMA ServerInSteps ==
  ASSUME Clearable, [Next]_vars, NEW k \in Conn, NEW i \in DOMAIN serverIn'[k],
         serverIn'[k][i] = "RegReq"
  PROVE  \/ i \in DOMAIN serverIn[k] /\ serverIn[k][i] = "RegReq" /\ i = 1
         \/ SendRegisterReq /\ k = cur /\ i = 1
<1> USE DEF Clearable, Leased, Counted, TypeOK
<1> DEFINE Sort == {"RegReq"} \cup ClientPayload
<1>0. /\ serverIn \in [Conn -> Seq(Sort)]
      /\ \A m \in ClientPayload : m # "RegReq"
      /\ "Env" \in ClientPayload
  BY LinkAssumption
<1>1. ASSUME UNCHANGED serverIn
      PROVE  i \in DOMAIN serverIn[k] /\ serverIn[k][i] = "RegReq" /\ i = 1
  BY <1>1 DEF OneRegistration
<1>2. ASSUME NEW c \in Conn, serverIn[c] # <<>>, serverIn' = Pop(serverIn, c)
      PROVE  i \in DOMAIN serverIn[k] /\ serverIn[k][i] = "RegReq" /\ i = 1
  <2>1. c # k
    BY <1>2, RequestReadOnce
  <2> QED
    BY <1>2, <2>1 DEF Pop, OneRegistration
<1>3. ASSUME NEW c \in Conn, NEW e, NEW m \in Sort, serverIn' = Push(serverIn, e, c, m)
      PROVE  \/ i \in DOMAIN serverIn[k] /\ serverIn[k][i] = "RegReq" /\ i = 1
             \/ k = c /\ i = Len(serverIn[k]) + 1 /\ m = "RegReq"
  <2>1. \/ i \in DOMAIN serverIn[k] /\ serverIn'[k][i] = serverIn[k][i]
        \/ k = c /\ i = Len(serverIn[k]) + 1 /\ serverIn'[k][i] = m
    <3>1. i \in DOMAIN Push(serverIn, e, c, m)[k]
      BY <1>3
    <3> HIDE DEF Clearable, Leased, Counted, TypeOK, Sort
    <3> QED
      BY <1>0, <1>3, <3>1, PushElements
  <2> QED
    BY <2>1 DEF OneRegistration
<1>4. CASE ClientLoop
  <2>1. CASE SendRegisterReq
    <3>1. cur \in Conn /\ Len(serverIn[cur]) = 0 /\ "RegReq" \in Sort
      BY <2>1 DEF SendRegisterReq, SendsOnlyWhenRegistered, FreshBeforeRegister, Working
    <3>2. serverIn' = Push(serverIn, serverEnd, cur, "RegReq")
      BY <2>1 DEF SendRegisterReq
    <3>3. \/ i \in DOMAIN serverIn[k] /\ serverIn[k][i] = "RegReq" /\ i = 1
          \/ k = cur /\ i = Len(serverIn[k]) + 1
      BY <1>3, <3>1, <3>2
    <3> QED
      BY <2>1, <3>1, <3>3
  <2>2. ASSUME NEW c \in Conn, Dial(c) PROVE i \in DOMAIN serverIn[k] /\ serverIn[k][i] = "RegReq" /\ i = 1
    <3>1. serverIn' = [serverIn EXCEPT ![c] = <<>>]
      BY <2>2 DEF Dial
    <3>2. c # k
      BY <3>1, EmptyDomain
    <3> QED
      BY <3>1, <3>2 DEF OneRegistration
  <2>3. ASSUME ~SendRegisterReq, \A c \in Conn : ~Dial(c) PROVE UNCHANGED serverIn
    BY <1>4, <2>3 DEF ClientLoop, DrainDisconnect, SendRegisterReqFails, AwaitDisconnect,
       AwaitResponse, SetCli, CountUp, ReadyDisconnect, ClearCli, CountDown, Wake,
       serverVars
  <2> QED
    BY <1>1, <2>1, <2>2, <2>3
<1>5. ASSUME NEW c \in Conn, ClientReceiver(c) \/ ClientSenderCloses(c)
      PROVE  UNCHANGED serverIn
  BY <1>5 DEF ClientReceiver, ClientReadRsp, ClientUnblocked, ClientReadEnv,
     ClientReadFails, ClientCloses, ClientOnDisconnect, ClientSenderCloses, serverVars
<1>6. ASSUME NEW c \in Conn, Accept(c) \/ ServerReceiver(c) \/ ServerSenderCloses(c)
      PROVE  \/ UNCHANGED serverIn
             \/ serverIn[c] # <<>> /\ serverIn' = Pop(serverIn, c)
  BY <1>6 DEF Accept, ServerReceiver, Register, RejectRegister, ServerReadEnv,
     ServerReadBad, ServerReadFails, ServerCloses, ServerOnDisconnect,
     ServerSenderCloses, Readable, serverVars
<1>7. ASSUME Traffic
      PROVE  \/ UNCHANGED serverIn
             \/ \E m \in ClientPayload : infoCli \in Conn /\ serverIn' = Push(serverIn, serverEnd, infoCli, m)
  <2>1. CASE ServerSend BY <2>1 DEF ServerSend, serverVars
  <2>2. ASSUME NEW m \in ClientPayload, ClientSend(m)
        PROVE  infoCli \in Conn /\ serverIn' = Push(serverIn, serverEnd, infoCli, m)
    BY <2>2 DEF ClientSend, ClientCanSend
  <2>3. CASE Answer
    BY <1>0, <2>3 DEF Answer, ClientCanSend
  <2>4. CASE AnswerFails BY <2>4 DEF AnswerFails, serverVars
  <2> QED
    BY <1>7, <2>1, <2>2, <2>3, <2>4 DEF Traffic
<1>8. CASE Fault
  <2>1. CASE ServerRestart
    BY <2>1, EmptyDomain DEF ServerRestart
  <2>2. ASSUME ~ServerRestart PROVE UNCHANGED serverIn
    BY <1>8, <2>2 DEF Fault, DialFails, Break, ClientRestart, serverVars
  <2> QED
    BY <1>1, <2>1, <2>2
<1>9. CASE UNCHANGED vars
  BY <1>1, <1>9 DEF vars, serverVars
<1>10. CASE Traffic
  <2>1. ASSUME NEW m \in ClientPayload, infoCli \in Conn,
               serverIn' = Push(serverIn, serverEnd, infoCli, m)
        PROVE  i \in DOMAIN serverIn[k] /\ serverIn[k][i] = "RegReq" /\ i = 1
    <3>1. m \in Sort
      OBVIOUS
    <3> QED
      BY <1>0, <1>3, <2>1, <3>1
  <2> QED
    BY <1>1, <1>7, <1>10, <2>1
<1> QED
  BY <1>1, <1>2, <1>4, <1>5, <1>6, <1>8, <1>9, <1>10 DEF Next

LEMMA ClearableServerReads ==
  ASSUME "Bad" \notin ClientPayload, Clearable, NEW c \in Conn,
         Register(c) \/ RejectRegister(c) \/ ServerReadEnv(c) \/ ServerReadBad(c)
  PROVE  FreshBeforeRegister' /\ OneRegistration' /\ SessionsListed' /\ BindingWillBeCleared'
<1> USE DEF Clearable, Leased, Counted, TypeOK, loopVars, chanVars, clientVars, serverVars,
        infoVars, envVars
<1>1. /\ serverIn[c] # <<>> /\ serverIn' = Pop(serverIn, c) /\ serverRecv[c] = "reading"
      /\ UNCHANGED <<pc, cur, serverRecv, sessions>>
  BY DEF Register, RejectRegister, ServerReadEnv, ServerReadBad, Readable
<1>2. \A i \in DOMAIN serverIn'[c] : serverIn'[c][i] # "RegReq"
  BY <1>1, RequestReadOnce
<1>3. \A k \in Conn \ {c} : serverIn'[k] = serverIn[k]
  BY <1>1 DEF Pop
<1>4. pc = "register" => cur \in Conn \ {c}
  BY <1>1 DEF SendsOnlyWhenRegistered, Working, FreshBeforeRegister
<1>5. ~ServerReadBad(c)
  <2>1. serverIn[c] \in Seq({"RegReq", "Env"})
    BY LinkAssumption
  <2>2. Head(serverIn[c]) # "Bad"
    BY <1>1, <2>1
  <2> QED
    BY <2>2 DEF ServerReadBad, Readable
\* A registration request finds the connection open and without registration.
<1>6. ASSUME Register(c) \/ RejectRegister(c)
      PROVE  serverEnd[c] = "open" /\ session # c
  <2>1. 1 \in DOMAIN serverIn[c] /\ serverIn[c][1] = "RegReq"
    <3>1. serverIn[c] \in Seq({"RegReq"} \cup ClientPayload)
      OBVIOUS
    <3>2. Head(serverIn[c]) = "RegReq"
      BY <1>6 DEF Register, RejectRegister, Readable
    <3> QED
      BY <1>1, <3>1, <3>2
  <2> QED
    BY <1>1, <2>1 DEF OneRegistration
<1>7. CASE Register(c)
  <2>1. session' = c /\ UNCHANGED serverEnd
    BY <1>7 DEF Register
  <2>2. c \in sessions
    BY <1>1 DEF SessionsListed
  <2>3. BindingWillBeCleared'
    BY <1>1, <1>6, <1>7, <2>1, <2>2 DEF BindingWillBeCleared
  <2>4. FreshBeforeRegister' /\ OneRegistration' /\ SessionsListed'
    BY ZenonT(60), <1>1, <1>2, <1>3, <1>4, <2>1 DEF FreshBeforeRegister, OneRegistration, SessionsListed
  <2> QED
    BY <2>3, <2>4
<1>8. CASE RejectRegister(c)
  <2>1. /\ UNCHANGED session
        /\ \A k \in Conn \ {c} : serverEnd'[k] = serverEnd[k]
    BY <1>8 DEF RejectRegister, Disconnect
  <2>2. BindingWillBeCleared'
    BY <1>1, <1>6, <1>8, <2>1 DEF BindingWillBeCleared
  <2>3. FreshBeforeRegister' /\ OneRegistration' /\ SessionsListed'
    BY SMTT(30), <1>1, <1>2, <1>3, <1>4, <2>1 DEF FreshBeforeRegister, OneRegistration, SessionsListed
  <2> QED
    BY <2>2, <2>3
<1>9. CASE ServerReadEnv(c)
  <2>1. UNCHANGED <<session, serverEnd>>
    BY <1>9 DEF ServerReadEnv
  <2> QED
    BY ZenonT(60), <1>1, <1>2, <1>3, <1>4, <2>1
       DEF FreshBeforeRegister, OneRegistration, SessionsListed, BindingWillBeCleared
<1> QED
  BY <1>5, <1>7, <1>8, <1>9

LEMMA ClearableServerEnd ==
  ASSUME Clearable, NEW c \in Conn,
         \/ Accept(c) \/ ServerReadFails(c) \/ ServerCloses(c) \/ ServerOnDisconnect(c)
         \/ ServerSenderCloses(c)
  PROVE  FreshBeforeRegister' /\ OneRegistration' /\ SessionsListed' /\ BindingWillBeCleared'
<1> USE DEF Clearable, Leased, Counted, TypeOK, loopVars, chanVars, clientVars, serverVars,
        infoVars, envVars
<1>1. UNCHANGED <<pc, cur, serverIn>>
  BY DEF Accept, ServerReadFails, ServerCloses, ServerOnDisconnect, ServerSenderCloses
<1>2. pc = "register" => cur \in Conn
  BY DEF SendsOnlyWhenRegistered, Working
<1> USE DEF FreshBeforeRegister, OneRegistration, SessionsListed
<1>3. CASE Accept(c)
  <2>1. session # c /\ session' = session
    BY <1>3 DEF Accept, BacklogIsFresh
  <2>2. /\ serverEnd' = [serverEnd EXCEPT ![c] = "open"]
        /\ serverRecv' = [serverRecv EXCEPT ![c] = "reading"]
        /\ sessions' = sessions \cup {c}
    BY <1>3 DEF Accept
  <2>3. BindingWillBeCleared'
    BY <2>1, <2>2 DEF BindingWillBeCleared
  <2> QED
    BY <1>1, <1>2, <2>1, <2>2, <2>3
<1>4. CASE ServerReadFails(c)
  <2>1. BindingWillBeCleared'
    BY <1>4 DEF ServerReadFails, ReadFails, BindingWillBeCleared
  <2> QED
    BY <1>1, <1>2, <1>4, <2>1 DEF ServerReadFails, ReadFails
<1>5. CASE ServerCloses(c)
  <2>1. BindingWillBeCleared'
    BY <1>5 DEF ServerCloses, Disconnect, BindingWillBeCleared
  <2> QED
    BY <1>1, <1>2, <1>5, <2>1 DEF ServerCloses, Disconnect
<1>6. CASE ServerOnDisconnect(c)
  <2>1. BindingWillBeCleared'
    BY <1>6 DEF ServerOnDisconnect, CountsMatch, BindingWillBeCleared
  <2>2. session' = session \/ session' = NoConn
    BY <1>6 DEF ServerOnDisconnect
  <2> QED
    BY <1>1, <1>2, <1>6, <2>1, <2>2, LinkAssumption DEF ServerOnDisconnect
<1>7. CASE ServerSenderCloses(c)
  <2>1. BindingWillBeCleared'
    BY <1>7 DEF ServerSenderCloses, BindingWillBeCleared
  <2> QED
    BY <1>1, <1>2, <1>7, <2>1 DEF ServerSenderCloses
<1> QED
  BY <1>3, <1>4, <1>5, <1>6, <1>7

\* Steps of anybody else leave the server's side alone but for the messages on
\* their way to it.
LEMMA ClearableOthers ==
  ASSUME Clearable, [Next]_vars,
         UNCHANGED <<serverEnd, serverRecv, session, sessions>>
  PROVE  OneRegistration' /\ SessionsListed' /\ BindingWillBeCleared'
<1>1. ASSUME NEW k \in Conn, NEW i \in DOMAIN serverIn'[k], serverIn'[k][i] = "RegReq"
      PROVE  /\ i = 1
             /\ serverRecv'[k] = "reading" => serverEnd'[k] = "open" /\ session' # k
  <2>1. CASE i \in DOMAIN serverIn[k] /\ serverIn[k][i] = "RegReq" /\ i = 1
    BY <2>1 DEF Clearable, OneRegistration
  <2>2. CASE SendRegisterReq /\ k = cur /\ i = 1
    BY <2>2 DEF SendRegisterReq, Clearable, FreshBeforeRegister
  <2> QED
    BY <1>1, <2>1, <2>2, ServerInSteps
<1> QED
  BY <1>1 DEF OneRegistration, Clearable, SessionsListed, BindingWillBeCleared

LEMMA ClearableNext ==
  ASSUME "Bad" \notin ClientPayload, Clearable, [Next]_vars PROVE Clearable'
<1> USE DEF loopVars, chanVars, clientVars, serverVars, infoVars, envVars
<1>1. Leased' /\ SendsOnlyWhenRegistered'
  BY LeasedNext, SendsOnlyWhenRegisteredNext DEF Clearable, Leased
<1> DEFINE Goal == /\ FreshBeforeRegister' /\ OneRegistration' /\ SessionsListed'
                   /\ BindingWillBeCleared'
<1> DEFINE ServerStill == UNCHANGED <<serverEnd, serverRecv, session, sessions>>
<1>2. ASSUME ClientLoop PROVE Goal
  <2>1. ASSUME NEW k \in Conn, Dial(k) PROVE Goal
    <3> USE DEF Clearable, Leased, Counted, TypeOK
    <3>1. /\ session # k /\ UNCHANGED session /\ pc' = "register" /\ cur' = k
          /\ serverEnd' = [serverEnd EXCEPT ![k] = "backlog"]
          /\ serverRecv' = [serverRecv EXCEPT ![k] = "none"]
          /\ serverIn' = [serverIn EXCEPT ![k] = <<>>]
          /\ sessions' = sessions \ {k}
      BY <2>1 DEF Dial, Free
    <3>2. FreshBeforeRegister'
      BY <3>1 DEF FreshBeforeRegister
    <3>3. OneRegistration'
      BY <3>1, EmptyDomain DEF OneRegistration
    <3>4. SessionsListed' /\ BindingWillBeCleared'
      BY <3>1 DEF SessionsListed, BindingWillBeCleared
    <3> QED
      BY <3>2, <3>3, <3>4
  <2>2. ASSUME \A k \in Conn : ~Dial(k) PROVE ServerStill /\ pc' # "register"
    BY <1>2, <2>2 DEF ClientLoop, DrainDisconnect, SendRegisterReq, SendRegisterReqFails,
       AwaitDisconnect, AwaitResponse, SetCli, CountUp, ReadyDisconnect, ClearCli,
       CountDown, Wake
  <2> QED
    BY <2>1, <2>2, ClearableOthers DEF FreshBeforeRegister
<1>3. ASSUME NEW k \in Conn, ClientReceiver(k) \/ ClientSenderCloses(k)
      PROVE  ServerStill /\ UNCHANGED <<pc, cur, serverIn>>
  BY <1>3 DEF ClientReceiver, ClientReadRsp, ClientUnblocked, ClientReadEnv,
     ClientReadFails, ClientCloses, ClientOnDisconnect, ClientSenderCloses
<1>4. ASSUME Traffic PROVE Goal
  <2>1. ServerStill /\ UNCHANGED <<pc, cur>>
    BY <1>4 DEF Traffic, ServerSend, ClientSend, Answer, AnswerFails
  <2>2. pc = "register" => UNCHANGED serverIn
    BY <1>4 DEF Traffic, ServerSend, ClientSend, Answer, AnswerFails, ClientCanSend,
       Clearable, SendsOnlyWhenRegistered
  <2> QED
    BY <2>1, <2>2, ClearableOthers DEF Clearable, FreshBeforeRegister
<1>5. ASSUME Fault PROVE Goal
  <2>1. CASE ServerRestart
    <3>1. /\ session' = NoConn /\ UNCHANGED <<pc, cur>>
          /\ \A k \in Conn : serverIn'[k] = <<>> /\ serverRecv'[k] \in {"none", "done"}
      BY <2>1 DEF ServerRestart
    <3>2. pc = "register" => cur \in Conn
      BY DEF Clearable, SendsOnlyWhenRegistered, Working
    <3> QED
      BY <3>1, <3>2, EmptyDomain, LinkAssumption
         DEF FreshBeforeRegister, OneRegistration, SessionsListed, BindingWillBeCleared
  <2>2. ASSUME ~ServerRestart
        PROVE  /\ ServerStill /\ UNCHANGED serverIn
               /\ pc' # "register" \/ UNCHANGED <<pc, cur>>
    BY <1>5, <2>2 DEF Fault, DialFails, Break, ClientRestart
  <2> QED
    BY <2>1, <2>2, ClearableOthers DEF Clearable, FreshBeforeRegister
<1>6. ASSUME UNCHANGED vars PROVE Goal
  BY <1>6, ClearableOthers DEF vars, Clearable, FreshBeforeRegister
<1>7. ASSUME NEW k \in Conn, ClientReceiver(k) \/ ClientSenderCloses(k) PROVE Goal
  BY <1>3, <1>7, ClearableOthers DEF Clearable, FreshBeforeRegister
<1>8. ASSUME NEW k \in Conn, Accept(k) \/ ServerReceiver(k) \/ ServerSenderCloses(k)
      PROVE  Goal
  <2>1. CASE Register(k) \/ RejectRegister(k) \/ ServerReadEnv(k) \/ ServerReadBad(k)
    BY <2>1, ClearableServerReads
  <2>2. CASE \/ Accept(k) \/ ServerReadFails(k) \/ ServerCloses(k) \/ ServerOnDisconnect(k)
             \/ ServerSenderCloses(k)
    BY <2>2, ClearableServerEnd
  <2> QED
    BY <1>8, <2>1, <2>2 DEF ServerReceiver
<1> HIDE DEF Goal, ServerStill
<1>9. Goal
  BY <1>2, <1>4, <1>5, <1>6, <1>7, <1>8 DEF Next
<1> QED
  BY <1>1, <1>9 DEF Goal, Clearable

\* As long as the server can decode what the client sends, the end of a
\* registered session is reported and clears the registration:
\* conn.go:54-75, cluster_server.go:23-41, 60-64.
THEOREM BindingAlwaysCleared ==
  ASSUME "Bad" \notin ClientPayload
  PROVE  Spec => []BindingWillBeCleared
<1>1. Clearable /\ [Next]_vars => Clearable'
  BY ClearableNext
<1>2. Clearable => BindingWillBeCleared
  BY DEF Clearable
<1> QED
  BY <1>1, <1>2, ClearableInit, PTL DEF Spec

-----------------------------------------------------------------------------
(* No envelope overtakes the answer to the registration.                     *)

\* The server sends nothing over a connection it has not registered.
SilentBeforeRegistration ==
    \A k \in Conn :
        (serverEnd[k] = "backlog" \/ serverRecv[k] = "reading") /\ session # k =>
            \A i \in DOMAIN clientIn[k] : clientIn[k][i] # "Env"

Ordered == Leased /\ SilentBeforeRegistration /\ ResponseComesFirst

LEMMA OrderedInit == Init => Ordered
<1> SUFFICES ASSUME Init PROVE Ordered
  OBVIOUS
<1>1. \A k \in Conn : DOMAIN clientIn[k] = {}
  BY EmptyDomain DEF Init
<1> QED
  BY <1>1, LeasedInit DEF Ordered, SilentBeforeRegistration, ResponseComesFirst

\* What can happen to the messages on their way to the client.
LEMMA ClientInSteps ==
  ASSUME Ordered, [Next]_vars
  PROVE  \/ UNCHANGED clientIn
         \/ \E c \in Conn : clientIn[c] # <<>> /\ clientIn' = Pop(clientIn, c)
         \/ \E c \in Conn : clientIn' = [clientIn EXCEPT ![c] = <<>>]
         \/ \A c \in Conn : clientIn'[c] = <<>>
         \/ \E c \in Conn : Register(c) /\ clientIn' = Push(clientIn, clientEnd, c, "RegRsp")
         \/ ServerSend /\ session \in Conn /\ clientIn' = Push(clientIn, clientEnd, session, "Env")
<1> USE DEF Ordered, Leased, Counted, TypeOK, loopVars, chanVars, clientVars, serverVars,
        infoVars, envVars
<1>1. ASSUME ClientLoop
      PROVE  UNCHANGED clientIn \/ \E c \in Conn : clientIn' = [clientIn EXCEPT ![c] = <<>>]
  BY <1>1 DEF ClientLoop, DrainDisconnect, Dial, SendRegisterReq, SendRegisterReqFails,
     AwaitDisconnect, AwaitResponse, SetCli, CountUp, ReadyDisconnect, ClearCli,
     CountDown, Wake
<1>2. ASSUME NEW k \in Conn, ClientReceiver(k) \/ ClientSenderCloses(k)
      PROVE  \/ UNCHANGED clientIn
             \/ clientIn[k] # <<>> /\ clientIn' = Pop(clientIn, k)
  BY <1>2 DEF ClientReceiver, ClientReadRsp, ClientUnblocked, ClientReadEnv, Readable,
     ClientReadFails, ClientCloses, ClientOnDisconnect, ClientSenderCloses
<1>3. ASSUME NEW k \in Conn, Accept(k) \/ ServerReceiver(k) \/ ServerSenderCloses(k)
      PROVE  \/ UNCHANGED clientIn
             \/ Register(k) /\ clientIn' = Push(clientIn, clientEnd, k, "RegRsp")
  <2>1. CASE Register(k)
    BY <2>1 DEF Register
  <2>2. CASE ~Register(k)
    BY <1>3, <2>2 DEF Accept, ServerReceiver, RejectRegister, ServerReadEnv, ServerReadBad,
       ServerReadFails, ServerCloses, ServerOnDisconnect, ServerSenderCloses
  <2> QED
    BY <2>1, <2>2
<1>4. ASSUME Traffic
      PROVE  \/ UNCHANGED clientIn
             \/ ServerSend /\ session \in Conn
                /\ clientIn' = Push(clientIn, clientEnd, session, "Env")
  <2>1. CASE ServerSend
    BY <2>1 DEF ServerSend
  <2>2. CASE ~ServerSend
    BY <1>4, <2>2 DEF Traffic, ClientSend, Answer, AnswerFails
  <2> QED
    BY <2>1, <2>2
<1>5. ASSUME Fault
      PROVE  UNCHANGED clientIn \/ \A c \in Conn : clientIn'[c] = <<>>
  BY <1>5 DEF Fault, DialFails, Break, ClientRestart, ServerRestart
<1>6. ASSUME UNCHANGED vars PROVE UNCHANGED clientIn
  BY <1>6 DEF vars
<1> QED
  BY <1>1, <1>2, <1>3, <1>4, <1>5, <1>6 DEF Next

\* A connection stays unregistered only if it was so before, or has just been
\* dialled.
LEMMA UnregisteredSteps ==
  ASSUME Leased, [Next]_vars, NEW k \in Conn,
         serverEnd'[k] = "backlog" \/ serverRecv'[k] = "reading", session' # k
  PROVE  \/ (serverEnd[k] = "backlog" \/ serverRecv[k] = "reading") /\ session # k
         \/ clientIn'[k] = <<>>
<1> USE DEF Leased, Counted, TypeOK, loopVars, chanVars, clientVars, serverVars,
        infoVars, envVars
<1> DEFINE Goal == \/ (serverEnd[k] = "backlog" \/ serverRecv[k] = "reading") /\ session # k
                   \/ clientIn'[k] = <<>>
<1> DEFINE Same == UNCHANGED <<serverEnd, serverRecv, session>>
<1>1. ASSUME ClientLoop PROVE Goal
  <2>1. ASSUME NEW c \in Conn, Dial(c) PROVE Goal
    BY <2>1 DEF Dial
  <2>2. ASSUME \A c \in Conn : ~Dial(c) PROVE Same
    BY <1>1, <2>2 DEF ClientLoop, DrainDisconnect, SendRegisterReq, SendRegisterReqFails,
       AwaitDisconnect, AwaitResponse, SetCli, CountUp, ReadyDisconnect, ClearCli,
       CountDown, Wake
  <2> QED
    BY <2>1, <2>2
<1>2. ASSUME NEW c \in Conn, ClientReceiver(c) \/ ClientSenderCloses(c) PROVE Same
  BY <1>2 DEF ClientReceiver, ClientReadRsp, ClientUnblocked, ClientReadEnv,
     ClientReadFails, ClientCloses, ClientOnDisconnect, ClientSenderCloses
<1>3. ASSUME NEW c \in Conn, Accept(c) \/ ServerReceiver(c) \/ ServerSenderCloses(c)
      PROVE  Goal
  <2>1. CASE Accept(c) BY <2>1 DEF Accept, BacklogIsFresh
  <2>2. CASE Register(c) BY <2>2, LinkAssumption DEF Register, Readable
  <2>3. CASE RejectRegister(c) \/ ServerReadBad(c)
    BY <2>3 DEF RejectRegister, ServerReadBad, Disconnect
  <2>4. CASE ServerReadEnv(c) BY <2>4 DEF ServerReadEnv
  <2>5. CASE ServerReadFails(c) BY <2>5 DEF ServerReadFails
  <2>6. CASE ServerCloses(c) BY <2>6 DEF ServerCloses, Disconnect
  <2>7. CASE ServerOnDisconnect(c) BY <2>7 DEF ServerOnDisconnect, BacklogIsFresh
  <2>8. CASE ServerSenderCloses(c) BY <2>8 DEF ServerSenderCloses
  <2> QED
    BY <1>3, <2>1, <2>2, <2>3, <2>4, <2>5, <2>6, <2>7, <2>8 DEF ServerReceiver
<1>4. ASSUME Traffic PROVE Same
  BY <1>4 DEF Traffic, ServerSend, ClientSend, Answer, AnswerFails
<1>5. ASSUME Fault PROVE Goal
  <2>1. CASE ServerRestart BY <2>1 DEF ServerRestart
  <2>2. ASSUME ~ServerRestart PROVE Same
    BY <1>5, <2>2 DEF Fault, DialFails, Break, ClientRestart
  <2> QED
    BY <2>1, <2>2
<1>6. ASSUME UNCHANGED vars PROVE Same
  BY <1>6 DEF vars
<1>7. ASSUME Same PROVE Goal
  BY <1>7
<1> HIDE DEF Goal, Same
<1>8. Goal
  BY <1>1, <1>2, <1>3, <1>4, <1>5, <1>6, <1>7 DEF Next
<1> QED
  BY <1>8 DEF Goal

\* The order of the messages on connection k survives each kind of step, and so
\* does the silence before the registration.
LEMMA OrderedNext ==
  ASSUME Ordered, [Next]_vars PROVE Ordered'
<1> DEFINE Sort == {"RegRsp", "Env"}
<1> DEFINE InOrder(in) == \A k \in Conn : \A i, j \in DOMAIN in[k] :
                            in[k][i] = "RegRsp" /\ in[k][j] = "Env" => i < j
<1> DEFINE Silent(in, k) == \A i \in DOMAIN in[k] : in[k][i] # "Env"
<1> DEFINE Goal == InOrder(clientIn') /\ \A k \in Conn : Silent(clientIn, k) => Silent(clientIn', k)
<1>0. /\ clientIn \in [Conn -> Seq(Sort)] /\ InOrder(clientIn)
      /\ session \in Conn \cup {NoConn}
  BY DEF Ordered, Leased, Counted, TypeOK, ResponseComesFirst
<1>1. CASE UNCHANGED clientIn
  <2>1. Goal
    BY <1>0, <1>1
  <2> QED
    BY <2>1, LeasedNext, UnregisteredSteps, EmptyDomain
       DEF Ordered, SilentBeforeRegistration, ResponseComesFirst
<1>2. ASSUME NEW c \in Conn, clientIn[c] # <<>>, clientIn' = Pop(clientIn, c)
      PROVE  Ordered'
  <2>1. ASSUME NEW k \in Conn, NEW i \in DOMAIN clientIn'[k]
        PROVE  \/ clientIn'[k] = clientIn[k]
               \/ /\ k = c /\ i \in Nat /\ i + 1 \in DOMAIN clientIn[k]
                  /\ clientIn'[k][i] = clientIn[k][i + 1]
    <3> HIDE DEF Sort
    <3>1. i \in DOMAIN Pop(clientIn, c)[k]
      BY <1>2
    <3> QED
      BY <1>0, <1>2, <3>1, PopElements
  <2>2. InOrder(clientIn')
    <3> SUFFICES ASSUME NEW k \in Conn, NEW i \in DOMAIN clientIn'[k],
                        NEW j \in DOMAIN clientIn'[k],
                        clientIn'[k][i] = "RegRsp", clientIn'[k][j] = "Env"
                 PROVE  i < j
      OBVIOUS
    <3>1. CASE clientIn'[k] = clientIn[k]
      BY <1>0, <3>1
    <3>2. CASE clientIn'[k] # clientIn[k]
      <4>1. /\ i \in Nat /\ i + 1 \in DOMAIN clientIn[k] /\ clientIn[k][i + 1] = "RegRsp"
            /\ j \in Nat /\ j + 1 \in DOMAIN clientIn[k] /\ clientIn[k][j + 1] = "Env"
        BY <2>1, <3>2
      <4>2. i + 1 < j + 1
        BY <1>0, <4>1
      <4> QED
        BY <4>1, <4>2
    <3> QED
      BY <3>1, <3>2
  <2>3. \A k \in Conn : Silent(clientIn, k) => Silent(clientIn', k)
    BY <2>1
  <2> QED
    BY <2>2, <2>3, LeasedNext, UnregisteredSteps, EmptyDomain
       DEF Ordered, SilentBeforeRegistration, ResponseComesFirst
<1>3. ASSUME NEW c \in Conn, clientIn' = [clientIn EXCEPT ![c] = <<>>] PROVE Ordered'
  <2>1. Goal
    BY <1>0, <1>3, EmptyDomain
  <2> QED
    BY <2>1, LeasedNext, UnregisteredSteps, EmptyDomain
       DEF Ordered, SilentBeforeRegistration, ResponseComesFirst
<1>4. CASE \A c \in Conn : clientIn'[c] = <<>>
  BY <1>4, LeasedNext, EmptyDomain DEF Ordered, SilentBeforeRegistration, ResponseComesFirst
\* The answer is pushed while nothing but the answer can be on its way ...
<1>5. ASSUME NEW c \in Conn, Register(c), clientIn' = Push(clientIn, clientEnd, c, "RegRsp")
      PROVE  Ordered'
  <2>1. Silent(clientIn, c)
    <3>1. serverRecv[c] = "reading" /\ session # c
      BY <1>5, LinkAssumption DEF Register, Readable
    <3> QED
      BY <3>1 DEF Ordered, SilentBeforeRegistration
  <2>2. ASSUME NEW k \in Conn, NEW i \in DOMAIN clientIn'[k]
        PROVE  \/ i \in DOMAIN clientIn[k] /\ clientIn'[k][i] = clientIn[k][i]
               \/ k = c /\ clientIn'[k][i] = "RegRsp"
    <3>1. i \in DOMAIN Push(clientIn, clientEnd, c, "RegRsp")[k] /\ "RegRsp" \in Sort
      BY <1>5
    <3> HIDE DEF Sort
    <3> QED
      BY <1>0, <1>5, <3>1, PushElements
  <2>3. InOrder(clientIn')
    <3> SUFFICES ASSUME NEW k \in Conn, NEW i \in DOMAIN clientIn'[k],
                        NEW j \in DOMAIN clientIn'[k],
                        clientIn'[k][i] = "RegRsp", clientIn'[k][j] = "Env"
                 PROVE  i < j
      OBVIOUS
    <3>1. j \in DOMAIN clientIn[k] /\ clientIn[k][j] = "Env" /\ k # c
      BY <2>1, <2>2
    <3>2. i \in DOMAIN clientIn[k] /\ clientIn[k][i] = "RegRsp"
      BY <2>2, <3>1
    <3> QED
      BY <1>0, <3>1, <3>2
  <2>4. \A k \in Conn : Silent(clientIn, k) => Silent(clientIn', k)
    BY <2>2
  <2> QED
    BY <2>3, <2>4, LeasedNext, UnregisteredSteps, EmptyDomain
       DEF Ordered, SilentBeforeRegistration, ResponseComesFirst
\* ... and an envelope only after it, over the registered session.
<1>6. ASSUME ServerSend, session \in Conn,
             clientIn' = Push(clientIn, clientEnd, session, "Env")
      PROVE  Ordered'
  <2>1. UNCHANGED <<serverEnd, serverRecv, session>>
    BY <1>6 DEF ServerSend, serverVars, infoVars
  <2>2. ASSUME NEW k \in Conn, NEW i \in DOMAIN clientIn'[k]
        PROVE  \/ i \in DOMAIN clientIn[k] /\ clientIn'[k][i] = clientIn[k][i]
               \/ /\ k = session /\ i = Len(clientIn[k]) + 1
                  /\ clientIn'[k][i] = "Env"
    <3>1. i \in DOMAIN Push(clientIn, clientEnd, session, "Env")[k] /\ "Env" \in Sort
      BY <1>6
    <3> HIDE DEF Sort
    <3> QED
      BY <1>0, <1>6, <3>1, PushElements
  <2>3. InOrder(clientIn')
    <3> SUFFICES ASSUME NEW k \in Conn, NEW i \in DOMAIN clientIn'[k],
                        NEW j \in DOMAIN clientIn'[k],
                        clientIn'[k][i] = "RegRsp", clientIn'[k][j] = "Env"
                 PROVE  i < j
      OBVIOUS
    <3>1. i \in DOMAIN clientIn[k] /\ clientIn[k][i] = "RegRsp"
      BY <2>2
    <3>2. CASE j \in DOMAIN clientIn[k] /\ clientIn[k][j] = "Env"
      BY <1>0, <3>1, <3>2
    <3>3. CASE j = Len(clientIn[k]) + 1
      BY <1>0, <3>1, <3>3
    <3> QED
      BY <2>2, <3>2, <3>3
  <2>4. \A k \in Conn \ {session} : Silent(clientIn, k) => Silent(clientIn', k)
    BY <2>2
  <2> QED
    BY <2>1, <2>3, <2>4, LeasedNext
       DEF Ordered, SilentBeforeRegistration, ResponseComesFirst
<1> QED
  BY <1>1, <1>2, <1>3, <1>4, <1>5, <1>6, ClientInSteps

\* The answer to a registration is the first thing the client gets to read on
\* its connection, whatever the actors of the server send in the meantime:
\* cluster_server.go:58-75 and cluster_net.go:127-139 under info.lock.
THEOREM ResponseAlwaysFirst == Spec => []ResponseComesFirst
<1>1. Ordered /\ [Next]_vars => Ordered'
  BY OrderedNext
<1>2. Ordered => ResponseComesFirst
  BY DEF Ordered
<1> QED
  BY <1>1, <1>2, OrderedInit, PTL DEF Spec

-----------------------------------------------------------------------------
(* A reply of the client fails only when there is no connection for it.      *)

\* A connection on which the client has not yet asked for the registration is
\* not registered; one that the loop has made known is the one in info.cli.
Reachable ==
    /\ Tracked /\ SendsOnlyWhenRegistered
    /\ pc = "register" => serverIn[cur] = <<>> /\ session # cur
    /\ pc \in {"countUp", "ready"} => infoCli = cur

LEMMA ReachableInit == Init => Reachable
  BY TrackedInit DEF Init, Reachable, SendsOnlyWhenRegistered, Working

LEMMA ReachableNext ==
  ASSUME PromptCallbacks, Reachable, [Next]_vars PROVE Reachable'
<1> USE DEF Reachable, SendsOnlyWhenRegistered, Working, loopVars, chanVars, clientVars,
        serverVars, infoVars, envVars
<1>1. Tracked' /\ SendsOnlyWhenRegistered'
  BY TrackedNext, SendsOnlyWhenRegisteredNext DEF Tracked
<1>2. TypeOK
  BY DEF Tracked, Counted
<1> DEFINE Fresh == pc = "register" => serverIn[cur] = <<>> /\ session # cur
           Set == pc \in {"countUp", "ready"} => infoCli = cur
<1> HIDE DEF SendsOnlyWhenRegistered
<1>3. ASSUME ClientLoop PROVE Fresh' /\ Set'
  <2>1. ASSUME NEW k \in Conn, Dial(k) PROVE Fresh' /\ Set'
    BY <1>2, <2>1 DEF Dial, Free, TypeOK
  <2>2. ASSUME ~\E k \in Conn : Dial(k) PROVE Fresh' /\ Set'
    BY <1>3, <2>2 DEF ClientLoop, DrainDisconnect, SendRegisterReq, SendRegisterReqFails,
       AwaitDisconnect, AwaitResponse, SetCli, CountUp, ReadyDisconnect, ClearCli, CountDown, Wake
  <2> QED
    BY <2>1, <2>2
<1>4. ASSUME NEW k \in Conn, ClientReceiver(k) \/ ClientSenderCloses(k)
      PROVE  UNCHANGED <<pc, cur, infoCli, serverIn, session>>
  BY <1>4 DEF ClientReceiver, ClientReadRsp, ClientUnblocked, ClientReadEnv,
     ClientReadFails, ClientCloses, ClientOnDisconnect, ClientSenderCloses
<1>5. ASSUME NEW k \in Conn, Accept(k) \/ ServerReceiver(k) \/ ServerSenderCloses(k)
      PROVE  Fresh' /\ Set'
  <2>1. UNCHANGED <<pc, cur, infoCli>>
    BY <1>5 DEF Accept, ServerReceiver, Register, RejectRegister, ServerReadEnv,
       ServerReadBad, ServerReadFails, ServerCloses, ServerOnDisconnect, ServerSenderCloses
  \* Nothing is there to be read on a connection that is not yet registered.
  <2>2. \/ serverIn[k] # <<>> /\ serverIn' = Pop(serverIn, k) /\ session' \in {session, k}
        \/ serverIn' = serverIn /\ session' \in {session, NoConn}
    BY <1>5 DEF Accept, ServerReceiver, Register, RejectRegister, ServerReadEnv, Readable,
       ServerReadBad, ServerReadFails, ServerCloses, ServerOnDisconnect, ServerSenderCloses
  <2>3. pc = "register" => cur \in Conn /\ cur # NoConn
    BY LinkAssumption DEF SendsOnlyWhenRegistered
  <2>4. ASSUME pc = "register" PROVE serverIn'[cur] = <<>> /\ session' # cur
    <3>1. CASE serverIn' = serverIn /\ session' \in {session, NoConn}
      BY <2>3, <2>4, <3>1
    <3>2. CASE serverIn[k] # <<>> /\ serverIn' = Pop(serverIn, k) /\ session' \in {session, k}
      <4>1. k # cur
        BY <2>4, <3>2
      <4>2. serverIn'[cur] = serverIn[cur]
        BY <1>2, <2>3, <2>4, <3>2, <4>1 DEF Pop, TypeOK
      <4> QED
        BY <2>4, <3>2, <4>1, <4>2
    <3> QED
      BY <2>2, <3>1, <3>2
  <2> QED
    BY <2>1, <2>4
<1>6. ASSUME Traffic PROVE Fresh' /\ Set'
  <2>1. UNCHANGED <<pc, cur, infoCli, session>>
    BY <1>6 DEF Traffic, ServerSend, ClientSend, Answer, AnswerFails
  <2>2. serverIn' = serverIn \/ infoCli # NoConn
    BY <1>6 DEF Traffic, ServerSend, ClientSend, Answer, AnswerFails, ClientCanSend
  <2>3. pc = "register" => infoCli = NoConn
    BY DEF SendsOnlyWhenRegistered
  <2> QED
    BY <2>1, <2>2, <2>3
<1>7. ASSUME Fault PROVE Fresh' /\ Set'
  <2>1. CASE DialFails
    BY <2>1 DEF DialFails
  <2>2. ASSUME NEW k \in Conn, Break(k) PROVE Fresh' /\ Set'
    BY <2>2 DEF Break
  <2>3. CASE ClientRestart
    BY <2>3 DEF ClientRestart
  <2>4. CASE ServerRestart
    BY <2>4, LinkAssumption DEF ServerRestart, SendsOnlyWhenRegistered
  <2> QED
    BY <1>7, <2>1, <2>2, <2>3, <2>4 DEF Fault
<1>8. ASSUME UNCHANGED vars PROVE Fresh' /\ Set'
  BY <1>8 DEF vars
<1>9. Fresh' /\ Set'
  BY <1>3, <1>4, <1>5, <1>6, <1>7, <1>8 DEF Next
<1> QED
  BY <1>1, <1>9

\* While the two systems are connected, the client can send, unless the loop is
\* about to set info.cli.
LEMMA ConnectedCanSend ==
  ASSUME Reachable, Connected, ~ClientCanSend PROVE BeingSet
<1>1. session \in Conn /\ clientEnd[session] = "open"
  BY DEF Connected, Reachable, Tracked, Counted, TypeOK
<1>2. session = cur /\ pc \in Working
  BY <1>1 DEF Reachable, Tracked, OneDisconnectPending
<1>3. pc # "register"
  BY <1>2 DEF Reachable
<1>4. pc \notin {"countUp", "ready"}
  BY <1>1, <1>2, LinkAssumption DEF Reachable, ClientCanSend
<1> QED
  BY <1>2, <1>3, <1>4 DEF BeingSet, Working

\* With a back-off that outlasts the callback, an actor that answers is told that
\* its answer cannot be sent only when the two systems are not connected, or before
\* the loop has set info.cli on the connection the request came over:
\* cluster_client.go:62-90, cluster_net.go:127-150.
THEOREM RepliesFailOnlyWhenOffline ==
  ASSUME PromptCallbacks
  PROVE  Spec => FailsOnlyWhenOffline
<1> DEFINE Only == owed /\ ~owed' /\ ~ClientCanSend
                      => ~Connected \/ BeingSet \/ faults' # faults
<1>1. Reachable /\ [Next]_vars => Reachable'
  BY ReachableNext
<1>2. Reachable /\ [Next]_vars => [Only]_vars
  BY ConnectedCanSend
<1> QED
  BY <1>1, <1>2, ReachableInit, PTL DEF Spec, FailsOnlyWhenOffline
================================================================================
