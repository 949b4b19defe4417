----------------------------- MODULE ClusterLink -----------------------------
(***************************************************************************)
(* The link between one pair of systems of a dvactor cluster.              *)
(*                                                                         *)
(* Of the two systems, the one later in SystemConfigs runs the goroutine   *)
(* of clusterClient.Start (dial, register, wait, tear down, retry); the    *)
(* earlier one runs clusterServer, whose callbacks execute in the receiver *)
(* goroutine of each accepted connection.  The two share nothing but TCP   *)
(* connections.  This module models                                        *)
(*   - the client loop, one action per blocking point or shared write;     *)
(*   - the two 1-slot channels it shares with the receiver goroutines;     *)
(*   - both ends of every connection: the receiver goroutine, the closed   *)
(*     flag of the send queue, the sender goroutine's final conn.Close();  *)
(*   - the server's registration slot systemInfo.session, the bind object  *)
(*     of each session, the session table and the two contributions to     *)
(*     connectedSystemCount;                                               *)
(*   - dial failures, connections that break, and restarts of either side. *)
(*                                                                         *)
(* The bytes queued for sending and the bytes on the wire are one FIFO per *)
(* direction: closing the queue lets the sender drain it before it closes  *)
(* the socket, so what was queued before the close precedes the end of the *)
(* stream.                                                                 *)
(***************************************************************************)
EXTENDS Integers, Sequences

CONSTANTS
    Conn,            \* slots for connections that are alive at the same time
    NoConn,          \* nil
    ClientPayload,   \* what the client may send: "Env", and "Bad" when the
                     \* server cannot decode it (message type not registered)
    MaxFaults,       \* bound on dial failures, broken connections, restarts
    MaxSends,        \* bound on envelopes sent spontaneously
    PromptCallbacks  \* TRUE: the 5 s back-off outlasts a disconnect callback
                     \* that is about to run

ASSUME LinkAssumption ==
    /\ NoConn \notin Conn
    /\ ClientPayload \in {{"Env"}, {"Env", "Bad"}}
    /\ MaxFaults \in Nat
    /\ MaxSends \in Nat
    /\ PromptCallbacks \in BOOLEAN

VARIABLES
    pc,                   \* where the client goroutine is
    cur,                  \* c.cli: the connection the client loop works on
    infoCli,              \* systemInfo.cli of the server, on the client system
    disconnectChan,       \* TRUE: the 1-slot channel holds a token
    registerResponseChan, \* TRUE: the 1-slot channel holds a success token
    clientCount,          \* share of the link in the client's connectedSystemCount
    clientEnd,            \* per connection: send queue and socket, client end
    clientRecv,           \* per connection: receiver goroutine, client end
    clientIn,             \* per connection: messages on their way to the client
    serverEnd,            \* the same three for the server end
    serverRecv,
    serverIn,
    broken,               \* connections the network has broken
    session,              \* systemInfo.session of the client, on the server system
    bound,                \* sessions whose bind object is that systemInfo
    sessions,             \* sessionMgr.sessions
    serverCount,          \* share of the link in the server's connectedSystemCount
    owed,                 \* an actor of the client system has a request to answer
    faults,               \* faults so far
    sent                  \* spontaneous sends so far

loopVars   == <<pc, cur, infoCli, clientCount>>
chanVars   == <<disconnectChan, registerResponseChan>>
clientVars == <<clientEnd, clientRecv, clientIn>>
serverVars == <<serverEnd, serverRecv, serverIn>>
infoVars   == <<session, bound, sessions, serverCount>>
envVars    == <<broken, owed, faults, sent>>
vars == <<loopVars, chanVars, clientVars, serverVars, infoVars, envVars>>

-----------------------------------------------------------------------------
\* "backlog": dialled, not yet accepted.  "draining": the queue is closed and
\* the sender goroutine is still writing what was queued before.
EndState  == {"none", "backlog", "open", "draining", "closed"}
RecvState == {"none", "reading", "blocked", "failed", "callback", "done"}
LoopState == {"drain", "dial", "register", "await", "setCli", "countUp",
              "ready", "clearCli", "countDown", "sleep"}

TypeOK ==
    /\ pc \in LoopState
    /\ cur \in Conn \cup {NoConn}
    /\ infoCli \in Conn \cup {NoConn}
    /\ disconnectChan \in BOOLEAN
    /\ registerResponseChan \in BOOLEAN
    /\ clientCount \in {0, 1}
    /\ clientEnd \in [Conn -> EndState]
    /\ clientRecv \in [Conn -> RecvState]
    /\ clientIn \in [Conn -> Seq({"RegRsp", "Env"})]
    /\ serverEnd \in [Conn -> EndState]
    /\ serverRecv \in [Conn -> RecvState]
    /\ serverIn \in [Conn -> Seq({"RegReq"} \cup ClientPayload)]
    /\ broken \subseteq Conn
    /\ session \in Conn \cup {NoConn}
    /\ bound \subseteq Conn
    /\ sessions \subseteq Conn
    /\ serverCount \in {0, 1}
    /\ owed \in BOOLEAN
    /\ faults \in Nat
    /\ sent \in Nat

Init ==
    /\ pc = "drain" /\ cur = NoConn /\ infoCli = NoConn
    /\ disconnectChan = FALSE /\ registerResponseChan = FALSE
    /\ clientEnd = [k \in Conn |-> "none"]
    /\ clientRecv = [k \in Conn |-> "none"]
    /\ clientIn = [k \in Conn |-> <<>>]
    /\ serverEnd = [k \in Conn |-> "none"]
    /\ serverRecv = [k \in Conn |-> "none"]
    /\ serverIn = [k \in Conn |-> <<>>]
    /\ session = NoConn /\ bound = {} /\ sessions = {}
    /\ clientCount = 0 /\ serverCount = 0
    /\ broken = {} /\ owed = FALSE /\ faults = 0 /\ sent = 0

-----------------------------------------------------------------------------
(* Connections.                                                            *)

\* A write: what is sent over a broken connection or to a peer whose socket
\* is closed is lost, and the sender is not told.
Push(in, peerEnd, k, m) ==
    IF k \in broken \/ peerEnd[k] = "closed"
    THEN in
    ELSE [in EXCEPT ![k] = Append(@, m)]

Pop(in, k) == [in EXCEPT ![k] = Tail(@)]

\* The receiver goroutine of this end can read the message m.
Readable(recv, end, in, k, m) ==
    /\ recv[k] = "reading"
    /\ end[k] # "closed"
    /\ in[k] # <<>>
    /\ Head(in[k]) = m

\* reader.Read returns an error: the network failed, or a socket is closed.
\* Unread data may be lost with the connection.
ReadFails(recv, k) ==
    /\ recv[k] = "reading"
    /\ k \in broken \/ clientEnd[k] = "closed" \/ serverEnd[k] = "closed"

\* conn.Disconnect(): close the send queue, once.
Disconnect(end, k) ==
    [end EXCEPT ![k] = IF @ = "open" THEN "draining" ELSE @]

\* Every goroutine of the connection has ended: its slot can stand for a new
\* connection (with a session id of its own; a connection that still holds the
\* registration keeps its slot).
Free(k) ==
    /\ clientEnd[k] \in {"none", "closed"} /\ clientRecv[k] \in {"none", "done"}
    /\ serverEnd[k] \in {"none", "closed"} /\ serverRecv[k] \in {"none", "done"}
    /\ session # k

-----------------------------------------------------------------------------
(* The client goroutine.                                                   *)

\* Top of the loop: throw away a token left by an earlier connection.
MutDrainDisconnect ==
    /\ pc = "drain"
    /\ pc' = "dial"
    /\ UNCHANGED <<cur, infoCli, clientCount, chanVars,
                   clientVars, serverVars, infoVars, envVars>>

DrainDisconnect ==
    /\ pc = "drain"
    /\ pc' = "dial"
    /\ disconnectChan' = FALSE
    /\ UNCHANGED <<cur, infoCli, clientCount, registerResponseChan,
                   clientVars, serverVars, infoVars, envVars>>

\* cli.Connect() succeeds: a new connection, its two goroutines started, the
\* server end waiting to be accepted.
Dial(k) ==
    /\ pc = "dial" /\ Free(k)
    /\ pc' = "register" /\ cur' = k
    /\ clientEnd' = [clientEnd EXCEPT ![k] = "open"]
    /\ clientRecv' = [clientRecv EXCEPT ![k] = "reading"]
    /\ clientIn' = [clientIn EXCEPT ![k] = <<>>]
    /\ serverEnd' = [serverEnd EXCEPT ![k] = "backlog"]
    /\ serverRecv' = [serverRecv EXCEPT ![k] = "none"]
    /\ serverIn' = [serverIn EXCEPT ![k] = <<>>]
    /\ broken' = broken \ {k} /\ sessions' = sessions \ {k}
    /\ UNCHANGED <<infoCli, clientCount, chanVars, session, bound, serverCount,
                   owed, faults, sent>>

\* cli.Connect() fails: wait 5 s and start over.
DialFails ==
    /\ pc = "dial" /\ faults < MaxFaults
    /\ pc' = "sleep" /\ cur' = NoConn
    /\ faults' = faults + 1
    /\ UNCHANGED <<infoCli, clientCount, chanVars, clientVars, serverVars,
                   infoVars, broken, owed, sent>>

\* The registration request is queued ...
SendRegisterReq ==
    /\ pc = "register" /\ clientEnd[cur] = "open"
    /\ pc' = "await"
    /\ serverIn' = Push(serverIn, serverEnd, cur, "RegReq")
    /\ UNCHANGED <<cur, infoCli, clientCount, chanVars, clientVars, serverEnd,
                   serverRecv, infoVars, envVars>>

\* ... or refused, because the receiver goroutine has closed the queue.  The
\* loop disconnects (again) and backs off; it does not wait for the callback.
SendRegisterReqFails ==
    /\ pc = "register" /\ clientEnd[cur] # "open"
    /\ pc' = "sleep"
    /\ clientEnd' = Disconnect(clientEnd, cur)
    /\ UNCHANGED <<cur, infoCli, clientCount, chanVars, clientRecv, clientIn,
                   serverVars, infoVars, envVars>>

\* The select of the loop: either channel, in any order if both are ready.
AwaitDisconnect ==
    /\ pc = "await" /\ disconnectChan
    /\ pc' = "sleep" /\ disconnectChan' = FALSE
    /\ UNCHANGED <<cur, infoCli, clientCount, registerResponseChan, clientVars,
                   serverVars, infoVars, envVars>>

AwaitResponse ==
    /\ pc = "await" /\ registerResponseChan
    /\ pc' = "setCli" /\ registerResponseChan' = FALSE
    /\ UNCHANGED <<cur, infoCli, clientCount, disconnectChan, clientVars,
                   serverVars, infoVars, envVars>>

\* info.cli = c.cli, under info.lock.
MutSetCli ==
    /\ pc = "setCli"
    /\ pc' = "countUp"
    /\ UNCHANGED <<cur, infoCli, clientCount, chanVars, clientVars, serverVars,
                   infoVars, envVars>>

SetCli ==
    /\ pc = "setCli"
    /\ pc' = "countUp" /\ infoCli' = cur
    /\ UNCHANGED <<cur, clientCount, chanVars, clientVars, serverVars, infoVars,
                   envVars>>

CountUp ==
    /\ pc = "countUp"
    /\ pc' = "ready" /\ clientCount' = clientCount + 1
    /\ UNCHANGED <<cur, infoCli, chanVars, clientVars, serverVars, infoVars,
                   envVars>>

\* <-c.disconnectChan
ReadyDisconnect ==
    /\ pc = "ready" /\ disconnectChan
    /\ pc' = "clearCli" /\ disconnectChan' = FALSE
    /\ UNCHANGED <<cur, infoCli, clientCount, registerResponseChan, clientVars,
                   serverVars, infoVars, envVars>>

ClearCli ==
    /\ pc = "clearCli"
    /\ pc' = "countDown" /\ infoCli' = NoConn /\ cur' = NoConn
    /\ UNCHANGED <<clientCount, chanVars, clientVars, serverVars, infoVars,
                   envVars>>

CountDown ==
    /\ pc = "countDown"
    /\ pc' = "sleep" /\ clientCount' = clientCount - 1
    /\ UNCHANGED <<cur, infoCli, chanVars, clientVars, serverVars, infoVars,
                   envVars>>

\* The 5 s back-off ends.
Wake ==
    /\ pc = "sleep"
    /\ PromptCallbacks =>
         \A k \in Conn : clientRecv[k] = "callback" => disconnectChan
    /\ pc' = "drain"
    /\ UNCHANGED <<cur, infoCli, clientCount, chanVars, clientVars, serverVars,
                   infoVars, envVars>>

ClientLoop ==
    \/ DrainDisconnect
    \/ \E k \in Conn : Dial(k)
    \/ SendRegisterReq \/ SendRegisterReqFails
    \/ AwaitDisconnect \/ AwaitResponse
    \/ SetCli \/ CountUp
    \/ ReadyDisconnect \/ ClearCli \/ CountDown
    \/ Wake

-----------------------------------------------------------------------------
(* The receiver goroutine of the client end.                               *)

\* c.registerResponseChan <- true; the goroutine blocks while the channel is full.
ClientReadRsp(k) ==
    /\ Readable(clientRecv, clientEnd, clientIn, k, "RegRsp")
    /\ clientIn' = Pop(clientIn, k)
    /\ registerResponseChan' = TRUE
    /\ clientRecv' = [clientRecv EXCEPT
                        ![k] = IF registerResponseChan THEN "blocked" ELSE @]
    /\ UNCHANGED <<loopVars, disconnectChan, clientEnd, serverVars, infoVars,
                   envVars>>

ClientUnblocked(k) ==
    /\ clientRecv[k] = "blocked" /\ ~registerResponseChan
    /\ registerResponseChan' = TRUE
    /\ clientRecv' = [clientRecv EXCEPT ![k] = "reading"]
    /\ UNCHANGED <<loopVars, disconnectChan, clientEnd, clientIn, serverVars,
                   infoVars, envVars>>

\* An envelope goes to LocalRouter; here, it is a request to an actor.
ClientReadEnv(k) ==
    /\ Readable(clientRecv, clientEnd, clientIn, k, "Env")
    /\ clientIn' = Pop(clientIn, k)
    /\ owed' = TRUE
    /\ UNCHANGED <<loopVars, chanVars, clientEnd, clientRecv, serverVars,
                   infoVars, broken, faults, sent>>

ClientReadFails(k) ==
    /\ ReadFails(clientRecv, k)
    /\ clientRecv' = [clientRecv EXCEPT ![k] = "failed"]
    /\ UNCHANGED <<loopVars, chanVars, clientEnd, clientIn, serverVars,
                   infoVars, envVars>>

\* if !q.IsClose() { Disconnect(); onDisconnectFunc() }: nobody but this
\* goroutine closes the queue between the test and the close.
ClientCloses(k) ==
    /\ clientRecv[k] = "failed"
    /\ clientRecv' = [clientRecv EXCEPT
                        ![k] = IF clientEnd[k] = "open" THEN "callback" ELSE "done"]
    /\ clientEnd' = Disconnect(clientEnd, k)
    /\ UNCHANGED <<loopVars, chanVars, clientIn, serverVars, infoVars, envVars>>

\* OnDisconnect: c.disconnectChan <- true, blocking while the channel is full.
ClientOnDisconnect(k) ==
    /\ clientRecv[k] = "callback" /\ ~disconnectChan
    /\ disconnectChan' = TRUE
    /\ clientRecv' = [clientRecv EXCEPT ![k] = "done"]
    /\ UNCHANGED <<loopVars, registerResponseChan, clientEnd, clientIn,
                   serverVars, infoVars, envVars>>

ClientReceiver(k) ==
    \/ ClientReadRsp(k) \/ ClientUnblocked(k) \/ ClientReadEnv(k)
    \/ ClientReadFails(k) \/ ClientCloses(k) \/ ClientOnDisconnect(k)

\* senderRun has drained the closed queue: conn.Close().
ClientSenderCloses(k) ==
    /\ clientEnd[k] = "draining"
    /\ clientEnd' = [clientEnd EXCEPT ![k] = "closed"]
    /\ UNCHANGED <<loopVars, chanVars, clientRecv, clientIn, serverVars,
                   infoVars, envVars>>

-----------------------------------------------------------------------------
(* The server: the accept loop and the receiver goroutine of each session. *)

\* Accept, NewSession, callbacks installed, goroutines started.
Accept(k) ==
    /\ serverEnd[k] = "backlog"
    /\ serverEnd' = [serverEnd EXCEPT ![k] = "open"]
    /\ serverRecv' = [serverRecv EXCEPT ![k] = "reading"]
    /\ sessions' = sessions \cup {k}
    /\ UNCHANGED <<loopVars, chanVars, clientVars, serverIn, session, bound,
                   serverCount, envVars>>

\* A registration request while no session is registered: bind, count, answer,
\* all under info.lock.
MutRegister(k) ==
    /\ Readable(serverRecv, serverEnd, serverIn, k, "RegReq")
    /\ serverIn' = Pop(serverIn, k)
    /\ session' = k /\ bound' = bound \cup {k}
    /\ serverCount' = 1
    /\ clientIn' = IF serverEnd[k] = "open"
                   THEN Push(clientIn, clientEnd, k, "RegRsp")
                   ELSE clientIn
    /\ UNCHANGED <<loopVars, chanVars, clientEnd, clientRecv, serverEnd,
                   serverRecv, sessions, envVars>>

Register(k) ==
    /\ Readable(serverRecv, serverEnd, serverIn, k, "RegReq")
    /\ session = NoConn
    /\ serverIn' = Pop(serverIn, k)
    /\ session' = k /\ bound' = bound \cup {k}
    /\ serverCount' = serverCount + 1
    /\ clientIn' = IF serverEnd[k] = "open"
                   THEN Push(clientIn, clientEnd, k, "RegRsp")
                   ELSE clientIn
    /\ UNCHANGED <<loopVars, chanVars, clientEnd, clientRecv, serverEnd,
                   serverRecv, sessions, envVars>>

\* The system is registered already: an error, and the session is closed.
RejectRegister(k) ==
    /\ Readable(serverRecv, serverEnd, serverIn, k, "RegReq")
    /\ session # NoConn
    /\ serverIn' = Pop(serverIn, k)
    /\ serverEnd' = Disconnect(serverEnd, k)
    /\ UNCHANGED <<loopVars, chanVars, clientVars, serverRecv, infoVars, envVars>>

\* An envelope goes to LocalRouter.
ServerReadEnv(k) ==
    /\ Readable(serverRecv, serverEnd, serverIn, k, "Env")
    /\ serverIn' = Pop(serverIn, k)
    /\ UNCHANGED <<loopVars, chanVars, clientVars, serverEnd, serverRecv,
                   infoVars, envVars>>

\* An envelope that cannot be decoded: OnMessage returns an error, the session
\* is closed.  The receiver goroutine goes on reading.
ServerReadBad(k) ==
    /\ Readable(serverRecv, serverEnd, serverIn, k, "Bad")
    /\ serverIn' = Pop(serverIn, k)
    /\ serverEnd' = Disconnect(serverEnd, k)
    /\ UNCHANGED <<loopVars, chanVars, clientVars, serverRecv, infoVars, envVars>>

ServerReadFails(k) ==
    /\ ReadFails(serverRecv, k)
    /\ serverRecv' = [serverRecv EXCEPT ![k] = "failed"]
    /\ UNCHANGED <<loopVars, chanVars, clientVars, serverEnd, serverIn,
                   infoVars, envVars>>

\* if !q.IsClose() { Disconnect(); onDisconnectFunc() }
MutServerCloses(k) ==
    /\ serverRecv[k] = "failed"
    /\ serverRecv' = [serverRecv EXCEPT ![k] = "done"]
    /\ serverEnd' = Disconnect(serverEnd, k)
    /\ UNCHANGED <<loopVars, chanVars, clientVars, serverIn, infoVars, envVars>>

ServerCloses(k) ==
    /\ serverRecv[k] = "failed"
    /\ serverRecv' = [serverRecv EXCEPT
                        ![k] = IF serverEnd[k] = "open" THEN "callback" ELSE "done"]
    /\ serverEnd' = Disconnect(serverEnd, k)
    /\ UNCHANGED <<loopVars, chanVars, clientVars, serverIn, infoVars, envVars>>

\* OnDisconnect, then RemoveSession.
MutCountWithoutBinding(k) ==
    /\ serverRecv[k] = "callback"
    /\ serverRecv' = [serverRecv EXCEPT ![k] = "done"]
    /\ serverCount' = serverCount - 1
    /\ session' = IF session = k THEN NoConn ELSE session
    /\ bound' = bound \ {k}
    /\ sessions' = sessions \ {k}
    /\ UNCHANGED <<loopVars, chanVars, clientVars, serverEnd, serverIn, envVars>>

MutForgetSession(k) ==
    /\ serverRecv[k] = "callback"
    /\ serverRecv' = [serverRecv EXCEPT ![k] = "done"]
    /\ sessions' = sessions \ {k}
    /\ UNCHANGED <<loopVars, chanVars, clientVars, serverEnd, serverIn, session,
                   bound, serverCount, envVars>>

ServerOnDisconnect(k) ==
    /\ serverRecv[k] = "callback"
    /\ serverRecv' = [serverRecv EXCEPT ![k] = "done"]
    /\ IF k \in bound /\ session = k
       THEN /\ session' = NoConn
            /\ bound' = bound \ {k}
            /\ serverCount' = serverCount - 1
       ELSE UNCHANGED <<session, bound, serverCount>>
    /\ sessions' = sessions \ {k}
    /\ UNCHANGED <<loopVars, chanVars, clientVars, serverEnd, serverIn, envVars>>

ServerReceiver(k) ==
    \/ Register(k) \/ RejectRegister(k) \/ ServerReadEnv(k) \/ ServerReadBad(k)
    \/ ServerReadFails(k) \/ ServerCloses(k) \/ ServerOnDisconnect(k)

ServerSenderCloses(k) ==
    /\ serverEnd[k] = "draining"
    /\ serverEnd' = [serverEnd EXCEPT ![k] = "closed"]
    /\ UNCHANGED <<loopVars, chanVars, clientVars, serverRecv, serverIn,
                   infoVars, envVars>>

-----------------------------------------------------------------------------
(* doSend on either system.                                                *)

\* An actor of the server system sends an envelope (a request) to the client.
MutServerSend ==
    /\ sent < MaxSends /\ sent' = sent + 1
    /\ \E k \in sessions :
         /\ serverEnd[k] = "open"
         /\ clientIn' = Push(clientIn, clientEnd, k, "Env")
    /\ UNCHANGED <<loopVars, chanVars, clientEnd, clientRecv, serverVars,
                   infoVars, broken, owed, faults>>

ServerSend ==
    /\ sent < MaxSends /\ sent' = sent + 1
    /\ session # NoConn /\ serverEnd[session] = "open"
    /\ clientIn' = Push(clientIn, clientEnd, session, "Env")
    /\ UNCHANGED <<loopVars, chanVars, clientEnd, clientRecv, serverVars,
                   infoVars, broken, owed, faults>>

\* info.cli is set and its queue takes the packet; otherwise doSend returns
\* ErrorCodeMessageSendFail.
ClientCanSend == infoCli # NoConn /\ clientEnd[infoCli] = "open"

ClientSend(m) ==
    /\ sent < MaxSends /\ sent' = sent + 1
    /\ ClientCanSend
    /\ serverIn' = Push(serverIn, serverEnd, infoCli, m)
    /\ UNCHANGED <<loopVars, chanVars, clientVars, serverEnd, serverRecv,
                   infoVars, broken, owed, faults>>

\* The actor that was asked answers.
Answer ==
    /\ owed /\ ClientCanSend
    /\ owed' = FALSE
    /\ serverIn' = Push(serverIn, serverEnd, infoCli, "Env")
    /\ UNCHANGED <<loopVars, chanVars, clientVars, serverEnd, serverRecv,
                   infoVars, broken, faults, sent>>

AnswerFails ==
    /\ owed /\ ~ClientCanSend
    /\ owed' = FALSE
    /\ UNCHANGED <<loopVars, chanVars, clientVars, serverVars, infoVars, broken,
                   faults, sent>>

-----------------------------------------------------------------------------
(* Faults.                                                                 *)

\* The network drops a connection; each end finds out in its own time.
Break(k) ==
    /\ faults < MaxFaults /\ faults' = faults + 1
    /\ k \notin broken
    /\ clientEnd[k] \in {"open", "draining"} \/ serverEnd[k] \in {"open", "draining"}
    /\ broken' = broken \cup {k}
    /\ UNCHANGED <<loopVars, chanVars, clientVars, serverVars, infoVars, owed, sent>>

\* The client process dies and starts again: its sockets are closed by the
\* kernel and everything it kept in memory is gone.
ClientRestart ==
    /\ faults < MaxFaults /\ faults' = faults + 1
    /\ pc' = "drain" /\ cur' = NoConn /\ infoCli' = NoConn /\ clientCount' = 0
    /\ disconnectChan' = FALSE /\ registerResponseChan' = FALSE
    /\ clientEnd' = [k \in Conn |-> IF clientEnd[k] = "none" THEN "none" ELSE "closed"]
    /\ clientRecv' = [k \in Conn |-> IF clientRecv[k] = "none" THEN "none" ELSE "done"]
    /\ clientIn' = [k \in Conn |-> <<>>]
    /\ owed' = FALSE
    /\ UNCHANGED <<serverVars, infoVars, broken, sent>>

ServerRestart ==
    /\ faults < MaxFaults /\ faults' = faults + 1
    /\ session' = NoConn /\ bound' = {} /\ sessions' = {} /\ serverCount' = 0
    /\ serverEnd' = [k \in Conn |-> IF serverEnd[k] = "none" THEN "none" ELSE "closed"]
    /\ serverRecv' = [k \in Conn |-> IF serverRecv[k] = "none" THEN "none" ELSE "done"]
    /\ serverIn' = [k \in Conn |-> <<>>]
    /\ UNCHANGED <<loopVars, chanVars, clientVars, broken, owed, sent>>

Fault == DialFails \/ (\E k \in Conn : Break(k)) \/ ClientRestart \/ ServerRestart

-----------------------------------------------------------------------------
Traffic ==
    \/ ServerSend
    \/ \E m \in ClientPayload : ClientSend(m)
    \/ Answer \/ AnswerFails

Next ==
    \/ ClientLoop
    \/ \E k \in Conn :
         \/ ClientReceiver(k) \/ ClientSenderCloses(k)
         \/ Accept(k) \/ ServerReceiver(k) \/ ServerSenderCloses(k)
    \/ Traffic
    \/ Fault

\* Goroutines are scheduled and a closed or broken connection is eventually
\* noticed (end of stream, reset or the 30 s keep-alive).
Fairness ==
    /\ WF_vars(ClientLoop)
    /\ \A k \in Conn :
         /\ WF_vars(ClientReceiver(k)) /\ WF_vars(ClientSenderCloses(k))
         /\ WF_vars(Accept(k)) /\ WF_vars(ServerReceiver(k))
         /\ WF_vars(ServerSenderCloses(k))
    /\ WF_vars(Answer \/ AnswerFails)

Spec == Init /\ [][Next]_vars
FairSpec == Spec /\ Fairness

-----------------------------------------------------------------------------
(* Properties.                                                             *)

\* The client loop never loses track of an open connection: one that is open
\* is the one it works on, and it is still going to wait for it.  An orphan
\* would stay registered at the server and block every later registration.
NoOrphanConnection ==
    \A k \in Conn :
        clientEnd[k] = "open" =>
            k = cur /\ pc \in {"register", "await", "setCli", "countUp", "ready"}

\* A registered session is one whose disconnection is still going to be
\* reported: its receiver goroutine runs and will find the queue open, or is
\* about to call OnDisconnect; and it is in the session table.
BindingWillBeCleared ==
    session # NoConn =>
        /\ session \in sessions
        /\ \/ serverRecv[session] = "callback"
           \/ serverEnd[session] = "open" /\ serverRecv[session] \in {"reading", "failed"}

\* No envelope overtakes the answer to the registration.
ResponseComesFirst ==
    \A k \in Conn : \A i, j \in DOMAIN clientIn[k] :
        clientIn[k][i] = "RegRsp" /\ clientIn[k][j] = "Env" => i < j

\* connectedSystemCount counts a link once while it is up, never drifting over
\* reconnections: on the server while a session is registered and bound, on
\* the client from the moment the loop is ready until it has torn down.  What
\* doSend uses, info.cli, is then the connection of the loop: it is set before
\* the link is counted (cluster_client.go:74) and cleared before it is not
\* (line 84), so a link is counted and not usable only between these last two,
\* and no connection given up is left behind in info.cli.
CountsMatch ==
    /\ serverCount = IF session = NoConn THEN 0 ELSE 1
    /\ bound = IF session = NoConn THEN {} ELSE {session}
    /\ clientCount = IF pc \in {"ready", "clearCli", "countDown"} THEN 1 ELSE 0
    /\ infoCli = IF pc \in {"countUp", "ready", "clearCli"} THEN cur ELSE NoConn

\* The server keeps the promise of Registration: a connection whose receiver
\* goroutine has not yet closed it is alive, and the registration passes from
\* one connection to another only after the first has ended and has been
\* reported, never by being taken over.
Alive == {k \in Conn : serverRecv[k] \in {"reading", "failed"}}

R == INSTANCE Registration
        WITH alive <- Alive, holder <- session, members <- serverCount

ImplementsRegistration == R!Spec

\* The client is ready only on a connection the server has accepted.
ReadyMeansRegistered ==
    /\ pc = "ready"
    /\ serverEnd[cur] \in {"backlog", "open"} /\ serverRecv[cur] \in {"none", "reading"}
    => session = cur

\* A reply of the client fails only when the two systems are not connected, or
\* between the registration and info.cli = c.cli on that very connection: the
\* receiver goroutine may deliver a request before the loop has set info.cli
\* (cluster_client.go:73), and at no other time.
Connected ==
    /\ session # NoConn /\ session \notin broken
    /\ serverEnd[session] = "open" /\ clientEnd[session] = "open"

BeingSet == cur = session /\ pc \in {"await", "setCli"}

FailsOnlyWhenOffline ==
    [][owed /\ ~owed' /\ ~ClientCanSend => ~Connected \/ BeingSet \/ faults' # faults]_vars

\* Once faults stop, the pair ends up registered on one connection, for good.
Linked ==
    /\ pc = "ready" /\ cur # NoConn /\ infoCli = cur /\ session = cur
    /\ clientEnd[cur] = "open" /\ serverEnd[cur] = "open"

Reconnects == <>[]Linked
=============================================================================
