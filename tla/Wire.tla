--------------------------------- MODULE Wire ----------------------------------
(***************************************************************************)
(* What one system sends to another over a ready connection: envelopes     *)
(* become packages (Codec), packages become frames (Framing), the frames   *)
(* become a stream that TCP delivers in pieces of any length, and the      *)
(* receiver goroutine of the other end cuts it into frames again and       *)
(* handles each (client.go, server.go, cluster_client.go,                  *)
(* cluster_server.go).                                                     *)
(*                                                                         *)
(* The first frame on the stream is the registration: the request when the *)
(* receiver is the server end, the answer (a package of no bytes) when it  *)
(* is the client end.  Message types are registered before the systems     *)
(* start, as the maps of system.go have no lock.                           *)
(***************************************************************************)
EXTENDS Codec, Framing

CONSTANTS
    Envelopes,   \* envelopes the sending system may be given
    SizeOf,      \* the size of the package an envelope becomes
    MaxRegs,     \* bound on the registrations
    MaxSends     \* bound on the calls of Send

ASSUME WireAssumption ==
    /\ \A e \in Envelopes : e.kind \in DOMAIN PkgType =>
          e.kind \in DOMAIN EnvelopeOf /\ e \in EnvelopeOf[e.kind]
    /\ SizeOf \in [Envelopes -> 1 .. MaxPayload] /\ None \notin Envelopes
    /\ MaxPayload > 0 /\ \A k \in DOMAIN PkgType : PkgType[k] <= MaxMsgId
    /\ MaxRegs \in Nat /\ MaxSends \in Nat

System == {"from", "to"}   \* the sending and the receiving system

VARIABLES
    rcv,         \* which end the receiver is: "server" or "client"
    started,     \* the systems have started
    reg,         \* the registry of each system
    registered,  \* every registration: system, id and type
    sent,        \* the envelopes Send accepted, after the registration
    refused,     \* the envelopes it refused, with the error
    frames,      \* the frames they were packed in
    stream,      \* bytes sent, not yet read
    buf,         \* PacketSplitter.buf of the receiver
    receiver,    \* what its goroutine does: "read" or "split"
    handled,     \* what it made of each frame
    closed,      \* the server end has closed the session
    socketOpen   \* the receiver's end of the connection can still be read

sendVars    == <<sent, refused, frames>>
receiveVars == <<buf, receiver, handled, closed, socketOpen>>
vars == <<rcv, started, reg, registered, sendVars, stream, receiveVars>>

Registration == None   \* stands for the registration in sent and handled

TypeOK ==
    /\ rcv \in {"server", "client"}
    /\ started \in BOOLEAN /\ closed \in BOOLEAN /\ socketOpen \in BOOLEAN
    /\ ~socketOpen => closed
    /\ reg \in [System -> Registry]
    /\ registered \in SUBSET (System \X Ids \X Types)
    /\ sent \in Seq(Envelopes \cup {Registration})
    /\ Len(frames) = Len(sent)
    /\ \A n \in DOMAIN frames :
          /\ frames[n].msgId \in Nat /\ frames[n].size \in 0 .. MaxPayload
          /\ frames[n].pkg \in PkgOf(frames[n].msgId)
    /\ \A r \in refused : r[1] \in Envelopes /\ r[2] \in 101 .. 105
    /\ stream \in Seq(Nat \X Nat) /\ buf \in Seq(Nat \X Nat)
    /\ receiver \in {"read", "split"}
    /\ Len(handled) <= Len(sent)

RegistrationFrame(end) ==
    IF end = "server"
    THEN [msgId |-> PkgType.RegisterSystemReq, size |-> 1, pkg |-> [SystemId |-> 1]]
    ELSE [msgId |-> PkgType.RegisterSystemRsp, size |-> 0,
          pkg |-> [ErrorCode |-> ErrorCodeSuccess]]

Init ==
    /\ rcv \in {"server", "client"}
    /\ started = FALSE
    /\ reg = [s \in System |-> EmptyRegistry]
    /\ registered = {}
    /\ sent = <<Registration>> /\ refused = {}
    /\ frames = <<RegistrationFrame(rcv)>>
    /\ stream = PackMessage(1, RegistrationFrame(rcv))
    /\ buf = <<>> /\ receiver = "read" /\ handled = <<>>
    /\ closed = FALSE /\ socketOpen = TRUE

(* ------------------------------ the sender ----------------------------- *)

Register(s, id, t) ==
    /\ ~started /\ Cardinality(registered) < MaxRegs
    /\ reg' = [reg EXCEPT ![s] = RegisterMessageType(@, id, t)]
    /\ registered' = registered \cup {<<s, id, t>>}
    /\ UNCHANGED <<rcv, started, sendVars, stream, receiveVars>>

Start ==
    /\ ~started
    /\ started' = TRUE
    /\ UNCHANGED <<rcv, reg, registered, sendVars, stream, receiveVars>>

(* The client end sends envelopes only after the answer to its request. *)
Ready ==
    /\ started /\ (rcv = "server" => handled # <<>>)
    /\ Len(sent) + Cardinality(refused) <= MaxSends

Accept(e) ==
    LET p     == Send(reg["from"], e)
        frame == [msgId |-> PkgType[e.kind], size |-> SizeOf[e], pkg |-> p.val]
    IN  /\ Ready /\ Succeeded(p)
        /\ sent' = Append(sent, e)
        /\ frames' = Append(frames, frame)
        /\ stream' = stream \o PackMessage(Len(frames) + 1, frame)
        /\ UNCHANGED <<rcv, started, reg, registered, refused, receiveVars>>

Refuse(e) ==
    LET p == Send(reg["from"], e) IN
    /\ Ready /\ ~Succeeded(p)
    /\ refused' = refused \cup {<<e, p.err>>}
    /\ UNCHANGED <<rcv, started, reg, registered, sent, frames, stream, receiveVars>>

(* ----------------------------- the receiver ---------------------------- *)

(* Closing the session only ends the queue: the goroutine reads on until the
   sender goroutine has written the rest of the queue and closed the socket. *)
Receive ==
    /\ started /\ receiver = "read" /\ socketOpen /\ stream # <<>>
    /\ \E k \in 1 .. ReadBuf :
          /\ k <= Len(stream)
          /\ buf' = AppendData(buf, SubSeq(stream, 1, k))
          /\ stream' = SubSeq(stream, k + 1, Len(stream))
    /\ receiver' = "split"
    /\ UNCHANGED <<rcv, started, reg, registered, sendVars, handled, closed, socketOpen>>

CloseSocket ==
    /\ closed /\ socketOpen
    /\ socketOpen' = FALSE
    /\ UNCHANGED <<rcv, started, reg, registered, sendVars, stream, buf, receiver, handled, closed>>

(* onMessage of either end: the registration is its own affair *)
Handle(msgId, payload) ==
    IF msgId \in {PkgType.RegisterSystemReq, PkgType.RegisterSystemRsp}
    THEN Done(Registration)
    ELSE IF ~Whole(frames, payload) THEN Failed(DecodeError)
    ELSE OnMessage(reg["to"], msgId, frames[payload[1][1]].pkg)

(* The loop of OnData: the outcome of onMessage is ignored, but the server end
   has closed the session when it was an error. *)
Split ==
    LET f == NextFrame(frames, buf)
        h == Handle(f.msgId, f.payload)
    IN  /\ receiver = "split"
        /\ IF ~f.ok
           THEN receiver' = "read" /\ UNCHANGED <<buf, handled, closed>>
           ELSE /\ buf' = f.rest
                /\ handled' = Append(handled, h)
                /\ closed' = (closed \/ (rcv = "server" /\ ~Succeeded(h)))
                /\ UNCHANGED receiver
        /\ UNCHANGED <<rcv, started, reg, registered, sendVars, stream, socketOpen>>

Next ==
    \/ \E s \in System, id \in Ids, t \in Types : Register(s, id, t)
    \/ Start
    \/ \E e \in Envelopes : Accept(e) \/ Refuse(e)
    \/ Receive
    \/ CloseSocket
    \/ Split

Spec == Init /\ [][Next]_vars

(* The receiver goroutine runs as long as its connection gives it bytes. *)
FairSpec == Spec /\ WF_vars(Receive) /\ WF_vars(Split)

(* ------------------------------ properties ----------------------------- *)

(* The receiver has registered another type under the id the sender uses for m,
   so it may take the body for a message of that type. *)
Misread(m) ==
    m # NoMessage /\ \E r \in registered :
        r[1] = "to" /\ r[2] = reg["from"].msgTypeIds[m.type] /\ r[3] # m.type

(* Both systems have registered the type of m under the id the sender uses. *)
Crosses(m) ==
    /\ m # NoMessage /\ m.body # Broken
    /\ <<"to", reg["from"].msgTypeIds[m.type], m.type>> \in registered

(* What should become of an envelope: a batch loses the messages that one of
   the two systems does not know, everything else stays as it is. *)
Arrival(e) ==
    IF e.kind = "EnvelopeBatchSend"
    THEN [e EXCEPT !.Messages = Sub(@, {i \in DOMAIN @ : Crosses(@[i])})] ELSE e

MessagesOf(e) ==
    IF "Message" \in DOMAIN e THEN {e.Message}
    ELSE IF "Messages" \in DOMAIN e THEN {e.Messages[i] : i \in DOMAIN e.Messages} ELSE {}

(* The envelope without the messages in it. *)
Address(e) == [f \in DOMAIN e \ {"Message", "Messages"} |-> e[f]]

(* What the other system hands to its actors is, envelope for envelope and in
   order, what was accepted: every field of every kind of envelope survives the
   package and the frame, however TCP cuts the stream (Send and OnMessage of
   cluster_net.go, packet.go), a type that was registered again under another id
   still arrives, and a body is read as another type only when the receiver
   itself has registered that other type under the id of the message. *)
Faithful ==
    \A n \in DOMAIN handled :
        /\ Succeeded(handled[n]) /\ sent[n] # Registration
        /\ \A m \in MessagesOf(sent[n]) : ~Misread(m)
        => handled[n].val = Arrival(sent[n])

(* Even when an id stands for two types, so that the body of a message may be
   taken for another one, the envelope reaches the actors it was meant for and
   answers the request it was meant to answer. *)
Addressed ==
    \A n \in DOMAIN handled :
        Succeeded(handled[n]) /\ sent[n] # Registration
            => Address(handled[n].val) = Address(sent[n])

(* A frame is rejected, which at the server end costs the session, only when
   the receiving system does not know the type of the message, or has another
   type under its id: no message that both have registered under one id, and the
   receiver under no other type, is ever rejected. *)
OnlyUnknownRejected ==
    \A n \in DOMAIN handled :
        ~Succeeded(handled[n]) =>
            /\ sent[n] # Registration
            /\ \E m \in MessagesOf(sent[n]) : ~Crosses(m) \/ Misread(m)

(* Every accepted envelope is handled in the end, the one in the last bytes of
   the stream included, unless the server end has closed the session. *)
Arrives == <>[](started => Len(handled) = Len(sent) \/ closed)

(* Send refuses only what cannot cross: a kind of envelope that stays inside a
   system, an envelope none of whose messages has a registered type and a valid
   body, one that names an actor by an invalid string.  The second case takes in
   the response that carries an error and no message: Send marshals the message
   before it looks at the error, although OnMessage is written for a response
   without one, so such an error never reaches the requester. *)
RefusedForCause ==
    \A r \in refused :
        \/ r[1].kind \notin DOMAIN PkgType
        \/ \A m \in MessagesOf(r[1]) :
              m = NoMessage \/ m.body = Broken \/ \A id \in Ids : <<"from", id, m.type>> \notin registered
        \/ ~Serializable(r[1])
================================================================================
