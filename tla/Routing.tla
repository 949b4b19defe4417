-------------------------------- MODULE Routing --------------------------------
(***************************************************************************)
(* The routers of all systems of a cluster (router.go), the links between  *)
(* them, and the request proxy (request_proxy.go): what becomes of an      *)
(* envelope from the call of Router to the actor it is for, and of the     *)
(* answer to a request from outside the actor system.                      *)
(*                                                                         *)
(* Each operation of Ops is one envelope that one system is given, once.   *)
(* A link carries packages first in, first out, and loses them when it     *)
(* breaks (ClusterLink, ConnSocket, Wire).  LocalRouter, the mailboxes and *)
(* RequestAsync belong to the actor library, outside this repository.      *)
(***************************************************************************)
EXTENDS Placement, FiniteSets

CONSTANTS
    Ops,        \* the operations
    Kind,       \* Kind[o]: Batch, Notify, Send, Watch, OuterWatch, OuterRequest
    At,         \* At[o]: the system whose router is called
    Targets,    \* Targets[o]: the actors it is for, as [at, type, id], where
                \* at is the system the reference was made for, or 0
    WatchType,  \* WatchType[o]: the watch type of a watch
    MaxCalls,   \* bound on the operations of a behaviour
    MaxBreaks   \* bound on the breaks of links

NoError == "none"
ErrorCodeMessageSendFail == "send failed"
ErrorCodeTimeout == "timeout"

Groups == {"Batch", "Notify"}

ASSUME RoutingAssumption ==
    /\ Kind \in [Ops -> Groups \cup {"Send", "Watch", "OuterWatch", "OuterRequest"}]
    /\ At \in [Ops -> Systems]
    /\ \A o \in Ops :
          /\ Targets[o] \subseteq [at : Systems \cup {0}, type : Types, id : Ids]
          /\ Kind[o] \notin Groups => \E t \in Targets[o] : Targets[o] = {t}
    /\ MaxCalls \in Nat /\ MaxBreaks \in Nat

VARIABLES
    up,        \* the pairs of systems whose link is ready
    wire,      \* packages sent and not yet read, by sender and receiver
    inbox,     \* envelopes LocalRouter was given, by system
    called,    \* operations whose router has been called
    groups,    \* groups of a batch the router has still to send
    err,       \* the error the router returns
    failed,    \* references of an operation that were refused by Send
    lost,      \* references of an operation that a broken link lost
    subscribed,\* <<proxy, watch type>>: what the watch proxies have subscribers for
    joined,    \* watches whose proxy had subscribed already
    got,       \* <<o, s, ref>>: the actor ref has been handed o on system s
    pending,   \* requests with a callback registered by the request proxy
    rspChan,   \* RspChan of a request
    caller,    \* what the caller of a request has: <<>>, or <<its response>>
    breaks

netVars    == <<up, wire, breaks>>
callVars   == <<called, groups>>
watchVars  == <<subscribed, joined>>
answerVars == <<pending, rspChan, caller>>
vars == <<netVars, inbox, callVars, err, failed, lost, watchVars, got, answerVars>>

RefOf(o, t) == CreateActorRefEx(At[o], t.at, t.type, t.id)
Refs        == [o \in Ops |-> {RefOf(o, t) : t \in Targets[o]}]
TheRef(o)   == CHOOSE r \in Refs[o] : TRUE
(* Whose share of operation o has to be accounted for: the actors it names; for
   a watch through a proxy, the actor the id of the proxy names. *)
Meant ==
    [o \in Ops |->
        IF Kind[o] \in {"Watch", "OuterWatch"} /\ TheRef(o).SystemId # At[o]
        THEN {CreateActorRef(At[o], TheRef(o).ActorType, TheRef(o).ActorId)}
        ELSE Refs[o]]
GroupOf(o, s) == {r \in Refs[o] : r.SystemId = s}
Requests    == {o \in Ops : Kind[o] = "OuterRequest"}
Links       == {l \in SUBSET Systems : Cardinality(l) = 2}

Env(o, kind, to) == [op |-> o, kind |-> kind, to |-> to, from |-> Nil]
Answer(o, to, from) == [op |-> o, kind |-> "ResponseAsync", to |-> to, from |-> from]
Response(error, message) == [Error |-> error, Message |-> message]

(* of an operation called, to an actor in a legal slot of system s *)
WellAddressed(e, s) ==
    e.op \in called /\ e.to.SystemId = s /\ e.to.GroupSlot \in 1 .. Slots - 1

TypeOK ==
    /\ up \subseteq Links /\ breaks \in 0 .. MaxBreaks
    /\ \A s, t \in Systems : \A i \in DOMAIN wire[<<s, t>>] :
          \A e \in wire[<<s, t>>][i] : WellAddressed(e, t) /\ s # t
    /\ \A s \in Systems : \A e \in inbox[s] : WellAddressed(e, s)
    /\ called \subseteq Ops
    /\ \A o \in Ops :
          /\ groups[o] \subseteq {r.SystemId : r \in Refs[o]}
          /\ failed[o] \cup lost[o] \subseteq Meant[o]
    /\ joined \subseteq called
    /\ \A o \in joined : <<GetWatchProxyActorRef(At[o], TheRef(o)), WatchType[o]>> \in subscribed
    /\ err \in [Ops -> {NoError, ErrorCodeMessageSendFail}]
    /\ pending \subseteq called \cap Requests
    /\ \A o \in Requests : Len(rspChan[o]) <= 1

Init ==
    /\ up \in SUBSET Links /\ breaks = 0
    /\ wire = [p \in Systems \X Systems |-> <<>>]
    /\ inbox = [s \in Systems |-> {}]
    /\ called = {} /\ groups = [o \in Ops |-> {}]
    /\ err = [o \in Ops |-> NoError]
    /\ failed = [o \in Ops |-> {}] /\ lost = [o \in Ops |-> {}]
    /\ subscribed = {} /\ joined = {}
    /\ got = {}
    /\ pending = {}
    /\ rspChan = [o \in Requests |-> <<>>]
    /\ caller = [o \in Requests |-> <<>>]

(* ------------------------ the ways of an envelope ---------------------- *)

LocalRouter(s, E) ==
    inbox' = [inbox EXCEPT ![s] = @ \cup E]

(* clusterNet.Send: one package on the link, or ErrorCodeMessageSendFail *)
Linked(s, t) == {s, t} \in up

Send(s, t, E) ==
    /\ s # t /\ Linked(s, t)
    /\ wire' = [wire EXCEPT ![<<s, t>>] = Append(@, E)]

SendFails(o, s, t, refs) ==
    /\ s # t /\ ~Linked(s, t)
    /\ failed' = [failed EXCEPT ![o] = @ \cup refs]

(* mutant: the error is assigned to a variable of the loop *)
MutRoute(o, s, t, E, refs) ==
    /\ \/ s = t /\ LocalRouter(t, E) /\ UNCHANGED <<wire, failed>>
       \/ Send(s, t, E) /\ UNCHANGED <<inbox, failed>>
       \/ SendFails(o, s, t, refs) /\ UNCHANGED <<inbox, wire>>
    /\ UNCHANGED err

(* Router, from a system to one other or to itself, for one group *)
Route(o, s, t, E, refs) ==
    \/ /\ s = t /\ LocalRouter(t, E)
       /\ UNCHANGED <<wire, err, failed>>
    \/ /\ Send(s, t, E)
       /\ err' = [err EXCEPT ![o] = NoError]
       /\ UNCHANGED <<inbox, failed>>
    \/ /\ SendFails(o, s, t, refs)
       /\ err' = [err EXCEPT ![o] = ErrorCodeMessageSendFail]
       /\ UNCHANGED <<wire, inbox>>

(* -------------------------------- Router ------------------------------- *)

Call(o) ==
    /\ o \notin called /\ Cardinality(called) < MaxCalls
    /\ called' = called \cup {o}

(* a batch or a notification: one group for every system named *)
CallGroups(o) ==
    /\ Kind[o] \in Groups /\ Call(o)
    /\ groups' = [groups EXCEPT ![o] = {r.SystemId : r \in Refs[o]}]
    /\ UNCHANGED <<netVars, inbox, err, failed, lost, watchVars, got, answerVars>>

(* mutants: the whole batch for every group; no group after one that failed *)
MutUngrouped(o, t) ==
    /\ t \in groups[o]
    /\ groups' = [groups EXCEPT ![o] = @ \ {t}]
    /\ Route(o, At[o], t, {Env(o, Kind[o], r) : r \in Refs[o]}, GroupOf(o, t))
    /\ UNCHANGED <<up, breaks, called, lost, watchVars, got, answerVars>>

MutStopAtFailure(o, t) ==
    /\ t \in groups[o]
    /\ Route(o, At[o], t, {Env(o, Kind[o], r) : r \in GroupOf(o, t)}, GroupOf(o, t))
    /\ groups' = [groups EXCEPT ![o] = IF failed' = failed THEN @ \ {t} ELSE {}]
    /\ UNCHANGED <<up, breaks, called, lost, watchVars, got, answerVars>>

(* the next group, in the order Go happens to walk the map *)
RouteGroup(o, t) ==
    /\ t \in groups[o]
    /\ groups' = [groups EXCEPT ![o] = @ \ {t}]
    /\ Route(o, At[o], t, {Env(o, Kind[o], r) : r \in GroupOf(o, t)}, GroupOf(o, t))
    /\ UNCHANGED <<up, breaks, called, lost, watchVars, got, answerVars>>

(* every other kind that may cross *)
RouteSend(o) ==
    /\ Kind[o] = "Send" /\ Call(o)
    /\ Route(o, At[o], TheRef(o).SystemId, {Env(o, "Send", TheRef(o))}, Refs[o])
    /\ UNCHANGED <<up, breaks, groups, lost, watchVars, got, answerVars>>

(* What holds a queue or a channel stays on its system: there it goes to the
   actor itself, or to the proxy of an actor elsewhere. *)
RouteWatch(o) ==
    /\ Kind[o] \in {"Watch", "OuterWatch"} /\ Call(o)
    /\ LocalRouter(At[o],
          IF TheRef(o).SystemId = At[o] THEN {Env(o, "Send", TheRef(o))}
          ELSE {Env(o, "ProxyWatch", GetWatchProxyActorRef(At[o], TheRef(o)))})
    /\ UNCHANGED <<netVars, groups, err, failed, lost, watchVars, got, answerVars>>

RouteOuterRequest(o) ==
    /\ Kind[o] = "OuterRequest" /\ Call(o)
    /\ LocalRouter(At[o],
          IF TheRef(o).SystemId = At[o] THEN {Env(o, "Request", TheRef(o))}
          ELSE {Env(o, "ProxyRequest", GetRequestProxyActorRef(At[o], TheRef(o)))})
    /\ UNCHANGED <<netVars, groups, err, failed, lost, watchVars, got, answerVars>>

(* ------------------------------ the actors ----------------------------- *)

Take(s, e) == inbox' = [inbox EXCEPT ![s] = @ \ {e}]

HandleSend(s, e) ==
    /\ e \in inbox[s] /\ e.kind \in Groups \cup {"Send"}
    /\ Take(s, e)
    /\ got' = got \cup {<<e.op, s, e.to>>}
    /\ UNCHANGED <<netVars, callVars, err, failed, lost, watchVars, answerVars>>

(* an actor asked on its own system answers into the channel *)
HandleRequest(s, e) ==
    /\ e \in inbox[s] /\ e.kind = "Request"
    /\ Take(s, e)
    /\ got' = got \cup {<<e.op, s, e.to>>}
    /\ rspChan' = [rspChan EXCEPT ![e.op] = Append(@, Response(NoError, e.to))]
    /\ UNCHANGED <<netVars, callVars, err, failed, lost, watchVars, pending, caller>>

(* an actor asked by a proxy elsewhere: its answer goes through the router of
   this system, and is dropped when that fails *)
HandleRequestAsync(s, e) ==
    LET t == At[e.op] IN
    /\ e \in inbox[s] /\ e.kind = "RequestAsync"
    /\ Take(s, e)
    /\ got' = got \cup {<<e.op, s, e.to>>}
    /\ \/ Send(s, t, {Answer(e.op, GetRequestProxyActorRef(t, e.to), e.to)})
       \/ ~Linked(s, t) /\ UNCHANGED wire
    /\ UNCHANGED <<up, breaks, callVars, err, failed, lost, watchVars, answerVars>>

Subscription(e) == <<e.to, WatchType[e.op]>>

(* WatchProxy: the first subscription of a type makes it watch the actor its id
   names, through the router ... *)
HandleProxyWatch(s, e) ==
    LET watchee == GetWatcheeActorRef(s, e.to.ActorId)
        t       == watchee.SystemId
    IN  /\ e \in inbox[s] /\ e.kind = "ProxyWatch" /\ Subscription(e) \notin subscribed
        /\ subscribed' = subscribed \cup {Subscription(e)}
        /\ \/ /\ s = t
              /\ inbox' = [inbox EXCEPT ![s] = (@ \ {e}) \cup {Env(e.op, "Send", watchee)}]
              /\ UNCHANGED <<wire, failed>>
           \/ /\ Take(s, e) /\ Send(s, t, {Env(e.op, "Send", watchee)})
              /\ UNCHANGED failed
           \/ /\ Take(s, e) /\ SendFails(e.op, s, t, {watchee})
              /\ UNCHANGED wire
        /\ UNCHANGED <<up, breaks, callVars, err, lost, joined, got, answerVars>>

(* ... and the next ones join it, whatever became of that one. *)
HandleProxyJoin(s, e) ==
    /\ e \in inbox[s] /\ e.kind = "ProxyWatch" /\ Subscription(e) \in subscribed
    /\ Take(s, e)
    /\ joined' = joined \cup {e.op}
    /\ UNCHANGED <<netVars, callVars, err, failed, lost, subscribed, got, answerVars>>

(* mutant: asks the actor the id of the proxy names *)
MutHandleProxyRequest(s, e) ==
    LET ref == GetWatcheeActorRef(s, e.to.ActorId)
        t   == ref.SystemId
    IN  /\ e \in inbox[s] /\ e.kind = "ProxyRequest"
        /\ Take(s, e)
        /\ Send(s, t, {Env(e.op, "RequestAsync", ref)})
        /\ pending' = pending \cup {e.op}
        /\ UNCHANGED <<failed, rspChan, up, breaks, callVars, err, lost, watchVars, got, caller>>

(* RequestProxy.OnMessage: RequestAsync with a callback.  When it cannot be
   sent, the library may call the callback at once or leave it to the timeout. *)
HandleProxyRequest(s, e) ==
    LET ref == TheRef(e.op)
        t   == ref.SystemId
    IN  /\ e \in inbox[s] /\ e.kind = "ProxyRequest"
        /\ Take(s, e)
        /\ \/ /\ Send(s, t, {Env(e.op, "RequestAsync", ref)})
              /\ pending' = pending \cup {e.op}
              /\ UNCHANGED <<failed, rspChan>>
           \/ /\ SendFails(e.op, s, t, {ref})
              /\ pending' = pending \cup {e.op}
              /\ UNCHANGED <<wire, rspChan>>
           \/ /\ SendFails(e.op, s, t, {ref})
              /\ rspChan' = [rspChan EXCEPT ![e.op] = Append(@, Response(ErrorCodeMessageSendFail, Nil))]
              /\ UNCHANGED <<wire, pending>>
        /\ UNCHANGED <<up, breaks, callVars, err, lost, watchVars, got, caller>>

(* The callback writes to RspChan, which has room for one answer, and blocks
   the proxy while it is full. *)
Callback(o, rsp) ==
    /\ o \in pending /\ rspChan[o] = <<>>
    /\ pending' = pending \ {o}
    /\ rspChan' = [rspChan EXCEPT ![o] = Append(@, rsp)]

(* mutant: a late answer is written to the channel as well *)
MutHandleResponseAsync(s, e) ==
    /\ e \in inbox[s] /\ e.kind = "ResponseAsync"
    /\ Take(s, e)
    /\ rspChan' = [rspChan EXCEPT ![e.op] = Append(@, Response(NoError, e.from))]
    /\ UNCHANGED <<pending, netVars, callVars, err, failed, lost, watchVars, got, caller>>

(* an answer reaches the proxy; one that comes after the timeout finds no
   callback *)
HandleResponseAsync(s, e) ==
    /\ e \in inbox[s] /\ e.kind = "ResponseAsync"
    /\ Take(s, e)
    /\ Callback(e.op, Response(NoError, e.from)) \/ (e.op \notin pending /\ UNCHANGED <<pending, rspChan>>)
    /\ UNCHANGED <<netVars, callVars, err, failed, lost, watchVars, got, caller>>

(* mutant: RequestAsync without a timeout *)
MutProxyTimeout(o) == FALSE /\ UNCHANGED vars

(* RequestProxyTimeout *)
ProxyTimeout(o) ==
    /\ Callback(o, Response(ErrorCodeTimeout, Nil))
    /\ UNCHANGED <<netVars, inbox, callVars, err, failed, lost, watchVars, got, caller>>

CallerReceives(o) ==
    /\ caller[o] = <<>> /\ rspChan[o] # <<>>
    /\ caller' = [caller EXCEPT ![o] = <<Head(rspChan[o])>>]
    /\ rspChan' = [rspChan EXCEPT ![o] = Tail(@)]
    /\ UNCHANGED <<netVars, inbox, callVars, err, failed, lost, watchVars, got, pending>>

(* the timeout the caller asked for *)
CallerGivesUp(o) ==
    /\ o \in called /\ caller[o] = <<>>
    /\ caller' = [caller EXCEPT ![o] = <<Response(ErrorCodeTimeout, Nil)>>]
    /\ UNCHANGED <<netVars, inbox, callVars, err, failed, lost, watchVars, got, pending, rspChan>>

(* ------------------------------ the links ------------------------------ *)

(* OnMessage of the receiving system: straight to LocalRouter *)
Arrive(s, t) ==
    /\ wire[<<s, t>>] # <<>>
    /\ LocalRouter(t, Head(wire[<<s, t>>]))
    /\ wire' = [wire EXCEPT ![<<s, t>>] = Tail(@)]
    /\ UNCHANGED <<up, breaks, callVars, err, failed, lost, watchVars, got, answerVars>>

OnWire(p) == UNION {wire[p][i] : i \in DOMAIN wire[p]}

Break(l) ==
    LET gone == UNION {OnWire(p) : p \in {q \in l \X l : q[1] # q[2]}} IN
    /\ l \in up /\ breaks < MaxBreaks
    /\ up' = up \ {l}
    /\ breaks' = breaks + 1
    /\ wire' = [p \in Systems \X Systems |-> IF {p[1], p[2]} = l THEN <<>> ELSE wire[p]]
    /\ lost' = [o \in Ops |-> lost[o] \cup
                  {e.to : e \in {x \in gone : x.op = o /\ x.kind # "ResponseAsync"}}]
    /\ UNCHANGED <<inbox, callVars, err, failed, watchVars, got, answerVars>>

Connect(l) ==
    /\ l \notin up
    /\ up' = up \cup {l}
    /\ UNCHANGED <<wire, breaks, inbox, callVars, err, failed, lost, watchVars, got, answerVars>>

Router(o) ==
    \/ CallGroups(o)
    \/ \E t \in Systems : RouteGroup(o, t)
    \/ RouteSend(o) \/ RouteWatch(o) \/ RouteOuterRequest(o)

Handle(s) ==
    \E e \in inbox[s] :
        \/ HandleSend(s, e) \/ HandleRequest(s, e) \/ HandleRequestAsync(s, e)
        \/ HandleProxyWatch(s, e) \/ HandleProxyJoin(s, e)
        \/ HandleProxyRequest(s, e) \/ HandleResponseAsync(s, e)

Next ==
    \/ \E o \in Ops : Router(o)
    \/ \E s \in Systems : Handle(s)
    \/ \E o \in Requests : ProxyTimeout(o) \/ CallerReceives(o) \/ CallerGivesUp(o)
    \/ \E s, t \in Systems : Arrive(s, t)
    \/ \E l \in Links : Break(l) \/ Connect(l)

Spec == Init /\ [][Next]_vars

(* Goroutines run, connections are read and timers fire; nobody owes the
   cluster a call, a link or a caller that gives up.  Every operation takes
   finitely many steps, so fairness among all routers, among all systems and
   among all requests is enough. *)
FairSpec ==
    /\ Spec
    /\ WF_vars(\E o \in Ops, t \in Systems : RouteGroup(o, t))
    /\ WF_vars(\E s \in Systems : Handle(s))
    /\ WF_vars(\E s, t \in Systems : Arrive(s, t))
    /\ WF_vars(\E o \in Requests : ProxyTimeout(o) \/ CallerReceives(o))

(* ------------------------------ properties ----------------------------- *)

Placed(o, ref) ==
    \E t \in Targets[o] : t.at = 0 /\ SystemIds(t.type) # <<>> /\ ref = RefOf(o, t)

(* An actor whose type some system declares, named without a system, is handed
   its messages on one system and under one reference, whichever systems they
   come from and through whichever proxies: CreateActorRefEx (router.go:45-76)
   places it in the same way everywhere. *)
OneHome ==
    \A g, h \in got :
        /\ Placed(g[1], g[3]) /\ Placed(h[1], h[3])
        /\ g[3].ActorType = h[3].ActorType /\ g[3].ActorId = h[3].ActorId
        => g[2] = h[2] /\ g[3] = h[3]

About(e, o, ref) ==
    /\ e.op = o /\ e.kind # "ResponseAsync"
    /\ e.to = ref \/ e.kind \in {"ProxyWatch", "ProxyRequest"}

(* where the share of ref in operation o is *)
Places(o, ref) ==
    {<<"group">> : s \in groups[o] \cap {ref.SystemId}}
    \cup {<<"failed">> : r \in failed[o] \cap {ref}}
    \cup {<<"lost">> : r \in lost[o] \cap {ref}}
    \cup {<<"joined">> : x \in joined \cap {o}}
    \cup (UNION {{<<"wire", p[1], p[2], i>> : i \in
                     {j \in DOMAIN wire[p] : \E e \in wire[p][j] : About(e, o, ref)}}
                  : p \in Systems \X Systems})
    \cup (UNION {{<<"inbox", s, e>> : e \in {x \in inbox[s] : About(x, o, ref)}} : s \in Systems})
    \cup {<<"got", g[2]>> : g \in {x \in got : x[1] = o /\ x[3] = ref}}

(* Nothing is duplicated and nothing vanishes: for every actor an operation
   names there is at any time one group the router has still to send, one
   envelope on its way, one actor that has it, one refusal by Send, one loss on a
   broken link or one subscription that its proxy added to another, and only one
   of these. *)
Accounted ==
    \A o \in called : \A ref \in Meant[o] : Cardinality(Places(o, ref)) = 1

(* What the error of Router says (router.go:96): a failure is real; and when a
   group was refused although Router returned nil, another system got its group
   of the same batch.  With a single remote system no refusal is silent. *)
ErrorsReported ==
    \A o \in called :
        Kind[o] \in Groups \cup {"Send"} /\ groups[o] = {} =>
            /\ err[o] # NoError => failed[o] # {}
            /\ err[o] = NoError /\ failed[o] # {} =>
                  \E r \in Refs[o] \ failed[o] : r.SystemId # At[o]

(* The caller of a request gets the answer of the actor it asked, and of no
   other request that goes through the same proxy, or an error. *)
RightAnswer ==
    \A o \in Requests :
        caller[o] # <<>> /\ caller[o][1].Error = NoError =>
            /\ caller[o][1].Message = TheRef(o)
            /\ \E g \in got : g[1] = o /\ g[3] = TheRef(o)

(* The callback of the request proxy never waits for room in RspChan
   (request_proxy.go:36), though caller and proxy time out independently and an
   answer may come after either: the proxy would stop serving everybody. *)
NeverBlocks == \A o \in pending : rspChan[o] = <<>>

(* A caller is never left alone, even with a timeout of its own that never
   fires: answer, refusal, loss or the proxy's 30 seconds end the request.
   Operations are called once and are bounded, and what a caller has it keeps:
   in the end all requests made have ended.  The 30 seconds are what the code
   gives the proxy (request_proxy.go:12-14, 36), against the document, which has
   it call RequestAsync with timeout=0 because the limit is kept by the caller
   (docs/proxies.md:17, 21): then only the caller's own timeout would end a
   request whose answer is lost. *)
RequestsEnd == <>[](\A o \in called \cap Requests : caller[o] # <<>>)

(* Every share of an operation comes to an actor, is refused, is lost with a link
   or joins a subscription of its proxy; the router does not stop at a group that
   failed. *)
Settles ==
    <>[](\A o \in called : \A ref \in Meant[o] :
            ref \in failed[o] \cup lost[o] \/ o \in joined \/ \E s \in Systems : <<o, s, ref>> \in got)

(* Readme.md:14, "When SystemId is specified (CreateActorRefEx), the system
   sends the message to the node where the System is located": a watch of an
   actor reaches the system its reference names. *)
WatchGoesWhereTold ==
    \A g \in got :
        Kind[g[1]] \in {"Watch", "OuterWatch"} => g[2] = TheRef(g[1]).SystemId
================================================================================
