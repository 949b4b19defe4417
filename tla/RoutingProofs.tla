---------------------------- MODULE RoutingProofs ----------------------------
(***************************************************************************)
(* Proofs about Placement and Routing, for any configuration, operations   *)
(* and bounds: a slot is never zero, a placed actor has one home, the      *)
(* request proxy never waits for room in a response channel, the answer a  *)
(* caller gets is that of the actor it asked, every share of an operation  *)
(* is in exactly one place, and what Router reports is true.               *)
(*                                                                         *)
(* The first part rests on IInv, which says where envelopes and answers    *)
(* may be; the second on Ledger, which keeps books on every operation.     *)
(***************************************************************************)
EXTENDS Routing, SequenceTheorems, FiniteSetTheorems, TLAPS

-----------------------------------------------------------------------------
(* Placement.                                                              *)

LEMMA ModRange ==
  ASSUME NEW n \in Nat, NEW m \in Nat, m > 0
  PROVE  n % m \in 0 .. m - 1
OBVIOUS

LEMMA SystemsNotZero ==
  ASSUME NEW s \in Systems
  PROVE  s # 0
<1>1. SystemConfigs \in Seq([SystemId : Nat \ {0}, ActorTypes : SUBSET Types])
  BY PlacementAssumption
<1>2. PICK i \in DOMAIN SystemConfigs : s = SystemConfigs[i].SystemId
  BY DEF Systems
<1> DEFINE Config == [SystemId : Nat \ {0}, ActorTypes : SUBSET Types]
<1>3. SystemConfigs[i] \in Config
  <2>1. SystemConfigs \in Seq(Config) /\ i \in DOMAIN SystemConfigs
    BY <1>1
  <2> HIDE DEF Config
  <2>2. SystemConfigs \in [1 .. Len(SystemConfigs) -> Config]
    BY <2>1, LenProperties
  <2> QED BY <2>1, <2>2
<1> QED BY <1>2, <1>3

\* Whatever the hash and the number of slots, the slot of an actor is a legal
\* one (router.go:67-74): zero, which the width of GroupSlot makes of the last
\* slot plus one, is replaced.
THEOREM SlotInRange ==
  ASSUME NEW h \in Nat
  PROVE  GroupSlot(h) \in 1 .. Slots - 1
<1>1. Slots \in Nat /\ Slots > 1
  BY PlacementAssumption
<1>2. ((h % Slots) + 1) % Slots \in 0 .. Slots - 1
  BY <1>1, ModRange
<1> QED BY <1>1, <1>2 DEF GroupSlot

\* A reference that names a type some system declares and leaves the system open
\* does not depend on the system that makes it (router.go:59-66).
THEOREM PlacedAlike ==
  ASSUME NEW l, NEW m, NEW type, NEW id, SystemIds(type) # <<>>
  PROVE  CreateActorRef(l, type, id) = CreateActorRef(m, type, id)
BY DEF CreateActorRef, CreateActorRefEx

\* The id of a proxy gives back the reference it was made for, if that was placed
\* by the hash (router.go:10-20, watch_proxy.go:12-14); the proxy itself is on
\* the system that makes it.
THEOREM ProxyStandsForActor ==
  ASSUME NEW l \in Systems, NEW type \in Types, NEW id \in Ids
  PROVE  LET ref   == CreateActorRef(l, type, id)
             proxy == GetWatchProxyActorRef(l, ref)
         IN  proxy.SystemId = l /\ GetWatcheeActorRef(l, proxy.ActorId) = ref
<1>1. l # 0
  BY SystemsNotZero
<1>2. <<type, id>> \in ProxyId
  BY DEF ProxyId
<1> QED BY <1>1, <1>2 DEF CreateActorRef, CreateActorRefEx, GetWatchProxyActorRef, GetWatcheeActorRef

-----------------------------------------------------------------------------
(* The inductive invariant.                                                *)

Kinds == Groups \cup {"Send", "ProxyWatch", "Request", "ProxyRequest", "RequestAsync", "ResponseAsync"}
AllRefs ==
    {CreateActorRefEx(p[1], p[2], p[3], p[4]) :
        p \in Systems \X (Systems \cup {0})
             \X (Types \cup {RequestProxyActorType, WatchProxyActorType}) \X ActorId}
Envelopes == [op : Ops, kind : Kinds, to : AllRefs, from : AllRefs \cup {Nil}]
Responses == [Error : {NoError, ErrorCodeMessageSendFail, ErrorCodeTimeout}, Message : AllRefs \cup {Nil}]

Types0 ==
    /\ called \subseteq Ops /\ pending \subseteq Requests /\ up \subseteq SUBSET Systems
    /\ inbox \in [Systems -> SUBSET Envelopes]
    /\ wire \in [Systems \X Systems -> Seq(SUBSET Envelopes)]
    /\ rspChan \in [Requests -> Seq(Responses)]
    /\ caller \in [Requests -> Seq(Responses)]

\* The one envelope of a request that has not been asked yet.
Question(o) ==
    IF TheRef(o).SystemId = At[o] THEN Env(o, "Request", TheRef(o))
    ELSE Env(o, "ProxyRequest", GetRequestProxyActorRef(At[o], TheRef(o)))

Asked(s, e) ==
    e.kind \in {"Request", "ProxyRequest"} =>
        /\ e.op \in Requests \cap called /\ s = At[e.op] /\ e = Question(e.op)
        /\ e.op \notin pending /\ rspChan[e.op] = <<>>

Truthful(e) ==
    /\ e.kind = "ProxyWatch" => e.to.ActorId \in ProxyId
    /\ e.kind = "RequestAsync" => e.op \in Requests /\ e.to = TheRef(e.op)
    /\ e.kind = "ResponseAsync" =>
          /\ e.op \in Requests /\ e.from = TheRef(e.op)
          /\ <<e.op, e.from.SystemId, e.from>> \in got

InboxOK == \A s \in Systems : \A e \in inbox[s] :
               e.to.SystemId = s /\ Asked(s, e) /\ Truthful(e)

WireOK == \A p \in Systems \X Systems : \A i \in 1 .. Len(wire[p]) : \A e \in wire[p][i] :
               e.to.SystemId = p[2] /\ e.kind \notin {"Request", "ProxyRequest"} /\ Truthful(e)

Right(o, r) == r.Error = NoError => r.Message = TheRef(o) /\ <<o, TheRef(o).SystemId, TheRef(o)>> \in got

Answers ==
    \A o \in Requests :
        /\ o \in pending => rspChan[o] = <<>>
        /\ o \notin called => o \notin pending /\ rspChan[o] = <<>>
        /\ \A i \in 1 .. Len(rspChan[o]) : Right(o, rspChan[o][i])
        /\ \A i \in 1 .. Len(caller[o]) : Right(o, caller[o][i])

GotHome == \A g \in got : \E o \in Ops, r \in AllRefs : g = <<o, r.SystemId, r>>

Homes == {r.SystemId : r \in AllRefs}

Batches == groups \in [Ops -> SUBSET Homes] /\ \A o \in Ops : groups[o] # {} => Kind[o] \in Groups

IInv == Types0 /\ Batches /\ InboxOK /\ WireOK /\ Answers /\ GotHome

-----------------------------------------------------------------------------
(* References and envelopes.                                               *)

LEMMA RefType ==
  ASSUME NEW l \in Systems, NEW s \in Systems \cup {0},
         NEW t \in Types \cup {RequestProxyActorType, WatchProxyActorType}, NEW i \in ActorId
  PROVE  CreateActorRefEx(l, s, t, i) \in AllRefs
<1> DEFINE p == <<l, s, t, i>>
<1>1. p \in Systems \X (Systems \cup {0})
             \X (Types \cup {RequestProxyActorType, WatchProxyActorType}) \X ActorId
  OBVIOUS
<1>2. CreateActorRefEx(p[1], p[2], p[3], p[4]) \in AllRefs
  BY <1>1 DEF AllRefs
<1> QED BY <1>2

LEMMA RefsType ==
  ASSUME NEW o \in Ops
  PROVE  /\ At[o] \in Systems
         /\ Refs[o] \subseteq AllRefs
         /\ Kind[o] \notin Groups => TheRef(o) \in Refs[o] /\ TheRef(o) \in AllRefs
         /\ \A r \in Refs[o] : r.ActorType \in Types /\ r.ActorId \in Ids
<1>1. At[o] \in Systems /\ Targets[o] \subseteq [at : Systems \cup {0}, type : Types, id : Ids]
  BY RoutingAssumption
<1>2. ASSUME NEW t \in Targets[o]
      PROVE  /\ RefOf(o, t) \in AllRefs
             /\ RefOf(o, t).ActorType \in Types /\ RefOf(o, t).ActorId \in Ids
  <2>1. t.at \in Systems \cup {0} /\ t.type \in Types /\ t.id \in Ids /\ t.id \in ActorId
    BY <1>1 DEF ActorId
  <2>2. RefOf(o, t) \in AllRefs
    BY <1>1, <2>1, RefType DEF RefOf
  <2>3. RefOf(o, t).ActorType = t.type /\ RefOf(o, t).ActorId = t.id
    BY DEF RefOf, CreateActorRefEx
  <2> QED BY <2>1, <2>2, <2>3
<1>3. Refs[o] = {RefOf(o, t) : t \in Targets[o]}
  BY DEF Refs
<1>4. ASSUME Kind[o] \notin Groups PROVE TheRef(o) \in Refs[o]
  <2>1. \E t \in Targets[o] : TRUE
    BY <1>4, RoutingAssumption
  <2>2. \E r \in Refs[o] : TRUE
    BY <1>3, <2>1
  <2> QED BY <2>2 DEF TheRef
<1> QED BY <1>1, <1>2, <1>3, <1>4

LEMMA ProxyType ==
  ASSUME NEW s \in Systems, NEW r, r.ActorType \in Types, r.ActorId \in Ids
  PROVE  /\ GetRequestProxyActorRef(s, r) \in AllRefs /\ GetRequestProxyActorRef(s, r).SystemId = s
         /\ GetWatchProxyActorRef(s, r) \in AllRefs /\ GetWatchProxyActorRef(s, r).SystemId = s
         /\ GetWatchProxyActorRef(s, r).ActorId \in ProxyId
<1>1. <<r.ActorType, r.ActorId>> \in ActorId /\ <<r.ActorType, r.ActorId>> \in ProxyId
  BY DEF ActorId, ProxyId
<1>2. s # 0
  BY SystemsNotZero
<1>3. GetRequestProxyActorRef(s, r) \in AllRefs /\ GetWatchProxyActorRef(s, r) \in AllRefs
  BY <1>1, RefType DEF GetRequestProxyActorRef, GetWatchProxyActorRef
<1> QED BY <1>1, <1>2, <1>3 DEF GetRequestProxyActorRef, GetWatchProxyActorRef, CreateActorRefEx

LEMMA EnvType ==
  ASSUME NEW o \in Ops, NEW k \in Kinds, NEW r \in AllRefs
  PROVE  /\ Env(o, k, r) \in Envelopes
         /\ Env(o, k, r).op = o /\ Env(o, k, r).kind = k /\ Env(o, k, r).to = r
BY DEF Env, Envelopes

LEMMA AnswerType ==
  ASSUME NEW o \in Ops, NEW r \in AllRefs, NEW q \in AllRefs
  PROVE  /\ Answer(o, r, q) \in Envelopes
         /\ Answer(o, r, q).op = o /\ Answer(o, r, q).kind = "ResponseAsync"
         /\ Answer(o, r, q).to = r /\ Answer(o, r, q).from = q
BY DEF Answer, Envelopes, Kinds

LEMMA ResponseType ==
  ASSUME NEW x \in {NoError, ErrorCodeMessageSendFail, ErrorCodeTimeout}, NEW m \in AllRefs \cup {Nil}
  PROVE  /\ Response(x, m) \in Responses
         /\ Response(x, m).Error = x /\ Response(x, m).Message = m
BY DEF Response, Responses

LEMMA InitIInv == Init => IInv
<1> SUFFICES ASSUME Init PROVE IInv
  OBVIOUS
<1>1. Types0
  BY EmptySeq DEF Init, Types0, Links
<1>2. Batches /\ InboxOK /\ WireOK /\ Answers /\ GotHome
  BY EmptySeq DEF Init, Batches, InboxOK, WireOK, Answers, GotHome
<1> QED BY <1>1, <1>2 DEF IInv

-----------------------------------------------------------------------------
(* What a step may do to the parts.                                        *)

LEMMA WireKept ==
  ASSUME WireOK, got \subseteq got', UNCHANGED wire
  PROVE  WireOK'
<1> SUFFICES ASSUME NEW p \in Systems \X Systems, NEW i \in 1 .. Len(wire[p]), NEW e \in wire[p][i]
             PROVE  e.to.SystemId = p[2] /\ e.kind \notin {"Request", "ProxyRequest"} /\ Truthful(e)'
  BY DEF WireOK
<1>1. e.to.SystemId = p[2] /\ e.kind \notin {"Request", "ProxyRequest"} /\ Truthful(e)
  BY DEF WireOK
<1> QED BY <1>1 DEF Truthful

LEMMA AppendAt ==
  ASSUME NEW S, NEW q \in Seq(S), NEW x \in S
  PROVE  /\ Append(q, x) \in Seq(S)
         /\ \A i \in 1 .. Len(Append(q, x)) :
               \/ i \in 1 .. Len(q) /\ Append(q, x)[i] = q[i]
               \/ Append(q, x)[i] = x
<1>1. /\ Append(q, x) \in Seq(S) /\ Len(Append(q, x)) = Len(q) + 1
      /\ \A i \in 1 .. Len(q) : Append(q, x)[i] = q[i]
      /\ Append(q, x)[Len(q) + 1] = x
  BY AppendProperties
<1>2. Len(q) \in Nat
  BY LenProperties
<1>3. \A i \in 1 .. Len(q) + 1 : i \in 1 .. Len(q) \/ i = Len(q) + 1
  BY <1>2
<1> QED BY <1>1, <1>3

LEMMA WireSent ==
  ASSUME Types0, WireOK, got \subseteq got', NEW s \in Systems, NEW t, NEW E \in SUBSET Envelopes,
         Send(s, t, E),
         \A e \in E : e.to.SystemId = t /\ e.kind \notin {"Request", "ProxyRequest"} /\ Truthful(e)'
  PROVE  wire' \in [Systems \X Systems -> Seq(SUBSET Envelopes)] /\ WireOK'
<1>1. t \in Systems
  BY DEF Send, Linked, Types0
<1> DEFINE p == <<s, t>>
<1>2. p \in Systems \X Systems /\ wire[p] \in Seq(SUBSET Envelopes)
  BY <1>1 DEF Types0
<1>3. wire' = [wire EXCEPT ![p] = Append(wire[p], E)]
  BY DEF Send
<1>4. /\ Append(wire[p], E) \in Seq(SUBSET Envelopes)
      /\ \A i \in 1 .. Len(Append(wire[p], E)) :
            \/ i \in 1 .. Len(wire[p]) /\ Append(wire[p], E)[i] = wire[p][i]
            \/ Append(wire[p], E)[i] = E
  <2> HIDE DEF p
  <2> QED BY <1>2, AppendAt
<1>5. wire' \in [Systems \X Systems -> Seq(SUBSET Envelopes)]
  BY <1>2, <1>3, <1>4 DEF Types0
<1>6. ASSUME NEW q \in Systems \X Systems, NEW i \in 1 .. Len(wire'[q]), NEW e \in wire'[q][i]
      PROVE  e.to.SystemId = q[2] /\ e.kind \notin {"Request", "ProxyRequest"} /\ Truthful(e)'
  <2>1. CASE q # p
    <3>1. wire'[q] = wire[q]
      BY <1>3, <2>1 DEF Types0
    <3> QED BY <3>1, <1>6 DEF WireOK, Truthful
  <2>2. CASE q = p
    <3>1. wire'[q] = Append(wire[p], E) /\ q[2] = t
      BY <1>2, <1>3, <2>2 DEF Types0
    <3>2. i \in 1 .. Len(Append(wire[p], E)) /\ e \in Append(wire[p], E)[i]
      BY <1>6, <3>1
    <3>3. \/ i \in 1 .. Len(wire[p]) /\ e \in wire[p][i]
          \/ e \in E
      BY <1>4, <3>2
    <3>4. CASE i \in 1 .. Len(wire[p]) /\ e \in wire[p][i]
      BY <1>2, <2>2, <3>4 DEF WireOK, Truthful
    <3>5. CASE e \in E
      BY <3>1, <3>5
    <3> QED BY <3>3, <3>4, <3>5
  <2> QED BY <2>1, <2>2
<1> QED BY <1>5, <1>6 DEF WireOK

\* Envelopes stay, go or come; those that wait for an answer still do.
LEMMA InboxStep ==
  ASSUME InboxOK, got \subseteq got', called \subseteq called',
         \A s \in Systems : \A e \in inbox'[s] :
            \/ e \in inbox[s] /\ (e.kind \in {"Request", "ProxyRequest"} =>
                                    e.op \notin pending' /\ rspChan'[e.op] = <<>>)
            \/ e.to.SystemId = s /\ Asked(s, e)' /\ Truthful(e)'
  PROVE  InboxOK'
BY ZenonT(60) DEF InboxOK, Asked, Truthful

LEMMA AnswersKept ==
  ASSUME Answers, got \subseteq got', called \subseteq called', UNCHANGED <<pending, rspChan, caller>>
  PROVE  Answers'
BY DEF Answers, Right

\* A step of a router or of a link: nobody has asked or answered anything.
LEMMA Routed ==
  ASSUME IInv, Batches', NEW s \in Systems, NEW E \in SUBSET Envelopes, NEW t,
         called \subseteq called', called' \subseteq Ops,
         UNCHANGED <<up, got, pending, rspChan, caller>>,
         inbox' \in [Systems -> SUBSET Envelopes],
         \A r \in Systems : \A e \in inbox'[r] : e \in inbox[r] \/ (e \in E /\ r = t),
         Send(s, t, E) \/ UNCHANGED wire,
         \A e \in E : /\ e.to.SystemId = t
                      /\ \/ e.kind \in Groups \cup {"Send"}
                         \/ e.kind = "ProxyWatch" /\ e.to.ActorId \in ProxyId
  PROVE  IInv'
<1>0. Types0 /\ InboxOK /\ WireOK /\ Answers /\ GotHome
  BY DEF IInv
<1>1. \A e \in E : e.kind \notin {"Request", "ProxyRequest"} /\ Truthful(e)' /\ \A r \in Systems : Asked(r, e)'
  BY DEF Truthful, Asked, Groups
<1>3. wire' \in [Systems \X Systems -> Seq(SUBSET Envelopes)] /\ WireOK'
  <2>1. CASE UNCHANGED wire
    BY <1>0, <2>1, WireKept DEF Types0
  <2>2. CASE Send(s, t, E)
    BY <1>0, <1>1, <2>2, WireSent
  <2> QED BY <2>1, <2>2
<1>4. Types0'
  BY <1>0, <1>3 DEF Types0
<1>5. InboxOK'
  <2>1. \A r \in Systems : \A e \in inbox[r] : e.kind \in {"Request", "ProxyRequest"} =>
            e.op \notin pending' /\ rspChan'[e.op] = <<>>
    BY <1>0 DEF InboxOK, Asked
  <2> QED BY <1>0, <1>1, <2>1, InboxStep
<1>6. Answers' /\ GotHome'
  BY <1>0, AnswersKept DEF GotHome
<1> QED BY <1>3, <1>4, <1>5, <1>6 DEF IInv

\* The router.
LEMMA CallGroupsStep ==
  ASSUME IInv, NEW o \in Ops, CallGroups(o)
  PROVE  IInv'
<1>1. At[o] \in Systems /\ Refs[o] \subseteq AllRefs
  BY RefsType
<1>2. inbox \in [Systems -> SUBSET Envelopes] /\ called \subseteq Ops
  BY DEF IInv, Types0
<1>3. UNCHANGED <<up, got, pending, rspChan, caller, inbox, wire>> /\ called' = called \cup {o}
  BY DEF CallGroups, Call, netVars, answerVars
<1>4. Batches'
  <2>1. {r.SystemId : r \in Refs[o]} \in SUBSET Homes
    BY <1>1 DEF Homes
  <2>2. Batches /\ Kind[o] \in Groups /\ groups' = [groups EXCEPT ![o] = {r.SystemId : r \in Refs[o]}]
    BY DEF CallGroups, IInv
  <2> DEFINE named == {r.SystemId : r \in Refs[o]}
  <2> HIDE DEF named
  <2> QED BY <2>1, <2>2 DEF Batches, named
<1>5. {} \in SUBSET Envelopes /\ \A e \in {} : FALSE
  OBVIOUS
<1> QED BY <1>1, <1>2, <1>3, <1>4, <1>5, Routed

LEMMA RouteGroupStep ==
  ASSUME IInv, NEW o \in Ops, NEW t \in Systems, RouteGroup(o, t)
  PROVE  IInv'
<1> DEFINE E == {Env(o, Kind[o], r) : r \in GroupOf(o, t)}
<1>1. At[o] \in Systems /\ Refs[o] \subseteq AllRefs
  BY RefsType
<1>2. inbox \in [Systems -> SUBSET Envelopes] /\ called \subseteq Ops /\ Batches
  BY DEF IInv, Types0
<1>3. Kind[o] \in Groups /\ Kind[o] \in Kinds
  BY <1>2 DEF RouteGroup, Batches, Kinds
<1>4. Batches'
  BY <1>2, <1>3 DEF RouteGroup, Batches
<1>5. /\ E \in SUBSET Envelopes
      /\ \A e \in E : e.to.SystemId = t /\ e.kind \in Groups
  BY <1>1, <1>3, EnvType DEF GroupOf
<1>6. /\ UNCHANGED <<up, got, pending, rspChan, caller, called>>
      /\ Route(o, At[o], t, E, GroupOf(o, t))
  BY DEF RouteGroup, answerVars
<1> HIDE DEF E
<1>7. /\ inbox' = inbox \/ inbox' = [inbox EXCEPT ![t] = @ \cup E]
      /\ Send(At[o], t, E) \/ UNCHANGED wire
  BY <1>6 DEF Route, LocalRouter, SendFails
<1> QED BY <1>1, <1>2, <1>4, <1>5, <1>6, <1>7, Routed

LEMMA RouteSendStep ==
  ASSUME IInv, NEW o \in Ops, RouteSend(o)
  PROVE  IInv'
<1> DEFINE E == {Env(o, "Send", TheRef(o))}
           t == TheRef(o).SystemId
<1>1. At[o] \in Systems /\ TheRef(o) \in AllRefs
  BY RefsType DEF RouteSend, Groups
<1>2. inbox \in [Systems -> SUBSET Envelopes] /\ called \subseteq Ops /\ Batches
  BY DEF IInv, Types0
<1>4. Batches'
  BY <1>2 DEF RouteSend, Batches
<1>5. /\ E \in SUBSET Envelopes
      /\ \A e \in E : e.to.SystemId = t /\ e.kind = "Send"
  BY <1>1, EnvType DEF Kinds
<1>6. /\ UNCHANGED <<up, got, pending, rspChan, caller>> /\ called' = called \cup {o}
      /\ Route(o, At[o], t, E, Refs[o])
  BY DEF RouteSend, Call, answerVars
<1> HIDE DEF E, t
<1>7. /\ inbox' = inbox \/ (t = At[o] /\ inbox' = [inbox EXCEPT ![t] = @ \cup E])
      /\ Send(At[o], t, E) \/ UNCHANGED wire
  BY <1>6 DEF Route, LocalRouter, SendFails
<1>8. /\ inbox' \in [Systems -> SUBSET Envelopes]
      /\ \A r \in Systems : \A e \in inbox'[r] : e \in inbox[r] \/ (e \in E /\ r = t)
  BY <1>1, <1>2, <1>5, <1>7
<1> QED BY <1>1, <1>2, <1>4, <1>5, <1>6, <1>7, <1>8, Routed

LEMMA RouteWatchStep ==
  ASSUME IInv, NEW o \in Ops, RouteWatch(o)
  PROVE  IInv'
<1> DEFINE E == IF TheRef(o).SystemId = At[o] THEN {Env(o, "Send", TheRef(o))}
                ELSE {Env(o, "ProxyWatch", GetWatchProxyActorRef(At[o], TheRef(o)))}
           s == At[o]
<1>1. s \in Systems /\ TheRef(o) \in AllRefs /\ TheRef(o).ActorType \in Types /\ TheRef(o).ActorId \in Ids
  BY RefsType DEF RouteWatch, Groups
<1>2. inbox \in [Systems -> SUBSET Envelopes] /\ called \subseteq Ops /\ Batches
  BY DEF IInv, Types0
<1>4. Batches'
  BY <1>2 DEF RouteWatch, Batches
<1>5. /\ E \in SUBSET Envelopes
      /\ \A e \in E : /\ e.to.SystemId = s
                      /\ \/ e.kind \in Groups \cup {"Send"}
                         \/ e.kind = "ProxyWatch" /\ e.to.ActorId \in ProxyId
  <2>1. CASE TheRef(o).SystemId = At[o]
    BY <1>1, <2>1, EnvType DEF Kinds
  <2>2. CASE TheRef(o).SystemId # At[o]
    <3> DEFINE proxy == GetWatchProxyActorRef(s, TheRef(o))
               x == Env(o, "ProxyWatch", proxy)
    <3>1. proxy \in AllRefs /\ proxy.SystemId = s /\ proxy.ActorId \in ProxyId
      BY <1>1, ProxyType
    <3>2. E = {x}
      BY <2>2
    <3> HIDE DEF proxy, s
    <3>3. x \in Envelopes /\ x.kind = "ProxyWatch" /\ x.to = proxy
      BY <3>1, EnvType DEF Kinds
    <3> HIDE DEF x, E
    <3> QED BY <3>1, <3>2, <3>3
  <2> QED BY <2>1, <2>2
<1>6. /\ UNCHANGED <<up, got, pending, rspChan, caller, wire>> /\ called' = called \cup {o}
      /\ inbox' = [inbox EXCEPT ![s] = @ \cup E]
  BY DEF RouteWatch, Call, netVars, answerVars, LocalRouter
<1> HIDE DEF E, s
<1>8. /\ inbox' \in [Systems -> SUBSET Envelopes]
      /\ \A r \in Systems : \A e \in inbox'[r] : e \in inbox[r] \/ (e \in E /\ r = s)
  BY <1>1, <1>2, <1>5, <1>6
<1>9. /\ called \subseteq called' /\ called' \subseteq Ops
      /\ Send(s, s, E) \/ UNCHANGED wire
      /\ UNCHANGED <<up, got, pending, rspChan, caller>>
  BY <1>2, <1>6
<1> QED BY <1>1, <1>4, <1>5, <1>8, <1>9, Routed

LEMMA HandleProxyWatchStep ==
  ASSUME IInv, NEW s \in Systems, NEW e \in inbox[s], HandleProxyWatch(s, e)
  PROVE  IInv'
<1> DEFINE w == GetWatcheeActorRef(s, e.to.ActorId)
           t == w.SystemId
           E == {Env(e.op, "Send", w)}
<1>1. inbox \in [Systems -> SUBSET Envelopes] /\ called \subseteq Ops /\ Batches
  BY DEF IInv, Types0
<1>2. e \in Envelopes /\ e.op \in Ops
  BY <1>1 DEF Envelopes
<1>3. w \in AllRefs
  <2>1. e.to.ActorId \in ProxyId
    BY DEF IInv, InboxOK, Truthful, HandleProxyWatch
  <2>2. e.to.ActorId[1] \in Types /\ e.to.ActorId[2] \in Ids
    BY <2>1 DEF ProxyId
  <2> QED BY <2>1, <2>2, RefType DEF GetWatcheeActorRef, CreateActorRef, ActorId
<1>4. /\ E \in SUBSET Envelopes
      /\ \A x \in E : x.to.SystemId = t /\ x.kind = "Send"
  <2> HIDE DEF w
  <2> QED BY <1>2, <1>3, EnvType DEF Kinds
<1>5. UNCHANGED <<up, got, pending, rspChan, caller, called, groups>>
  BY DEF HandleProxyWatch, callVars, answerVars
<1>6. /\ \/ s = t /\ inbox' = [inbox EXCEPT ![s] = (@ \ {e}) \cup E]
         \/ inbox' = [inbox EXCEPT ![s] = @ \ {e}]
      /\ Send(s, t, E) \/ UNCHANGED wire
  BY DEF HandleProxyWatch, Take, SendFails
<1> HIDE DEF E, t, w
<1>7. /\ inbox' \in [Systems -> SUBSET Envelopes]
      /\ \A r \in Systems : \A x \in inbox'[r] : x \in inbox[r] \/ (x \in E /\ r = t)
  BY <1>1, <1>4, <1>6
<1>8. Batches'
  BY <1>1, <1>5 DEF Batches
<1> QED BY <1>1, <1>4, <1>5, <1>6, <1>7, <1>8, Routed

LEMMA HandleProxyJoinStep ==
  ASSUME IInv, NEW s \in Systems, NEW e \in inbox[s], HandleProxyJoin(s, e)
  PROVE  IInv'
<1>1. inbox \in [Systems -> SUBSET Envelopes] /\ called \subseteq Ops /\ Batches
  BY DEF IInv, Types0
<1>2. /\ UNCHANGED <<up, wire, called, groups, got, pending, rspChan, caller>>
      /\ inbox' = [inbox EXCEPT ![s] = @ \ {e}]
  BY DEF HandleProxyJoin, Take, netVars, callVars, answerVars
<1>3. /\ inbox' \in [Systems -> SUBSET Envelopes]
      /\ \A r \in Systems : \A x \in inbox'[r] : x \in inbox[r]
  BY <1>1, <1>2
<1>4. Batches'
  BY <1>1, <1>2 DEF Batches
<1>5. {} \in SUBSET Envelopes /\ \A x \in {} : FALSE
  OBVIOUS
<1> QED BY <1>1, <1>2, <1>3, <1>4, <1>5, Routed

-----------------------------------------------------------------------------
(* Requests and answers.                                                   *)

\* The first answer is written to a response channel.
LEMMA Written ==
  ASSUME Types0, Answers, NEW o \in Requests, o \in called, rspChan[o] = <<>>,
         NEW rsp \in Responses, rspChan' = [rspChan EXCEPT ![o] = Append(@, rsp)],
         pending' \subseteq pending, o \notin pending', got \subseteq got', UNCHANGED <<called, caller>>,
         Right(o, rsp)'
  PROVE  /\ rspChan' \in [Requests -> Seq(Responses)]
         /\ \A x \in Requests : x # o => rspChan'[x] = rspChan[x]
         /\ Answers'
<1>1. <<>> \in Seq(Responses) /\ Len(<<>>) = 0
  BY EmptySeq
<1>2. /\ Append(<<>>, rsp) \in Seq(Responses)
      /\ \A i \in 1 .. Len(Append(<<>>, rsp)) : i \in 1 .. 0 \/ Append(<<>>, rsp)[i] = rsp
  BY <1>1, AppendAt
<1>3. rspChan'[o] = Append(<<>>, rsp) /\ \A x \in Requests : x # o => rspChan'[x] = rspChan[x]
  BY DEF Types0
<1>4. rspChan' \in [Requests -> Seq(Responses)]
  BY <1>2 DEF Types0
<1>5. ASSUME NEW x \in Requests
      PROVE  /\ x \in pending' => rspChan'[x] = <<>>
             /\ x \notin called' => x \notin pending' /\ rspChan'[x] = <<>>
             /\ (\A i \in 1 .. Len(rspChan[x]) : Right(x, rspChan[x][i]))'
             /\ (\A i \in 1 .. Len(caller[x]) : Right(x, caller[x][i]))'
  <2>1. (\A i \in 1 .. Len(caller[x]) : Right(x, caller[x][i]))'
    BY DEF Answers, Right
  <2>2. CASE x = o
    <3>1. x \notin pending' /\ x \in called'
      BY <2>2
    <3>2. (\A i \in 1 .. Len(rspChan[x]) : Right(x, rspChan[x][i]))'
      <4> SUFFICES ASSUME NEW i \in 1 .. Len(rspChan'[x]) PROVE Right(x, rspChan[x][i])'
        OBVIOUS
      <4>1. rspChan'[x][i] = rsp
        BY <1>2, <1>3, <2>2
      <4> QED BY <2>2, <4>1 DEF Right
    <3> QED BY <2>1, <3>1, <3>2
  <2>3. CASE x # o
    BY <1>3, <2>1, <2>3 DEF Answers, Right
  <2> QED BY <2>2, <2>3
<1> QED BY <1>3, <1>4, <1>5 DEF Answers

\* A request is asked once: its envelope is taken, no other one waits for it.
LEMMA QuestionTaken ==
  ASSUME IInv, NEW s \in Systems, NEW e \in inbox[s], e.kind \in {"Request", "ProxyRequest"}, Take(s, e),
         \A x \in Requests : x # e.op => rspChan'[x] = rspChan[x] /\ (x \in pending' => x \in pending)
  PROVE  /\ inbox' \in [Systems -> SUBSET Envelopes]
         /\ \A r \in Systems : \A x \in inbox'[r] :
               x \in inbox[r] /\ (x.kind \in {"Request", "ProxyRequest"} =>
                                     x.op \notin pending' /\ rspChan'[x.op] = <<>>)
<1>1. Types0 /\ InboxOK
  BY DEF IInv
<1>2. inbox' = [inbox EXCEPT ![s] = @ \ {e}]
  BY DEF Take
<1>3. inbox' \in [Systems -> SUBSET Envelopes]
  BY <1>1, <1>2 DEF Types0
<1>4. ASSUME NEW r \in Systems, NEW x \in inbox'[r]
      PROVE  x \in inbox[r] /\ (x.kind \in {"Request", "ProxyRequest"} =>
                                   x.op \notin pending' /\ rspChan'[x.op] = <<>>)
  <2>1. x \in inbox[r] /\ (r = s => x # e)
    BY <1>1, <1>2 DEF Types0
  <2>2. ASSUME x.kind \in {"Request", "ProxyRequest"}
        PROVE  x.op \notin pending' /\ rspChan'[x.op] = <<>>
    <3>1. /\ x.op \in Requests /\ r = At[x.op] /\ x = Question(x.op)
          /\ x.op \notin pending /\ rspChan[x.op] = <<>>
      BY <1>1, <2>1, <2>2 DEF InboxOK, Asked
    <3>2. s = At[e.op] /\ e = Question(e.op)
      BY <1>1 DEF InboxOK, Asked
    <3>3. x.op # e.op
      BY <2>1, <3>1, <3>2
    <3> QED BY <3>1, <3>3
  <2> QED BY <2>1, <2>2
<1> QED BY <1>3, <1>4

LEMMA RouteOuterRequestStep ==
  ASSUME IInv, NEW o \in Ops, RouteOuterRequest(o)
  PROVE  IInv'
<1> DEFINE q == Question(o)
           s == At[o]
<1>0. Types0 /\ Batches /\ InboxOK /\ WireOK /\ Answers /\ GotHome
  BY DEF IInv
<1>1. /\ s \in Systems /\ TheRef(o) \in AllRefs /\ TheRef(o).ActorType \in Types /\ TheRef(o).ActorId \in Ids
      /\ o \in Requests /\ o \notin called
  BY RefsType DEF RouteOuterRequest, Groups, Requests, Call
<1>2. /\ UNCHANGED <<up, wire, got, pending, rspChan, caller, groups>> /\ called' = called \cup {o}
      /\ inbox' = [inbox EXCEPT ![s] = @ \cup {q}]
  BY DEF RouteOuterRequest, Call, netVars, answerVars, LocalRouter, Question
<1>3. /\ q \in Envelopes /\ q.op = o /\ q.kind \in {"Request", "ProxyRequest"}
      /\ q.to.SystemId = s
  <2>1. CASE TheRef(o).SystemId = At[o]
    BY <1>1, <2>1, EnvType DEF Kinds, Question
  <2>2. CASE TheRef(o).SystemId # At[o]
    <3> DEFINE proxy == GetRequestProxyActorRef(s, TheRef(o))
    <3>1. proxy \in AllRefs /\ proxy.SystemId = s
      BY <1>1, ProxyType
    <3>2. q = Env(o, "ProxyRequest", proxy)
      BY <2>2 DEF Question
    <3> HIDE DEF proxy, s, q
    <3> QED BY <3>1, <3>2, EnvType DEF Kinds
  <2> QED BY <2>1, <2>2
<1>4. o \notin pending' /\ rspChan'[o] = <<>>
  BY <1>0, <1>1, <1>2 DEF Answers
<1>5. Asked(s, q)' /\ Truthful(q)'
  BY <1>1, <1>2, <1>3, <1>4 DEF Asked, Truthful, Question
<1> HIDE DEF q, s
<1>6. Types0'
  BY <1>0, <1>1, <1>2, <1>3 DEF Types0
<1>7. InboxOK'
  <2>1. \A r \in Systems : \A e \in inbox'[r] : e \in inbox[r] \/ (e = q /\ r = s)
    BY <1>0, <1>1, <1>2 DEF Types0
  <2>2. \A r \in Systems : \A e \in inbox[r] : e.kind \in {"Request", "ProxyRequest"} =>
            e.op \notin pending' /\ rspChan'[e.op] = <<>>
    BY <1>0, <1>2 DEF InboxOK, Asked
  <2> QED BY <1>0, <1>2, <1>3, <1>5, <2>1, <2>2, InboxStep
<1>8. Batches' /\ WireOK' /\ Answers' /\ GotHome'
  BY <1>0, <1>2, WireKept, AnswersKept DEF GotHome, Batches
<1> QED BY <1>6, <1>7, <1>8 DEF IInv

\* An actor is handed an envelope that is to it.
LEMMA GotStep ==
  ASSUME IInv, NEW s \in Systems, NEW e \in inbox[s], got' = got \cup {<<e.op, s, e.to>>}
  PROVE  GotHome' /\ got \subseteq got'
<1>1. e \in Envelopes /\ e.to.SystemId = s
  BY DEF IInv, Types0, InboxOK
<1>2. e.op \in Ops /\ e.to \in AllRefs
  BY <1>1 DEF Envelopes
<1> QED BY <1>1, <1>2 DEF IInv, GotHome

LEMMA HandleSendStep ==
  ASSUME IInv, NEW s \in Systems, NEW e \in inbox[s], HandleSend(s, e)
  PROVE  IInv'
<1>0. Types0 /\ Batches /\ InboxOK /\ WireOK /\ Answers /\ GotHome
  BY DEF IInv
<1>1. /\ UNCHANGED <<up, wire, called, groups, pending, rspChan, caller>>
      /\ inbox' = [inbox EXCEPT ![s] = @ \ {e}]
      /\ GotHome' /\ got \subseteq got'
  BY GotStep DEF HandleSend, netVars, callVars, answerVars, Take
<1>2. Types0'
  BY <1>0, <1>1 DEF Types0
<1>3. InboxOK'
  <2>1. \A r \in Systems : \A x \in inbox'[r] : x \in inbox[r]
    BY <1>0, <1>1 DEF Types0
  <2>2. \A r \in Systems : \A x \in inbox[r] : x.kind \in {"Request", "ProxyRequest"} =>
            x.op \notin pending' /\ rspChan'[x.op] = <<>>
    BY <1>0, <1>1 DEF InboxOK, Asked
  <2> QED BY <1>0, <1>1, <2>1, <2>2, InboxStep
<1>4. Batches' /\ WireOK' /\ Answers'
  BY <1>0, <1>1, WireKept, AnswersKept DEF Batches
<1> QED BY <1>1, <1>2, <1>3, <1>4 DEF IInv

LEMMA HandleRequestStep ==
  ASSUME IInv, NEW s \in Systems, NEW e \in inbox[s], HandleRequest(s, e)
  PROVE  IInv'
<1> DEFINE o == e.op
           rsp == Response(NoError, e.to)
<1>0. Types0 /\ Batches /\ InboxOK /\ WireOK /\ Answers /\ GotHome
  BY DEF IInv
<1>1. /\ UNCHANGED <<up, wire, called, groups, pending, caller>>
      /\ Take(s, e) /\ got' = got \cup {<<o, s, e.to>>}
      /\ rspChan' = [rspChan EXCEPT ![o] = Append(@, rsp)]
      /\ e.kind = "Request"
  BY DEF HandleRequest, netVars, callVars
<1>2. GotHome' /\ got \subseteq got'
  BY <1>1, GotStep
<1>3. /\ o \in Requests /\ o \in called /\ s = At[o] /\ e = Question(o)
      /\ o \notin pending /\ rspChan[o] = <<>> /\ e.to.SystemId = s
  BY <1>0, <1>1 DEF InboxOK, Asked
<1>4. e.to = TheRef(o) /\ TheRef(o).SystemId = s
  BY <1>1, <1>3 DEF Question, Env
<1>5. rsp \in Responses /\ rsp.Error = NoError /\ rsp.Message = e.to
  <2>1. e.to \in AllRefs
    BY <1>0 DEF Types0, Envelopes
  <2> QED BY <2>1, ResponseType
<1>6. Right(o, rsp)'
  BY <1>1, <1>4, <1>5 DEF Right
<1> HIDE DEF rsp, o
<1>7. /\ rspChan' \in [Requests -> Seq(Responses)] /\ Answers'
      /\ \A x \in Requests : x # o => rspChan'[x] = rspChan[x]
  BY <1>0, <1>1, <1>2, <1>3, <1>5, <1>6, Written
<1>8. /\ inbox' \in [Systems -> SUBSET Envelopes]
      /\ \A r \in Systems : \A x \in inbox'[r] :
            x \in inbox[r] /\ (x.kind \in {"Request", "ProxyRequest"} =>
                                  x.op \notin pending' /\ rspChan'[x.op] = <<>>)
  BY <1>1, <1>7, QuestionTaken DEF o
<1>9. InboxOK'
  BY <1>0, <1>1, <1>2, <1>8, InboxStep
<1>10. Types0' /\ Batches' /\ WireOK'
  BY <1>0, <1>1, <1>2, <1>7, <1>8, WireKept DEF Types0, Batches
<1> QED BY <1>2, <1>7, <1>9, <1>10 DEF IInv

LEMMA HandleRequestAsyncStep ==
  ASSUME IInv, NEW s \in Systems, NEW e \in inbox[s], HandleRequestAsync(s, e)
  PROVE  IInv'
<1> DEFINE o == e.op
           t == At[o]
           a == Answer(o, GetRequestProxyActorRef(t, e.to), e.to)
<1>0. Types0 /\ Batches /\ InboxOK /\ WireOK /\ Answers /\ GotHome
  BY DEF IInv
<1>1. /\ UNCHANGED <<up, called, groups, pending, rspChan, caller>>
      /\ inbox' = [inbox EXCEPT ![s] = @ \ {e}] /\ got' = got \cup {<<o, s, e.to>>}
      /\ Send(s, t, {a}) \/ UNCHANGED wire
      /\ e.kind = "RequestAsync"
  BY DEF HandleRequestAsync, netVars, callVars, answerVars, Take
<1>2. GotHome' /\ got \subseteq got'
  BY <1>1, GotStep
<1>3. o \in Requests /\ e.to = TheRef(o) /\ e.to.SystemId = s /\ Kind[o] \notin Groups /\ o \in Ops
  BY <1>0, <1>1 DEF InboxOK, Truthful, Requests, Groups
<1>4. t \in Systems /\ e.to \in AllRefs /\ e.to.ActorType \in Types /\ e.to.ActorId \in Ids
  BY <1>3, RefsType
<1>5. a \in Envelopes /\ a.op = o /\ a.kind = "ResponseAsync" /\ a.from = e.to /\ a.to.SystemId = t
  <2> DEFINE proxy == GetRequestProxyActorRef(t, e.to)
  <2>1. proxy \in AllRefs /\ proxy.SystemId = t
    BY <1>4, ProxyType
  <2>2. a = Answer(o, proxy, e.to)
    OBVIOUS
  <2> HIDE DEF a, proxy, t, o
  <2> QED BY <1>3, <1>4, <2>1, <2>2, AnswerType
<1>6. Truthful(a)'
  BY <1>1, <1>3, <1>5 DEF Truthful
<1> HIDE DEF a, t, o
<1>7. wire' \in [Systems \X Systems -> Seq(SUBSET Envelopes)] /\ WireOK'
  <2>1. CASE UNCHANGED wire
    BY <1>0, <1>2, <2>1, WireKept DEF Types0
  <2>2. CASE Send(s, t, {a})
    <3>1. {a} \in SUBSET Envelopes
          /\ \A x \in {a} : x.to.SystemId = t /\ x.kind \notin {"Request", "ProxyRequest"} /\ Truthful(x)'
      BY <1>5, <1>6
    <3> QED BY <1>0, <1>2, <2>2, <3>1, WireSent
  <2> QED BY <1>1, <2>1, <2>2
<1>8. inbox' \in [Systems -> SUBSET Envelopes] /\ \A r \in Systems : \A x \in inbox'[r] : x \in inbox[r]
  BY <1>0, <1>1 DEF Types0
<1>9. InboxOK'
  <2>1. \A r \in Systems : \A x \in inbox[r] : x.kind \in {"Request", "ProxyRequest"} =>
            x.op \notin pending' /\ rspChan'[x.op] = <<>>
    BY <1>0, <1>1 DEF InboxOK, Asked
  <2> QED BY <1>0, <1>1, <1>2, <1>8, <2>1, InboxStep
<1>10. Types0' /\ Batches' /\ Answers'
  BY <1>0, <1>1, <1>2, <1>7, <1>8, AnswersKept DEF Types0, Batches
<1> QED BY <1>2, <1>7, <1>9, <1>10 DEF IInv

LEMMA HandleProxyRequestStep ==
  ASSUME IInv, NEW s \in Systems, NEW e \in inbox[s], HandleProxyRequest(s, e)
  PROVE  IInv'
<1> DEFINE o == e.op
           ref == TheRef(o)
           t == ref.SystemId
           a == Env(o, "RequestAsync", ref)
           rsp == Response(ErrorCodeMessageSendFail, Nil)
<1>0. Types0 /\ Batches /\ InboxOK /\ WireOK /\ Answers /\ GotHome
  BY DEF IInv
<1>1. /\ UNCHANGED <<up, called, groups, got, caller>> /\ Take(s, e)
      /\ Send(s, t, {a}) \/ UNCHANGED wire
      /\ \/ pending' = pending \cup {o} /\ UNCHANGED rspChan
         \/ rspChan' = [rspChan EXCEPT ![o] = Append(@, rsp)] /\ UNCHANGED pending
      /\ e.kind = "ProxyRequest"
  BY DEF HandleProxyRequest, callVars, SendFails
<1>2. GotHome' /\ got \subseteq got'
  BY <1>0, <1>1 DEF GotHome
<1>3. o \in Requests /\ o \in called /\ o \notin pending /\ rspChan[o] = <<>> /\ Kind[o] \notin Groups /\ o \in Ops
  BY <1>0, <1>1 DEF InboxOK, Asked, Requests, Groups
<1>4. ref \in AllRefs
  BY <1>3, RefsType
<1>5. a \in Envelopes /\ a.op = o /\ a.kind = "RequestAsync" /\ a.to = ref
  <2> HIDE DEF o, ref
  <2> QED BY <1>3, <1>4, EnvType DEF Kinds
<1>6. Truthful(a)'
  BY <1>3, <1>5 DEF Truthful
<1>7. rsp \in Responses /\ Right(o, rsp)'
  <2>1. rsp \in Responses /\ rsp.Error = ErrorCodeMessageSendFail
    BY ResponseType
  <2> QED BY <2>1 DEF Right, NoError, ErrorCodeMessageSendFail
<1> HIDE DEF a, t, o, ref, rsp
<1>8. wire' \in [Systems \X Systems -> Seq(SUBSET Envelopes)] /\ WireOK'
  <2>1. CASE UNCHANGED wire
    BY <1>0, <1>2, <2>1, WireKept DEF Types0
  <2>2. CASE Send(s, t, {a})
    <3>1. {a} \in SUBSET Envelopes
          /\ \A x \in {a} : x.to.SystemId = t /\ x.kind \notin {"Request", "ProxyRequest"} /\ Truthful(x)'
      BY <1>5, <1>6 DEF t
    <3> QED BY <1>0, <1>2, <2>2, <3>1, WireSent
  <2> QED BY <1>1, <2>1, <2>2
<1>9. /\ rspChan' \in [Requests -> Seq(Responses)] /\ Answers' /\ pending' \subseteq Requests
      /\ \A x \in Requests : x # o => rspChan'[x] = rspChan[x] /\ (x \in pending' => x \in pending)
  <2>1. CASE pending' = pending \cup {o} /\ UNCHANGED rspChan
    BY <1>0, <1>1, <1>3, <2>1 DEF Types0, Answers, Right
  <2>2. CASE rspChan' = [rspChan EXCEPT ![o] = Append(@, rsp)] /\ UNCHANGED pending
    <3>1. /\ rspChan' \in [Requests -> Seq(Responses)] /\ Answers'
          /\ \A x \in Requests : x # o => rspChan'[x] = rspChan[x]
      BY <1>0, <1>1, <1>2, <1>3, <1>7, <2>2, Written
    <3> QED BY <1>0, <2>2, <3>1 DEF Types0
  <2> QED BY <1>1, <2>1, <2>2
<1>10. /\ inbox' \in [Systems -> SUBSET Envelopes]
       /\ \A r \in Systems : \A x \in inbox'[r] :
             x \in inbox[r] /\ (x.kind \in {"Request", "ProxyRequest"} =>
                                   x.op \notin pending' /\ rspChan'[x.op] = <<>>)
  BY <1>1, <1>9, QuestionTaken DEF o
<1>11. InboxOK'
  BY <1>0, <1>1, <1>2, <1>10, InboxStep
<1>12. Types0' /\ Batches'
  BY <1>0, <1>1, <1>8, <1>9, <1>10 DEF Types0, Batches
<1> QED BY <1>2, <1>8, <1>9, <1>11, <1>12 DEF IInv

\* The callback of the request proxy.
LEMMA CallbackStep ==
  ASSUME IInv, NEW o \in Requests, NEW rsp \in Responses, Callback(o, rsp), Right(o, rsp),
         UNCHANGED <<got, called, caller>>
  PROVE  /\ pending' \subseteq Requests /\ rspChan' \in [Requests -> Seq(Responses)] /\ Answers'
         /\ \A s \in Systems : \A e \in inbox[s] : e.kind \in {"Request", "ProxyRequest"} =>
               e.op \notin pending' /\ rspChan'[e.op] = <<>>
<1>0. Types0 /\ InboxOK /\ Answers
  BY DEF IInv
<1>1. /\ o \in pending /\ rspChan[o] = <<>> /\ pending' = pending \ {o}
      /\ rspChan' = [rspChan EXCEPT ![o] = Append(@, rsp)]
  BY DEF Callback
<1>2. o \in called /\ pending' \subseteq pending /\ o \notin pending' /\ got \subseteq got' /\ Right(o, rsp)'
  BY <1>0, <1>1 DEF Answers, Right
<1>3. /\ rspChan' \in [Requests -> Seq(Responses)] /\ Answers'
      /\ \A x \in Requests : x # o => rspChan'[x] = rspChan[x]
  BY <1>0, <1>1, <1>2, Written
<1>4. ASSUME NEW s \in Systems, NEW e \in inbox[s], e.kind \in {"Request", "ProxyRequest"}
      PROVE  e.op \notin pending' /\ rspChan'[e.op] = <<>>
  <2>1. e.op \in Requests /\ e.op \notin pending /\ rspChan[e.op] = <<>>
    BY <1>0, <1>4 DEF InboxOK, Asked
  <2> QED BY <1>1, <1>3, <2>1
<1> QED BY <1>0, <1>1, <1>3, <1>4 DEF Types0

LEMMA HandleResponseAsyncStep ==
  ASSUME IInv, NEW s \in Systems, NEW e \in inbox[s], HandleResponseAsync(s, e)
  PROVE  IInv'
<1> DEFINE o == e.op
           rsp == Response(NoError, e.from)
<1>0. Types0 /\ Batches /\ InboxOK /\ WireOK /\ Answers /\ GotHome
  BY DEF IInv
<1>1. /\ UNCHANGED <<up, wire, called, groups, got, caller>>
      /\ inbox' = [inbox EXCEPT ![s] = @ \ {e}]
      /\ Callback(o, rsp) \/ UNCHANGED <<pending, rspChan>>
      /\ e.kind = "ResponseAsync"
  BY DEF HandleResponseAsync, netVars, callVars, Take
<1>2. /\ o \in Requests /\ e.from = TheRef(o) /\ <<o, e.from.SystemId, e.from>> \in got
  BY <1>0, <1>1 DEF InboxOK, Truthful
<1>3. rsp \in Responses /\ Right(o, rsp)
  <2>1. e.from \in AllRefs \cup {Nil}
    BY <1>0 DEF Types0, Envelopes
  <2>2. rsp \in Responses /\ rsp.Message = e.from
    BY <2>1, ResponseType
  <2> QED BY <1>2, <2>2 DEF Right
<1> HIDE DEF o, rsp
<1>4. /\ pending' \subseteq Requests /\ rspChan' \in [Requests -> Seq(Responses)] /\ Answers'
      /\ \A r \in Systems : \A x \in inbox[r] : x.kind \in {"Request", "ProxyRequest"} =>
            x.op \notin pending' /\ rspChan'[x.op] = <<>>
  <2>1. CASE Callback(o, rsp)
    BY <1>1, <1>2, <1>3, <2>1, CallbackStep
  <2>2. CASE UNCHANGED <<pending, rspChan>>
    BY <1>0, <1>1, <2>2, AnswersKept DEF Types0, InboxOK, Asked
  <2> QED BY <1>1, <2>1, <2>2
<1>5. inbox' \in [Systems -> SUBSET Envelopes] /\ \A r \in Systems : \A x \in inbox'[r] : x \in inbox[r]
  BY <1>0, <1>1 DEF Types0
<1>6. InboxOK'
  BY <1>0, <1>1, <1>4, <1>5, InboxStep
<1>7. Types0' /\ Batches' /\ WireOK' /\ GotHome'
  BY <1>0, <1>1, <1>4, <1>5, WireKept DEF Types0, Batches, GotHome
<1> QED BY <1>4, <1>6, <1>7 DEF IInv

LEMMA ProxyTimeoutStep ==
  ASSUME IInv, NEW o \in Requests, ProxyTimeout(o)
  PROVE  IInv'
<1> DEFINE rsp == Response(ErrorCodeTimeout, Nil)
<1>0. Types0 /\ Batches /\ InboxOK /\ WireOK /\ Answers /\ GotHome
  BY DEF IInv
<1>1. UNCHANGED <<up, wire, inbox, called, groups, got, caller>> /\ Callback(o, rsp)
  BY DEF ProxyTimeout, netVars, callVars
<1>2. rsp \in Responses /\ Right(o, rsp)
  <2>1. rsp \in Responses /\ rsp.Error = ErrorCodeTimeout
    BY ResponseType
  <2> QED BY <2>1 DEF Right, NoError, ErrorCodeTimeout
<1> HIDE DEF rsp
<1>3. /\ pending' \subseteq Requests /\ rspChan' \in [Requests -> Seq(Responses)] /\ Answers'
      /\ \A r \in Systems : \A x \in inbox[r] : x.kind \in {"Request", "ProxyRequest"} =>
            x.op \notin pending' /\ rspChan'[x.op] = <<>>
  BY <1>1, <1>2, CallbackStep
<1>4. InboxOK'
  BY <1>0, <1>1, <1>3, InboxStep
<1>5. Types0' /\ Batches' /\ WireOK' /\ GotHome'
  BY <1>0, <1>1, <1>3, WireKept DEF Types0, Batches, GotHome
<1> QED BY <1>3, <1>4, <1>5 DEF IInv

LEMMA TailAt ==
  ASSUME NEW S, NEW q \in Seq(S), q # <<>>
  PROVE  /\ Head(q) \in S /\ Head(q) = q[1] /\ 1 \in 1 .. Len(q) /\ Tail(q) \in Seq(S)
         /\ \A i \in 1 .. Len(Tail(q)) : i + 1 \in 1 .. Len(q) /\ Tail(q)[i] = q[i + 1]
<1>1. Len(q) \in Nat /\ Len(q) # 0
  BY LenProperties, EmptySeq
<1>2. /\ Tail(q) \in Seq(S) /\ Len(Tail(q)) = Len(q) - 1
      /\ \A i \in 1 .. Len(Tail(q)) : Tail(q)[i] = q[i + 1]
  BY HeadTailProperties
<1>3. Head(q) \in S /\ Head(q) = q[1]
  BY HeadTailProperties
<1> QED BY <1>1, <1>2, <1>3

LEMMA CallerStep ==
  ASSUME IInv, NEW o \in Requests, CallerReceives(o) \/ CallerGivesUp(o)
  PROVE  IInv'
<1>0. Types0 /\ Batches /\ InboxOK /\ WireOK /\ Answers /\ GotHome
  BY DEF IInv
<1>1. UNCHANGED <<up, wire, inbox, called, groups, got, pending>>
  BY DEF CallerReceives, CallerGivesUp, netVars, callVars
<1>2. PICK rsp \in Responses : Right(o, rsp) /\ caller' = [caller EXCEPT ![o] = <<rsp>>]
  <2>1. CASE CallerReceives(o)
    <3>1. rspChan[o] \in Seq(Responses) /\ rspChan[o] # <<>>
      BY <1>0, <2>1 DEF CallerReceives, Types0
    <3>2. Head(rspChan[o]) \in Responses /\ Head(rspChan[o]) = rspChan[o][1] /\ 1 \in 1 .. Len(rspChan[o])
      BY <3>1, TailAt
    <3>3. Right(o, Head(rspChan[o]))
      BY <1>0, <3>2 DEF Answers
    <3> QED BY <2>1, <3>2, <3>3 DEF CallerReceives
  <2>2. CASE CallerGivesUp(o)
    <3>1. /\ Response(ErrorCodeTimeout, Nil) \in Responses
          /\ Response(ErrorCodeTimeout, Nil).Error = ErrorCodeTimeout
      BY ResponseType
    <3>2. Right(o, Response(ErrorCodeTimeout, Nil))
      BY <3>1 DEF Right, NoError, ErrorCodeTimeout
    <3> QED BY <2>2, <3>1, <3>2 DEF CallerGivesUp
  <2> QED BY <2>1, <2>2
<1>3. \/ UNCHANGED rspChan
      \/ rspChan[o] # <<>> /\ rspChan' = [rspChan EXCEPT ![o] = Tail(@)]
  BY DEF CallerReceives, CallerGivesUp
<1>4. /\ rspChan' \in [Requests -> Seq(Responses)]
      /\ \A x \in Requests : rspChan[x] = <<>> => rspChan'[x] = <<>>
      /\ \A x \in Requests : \A i \in 1 .. Len(rspChan'[x]) :
            \E j \in 1 .. Len(rspChan[x]) : rspChan'[x][i] = rspChan[x][j]
  <2>1. CASE UNCHANGED rspChan
    BY <1>0, <2>1 DEF Types0
  <2>2. CASE rspChan[o] # <<>> /\ rspChan' = [rspChan EXCEPT ![o] = Tail(@)]
    <3>1. rspChan[o] \in Seq(Responses)
      BY <1>0 DEF Types0
    <3>2. /\ Tail(rspChan[o]) \in Seq(Responses)
          /\ \A i \in 1 .. Len(Tail(rspChan[o])) :
                i + 1 \in 1 .. Len(rspChan[o]) /\ Tail(rspChan[o])[i] = rspChan[o][i + 1]
      BY <2>2, <3>1, TailAt
    <3>3. /\ rspChan'[o] = Tail(rspChan[o]) /\ \A x \in Requests : x # o => rspChan'[x] = rspChan[x]
          /\ rspChan' \in [Requests -> Seq(Responses)]
      BY <1>0, <2>2, <3>2 DEF Types0
    <3>4. \A i \in 1 .. Len(rspChan'[o]) : \E j \in 1 .. Len(rspChan[o]) : rspChan'[o][i] = rspChan[o][j]
      BY <3>2, <3>3
    <3> QED BY <2>2, <3>3, <3>4
  <2> QED BY <1>3, <2>1, <2>2
<1>5. caller' \in [Requests -> Seq(Responses)]
  <2>1. <<rsp>> \in Seq(Responses)
    OBVIOUS
  <2> QED BY <1>0, <1>2, <2>1 DEF Types0
<1>6. Answers'
  <2> SUFFICES ASSUME NEW x \in Requests
               PROVE  /\ x \in pending' => rspChan'[x] = <<>>
                      /\ x \notin called' => x \notin pending' /\ rspChan'[x] = <<>>
                      /\ (\A i \in 1 .. Len(rspChan[x]) : Right(x, rspChan[x][i]))'
                      /\ (\A i \in 1 .. Len(caller[x]) : Right(x, caller[x][i]))'
    BY DEF Answers
  <2>1. \A r : Right(x, r) <=> Right(x, r)'
    BY <1>1 DEF Right
  <2>2. \A i \in 1 .. Len(rspChan'[x]) : Right(x, rspChan'[x][i])
    BY <1>0, <1>4 DEF Answers
  <2>3. \A i \in 1 .. Len(caller'[x]) : Right(x, caller'[x][i])
    <3>1. CASE x = o
      <4>1. caller'[x] = <<rsp>>
        BY <1>0, <1>2, <3>1 DEF Types0
      <4> QED BY <1>2, <3>1, <4>1
    <3>2. CASE x # o
      <4>1. caller'[x] = caller[x]
        BY <1>0, <1>2, <3>2 DEF Types0
      <4> QED BY <1>0, <4>1 DEF Answers
    <3> QED BY <3>1, <3>2
  <2>4. /\ x \in pending' => rspChan'[x] = <<>>
        /\ x \notin called' => x \notin pending' /\ rspChan'[x] = <<>>
    BY <1>0, <1>1, <1>4 DEF Answers
  <2>5. (\A i \in 1 .. Len(rspChan[x]) : Right(x, rspChan[x][i]))'
    BY <1>1, <2>2 DEF Right
  <2>6. (\A i \in 1 .. Len(caller[x]) : Right(x, caller[x][i]))'
    BY <1>1, <2>3 DEF Right
  <2> QED BY <2>4, <2>5, <2>6
<1>7. InboxOK'
  <2>1. \A r \in Systems : \A x \in inbox[r] : x.kind \in {"Request", "ProxyRequest"} =>
            x.op \notin pending' /\ rspChan'[x.op] = <<>>
    BY <1>0, <1>1, <1>4 DEF InboxOK, Asked
  <2> QED BY <1>0, <1>1, <2>1, InboxStep
<1>8. Types0' /\ Batches' /\ WireOK' /\ GotHome'
  BY <1>0, <1>1, <1>4, <1>5, WireKept DEF Types0, Batches, GotHome
<1> QED BY <1>6, <1>7, <1>8 DEF IInv

-----------------------------------------------------------------------------
(* The links.                                                              *)

LEMMA ArriveStep ==
  ASSUME IInv, NEW s \in Systems, NEW t \in Systems, Arrive(s, t)
  PROVE  IInv'
<1> DEFINE p == <<s, t>>
           q == wire[p]
           E == Head(q)
<1>0. Types0 /\ Batches /\ InboxOK /\ WireOK /\ Answers /\ GotHome
  BY DEF IInv
<1>1. /\ UNCHANGED <<up, called, groups, got, pending, rspChan, caller>>
      /\ inbox' = [inbox EXCEPT ![t] = @ \cup E]
      /\ wire' = [wire EXCEPT ![p] = Tail(q)] /\ q # <<>>
  BY DEF Arrive, callVars, answerVars, LocalRouter
<1>2. p \in Systems \X Systems /\ p[2] = t /\ q \in Seq(SUBSET Envelopes)
  BY <1>0 DEF Types0
<1>3. /\ E \in SUBSET Envelopes /\ E = q[1] /\ 1 \in 1 .. Len(q) /\ Tail(q) \in Seq(SUBSET Envelopes)
      /\ \A i \in 1 .. Len(Tail(q)) : i + 1 \in 1 .. Len(q) /\ Tail(q)[i] = q[i + 1]
  <2> HIDE DEF p, q
  <2> QED BY <1>1, <1>2, TailAt
<1>4. \A i \in 1 .. Len(q) : \A e \in q[i] :
          e.to.SystemId = t /\ e.kind \notin {"Request", "ProxyRequest"} /\ Truthful(e)
  BY <1>0, <1>2 DEF WireOK
<1>5. \A e : Truthful(e) => Truthful(e)'
  BY <1>1 DEF Truthful
<1> HIDE DEF E, q, p
<1>6. wire' \in [Systems \X Systems -> Seq(SUBSET Envelopes)]
  BY <1>0, <1>1, <1>2, <1>3 DEF Types0
<1>7. WireOK'
  <2> SUFFICES ASSUME NEW r \in Systems \X Systems, NEW i \in 1 .. Len(wire'[r]), NEW e \in wire'[r][i]
               PROVE  e.to.SystemId = r[2] /\ e.kind \notin {"Request", "ProxyRequest"} /\ Truthful(e)'
    BY DEF WireOK
  <2>1. CASE r = p
    <3>1. wire'[r] = Tail(q)
      BY <1>0, <1>1, <1>2, <2>1 DEF Types0
    <3>2. i + 1 \in 1 .. Len(q) /\ e \in q[i + 1]
      BY <1>3, <3>1
    <3> QED BY <1>2, <1>4, <1>5, <2>1, <3>2
  <2>2. CASE r # p
    <3>1. wire'[r] = wire[r]
      BY <1>0, <1>1, <2>2 DEF Types0
    <3>2. e.to.SystemId = r[2] /\ e.kind \notin {"Request", "ProxyRequest"} /\ Truthful(e)
      BY <1>0, <3>1 DEF WireOK
    <3> QED BY <1>5, <3>2
  <2> QED BY <2>1, <2>2
<1>8. /\ inbox' \in [Systems -> SUBSET Envelopes]
      /\ \A r \in Systems : \A e \in inbox'[r] : e \in inbox[r] \/ (e \in E /\ r = t)
  BY <1>0, <1>1, <1>3 DEF Types0
<1>9. InboxOK'
  <2>1. \A r \in Systems : \A e \in inbox[r] : e.kind \in {"Request", "ProxyRequest"} =>
            e.op \notin pending' /\ rspChan'[e.op] = <<>>
    BY <1>0, <1>1 DEF InboxOK, Asked
  <2>2. \A e \in E : e.to.SystemId = t /\ Asked(t, e)' /\ Truthful(e)'
    BY <1>3, <1>4, <1>5 DEF Asked
  <2> QED BY <1>0, <1>1, <1>8, <2>1, <2>2, InboxStep
<1>10. Types0' /\ Batches' /\ Answers' /\ GotHome'
  BY <1>0, <1>1, <1>6, <1>8, AnswersKept DEF Types0, Batches, GotHome
<1> QED BY <1>7, <1>9, <1>10 DEF IInv

\* A step that leaves actors, requests and inboxes alone.
LEMMA Idle ==
  ASSUME IInv, UNCHANGED <<inbox, callVars, got, answerVars>>, up' \subseteq SUBSET Systems,
         wire' \in [Systems \X Systems -> Seq(SUBSET Envelopes)],
         \A p \in Systems \X Systems : wire'[p] \in {<<>>, wire[p]}
  PROVE  IInv'
<1>0. Types0 /\ Batches /\ InboxOK /\ WireOK /\ Answers /\ GotHome
  BY DEF IInv
<1>1. UNCHANGED <<called, groups, pending, rspChan, caller, inbox, got>>
  BY DEF callVars, answerVars
<1>2. InboxOK'
  <2>1. \A r \in Systems : \A x \in inbox[r] : x.kind \in {"Request", "ProxyRequest"} =>
            x.op \notin pending' /\ rspChan'[x.op] = <<>>
    BY <1>0, <1>1 DEF InboxOK, Asked
  <2> QED BY <1>0, <1>1, <2>1, InboxStep
<1>3. WireOK'
  <2> SUFFICES ASSUME NEW r \in Systems \X Systems, NEW i \in 1 .. Len(wire'[r]), NEW e \in wire'[r][i]
               PROVE  e.to.SystemId = r[2] /\ e.kind \notin {"Request", "ProxyRequest"} /\ Truthful(e)'
    BY DEF WireOK
  <2>1. wire'[r] = wire[r]
    <3>1. Len(<<>>) = 0 /\ i \in 1 .. Len(wire'[r])
      BY EmptySeq
    <3>2. wire'[r] # <<>>
      BY <3>1
    <3> QED BY <3>2
  <2>2. e.to.SystemId = r[2] /\ e.kind \notin {"Request", "ProxyRequest"} /\ Truthful(e)
    BY <1>0, <2>1 DEF WireOK
  <2> QED BY <1>1, <2>2 DEF Truthful
<1>4. Types0' /\ Batches' /\ Answers' /\ GotHome'
  BY <1>0, <1>1, AnswersKept DEF Types0, Batches, GotHome
<1> QED BY <1>2, <1>3, <1>4 DEF IInv

LEMMA LinkStep ==
  ASSUME IInv, NEW l \in Links, Break(l) \/ Connect(l)
  PROVE  IInv'
<1>0. Types0
  BY DEF IInv
<1>1. UNCHANGED <<inbox, callVars, got, answerVars>>
  BY DEF Break, Connect
<1>2. up' \subseteq SUBSET Systems
  BY <1>0 DEF Break, Connect, Types0, Links
<1>3. /\ wire' \in [Systems \X Systems -> Seq(SUBSET Envelopes)]
      /\ \A p \in Systems \X Systems : wire'[p] \in {<<>>, wire[p]}
  <2>1. CASE Break(l)
    <3>1. wire' = [p \in Systems \X Systems |-> IF {p[1], p[2]} = l THEN <<>> ELSE wire[p]]
      BY <2>1 DEF Break
    <3>2. <<>> \in Seq(SUBSET Envelopes)
      BY EmptySeq
    <3> HIDE DEF Envelopes
    <3> QED BY <1>0, <3>1, <3>2 DEF Types0
  <2>2. CASE Connect(l)
    BY <1>0, <2>2 DEF Connect, Types0
  <2> QED BY <2>1, <2>2
<1> QED BY <1>1, <1>2, <1>3, Idle

-----------------------------------------------------------------------------
(* The theorems.                                                           *)

LEMMA StepIInv == IInv /\ [Next]_vars => IInv'
<1> SUFFICES ASSUME IInv, [Next]_vars PROVE IInv'
  OBVIOUS
<1>1. ASSUME NEW o \in Ops, Router(o) PROVE IInv'
  BY <1>1, CallGroupsStep, RouteGroupStep, RouteSendStep, RouteWatchStep, RouteOuterRequestStep DEF Router
<1>2. ASSUME NEW s \in Systems, Handle(s) PROVE IInv'
  BY <1>2, HandleSendStep, HandleRequestStep, HandleRequestAsyncStep, HandleProxyWatchStep,
     HandleProxyJoinStep, HandleProxyRequestStep, HandleResponseAsyncStep DEF Handle
<1>3. ASSUME NEW o \in Requests, ProxyTimeout(o) \/ CallerReceives(o) \/ CallerGivesUp(o) PROVE IInv'
  BY <1>3, ProxyTimeoutStep, CallerStep
<1>4. ASSUME NEW s \in Systems, NEW t \in Systems, Arrive(s, t) PROVE IInv'
  BY <1>4, ArriveStep
<1>5. ASSUME NEW l \in Links, Break(l) \/ Connect(l) PROVE IInv'
  BY <1>5, LinkStep
<1>6. CASE UNCHANGED vars
  <2>1. UNCHANGED <<inbox, callVars, got, answerVars, up, wire>>
    BY <1>6 DEF vars, netVars
  <2> QED BY <2>1, Idle DEF IInv, Types0
<1> QED BY <1>1, <1>2, <1>3, <1>4, <1>5, <1>6 DEF Next

LEMMA Sound == Spec => []IInv
BY InitIInv, StepIInv, PTL DEF Spec

LEMMA OneHomeHolds == IInv => OneHome
<1> SUFFICES ASSUME IInv, NEW g \in got, NEW h \in got,
                    Placed(g[1], g[3]), Placed(h[1], h[3]),
                    g[3].ActorType = h[3].ActorType, g[3].ActorId = h[3].ActorId
             PROVE  g[2] = h[2] /\ g[3] = h[3]
  BY DEF OneHome
<1>1. g[2] = g[3].SystemId /\ h[2] = h[3].SystemId
  BY DEF IInv, GotHome
<1>2. PICK t \in Targets[g[1]] : t.at = 0 /\ SystemIds(t.type) # <<>> /\ g[3] = RefOf(g[1], t)
  BY DEF Placed
<1>3. PICK u \in Targets[h[1]] : u.at = 0 /\ SystemIds(u.type) # <<>> /\ h[3] = RefOf(h[1], u)
  BY DEF Placed
<1>4. g[3] = CreateActorRef(At[g[1]], t.type, t.id) /\ h[3] = CreateActorRef(At[h[1]], u.type, u.id)
  BY <1>2, <1>3 DEF RefOf, CreateActorRef
<1>5. t.type = u.type /\ t.id = u.id
  BY <1>4 DEF CreateActorRef, CreateActorRefEx
<1>6. g[3] = h[3]
  BY <1>2, <1>4, <1>5, PlacedAlike
<1> QED BY <1>1, <1>6

\* Whatever the configuration, the hash and the operations: an actor that its
\* type and id place is handed its messages on one system and under one
\* reference (router.go:45-76).
THEOREM AlwaysOneHome == Spec => []OneHome
BY Sound, OneHomeHolds, PTL

\* The callback of the request proxy never waits for room in the channel of the
\* caller (request_proxy.go:36): each request is asked and answered at most once.
THEOREM AlwaysRoomForTheAnswer == Spec => []NeverBlocks
<1>1. IInv => NeverBlocks
  BY DEF IInv, Types0, Answers, NeverBlocks
<1> QED BY <1>1, Sound, PTL

\* A caller that gets an answer without an error gets that of the actor it asked,
\* and that actor was asked (request_proxy.go:20-49), though all requests to an
\* actor share one proxy.
THEOREM AlwaysTheRightAnswer == Spec => []RightAnswer
<1>1. IInv => RightAnswer
  <2> SUFFICES ASSUME IInv, NEW o \in Requests, caller[o] # <<>>, caller[o][1].Error = NoError
               PROVE  /\ caller[o][1].Message = TheRef(o)
                      /\ \E g \in got : g[1] = o /\ g[3] = TheRef(o)
    BY DEF RightAnswer
  <2>1. caller[o] \in Seq(Responses)
    BY DEF IInv, Types0
  <2>2. 1 \in 1 .. Len(caller[o])
    <3> HIDE DEF Responses
    <3> QED BY <2>1, TailAt
  <2>3. Right(o, caller[o][1])
    BY <2>2 DEF IInv, Answers
  <2> QED BY <2>3 DEF Right
<1> QED BY <1>1, Sound, PTL

-----------------------------------------------------------------------------
(* The ledger: where the share of every actor in every operation is.       *)

Watches == {o \in Ops : Kind[o] \in {"Watch", "OuterWatch"}}

\* What crosses a link for operation o, apart from an answer.
Crossing(o) ==
    IF Kind[o] \in Groups THEN Kind[o] ELSE IF o \in Requests THEN "RequestAsync" ELSE "Send"

Delivered(s, e) ==
    /\ e.op \in called
    /\ e.kind = "ProxyWatch" =>
          /\ e.op \in Watches /\ s = At[e.op] /\ TheRef(e.op).SystemId # s
          /\ e.to = GetWatchProxyActorRef(s, TheRef(e.op))
    /\ e.kind \notin {"ProxyWatch", "ProxyRequest", "ResponseAsync"} => e.to \in Meant[e.op]

Crosses(p, e) ==
    /\ e.op \in called /\ p[1] # p[2]
    /\ e.kind # "ResponseAsync" =>
          e.kind = Crossing(e.op) /\ e.from = Nil /\ e.to \in Meant[e.op]

Formed ==
    /\ \A s \in Systems : \A e \in inbox[s] : Delivered(s, e)
    /\ \A p \in Systems \X Systems : \A i \in 1 .. Len(wire[p]) : \A e \in wire[p][i] : Crosses(p, e)

Types1 ==
    /\ up \subseteq Links /\ breaks \in 0 .. MaxBreaks
    /\ groups \in [Ops -> SUBSET Homes]
    /\ \A o \in Ops : groups[o] \subseteq {r.SystemId : r \in Refs[o]}
    /\ failed \in [Ops -> SUBSET AllRefs] /\ lost \in [Ops -> SUBSET AllRefs]
    /\ \A o \in Ops : failed[o] \cup lost[o] \subseteq Meant[o]
    /\ err \in [Ops -> {NoError, ErrorCodeMessageSendFail}]

\* An operation that was not called has left no trace.
Fresh ==
    /\ \A g \in got : g[1] \in called
    /\ joined \subseteq called
    /\ \A o \in Ops \ called : groups[o] = {} /\ failed[o] = {} /\ lost[o] = {}

\* When Router has nil to return although a group was refused, a group to another
\* system has been sent.
Reported ==
    \A o \in Ops : Kind[o] \in Groups \cup {"Send"} =>
        /\ err[o] # NoError => failed[o] # {}
        /\ err[o] = NoError /\ failed[o] # {} =>
              \E r \in Refs[o] \ failed[o] : r.SystemId # At[o] /\ r.SystemId \notin groups[o]

Riding(o, ref, p, i) == i \in 1 .. Len(wire[p]) /\ \E e \in wire[p][i] : About(e, o, ref)

IsAt(o, ref, x) ==
    \/ ref.SystemId \in groups[o] /\ x = <<"group">>
    \/ ref \in failed[o] /\ x = <<"failed">>
    \/ ref \in lost[o] /\ x = <<"lost">>
    \/ \E p \in Systems \X Systems : \E i : Riding(o, ref, p, i) /\ x = <<"wire", p[1], p[2], i>>
    \/ \E s \in Systems : \E e \in inbox[s] : About(e, o, ref) /\ x = <<"inbox", s, e>>
    \/ \E g \in got : g[1] = o /\ g[3] = ref /\ x = <<"got", g[2]>>
    \/ o \in joined /\ x = <<"joined">>

OnePlace(o, ref) == \E x : \A y : IsAt(o, ref, y) <=> y = x

Once == \A o \in called : \A ref \in Meant[o] : OnePlace(o, ref)

Ledger == Types1 /\ Formed /\ Fresh /\ Reported /\ Once

LEMMA PlacesAre ==
  ASSUME Types0, NEW o, NEW ref, NEW x
  PROVE  x \in Places(o, ref) <=> IsAt(o, ref, x)
<1>1. \A p \in Systems \X Systems : DOMAIN wire[p] = 1 .. Len(wire[p])
  BY LenProperties DEF Types0
<1> DEFINE G == {<<"group">> : s \in groups[o] \cap {ref.SystemId}}
           F == {<<"failed">> : r \in failed[o] \cap {ref}}
           L == {<<"lost">> : r \in lost[o] \cap {ref}}
           W(p) == {<<"wire", p[1], p[2], i>> : i \in
                       {j \in DOMAIN wire[p] : \E e \in wire[p][j] : About(e, o, ref)}}
           B(s) == {<<"inbox", s, e>> : e \in {z \in inbox[s] : About(z, o, ref)}}
           H == {<<"got", g[2]>> : g \in {z \in got : z[1] = o /\ z[3] = ref}}
           J == {<<"joined">> : z \in joined \cap {o}}
<1> DEFINE UW == UNION {W(p) : p \in Systems \X Systems}
           UB == UNION {B(s) : s \in Systems}
<1>2. Places(o, ref) = G \cup F \cup L \cup J \cup UW \cup UB \cup H
  BY DEF Places
<1>3. x \in G <=> ref.SystemId \in groups[o] /\ x = <<"group">>
  OBVIOUS
<1>4. x \in F <=> ref \in failed[o] /\ x = <<"failed">>
  OBVIOUS
<1>5. x \in L <=> ref \in lost[o] /\ x = <<"lost">>
  OBVIOUS
<1>6. \A p \in Systems \X Systems :
         x \in W(p) <=> \E i : Riding(o, ref, p, i) /\ x = <<"wire", p[1], p[2], i>>
  BY <1>1 DEF Riding
<1>7. \A s \in Systems : x \in B(s) <=> \E e \in inbox[s] : About(e, o, ref) /\ x = <<"inbox", s, e>>
  OBVIOUS
<1>8. x \in H <=> \E g \in got : g[1] = o /\ g[3] = ref /\ x = <<"got", g[2]>>
  OBVIOUS
<1>12. x \in J <=> o \in joined /\ x = <<"joined">>
  OBVIOUS
<1> HIDE DEF G, F, L, W, B, H, J
<1>9. x \in Places(o, ref) <=>
         \/ x \in G \/ x \in F \/ x \in L \/ x \in J
         \/ \E p \in Systems \X Systems : x \in W(p)
         \/ \E s \in Systems : x \in B(s)
         \/ x \in H
  <2>1. x \in UW <=> \E p \in Systems \X Systems : x \in W(p)
    OBVIOUS
  <2>2. x \in UB <=> \E s \in Systems : x \in B(s)
    OBVIOUS
  <2> HIDE DEF UW, UB
  <2> QED BY <1>2, <2>1, <2>2
<1>10. (\E p \in Systems \X Systems : x \in W(p)) <=>
          \E p \in Systems \X Systems : \E i : Riding(o, ref, p, i) /\ x = <<"wire", p[1], p[2], i>>
  BY <1>6
<1>11. (\E s \in Systems : x \in B(s)) <=>
          \E s \in Systems : \E e \in inbox[s] : About(e, o, ref) /\ x = <<"inbox", s, e>>
  BY <1>7
<1> QED BY <1>3, <1>4, <1>5, <1>8, <1>9, <1>10, <1>11, <1>12 DEF IsAt

-----------------------------------------------------------------------------
(* What a step does to the place of a share.                               *)

LEMMA ShareKept ==
  ASSUME NEW o, NEW ref, OnePlace(o, ref),
         ref.SystemId \in groups'[o] <=> ref.SystemId \in groups[o],
         ref \in failed'[o] <=> ref \in failed[o],
         ref \in lost'[o] <=> ref \in lost[o],
         o \in joined' <=> o \in joined,
         \A p \in Systems \X Systems : \A i : Riding(o, ref, p, i)' <=> Riding(o, ref, p, i),
         \A s \in Systems : \A e : About(e, o, ref) => (e \in inbox'[s] <=> e \in inbox[s]),
         \A g : g[1] = o /\ g[3] = ref => (g \in got' <=> g \in got)
  PROVE  OnePlace(o, ref)'
<1>1. ASSUME NEW y PROVE IsAt(o, ref, y)' <=> IsAt(o, ref, y)
  BY DEF IsAt
<1> QED BY <1>1 DEF OnePlace

LEMMA RidingSent ==
  ASSUME Types0, NEW s \in Systems, NEW t \in Systems, NEW E \in SUBSET Envelopes,
         wire' = [wire EXCEPT ![<<s, t>>] = Append(@, E)],
         NEW o, NEW ref, NEW p \in Systems \X Systems, NEW i
  PROVE  Riding(o, ref, p, i)' <=>
            \/ Riding(o, ref, p, i)
            \/ p = <<s, t>> /\ i = Len(wire[p]) + 1 /\ \E e \in E : About(e, o, ref)
<1>1. wire[p] \in Seq(SUBSET Envelopes)
  BY DEF Types0
<1>2. CASE p # <<s, t>>
  <2>1. wire'[p] = wire[p]
    BY <1>2 DEF Types0
  <2> QED BY <1>2, <2>1 DEF Riding
<1>3. CASE p = <<s, t>>
  <2>1. wire'[p] = Append(wire[p], E)
    BY <1>3 DEF Types0
  <2> DEFINE q == wire[p]
  <2>2. /\ Len(Append(q, E)) = Len(q) + 1 /\ Len(q) \in Nat
        /\ \A j \in 1 .. Len(q) : Append(q, E)[j] = q[j]
        /\ Append(q, E)[Len(q) + 1] = E
    <3>1. q \in Seq(SUBSET Envelopes)
      BY <1>1
    <3> HIDE DEF q
    <3> QED BY <3>1, AppendProperties, LenProperties
  <2>3. i \in 1 .. Len(q) + 1 <=> i \in 1 .. Len(q) \/ i = Len(q) + 1
    BY <2>2
  <2>4. Len(q) + 1 \notin 1 .. Len(q)
    BY <2>2
  <2> QED BY <1>3, <2>1, <2>2, <2>3, <2>4 DEF Riding
<1> QED BY <1>2, <1>3

LEMMA LinkedTo ==
  ASSUME Types0, NEW s, NEW t, NEW E, Send(s, t, E)
  PROVE  t \in Systems /\ wire' = [wire EXCEPT ![<<s, t>>] = Append(@, E)]
BY DEF Types0, Send, Linked

\* What op o is given to t from s: local delivery, one package, or a refusal; X
\* is what it is made of.
Give(o, s, t, E, refs, X) ==
    \/ s = t /\ inbox' = [inbox EXCEPT ![s] = (@ \ X) \cup E] /\ UNCHANGED <<wire, failed>>
    \/ Send(s, t, E) /\ inbox' = [inbox EXCEPT ![s] = @ \ X] /\ UNCHANGED failed
    \/ SendFails(o, s, t, refs) /\ inbox' = [inbox EXCEPT ![s] = @ \ X] /\ UNCHANGED wire

\* The share goes to its new place, and has no other.
LEMMA Given ==
  ASSUME Types0, Types1, NEW o \in Ops, NEW s \in Systems, NEW t,
         NEW E \in SUBSET Envelopes, NEW refs, NEW X,
         Give(o, s, t, E, refs, X), UNCHANGED <<lost, joined, got>>,
         NEW ref \in refs, NEW x \in E, \A e \in E : About(e, o, ref) <=> e = x,
         ref.SystemId \notin groups'[o], ref \notin failed[o], ref \notin lost[o], o \notin joined,
         \A p \in Systems \X Systems : \A i : ~Riding(o, ref, p, i),
         \A r \in Systems : \A e \in inbox[r] : About(e, o, ref) => r = s /\ e \in X,
         \A g \in got : ~(g[1] = o /\ g[3] = ref)
  PROVE  OnePlace(o, ref)'
<1>1. CASE s = t /\ inbox' = [inbox EXCEPT ![s] = (@ \ X) \cup E] /\ UNCHANGED <<wire, failed>>
  <2>1. \A r \in Systems : \A e : e \in inbox'[r] /\ About(e, o, ref) <=> r = s /\ e = x
    BY <1>1 DEF Types0
  <2>2. \A p \in Systems \X Systems : \A i : ~Riding(o, ref, p, i)'
    BY <1>1 DEF Riding
  <2> DEFINE place == <<"inbox", s, x>>
  <2>3. \A y : IsAt(o, ref, y)' <=> y = place
    BY <1>1, <2>1, <2>2 DEF IsAt
  <2> HIDE DEF place
  <2> QED BY <2>3 DEF OnePlace, IsAt
<1>2. CASE Send(s, t, E) /\ inbox' = [inbox EXCEPT ![s] = @ \ X] /\ UNCHANGED failed
  <2>1. \A r \in Systems : \A e \in inbox'[r] : ~About(e, o, ref)
    BY <1>2 DEF Types0
  <2> DEFINE p == <<s, t>>
             n == Len(wire[p]) + 1
  <2>2. \A q \in Systems \X Systems : \A i : Riding(o, ref, q, i)' <=> q = p /\ i = n
    <3>0. t \in Systems /\ wire' = [wire EXCEPT ![<<s, t>>] = Append(@, E)]
      BY <1>2, LinkedTo
    <3>1. \A q \in Systems \X Systems : \A i :
             Riding(o, ref, q, i)' <=> Riding(o, ref, q, i) \/ (q = p /\ i = Len(wire[q]) + 1)
      <4> SUFFICES ASSUME NEW q \in Systems \X Systems, NEW i
                   PROVE  Riding(o, ref, q, i)' <=> Riding(o, ref, q, i) \/ (q = p /\ i = Len(wire[q]) + 1)
        OBVIOUS
      <4>1. Riding(o, ref, q, i)' <=>
               \/ Riding(o, ref, q, i)
               \/ q = <<s, t>> /\ i = Len(wire[q]) + 1 /\ \E e \in E : About(e, o, ref)
        BY <3>0, RidingSent
      <4> QED BY <4>1
    <3> QED BY <3>1
  <2>3. p \in Systems \X Systems /\ p[1] = s /\ p[2] = t
    BY <1>2, LinkedTo
  <2> HIDE DEF p, n
  <2> DEFINE place == <<"wire", s, t, n>>
  <2>4. \A y : IsAt(o, ref, y)' <=> y = place
    BY <1>2, <2>1, <2>2, <2>3 DEF IsAt
  <2> HIDE DEF place
  <2> QED BY <2>4 DEF OnePlace, IsAt
<1>3. CASE SendFails(o, s, t, refs) /\ inbox' = [inbox EXCEPT ![s] = @ \ X] /\ UNCHANGED wire
  <2>1. \A r \in Systems : \A e \in inbox'[r] : ~About(e, o, ref)
    BY <1>3 DEF Types0
  <2>2. \A p \in Systems \X Systems : \A i : ~Riding(o, ref, p, i)'
    BY <1>3 DEF Riding
  <2>3. ref \in failed'[o]
    BY <1>3 DEF SendFails, Types1
  <2> DEFINE place == <<"failed">>
  <2>4. \A y : IsAt(o, ref, y)' <=> y = place
    BY <1>3, <2>1, <2>2, <2>3 DEF IsAt
  <2> HIDE DEF place
  <2> QED BY <2>4 DEF OnePlace, IsAt
<1> QED BY <1>1, <1>2, <1>3 DEF Give

\* Every other share stays where it is.
LEMMA NotGiven ==
  ASSUME Types0, Types1, NEW o \in Ops, NEW s \in Systems, NEW t,
         NEW E \in SUBSET Envelopes, NEW refs, NEW X,
         Give(o, s, t, E, refs, X), UNCHANGED <<lost, joined, got>>,
         NEW oo \in Ops, NEW ref, OnePlace(oo, ref), oo # o \/ ref \notin refs,
         \A e \in E \cup X : ~About(e, oo, ref),
         ref.SystemId \in groups'[oo] <=> ref.SystemId \in groups[oo]
  PROVE  OnePlace(oo, ref)'
<1>1. ref \in failed'[oo] <=> ref \in failed[oo]
  BY DEF Give, SendFails, Types1
<1>2. \A r \in Systems : \A e : About(e, oo, ref) => (e \in inbox'[r] <=> e \in inbox[r])
  BY SMTT(30) DEF Give, Types0
<1>3. \A p \in Systems \X Systems : \A i : Riding(oo, ref, p, i)' <=> Riding(oo, ref, p, i)
  <2>1. CASE UNCHANGED wire
    BY <2>1 DEF Riding
  <2>2. CASE Send(s, t, E)
    <3>1. t \in Systems /\ wire' = [wire EXCEPT ![<<s, t>>] = Append(@, E)]
      BY <2>2, LinkedTo
    <3> SUFFICES ASSUME NEW p \in Systems \X Systems, NEW i
                 PROVE  Riding(oo, ref, p, i)' <=> Riding(oo, ref, p, i)
      OBVIOUS
    <3>2. Riding(oo, ref, p, i)' <=>
             \/ Riding(oo, ref, p, i)
             \/ p = <<s, t>> /\ i = Len(wire[p]) + 1 /\ \E e \in E : About(e, oo, ref)
      BY <3>1, RidingSent
    <3> QED BY <3>2
  <2> QED BY <2>1, <2>2 DEF Give
<1> QED BY <1>1, <1>2, <1>3, ShareKept

\* The share is nowhere, but in what is about to be taken out of an inbox.
Only(o, ref, s, X) ==
    /\ ref \notin failed[o] /\ ref \notin lost[o] /\ o \notin joined
    /\ \A p \in Systems \X Systems : \A i : ~Riding(o, ref, p, i)
    /\ \A r \in Systems : \A e \in inbox[r] : About(e, o, ref) => r = s /\ e \in X
    /\ \A g \in got : ~(g[1] = o /\ g[3] = ref)

LEMMA InGroup ==
  ASSUME NEW o, NEW ref, NEW s, OnePlace(o, ref), ref.SystemId \in groups[o]
  PROVE  Only(o, ref, s, {})
<1> DEFINE place == <<"group">>
<1>1. \A y : IsAt(o, ref, y) => y = place
  <2>1. IsAt(o, ref, place)
    BY DEF IsAt
  <2> HIDE DEF place
  <2> QED BY <2>1 DEF OnePlace
<1>2. /\ <<"failed">> # place /\ <<"lost">> # place /\ <<"joined">> # place
      /\ \A p, i : <<"wire", p[1], p[2], i>> # place
      /\ \A r, e : <<"inbox", r, e>> # place
      /\ \A g : <<"got", g[2]>> # place
  OBVIOUS
<1> HIDE DEF place
<1>3. ref \notin failed[o] /\ ref \notin lost[o] /\ o \notin joined
  BY <1>1, <1>2 DEF IsAt
<1>4. \A p \in Systems \X Systems : \A i : ~Riding(o, ref, p, i)
  <2> SUFFICES ASSUME NEW p \in Systems \X Systems, NEW i, Riding(o, ref, p, i) PROVE FALSE
    OBVIOUS
  <2>1. IsAt(o, ref, <<"wire", p[1], p[2], i>>)
    BY DEF IsAt
  <2> QED BY <1>1, <1>2, <2>1
<1>5. \A r \in Systems : \A x \in inbox[r] : About(x, o, ref) => FALSE
  <2> SUFFICES ASSUME NEW r \in Systems, NEW x \in inbox[r], About(x, o, ref) PROVE FALSE
    OBVIOUS
  <2>1. IsAt(o, ref, <<"inbox", r, x>>)
    BY DEF IsAt
  <2> QED BY <1>1, <1>2, <2>1
<1>6. \A g \in got : ~(g[1] = o /\ g[3] = ref)
  <2> SUFFICES ASSUME NEW g \in got, g[1] = o, g[3] = ref PROVE FALSE
    OBVIOUS
  <2>1. IsAt(o, ref, <<"got", g[2]>>)
    BY DEF IsAt
  <2> QED BY <1>1, <1>2, <2>1
<1> QED BY <1>3, <1>4, <1>5, <1>6 DEF Only

LEMMA InInbox ==
  ASSUME NEW o, NEW ref, NEW s \in Systems, NEW e \in inbox[s], OnePlace(o, ref), About(e, o, ref)
  PROVE  Only(o, ref, s, {e}) /\ ref.SystemId \notin groups[o]
<1> DEFINE place == <<"inbox", s, e>>
<1>1. \A y : IsAt(o, ref, y) => y = place
  <2>1. IsAt(o, ref, place)
    BY DEF IsAt
  <2> HIDE DEF place
  <2> QED BY <2>1 DEF OnePlace
<1>2. /\ <<"failed">> # place /\ <<"lost">> # place /\ <<"group">> # place /\ <<"joined">> # place
      /\ \A p, i : <<"wire", p[1], p[2], i>> # place
      /\ \A r, x : <<"inbox", r, x>> = place => r = s /\ x = e
      /\ \A g : <<"got", g[2]>> # place
  OBVIOUS
<1> HIDE DEF place
<1>3. ref \notin failed[o] /\ ref \notin lost[o] /\ o \notin joined /\ ref.SystemId \notin groups[o]
  BY <1>1, <1>2 DEF IsAt
<1>4. \A p \in Systems \X Systems : \A i : ~Riding(o, ref, p, i)
  <2> SUFFICES ASSUME NEW p \in Systems \X Systems, NEW i, Riding(o, ref, p, i) PROVE FALSE
    OBVIOUS
  <2>1. IsAt(o, ref, <<"wire", p[1], p[2], i>>)
    BY DEF IsAt
  <2> QED BY <1>1, <1>2, <2>1
<1>5. \A r \in Systems : \A x \in inbox[r] : About(x, o, ref) => r = s /\ x = e
  <2> SUFFICES ASSUME NEW r \in Systems, NEW x \in inbox[r], About(x, o, ref) PROVE r = s /\ x = e
    OBVIOUS
  <2>1. IsAt(o, ref, <<"inbox", r, x>>)
    BY DEF IsAt
  <2> QED BY <1>1, <1>2, <2>1
<1>6. \A g \in got : ~(g[1] = o /\ g[3] = ref)
  <2> SUFFICES ASSUME NEW g \in got, g[1] = o, g[3] = ref PROVE FALSE
    OBVIOUS
  <2>1. IsAt(o, ref, <<"got", g[2]>>)
    BY DEF IsAt
  <2> QED BY <1>1, <1>2, <2>1
<1> QED BY <1>3, <1>4, <1>5, <1>6 DEF Only

LEMMA Uncalled ==
  ASSUME Types0, Formed, Fresh, NEW o \in Ops, o \notin called, NEW ref, NEW s, NEW X
  PROVE  Only(o, ref, s, X)
<1>1. \A p \in Systems \X Systems : \A i : ~Riding(o, ref, p, i)
  BY DEF Riding, About, Formed, Crosses
<1>2. \A r \in Systems : \A e \in inbox[r] : ~About(e, o, ref)
  BY DEF About, Formed, Delivered
<1>3. \A g \in got : g[1] # o
  BY DEF Fresh
<1>4. ref \notin failed[o] /\ ref \notin lost[o] /\ o \notin joined
  BY DEF Fresh
<1> QED BY <1>1, <1>2, <1>3, <1>4 DEF Only

LEMMA MeantType ==
  ASSUME NEW o \in Ops
  PROVE  /\ Meant[o] \subseteq AllRefs
         /\ o \notin Watches \/ TheRef(o).SystemId = At[o] => Meant[o] = Refs[o]
         /\ o \in Watches /\ TheRef(o).SystemId # At[o] =>
               Meant[o] = {CreateActorRef(At[o], TheRef(o).ActorType, TheRef(o).ActorId)}
         /\ Kind[o] \notin Groups => Refs[o] = {TheRef(o)}
<1>1. /\ At[o] \in Systems /\ Refs[o] \subseteq AllRefs
      /\ Kind[o] \notin Groups => TheRef(o) \in Refs[o] /\ TheRef(o) \in AllRefs
      /\ \A r \in Refs[o] : r.ActorType \in Types /\ r.ActorId \in Ids
  BY RefsType
<1>2. /\ o \notin Watches \/ TheRef(o).SystemId = At[o] => Meant[o] = Refs[o]
      /\ o \in Watches /\ TheRef(o).SystemId # At[o] =>
            Meant[o] = {CreateActorRef(At[o], TheRef(o).ActorType, TheRef(o).ActorId)}
  BY DEF Meant, Watches
<1>3. o \in Watches => CreateActorRef(At[o], TheRef(o).ActorType, TheRef(o).ActorId) \in AllRefs
  <2> SUFFICES ASSUME o \in Watches
               PROVE  CreateActorRef(At[o], TheRef(o).ActorType, TheRef(o).ActorId) \in AllRefs
    OBVIOUS
  <2>1. TheRef(o).ActorType \in Types /\ TheRef(o).ActorId \in Ids
    BY <1>1 DEF Watches, Groups
  <2> QED BY <1>1, <2>1, RefType DEF CreateActorRef, ActorId
<1>4. Kind[o] \notin Groups => Refs[o] = {TheRef(o)}
  <2> SUFFICES ASSUME Kind[o] \notin Groups PROVE Refs[o] = {TheRef(o)}
    OBVIOUS
  <2>1. PICK t \in Targets[o] : Targets[o] = {t}
    BY RoutingAssumption
  <2>2. Refs[o] = {RefOf(o, t)}
    BY <2>1 DEF Refs
  <2> QED BY <1>1, <2>2
<1> QED BY <1>1, <1>2, <1>3, <1>4

\* A share that is given away, and one that is left alone.
Handed(o, s, E, refs, X, ref) ==
    /\ ref \in refs /\ ref.SystemId \notin groups'[o] /\ Only(o, ref, s, X)
    /\ \E x \in E : \A e \in E : About(e, o, ref) <=> e = x

Left(o, E, refs, X, ref) ==
    /\ OnePlace(o, ref) /\ ref \notin refs
    /\ \A e \in E \cup X : ~About(e, o, ref)
    /\ ref.SystemId \in groups'[o] <=> ref.SystemId \in groups[o]

LEMMA GiveOnce ==
  ASSUME Types0, Types1, Once, NEW o \in Ops, NEW s \in Systems, NEW t,
         NEW E \in SUBSET Envelopes, NEW refs, NEW X,
         Give(o, s, t, E, refs, X), UNCHANGED <<lost, joined, got>>, called' = called \cup {o},
         \A e \in E \cup X : e.op = o,
         \A x \in Ops : x # o => groups'[x] = groups[x],
         \A ref \in Meant[o] : Handed(o, s, E, refs, X, ref) \/ Left(o, E, refs, X, ref)
  PROVE  Once'
<1> SUFFICES ASSUME NEW oo \in called', NEW ref \in Meant[oo] PROVE OnePlace(oo, ref)'
  BY DEF Once
<1>0. oo \in Ops
  BY DEF Types0
<1>1. CASE oo # o
  <2>1. OnePlace(oo, ref)
    BY <1>1 DEF Once
  <2>2. \A e \in E \cup X : ~About(e, oo, ref)
    BY <1>1 DEF About
  <2> QED BY <1>0, <1>1, <2>1, <2>2, NotGiven
<1>2. CASE oo = o /\ Left(o, E, refs, X, ref)
  <2>1. /\ OnePlace(o, ref) /\ ref \notin refs
        /\ \A e \in E \cup X : ~About(e, o, ref)
        /\ ref.SystemId \in groups'[o] <=> ref.SystemId \in groups[o]
    BY <1>2 DEF Left
  <2>2. OnePlace(o, ref)'
    BY <2>1, NotGiven
  <2> QED BY <1>2, <2>2
<1>3. CASE oo = o /\ Handed(o, s, E, refs, X, ref)
  <2>1. PICK x \in E : \A e \in E : About(e, o, ref) <=> e = x
    BY <1>3 DEF Handed
  <2>2. /\ ref \in refs /\ ref.SystemId \notin groups'[o]
        /\ ref \notin failed[o] /\ ref \notin lost[o] /\ o \notin joined
        /\ \A p \in Systems \X Systems : \A i : ~Riding(o, ref, p, i)
        /\ \A r \in Systems : \A e \in inbox[r] : About(e, o, ref) => r = s /\ e \in X
        /\ \A g \in got : ~(g[1] = o /\ g[3] = ref)
    BY <1>3 DEF Handed, Only
  <2>3. OnePlace(o, ref)'
    BY <2>1, <2>2, Given
  <2> QED BY <1>3, <2>3
<1> QED BY <1>1, <1>2, <1>3

LEMMA WireFormed ==
  ASSUME Types0, Formed, NEW s \in Systems, NEW t, NEW E \in SUBSET Envelopes,
         called \subseteq called',
         UNCHANGED wire \/ (Send(s, t, E) /\ \A e \in E : Crosses(<<s, t>>, e)')
  PROVE  (\A p \in Systems \X Systems : \A i \in 1 .. Len(wire[p]) : \A e \in wire[p][i] : Crosses(p, e))'
<1> SUFFICES ASSUME NEW p \in Systems \X Systems, NEW i \in 1 .. Len(wire'[p]), NEW e \in wire'[p][i]
             PROVE  Crosses(p, e)'
  OBVIOUS
<1>1. ASSUME i \in 1 .. Len(wire[p]), e \in wire[p][i] PROVE Crosses(p, e)'
  BY <1>1 DEF Formed, Crosses
<1>2. CASE UNCHANGED wire
  BY <1>1, <1>2
<1>3. CASE Send(s, t, E) /\ \A x \in E : Crosses(<<s, t>>, x)'
  <2>1. CASE p # <<s, t>>
    <3>0. t \in Systems /\ wire' = [wire EXCEPT ![<<s, t>>] = Append(@, E)]
      BY <1>3, LinkedTo
    <3>1. wire'[p] = wire[p]
      BY <2>1, <3>0 DEF Types0
    <3> QED BY <1>1, <3>1
  <2>2. CASE p = <<s, t>>
    <3>0. t \in Systems /\ wire' = [wire EXCEPT ![<<s, t>>] = Append(@, E)]
      BY <1>3, LinkedTo
    <3>1. wire'[p] = Append(wire[p], E) /\ wire[p] \in Seq(SUBSET Envelopes)
      BY <2>2, <3>0 DEF Types0
    <3> DEFINE q == wire[p]
    <3>2. \A j \in 1 .. Len(Append(q, E)) : (j \in 1 .. Len(q) /\ Append(q, E)[j] = q[j]) \/ Append(q, E)[j] = E
      <4>1. q \in Seq(SUBSET Envelopes)
        BY <3>1
      <4> HIDE DEF q
      <4> QED BY <4>1, AppendAt
    <3>3. (i \in 1 .. Len(wire[p]) /\ e \in wire[p][i]) \/ e \in E
      BY <3>1, <3>2
    <3> QED BY <1>1, <1>3, <2>2, <3>3
  <2> QED BY <2>1, <2>2
<1> QED BY <1>2, <1>3

\* What the error of an operation has to say.
Says(o) ==
    /\ err[o] # NoError => failed[o] # {}
    /\ err[o] = NoError /\ failed[o] # {} =>
          \E r \in Refs[o] \ failed[o] : r.SystemId # At[o] /\ r.SystemId \notin groups[o]

LEMMA GiveLedger ==
  ASSUME Types0, Ledger, NEW o \in Ops, NEW s \in Systems, NEW t,
         NEW E \in SUBSET Envelopes, NEW refs \in SUBSET Meant[o], NEW X,
         Give(o, s, t, E, refs, X), UNCHANGED <<lost, joined, got, up, breaks>>, called' = called \cup {o},
         \A e \in E \cup X : e.op = o,
         groups' \in [Ops -> SUBSET Homes], groups'[o] \subseteq {r.SystemId : r \in Refs[o]},
         err' \in [Ops -> {NoError, ErrorCodeMessageSendFail}],
         \A x \in Ops : x # o => groups'[x] = groups[x] /\ err'[x] = err[x],
         \A ref \in Meant[o] : Handed(o, s, E, refs, X, ref) \/ Left(o, E, refs, X, ref),
         \A e \in E : (s = t => Delivered(t, e)') /\ (s # t => Crosses(<<s, t>>, e)'),
         Kind[o] \in Groups \cup {"Send"} => Says(o)'
  PROVE  Ledger'
<1>0. Types1 /\ Formed /\ Fresh /\ Reported /\ Once
  BY DEF Ledger
<1>1. Once'
  BY <1>0, GiveOnce
<1>2. /\ failed' \in [Ops -> SUBSET AllRefs] /\ failed'[o] \subseteq Meant[o]
      /\ \A x \in Ops : x # o => failed'[x] = failed[x]
  BY <1>0, MeantType DEF Give, SendFails, Types1
<1>3. Types1'
  BY <1>0, <1>2 DEF Types1
<1>4. Fresh'
  BY <1>0, <1>2 DEF Fresh
<1>5. Reported'
  BY <1>0, <1>2 DEF Reported, Says
<1>6. Formed'
  <2>1. UNCHANGED wire \/ (Send(s, t, E) /\ \A e \in E : Crosses(<<s, t>>, e)')
    BY DEF Give, Send
  <2>2. (\A p \in Systems \X Systems : \A i \in 1 .. Len(wire[p]) : \A e \in wire[p][i] : Crosses(p, e))'
    BY <1>0, <2>1, WireFormed
  <2>3. ASSUME NEW r \in Systems, NEW e \in inbox'[r] PROVE Delivered(r, e)'
    <3>1. e \in inbox[r] \/ (r = t /\ s = t /\ e \in E)
      BY SMTT(30) DEF Give, Types0
    <3>2. CASE e \in inbox[r]
      BY <1>0, <3>2 DEF Formed, Delivered
    <3> QED BY <3>1, <3>2
  <2> QED BY <2>2, <2>3 DEF Formed
<1> QED BY <1>1, <1>3, <1>4, <1>5, <1>6 DEF Ledger

\* Envelopes go, answers come, nothing else moves.
LEMMA QuietLedger ==
  ASSUME Types0, Ledger, inbox' \in [Systems -> SUBSET Envelopes],
         \A r \in Systems : inbox'[r] \subseteq inbox[r],
         \A r \in Systems : \A e \in inbox[r] \ inbox'[r] : e.kind = "ResponseAsync",
         UNCHANGED <<wire, breaks, callVars, err, failed, lost, joined, got>>, up' \subseteq Links
  PROVE  Ledger'
<1>0. Types1 /\ Formed /\ Fresh /\ Reported /\ Once
  BY DEF Ledger
<1>1. UNCHANGED <<wire, breaks, called, groups, err, failed, lost, joined, got>>
  BY DEF callVars
<1>2. Types1' /\ Fresh' /\ Reported'
  BY <1>0, <1>1 DEF Types1, Fresh, Reported
<1>3. Formed'
  BY <1>0, <1>1 DEF Formed, Delivered, Crosses
<1>4. Once'
  <2> SUFFICES ASSUME NEW o \in called, NEW ref \in Meant[o] PROVE OnePlace(o, ref)'
    BY <1>1 DEF Once
  <2>1. OnePlace(o, ref)
    BY <1>0 DEF Once
  <2>2. \A r \in Systems : \A e : About(e, o, ref) => (e \in inbox'[r] <=> e \in inbox[r])
    BY DEF About
  <2>3. \A p \in Systems \X Systems : \A i : Riding(o, ref, p, i)' <=> Riding(o, ref, p, i)
    BY <1>1 DEF Riding
  <2> QED BY <1>1, <2>1, <2>2, <2>3, ShareKept
<1> QED BY <1>2, <1>3, <1>4 DEF Ledger

LEMMA EnvFields ==
  ASSUME NEW o, NEW k, NEW r
  PROVE  /\ Env(o, k, r).op = o /\ Env(o, k, r).kind = k
         /\ Env(o, k, r).to = r /\ Env(o, k, r).from = Nil
BY DEF Env

LEMMA RouteGroupLedger ==
  ASSUME IInv, Ledger, NEW o \in Ops, NEW t \in Systems, RouteGroup(o, t)
  PROVE  Ledger'
<1> DEFINE s == At[o]
           refs == GroupOf(o, t)
           E == {Env(o, Kind[o], r) : r \in refs}
<1>0. Types0 /\ Types1 /\ Formed /\ Fresh /\ Reported /\ Once
  BY DEF IInv, Ledger
<1>1. s \in Systems /\ Refs[o] \subseteq AllRefs
  BY RefsType
<1>2. /\ t \in groups[o] /\ groups' = [groups EXCEPT ![o] = @ \ {t}]
      /\ Route(o, s, t, E, refs)
      /\ UNCHANGED <<up, breaks, called, lost, joined, got>>
  BY DEF RouteGroup, watchVars
<1>3. Kind[o] \in Groups /\ o \in called /\ Kind[o] \in Kinds /\ o \notin Watches /\ Meant[o] = Refs[o]
  <2>1. Kind[o] \in Groups /\ o \in called
    BY <1>0, <1>2 DEF IInv, Batches, Fresh
  <2> QED BY <2>1, MeantType DEF Kinds, Watches, Groups
<1>4. refs \subseteq Refs[o] /\ \A r \in refs : r.SystemId = t
  BY DEF GroupOf
<1>5. /\ E \in SUBSET Envelopes
      /\ \A e \in E : e.op = o /\ e.kind = Kind[o] /\ e.to \in refs /\ e.from = Nil
  BY <1>1, <1>3, <1>4, EnvType, EnvFields
<1>6. Give(o, s, t, E, refs, {})
  <2>1. inbox[s] \ {} = inbox[s] /\ inbox = [inbox EXCEPT ![s] = @]
    BY <1>0 DEF Types0
  <2> HIDE DEF E, refs, s
  <2> QED BY <1>2, <2>1 DEF Route, Give, LocalRouter, Send, SendFails
<1>7. /\ groups' \in [Ops -> SUBSET Homes] /\ groups'[o] = groups[o] \ {t}
      /\ groups'[o] \subseteq {r.SystemId : r \in Refs[o]}
      /\ \A x \in Ops : x # o => groups'[x] = groups[x]
  BY <1>0, <1>2 DEF Types1
<1>8. /\ err' \in [Ops -> {NoError, ErrorCodeMessageSendFail}]
      /\ \A x \in Ops : x # o => err'[x] = err[x]
  BY <1>0, <1>2 DEF Route, Types1
<1>9. ASSUME NEW ref \in Meant[o], ref.SystemId = t
      PROVE  Handed(o, s, E, refs, {}, ref)
  <2>1. ref \in refs
    BY <1>3, <1>9 DEF GroupOf
  <2>2. OnePlace(o, ref)
    BY <1>0, <1>3 DEF Once
  <2>3. Only(o, ref, s, {})
    BY <1>2, <1>9, <2>2, InGroup
  <2> DEFINE x == Env(o, Kind[o], ref)
  <2>4. x \in E
    BY <2>1
  <2>5. \A e \in E : About(e, o, ref) <=> e = x
    <3>1. Kind[o] \notin {"ResponseAsync", "ProxyWatch", "ProxyRequest"}
      BY <1>3 DEF Groups
    <3> SUFFICES ASSUME NEW r \in refs PROVE About(Env(o, Kind[o], r), o, ref) <=> Env(o, Kind[o], r) = x
      OBVIOUS
    <3> QED BY <3>1, EnvFields DEF About
  <2> HIDE DEF x, E, refs, s
  <2> QED BY <1>7, <1>9, <2>1, <2>3, <2>4, <2>5 DEF Handed
<1>10. ASSUME NEW ref \in Meant[o], ref.SystemId # t
       PROVE  Left(o, E, refs, {}, ref)
  <2>1. OnePlace(o, ref) /\ ref \notin refs
    BY <1>0, <1>3, <1>4, <1>10 DEF Once
  <2>2. \A e \in E : ~About(e, o, ref)
    BY <1>3, <1>4, <1>5, <1>10 DEF About, Groups
  <2> HIDE DEF E, refs
  <2> QED BY <1>7, <1>10, <2>1, <2>2 DEF Left
<1>11. \A e \in E : Delivered(t, e)' /\ (s # t => Crosses(<<s, t>>, e)')
  BY <1>2, <1>3, <1>4, <1>5 DEF Delivered, Crosses, Crossing, Groups
<1>12. Says(o)'
  <2>1. PICK r \in refs : r.SystemId = t
    BY <1>0, <1>2 DEF Types1, GroupOf
  <2>2. r \in Refs[o] /\ r \notin failed[o]
    <3>1. OnePlace(o, r)
      BY <1>0, <1>3, <1>4, <2>1 DEF Once
    <3> QED BY <1>2, <1>4, <2>1, <3>1, InGroup DEF Only
  <2>3. Says(o)
    BY <1>0, <1>3 DEF Reported, Says
  <2> HIDE DEF E, refs, s
  <2>4. CASE UNCHANGED <<err, failed>>
    BY <1>7, <2>3, <2>4 DEF Says
  <2>5. CASE s # t /\ err' = [err EXCEPT ![o] = NoError] /\ UNCHANGED failed
    BY <1>0, <1>7, <2>1, <2>2, <2>5 DEF Says, Types1, s
  <2>6. CASE SendFails(o, s, t, refs) /\ err' = [err EXCEPT ![o] = ErrorCodeMessageSendFail]
    <3>1. failed'[o] # {} /\ err'[o] # NoError
      BY <1>0, <2>1, <2>6 DEF SendFails, Types1, NoError, ErrorCodeMessageSendFail
    <3> QED BY <3>1 DEF Says
  <2> QED BY <1>2, <2>4, <2>5, <2>6 DEF Route, Send
<1> HIDE DEF E, refs, s
<1>13. \A e \in E \cup {} : e.op = o
  BY <1>5
<1>14. called' = called \cup {o} /\ refs \in SUBSET Meant[o]
  BY <1>2, <1>3, <1>4
<1> QED BY <1>0, <1>1, <1>2, <1>5, <1>6, <1>7, <1>8, <1>9, <1>10, <1>11, <1>12, <1>13, <1>14, GiveLedger

\* A call with one envelope, which goes on its way at once.
LEMMA CallLedger ==
  ASSUME IInv, Ledger, NEW o \in Ops, Call(o), Kind[o] \notin Groups,
         NEW t, NEW x \in Envelopes, NEW refs \in SUBSET Meant[o],
         Give(o, At[o], t, {x}, refs, {}), UNCHANGED <<up, breaks, groups, lost, joined, got>>,
         x.op = o, \A ref \in Meant[o] : ref \in refs /\ About(x, o, ref),
         err' \in [Ops -> {NoError, ErrorCodeMessageSendFail}],
         \A y \in Ops : y # o => err'[y] = err[y],
         At[o] = t => Delivered(t, x)', At[o] # t => Crosses(<<At[o], t>>, x)',
         Kind[o] \in Groups \cup {"Send"} => Says(o)'
  PROVE  Ledger'
<1>0. Types0 /\ Types1 /\ Formed /\ Fresh /\ Reported /\ Once
  BY DEF IInv, Ledger
<1>1. o \notin called /\ called' = called \cup {o} /\ groups[o] = {} /\ At[o] \in Systems
  BY <1>0, RefsType DEF Call, Fresh
<1>2. ASSUME NEW ref \in Meant[o] PROVE Handed(o, At[o], {x}, refs, {}, ref)
  <2>1. Only(o, ref, At[o], {})
    BY <1>0, <1>1, Uncalled
  <2> QED BY <1>1, <2>1 DEF Handed
<1>3. /\ groups' \in [Ops -> SUBSET Homes] /\ groups'[o] \subseteq {r.SystemId : r \in Refs[o]}
      /\ \A y \in Ops : y # o => groups'[y] = groups[y]
  BY <1>0 DEF Types1
<1>4. \A e \in {x} : (At[o] = t => Delivered(t, e)') /\ (At[o] # t => Crosses(<<At[o], t>>, e)')
  OBVIOUS
<1>5. {x} \in SUBSET Envelopes /\ \A e \in {x} \cup {} : e.op = o
  OBVIOUS
<1> DEFINE E == {x}
<1>6. /\ E \in SUBSET Envelopes /\ \A e \in E \cup {} : e.op = o
      /\ \A e \in E : (At[o] = t => Delivered(t, e)') /\ (At[o] # t => Crosses(<<At[o], t>>, e)')
      /\ \A ref \in Meant[o] : Handed(o, At[o], E, refs, {}, ref)
      /\ Give(o, At[o], t, E, refs, {})
  BY <1>2, <1>4, <1>5
<1>7. \A y \in Ops : y # o => groups'[y] = groups[y] /\ err'[y] = err[y]
  BY <1>3
<1> HIDE DEF E
<1> QED BY <1>0, <1>1, <1>3, <1>6, <1>7, GiveLedger

LEMMA GivesNothing ==
  ASSUME Types0, NEW s \in Systems
  PROVE  inbox[s] \ {} = inbox[s] /\ inbox = [inbox EXCEPT ![s] = @ \ {}]
BY DEF Types0

LEMMA RouteSendLedger ==
  ASSUME IInv, Ledger, NEW o \in Ops, RouteSend(o)
  PROVE  Ledger'
<1> DEFINE r == TheRef(o)
           t == r.SystemId
           x == Env(o, "Send", r)
           refs == Refs[o]
<1>0. Types0 /\ Types1 /\ Formed /\ Fresh /\ Reported /\ Once
  BY DEF IInv, Ledger
<1>1. /\ At[o] \in Systems /\ r \in AllRefs /\ Kind[o] \notin Groups /\ o \notin Watches /\ o \notin Requests
      /\ Meant[o] = refs /\ refs = {r}
  BY RefsType, MeantType DEF RouteSend, Groups, Watches, Requests
<1>2. /\ Call(o) /\ called' = called \cup {o} /\ o \notin called
      /\ Route(o, At[o], t, {x}, refs)
      /\ UNCHANGED <<up, breaks, groups, lost, joined, got>>
  BY DEF RouteSend, Call, watchVars
<1>3. x \in Envelopes /\ x.op = o /\ x.kind = "Send" /\ x.to = r /\ x.from = Nil
  BY <1>1, EnvType, EnvFields DEF Kinds
<1> HIDE DEF x, t, r, refs
<1>5. Give(o, At[o], t, {x}, refs, {})
  BY <1>0, <1>1, <1>2, GivesNothing DEF Route, Give, LocalRouter, Send, SendFails
<1>6. \A ref \in Meant[o] : ref \in refs /\ About(x, o, ref)
  BY <1>1, <1>3 DEF About
<1>7. /\ err' \in [Ops -> {NoError, ErrorCodeMessageSendFail}]
      /\ \A y \in Ops : y # o => err'[y] = err[y]
  BY <1>0, <1>2 DEF Route, Types1
<1>8. Delivered(t, x)' /\ (At[o] # t => Crosses(<<At[o], t>>, x)')
  BY <1>1, <1>2, <1>3 DEF Delivered, Crosses, Crossing
<1>9. Says(o)'
  <2>1. failed[o] = {} /\ (err[o] # NoError => failed[o] # {})
    BY <1>0, <1>2 DEF Fresh, Reported, RouteSend
  <2>2. CASE UNCHANGED failed /\ (UNCHANGED err \/ err' = [err EXCEPT ![o] = NoError])
    BY <1>0, <2>1, <2>2 DEF Types1, Says
  <2>3. CASE SendFails(o, At[o], t, refs) /\ err' = [err EXCEPT ![o] = ErrorCodeMessageSendFail]
    BY <1>0, <1>1, <2>3 DEF SendFails, Types1, NoError, ErrorCodeMessageSendFail, Says
  <2> QED BY <1>2, <2>2, <2>3 DEF Route
<1>10. refs \in SUBSET Meant[o]
  BY <1>1
<1> QED BY <1>1, <1>2, <1>3, <1>5, <1>6, <1>7, <1>8, <1>9, <1>10, CallLedger

\* A call that stays on its system.
LEMMA LocalCallLedger ==
  ASSUME IInv, Ledger, NEW o \in Ops, Call(o), Kind[o] \notin Groups \cup {"Send"},
         NEW x \in Envelopes, LocalRouter(At[o], {x}),
         UNCHANGED <<netVars, groups, err, failed, lost, joined, got>>,
         x.op = o, \A ref \in Meant[o] : About(x, o, ref), Delivered(At[o], x)'
  PROVE  Ledger'
<1>0. Types0 /\ Types1
  BY DEF IInv, Ledger
<1>1. At[o] \in Systems /\ UNCHANGED <<up, wire, breaks, groups, err, failed, lost, joined, got>>
  BY RefsType DEF netVars
<1> DEFINE t == At[o]
           refs == Meant[o]
<1>2. Give(o, At[o], t, {x}, refs, {})
  <2>1. inbox[At[o]] \ {} = inbox[At[o]]
    BY <1>0, <1>1, GivesNothing
  <2> QED BY <1>1, <2>1 DEF Give, LocalRouter
<1>3. err' \in [Ops -> {NoError, ErrorCodeMessageSendFail}] /\ \A y \in Ops : y # o => err'[y] = err[y]
  BY <1>0, <1>1 DEF Types1
<1>4. t = At[o] /\ refs \in SUBSET Meant[o] /\ \A ref \in Meant[o] : ref \in refs
  OBVIOUS
<1> HIDE DEF t, refs
<1> QED BY <1>1, <1>2, <1>3, <1>4, CallLedger

LEMMA RouteWatchLedger ==
  ASSUME IInv, Ledger, NEW o \in Ops, RouteWatch(o)
  PROVE  Ledger'
<1> DEFINE r == TheRef(o)
           s == At[o]
<1>1. /\ s \in Systems /\ r \in AllRefs /\ r.ActorType \in Types /\ r.ActorId \in Ids
      /\ o \in Watches /\ Kind[o] \notin Groups \cup {"Send"} /\ Refs[o] = {r}
  BY RefsType, MeantType DEF RouteWatch, Groups, Watches
<1>2. Call(o) /\ called' = called \cup {o} /\ UNCHANGED <<netVars, groups, err, failed, lost, joined, got>>
  BY DEF RouteWatch, Call, watchVars
<1>3. CASE r.SystemId = s
  <2> DEFINE x == Env(o, "Send", r)
  <2>1. x \in Envelopes /\ x.op = o /\ x.kind = "Send" /\ x.to = r
    BY <1>1, EnvType DEF Kinds
  <2>2. LocalRouter(s, {x})
    BY <1>3 DEF RouteWatch
  <2>3. Meant[o] = {r}
    BY <1>1, <1>3, MeantType
  <2> HIDE DEF x, r
  <2>4. (\A ref \in Meant[o] : About(x, o, ref)) /\ Delivered(s, x)'
    BY <1>2, <2>1, <2>3 DEF About, Delivered
  <2> QED BY <1>1, <1>2, <2>1, <2>2, <2>4, LocalCallLedger
<1>4. CASE r.SystemId # s
  <2> DEFINE proxy == GetWatchProxyActorRef(s, r)
             x == Env(o, "ProxyWatch", proxy)
  <2>1. proxy \in AllRefs
    BY <1>1, ProxyType
  <2>2. x \in Envelopes /\ x.op = o /\ x.kind = "ProxyWatch" /\ x.to = proxy
    <3> HIDE DEF proxy
    <3> QED BY <2>1, EnvType DEF Kinds
  <2>3. LocalRouter(s, {x})
    BY <1>4 DEF RouteWatch
  <2>4. Delivered(s, x)'
    <3> HIDE DEF x
    <3> QED BY <1>1, <1>2, <1>4, <2>2 DEF Delivered
  <2> HIDE DEF x, proxy, r
  <2>5. \A ref \in Meant[o] : About(x, o, ref)
    BY <2>2 DEF About
  <2> QED BY <1>1, <1>2, <2>2, <2>3, <2>4, <2>5, LocalCallLedger
<1> QED BY <1>3, <1>4

LEMMA RouteOuterRequestLedger ==
  ASSUME IInv, Ledger, NEW o \in Ops, RouteOuterRequest(o)
  PROVE  Ledger'
<1> DEFINE r == TheRef(o)
           s == At[o]
           x == Question(o)
<1>1. /\ s \in Systems /\ r \in AllRefs /\ r.ActorType \in Types /\ r.ActorId \in Ids
      /\ o \notin Watches /\ Kind[o] \notin Groups \cup {"Send"} /\ Meant[o] = {r}
  BY RefsType, MeantType DEF RouteOuterRequest, Groups, Watches
<1>2. /\ Call(o) /\ called' = called \cup {o} /\ UNCHANGED <<netVars, groups, err, failed, lost, joined, got>>
      /\ LocalRouter(s, {x})
  BY DEF RouteOuterRequest, Call, Question, watchVars
<1>3. /\ x \in Envelopes /\ x.op = o
      /\ \/ x.kind = "Request" /\ x.to = r
         \/ x.kind = "ProxyRequest"
  <2>1. CASE r.SystemId = s
    BY <1>1, <2>1, EnvType DEF Question, Kinds
  <2>2. CASE r.SystemId # s
    <3> DEFINE proxy == GetRequestProxyActorRef(s, r)
    <3>1. proxy \in AllRefs /\ x = Env(o, "ProxyRequest", proxy)
      BY <1>1, <2>2, ProxyType DEF Question
    <3> HIDE DEF proxy, x
    <3> QED BY <3>1, EnvType DEF Kinds
  <2> QED BY <2>1, <2>2
<1> HIDE DEF x, r
<1>4. (\A ref \in Meant[o] : About(x, o, ref)) /\ Delivered(s, x)'
  BY <1>1, <1>2, <1>3 DEF About, Delivered
<1> QED BY <1>1, <1>2, <1>3, <1>4, LocalCallLedger

LEMMA CallGroupsLedger ==
  ASSUME IInv, Ledger, NEW o \in Ops, CallGroups(o)
  PROVE  Ledger'
<1> DEFINE named == {r.SystemId : r \in Refs[o]}
<1>0. Types0 /\ Types1 /\ Formed /\ Fresh /\ Reported /\ Once
  BY DEF IInv, Ledger
<1>1. /\ Kind[o] \in Groups /\ o \notin called /\ called' = called \cup {o}
      /\ groups' = [groups EXCEPT ![o] = named]
      /\ UNCHANGED <<up, wire, breaks, inbox, err, failed, lost, joined, got>>
  BY DEF CallGroups, Call, netVars, watchVars
<1>2. Refs[o] \subseteq AllRefs /\ Meant[o] = Refs[o]
  BY <1>1, RefsType, MeantType DEF Groups, Watches
<1>3. named \in SUBSET Homes
  BY <1>2 DEF Homes
<1>4. /\ groups' \in [Ops -> SUBSET Homes] /\ groups'[o] = named
      /\ \A x \in Ops : x # o => groups'[x] = groups[x]
  <2> HIDE DEF named
  <2> QED BY <1>0, <1>1, <1>3 DEF Types1
<1>5. Types1'
  BY <1>0, <1>1, <1>4 DEF Types1
<1>6. Formed'
  BY <1>0, <1>1 DEF Formed, Delivered, Crosses
<1>7. Fresh'
  BY <1>0, <1>1, <1>4 DEF Fresh
<1>8. Reported'
  <2>1. failed[o] = {} /\ (err[o] # NoError => failed[o] # {})
    BY <1>0, <1>1 DEF Fresh, Reported
  <2> QED BY <1>0, <1>1, <1>4, <2>1 DEF Reported
<1>9. ASSUME NEW x \in called', NEW ref \in Meant[x] PROVE OnePlace(x, ref)'
  <2>0. x \in Ops
    BY <1>0, <1>1 DEF Types0
  <2>1. CASE x # o
    <3>1. OnePlace(x, ref)
      BY <1>0, <1>1, <1>9, <2>1 DEF Once
    <3>2. ref.SystemId \in groups'[x] <=> ref.SystemId \in groups[x]
      BY <1>4, <2>0, <2>1
    <3>3. \A p \in Systems \X Systems : \A i : Riding(x, ref, p, i)' <=> Riding(x, ref, p, i)
      BY <1>1 DEF Riding
    <3> QED BY <1>1, <3>1, <3>2, <3>3, ShareKept
  <2>2. CASE x = o
    <3>1. Only(o, ref, At[o], {})
      BY <1>0, <1>1, Uncalled
    <3>2. ref.SystemId \in groups'[o]
      BY <1>2, <1>4, <1>9, <2>2
    <3>3. \A p \in Systems \X Systems : \A i : ~Riding(o, ref, p, i)'
      BY <1>1, <3>1 DEF Riding, Only
    <3> DEFINE place == <<"group">>
    <3>4. \A y : IsAt(x, ref, y)' <=> y = place
      BY <1>1, <2>2, <3>1, <3>2, <3>3 DEF IsAt, Only
    <3> HIDE DEF place
    <3> QED BY <3>4 DEF OnePlace, IsAt
  <2> QED BY <2>1, <2>2
<1> QED BY <1>5, <1>6, <1>7, <1>8, <1>9 DEF Ledger, Once

\* Answers on the wire are nobody's share.
LEMMA RidingAnswer ==
  ASSUME Types0, NEW s \in Systems, NEW t, NEW A \in SUBSET Envelopes,
         UNCHANGED wire \/ Send(s, t, A), \A a \in A : a.kind = "ResponseAsync",
         NEW o, NEW ref
  PROVE  \A p \in Systems \X Systems : \A i : Riding(o, ref, p, i)' <=> Riding(o, ref, p, i)
<1> SUFFICES ASSUME NEW p \in Systems \X Systems, NEW i
             PROVE  Riding(o, ref, p, i)' <=> Riding(o, ref, p, i)
  OBVIOUS
<1>1. CASE UNCHANGED wire
  BY <1>1 DEF Riding
<1>2. CASE Send(s, t, A)
  <2>1. t \in Systems /\ wire' = [wire EXCEPT ![<<s, t>>] = Append(@, A)]
    BY <1>2, LinkedTo DEF Send
  <2>2. Riding(o, ref, p, i)' <=>
           \/ Riding(o, ref, p, i)
           \/ p = <<s, t>> /\ i = Len(wire[p]) + 1 /\ \E a \in A : About(a, o, ref)
    BY <2>1, RidingSent
  <2> QED BY <2>2 DEF About
<1> QED BY <1>1, <1>2

\* An actor is handed an envelope, and answers at most.
LEMMA TakenLedger ==
  ASSUME IInv, Ledger, NEW s \in Systems, NEW e \in inbox[s],
         e.kind \in Groups \cup {"Send", "Request", "RequestAsync"},
         Take(s, e), got' = got \cup {<<e.op, s, e.to>>},
         NEW t, NEW A \in SUBSET Envelopes,
         UNCHANGED wire \/ Send(s, t, A), \A a \in A : a.kind = "ResponseAsync" /\ a.op = e.op,
         UNCHANGED <<up, breaks, called, groups, err, failed, lost, joined>>
  PROVE  Ledger'
<1>0. Types0 /\ Types1 /\ Formed /\ Fresh /\ Reported /\ Once
  BY DEF IInv, Ledger
<1>1. /\ inbox' = [inbox EXCEPT ![s] = @ \ {e}]
      /\ e.op \in called /\ e \in Envelopes
      /\ e.kind \notin {"ProxyWatch", "ProxyRequest", "ResponseAsync"}
  BY <1>0 DEF Take, Formed, Delivered, Groups, Types0
<1>2. Types1' /\ Reported'
  BY <1>0 DEF Types1, Reported
<1>3. Fresh'
  BY <1>0, <1>1 DEF Fresh
<1>4. Formed'
  <2>1. Send(s, t, A) => \A a \in A : Crosses(<<s, t>>, a)'
    BY <1>1 DEF Crosses, Send
  <2>2. (\A p \in Systems \X Systems : \A i \in 1 .. Len(wire[p]) : \A x \in wire[p][i] : Crosses(p, x))'
    BY <1>0, <2>1, WireFormed
  <2>3. (\A r \in Systems : \A x \in inbox[r] : Delivered(r, x))'
    BY <1>0, <1>1 DEF Formed, Delivered, Types0
  <2> QED BY <2>2, <2>3 DEF Formed
<1>5. ASSUME NEW o \in called, NEW ref \in Meant[o] PROVE OnePlace(o, ref)'
  <2>0. OnePlace(o, ref)
    BY <1>0 DEF Once
  <2>1. \A p \in Systems \X Systems : \A i : Riding(o, ref, p, i)' <=> Riding(o, ref, p, i)
    BY <1>0, RidingAnswer
  <2>2. CASE ~About(e, o, ref)
    <3>1. \A r \in Systems : \A x : About(x, o, ref) => (x \in inbox'[r] <=> x \in inbox[r])
      BY <1>0, <1>1, <2>2 DEF Types0
    <3>2. \A g : g[1] = o /\ g[3] = ref => (g \in got' <=> g \in got)
      BY <1>1, <2>2 DEF About
    <3> QED BY <2>0, <2>1, <3>1, <3>2, ShareKept
  <2>3. CASE About(e, o, ref)
    <3>1. Only(o, ref, s, {e}) /\ ref.SystemId \notin groups[o] /\ o = e.op /\ ref = e.to
      BY <1>1, <2>0, <2>3, InInbox DEF About
    <3>2. \A r \in Systems : \A x \in inbox'[r] : ~About(x, o, ref)
      BY <1>0, <1>1, <3>1 DEF Types0, Only
    <3>3. \A g \in got' : g[1] = o /\ g[3] = ref <=> g = <<o, s, ref>>
      BY <3>1 DEF Only
    <3>4. <<o, s, ref>> \in got' /\ <<o, s, ref>>[2] = s
      BY <3>1
    <3>5. \A p \in Systems \X Systems : \A i : ~Riding(o, ref, p, i)'
      BY <2>1, <3>1 DEF Only
    <3> DEFINE place == <<"got", s>>
    <3>6. \A y : IsAt(o, ref, y)' <=> y = place
      BY <3>1, <3>2, <3>3, <3>4, <3>5 DEF IsAt, Only
    <3> HIDE DEF place
    <3> QED BY <3>6 DEF OnePlace, IsAt
  <2> QED BY <2>2, <2>3
<1> QED BY <1>2, <1>3, <1>4, <1>5 DEF Ledger, Once

LEMMA ActorLedger ==
  ASSUME IInv, Ledger, NEW s \in Systems, NEW e \in inbox[s],
         HandleSend(s, e) \/ HandleRequest(s, e) \/ HandleRequestAsync(s, e)
  PROVE  Ledger'
<1>1. CASE HandleSend(s, e) \/ HandleRequest(s, e)
  <2>1. /\ e.kind \in Groups \cup {"Send", "Request", "RequestAsync"}
        /\ Take(s, e) /\ got' = got \cup {<<e.op, s, e.to>>}
        /\ UNCHANGED <<wire, up, breaks, called, groups, err, failed, lost, joined>>
    BY <1>1 DEF HandleSend, HandleRequest, netVars, callVars, watchVars
  <2>2. {} \in SUBSET Envelopes /\ \A a \in {} : a.kind = "ResponseAsync" /\ a.op = e.op
    OBVIOUS
  <2> QED BY <2>1, <2>2, TakenLedger
<1>2. CASE HandleRequestAsync(s, e)
  <2> DEFINE o == e.op
             t == At[o]
             a == Answer(o, GetRequestProxyActorRef(t, e.to), e.to)
  <2>1. /\ e.kind = "RequestAsync"
        /\ Take(s, e) /\ got' = got \cup {<<e.op, s, e.to>>}
        /\ UNCHANGED <<up, breaks, called, groups, err, failed, lost, joined>>
        /\ UNCHANGED wire \/ Send(s, t, {a})
    BY <1>2 DEF HandleRequestAsync, callVars, watchVars
  <2>2. a \in Envelopes /\ a.kind = "ResponseAsync" /\ a.op = o
    <3>1. o \in Requests /\ e.to = TheRef(o) /\ Kind[o] \notin Groups /\ o \in Ops
      BY <2>1 DEF IInv, InboxOK, Truthful, Requests, Groups
    <3>2. t \in Systems /\ e.to \in AllRefs /\ e.to.ActorType \in Types /\ e.to.ActorId \in Ids
      BY <3>1, RefsType
    <3> DEFINE proxy == GetRequestProxyActorRef(t, e.to)
    <3>3. proxy \in AllRefs /\ a = Answer(o, proxy, e.to)
      BY <3>2, ProxyType
    <3> HIDE DEF a, proxy, t, o
    <3> QED BY <3>1, <3>2, <3>3, AnswerType DEF o
  <2> HIDE DEF a, t
  <2>3. {a} \in SUBSET Envelopes /\ \A x \in {a} : x.kind = "ResponseAsync" /\ x.op = e.op
    BY <2>2
  <2> QED BY <2>1, <2>3, TakenLedger
<1> QED BY <1>1, <1>2

\* A proxy passes on the one share of its operation.
LEMMA ProxyLedger ==
  ASSUME IInv, Ledger, NEW s \in Systems, NEW e \in inbox[s],
         e.kind \in {"ProxyWatch", "ProxyRequest"}, Kind[e.op] \notin Groups \cup {"Send"},
         NEW ref, Meant[e.op] = {ref}, NEW t, NEW x \in Envelopes,
         x.op = e.op, x.to = ref, x.from = Nil, x.kind \in {"Send", "RequestAsync"},
         x.kind = Crossing(e.op),
         Give(e.op, s, t, {x}, {ref}, {e}), UNCHANGED <<up, breaks, called, groups, err, lost, joined, got>>
  PROVE  Ledger'
<1> DEFINE o == e.op
           E == {x}
           X == {e}
           refs == {ref}
<1>0. Types0 /\ Types1 /\ Formed /\ Fresh /\ Reported /\ Once
  BY DEF IInv, Ledger
<1>1. o \in called /\ o \in Ops /\ called' = called \cup {o}
  BY <1>0 DEF Formed, Delivered, Types0
<1>2. Only(o, ref, s, X) /\ ref.SystemId \notin groups[o]
  <2>1. OnePlace(o, ref) /\ About(e, o, ref)
    BY <1>0, <1>1 DEF Once, About
  <2> QED BY <2>1, InInbox
<1>3. \A y \in E : About(y, o, ref) <=> y = x
  BY DEF About
<1>4. ASSUME NEW r \in Meant[o] PROVE Handed(o, s, E, refs, X, r)
  <2>1. r = ref /\ r \in refs /\ x \in E
    BY <1>4
  <2> HIDE DEF o, E, X, refs
  <2> QED BY <1>2, <1>3, <2>1 DEF Handed
<1>5. \A y \in E : (s = t => Delivered(t, y)') /\ (s # t => Crosses(<<s, t>>, y)')
  BY <1>1 DEF Delivered, Crosses
<1>6. /\ groups' \in [Ops -> SUBSET Homes] /\ groups'[o] \subseteq {r.SystemId : r \in Refs[o]}
      /\ err' \in [Ops -> {NoError, ErrorCodeMessageSendFail}]
      /\ \A y \in Ops : y # o => groups'[y] = groups[y] /\ err'[y] = err[y]
  BY <1>0, <1>1 DEF Types1
<1>7. /\ E \in SUBSET Envelopes /\ refs \in SUBSET Meant[o] /\ \A y \in E \cup X : y.op = o
      /\ Give(o, s, t, E, refs, X) /\ Kind[o] \notin Groups \cup {"Send"}
  OBVIOUS
<1> HIDE DEF o, E, X, refs
<1> QED BY <1>0, <1>1, <1>4, <1>5, <1>6, <1>7, GiveLedger

LEMMA HandleProxyWatchLedger ==
  ASSUME IInv, Ledger, NEW s \in Systems, NEW e \in inbox[s], HandleProxyWatch(s, e)
  PROVE  Ledger'
<1> DEFINE o == e.op
           w == GetWatcheeActorRef(s, e.to.ActorId)
           t == w.SystemId
           x == Env(o, "Send", w)
<1>0. Types0 /\ Types1 /\ Formed
  BY DEF IInv, Ledger
<1>1. e.kind = "ProxyWatch" /\ UNCHANGED <<up, breaks, called, groups, err, lost, joined, got>>
  BY DEF HandleProxyWatch, callVars
<1>2. /\ o \in Watches /\ o \in Ops /\ s = At[o] /\ TheRef(o).SystemId # s
      /\ e.to = GetWatchProxyActorRef(s, TheRef(o))
  BY <1>0, <1>1 DEF Formed, Delivered, Watches
<1>3. Kind[o] \notin Groups \cup {"Send"} /\ Crossing(o) = "Send"
  BY <1>2 DEF Watches, Groups, Crossing, Requests
<1>4. TheRef(o).ActorType \in Types /\ TheRef(o).ActorId \in Ids
  BY <1>2, <1>3, RefsType
<1>5. w = CreateActorRef(s, TheRef(o).ActorType, TheRef(o).ActorId)
  <2>1. e.to.ActorId = <<TheRef(o).ActorType, TheRef(o).ActorId>>
    BY <1>2 DEF GetWatchProxyActorRef, CreateActorRefEx
  <2>2. e.to.ActorId \in ProxyId
    BY <1>4, <2>1 DEF ProxyId
  <2> QED BY <2>1, <2>2 DEF GetWatcheeActorRef
<1>6. Meant[o] = {w} /\ w \in AllRefs
  BY <1>2, <1>5, MeantType
<1>7. Give(o, s, t, {x}, {w}, {e})
  BY DEF HandleProxyWatch, Give, Take
<1> HIDE DEF t, w
<1>8. x \in Envelopes /\ x.op = o /\ x.kind = "Send" /\ x.to = w /\ x.from = Nil
  <2> HIDE DEF o
  <2>1. "Send" \in Kinds /\ "RequestAsync" \in Kinds
    BY DEF Kinds
  <2> QED BY <1>2, <1>6, <2>1, EnvType, EnvFields
<1> HIDE DEF x
<1> QED BY <1>1, <1>3, <1>6, <1>7, <1>8, ProxyLedger

\* A proxy that has subscribed keeps the share of the operation.
LEMMA HandleProxyJoinLedger ==
  ASSUME IInv, Ledger, NEW s \in Systems, NEW e \in inbox[s], HandleProxyJoin(s, e)
  PROVE  Ledger'
<1> DEFINE o == e.op
<1>0. Types0 /\ Types1 /\ Formed /\ Fresh /\ Reported /\ Once
  BY DEF IInv, Ledger
<1>1. /\ e.kind = "ProxyWatch" /\ inbox' = [inbox EXCEPT ![s] = @ \ {e}]
      /\ joined' = joined \cup {o}
      /\ UNCHANGED <<up, wire, breaks, called, groups, err, failed, lost, got>>
  BY DEF HandleProxyJoin, Take, netVars, callVars
<1>2. o \in called /\ o \in Ops
  BY <1>0 DEF Formed, Delivered, Types0
<1>3. Types1' /\ Reported'
  BY <1>0, <1>1 DEF Types1, Reported
<1>4. Fresh'
  BY <1>0, <1>1, <1>2 DEF Fresh
<1>5. Formed'
  BY <1>0, <1>1 DEF Formed, Delivered, Crosses, Types0
<1>6. ASSUME NEW oo \in called, NEW ref \in Meant[oo] PROVE OnePlace(oo, ref)'
  <2>1. OnePlace(oo, ref)
    BY <1>0 DEF Once
  <2>2. \A p \in Systems \X Systems : \A i : Riding(oo, ref, p, i)' <=> Riding(oo, ref, p, i)
    BY <1>1 DEF Riding
  <2>3. CASE oo # o
    <3>1. \A r \in Systems : \A x : About(x, oo, ref) => (x \in inbox'[r] <=> x \in inbox[r])
      BY <1>0, <1>1, <2>3 DEF Types0, About
    <3> QED BY <1>1, <2>1, <2>2, <2>3, <3>1, ShareKept
  <2>4. CASE oo = o
    <3>1. Only(oo, ref, s, {e}) /\ ref.SystemId \notin groups[oo]
      <4>1. About(e, oo, ref)
        BY <1>1, <2>4 DEF About
      <4> QED BY <2>1, <4>1, InInbox
    <3>2. \A r \in Systems : \A x \in inbox'[r] : ~About(x, oo, ref)
      BY <1>0, <1>1, <3>1 DEF Types0, Only
    <3>3. \A p \in Systems \X Systems : \A i : ~Riding(oo, ref, p, i)'
      BY <2>2, <3>1 DEF Only
    <3>4. oo \in joined'
      BY <1>1, <2>4
    <3> DEFINE place == <<"joined">>
    <3>5. \A y : IsAt(oo, ref, y)' <=> y = place
      BY <1>1, <3>1, <3>2, <3>3, <3>4 DEF IsAt, Only
    <3> HIDE DEF place
    <3> QED BY <3>5 DEF OnePlace, IsAt
  <2> QED BY <2>3, <2>4
<1> QED BY <1>1, <1>3, <1>4, <1>5, <1>6 DEF Ledger, Once

LEMMA HandleProxyRequestLedger ==
  ASSUME IInv, Ledger, NEW s \in Systems, NEW e \in inbox[s], HandleProxyRequest(s, e)
  PROVE  Ledger'
<1> DEFINE o == e.op
           r == TheRef(o)
           t == r.SystemId
           x == Env(o, "RequestAsync", r)
<1>1. e.kind = "ProxyRequest" /\ UNCHANGED <<up, breaks, called, groups, err, lost, joined, got>>
  BY DEF HandleProxyRequest, callVars, watchVars
<1>2. o \in Requests /\ o \in Ops
  BY <1>1 DEF IInv, InboxOK, Asked, Requests
<1>3. /\ Kind[o] \notin Groups \cup {"Send"} /\ o \notin Watches /\ Crossing(o) = "RequestAsync"
  BY <1>2 DEF Watches, Groups, Crossing, Requests
<1>4. Meant[o] = {r} /\ r \in AllRefs
  BY <1>2, <1>3, RefsType, MeantType
<1>5. Give(o, s, t, {x}, {r}, {e})
  BY DEF HandleProxyRequest, Give, Take
<1> HIDE DEF t, r
<1>6. x \in Envelopes /\ x.op = o /\ x.kind = "RequestAsync" /\ x.to = r /\ x.from = Nil
  <2> HIDE DEF o
  <2>1. "Send" \in Kinds /\ "RequestAsync" \in Kinds
    BY DEF Kinds
  <2> QED BY <1>2, <1>4, <2>1, EnvType, EnvFields
<1> HIDE DEF x
<1> QED BY <1>1, <1>3, <1>4, <1>5, <1>6, ProxyLedger

LEMMA QuietSteps ==
  ASSUME IInv, Ledger,
         \/ \E s \in Systems : \E e \in inbox[s] : HandleResponseAsync(s, e)
         \/ \E o \in Requests : ProxyTimeout(o) \/ CallerReceives(o) \/ CallerGivesUp(o)
         \/ \E l \in Links : Connect(l)
         \/ UNCHANGED vars
  PROVE  Ledger'
<1>0. Types0 /\ up \subseteq Links
  BY DEF IInv, Ledger, Types1
<1>1. UNCHANGED <<wire, breaks, callVars, err, failed, lost, joined, got>> /\ up' \subseteq Links
  BY <1>0 DEF HandleResponseAsync, ProxyTimeout, CallerReceives, CallerGivesUp, Connect, netVars, vars, watchVars
<1>2. CASE UNCHANGED inbox
  BY <1>0, <1>1, <1>2, QuietLedger DEF Types0
<1>3. ASSUME NEW s \in Systems, NEW e \in inbox[s], HandleResponseAsync(s, e) PROVE Ledger'
  <2>1. inbox' = [inbox EXCEPT ![s] = @ \ {e}] /\ e.kind = "ResponseAsync"
    BY <1>3 DEF HandleResponseAsync, Take
  <2>2. /\ inbox' \in [Systems -> SUBSET Envelopes]
        /\ \A r \in Systems : inbox'[r] \subseteq inbox[r]
        /\ \A r \in Systems : \A x \in inbox[r] \ inbox'[r] : x.kind = "ResponseAsync"
    BY <1>0, <2>1 DEF Types0
  <2> QED BY <1>0, <1>1, <2>2, QuietLedger
<1> QED BY <1>2, <1>3 DEF ProxyTimeout, CallerReceives, CallerGivesUp, Connect, vars

-----------------------------------------------------------------------------
(* The ledger and the links.                                               *)

LEMMA SystemsFinite == IsFiniteSet(Systems)
<1> DEFINE n == Len(SystemConfigs)
           f == [i \in 1 .. n |-> SystemConfigs[i].SystemId]
<1>1. n \in Nat /\ DOMAIN SystemConfigs = 1 .. n
  <2> DEFINE Config == [SystemId : Nat \ {0}, ActorTypes : SUBSET Types]
  <2>1. SystemConfigs \in Seq(Config)
    BY PlacementAssumption
  <2> HIDE DEF Config
  <2> QED BY <2>1, LenProperties
<1>2. Systems = {f[i] : i \in 1 .. n}
  BY <1>1 DEF Systems
<1>3. f \in Surjection(1 .. n, Systems)
  <2>1. f \in [1 .. n -> Systems]
    BY <1>2
  <2>2. \A s \in Systems : \E i \in 1 .. n : f[i] = s
    BY <1>2
  <2> HIDE DEF f
  <2> QED BY <2>1, <2>2 DEF Surjection
<1>4. IsFiniteSet(1 .. n)
  BY <1>1, FS_Interval
<1> HIDE DEF f, n
<1> QED BY <1>3, <1>4, FS_Surjection

\* A link is the set of its two ends.
LEMMA LinkPair ==
  ASSUME NEW l \in Links, NEW a \in l, NEW b \in l, a # b
  PROVE  l = {a, b}
<1>1. l \subseteq Systems /\ Cardinality(l) = 2
  BY DEF Links
<1>2. IsFiniteSet(l)
  BY <1>1, SystemsFinite, FS_Subset
<1>3. IsFiniteSet({a}) /\ Cardinality({a}) = 1
  BY FS_Singleton
<1>4. Cardinality({a} \cup {b}) = 2
  <2>1. Cardinality({a} \cup {b}) = IF b \in {a} THEN Cardinality({a}) ELSE Cardinality({a}) + 1
    BY <1>3, FS_AddElement
  <2> QED BY <1>3, <2>1
<1>5. {a} \cup {b} \in SUBSET l
  OBVIOUS
<1>6. l = {a} \cup {b}
  BY <1>1, <1>2, <1>4, <1>5, FS_Subset
<1> QED BY <1>6

LEMMA OnLink ==
  ASSUME Types0, NEW o, NEW ref, NEW p \in Systems \X Systems, NEW i,
         OnePlace(o, ref), Riding(o, ref, p, i)
  PROVE  /\ ref.SystemId \notin groups[o] /\ ref \notin failed[o] /\ ref \notin lost[o] /\ o \notin joined
         /\ \A q \in Systems \X Systems : \A j : Riding(o, ref, q, j) => q = p /\ j = i
         /\ \A r \in Systems : \A e \in inbox[r] : ~About(e, o, ref)
         /\ \A g \in got : ~(g[1] = o /\ g[3] = ref)
<1> DEFINE place == <<"wire", p[1], p[2], i>>
<1>1. \A y : IsAt(o, ref, y) => y = place
  <2>1. IsAt(o, ref, place)
    BY DEF IsAt
  <2> HIDE DEF place
  <2> QED BY <2>1 DEF OnePlace
<1>2. /\ <<"failed">> # place /\ <<"lost">> # place /\ <<"group">> # place /\ <<"joined">> # place
      /\ \A r, x : <<"inbox", r, x>> # place
      /\ \A g : <<"got", g[2]>> # place
  OBVIOUS
<1>3. ASSUME NEW q \in Systems \X Systems, NEW j, <<"wire", q[1], q[2], j>> = place
      PROVE  q = p /\ j = i
  <2>1. q[1] = p[1] /\ q[2] = p[2] /\ j = i
    BY <1>3
  <2>2. q = <<q[1], q[2]>> /\ p = <<p[1], p[2]>>
    OBVIOUS
  <2> QED BY <2>1, <2>2
<1> HIDE DEF place
<1>4. ref.SystemId \notin groups[o] /\ ref \notin failed[o] /\ ref \notin lost[o] /\ o \notin joined
  BY <1>1, <1>2 DEF IsAt
<1>5. \A q \in Systems \X Systems : \A j : Riding(o, ref, q, j) => q = p /\ j = i
  <2> SUFFICES ASSUME NEW q \in Systems \X Systems, NEW j, Riding(o, ref, q, j) PROVE q = p /\ j = i
    OBVIOUS
  <2>1. IsAt(o, ref, <<"wire", q[1], q[2], j>>)
    BY DEF IsAt
  <2> QED BY <1>1, <1>3, <2>1
<1>6. \A r \in Systems : \A x \in inbox[r] : ~About(x, o, ref)
  <2> SUFFICES ASSUME NEW r \in Systems, NEW x \in inbox[r], About(x, o, ref) PROVE FALSE
    OBVIOUS
  <2>1. IsAt(o, ref, <<"inbox", r, x>>)
    BY DEF IsAt
  <2> QED BY <1>1, <1>2, <2>1
<1>7. \A g \in got : ~(g[1] = o /\ g[3] = ref)
  <2> SUFFICES ASSUME NEW g \in got, g[1] = o, g[3] = ref PROVE FALSE
    OBVIOUS
  <2>1. IsAt(o, ref, <<"got", g[2]>>)
    BY DEF IsAt
  <2> QED BY <1>1, <1>2, <2>1
<1> QED BY <1>4, <1>5, <1>6, <1>7

LEMMA RidingArrived ==
  ASSUME Types0, NEW p \in Systems \X Systems, wire[p] # <<>>,
         wire' = [wire EXCEPT ![p] = Tail(@)], NEW o, NEW ref
  PROVE  \A q \in Systems \X Systems : \A i :
            Riding(o, ref, q, i)' <=>
               \/ q # p /\ Riding(o, ref, q, i)
               \/ q = p /\ i \in Nat \ {0} /\ Riding(o, ref, q, i + 1)
<1> DEFINE w == wire[p]
<1>1. w \in Seq(SUBSET Envelopes) /\ w # <<>>
  BY DEF Types0
<1>2. wire'[p] = Tail(w) /\ \A q \in Systems \X Systems : q # p => wire'[q] = wire[q]
  BY DEF Types0
<1>3. /\ Len(w) \in Nat /\ Len(Tail(w)) = Len(w) - 1
      /\ \A i \in 1 .. Len(Tail(w)) : Tail(w)[i] = w[i + 1]
  <2> HIDE DEF w
  <2> QED BY <1>1, LenProperties, HeadTailProperties
<1>4. \A i : i \in 1 .. Len(Tail(w)) <=> i \in Nat \ {0} /\ i + 1 \in 1 .. Len(w)
  <2> HIDE DEF w
  <2> QED BY <1>3
<1> SUFFICES ASSUME NEW q \in Systems \X Systems, NEW i
             PROVE  Riding(o, ref, q, i)' <=>
                       \/ q # p /\ Riding(o, ref, q, i)
                       \/ q = p /\ i \in Nat \ {0} /\ Riding(o, ref, q, i + 1)
  OBVIOUS
<1>5. CASE q # p
  BY <1>2, <1>5 DEF Riding
<1>6. CASE q = p
  <2>1. i \in 1 .. Len(Tail(w)) => Tail(w)[i] = w[i + 1]
    BY <1>3
  <2>2. i \in 1 .. Len(Tail(w)) <=> i \in Nat \ {0} /\ i + 1 \in 1 .. Len(w)
    BY <1>4
  <2>3. wire'[q] = Tail(w) /\ wire[q] = w
    BY <1>2, <1>6
  <2> HIDE DEF w
  <2> QED BY <1>6, <2>1, <2>2, <2>3 DEF Riding
<1> QED BY <1>5, <1>6

LEMMA ArriveLedger ==
  ASSUME IInv, Ledger, NEW s \in Systems, NEW t \in Systems, Arrive(s, t)
  PROVE  Ledger'
<1> DEFINE p == <<s, t>>
           w == wire[p]
           E == Head(w)
<1>0. Types0 /\ Types1 /\ Formed /\ Fresh /\ Reported /\ Once
  BY DEF IInv, Ledger
<1>1. /\ UNCHANGED <<up, breaks, called, groups, err, failed, lost, joined, got>>
      /\ inbox' = [inbox EXCEPT ![t] = @ \cup E]
      /\ wire' = [wire EXCEPT ![p] = Tail(@)] /\ w # <<>>
  BY DEF Arrive, callVars, LocalRouter, watchVars
<1>2. p \in Systems \X Systems /\ w \in Seq(SUBSET Envelopes)
  BY <1>0 DEF Types0
<1>3. /\ E \in SUBSET Envelopes /\ E = w[1] /\ 1 \in 1 .. Len(w)
      /\ \A i \in 1 .. Len(Tail(w)) : i + 1 \in 1 .. Len(w) /\ Tail(w)[i] = w[i + 1]
  <2> HIDE DEF w, p
  <2> QED BY <1>1, <1>2, TailAt
<1>4. \A i \in 1 .. Len(w) : \A e \in w[i] : Crosses(p, e)
  BY <1>0, <1>2 DEF Formed
<1>5. Types1' /\ Fresh' /\ Reported'
  BY <1>0, <1>1 DEF Types1, Fresh, Reported
<1> HIDE DEF E, w
<1>6. \A e \in E : /\ Delivered(t, e)
                   /\ e.kind # "ResponseAsync" => e.kind = Crossing(e.op) /\ e.from = Nil
                   /\ e.kind \notin {"ProxyWatch", "ProxyRequest"}
  BY <1>3, <1>4 DEF Crosses, Delivered, Crossing, Groups
<1>7. Formed'
  <2>1. \A q \in Systems \X Systems : \A i \in 1 .. Len(wire'[q]) : \A e \in wire'[q][i] : Crosses(q, e)
    <3> SUFFICES ASSUME NEW q \in Systems \X Systems, NEW i \in 1 .. Len(wire'[q]), NEW e \in wire'[q][i]
                 PROVE  Crosses(q, e)
      OBVIOUS
    <3>1. CASE q = p
      <4>1. wire'[q] = Tail(w)
        BY <1>0, <1>1, <1>2, <3>1 DEF Types0, w
      <4> QED BY <1>3, <1>4, <3>1, <4>1
    <3>2. CASE q # p
      <4>1. wire'[q] = wire[q]
        BY <1>0, <1>1, <3>2 DEF Types0
      <4> QED BY <1>0, <4>1 DEF Formed
    <3> QED BY <3>1, <3>2
  <2>2. \A r \in Systems : \A e \in inbox'[r] : Delivered(r, e)
    <3>1. \A r \in Systems : \A e \in inbox'[r] : e \in inbox[r] \/ (r = t /\ e \in E)
      BY <1>0, <1>1 DEF Types0
    <3> QED BY <1>0, <1>6, <3>1 DEF Formed
  <2>3. (\A q \in Systems \X Systems : \A i \in 1 .. Len(wire[q]) : \A e \in wire[q][i] : Crosses(q, e))'
    BY ZenonT(60), <1>1, <2>1 DEF Crosses
  <2>4. (\A r \in Systems : \A e \in inbox[r] : Delivered(r, e))'
    BY <1>1, <2>2 DEF Delivered
  <2> QED BY <2>3, <2>4 DEF Formed
<1>8. ASSUME NEW o \in called, NEW ref \in Meant[o] PROVE OnePlace(o, ref)'
  <2>0. OnePlace(o, ref)
    BY <1>0 DEF Once
  <2>1. \A q \in Systems \X Systems : \A i :
            Riding(o, ref, q, i)' <=>
               \/ q # p /\ Riding(o, ref, q, i)
               \/ q = p /\ i \in Nat \ {0} /\ Riding(o, ref, q, i + 1)
    BY <1>0, <1>1, <1>2, RidingArrived DEF w
  <2>2. CASE \E e \in E : About(e, o, ref)
    <3>1. PICK x \in E : About(x, o, ref)
      BY <2>2
    <3>2. Riding(o, ref, p, 1)
      BY <1>3, <3>1 DEF Riding, w
    <3>3. /\ ref.SystemId \notin groups[o] /\ ref \notin failed[o] /\ ref \notin lost[o] /\ o \notin joined
          /\ \A q \in Systems \X Systems : \A j : Riding(o, ref, q, j) => q = p /\ j = 1
          /\ \A r \in Systems : \A e \in inbox[r] : ~About(e, o, ref)
          /\ \A g \in got : ~(g[1] = o /\ g[3] = ref)
      BY <1>0, <1>2, <2>0, <3>2, OnLink
    <3>4. \A e \in E : About(e, o, ref) <=> e = x
      <4>1. ASSUME NEW e \in E, About(e, o, ref) PROVE e = x
        <5>1. e.op = x.op /\ e.kind = x.kind /\ e.to = x.to /\ e.from = x.from
          BY <1>6, <3>1, <4>1 DEF About
        <5>2. e \in Envelopes /\ x \in Envelopes
          BY <1>3
        <5> QED BY <5>1, <5>2 DEF Envelopes
      <4> QED BY <3>1, <4>1
    <3>5. \A r \in Systems : \A e : e \in inbox'[r] /\ About(e, o, ref) <=> r = t /\ e = x
      BY <1>0, <1>1, <3>3, <3>4 DEF Types0
    <3>6. \A q \in Systems \X Systems : \A i : ~Riding(o, ref, q, i)'
      <4> SUFFICES ASSUME NEW q \in Systems \X Systems, NEW i, Riding(o, ref, q, i)' PROVE FALSE
        OBVIOUS
      <4>1. \/ q # p /\ Riding(o, ref, q, i)
            \/ i \in Nat \ {0} /\ Riding(o, ref, q, i + 1)
        BY <2>1
      <4> QED BY <3>3, <4>1
    <3> DEFINE place == <<"inbox", t, x>>
    <3>7. \A y : IsAt(o, ref, y)' <=> y = place
      BY <1>1, <3>3, <3>5, <3>6 DEF IsAt
    <3> HIDE DEF place
    <3> QED BY <3>7 DEF OnePlace, IsAt
  <2>3. CASE \E k : k # 1 /\ Riding(o, ref, p, k)
    <3>1. PICK k : k # 1 /\ Riding(o, ref, p, k)
      BY <2>3
    <3>2. k \in Nat /\ k > 1
      BY <3>1 DEF Riding
    <3>3. /\ ref.SystemId \notin groups[o] /\ ref \notin failed[o] /\ ref \notin lost[o] /\ o \notin joined
          /\ \A q \in Systems \X Systems : \A j : Riding(o, ref, q, j) => q = p /\ j = k
          /\ \A r \in Systems : \A e \in inbox[r] : ~About(e, o, ref)
          /\ \A g \in got : ~(g[1] = o /\ g[3] = ref)
      BY <1>0, <1>2, <2>0, <3>1, OnLink
    <3>4. \A e \in E : ~About(e, o, ref)
      <4>1. (\E e \in E : About(e, o, ref)) => Riding(o, ref, p, 1)
        BY <1>3 DEF Riding, w
      <4> QED BY <1>2, <3>1, <3>3, <4>1
    <3>5. \A r \in Systems : \A e \in inbox'[r] : ~About(e, o, ref)
      BY <1>0, <1>1, <3>3, <3>4 DEF Types0
    <3> DEFINE n == k - 1
    <3>6. \A q \in Systems \X Systems : \A i : Riding(o, ref, q, i)' <=> q = p /\ i = n
      <4> SUFFICES ASSUME NEW q \in Systems \X Systems, NEW i
                   PROVE  Riding(o, ref, q, i)' <=> q = p /\ i = n
        OBVIOUS
      <4>1. Riding(o, ref, q, i)' <=>
               \/ q # p /\ Riding(o, ref, q, i)
               \/ q = p /\ i \in Nat \ {0} /\ Riding(o, ref, q, i + 1)
        BY <2>1
      <4>2. i \in Nat \ {0} => (i + 1 = k <=> i = n)
        BY <3>2
      <4>3. n \in Nat \ {0}
        BY <3>2
      <4> HIDE DEF n
      <4> QED BY <3>1, <3>3, <4>1, <4>2, <4>3
    <3>7. p[1] = s /\ p[2] = t
      OBVIOUS
    <3> DEFINE place == <<"wire", s, t, n>>
    <3> HIDE DEF n, p
    <3>8. \A y : IsAt(o, ref, y)' <=> y = place
      BY <1>1, <1>2, <3>3, <3>5, <3>6, <3>7 DEF IsAt
    <3> HIDE DEF place
    <3> QED BY <3>8 DEF OnePlace, IsAt
  <2>4. CASE ~(\E e \in E : About(e, o, ref)) /\ ~(\E k : k # 1 /\ Riding(o, ref, p, k))
    <3>1. \A i : ~Riding(o, ref, p, i)
      BY <1>3, <2>4 DEF Riding, w
    <3>2. \A q \in Systems \X Systems : \A i : Riding(o, ref, q, i)' <=> Riding(o, ref, q, i)
      BY <2>1, <3>1
    <3>3. \A r \in Systems : \A e : About(e, o, ref) => (e \in inbox'[r] <=> e \in inbox[r])
      BY <1>0, <1>1, <2>4 DEF Types0
    <3> QED BY <1>1, <2>0, <3>2, <3>3, ShareKept
  <2> QED BY <2>2, <2>3, <2>4
<1> QED BY <1>1, <1>5, <1>7, <1>8 DEF Ledger, Once

LEMMA BreakLedger ==
  ASSUME IInv, Ledger, NEW l \in Links, Break(l)
  PROVE  Ledger'
<1> DEFINE cut == {q \in l \X l : q[1] # q[2]}
           gone == UNION {OnWire(p) : p \in cut}
           taken(o) == {e.to : e \in {x \in gone : x.op = o /\ x.kind # "ResponseAsync"}}
<1>0. Types0 /\ Types1 /\ Formed /\ Fresh /\ Reported /\ Once
  BY DEF IInv, Ledger
<1>1. /\ UNCHANGED <<inbox, called, groups, err, failed, joined, got>>
      /\ up' = up \ {l} /\ breaks < MaxBreaks /\ breaks' = breaks + 1
      /\ wire' = [p \in Systems \X Systems |-> IF {p[1], p[2]} = l THEN <<>> ELSE wire[p]]
      /\ lost' = [o \in Ops |-> lost[o] \cup taken(o)]
  BY DEF Break, callVars, watchVars
<1>2. cut \subseteq Systems \X Systems /\ \A p \in cut : {p[1], p[2]} = l
  <2>1. l \subseteq Systems
    BY DEF Links
  <2> QED BY <2>1, LinkPair
<1>3. \A e \in gone : \E p \in cut : \E i \in 1 .. Len(wire[p]) : e \in wire[p][i]
  <2>1. \A p \in cut : DOMAIN wire[p] = 1 .. Len(wire[p])
    BY <1>0, <1>2, LenProperties DEF Types0
  <2> HIDE DEF cut
  <2> QED BY <2>1 DEF OnWire
<1>4. \A p \in Systems \X Systems : \A i \in 1 .. Len(wire[p]) : \A e \in wire[p][i] :
          {p[1], p[2]} = l => e \in gone
  <2> SUFFICES ASSUME NEW p \in Systems \X Systems, NEW i \in 1 .. Len(wire[p]), NEW e \in wire[p][i],
                      {p[1], p[2]} = l
               PROVE  e \in gone
    OBVIOUS
  <2>1. p[1] # p[2]
    BY <1>0 DEF Formed, Crosses
  <2>2. p \in cut
    BY <2>1
  <2>3. DOMAIN wire[p] = 1 .. Len(wire[p])
    BY <1>0, LenProperties DEF Types0
  <2>4. e \in OnWire(p)
    BY <2>3 DEF OnWire
  <2> HIDE DEF cut
  <2> QED BY <2>2, <2>4
<1> HIDE DEF cut, gone
<1>5. ASSUME NEW o \in Ops PROVE taken(o) \subseteq Meant[o]
  <2>1. \A e \in gone : e.op = o /\ e.kind # "ResponseAsync" => e.to \in Meant[o]
    BY <1>0, <1>2, <1>3 DEF Formed, Crosses
  <2> QED BY <2>1
<1>6. \A o \in Ops : lost'[o] = lost[o] \cup taken(o)
  <2> HIDE DEF taken
  <2> QED BY <1>1
<1>7. \A p \in Systems \X Systems : wire'[p] = IF {p[1], p[2]} = l THEN <<>> ELSE wire[p]
  BY <1>1
<1>8. Types1'
  <2>1. breaks' \in 0 .. MaxBreaks
    BY <1>0, <1>1, RoutingAssumption DEF Types1
  <2>2. \A o \in Ops : taken(o) \subseteq Meant[o] /\ taken(o) \subseteq AllRefs
    BY <1>5, MeantType
  <2> HIDE DEF taken
  <2>3. lost' \in [Ops -> SUBSET AllRefs]
    BY <1>0, <1>1, <2>2 DEF Types1
  <2>4. \A o \in Ops : failed'[o] \cup lost'[o] \subseteq Meant[o]
    BY <1>0, <1>1, <1>6, <2>2 DEF Types1
  <2> QED BY <1>0, <1>1, <2>1, <2>3, <2>4 DEF Types1
<1>9. Fresh'
  <2>1. ASSUME NEW o \in Ops \ called PROVE taken(o) = {}
    <3>1. \A e \in gone : e.op \in called
      BY <1>0, <1>2, <1>3 DEF Formed, Crosses
    <3> QED BY <2>1, <3>1
  <2> HIDE DEF taken
  <2> QED BY <1>0, <1>1, <1>6, <2>1 DEF Fresh
<1>10. Reported'
  BY <1>0, <1>1 DEF Reported
<1>11. Formed'
  <2>1. (\A p \in Systems \X Systems : \A i \in 1 .. Len(wire[p]) : \A e \in wire[p][i] : Crosses(p, e))'
    <3> SUFFICES ASSUME NEW p \in Systems \X Systems, NEW i \in 1 .. Len(wire'[p]), NEW e \in wire'[p][i]
                 PROVE  Crosses(p, e)'
      OBVIOUS
    <3>1. wire'[p] = wire[p]
      <4>1. Len(<<>>) = 0
        BY EmptySeq
      <4>2. wire'[p] # <<>>
        BY <4>1
      <4> QED BY <1>7, <4>2
    <3> QED BY <1>0, <1>1, <3>1 DEF Formed, Crosses
  <2>2. (\A r \in Systems : \A e \in inbox[r] : Delivered(r, e))'
    BY <1>0, <1>1 DEF Formed, Delivered
  <2> QED BY <2>1, <2>2 DEF Formed
<1>12. ASSUME NEW o \in called, NEW ref \in Meant[o] PROVE OnePlace(o, ref)'
  <2>0. OnePlace(o, ref) /\ o \in Ops
    BY <1>0 DEF Once, Types0
  <2>1. \A p \in Systems \X Systems : \A i :
           Riding(o, ref, p, i)' <=> Riding(o, ref, p, i) /\ {p[1], p[2]} # l
    <3>1. 1 .. Len(<<>>) = {}
      BY EmptySeq
    <3> QED BY <1>7, <3>1 DEF Riding
  <2>2. ref \in taken(o) <=> \E p \in Systems \X Systems : {p[1], p[2]} = l /\ \E i : Riding(o, ref, p, i)
    <3>1. ASSUME ref \in taken(o)
          PROVE  \E p \in Systems \X Systems : {p[1], p[2]} = l /\ \E i : Riding(o, ref, p, i)
      <4>1. PICK e \in gone : e.op = o /\ e.kind # "ResponseAsync" /\ e.to = ref
        BY <3>1
      <4>2. PICK p \in cut : \E i \in 1 .. Len(wire[p]) : e \in wire[p][i]
        BY <1>3
      <4>3. About(e, o, ref)
        BY <4>1 DEF About
      <4> QED BY <1>2, <4>2, <4>3 DEF Riding
    <3>2. ASSUME NEW p \in Systems \X Systems, {p[1], p[2]} = l, NEW i, Riding(o, ref, p, i)
          PROVE  ref \in taken(o)
      <4>1. PICK e \in wire[p][i] : About(e, o, ref) /\ i \in 1 .. Len(wire[p])
        BY <3>2 DEF Riding
      <4>2. Crosses(p, e) /\ e \in gone
        BY <1>0, <1>4, <3>2, <4>1 DEF Formed
      <4>3. e.op = o /\ e.to = ref /\ e.kind # "ResponseAsync"
        BY <4>1, <4>2 DEF About, Crosses, Crossing, Groups
      <4> QED BY <4>2, <4>3
    <3> QED BY <3>1, <3>2
  <2> HIDE DEF taken
  <2>3. CASE ref \in taken(o)
    <3>0. PICK p \in Systems \X Systems : {p[1], p[2]} = l /\ \E i : Riding(o, ref, p, i)
      BY <2>2, <2>3
    <3>1. PICK i : {p[1], p[2]} = l /\ Riding(o, ref, p, i)
      BY <3>0
    <3>2. /\ ref.SystemId \notin groups[o] /\ ref \notin failed[o] /\ o \notin joined
          /\ \A q \in Systems \X Systems : \A j : Riding(o, ref, q, j) => q = p /\ j = i
          /\ \A r \in Systems : \A e \in inbox[r] : ~About(e, o, ref)
          /\ \A g \in got : ~(g[1] = o /\ g[3] = ref)
      BY <1>0, <2>0, <3>1, OnLink
    <3>3. \A q \in Systems \X Systems : \A j : ~Riding(o, ref, q, j)'
      <4> SUFFICES ASSUME NEW q \in Systems \X Systems, NEW j, Riding(o, ref, q, j)' PROVE FALSE
        OBVIOUS
      <4>1. Riding(o, ref, q, j) /\ {q[1], q[2]} # l
        BY <2>1
      <4> QED BY <3>1, <3>2, <4>1
    <3>4. ref \in lost'[o]
      BY <1>6, <2>0, <2>3
    <3> DEFINE place == <<"lost">>
    <3>5. \A y : IsAt(o, ref, y)' <=> y = place
      BY <1>1, <3>2, <3>3, <3>4 DEF IsAt
    <3> HIDE DEF place
    <3> QED BY <3>5 DEF OnePlace, IsAt
  <2>4. CASE ref \notin taken(o)
    <3>1. \A p \in Systems \X Systems : \A i : Riding(o, ref, p, i)' <=> Riding(o, ref, p, i)
      <4> SUFFICES ASSUME NEW p \in Systems \X Systems, NEW i
                   PROVE  Riding(o, ref, p, i)' <=> Riding(o, ref, p, i)
        OBVIOUS
      <4>1. Riding(o, ref, p, i)' <=> Riding(o, ref, p, i) /\ {p[1], p[2]} # l
        BY <2>1
      <4> QED BY <2>2, <2>4, <4>1
    <3>2. ref \in lost'[o] <=> ref \in lost[o]
      BY <1>6, <2>0, <2>4
    <3> QED BY <1>1, <2>0, <3>1, <3>2, ShareKept
  <2> QED BY <2>3, <2>4
<1> QED BY <1>1, <1>8, <1>9, <1>10, <1>11, <1>12 DEF Ledger, Once

-----------------------------------------------------------------------------
(* The ledger is kept, and what it says.                                   *)

LEMMA InitLedger == Init => Ledger
<1> SUFFICES ASSUME Init PROVE Ledger
  OBVIOUS
<1>1. Types1
  <2>1. up \subseteq Links /\ breaks \in 0 .. MaxBreaks
    BY RoutingAssumption DEF Init
  <2>2. /\ groups = [o \in Ops |-> {}] /\ failed = [o \in Ops |-> {}] /\ lost = [o \in Ops |-> {}]
        /\ err = [o \in Ops |-> NoError]
    BY DEF Init
  <2> QED BY <2>1, <2>2 DEF Types1
<1>2. Formed
  BY EmptySeq DEF Init, Formed
<1>3. Fresh
  BY DEF Init, Fresh
<1>4. Reported
  BY DEF Init, Reported
<1>5. Once
  BY DEF Init, Once
<1> QED BY <1>1, <1>2, <1>3, <1>4, <1>5 DEF Ledger

LEMMA StepLedger == IInv /\ Ledger /\ [Next]_vars => Ledger'
<1> SUFFICES ASSUME IInv, Ledger, [Next]_vars PROVE Ledger'
  OBVIOUS
<1>1. ASSUME NEW o \in Ops, Router(o) PROVE Ledger'
  BY <1>1, CallGroupsLedger, RouteGroupLedger, RouteSendLedger, RouteWatchLedger, RouteOuterRequestLedger DEF Router
<1>2. ASSUME NEW s \in Systems, Handle(s) PROVE Ledger'
  <2>1. PICK e \in inbox[s] :
           \/ HandleSend(s, e) \/ HandleRequest(s, e) \/ HandleRequestAsync(s, e)
           \/ HandleProxyWatch(s, e) \/ HandleProxyJoin(s, e)
           \/ HandleProxyRequest(s, e) \/ HandleResponseAsync(s, e)
    BY <1>2 DEF Handle
  <2>2. CASE HandleSend(s, e) \/ HandleRequest(s, e) \/ HandleRequestAsync(s, e)
    BY <2>2, ActorLedger
  <2>3. CASE HandleProxyWatch(s, e) \/ HandleProxyJoin(s, e) \/ HandleProxyRequest(s, e)
    BY <2>3, HandleProxyWatchLedger, HandleProxyJoinLedger, HandleProxyRequestLedger
  <2>4. CASE HandleResponseAsync(s, e)
    BY <2>4, QuietSteps
  <2> QED BY <2>1, <2>2, <2>3, <2>4
<1>3. ASSUME NEW o \in Requests, ProxyTimeout(o) \/ CallerReceives(o) \/ CallerGivesUp(o) PROVE Ledger'
  BY <1>3, QuietSteps
<1>4. ASSUME NEW s \in Systems, NEW t \in Systems, Arrive(s, t) PROVE Ledger'
  BY <1>4, ArriveLedger
<1>5. ASSUME NEW l \in Links, Break(l) \/ Connect(l) PROVE Ledger'
  BY <1>5, BreakLedger, QuietSteps
<1>6. CASE UNCHANGED vars
  BY <1>6, QuietSteps
<1> QED BY <1>1, <1>2, <1>3, <1>4, <1>5, <1>6 DEF Next

LEMMA Kept == Spec => [](IInv /\ Ledger)
<1>1. Init => IInv /\ Ledger
  BY InitIInv, InitLedger
<1>2. IInv /\ Ledger /\ [Next]_vars => (IInv /\ Ledger)'
  BY StepIInv, StepLedger
<1> QED BY <1>1, <1>2, PTL DEF Spec

\* Of every actor's share in every operation called there is one copy, at any
\* time and in one place: a group still to be sent, an envelope on its way, an
\* actor that has it, a refusal by Send, a loss on a broken link, or the proxy
\* that had subscribed already.  Router sends each system its group only
\* (router.go:96-226) and every proxy passes on what it was given or joins it to
\* its subscription (watch_proxy.go, request_proxy.go), whatever the order of the
\* steps and however often links break.
THEOREM EveryShareIsInOnePlace == Spec => []Accounted
<1>1. IInv /\ Ledger => Accounted
  <2> SUFFICES ASSUME IInv, Ledger, NEW o \in called, NEW ref \in Meant[o]
               PROVE  Cardinality(Places(o, ref)) = 1
    BY DEF Accounted
  <2>1. PICK x : \A y : IsAt(o, ref, y) <=> y = x
    BY DEF Ledger, Once, OnePlace
  <2>2. Types0
    BY DEF IInv
  <2>3. \A y : y \in Places(o, ref) <=> y = x
    BY <2>1, <2>2, PlacesAre
  <2>4. Places(o, ref) = {x}
    BY <2>3
  <2> QED BY <2>4, FS_Singleton
<1> QED BY <1>1, Kept, PTL

\* The error of Router tells the truth about a refusal, and is silent about one
\* only when another system got its group of the same batch (router.go:96-226):
\* err is that of the last group to another system.
THEOREM ErrorsAreReported == Spec => []ErrorsReported
<1>1. IInv /\ Ledger => ErrorsReported
  <2> SUFFICES ASSUME Types0, Reported PROVE ErrorsReported
    BY DEF IInv, Ledger
  <2> QED BY DEF Types0, Reported, ErrorsReported
<1> QED BY <1>1, Kept, PTL

-----------------------------------------------------------------------------
(* Types, and room for one answer.                                         *)

Room == \A o \in Requests : Len(rspChan[o]) <= 1

\* An answer is only written to a channel that is empty.
LEMMA RoomKept ==
  ASSUME Types0, Room, NEW o \in Requests, NEW rsp \in Responses,
         \/ UNCHANGED rspChan
         \/ rspChan[o] = <<>> /\ rspChan' = [rspChan EXCEPT ![o] = Append(@, rsp)]
         \/ rspChan[o] # <<>> /\ rspChan' = [rspChan EXCEPT ![o] = Tail(@)]
  PROVE  Room'
<1> SUFFICES ASSUME NEW x \in Requests PROVE Len(rspChan'[x]) <= 1
  BY DEF Room
<1>1. Len(rspChan[x]) <= 1 /\ rspChan[x] \in Seq(Responses)
  BY DEF Room, Types0
<1>2. rspChan[o] = <<>> => Len(Append(rspChan[o], rsp)) = 1
  <2> HIDE DEF Responses
  <2>1. <<>> \in Seq(Responses) /\ Len(<<>>) = 0
    BY EmptySeq
  <2> QED BY <2>1, AppendProperties
<1>3. rspChan[o] # <<>> => Len(Tail(rspChan[o])) <= Len(rspChan[o])
  <2> HIDE DEF Responses
  <2>1. rspChan[o] \in Seq(Responses)
    BY DEF Types0
  <2> QED BY <2>1, HeadTailProperties, LenProperties
<1>4. Len(rspChan[o]) <= 1
  BY DEF Room
<1>5. rspChan'[x] = rspChan[x] \/ x = o
  BY DEF Types0
<1>6. CASE x = o
  BY <1>2, <1>3, <1>4, <1>6 DEF Types0
<1> QED BY <1>1, <1>5, <1>6

LEMMA StepRoom == IInv /\ Room /\ [Next]_vars => Room'
<1> SUFFICES ASSUME IInv, Room, [Next]_vars PROVE Room'
  OBVIOUS
<1>0. Types0 /\ InboxOK /\ Answers
  BY DEF IInv
<1>1. CASE UNCHANGED rspChan
  BY <1>1 DEF Room
<1>2. ASSUME NEW o \in Ops, Router(o) PROVE UNCHANGED rspChan
  BY <1>2 DEF Router, CallGroups, RouteGroup, RouteSend, RouteWatch, RouteOuterRequest, answerVars
<1>3. ASSUME NEW s \in Systems, NEW e \in inbox[s],
             \/ HandleSend(s, e) \/ HandleRequestAsync(s, e)
             \/ HandleProxyWatch(s, e) \/ HandleProxyJoin(s, e)
      PROVE  UNCHANGED rspChan
  BY <1>3 DEF HandleSend, HandleRequestAsync, HandleProxyWatch, HandleProxyJoin, answerVars
<1>4. ASSUME NEW s \in Systems, NEW e \in inbox[s],
             HandleRequest(s, e) \/ HandleProxyRequest(s, e) \/ HandleResponseAsync(s, e)
      PROVE  Room'
  <2>1. e.op \in Requests /\ (e.kind # "ResponseAsync" => rspChan[e.op] = <<>>)
    BY <1>0, <1>4 DEF InboxOK, Asked, Truthful, HandleRequest, HandleProxyRequest, HandleResponseAsync
  <2>2. e.to \in AllRefs /\ e.from \in AllRefs \cup {Nil}
    <3>1. e \in Envelopes
      BY <1>0 DEF Types0
    <3> QED BY <3>1 DEF Envelopes
  <2>3. PICK rsp \in Responses :
           \/ UNCHANGED rspChan
           \/ rspChan[e.op] = <<>> /\ rspChan' = [rspChan EXCEPT ![e.op] = Append(@, rsp)]
    <3>1. CASE HandleRequest(s, e)
      <4>1. Response(NoError, e.to) \in Responses
        BY <2>2 DEF Response, Responses
      <4> QED BY <2>1, <3>1, <4>1 DEF HandleRequest
    <3>2. CASE HandleProxyRequest(s, e)
      <4>1. Response(ErrorCodeMessageSendFail, Nil) \in Responses
        BY DEF Response, Responses
      <4> QED BY <2>1, <3>2, <4>1 DEF HandleProxyRequest
    <3>3. CASE HandleResponseAsync(s, e)
      <4>1. Response(NoError, e.from) \in Responses
        BY <2>2 DEF Response, Responses
      <4> QED BY <3>3, <4>1 DEF HandleResponseAsync, Callback
    <3> QED BY <1>4, <3>1, <3>2, <3>3
  <2> QED BY <1>0, <2>1, <2>3, RoomKept
<1>5. ASSUME NEW o \in Requests, ProxyTimeout(o) \/ CallerReceives(o) \/ CallerGivesUp(o) PROVE Room'
  <2>1. Response(ErrorCodeTimeout, Nil) \in Responses
    BY DEF Response, Responses
  <2>2. \/ UNCHANGED rspChan
        \/ /\ rspChan[o] = <<>>
           /\ rspChan' = [rspChan EXCEPT ![o] = Append(@, Response(ErrorCodeTimeout, Nil))]
        \/ rspChan[o] # <<>> /\ rspChan' = [rspChan EXCEPT ![o] = Tail(@)]
    BY <1>5 DEF ProxyTimeout, Callback, CallerReceives, CallerGivesUp
  <2> QED BY <1>0, <2>1, <2>2, RoomKept
<1>6. ASSUME NEW s \in Systems, NEW t \in Systems, Arrive(s, t) PROVE UNCHANGED rspChan
  BY <1>6 DEF Arrive, answerVars
<1>7. ASSUME NEW l \in Links, Break(l) \/ Connect(l) PROVE UNCHANGED rspChan
  BY <1>7 DEF Break, Connect, answerVars
<1>8. CASE UNCHANGED vars
  BY <1>1, <1>8 DEF vars, answerVars
<1>9. ASSUME NEW s \in Systems, Handle(s) PROVE Room'
  BY <1>1, <1>3, <1>4, <1>9 DEF Handle
<1> QED BY <1>1, <1>2, <1>5, <1>6, <1>7, <1>8, <1>9 DEF Next

-----------------------------------------------------------------------------
(* Legal slots, and subscriptions that are there to be joined.             *)

LEMMA HashNat ==
  ASSUME NEW i \in ActorId
  PROVE  Hash[i] \in Nat
BY PlacementAssumption

\* How many systems declare a type.
LEMMA SystemCount ==
  ASSUME NEW t, SystemIds(t) # <<>>
  PROVE  Len(SystemIds(t)) \in Nat \ {0}
<1> DEFINE D == {i \in DOMAIN SystemConfigs : t \in SystemConfigs[i].ActorTypes}
           n == Cardinality(D)
           configs == Sub(SystemConfigs, D)
<1>1. t \in Types /\ SystemIds(t) = actorType2SystemIds[t]
  BY DEF SystemIds
<1>2. n \in Nat
  <2> DEFINE Config == [SystemId : Nat \ {0}, ActorTypes : SUBSET Types]
  <2>1. SystemConfigs \in Seq(Config)
    BY PlacementAssumption
  <2> HIDE DEF Config
  <2>2. DOMAIN SystemConfigs = 1 .. Len(SystemConfigs) /\ Len(SystemConfigs) \in Nat
    BY <2>1, LenProperties
  <2>3. IsFiniteSet(DOMAIN SystemConfigs)
    BY <2>2, FS_Interval
  <2>4. D \subseteq DOMAIN SystemConfigs
    OBVIOUS
  <2> HIDE DEF D
  <2> QED BY <2>3, <2>4, FS_Subset, FS_CardinalityType
<1>3. SystemIds(t) = [i \in 1 .. n |-> configs[i].SystemId]
  <2>1. DOMAIN configs = 1 .. n
    BY DEF Sub
  <2>2. actorType2SystemIds[t] = [i \in DOMAIN configs |-> configs[i].SystemId]
    BY <1>1 DEF actorType2SystemIds
  <2> HIDE DEF configs, n
  <2> QED BY <1>1, <2>1, <2>2
<1> HIDE DEF configs, n
<1> DEFINE f == [i \in 1 .. n |-> configs[i].SystemId]
<1>4. Len(f) = n
  BY <1>2
<1>5. CASE n = 0
  <2>1. 1 .. n = {}
    BY <1>5
  <2>2. f = <<>>
    BY <2>1
  <2> QED BY <1>3, <2>2
<1> QED BY <1>2, <1>3, <1>4, <1>5

LEMMA SlotLegal ==
  ASSUME NEW r \in AllRefs
  PROVE  r.GroupSlot \in 1 .. Slots - 1
<1>1. PICK p \in Systems \X (Systems \cup {0})
                 \X (Types \cup {RequestProxyActorType, WatchProxyActorType}) \X ActorId :
             r = CreateActorRefEx(p[1], p[2], p[3], p[4])
  BY DEF AllRefs
<1>2. Hash[p[4]] \in Nat
  BY HashNat
<1> DEFINE ids == SystemIds(p[3])
           h == IF ids = <<>> THEN Hash[p[4]] ELSE Hash[p[4]] \div Len(ids)
<1>3. h \in Nat
  <2>1. ids # <<>> => Len(ids) \in Nat \ {0}
    BY SystemCount
  <2> HIDE DEF ids
  <2>2. ids # <<>> => Hash[p[4]] \div Len(ids) \in Nat
    BY <1>2, <2>1
  <2> QED BY <1>2, <2>2
<1>4. r.GroupSlot = GroupSlot(h)
  BY <1>1 DEF CreateActorRefEx
<1> HIDE DEF h
<1> QED BY <1>3, <1>4, SlotInRange

JoinedOK ==
    \A o \in joined : <<GetWatchProxyActorRef(At[o], TheRef(o)), WatchType[o]>> \in subscribed

LEMMA JoinedKept == Ledger /\ JoinedOK /\ [Next]_vars => JoinedOK'
<1> SUFFICES ASSUME Ledger, JoinedOK, [Next]_vars PROVE JoinedOK'
  OBVIOUS
<1>1. CASE UNCHANGED watchVars
  BY <1>1 DEF JoinedOK, watchVars
<1>2. ASSUME NEW s \in Systems, NEW e \in inbox[s], HandleProxyWatch(s, e) PROVE JoinedOK'
  BY <1>2 DEF HandleProxyWatch, JoinedOK
<1>3. ASSUME NEW s \in Systems, NEW e \in inbox[s], HandleProxyJoin(s, e) PROVE JoinedOK'
  <2>1. s = At[e.op] /\ e.to = GetWatchProxyActorRef(s, TheRef(e.op))
    BY <1>3 DEF Ledger, Formed, Delivered, HandleProxyJoin
  <2> QED BY <1>3, <2>1 DEF HandleProxyJoin, Subscription, JoinedOK
<1>4. ASSUME NEW s \in Systems, Handle(s) PROVE JoinedOK'
  BY <1>1, <1>2, <1>3, <1>4
     DEF Handle, HandleSend, HandleRequest, HandleRequestAsync, HandleProxyRequest, HandleResponseAsync
<1>5. ASSUME NEW o \in Ops, Router(o) PROVE UNCHANGED watchVars
  BY <1>5 DEF Router, CallGroups, RouteGroup, RouteSend, RouteWatch, RouteOuterRequest
<1>6. ASSUME NEW o \in Requests, ProxyTimeout(o) \/ CallerReceives(o) \/ CallerGivesUp(o)
      PROVE  UNCHANGED watchVars
  BY <1>6 DEF ProxyTimeout, CallerReceives, CallerGivesUp
<1>7. ASSUME NEW s \in Systems, NEW t \in Systems, Arrive(s, t) PROVE UNCHANGED watchVars
  BY <1>7 DEF Arrive
<1>8. ASSUME NEW l \in Links, Break(l) \/ Connect(l) PROVE UNCHANGED watchVars
  BY <1>8 DEF Break, Connect
<1>9. CASE UNCHANGED vars
  BY <1>1, <1>9 DEF vars
<1> QED BY <1>1, <1>4, <1>5, <1>6, <1>7, <1>8, <1>9 DEF Next

\* The types of the routers, the links and the proxies: an envelope on a link is
\* for the system at the other end, one given to LocalRouter is for an actor of
\* that system (router.go:96-226), in a legal slot (router.go:67-74); a response
\* channel, of capacity one, never holds more than one answer
\* (request_proxy.go:36); and a watch that joined has a subscription of its own
\* proxy and type to join (watch_proxy.go:126-129).
THEOREM RoutingTypes == Spec => []TypeOK
<1>1. Init => Room
  BY EmptySeq DEF Init, Room
<1>2. IInv /\ Ledger /\ Room /\ JoinedOK => TypeOK
  <2> SUFFICES ASSUME IInv, Ledger, Room, JoinedOK PROVE TypeOK
    OBVIOUS
  <2>1. Types0 /\ InboxOK /\ WireOK /\ Answers /\ Types1 /\ Formed
    BY DEF IInv, Ledger
  <2>2. ASSUME NEW s \in Systems, NEW t \in Systems, NEW i \in DOMAIN wire[<<s, t>>], NEW e \in wire[<<s, t>>][i]
        PROVE  WellAddressed(e, t) /\ s # t
    <3> DEFINE p == <<s, t>>
    <3>1. p \in Systems \X Systems /\ p[1] = s /\ p[2] = t
      OBVIOUS
    <3>2. i \in 1 .. Len(wire[p]) /\ e \in wire[p][i]
      BY <2>1, <3>1, LenProperties DEF Types0
    <3> HIDE DEF p
    <3>3. Crosses(p, e) /\ e.to.SystemId = p[2]
      BY <2>1, <3>1, <3>2 DEF Formed, WireOK
    <3>4. wire[p] \in Seq(SUBSET Envelopes)
      BY <2>1, <3>1 DEF Types0
    <3>5. wire[p][i] \in SUBSET Envelopes
      <4> HIDE DEF Envelopes
      <4> QED BY <3>2, <3>4
    <3>6. e.to \in AllRefs
      BY <3>2, <3>5 DEF Envelopes
    <3> QED BY <3>1, <3>3, <3>6, SlotLegal DEF Crosses, WellAddressed
  <2>3. ASSUME NEW s \in Systems, NEW e \in inbox[s] PROVE WellAddressed(e, s)
    <3>1. e.to \in AllRefs
      BY <2>1 DEF Types0, Envelopes
    <3> QED BY <2>1, <3>1, SlotLegal DEF Formed, Delivered, InboxOK, WellAddressed
  <2>4. pending \subseteq called \cap Requests
    BY <2>1 DEF Types0, Answers
  <2>5. \A o \in Requests : Len(rspChan[o]) <= 1
    BY DEF Room
  <2>6. called \subseteq Ops
    BY <2>1 DEF Types0
  <2>7. joined \subseteq called
    BY DEF Ledger, Fresh
  <2> QED BY <2>1, <2>2, <2>3, <2>4, <2>5, <2>6, <2>7 DEF TypeOK, Types1, JoinedOK
<1>3. IInv /\ Room /\ [Next]_vars => Room'
  BY StepRoom
<1>4. Init => JoinedOK
  BY DEF Init, JoinedOK
<1> QED BY <1>1, <1>2, <1>3, <1>4, JoinedKept, Kept, PTL DEF Spec
================================================================================
