------------------------------- MODULE Placement -------------------------------
(***************************************************************************)
(* Where an actor lives (router.go): the reference that CreateActorRefEx   *)
(* makes of a type and an id, and the references of the two kinds of proxy,*)
(* whose id names the type and the id of the actor they stand for.         *)
(*                                                                         *)
(* The hash of an id (four bytes, each the exclusive or of every fourth    *)
(* byte of the id) is the parameter Hash: only its range matters here, and *)
(* that it is the same on every system.                                    *)
(***************************************************************************)
EXTENDS Selection

CONSTANTS
    SystemConfigs,  \* ClusterConfig.SystemConfigs, the same on every system:
                    \* a sequence of [SystemId, ActorTypes]
    Types, Ids,     \* the actor types and ids of the application
    Hash,           \* the hash of an id
    Slots,          \* number of values of a GroupSlot (2^16)
    Nil             \* the nil reference

RequestProxyActorType == "RequestProxy"
WatchProxyActorType   == "WatchProxy"

ProxyId  == Types \X Ids          \* "<type>-<id>"
ActorId  == Ids \cup ProxyId
Systems  == {SystemConfigs[i].SystemId : i \in DOMAIN SystemConfigs}

ASSUME PlacementAssumption ==
    /\ SystemConfigs \in Seq([SystemId : Nat \ {0}, ActorTypes : SUBSET Types])
    /\ \A i, j \in DOMAIN SystemConfigs :
          SystemConfigs[i].SystemId = SystemConfigs[j].SystemId => i = j
    /\ Hash \in [ActorId -> Nat]
    /\ Slots \in Nat /\ Slots > 1
    /\ Ids \cap ProxyId = {}
    /\ {RequestProxyActorType, WatchProxyActorType} \cap Types = {}

(* the systems that declare a type, in the order of the configuration *)
actorType2SystemIds ==
    [t \in Types |->
        LET configs == Sub(SystemConfigs,
                           {i \in DOMAIN SystemConfigs : t \in SystemConfigs[i].ActorTypes})
        IN  [i \in DOMAIN configs |-> configs[i].SystemId]]

SystemIds(t) == IF t \in Types THEN actorType2SystemIds[t] ELSE <<>>

(* mutant: the slot that wraps stays zero *)
MutGroupSlot(h) == ((h % Slots) + 1) % Slots

GroupSlot(h) ==
    LET slot == ((h % Slots) + 1) % Slots IN IF slot = 0 THEN 1 ELSE slot

(* mutant: prefers the local system when it declares the type *)
MutCreateActorRefEx(local, systemId, type, id) ==
    LET ids == SystemIds(type) IN
    [SystemId  |-> IF systemId # 0 THEN systemId
                   ELSE IF ids = <<>> \/ \E i \in DOMAIN ids : ids[i] = local THEN local
                   ELSE ids[(Hash[id] % Len(ids)) + 1],
     GroupSlot |-> GroupSlot(IF ids = <<>> THEN Hash[id] ELSE Hash[id] \div Len(ids)),
     ActorType |-> type,
     ActorId   |-> id]

(* the reference that system local makes; systemId 0 leaves the choice to the
   hash *)
CreateActorRefEx(local, systemId, type, id) ==
    LET ids == SystemIds(type) IN
    [SystemId  |-> IF systemId # 0 THEN systemId
                   ELSE IF ids = <<>> THEN local ELSE ids[(Hash[id] % Len(ids)) + 1],
     GroupSlot |-> GroupSlot(IF ids = <<>> THEN Hash[id] ELSE Hash[id] \div Len(ids)),
     ActorType |-> type,
     ActorId   |-> id]

CreateActorRef(local, type, id) == CreateActorRefEx(local, 0, type, id)

GetRequestProxyActorRef(local, ref) ==
    CreateActorRefEx(local, local, RequestProxyActorType, <<ref.ActorType, ref.ActorId>>)

GetWatchProxyActorRef(local, ref) ==
    CreateActorRefEx(local, local, WatchProxyActorType, <<ref.ActorType, ref.ActorId>>)

(* the actor a watch proxy stands for, from the id of the proxy *)
GetWatcheeActorRef(local, actorId) ==
    IF actorId \notin ProxyId THEN Nil ELSE CreateActorRef(local, actorId[1], actorId[2])
================================================================================
