------------------------------- MODULE MCRouting -------------------------------
EXTENDS Routing, TLC

CONSTANTS batch, notify, send, watch, watch2, watch3, outer, outer2, ask, ask2, near

a == <<"a">>
b == <<"b">>
MCIds == {a, b}
MCConfigs == <<[SystemId |-> 1, ActorTypes |-> {"shard"}],
               [SystemId |-> 2, ActorTypes |-> {"shard", "single"}],
               [SystemId |-> 3, ActorTypes |-> {}]>>

(* a shard a lives on system 1, a shard b on system 2 *)
MCHash == [id \in ActorId |-> IF id = a THEN 4 ELSE IF id = b THEN 7 ELSE 0]

Actor(type, id) == {[at |-> 0, type |-> type, id |-> id]}
In(s, type, id) == {[at |-> s, type |-> type, id |-> id]}

AllKind == (batch :> "Batch") @@ (notify :> "Notify") @@ (send :> "Send")
        @@ (watch :> "Watch") @@ (watch2 :> "Watch") @@ (outer :> "OuterWatch")
        @@ (watch3 :> "Watch") @@ (outer2 :> "OuterWatch")
        @@ (ask :> "OuterRequest") @@ (ask2 :> "OuterRequest") @@ (near :> "OuterRequest")
AllAt == (batch :> 1) @@ (notify :> 2) @@ (send :> 1) @@ (watch :> 3) @@ (watch2 :> 1) @@ (outer :> 1)
      @@ (ask :> 3) @@ (ask2 :> 3) @@ (near :> 2)
      @@ (watch3 :> 3) @@ (outer2 :> 3)
AllTargets ==
    (batch :> Actor("shard", a) \cup Actor("shard", b) \cup In(3, "shard", a))
 @@ (notify :> Actor("shard", a) \cup Actor("other", b))
 @@ (send :> Actor("single", b))
 @@ (watch :> Actor("shard", a))
 @@ (watch2 :> Actor("shard", a))
 @@ (outer :> In(2, "shard", a))   \* not where the hash places it
 @@ (watch3 :> Actor("shard", a)) @@ (outer2 :> Actor("shard", a))
 @@ (ask :> Actor("shard", a)) @@ (ask2 :> In(2, "shard", a))
 @@ (near :> Actor("single", a))

(* watch and outer2 subscribe to one type at one proxy, watch3 to another *)
MCWatchType == [o \in Ops |-> IF o = watch3 THEN 9 ELSE 8]

MCKind == [o \in Ops |-> AllKind[o]]
MCAt == [o \in Ops |-> AllAt[o]]
MCTargets == [o \in Ops |-> AllTargets[o]]
================================================================================
