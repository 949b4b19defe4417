--------------------------- MODULE ClusterNetProofs ---------------------------
(***************************************************************************)
(* Proofs about ClusterNet, for any number of systems, any timeouts and any *)
(* number of faults: the roles agree, the count is the number of a system's *)
(* own links, and start() returns without an error only when all of them    *)
(* are counted.                                                            *)
(***************************************************************************)
EXTENDS ClusterNet, FiniteSetTheorems, TLAPS

-----------------------------------------------------------------------------
(* Roles, and sets of systems.                                             *)

LEMMA Roles ==
  ASSUME NEW c \in Systems, NEW s \in Systems
  PROVE  /\ passive(c, s) <=> s < c
         /\ s \in Dials(c) <=> s < c
         /\ s < c => RunsServer(s)
<1>0. systemCount \in Nat
  BY ClusterAssumption
<1>1. passive(c, s) <=> s < c
  BY <1>0 DEF passive, Systems
<1>2. s \in Dials(c) <=> s < c
  BY <1>0 DEF Dials, Systems
<1>3. s < c => RunsServer(s)
  BY <1>0 DEF RunsServer, Systems
<1> QED BY <1>1, <1>2, <1>3

LEMMA FiniteSystems ==
  /\ IsFiniteSet(Systems)
  /\ Cardinality(Systems) = systemCount
  /\ \A T \in SUBSET Systems : IsFiniteSet(T) /\ Cardinality(T) \in Nat
<1>1. IsFiniteSet(Systems) /\ Cardinality(Systems) = systemCount
  BY FS_Interval, ClusterAssumption DEF Systems
<1>2. ASSUME NEW T \in SUBSET Systems
      PROVE  IsFiniteSet(T) /\ Cardinality(T) \in Nat
  BY <1>1, FS_Subset, FS_CardinalityType
<1> QED BY <1>1, <1>2

-----------------------------------------------------------------------------
(* The inductive invariant.                                                *)

\* TypeOK, but for the bound of the count.
Types ==
    /\ stage \in [Systems -> {"down", "waiting", "connected", "timedOut"}]
    /\ listener \in [Systems -> {"none", "starting", "accepting", "deaf", "refusing"}]
    /\ connectedSystemCount \in [Systems -> Nat]
    /\ cli \in [Systems -> [Systems -> CliState]]
    /\ conn \in [Systems -> [Systems -> ConnState]]
    /\ registerResponseChan \in [Systems -> [Systems -> BOOLEAN]]
    /\ session \in [Systems -> [Systems -> {"none", "live", "stale"}]]
    /\ late \in [Systems -> [Systems -> Nat]]
    /\ faults \in 0 .. MaxFaults

\* A system that is down has nothing, and nothing can reach it.
DownIsEmpty ==
    \A s \in Systems : stage[s] = "down" =>
        /\ listener[s] = "none" /\ connectedSystemCount[s] = 0
        /\ \A i \in Systems :
              /\ cli[s][i] = "none" /\ conn[s][i] = "none"
              /\ session[i][s] = "none" /\ conn[i][s] \in {"none", "ended"}
              /\ late[i][s] = 0

IInv == Types /\ DownIsEmpty /\ RolesAgree /\ CountIsOwnLinks

LEMMA InitIInv == Init => IInv
<1> SUFFICES ASSUME Init PROVE IInv
  OBVIOUS
<1>1. Types
  BY ClusterAssumption DEF Init, Types, Pairs, CliState, ConnState
<1>2. DownIsEmpty /\ RolesAgree
  BY DEF Init, Pairs, DownIsEmpty, RolesAgree
<1>3. CountIsOwnLinks
  BY DEF Init, CountIsOwnLinks
<1> QED BY <1>1, <1>2, <1>3 DEF IInv

-----------------------------------------------------------------------------
LEMMA TypesPreserved ==
  ASSUME IInv, Next
  PROVE  Types'
<1> USE DEF IInv, Types, CliState, ConnState, linkVars
<1> USE ClusterAssumption
<1>1. ASSUME NEW s \in Systems, Start(s)
      PROVE  Types'
  BY <1>1 DEF Start, Add
<1>2. ASSUME NEW s \in Systems, Wait(s) PROVE Types'
  BY <1>2 DEF Wait, StartSucceeds, StartTimesOut
<1>3. ASSUME NEW s \in Systems, Crash(s) PROVE Types'
  BY <1>3 DEF Crash, Fault, Stale, Unread
<1>4. ASSUME NEW s \in Systems, Listen(s) \/ ListenFails(s) \/ AcceptFails(s) PROVE Types'
  <2>1. CASE Listen(s)
    BY <2>1 DEF Listen
  <2>2. CASE ListenFails(s)
    BY <2>2 DEF ListenFails, Fault
  <2>3. CASE AcceptFails(s)
    BY <2>3 DEF AcceptFails, Fault
  <2> QED BY <1>4, <2>1, <2>2, <2>3
<1>5. ASSUME NEW c \in Systems, NEW s \in Systems, ClientStep(c, s) PROVE Types'
  <2>1. CASE CountDown(c, s)
    <3>1. c # s /\ stage[c] # "down" /\ connectedSystemCount[c] - 1 \in Nat
      <4>1. stage[c] # "down" /\ s \in Clients(c)
        BY <2>1 DEF CountDown, DownIsEmpty, Clients
      <4>2. Cardinality(Clients(c)) \in Nat /\ Cardinality(Sessions(c)) \in Nat
        BY FiniteSystems DEF Clients, Sessions
      <4>3. connectedSystemCount[c] = 1 + Cardinality(Sessions(c)) + Cardinality(Clients(c))
        BY <4>1 DEF CountIsOwnLinks
      <4>4. c # s
        BY <2>1 DEF CountDown, RolesAgree, Systems
      <4> QED BY <4>1, <4>2, <4>3, <4>4
    <3> QED BY <2>1, <3>1 DEF CountDown, Subtract, Cli
  <2>2. CASE Dial(c, s)
    BY <2>2 DEF Dial, Cli, Conn
  <2>3. CASE AwaitResponse(c, s)
    BY <2>3 DEF AwaitResponse, Cli
  <2>4. CASE CountUp(c, s)
    BY <2>4 DEF CountUp, Cli, Add
  <2>5. CASE AwaitDisconnect(c, s)
    BY <2>5 DEF AwaitDisconnect, Cli, Conn
  <2>6. CASE ReadyDisconnect(c, s)
    BY <2>6 DEF ReadyDisconnect, Cli, Conn
  <2> QED BY <1>5, <2>1, <2>2, <2>3, <2>4, <2>5, <2>6 DEF ClientStep
<1>6. ASSUME NEW c \in Systems, NEW s \in Systems, Deliver(c, s) PROVE Types'
  <2>1. CASE Accept(c, s)
    BY <2>1 DEF Accept, Conn
  <2>2. CASE Register(c, s)
    BY <2>2 DEF Register, Conn, Add
  <2>3. CASE RefuseRegister(c, s)
    BY <2>3 DEF RefuseRegister, Conn
  <2>4. CASE ReceiveAnswer(c, s)
    BY <2>4 DEF ReceiveAnswer, Conn
  <2> QED BY <1>6, <2>1, <2>2, <2>3, <2>4 DEF Deliver
<1>7. ASSUME NEW c \in Systems, NEW s \in Systems, ServerOnDisconnect(c, s) PROVE Types'
  <2>1. connectedSystemCount[s] - 1 \in Nat
    <3>1. stage[s] # "down"
      BY <1>7 DEF ServerOnDisconnect, DownIsEmpty
    <3>2. Cardinality(Clients(s)) \in Nat /\ Cardinality(Sessions(s)) \in Nat
      BY FiniteSystems DEF Clients, Sessions
    <3> QED BY <3>1, <3>2 DEF CountIsOwnLinks
  <2> QED BY <1>7, <2>1 DEF ServerOnDisconnect, Subtract
<1>8. ASSUME NEW c \in Systems, NEW s \in Systems, Break(c, s) PROVE Types'
  BY <1>8 DEF Break, Fault, Conn, Stale, Unread
<1>9. ASSUME NEW c \in Systems, NEW s \in Systems, RegisterLate(c, s) PROVE Types'
  BY <1>9 DEF RegisterLate, Add
<1>10. ASSUME NEW c \in Systems, NEW s \in Systems, DropLate(c, s) PROVE Types'
  BY <1>10 DEF DropLate
<1> QED BY <1>1, <1>2, <1>3, <1>4, <1>5, <1>6, <1>7, <1>8, <1>9, <1>10 DEF Next

LEMMA DownPreserved ==
  ASSUME IInv, Next
  PROVE  DownIsEmpty'
<1> USE DEF Types, DownIsEmpty, linkVars
<1>0. Types /\ DownIsEmpty /\ Types' /\ RolesAgree
  BY TypesPreserved DEF IInv
<1> USE <1>0
<1>1. ASSUME NEW s \in Systems, Start(s)
      PROVE  DownIsEmpty'
  <2>1. ASSUME NEW t \in Systems, stage'[t] = "down"
        PROVE  t # s /\ stage[t] = "down" /\ listener'[t] = listener[t]
               /\ connectedSystemCount'[t] = connectedSystemCount[t]
               /\ \A i \in Systems : cli'[t][i] = cli[t][i]
    BY <1>1, <2>1 DEF Start, Add
  <2>2. conn' = conn /\ session' = session /\ late' = late
    BY <1>1 DEF Start
  <2> QED BY <2>1, <2>2
<1>2. ASSUME NEW s \in Systems, Wait(s) PROVE DownIsEmpty'
  <2>1. /\ \A t \in Systems : stage'[t] = "down" => stage[t] = "down"
        /\ UNCHANGED <<listener, connectedSystemCount, linkVars>>
    <3>1. CASE StartSucceeds(s)
      BY <3>1 DEF StartSucceeds
    <3>2. CASE StartTimesOut(s)
      BY <3>2 DEF StartTimesOut
    <3> QED BY <1>2, <3>1, <3>2 DEF Wait
  <2> QED BY <2>1
<1>3. ASSUME NEW s \in Systems, Crash(s) PROVE DownIsEmpty'
  BY <1>3 DEF Crash, Stale, Unread
<1>4. ASSUME NEW s \in Systems, Listen(s) \/ ListenFails(s) \/ AcceptFails(s)
      PROVE  DownIsEmpty'
  <2>1. CASE Listen(s)
    BY <2>1 DEF Listen
  <2>2. CASE ListenFails(s)
    BY <2>2 DEF ListenFails
  <2>3. CASE AcceptFails(s)
    BY <2>3 DEF AcceptFails
  <2> QED BY <1>4, <2>1, <2>2, <2>3
<1>5. ASSUME NEW c \in Systems, NEW s \in Systems, ClientStep(c, s)
      PROVE  DownIsEmpty'
  <2>1. CASE Dial(c, s)
    BY <2>1 DEF Dial, Cli, Conn
  <2>2. CASE AwaitResponse(c, s)
    BY <2>2 DEF AwaitResponse, Cli
  <2>3. CASE CountUp(c, s)
    BY <2>3 DEF CountUp, Cli, Add
  <2>4. CASE AwaitDisconnect(c, s)
    BY <2>4 DEF AwaitDisconnect, Cli, Conn
  <2>5. CASE ReadyDisconnect(c, s)
    BY <2>5 DEF ReadyDisconnect, Cli, Conn
  <2>6. CASE CountDown(c, s)
    BY <2>6 DEF CountDown, Cli, Subtract
  <2> QED BY <1>5, <2>1, <2>2, <2>3, <2>4, <2>5, <2>6 DEF ClientStep
<1>6. ASSUME NEW c \in Systems, NEW s \in Systems, Deliver(c, s)
      PROVE  DownIsEmpty'
  <2>1. CASE Accept(c, s)
    BY <2>1 DEF Accept, Conn
  <2>2. CASE Register(c, s)
    BY <2>2 DEF Register, Conn, Add
  <2>3. CASE RefuseRegister(c, s)
    BY <2>3 DEF RefuseRegister, Conn
  <2>4. CASE ReceiveAnswer(c, s)
    BY <2>4 DEF ReceiveAnswer, Conn
  <2> QED BY <1>6, <2>1, <2>2, <2>3, <2>4 DEF Deliver
<1>7. ASSUME NEW c \in Systems, NEW s \in Systems, ServerOnDisconnect(c, s)
      PROVE  DownIsEmpty'
  BY <1>7 DEF ServerOnDisconnect, Subtract
<1>8. ASSUME NEW c \in Systems, NEW s \in Systems, Break(c, s) PROVE DownIsEmpty'
  BY <1>8 DEF Break, Conn, Stale, Unread
<1>9. ASSUME NEW c \in Systems, NEW s \in Systems, RegisterLate(c, s) \/ DropLate(c, s)
      PROVE  DownIsEmpty'
  <2>1. CASE RegisterLate(c, s)
    <3>1. stage[s] # "down"
      BY <2>1 DEF RegisterLate
    <3>2. UNCHANGED <<stage, listener, cli, conn>>
      BY <2>1 DEF RegisterLate
    <3>3. ASSUME NEW t \in Systems, t # s
          PROVE  connectedSystemCount'[t] = connectedSystemCount[t]
      BY <2>1, <3>3 DEF RegisterLate, Add
    <3>4. ASSUME NEW i \in Systems, NEW t \in Systems, t # s
          PROVE  session'[i][t] = session[i][t] /\ late'[i][t] = late[i][t]
      BY <2>1, <3>4 DEF RegisterLate
    <3>5. ASSUME NEW t \in Systems, stage'[t] = "down"
          PROVE  t # s /\ stage[t] = "down"
      BY <3>1, <3>2, <3>5
    <3> QED BY <3>2, <3>3, <3>4, <3>5
  <2>2. CASE DropLate(c, s)
    <3>1. stage[s] # "down"
      BY <2>2 DEF DropLate
    <3>2. UNCHANGED <<stage, listener, connectedSystemCount, cli, conn, session>>
      BY <2>2 DEF DropLate
    <3>3. ASSUME NEW i \in Systems, NEW t \in Systems, t # s
          PROVE  late'[i][t] = late[i][t]
      BY <2>2, <3>3 DEF DropLate
    <3>4. ASSUME NEW t \in Systems, stage'[t] = "down"
          PROVE  t # s /\ stage[t] = "down"
      BY <3>1, <3>2, <3>4
    <3> QED BY <3>2, <3>3, <3>4
  <2> QED BY <1>9, <2>1, <2>2
<1> QED BY <1>1, <1>2, <1>3, <1>4, <1>5, <1>6, <1>7, <1>8, <1>9 DEF Next

LEMMA RolesPreserved ==
  ASSUME IInv, Next
  PROVE  RolesAgree'
<1> DEFINE Near == \A c, s \in Systems :
             /\ cli[c][s] # "none" \/ conn[c][s] # "none" \/ session[c][s] # "none" \/ late[c][s] > 0
                   => s < c
             /\ stage[c] # "down" /\ s < c => cli[c][s] # "none"
<1>0. Types /\ DownIsEmpty /\ Types' /\ Near
  BY TypesPreserved DEF IInv, RolesAgree
<1> SUFFICES Near'
  <2>1. ASSUME Near', NEW c \in Systems, NEW s \in Systems
        PROVE  /\ \/ cli'[c][s] # "none" \/ conn'[c][s] # "none"
                  \/ session'[c][s] # "none" \/ late'[c][s] > 0
                  => s < c
               /\ cli'[c][s] # "none" => RunsServer(s) /\ passive(c, s) /\ ~passive(s, c)
               /\ stage'[c] # "down" /\ s < c => cli'[c][s] # "none"
    <3>1. \/ cli'[c][s] # "none" \/ conn'[c][s] # "none"
          \/ session'[c][s] # "none" \/ late'[c][s] > 0
          => s < c
      BY <2>1
    <3>2. s < c => ~(c < s)
      BY ClusterAssumption DEF Systems
    <3> QED BY <2>1, <3>1, <3>2, Roles
  <2> QED BY <2>1 DEF RolesAgree
<1> USE <1>0 DEF Types, linkVars
<1>1. ASSUME NEW s \in Systems, Start(s)
      PROVE  Near'
  BY <1>1, Roles DEF Start
<1>2. ASSUME NEW s \in Systems, Wait(s) PROVE Near'
  BY <1>2 DEF Wait, StartSucceeds, StartTimesOut
<1>3. ASSUME NEW s \in Systems, Crash(s) PROVE Near'
  BY <1>3 DEF Crash, Stale, Unread
<1>4. ASSUME NEW s \in Systems, Listen(s) \/ ListenFails(s) \/ AcceptFails(s)
      PROVE  Near'
  BY <1>4 DEF Listen, ListenFails, AcceptFails
<1>5. ASSUME NEW c \in Systems, NEW s \in Systems, ClientStep(c, s)
      PROVE  Near'
  <2>1. CASE Dial(c, s)
    BY <2>1 DEF Dial, Cli, Conn
  <2>2. CASE AwaitResponse(c, s)
    BY <2>2 DEF AwaitResponse, Cli
  <2>3. CASE CountUp(c, s)
    BY <2>3 DEF CountUp, Cli
  <2>4. CASE AwaitDisconnect(c, s)
    BY <2>4 DEF AwaitDisconnect, Cli, Conn
  <2>5. CASE ReadyDisconnect(c, s)
    BY <2>5 DEF ReadyDisconnect, Cli, Conn
  <2>6. CASE CountDown(c, s)
    BY <2>6 DEF CountDown, Cli
  <2> QED BY <1>5, <2>1, <2>2, <2>3, <2>4, <2>5, <2>6 DEF ClientStep
<1>6. ASSUME NEW c \in Systems, NEW s \in Systems, Deliver(c, s)
      PROVE  Near'
  <2>1. CASE Accept(c, s)
    BY <2>1 DEF Accept, Conn
  <2>2. CASE Register(c, s)
    BY <2>2 DEF Register, Conn
  <2>3. CASE RefuseRegister(c, s)
    BY <2>3 DEF RefuseRegister, Conn
  <2>4. CASE ReceiveAnswer(c, s)
    BY <2>4 DEF ReceiveAnswer, Conn
  <2> QED BY <1>6, <2>1, <2>2, <2>3, <2>4 DEF Deliver
<1>7. ASSUME NEW c \in Systems, NEW s \in Systems, ServerOnDisconnect(c, s)
      PROVE  Near'
  BY <1>7 DEF ServerOnDisconnect
<1>8. ASSUME NEW c \in Systems, NEW s \in Systems, Break(c, s) PROVE Near'
  BY <1>8 DEF Break, Conn, Stale, Unread
<1>9. ASSUME NEW c \in Systems, NEW s \in Systems, RegisterLate(c, s) \/ DropLate(c, s)
      PROVE  Near'
  <2>1. late[c][s] \in Nat /\ late[c][s] > 0 /\ s < c
    BY <1>9 DEF RegisterLate, DropLate
  <2>2. UNCHANGED <<stage, cli, conn>>
    BY <1>9 DEF RegisterLate, DropLate
  <2>3. ASSUME NEW a \in Systems, NEW b \in Systems, a # c \/ b # s
        PROVE  session'[a][b] = session[a][b] /\ late'[a][b] = late[a][b]
    <3>1. CASE RegisterLate(c, s)
      BY <2>3, <3>1 DEF RegisterLate
    <3>2. CASE DropLate(c, s)
      BY <2>3, <3>2 DEF DropLate
    <3> QED BY <1>9, <3>1, <3>2
  <2>4. ASSUME NEW a \in Systems, NEW b \in Systems
        PROVE  /\ \/ cli'[a][b] # "none" \/ conn'[a][b] # "none"
                  \/ session'[a][b] # "none" \/ late'[a][b] > 0
                  => b < a
               /\ stage'[a] # "down" /\ b < a => cli'[a][b] # "none"
    <3>1. CASE a = c /\ b = s
      BY <2>1, <2>2, <3>1
    <3>2. CASE a # c \/ b # s
      BY <2>2, <2>3, <3>2
    <3> QED BY <3>1, <3>2
  <2> QED BY <2>4
<1> QED BY <1>1, <1>2, <1>3, <1>4, <1>5, <1>6, <1>7, <1>8, <1>9 DEF Next

-----------------------------------------------------------------------------
(* The count.                                                              *)

\* A step that changes neither count nor stage nor the sets it counts.
LEMMA CountUnchanged ==
  ASSUME CountIsOwnLinks,
         stage' = stage \/ \A s \in Systems : stage'[s] # "down" => stage[s] # "down",
         UNCHANGED connectedSystemCount,
         \A s \in Systems : stage[s] # "down" => Sessions(s)' = Sessions(s) /\ Clients(s)' = Clients(s)
  PROVE  CountIsOwnLinks'
BY DEF CountIsOwnLinks

\* One element comes to, or goes from, one of the two sets of one system.
LEMMA CountChanged ==
  ASSUME Types, CountIsOwnLinks,
         NEW s \in Systems, stage[s] # "down", UNCHANGED stage,
         \A t \in Systems \ {s} :
            /\ connectedSystemCount'[t] = connectedSystemCount[t]
            /\ Sessions(t)' = Sessions(t) /\ Clients(t)' = Clients(t),
         NEW x,
         \/ /\ connectedSystemCount'[s] = connectedSystemCount[s] + 1
            /\ \/ x \notin Sessions(s) /\ Sessions(s)' = Sessions(s) \cup {x} /\ Clients(s)' = Clients(s)
               \/ x \notin Clients(s) /\ Clients(s)' = Clients(s) \cup {x} /\ Sessions(s)' = Sessions(s)
         \/ /\ connectedSystemCount'[s] = connectedSystemCount[s] - 1
            /\ \/ x \in Sessions(s) /\ Sessions(s)' = Sessions(s) \ {x} /\ Clients(s)' = Clients(s)
               \/ x \in Clients(s) /\ Clients(s)' = Clients(s) \ {x} /\ Sessions(s)' = Sessions(s)
  PROVE  CountIsOwnLinks'
<1> DEFINE S == Sessions(s)
           C == Clients(s)
<1>1. /\ S \in SUBSET Systems /\ C \in SUBSET Systems
  BY DEF Sessions, Clients
<1>2. /\ IsFiniteSet(S) /\ Cardinality(S) \in Nat
      /\ IsFiniteSet(C) /\ Cardinality(C) \in Nat
  BY <1>1, FiniteSystems
<1>3. /\ Cardinality(S \cup {x}) = IF x \in S THEN Cardinality(S) ELSE Cardinality(S) + 1
      /\ Cardinality(C \cup {x}) = IF x \in C THEN Cardinality(C) ELSE Cardinality(C) + 1
  BY <1>2, FS_AddElement
<1>4. /\ Cardinality(S \ {x}) = IF x \in S THEN Cardinality(S) - 1 ELSE Cardinality(S)
      /\ Cardinality(C \ {x}) = IF x \in C THEN Cardinality(C) - 1 ELSE Cardinality(C)
  BY <1>2, FS_RemoveElement
<1>5. connectedSystemCount[s] = 1 + Cardinality(S) + Cardinality(C)
  BY DEF CountIsOwnLinks
<1>6. connectedSystemCount'[s] = 1 + Cardinality(Sessions(s)') + Cardinality(Clients(s)')
  <2>1. CASE x \notin S /\ Sessions(s)' = S \cup {x} /\ Clients(s)' = C
             /\ connectedSystemCount'[s] = connectedSystemCount[s] + 1
    BY <1>2, <1>3, <1>5, <2>1
  <2>2. CASE x \notin C /\ Clients(s)' = C \cup {x} /\ Sessions(s)' = S
             /\ connectedSystemCount'[s] = connectedSystemCount[s] + 1
    BY <1>2, <1>3, <1>5, <2>2
  <2>3. CASE x \in S /\ Sessions(s)' = S \ {x} /\ Clients(s)' = C
             /\ connectedSystemCount'[s] = connectedSystemCount[s] - 1
    BY <1>2, <1>4, <1>5, <2>3
  <2>4. CASE x \in C /\ Clients(s)' = C \ {x} /\ Sessions(s)' = S
             /\ connectedSystemCount'[s] = connectedSystemCount[s] - 1
    BY <1>2, <1>4, <1>5, <2>4
  <2> QED BY <2>1, <2>2, <2>3, <2>4
<1>7. ASSUME NEW t \in Systems, t # s, stage[t] # "down"
      PROVE  connectedSystemCount'[t] = 1 + Cardinality(Sessions(t)') + Cardinality(Clients(t)')
  BY <1>7 DEF CountIsOwnLinks
<1> QED BY <1>6, <1>7 DEF CountIsOwnLinks

LEMMA CountPreserved ==
  ASSUME IInv, Next
  PROVE  CountIsOwnLinks'
<1>0. Types /\ DownIsEmpty /\ Types' /\ CountIsOwnLinks
  BY TypesPreserved DEF IInv
<1> USE <1>0
<1>1. ASSUME NEW s \in Systems, Start(s)
      PROVE  CountIsOwnLinks'
  <2>1. stage[s] = "down" /\ session' = session
    BY <1>1 DEF Start
  <2>2. Sessions(s)' = {} /\ Clients(s)' = {} /\ connectedSystemCount'[s] = 1
    <3>1. \A i \in Systems : session'[i][s] = "none" /\ cli'[s][i] \in {"dial", "none"}
      BY <1>1, <2>1 DEF Start, DownIsEmpty, Types
    <3>2. connectedSystemCount'[s] = 1
      BY <1>1, <2>1 DEF Start, Add, DownIsEmpty, Types
    <3> QED BY <3>1, <3>2 DEF Sessions, Clients
  <2>3. ASSUME NEW t \in Systems, t # s
        PROVE  /\ stage'[t] = stage[t] /\ connectedSystemCount'[t] = connectedSystemCount[t]
               /\ Sessions(t)' = Sessions(t) /\ Clients(t)' = Clients(t)
    <3>1. stage'[t] = stage[t] /\ connectedSystemCount'[t] = connectedSystemCount[t] /\ cli'[t] = cli[t]
      BY <1>1, <2>3 DEF Start, Add, Types
    <3> QED BY <2>1, <3>1 DEF Sessions, Clients
  <2>4. Cardinality({}) = 0
    BY FS_EmptySet
  <2> QED BY <2>2, <2>3, <2>4 DEF CountIsOwnLinks
<1>2. ASSUME NEW s \in Systems, Wait(s) PROVE CountIsOwnLinks'
  <2>1. UNCHANGED <<connectedSystemCount, cli, session>>
    BY <1>2 DEF Wait, StartSucceeds, StartTimesOut, linkVars
  <2>2. \A t \in Systems : stage'[t] # "down" => stage[t] # "down"
    BY <1>2 DEF Wait, StartSucceeds, StartTimesOut, Types
  <2>3. \A t \in Systems : Sessions(t)' = Sessions(t) /\ Clients(t)' = Clients(t)
    BY <2>1 DEF Sessions, Clients
  <2> QED BY <2>1, <2>2, <2>3, CountUnchanged
<1>3. ASSUME NEW s \in Systems, Crash(s) PROVE CountIsOwnLinks'
  <2>1. stage'[s] = "down"
    BY <1>3 DEF Crash, Types
  <2>2. ASSUME NEW t \in Systems, t # s
        PROVE  /\ stage'[t] = stage[t] /\ connectedSystemCount'[t] = connectedSystemCount[t]
               /\ Sessions(t)' = Sessions(t) /\ Clients(t)' = Clients(t)
    <3>1. stage'[t] = stage[t] /\ connectedSystemCount'[t] = connectedSystemCount[t] /\ cli'[t] = cli[t]
      BY <1>3, <2>2 DEF Crash, Types
    <3>2. \A c \in Systems : session'[c][t] = "none" <=> session[c][t] = "none"
      BY <1>3, <2>2 DEF Crash, Stale, Types
    <3> QED BY <3>1, <3>2 DEF Sessions, Clients
  <2> QED BY <2>1, <2>2 DEF CountIsOwnLinks
<1>4. ASSUME NEW s \in Systems, Listen(s) \/ ListenFails(s) \/ AcceptFails(s)
      PROVE  CountIsOwnLinks'
  <2>1. UNCHANGED <<stage, connectedSystemCount, cli, session>>
    BY <1>4 DEF Listen, ListenFails, AcceptFails, linkVars
  <2> QED BY <2>1 DEF CountIsOwnLinks, Sessions, Clients
<1>5. ASSUME NEW c \in Systems, NEW s \in Systems, ClientStep(c, s)
      PROVE  CountIsOwnLinks'
  <2>1. session' = session /\ stage' = stage
    BY <1>5 DEF ClientStep, Dial, AwaitResponse, AwaitDisconnect, CountUp, ReadyDisconnect, CountDown
  <2>2. \A t \in Systems \ {c} : cli'[t] = cli[t]
    BY <1>5 DEF ClientStep, Dial, AwaitResponse, AwaitDisconnect, CountUp, ReadyDisconnect, CountDown,
       Cli, Types
  <2>3. /\ \A t \in Systems : Sessions(t)' = Sessions(t)
        /\ \A t \in Systems \ {c} : Clients(t)' = Clients(t)
    BY <2>1, <2>2 DEF Sessions, Clients
  <2>4. CASE CountUp(c, s)
    <3>1. stage[c] # "down" /\ s \notin Clients(c)
      BY <2>4 DEF CountUp, DownIsEmpty, Clients
    <3>2. Clients(c)' = Clients(c) \cup {s}
      BY <2>4 DEF CountUp, Cli, Clients, Types
    <3>3. /\ connectedSystemCount'[c] = connectedSystemCount[c] + 1
          /\ \A t \in Systems \ {c} : connectedSystemCount'[t] = connectedSystemCount[t]
      BY <2>4 DEF CountUp, Add, Types
    <3> QED BY <2>1, <2>3, <3>1, <3>2, <3>3, CountChanged
  <2>5. CASE CountDown(c, s)
    <3>1. stage[c] # "down" /\ s \in Clients(c)
      BY <2>5 DEF CountDown, DownIsEmpty, Clients
    <3>2. Clients(c)' = Clients(c) \ {s}
      BY <2>5 DEF CountDown, Cli, Clients, Types
    <3>3. /\ connectedSystemCount'[c] = connectedSystemCount[c] - 1
          /\ \A t \in Systems \ {c} : connectedSystemCount'[t] = connectedSystemCount[t]
      BY <2>5 DEF CountDown, Subtract, Types
    <3> QED BY <2>1, <2>3, <3>1, <3>2, <3>3, CountChanged
  <2>6. CASE Dial(c, s) \/ AwaitResponse(c, s) \/ AwaitDisconnect(c, s) \/ ReadyDisconnect(c, s)
    <3>1. connectedSystemCount' = connectedSystemCount
      BY <2>6 DEF Dial, AwaitResponse, AwaitDisconnect, ReadyDisconnect
    <3>2. \A i \in Systems : cli'[c][i] \in {"ready", "unlinked"} <=> cli[c][i] \in {"ready", "unlinked"}
      BY <2>6 DEF Dial, AwaitResponse, AwaitDisconnect, ReadyDisconnect, Cli, Types
    <3>3. Clients(c)' = Clients(c)
      BY <3>2 DEF Clients
    <3> QED BY <2>1, <2>3, <3>1, <3>3, CountUnchanged
  <2> QED BY <1>5, <2>4, <2>5, <2>6 DEF ClientStep
<1>6. ASSUME NEW c \in Systems, NEW s \in Systems, Deliver(c, s)
      PROVE  CountIsOwnLinks'
  <2>1. cli' = cli /\ stage' = stage
    BY <1>6 DEF Deliver, Accept, Register, RefuseRegister, ReceiveAnswer
  <2>2. CASE Register(c, s)
    <3>1. stage[s] # "down" /\ c \notin Sessions(s)
      BY <2>2 DEF Register, DownIsEmpty, Sessions
    <3>2. /\ Sessions(s)' = Sessions(s) \cup {c}
          /\ \A t \in Systems \ {s} : Sessions(t)' = Sessions(t)
      BY <2>2 DEF Register, Sessions, Types
    <3>3. /\ connectedSystemCount'[s] = connectedSystemCount[s] + 1
          /\ \A t \in Systems \ {s} : connectedSystemCount'[t] = connectedSystemCount[t]
      BY <2>2 DEF Register, Add, Types
    <3>4. \A t \in Systems : Clients(t)' = Clients(t)
      BY <2>1 DEF Clients
    <3> QED BY <2>1, <3>1, <3>2, <3>3, <3>4, CountChanged
  <2>3. CASE Accept(c, s) \/ RefuseRegister(c, s) \/ ReceiveAnswer(c, s)
    <3>1. UNCHANGED <<connectedSystemCount, session>>
      BY <2>3 DEF Accept, RefuseRegister, ReceiveAnswer
    <3> QED BY <2>1, <3>1 DEF CountIsOwnLinks, Sessions, Clients
  <2> QED BY <1>6, <2>2, <2>3 DEF Deliver
<1>7. ASSUME NEW c \in Systems, NEW s \in Systems, ServerOnDisconnect(c, s)
      PROVE  CountIsOwnLinks'
  <2>1. stage[s] # "down" /\ c \in Sessions(s)
    BY <1>7 DEF ServerOnDisconnect, DownIsEmpty, Sessions
  <2>2. /\ Sessions(s)' = Sessions(s) \ {c}
        /\ \A t \in Systems \ {s} : Sessions(t)' = Sessions(t)
    BY <1>7 DEF ServerOnDisconnect, Sessions, Types
  <2>3. /\ connectedSystemCount'[s] = connectedSystemCount[s] - 1
        /\ \A t \in Systems \ {s} : connectedSystemCount'[t] = connectedSystemCount[t]
    BY <1>7 DEF ServerOnDisconnect, Subtract, Types
  <2>4. stage' = stage /\ \A t \in Systems : Clients(t)' = Clients(t)
    BY <1>7 DEF ServerOnDisconnect, Clients
  <2> QED BY <2>1, <2>2, <2>3, <2>4, CountChanged
<1>8. ASSUME NEW c \in Systems, NEW s \in Systems, Break(c, s)
      PROVE  CountIsOwnLinks'
  <2>1. UNCHANGED <<stage, connectedSystemCount, cli>>
    BY <1>8 DEF Break
  <2>2. \A b, t \in Systems : session'[b][t] = "none" <=> session[b][t] = "none"
    BY <1>8 DEF Break, Stale, Types
  <2> QED BY <2>1, <2>2 DEF CountIsOwnLinks, Sessions, Clients
<1>9. ASSUME NEW c \in Systems, NEW s \in Systems, RegisterLate(c, s)
      PROVE  CountIsOwnLinks'
  <2>1. stage[s] # "down" /\ c \notin Sessions(s)
    BY <1>9 DEF RegisterLate, DownIsEmpty, Sessions
  <2>2. /\ Sessions(s)' = Sessions(s) \cup {c}
        /\ \A t \in Systems \ {s} : Sessions(t)' = Sessions(t)
    BY <1>9 DEF RegisterLate, Sessions, Types
  <2>3. /\ connectedSystemCount'[s] = connectedSystemCount[s] + 1
        /\ \A t \in Systems \ {s} : connectedSystemCount'[t] = connectedSystemCount[t]
    BY <1>9 DEF RegisterLate, Add, Types
  <2>4. stage' = stage /\ \A t \in Systems : Clients(t)' = Clients(t)
    BY <1>9 DEF RegisterLate, Clients
  <2> QED BY <2>1, <2>2, <2>3, <2>4, CountChanged
<1>10. ASSUME NEW c \in Systems, NEW s \in Systems, DropLate(c, s)
       PROVE  CountIsOwnLinks'
  BY <1>10 DEF DropLate, CountIsOwnLinks, Sessions, Clients
<1> QED BY <1>1, <1>2, <1>3, <1>4, <1>5, <1>6, <1>7, <1>8, <1>9, <1>10 DEF Next

LEMMA StepIInv == IInv /\ [Next]_vars => IInv'
<1>1. ASSUME IInv, Next PROVE IInv'
  BY <1>1, TypesPreserved, DownPreserved, RolesPreserved, CountPreserved DEF IInv
<1>2. ASSUME IInv, UNCHANGED vars PROVE IInv'
  <2> USE <1>2 DEF IInv, vars, linkVars
  <2>1. Types'
    BY DEF Types
  <2>2. DownIsEmpty'
    BY DEF DownIsEmpty
  <2>3. RolesAgree'
    BY DEF RolesAgree, passive, RunsServer
  <2>4. CountIsOwnLinks'
    BY DEF CountIsOwnLinks, Sessions, Clients
  <2> QED BY <2>1, <2>2, <2>3, <2>4
<1> QED BY <1>1, <1>2

LEMMA Sound == Spec => []IInv
BY InitIInv, StepIInv, PTL DEF Spec

-----------------------------------------------------------------------------
(* The results.                                                            *)

\* For any number of systems and faults, of any two systems exactly the later
\* one dials, to a system that listens and accepts it (cluster_net.go:16-37,
\* 83-105, cluster_server.go:51-57).
THEOREM RolesAlwaysAgree == Spec => []RolesAgree
BY Sound, PTL DEF IInv

\* For any number of systems and faults, connectedSystemCount of a system is one
\* more than the number of its own links (cluster_client.go:78, 88,
\* cluster_server.go:39, 65).
THEOREM CountAlwaysOwnLinks == Spec => []CountIsOwnLinks
BY Sound, PTL DEF IInv

LEMMA Pigeonhole ==
  ASSUME NEW U, IsFiniteSet(U), NEW S \in SUBSET U, NEW T \in SUBSET U, S \cap T = {}
  PROVE  /\ Cardinality(S) \in Nat /\ Cardinality(T) \in Nat /\ Cardinality(U) \in Nat
         /\ Cardinality(S) + Cardinality(T) <= Cardinality(U)
         /\ Cardinality(S) + Cardinality(T) >= Cardinality(U) => U = S \cup T
<1>1. /\ IsFiniteSet(S) /\ IsFiniteSet(T)
      /\ Cardinality(S) \in Nat /\ Cardinality(T) \in Nat /\ Cardinality(U) \in Nat
  BY FS_Subset, FS_CardinalityType
<1>2. PICK V : V = S \cup T
  OBVIOUS
<1>3. Cardinality(V) = Cardinality(S) + Cardinality(T) - Cardinality(S \cap T)
  BY <1>1, <1>2, FS_Union
<1>4. Cardinality(S \cap T) = 0
  <2>1. Cardinality({}) = 0
    BY FS_EmptySet
  <2> QED BY <2>1, Zenon
<1>5. Cardinality(V) = Cardinality(S) + Cardinality(T)
  BY <1>1, <1>3, <1>4
<1>6. V \in SUBSET U
  BY <1>2
<1>7. Cardinality(V) <= Cardinality(U) /\ (Cardinality(U) = Cardinality(V) => U = V)
  BY <1>6, FS_Subset
<1> QED BY <1>1, <1>2, <1>5, <1>7

\* The two sets that a system counts are disjoint parts of the other systems.
LEMMA CountedApart ==
  ASSUME IInv, NEW s \in Systems
  PROVE  /\ Cardinality(Sessions(s)) \in Nat /\ Cardinality(Clients(s)) \in Nat
         /\ Cardinality(Sessions(s)) + Cardinality(Clients(s)) <= systemCount - 1
         /\ Cardinality(Sessions(s)) + Cardinality(Clients(s)) >= systemCount - 1
               => Systems \ {s} = Sessions(s) \cup Clients(s)
<1>1. /\ Sessions(s) \cap Clients(s) = {}
      /\ Sessions(s) \in SUBSET (Systems \ {s}) /\ Clients(s) \in SUBSET (Systems \ {s})
  BY DEF IInv, RolesAgree, Sessions, Clients, Systems
<1>2. Cardinality(Systems \ {s}) = systemCount - 1 /\ IsFiniteSet(Systems \ {s})
  BY FiniteSystems, FS_RemoveElement
<1> DEFINE U == Systems \ {s}
           S == Sessions(s)
           T == Clients(s)
<1>3. /\ Cardinality(S) \in Nat /\ Cardinality(T) \in Nat /\ Cardinality(U) \in Nat
      /\ Cardinality(S) + Cardinality(T) <= Cardinality(U)
      /\ Cardinality(S) + Cardinality(T) >= Cardinality(U) => U = S \cup T
  <2>1. IsFiniteSet(U) /\ S \in SUBSET U /\ T \in SUBSET U /\ S \cap T = {}
    BY <1>1, <1>2
  <2> HIDE DEF U, S, T
  <2> QED BY <2>1, Pigeonhole
<1> QED BY <1>2, <1>3

\* For any number of systems and faults, the type invariant, with the bound of
\* the count that start() compares it with.
THEOREM TypesAlwaysOK == Spec => []TypeOK
<1>1. ASSUME IInv PROVE TypeOK
  <2>1. ASSUME NEW s \in Systems PROVE connectedSystemCount[s] \in 0 .. systemCount
    <3>1. CASE stage[s] = "down"
      BY <1>1, <3>1, ClusterAssumption DEF IInv, DownIsEmpty
    <3>2. CASE stage[s] # "down"
      <4>1. connectedSystemCount[s] = 1 + Cardinality(Sessions(s)) + Cardinality(Clients(s))
        BY <1>1, <3>2 DEF IInv, CountIsOwnLinks
      <4> QED BY <1>1, <4>1, CountedApart, ClusterAssumption
    <3> QED BY <3>1, <3>2
  <2> QED BY <1>1, <2>1 DEF IInv, Types, TypeOK
<1> QED BY <1>1, Sound, PTL

\* For any number of systems and faults, a start() that returns without an error
\* has every link of its system counted at that moment (cluster_net.go:111-115).
THEOREM AlwaysReturnsWhenLinked == Spec => ReturnsWhenLinked
<1>1. ASSUME IInv, Next, NEW s \in Systems, stage[s] = "waiting", stage'[s] = "connected"
      PROVE  Systems \ {s} = Sessions(s) \cup Clients(s)
  <2>1. connectedSystemCount[s] >= systemCount
    <3>1. StartSucceeds(s)
      <4>1. Types
        BY <1>1 DEF IInv
      <4>2. ASSUME NEW t \in Systems, Start(t) \/ Crash(t) \/ Listen(t) \/ ListenFails(t) \/ AcceptFails(t)
            PROVE  FALSE
        BY <1>1, <4>1, <4>2 DEF Start, Crash, Listen, ListenFails, AcceptFails, Types
      <4>3. ASSUME NEW c \in Systems, NEW t \in Systems,
                   \/ ClientStep(c, t) \/ Deliver(c, t) \/ ServerOnDisconnect(c, t) \/ Break(c, t)
                   \/ RegisterLate(c, t) \/ DropLate(c, t)
            PROVE  stage' = stage
        BY <4>3 DEF ClientStep, Dial, AwaitResponse, AwaitDisconnect, CountUp, ReadyDisconnect,
           CountDown, Deliver, Accept, Register, RefuseRegister, ReceiveAnswer, ServerOnDisconnect, Break, RegisterLate, DropLate
      <4>4. ASSUME NEW t \in Systems, Wait(t) PROVE StartSucceeds(s)
        BY <1>1, <4>1, <4>4 DEF Wait, StartSucceeds, StartTimesOut, Types
      <4> QED BY <1>1, <4>2, <4>3, <4>4 DEF Next
    <3> QED BY <3>1 DEF StartSucceeds
  <2>2. connectedSystemCount[s] = 1 + Cardinality(Sessions(s)) + Cardinality(Clients(s))
    BY <1>1 DEF IInv, CountIsOwnLinks
  <2> QED BY <1>1, <2>1, <2>2, CountedApart, ClusterAssumption
<1>2. IInv /\ [Next]_vars =>
        [\A s \in Systems : stage[s] = "waiting" /\ stage'[s] = "connected" =>
            Systems \ {s} = Sessions(s) \cup Clients(s)]_vars
  BY <1>1
<1> QED BY <1>2, Sound, PTL DEF Spec, ReturnsWhenLinked
================================================================================
