------------------------------ MODULE ClusterNet ------------------------------
(***************************************************************************)
(* How a cluster comes up (cluster_net.go): who listens and who dials,     *)
(* what start() waits for, and what is left of it when connections break,  *)
(* systems restart or an accept loop ends.                                 *)
(*                                                                         *)
(* A system is named by its place in SystemConfigs, which is the same on   *)
(* all of them.  One link is a goroutine of clusterClient.Start on the     *)
(* later system and a slot systemInfo.session on the earlier one; the      *)
(* module ClusterLink has it step by step, and here a break is one step    *)
(* for the network and one for each end that notices it.  The back-off of  *)
(* 5 s and the poll of 3 s are steps that may take any time.               *)
(***************************************************************************)
EXTENDS Naturals, FiniteSets

CONSTANTS
    systemCount,     \* len(SystemConfigs)
    ConnectTimeout,  \* the systems whose ConnectTimeout is not 0
    MaxFaults        \* bound on breaks, restarts and failures to listen

Systems == 1 .. systemCount

ASSUME ClusterAssumption ==
    /\ systemCount \in Nat \ {0}
    /\ ConnectTimeout \subseteq Systems
    /\ MaxFaults \in Nat

VARIABLES
    stage,                 \* of start(), on each system
    listener,              \* the accept loop of each system
    connectedSystemCount,
    cli,                   \* cli[c][s]: the goroutine on c for the link to s
    conn,                  \* conn[c][s]: its connection
    registerResponseChan,  \* [c][s]: TRUE, the channel holds an answer
    session,               \* session[c][s]: the slot of c on s; "stale" when
                           \* its connection has ended and s has not noticed
    late,                  \* [c][s]: connections of c that have ended with
                           \* their registration request still to be read by s
    faults

linkVars == <<cli, conn, registerResponseChan, session, late>>
vars == <<stage, listener, connectedSystemCount, linkVars, faults>>

CliState  == {"none", "dial", "await", "linked", "ready", "unlinked"}
ConnState == {"none", "backlog", "accepted", "registered", "told", "ended"}

TypeOK ==
    /\ stage \in [Systems -> {"down", "waiting", "connected", "timedOut"}]
    /\ listener \in [Systems -> {"none", "starting", "accepting", "deaf", "refusing"}]
    /\ connectedSystemCount \in [Systems -> 0 .. systemCount]
    /\ cli \in [Systems -> [Systems -> CliState]]
    /\ conn \in [Systems -> [Systems -> ConnState]]
    /\ registerResponseChan \in [Systems -> [Systems -> BOOLEAN]]
    /\ session \in [Systems -> [Systems -> {"none", "live", "stale"}]]
    /\ late \in [Systems -> [Systems -> Nat]]
    /\ faults \in 0 .. MaxFaults

Pairs(x) == [c \in Systems |-> [s \in Systems |-> x]]

Init ==
    /\ stage = [s \in Systems |-> "down"]
    /\ listener = [s \in Systems |-> "none"]
    /\ connectedSystemCount = [s \in Systems |-> 0]
    /\ cli = Pairs("none") /\ conn = Pairs("none")
    /\ registerResponseChan = Pairs(FALSE)
    /\ session = Pairs("none") /\ late = Pairs(0)
    /\ faults = 0

Add(s, n)     == connectedSystemCount' = [connectedSystemCount EXCEPT ![s] = @ + n]
Subtract(s)   == connectedSystemCount' = [connectedSystemCount EXCEPT ![s] = @ - 1]
Cli(c, s, x)  == cli' = [cli EXCEPT ![c][s] = x]
Conn(c, s, x) == conn' = [conn EXCEPT ![c][s] = x]

-----------------------------------------------------------------------------
(* start(): roles and the wait.                                            *)

\* systemInfo.passive on system s for entry i: the local entry has not been
\* found yet.
passive(s, i) == \A j \in 1 .. i : j # s

MutRunsServer(s) == s < systemCount - 1
RunsServer(s)    == s - 1 < systemCount - 1

MutDials(s) == Systems \ {s}
Dials(s)    == {i \in Systems : s # 1 /\ ~(i - 1 >= s - 1)}

MutStart(s) ==
    /\ stage[s] = "down"
    /\ stage' = [stage EXCEPT ![s] = "waiting"]
    /\ listener' = [listener EXCEPT ![s] = IF RunsServer(s) THEN "starting" ELSE "none"]
    /\ cli' = [cli EXCEPT ![s] = [i \in Systems |-> IF i \in Dials(s) THEN "dial" ELSE "none"]]
    /\ UNCHANGED <<connectedSystemCount, conn, registerResponseChan, session, late, faults>>

\* Counts itself; the server unless it is the last; a client for every system
\* before it.
Start(s) ==
    /\ stage[s] = "down"
    /\ stage' = [stage EXCEPT ![s] = "waiting"]
    /\ Add(s, 1)
    /\ listener' = [listener EXCEPT ![s] = IF RunsServer(s) THEN "starting" ELSE "none"]
    /\ cli' = [cli EXCEPT ![s] = [i \in Systems |-> IF i \in Dials(s) THEN "dial" ELSE "none"]]
    /\ UNCHANGED <<conn, registerResponseChan, session, late, faults>>

StartSucceeds(s) ==
    /\ stage[s] = "waiting" /\ connectedSystemCount[s] >= systemCount
    /\ stage' = [stage EXCEPT ![s] = "connected"]
    /\ UNCHANGED <<listener, connectedSystemCount, linkVars, faults>>

MutStartTimesOut(s) ==
    /\ stage[s] = "waiting" /\ connectedSystemCount[s] < systemCount
    /\ s \in ConnectTimeout
    /\ stage' = [stage EXCEPT ![s] = "timedOut"]
    /\ cli' = [cli EXCEPT ![s] = [i \in Systems |-> IF @[i] = "dial" THEN "none" ELSE @[i]]]
    /\ UNCHANGED <<listener, connectedSystemCount, conn, registerResponseChan, session, late, faults>>

\* The deadline has passed: an error, which system.Start only logs.
StartTimesOut(s) ==
    /\ stage[s] = "waiting" /\ connectedSystemCount[s] < systemCount
    /\ s \in ConnectTimeout
    /\ stage' = [stage EXCEPT ![s] = "timedOut"]
    /\ UNCHANGED <<listener, connectedSystemCount, linkVars, faults>>

-----------------------------------------------------------------------------
(* The accept loop.                                                        *)

Fault == faults < MaxFaults /\ faults' = faults + 1

Listen(s) ==
    /\ listener[s] = "starting"
    /\ listener' = [listener EXCEPT ![s] = "accepting"]
    /\ UNCHANGED <<stage, connectedSystemCount, linkVars, faults>>

\* net.Listen fails and the goroutine of clusterServer.Start ends.
ListenFails(s) ==
    /\ listener[s] = "starting" /\ Fault
    /\ listener' = [listener EXCEPT ![s] = "refusing"]
    /\ UNCHANGED <<stage, connectedSystemCount, linkVars>>

\* Accept fails once: the loop ends.  The socket still listens, so systems can
\* still dial, and wait for an answer nobody will give.
AcceptFails(s) ==
    /\ listener[s] = "accepting" /\ Fault
    /\ listener' = [listener EXCEPT ![s] = "deaf"]
    /\ UNCHANGED <<stage, connectedSystemCount, linkVars>>

Accept(c, s) ==
    /\ conn[c][s] = "backlog" /\ listener[s] = "accepting"
    /\ Conn(c, s, "accepted")
    /\ UNCHANGED <<stage, listener, connectedSystemCount, cli,
                   registerResponseChan, session, late, faults>>

-----------------------------------------------------------------------------
(* The server end of a link.                                               *)

\* The registration request is granted ...
Register(c, s) ==
    /\ conn[c][s] = "accepted"
    /\ ~passive(s, c) /\ session[c][s] = "none"
    /\ session' = [session EXCEPT ![c][s] = "live"]
    /\ Add(s, 1)
    /\ Conn(c, s, "registered")
    /\ UNCHANGED <<stage, listener, cli, registerResponseChan, late, faults>>

\* ... or the connection is closed.
RefuseRegister(c, s) ==
    /\ conn[c][s] = "accepted"
    /\ passive(s, c) \/ session[c][s] # "none"
    /\ Conn(c, s, "ended")
    /\ UNCHANGED <<stage, listener, connectedSystemCount, cli,
                   registerResponseChan, session, late, faults>>

\* A request whose connection has ended may still be read and granted ...
RegisterLate(c, s) ==
    /\ late[c][s] > 0
    /\ ~passive(s, c) /\ session[c][s] = "none"
    /\ late' = [late EXCEPT ![c][s] = @ - 1]
    /\ session' = [session EXCEPT ![c][s] = "stale"]
    /\ Add(s, 1)
    /\ UNCHANGED <<stage, listener, cli, conn, registerResponseChan, faults>>

\* ... or is refused, or lost with the connection.
DropLate(c, s) ==
    /\ late[c][s] > 0
    /\ late' = [late EXCEPT ![c][s] = @ - 1]
    /\ UNCHANGED <<stage, listener, connectedSystemCount, cli, conn,
                   registerResponseChan, session, faults>>

MutServerOnDisconnect(c, s) ==
    /\ session[c][s] = "stale"
    /\ session' = [session EXCEPT ![c][s] = "none"]
    /\ UNCHANGED <<stage, listener, connectedSystemCount, cli, conn,
                   registerResponseChan, late, faults>>

ServerOnDisconnect(c, s) ==
    /\ session[c][s] = "stale"
    /\ session' = [session EXCEPT ![c][s] = "none"]
    /\ Subtract(s)
    /\ UNCHANGED <<stage, listener, cli, conn, registerResponseChan, late, faults>>

-----------------------------------------------------------------------------
(* The client end.                                                         *)

\* Connects, and sends the registration request.
Dial(c, s) ==
    /\ cli[c][s] = "dial" /\ listener[s] \in {"accepting", "deaf"}
    /\ Cli(c, s, "await") /\ Conn(c, s, "backlog")
    /\ UNCHANGED <<stage, listener, connectedSystemCount,
                   registerResponseChan, session, late, faults>>

\* The receiver goroutine of the client hands the answer on; it waits while the
\* channel still holds the answer of an earlier connection.
ReceiveAnswer(c, s) ==
    /\ conn[c][s] = "registered" /\ ~registerResponseChan[c][s]
    /\ registerResponseChan' = [registerResponseChan EXCEPT ![c][s] = TRUE]
    /\ Conn(c, s, "told")
    /\ UNCHANGED <<stage, listener, connectedSystemCount, cli, session, late, faults>>

\* info.cli is set, then the link is counted.
AwaitResponse(c, s) ==
    /\ cli[c][s] = "await" /\ registerResponseChan[c][s]
    /\ registerResponseChan' = [registerResponseChan EXCEPT ![c][s] = FALSE]
    /\ Cli(c, s, "linked")
    /\ UNCHANGED <<stage, listener, connectedSystemCount, conn, session, late, faults>>

CountUp(c, s) ==
    /\ cli[c][s] = "linked"
    /\ Cli(c, s, "ready") /\ Add(c, 1)
    /\ UNCHANGED <<stage, listener, conn, registerResponseChan, session, late, faults>>

\* An answer that is in the channel by now stays there.
AwaitDisconnect(c, s) ==
    /\ cli[c][s] = "await" /\ conn[c][s] = "ended"
    /\ Cli(c, s, "dial") /\ Conn(c, s, "none")
    /\ UNCHANGED <<stage, listener, connectedSystemCount,
                   registerResponseChan, session, late, faults>>

\* info.cli is cleared, then the link is no longer counted.
ReadyDisconnect(c, s) ==
    /\ cli[c][s] = "ready" /\ conn[c][s] = "ended"
    /\ Cli(c, s, "unlinked") /\ Conn(c, s, "none")
    /\ UNCHANGED <<stage, listener, connectedSystemCount,
                   registerResponseChan, session, late, faults>>

MutCountDown(c, s) ==
    /\ cli[c][s] = "unlinked"
    /\ Cli(c, s, "none") /\ Subtract(c)
    /\ UNCHANGED <<stage, listener, conn, registerResponseChan, session, late, faults>>

CountDown(c, s) ==
    /\ cli[c][s] = "unlinked"
    /\ Cli(c, s, "dial") /\ Subtract(c)
    /\ UNCHANGED <<stage, listener, conn, registerResponseChan, session, late, faults>>

-----------------------------------------------------------------------------
(* Faults of the environment.                                              *)

Stale(x) == IF x = "live" THEN "stale" ELSE x

\* what is left of a connection that ends on system s
Unread(x) == IF x = "accepted" THEN 1 ELSE 0

Break(c, s) ==
    /\ conn[c][s] \notin {"none", "ended"} /\ Fault
    /\ Conn(c, s, "ended")
    /\ session' = [session EXCEPT ![c][s] = Stale(@)]
    /\ late' = [late EXCEPT ![c][s] = @ + Unread(conn[c][s])]
    /\ UNCHANGED <<stage, listener, connectedSystemCount, cli,
                   registerResponseChan>>

\* A system dies; its peers are left with connections that have ended.
Crash(s) ==
    /\ stage[s] # "down" /\ Fault
    /\ stage' = [stage EXCEPT ![s] = "down"]
    /\ listener' = [listener EXCEPT ![s] = "none"]
    /\ connectedSystemCount' = [connectedSystemCount EXCEPT ![s] = 0]
    /\ cli' = [cli EXCEPT ![s] = [i \in Systems |-> "none"]]
    /\ registerResponseChan' = [registerResponseChan EXCEPT ![s] = [i \in Systems |-> FALSE]]
    /\ conn' = [c \in Systems |-> [t \in Systems |->
                    CASE c = s -> "none"
                      [] t = s /\ c # s /\ conn[c][t] # "none" -> "ended"
                      [] OTHER -> conn[c][t]]]
    /\ session' = [c \in Systems |-> [t \in Systems |->
                    CASE t = s -> "none"
                      [] c = s /\ t # s -> Stale(session[c][t])
                      [] OTHER -> session[c][t]]]
    /\ late' = [c \in Systems |-> [t \in Systems |->
                    CASE t = s -> 0
                      [] c = s /\ t # s -> late[c][t] + Unread(conn[c][t])
                      [] OTHER -> late[c][t]]]

-----------------------------------------------------------------------------
Wait(s) == StartSucceeds(s) \/ StartTimesOut(s)

ClientStep(c, s) ==
    \/ Dial(c, s) \/ AwaitResponse(c, s) \/ AwaitDisconnect(c, s)
    \/ CountUp(c, s) \/ ReadyDisconnect(c, s) \/ CountDown(c, s)

Deliver(c, s) ==
    \/ Accept(c, s) \/ Register(c, s) \/ RefuseRegister(c, s) \/ ReceiveAnswer(c, s)

Next ==
    \/ \E s \in Systems :
          \/ Start(s) \/ Wait(s) \/ Crash(s)
          \/ Listen(s) \/ ListenFails(s) \/ AcceptFails(s)
    \/ \E c, s \in Systems :
          \/ ClientStep(c, s) \/ Deliver(c, s)
          \/ ServerOnDisconnect(c, s) \/ Break(c, s)
          \/ RegisterLate(c, s) \/ DropLate(c, s)

Spec == Init /\ [][Next]_vars

\* Goroutines run, sleeps end and a broken connection is noticed by both ends
\* (keep-alive).  Nobody owes the cluster that a system is started, or that a
\* request outlives its connection.
FairSpec ==
    /\ Spec
    /\ \A s \in Systems : WF_vars(Wait(s)) /\ WF_vars(Listen(s))
    /\ \A s \in Systems : \A c \in (s + 1) .. systemCount :
          /\ WF_vars(ClientStep(c, s))
          /\ WF_vars(Deliver(c, s))
          /\ WF_vars(ServerOnDisconnect(c, s))

-----------------------------------------------------------------------------
(* Properties.                                                             *)

Sessions(s) == {c \in Systems : session[c][s] # "none"}
Clients(s)  == {t \in Systems : cli[s][t] \in {"ready", "unlinked"}}

\* The count of a system, on which start() relies (cluster_net.go:112), is at
\* all times one for itself, one for every session slot that is taken and one
\* for every client between its CountUp and its CountDown; no break, refusal or
\* restart of a peer makes it drift.
CountIsOwnLinks ==
    \A s \in Systems : stage[s] # "down" =>
        connectedSystemCount[s] =
            1 + Cardinality(Sessions(s)) + Cardinality(Clients(s))

\* NewClusterNet, start and the check of clusterServer.OnMessage (line 55) agree
\* on the roles: of any two systems exactly the later dials, the earlier one
\* listens for it and does not take it for passive, and doSend of either uses
\* the end it has.
RolesAgree ==
    \A c, s \in Systems :
        /\ cli[c][s] # "none" \/ conn[c][s] # "none" \/ session[c][s] # "none" \/ late[c][s] > 0
              => s < c
        /\ cli[c][s] # "none" => RunsServer(s) /\ passive(c, s) /\ ~passive(s, c)
        /\ stage[c] # "down" /\ s < c => cli[c][s] # "none"

\* start() compares numbers and not links (cluster_net.go:113); still, when it
\* returns without an error, each of the links of this system is counted.  The
\* links among the others need not be up: docs/cluster.md says more.
ReturnsWhenLinked ==
    [][\A s \in Systems : stage[s] = "waiting" /\ stage'[s] = "connected" =>
          Systems \ {s} = Sessions(s) \cup Clients(s)]_vars

Dead(s)      == listener[s] \in {"deaf", "refusing"}
Linked(c, s) == cli[c][s] = "ready" /\ session[c][s] = "live"
Running      == <>[](\A s \in Systems : stage[s] # "down")

\* Once all systems run, every pair links up and stays linked, also when the
\* start() of either gave up (cluster_net.go:116), unless the accept loop of the
\* earlier one has ended (acceptor.go:31).
Interconnects ==
    Running => <>[](\A s \in Systems : \A c \in (s + 1) .. systemCount :
                        Linked(c, s) \/ Dead(s))

\* A start() without a timeout is held up for ever only by an accept loop that
\* has ended: its own, or one of a system before it.
HeldUpOnlyByDead ==
    Running => <>[](\A s \in Systems :
                        stage[s] # "waiting" \/ \E t \in 1 .. s : Dead(t))
================================================================================
