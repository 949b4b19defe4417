----------------------------- MODULE Registration -----------------------------
(***************************************************************************)
(* What a system promises about the registration of one of its peers: at   *)
(* any time at most one connection holds it, a connection that is alive    *)
(* gets it when nobody holds it, it is given up only once the holder has   *)
(* ended, and the peer counts as one connected member exactly as long as   *)
(* somebody holds it.  This is the abstract view of systemInfo.session,    *)
(* the bind object and connectedSystemCount in cluster_server.go;          *)
(* ClusterLink implements it.                                              *)
(***************************************************************************)
EXTENDS Integers

CONSTANTS Conn, NoConn

VARIABLES
    alive,    \* connections on which the peer can still be heard
    holder,   \* the connection that holds the registration, or NoConn
    members   \* how often the peer is counted as connected

lease == <<alive, holder, members>>

Init == alive = {} /\ holder = NoConn /\ members = 0

Begin(k) ==
    /\ k \notin alive /\ k # holder
    /\ alive' = alive \cup {k}
    /\ UNCHANGED <<holder, members>>

End(k) ==
    /\ k \in alive
    /\ alive' = alive \ {k}
    /\ UNCHANGED <<holder, members>>

Admit(k) ==
    /\ k \in alive /\ holder = NoConn
    /\ holder' = k /\ members' = members + 1
    /\ UNCHANGED alive

\* Only a holder that has ended gives the registration up.
Release ==
    /\ holder # NoConn /\ holder \notin alive
    /\ holder' = NoConn /\ members' = members - 1
    /\ UNCHANGED alive

\* The system dies and starts again with nothing.
Restart == alive' = {} /\ holder' = NoConn /\ members' = 0

Next ==
    \/ \E k \in Conn : Begin(k) \/ End(k) \/ Admit(k)
    \/ Release \/ Restart

Spec == Init /\ [][Next]_lease
===============================================================================
