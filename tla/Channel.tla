-------------------------------- MODULE Channel --------------------------------
(***************************************************************************)
(* A channel with an unlimited buffer, as its users see it: there is no    *)
(* lock and no wake-up, a call that waits is served as soon as there is    *)
(* something to serve it with.                                             *)
(***************************************************************************)
EXTENDS Naturals, Sequences

CONSTANTS Proc, Value

VARIABLES
    items,   \* sent and not yet received
    closed,
    ended,   \* somebody has been told that the channel has ended
    waits    \* what each process waits for: "nothing", "one" or "all"

channel == <<items, closed, ended, waits>>

Init ==
    /\ items = <<>> /\ closed = FALSE /\ ended = FALSE
    /\ waits = [p \in Proc |-> "nothing"]

\* Any number of new elements behind those that are there.
Put ==
    /\ ~closed
    /\ items' \in Seq(Value) /\ Len(items') >= Len(items)
    /\ SubSeq(items', 1, Len(items)) = items
    /\ UNCHANGED <<closed, ended, waits>>

Give(p, what) ==
    /\ items # <<>>
    /\ items' = IF what = "one" THEN Tail(items) ELSE <<>>
    /\ waits' = [waits EXCEPT ![p] = "nothing"]
    /\ UNCHANGED <<closed, ended>>

\* Only a channel that is closed and empty has ended.
End(p) ==
    /\ closed /\ items = <<>>
    /\ ended' = TRUE
    /\ waits' = [waits EXCEPT ![p] = "nothing"]
    /\ UNCHANGED <<items, closed>>

Block(p, what) ==
    /\ waits[p] = "nothing" /\ items = <<>> /\ ~closed
    /\ waits' = [waits EXCEPT ![p] = what]
    /\ UNCHANGED <<items, closed, ended>>

Close == closed' = TRUE /\ UNCHANGED <<items, ended, waits>>

Serve(p) == waits[p] # "nothing" /\ (Give(p, waits[p]) \/ End(p))

Next ==
    \/ Put
    \/ \E p \in Proc : \/ Serve(p)
                       \/ waits[p] = "nothing" /\ \E what \in {"one", "all"} :
                              Give(p, what) \/ End(p) \/ Block(p, what)
    \/ Close

\* As long as there is something to give, somebody who waits gets it; after the
\* close everybody who waits returns.
Fairness ==
    /\ WF_channel(\E p \in Proc : Serve(p))
    /\ \A p \in Proc : WF_channel(closed /\ Serve(p))

Spec == Init /\ [][Next]_channel
FairSpec == Spec /\ Fairness
================================================================================
