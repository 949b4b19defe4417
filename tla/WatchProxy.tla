------------------------------ MODULE WatchProxy ------------------------------
(***************************************************************************)
(* The proxy of one watchee of another system (watch_proxy.go), with what  *)
(* surrounds it: actors and queues of this system that watch and unwatch   *)
(* through the router, the mailbox of the proxy, the link to the other     *)
(* system, and the watchee there.                                          *)
(*                                                                         *)
(* All subscribers of a watch type share one subscription of the proxy at  *)
(* the watchee.  Its requests go over the link and are never repeated, so  *)
(* a request that is refused or dropped leaves the two sides with          *)
(* different ideas about that type; "lost" records the types for which     *)
(* that may have happened.  Events are notifications whose type is the     *)
(* event id.                                                               *)
(***************************************************************************)
EXTENDS Integers, Sequences

CONSTANTS
    Actor,       \* watchers of this system
    OuterQueue,  \* queues of callers outside the actors
    WatchType,
    MaxUnderWay, \* bound on the messages in the mailbox and on the link
    MaxFaults    \* bound on the breaks and restarts

ASSUME WatchAssumption ==
    /\ Actor \cap OuterQueue = {}
    /\ MaxUnderWay \in Nat /\ MaxFaults \in Nat

VARIABLES
    watcherss,     \* watch type -> actors, an entry for types with actors only
    queuess,       \* watch type -> queues, likewise
    stopInterval,  \* when the proxy may be stopped for want of messages
    mailbox,       \* of the proxy
    wire,          \* requests of the proxy on their way to the watchee
    watched,       \* types the watchee notifies the proxy of
    news,          \* types of the notifications on their way back
    up,            \* the other system can be sent to
    closedQueues,
    faults,
    wants,         \* history: who has asked last to watch a type
    lost,          \* history: types whose last request did not arrive
    owed           \* history: who is due a notification of which type

proxyVars   == <<watcherss, queuess, stopInterval>>
linkVars    == <<wire, news, up, faults>>
vars == <<proxyVars, mailbox, linkVars, watched, closedQueues, wants, lost, owed>>

Subscriber == Actor \cup OuterQueue

Request  == [type : WatchType, on : BOOLEAN]
Ask      == [who : Subscriber, type : WatchType, on : BOOLEAN]
Notice   == [notify : WatchType]
IsNotice(m) == "notify" \in DOMAIN m

\* Maps of maps: types without subscribers have no entry.
MapOfSets(S) == UNION {[D -> (SUBSET S) \ {{}}] : D \in SUBSET WatchType}

TypeOK ==
    /\ watcherss \in MapOfSets(Actor)
    /\ queuess \in MapOfSets(OuterQueue)
    /\ stopInterval \in {"default", "never", "10s"}
    /\ mailbox \in Seq(Ask \cup Notice)
    /\ wire \in Seq(Request)
    /\ watched \subseteq WatchType
    /\ news \in Seq(WatchType)
    /\ up \in BOOLEAN
    /\ closedQueues \subseteq OuterQueue
    /\ faults \in 0 .. MaxFaults
    /\ wants \in [WatchType -> SUBSET Subscriber]
    /\ lost \subseteq WatchType
    /\ owed \subseteq Subscriber \X WatchType

NoEntries == [t \in {} |-> {}]

Init ==
    /\ watcherss = NoEntries /\ queuess = NoEntries /\ stopInterval = "default"
    /\ mailbox = <<>> /\ wire = <<>> /\ news = <<>>
    /\ watched = {} /\ up = TRUE /\ closedQueues = {} /\ faults = 0
    /\ wants = [t \in WatchType |-> {}]
    /\ lost = {} /\ owed = {}

-----------------------------------------------------------------------------
(* The proxy.                                                              *)

Of(m, t) == IF t \in DOMAIN m THEN m[t] ELSE {}

\* m with the set S for type t: an empty set takes the entry away.
Put(m, t, S) ==
    [u \in {v \in DOMAIN m \cup {t} : v # t \/ S # {}} |-> IF u = t THEN S ELSE m[u]]

Members(t) == Of(watcherss, t) \cup Of(queuess, t)

MutIsWatch(qs, ws, t) == t \in DOMAIN qs

IsWatch(qs, ws, t) == t \in DOMAIN qs \/ t \in DOMAIN ws

\* ctx.Watch and ctx.Unwatch: the router hands the request to the link; the
\* error of a link that is down is logged.
Send(t, on) ==
    IF up THEN wire' = Append(wire, [type |-> t, on |-> on]) /\ lost' = lost \ {t}
    ELSE lost' = lost \cup {t} /\ UNCHANGED wire

MutUpdate(t, qs, ws) ==
    /\ queuess' = qs /\ watcherss' = ws
    /\ LET old == IsWatch(queuess, watcherss, t)
           new == IsWatch(qs, ws, t)
       IN  \/ ~old /\ new /\ stopInterval' = "never" /\ Send(t, TRUE)
           \/ old /\ ~new /\ stopInterval' = "10s" /\ Send(t, FALSE)
           \/ old = new /\ UNCHANGED <<stopInterval, wire, lost>>

MutUpdateSilent(t, qs, ws) ==
    /\ queuess' = qs /\ watcherss' = ws
    /\ LET old == IsWatch(queuess, watcherss, t)
           new == IsWatch(qs, ws, t)
       IN  \/ ~old /\ new /\ stopInterval' = "never" /\ Send(t, TRUE)
           \/ /\ old /\ ~new
              /\ IF DOMAIN qs = {} /\ DOMAIN ws = {}
                 THEN stopInterval' = "10s" /\ Send(t, FALSE)
                 ELSE UNCHANGED <<stopInterval, wire, lost>>
           \/ old = new /\ UNCHANGED <<stopInterval, wire, lost>>

\* The first subscriber of a type makes the proxy watch it, the last one makes
\* it stop; the last one of all makes the proxy stoppable.
Update(t, qs, ws) ==
    /\ queuess' = qs /\ watcherss' = ws
    /\ LET old == IsWatch(queuess, watcherss, t)
           new == IsWatch(qs, ws, t)
       IN  \/ ~old /\ new /\ stopInterval' = "never" /\ Send(t, TRUE)
           \/ /\ old /\ ~new /\ Send(t, FALSE)
              /\ stopInterval' = IF DOMAIN qs = {} /\ DOMAIN ws = {} THEN "10s" ELSE stopInterval
           \/ old = new /\ UNCHANGED <<stopInterval, wire, lost>>

UpdateInnerWatch(t, on, who) ==
    LET old == Of(watcherss, t)
    IN  Update(t, queuess, Put(watcherss, t, IF on THEN old \cup {who} ELSE old \ {who}))

UpdateOuterWatch(t, on, who) ==
    LET old == Of(queuess, t)
    IN  Update(t, Put(queuess, t, IF on THEN old \cup {who} ELSE old \ {who}), watcherss)

HandleAsk ==
    /\ mailbox # <<>> /\ ~IsNotice(Head(mailbox))
    /\ LET m == Head(mailbox)
       IN  IF m.who \in Actor THEN UpdateInnerWatch(m.type, m.on, m.who)
           ELSE UpdateOuterWatch(m.type, m.on, m.who)
    /\ mailbox' = Tail(mailbox)
    /\ UNCHANGED <<news, up, faults, watched, closedQueues, wants, owed>>

MutReached(t) == IF t \in DOMAIN queuess THEN Of(queuess, t) \ closedQueues ELSE Of(watcherss, t)

\* Every queue that takes it, then every actor.
Reached(t) == (Of(queuess, t) \ closedQueues) \cup Of(watcherss, t)

\* A queue that refuses a notification because it is closed loses its
\* subscription; if it was the last of that type, so does the proxy.
HandleNotice ==
    /\ mailbox # <<>> /\ IsNotice(Head(mailbox))
    /\ LET t == Head(mailbox).notify
       IN  /\ Update(t, Put(queuess, t, Of(queuess, t) \ closedQueues), watcherss)
           /\ owed' = owed \ (Reached(t) \X {t})
    /\ mailbox' = Tail(mailbox)
    /\ UNCHANGED <<news, up, faults, watched, closedQueues, wants>>

\* A proxy without messages is stopped, and the next message finds a new one
\* (NewWatchProxy), unless its stop interval is zero.
Stop ==
    /\ stopInterval # "never" /\ mailbox = <<>>
    /\ watcherss' = NoEntries /\ queuess' = NoEntries /\ stopInterval' = "default"
    /\ UNCHANGED <<mailbox, linkVars, watched, closedQueues, wants, lost, owed>>

-----------------------------------------------------------------------------
(* Its surroundings.                                                       *)

RoomForMore == Len(mailbox) + Len(wire) + Len(news) < MaxUnderWay

\* Somebody watches or unwatches: the router sends the proxy a message.
Watch(s, t, on) ==
    /\ RoomForMore
    /\ mailbox' = Append(mailbox, [who |-> s, type |-> t, on |-> on])
    /\ wants' = [wants EXCEPT ![t] = IF on /\ s \notin closedQueues THEN @ \cup {s} ELSE @ \ {s}]
    /\ owed' = IF on THEN owed ELSE owed \ {<<s, t>>}
    /\ UNCHANGED <<proxyVars, linkVars, watched, closedQueues, lost>>

\* The two kinds: an actor, to become an InnerWatch, and a queue, to become an
\* OuterWatch.
EnvelopeWatch(a, t, on)      == a \in Actor /\ Watch(a, t, on)
EnvelopeOuterWatch(q, t, on) == q \in OuterQueue /\ Watch(q, t, on)

CloseQueue(q) ==
    /\ q \notin closedQueues
    /\ closedQueues' = closedQueues \cup {q}
    /\ wants' = [t \in WatchType |-> wants[t] \ {q}]
    /\ owed' = owed \ ({q} \X WatchType)
    /\ UNCHANGED <<proxyVars, mailbox, linkVars, watched, lost>>

\* The watchee's system gives the request to the watchee.
ReceiveRequest ==
    /\ wire # <<>>
    /\ watched' = IF Head(wire).on THEN watched \cup {Head(wire).type}
                  ELSE watched \ {Head(wire).type}
    /\ wire' = Tail(wire)
    /\ UNCHANGED <<proxyVars, mailbox, news, up, faults, closedQueues, wants, lost, owed>>

\* The subscribers of t who have no request about t in the mailbox.
Settled(t) ==
    {s \in Members(t) \ closedQueues :
        \A i \in 1 .. Len(mailbox) :
            IsNotice(mailbox[i]) \/ mailbox[i].who # s \/ mailbox[i].type # t}

\* The watchee notifies those who watch it, the proxy among them.
Notify(t) ==
    /\ RoomForMore /\ t \in watched /\ up
    /\ news' = Append(news, t)
    /\ owed' = owed \cup (Settled(t) \X {t})
    /\ UNCHANGED <<proxyVars, mailbox, wire, up, faults, watched, closedQueues, wants, lost>>

\* A notification that arrives is put into the mailbox of the proxy.
ReceiveNotice ==
    /\ news # <<>>
    /\ mailbox' = Append(mailbox, [notify |-> Head(news)])
    /\ news' = Tail(news)
    /\ UNCHANGED <<proxyVars, wire, up, faults, watched, closedQueues, wants, lost, owed>>

NoticeInMailbox(t) ==
    \E i \in 1 .. Len(mailbox) : IsNotice(mailbox[i]) /\ mailbox[i].notify = t

\* The connection ends and with it everything on it; the watchee keeps the
\* subscription, unless its system has restarted.
LoseLink ==
    /\ faults < MaxFaults /\ faults' = faults + 1
    /\ up' = FALSE /\ wire' = <<>> /\ news' = <<>>
    /\ owed' = {d \in owed : NoticeInMailbox(d[2])}
    /\ UNCHANGED <<proxyVars, mailbox, closedQueues, wants>>

Dropped == {wire[i].type : i \in 1 .. Len(wire)}

Break == up /\ LoseLink /\ lost' = lost \cup Dropped /\ UNCHANGED watched

Restart == LoseLink /\ lost' = lost \cup Dropped \cup watched /\ watched' = {}

Reconnect ==
    /\ ~up /\ up' = TRUE
    /\ UNCHANGED <<proxyVars, mailbox, wire, news, faults, watched, closedQueues, wants, lost, owed>>

Next ==
    \/ HandleAsk \/ HandleNotice \/ Stop
    \/ \E s \in Subscriber, t \in WatchType, on \in BOOLEAN :
        EnvelopeWatch(s, t, on) \/ EnvelopeOuterWatch(s, t, on)
    \/ \E q \in OuterQueue : CloseQueue(q)
    \/ ReceiveRequest \/ ReceiveNotice
    \/ \E t \in WatchType : Notify(t)
    \/ Break \/ Restart \/ Reconnect

\* The proxy works its mailbox off, and what is on the link arrives.  Nobody has
\* to watch, to notify or to reconnect.
Fairness ==
    /\ WF_vars(HandleAsk) /\ WF_vars(HandleNotice)
    /\ WF_vars(ReceiveRequest) /\ WF_vars(ReceiveNotice)

Spec == Init /\ [][Next]_vars
FairSpec == Spec /\ Fairness

-----------------------------------------------------------------------------
(* Properties.                                                             *)

\* The proxy cannot be stopped, and its subscribers forgotten, while there are
\* any, of whatever type and kind; and it can when there are none.
KeptWhileWatched ==
    stopInterval = "never" <=> DOMAIN watcherss \cup DOMAIN queuess # {}

\* What the watchee is going to think of type t: the last request on its way,
\* or else what it thinks now.
WillBeWatched(t) ==
    \/ \E i \in 1 .. Len(wire) :
        /\ wire[i].type = t /\ wire[i].on
        /\ \A j \in i + 1 .. Len(wire) : wire[j].type # t
    \/ t \in watched /\ t \notin Dropped

\* The watchee notifies the proxy of exactly the types somebody here watches, as
\* soon as it has been told.  Only a request that was refused or dropped makes
\* the two differ, and the next one that gets through puts it right.
WatcheeFollows ==
    \A t \in WatchType \ lost :
        WillBeWatched(t) <=> Members(t) # {}

\* A subscriber is never left out: as long as it does not unsubscribe and the
\* link holds, a notification sent after its subscription was in place reaches
\* it, whatever the other subscribers of the proxy do meanwhile.
NobodyLeftOut ==
    \A d \in owed :
        /\ d[1] \in Members(d[2])
        /\ NoticeInMailbox(d[2]) \/ \E i \in 1 .. Len(news) : news[i] = d[2]

\* In the end the watchee knows what the subscribers have asked for: it notifies
\* a type some actor keeps watching, and it does not notify one that nobody
\* watches.  Queues that are closed without being unsubscribed count as watching
\* until a notification finds them closed.
WatcheeLearns ==
    \A t \in WatchType :
        /\ <>[](wants[t] \cap Actor # {} /\ t \notin lost) => <>[](t \in watched)
        /\ <>[](wants[t] = {} /\ closedQueues = {} /\ t \notin lost) => <>[](t \notin watched)
===============================================================================
