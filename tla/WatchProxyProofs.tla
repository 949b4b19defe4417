--------------------------- MODULE WatchProxyProofs ---------------------------
(***************************************************************************)
(* Proofs about WatchProxy, for any watchers, queues, types and bounds: the *)
(* proxy is kept exactly while it has subscribers, the watchee follows it  *)
(* but for lost requests, and nobody is left out.                          *)
(***************************************************************************)
EXTENDS WatchProxy, SequenceTheorems, TLAPS

-----------------------------------------------------------------------------
(* Maps of sets, and messages.                                             *)

LEMMA MapProperties ==
  ASSUME NEW S, NEW m \in MapOfSets(S)
  PROVE  /\ DOMAIN m \subseteq WatchType
         /\ \A t \in WatchType : Of(m, t) \subseteq S /\ (t \in DOMAIN m <=> Of(m, t) # {})
<1>1. PICK D \in SUBSET WatchType : m \in [D -> (SUBSET S) \ {{}}]
  BY DEF MapOfSets
<1> QED BY <1>1 DEF Of

LEMMA EmptyMap ==
  ASSUME NEW S
  PROVE  /\ NoEntries \in MapOfSets(S)
         /\ DOMAIN NoEntries = {}
         /\ \A t \in WatchType : Of(NoEntries, t) = {}
<1>1. NoEntries \in [{} -> (SUBSET S) \ {{}}]
  BY DEF NoEntries
<1>2. {} \in SUBSET WatchType
  OBVIOUS
<1>3. NoEntries \in MapOfSets(S)
  BY <1>1, <1>2 DEF MapOfSets
<1> QED BY <1>1, <1>3 DEF Of

LEMMA PutProperties ==
  ASSUME NEW S, NEW m \in MapOfSets(S), NEW t \in WatchType, NEW X \in SUBSET S
  PROVE  /\ Put(m, t, X) \in MapOfSets(S)
         /\ \A u \in WatchType : Of(Put(m, t, X), u) = IF u = t THEN X ELSE Of(m, u)
<1>1. PICK D \in SUBSET WatchType : m \in [D -> (SUBSET S) \ {{}}]
  BY DEF MapOfSets
<1> DEFINE E == {v \in DOMAIN m \cup {t} : v # t \/ X # {}}
           p == [u \in E |-> IF u = t THEN X ELSE m[u]]
<1>2. E \in SUBSET WatchType /\ Put(m, t, X) = p
  BY <1>1 DEF Put
<1>3. p \in [E -> (SUBSET S) \ {{}}]
  <2>1. \A u \in E : (IF u = t THEN X ELSE m[u]) \in (SUBSET S) \ {{}}
    BY <1>1
  <2> QED BY <2>1
<1>4. p \in MapOfSets(S)
  BY <1>2, <1>3 DEF MapOfSets
<1>5. ASSUME NEW u \in WatchType PROVE Of(p, u) = IF u = t THEN X ELSE Of(m, u)
  <2>1. CASE u \in E
    BY <1>1, <2>1 DEF Of
  <2>2. CASE u \notin E
    BY <1>1, <2>2 DEF Of
  <2> QED BY <2>1, <2>2
<1> QED BY <1>2, <1>4, <1>5

LEMMA Messages ==
  /\ \A m \in Ask : ~IsNotice(m) /\ m.who \in Subscriber /\ m.type \in WatchType /\ m.on \in BOOLEAN
  /\ \A m \in Notice : IsNotice(m) /\ m.notify \in WatchType
  /\ \A t \in WatchType : [notify |-> t] \in Notice /\ [notify |-> t].notify = t
  /\ \A s \in Subscriber, t \in WatchType, on \in BOOLEAN :
        [who |-> s, type |-> t, on |-> on] \in Ask
  BY DEF Ask, Notice, IsNotice

\* No subscribers are no entries.
LEMMA Entries ==
  ASSUME NEW qs \in MapOfSets(OuterQueue), NEW ws \in MapOfSets(Actor), NEW t \in WatchType
  PROVE  IsWatch(qs, ws, t) <=> Of(ws, t) \cup Of(qs, t) # {}
  BY MapProperties DEF IsWatch

-----------------------------------------------------------------------------
(* What the watchee is going to think.                                     *)

LEMMA SendStep ==
  ASSUME wire \in Seq(Request), lost \subseteq WatchType, up \in BOOLEAN,
         NEW t \in WatchType, NEW on \in BOOLEAN, Send(t, on), UNCHANGED watched
  PROVE  /\ wire' \in Seq(Request) /\ lost' \subseteq WatchType
         /\ t \in lost' \/ (WillBeWatched(t)' <=> on)
         /\ \A u \in WatchType \ {t} :
                /\ u \in lost' <=> u \in lost
                /\ WillBeWatched(u)' <=> WillBeWatched(u)
<1>1. CASE ~up
  BY <1>1 DEF Send, WillBeWatched, Dropped
<1>2. CASE up
  <2> DEFINE r == [type |-> t, on |-> on]
             n == Len(wire)
  <2>1. r \in Request /\ r.type = t /\ r.on = on
    BY DEF Request
  <2>2. /\ n \in Nat /\ wire' \in Seq(Request) /\ Len(wire') = n + 1
        /\ \A i \in 1 .. n : wire'[i] = wire[i]
        /\ wire'[n + 1] = r
    BY <1>2, <2>1, AppendProperties, LenProperties DEF Send
  <2>3. lost' = lost \ {t}
    BY <1>2 DEF Send
  <2> HIDE DEF r, n
  <2>4. n + 1 \in 1 .. Len(wire') /\ \A j \in n + 2 .. Len(wire') : FALSE
    BY <2>2
  <2>5. WillBeWatched(t)' <=> on
    <3>1. CASE on
      <4>1. /\ n + 1 \in 1 .. Len(wire')
            /\ \A j \in (n + 1) + 1 .. Len(wire') : wire'[j].type # t
        BY <2>2, <2>4
      <4>2. wire'[n + 1].type = t /\ wire'[n + 1].on
        BY <2>1, <2>2, <3>1, Zenon
      <4>3. WillBeWatched(t)'
        BY <4>1, <4>2 DEF WillBeWatched
      <4> QED BY <3>1, <4>3
    <3>2. CASE ~on
      <4>1. t \in Dropped'
        BY <2>1, <2>2, <2>4 DEF Dropped
      <4>2. ASSUME NEW i \in 1 .. Len(wire'), wire'[i].type = t, wire'[i].on
            PROVE  \E j \in i + 1 .. Len(wire') : wire'[j].type = t
        <5>1. i # n + 1
          BY <2>1, <2>2, <3>2, <4>2
        <5>2. n + 1 \in i + 1 .. Len(wire')
          BY <2>2, <5>1
        <5> QED BY <2>1, <2>2, <5>2
      <4> QED BY <3>2, <4>1, <4>2 DEF WillBeWatched
    <3> QED BY <3>1, <3>2
  <2>6. ASSUME NEW u \in WatchType \ {t}
        PROVE  WillBeWatched(u)' <=> WillBeWatched(u)
    <3>1. u \in Dropped' <=> u \in Dropped
      BY <2>1, <2>2 DEF Dropped, n
    <3>2. ASSUME NEW i \in 1 .. n
          PROVE  (\A j \in i + 1 .. Len(wire') : wire'[j].type # u)
                 <=> (\A j \in i + 1 .. n : wire[j].type # u)
      BY <2>1, <2>2
    <3>3. wire'[n + 1].type # u
      BY <2>1, <2>2
    <3>4. (\E i \in 1 .. Len(wire') : wire'[i].type = u /\ wire'[i].on
                /\ \A j \in i + 1 .. Len(wire') : wire'[j].type # u)
          <=> (\E i \in 1 .. n : wire[i].type = u /\ wire[i].on
                /\ \A j \in i + 1 .. n : wire[j].type # u)
      <4>1. ASSUME NEW i \in 1 .. Len(wire'), wire'[i].type = u
            PROVE  i \in 1 .. n
        BY <2>2, <3>3, <4>1
      <4>2. \A i \in 1 .. n : i \in 1 .. Len(wire')
        BY <2>2
      <4> QED BY <2>2, <3>2, <4>1, <4>2
    <3> QED BY <3>1, <3>4 DEF WillBeWatched, n
  <2> QED BY <2>2, <2>3, <2>5, <2>6
<1> QED BY <1>1, <1>2

LEMMA ReceiveStep ==
  ASSUME wire \in Seq(Request), watched \subseteq WatchType, ReceiveRequest
  PROVE  /\ wire' \in Seq(Request) /\ watched' \subseteq WatchType
         /\ \A u \in WatchType : WillBeWatched(u)' <=> WillBeWatched(u)
<1> DEFINE n == Len(wire)
           h == Head(wire)
<1>1. /\ wire # <<>> /\ wire' = Tail(wire)
      /\ watched' = IF h.on THEN watched \cup {h.type} ELSE watched \ {h.type}
  BY DEF ReceiveRequest
<1>2. /\ n \in Nat \ {0} /\ wire' \in Seq(Request) /\ Len(wire') = n - 1
      /\ \A i \in 1 .. n - 1 : wire'[i] = wire[i + 1]
      /\ h = wire[1] /\ h.type \in WatchType /\ h.on \in BOOLEAN
  <2>1. h = wire[1] /\ h \in Request
    BY <1>1, HeadTailProperties
  <2> QED BY <1>1, <2>1, HeadTailProperties, EmptySeq DEF Request
<1> HIDE DEF n, h
<1>3. watched' \subseteq WatchType
  BY <1>1, <1>2
<1>4. ASSUME NEW u \in WatchType PROVE WillBeWatched(u)' <=> WillBeWatched(u)
  <2> DEFINE Last(i) == \A j \in i + 1 .. n : wire[j].type # u
  <2>1. ASSUME NEW i \in 1 .. n - 1
        PROVE  (\A j \in i + 1 .. n - 1 : wire'[j].type # u) <=> Last(i + 1)
    <3>1. ASSUME NEW j \in i + 1 .. n - 1 PROVE j + 1 \in i + 2 .. n /\ wire'[j] = wire[j + 1]
      BY <1>2
    <3>2. ASSUME NEW k \in i + 2 .. n
          PROVE  k - 1 \in i + 1 .. n - 1 /\ (k - 1) + 1 = k /\ wire'[k - 1] = wire[k]
      <4>1. k - 1 \in 1 .. n - 1 /\ (k - 1) + 1 = k /\ k - 1 \in i + 1 .. n - 1
        BY <1>2
      <4> QED BY <1>2, <4>1
    <3>3. (i + 1) + 1 = i + 2
      BY <1>2
    <3> QED BY <3>1, <3>2, <3>3
  <2>2. (\E i \in 1 .. n - 1 : wire'[i].type = u /\ wire'[i].on
            /\ \A j \in i + 1 .. n - 1 : wire'[j].type # u)
        <=> (\E k \in 2 .. n : wire[k].type = u /\ wire[k].on /\ Last(k))
    <3>1. \A i \in 1 .. n - 1 : i + 1 \in 2 .. n /\ wire'[i] = wire[i + 1]
      BY <1>2
    <3>2. ASSUME NEW k \in 2 .. n PROVE k - 1 \in 1 .. n - 1 /\ (k - 1) + 1 = k
      BY <1>2
    <3> QED BY <2>1, <3>1, <3>2
  <2>3. u \in Dropped' <=> \E k \in 2 .. n : wire[k].type = u
    <3>1. \A i \in 1 .. n - 1 : i + 1 \in 2 .. n /\ wire'[i] = wire[i + 1]
      BY <1>2
    <3>2. ASSUME NEW k \in 2 .. n PROVE k - 1 \in 1 .. n - 1 /\ (k - 1) + 1 = k
      BY <1>2
    <3>3. u \in Dropped' <=> \E i \in 1 .. n - 1 : wire'[i].type = u
      BY <1>2 DEF Dropped
    <3> QED BY <3>1, <3>2, <3>3
  <2>4. u \in Dropped <=> h.type = u \/ \E k \in 2 .. n : wire[k].type = u
    <3>1. 1 .. n = {1} \cup 2 .. n
      BY <1>2
    <3> QED BY <1>2, <3>1 DEF Dropped, n
  <2>5. Last(1) <=> ~\E k \in 2 .. n : wire[k].type = u
    OBVIOUS
  <2>6. (\E i \in 1 .. n : wire[i].type = u /\ wire[i].on /\ Last(i))
        <=> \/ h.type = u /\ h.on /\ Last(1)
            \/ \E k \in 2 .. n : wire[k].type = u /\ wire[k].on /\ Last(k)
    <3>1. 1 .. n = {1} \cup 2 .. n
      BY <1>2
    <3> HIDE DEF Last
    <3> QED BY <1>2, <3>1
  <2>7. WillBeWatched(u) <=>
            \/ \E i \in 1 .. n : wire[i].type = u /\ wire[i].on /\ Last(i)
            \/ u \in watched /\ u \notin Dropped
    BY DEF WillBeWatched, n
  <2>8. WillBeWatched(u)' <=>
            \/ \E i \in 1 .. n - 1 : wire'[i].type = u /\ wire'[i].on
                    /\ \A j \in i + 1 .. n - 1 : wire'[j].type # u
            \/ u \in watched' /\ u \notin Dropped'
    BY <1>2 DEF WillBeWatched
  <2>9. u \in watched' <=> (h.type = u /\ h.on) \/ (h.type # u /\ u \in watched)
    BY <1>1, <1>2
  <2>10. (\E k \in 2 .. n : wire[k].type = u /\ wire[k].on /\ Last(k))
            => \E k \in 2 .. n : wire[k].type = u
    OBVIOUS
  <2> HIDE DEF Last
  <2> QED BY <2>2, <2>3, <2>4, <2>5, <2>6, <2>7, <2>8, <2>9, <2>10
<1> QED BY <1>2, <1>3, <1>4

-----------------------------------------------------------------------------
(* The proxy.                                                              *)

Changes(t, qs, ws) ==
    /\ qs \in MapOfSets(OuterQueue) /\ ws \in MapOfSets(Actor)
    /\ \A u \in WatchType \ {t} : Of(qs, u) = Of(queuess, u) /\ Of(ws, u) = Of(watcherss, u)

LEMMA UpdateStep ==
  ASSUME TypeOK, KeptWhileWatched, WatcheeFollows,
         NEW t \in WatchType, NEW qs, NEW ws, Changes(t, qs, ws),
         Update(t, qs, ws), UNCHANGED <<up, watched>>
  PROVE  /\ watcherss' \in MapOfSets(Actor) /\ queuess' \in MapOfSets(OuterQueue)
         /\ stopInterval' \in {"default", "never", "10s"}
         /\ wire' \in Seq(Request) /\ lost' \subseteq WatchType
         /\ KeptWhileWatched' /\ WatcheeFollows'
<1> DEFINE old == IsWatch(queuess, watcherss, t)
           new == IsWatch(qs, ws, t)
<1>1. /\ queuess' = qs /\ watcherss' = ws
      /\ watcherss \in MapOfSets(Actor) /\ queuess \in MapOfSets(OuterQueue)
      /\ ws \in MapOfSets(Actor) /\ qs \in MapOfSets(OuterQueue)
      /\ wire \in Seq(Request) /\ lost \subseteq WatchType /\ up \in BOOLEAN
      /\ stopInterval \in {"default", "never", "10s"}
  BY DEF Update, TypeOK, Changes
<1>2. \A u \in WatchType :
        /\ IsWatch(queuess, watcherss, u) <=> Members(u) # {}
        /\ IsWatch(qs, ws, u) <=> Members(u)' # {}
  BY <1>1, Entries DEF Members
<1>3. \A u \in WatchType \ {t} : Members(u)' = Members(u)
  BY <1>1 DEF Members, Changes
<1>4. old <=> t \in DOMAIN queuess \cup DOMAIN watcherss
  BY DEF IsWatch
<1>5. new <=> t \in DOMAIN qs \cup DOMAIN ws
  BY DEF IsWatch
<1>6. \A u \in WatchType \ {t} :
        u \in DOMAIN queuess \cup DOMAIN watcherss <=> u \in DOMAIN qs \cup DOMAIN ws
  BY <1>2, <1>3 DEF IsWatch
<1>7. /\ DOMAIN queuess \cup DOMAIN watcherss \subseteq WatchType
      /\ DOMAIN qs \cup DOMAIN ws \subseteq WatchType
  BY <1>1, MapProperties
<1>8. \A u \in WatchType : u \notin lost => (WillBeWatched(u) <=> Members(u) # {})
  BY DEF WatcheeFollows
<1> HIDE DEF old, new
<1>9. CASE ~old /\ new
  <2>1. stopInterval' = "never" /\ Send(t, TRUE)
    BY <1>9 DEF Update, old, new
  <2>2. /\ wire' \in Seq(Request) /\ lost' \subseteq WatchType
        /\ t \in lost' \/ WillBeWatched(t)'
        /\ \A u \in WatchType \ {t} :
            (u \in lost' <=> u \in lost) /\ (WillBeWatched(u)' <=> WillBeWatched(u))
    BY <1>1, <2>1, SendStep
  <2>3. KeptWhileWatched'
    BY <1>1, <1>5, <1>9, <2>1 DEF KeptWhileWatched
  <2>4. WatcheeFollows'
    BY <1>2, <1>3, <1>8, <1>9, <2>2 DEF WatcheeFollows, new
  <2> QED BY <1>1, <2>1, <2>2, <2>3, <2>4
<1>10. CASE old /\ ~new
  <2>1. /\ Send(t, FALSE)
        /\ stopInterval' = IF DOMAIN qs = {} /\ DOMAIN ws = {} THEN "10s" ELSE stopInterval
    BY <1>10 DEF Update, old, new
  <2>2. /\ wire' \in Seq(Request) /\ lost' \subseteq WatchType
        /\ t \in lost' \/ ~WillBeWatched(t)'
        /\ \A u \in WatchType \ {t} :
            (u \in lost' <=> u \in lost) /\ (WillBeWatched(u)' <=> WillBeWatched(u))
    BY <1>1, <2>1, SendStep
  <2>3. KeptWhileWatched'
    BY <1>1, <1>4, <1>10, <2>1 DEF KeptWhileWatched
  <2>4. WatcheeFollows'
    BY <1>2, <1>3, <1>8, <1>10, <2>2 DEF WatcheeFollows, new
  <2> QED BY <1>1, <2>1, <2>2, <2>3, <2>4
<1>11. CASE old <=> new
  <2>1. UNCHANGED <<stopInterval, wire, lost>>
    BY <1>11 DEF Update, old, new
  <2>2. DOMAIN queuess \cup DOMAIN watcherss = DOMAIN qs \cup DOMAIN ws
    BY <1>4, <1>5, <1>6, <1>7, <1>11
  <2>3. KeptWhileWatched'
    BY <1>1, <2>1, <2>2 DEF KeptWhileWatched
  <2>4. \A u \in WatchType : WillBeWatched(u)' <=> WillBeWatched(u)
    BY <2>1 DEF WillBeWatched, Dropped
  <2>5. \A u \in WatchType : Members(u)' # {} <=> Members(u) # {}
    BY <1>2, <1>3, <1>11 DEF old, new
  <2>6. WatcheeFollows'
    BY <1>8, <2>1, <2>4, <2>5 DEF WatcheeFollows
  <2> QED BY <1>1, <2>1, <2>3, <2>6
<1> QED BY <1>9, <1>10, <1>11

\* Asking and refusing change the map of one kind at one type.
LEMMA ChangesOuter ==
  ASSUME TypeOK, NEW t \in WatchType, NEW X \in SUBSET OuterQueue
  PROVE  Changes(t, Put(queuess, t, X), watcherss)
  BY PutProperties DEF Changes, TypeOK

LEMMA ChangesInner ==
  ASSUME TypeOK, NEW t \in WatchType, NEW X \in SUBSET Actor
  PROVE  Changes(t, queuess, Put(watcherss, t, X))
  BY PutProperties DEF Changes, TypeOK

-----------------------------------------------------------------------------
(* The mailbox.                                                            *)

LEMMA FirstMessage ==
  ASSUME TypeOK, mailbox # <<>>, mailbox' = Tail(mailbox)
  PROVE  /\ mailbox' \in Seq(Ask \cup Notice) /\ Head(mailbox) \in Ask \cup Notice
         /\ Len(mailbox) \in Nat \ {0} /\ Len(mailbox') = Len(mailbox) - 1
         /\ Head(mailbox) = mailbox[1]
         /\ \A i \in 1 .. Len(mailbox') : mailbox'[i] = mailbox[i + 1]
<1>1. mailbox \in Seq(Ask \cup Notice)
  BY DEF TypeOK
<1> QED BY <1>1, HeadTailProperties, EmptySeq

LEMMA AppendMessage ==
  ASSUME TypeOK, NEW m \in Ask \cup Notice, mailbox' = Append(mailbox, m)
  PROVE  /\ mailbox' \in Seq(Ask \cup Notice)
         /\ Len(mailbox) \in Nat /\ Len(mailbox') = Len(mailbox) + 1
         /\ \A i \in 1 .. Len(mailbox) : mailbox'[i] = mailbox[i]
         /\ mailbox'[Len(mailbox) + 1] = m
<1>1. mailbox \in Seq(Ask \cup Notice)
  BY DEF TypeOK
<1> QED BY <1>1, AppendProperties, LenProperties

-----------------------------------------------------------------------------
(* The invariant: a subscriber that is due a notification is subscribed, at *)
(* an open queue, does not unsubscribe in the mailbox, and the notification *)
(* is under way.                                                            *)

Quiet(s, t) ==
    \A i \in 1 .. Len(mailbox) :
        \/ IsNotice(mailbox[i])
        \/ mailbox[i].who # s \/ mailbox[i].type # t \/ mailbox[i].on

Coming(t) == NoticeInMailbox(t) \/ \E i \in 1 .. Len(news) : news[i] = t

Due ==
    \A s \in Subscriber, t \in WatchType : <<s, t>> \in owed =>
        s \in Members(t) /\ s \notin closedQueues /\ Quiet(s, t) /\ Coming(t)

Sound == TypeOK /\ KeptWhileWatched /\ WatcheeFollows /\ Due

LEMMA Frame ==
  /\ KeptWhileWatched /\ UNCHANGED proxyVars => KeptWhileWatched'
  /\ WatcheeFollows /\ UNCHANGED <<proxyVars, wire, watched, lost>> => WatcheeFollows'
  BY DEF KeptWhileWatched, WatcheeFollows, WillBeWatched, Dropped, Members, Of, proxyVars

\* The first message is gone: what is not the notification of t in front stays.
LEMMA AfterFirst ==
  ASSUME TypeOK, mailbox # <<>>, mailbox' = Tail(mailbox), UNCHANGED news,
         NEW s \in Subscriber, NEW t \in WatchType
  PROVE  /\ Quiet(s, t) => Quiet(s, t)'
         /\ Coming(t) /\ ~(IsNotice(Head(mailbox)) /\ Head(mailbox).notify = t) => Coming(t)'
<1> DEFINE n == Len(mailbox)
<1>1. /\ n \in Nat \ {0} /\ Len(mailbox') = n - 1 /\ Head(mailbox) = mailbox[1]
      /\ \A i \in 1 .. n - 1 : i + 1 \in 1 .. n /\ mailbox'[i] = mailbox[i + 1]
  BY FirstMessage
<1>2. Quiet(s, t) => Quiet(s, t)'
  BY <1>1 DEF Quiet
<1>3. ASSUME NoticeInMailbox(t), ~(IsNotice(Head(mailbox)) /\ Head(mailbox).notify = t)
      PROVE  NoticeInMailbox(t)'
  <2>1. PICK i \in 1 .. n : IsNotice(mailbox[i]) /\ mailbox[i].notify = t
    BY <1>3 DEF NoticeInMailbox
  <2>2. i # 1
    BY <1>1, <1>3, <2>1
  <2>3. i - 1 \in 1 .. n - 1 /\ (i - 1) + 1 = i
    BY <1>1, <2>2
  <2>4. mailbox'[i - 1] = mailbox[i]
    BY <1>1, <2>3
  <2> QED BY <1>1, <2>1, <2>3, <2>4 DEF NoticeInMailbox
<1> QED BY <1>2, <1>3 DEF Coming

\* One message more: what was quiet stays quiet unless it is an unwatch.
LEMMA AfterLast ==
  ASSUME TypeOK, NEW m \in Ask \cup Notice, mailbox' = Append(mailbox, m),
         NEW s \in Subscriber, NEW t \in WatchType
  PROVE  /\ Quiet(s, t) /\ (IsNotice(m) \/ m.who # s \/ m.type # t \/ m.on) => Quiet(s, t)'
         /\ NoticeInMailbox(t) \/ (IsNotice(m) /\ m.notify = t) => NoticeInMailbox(t)'
<1> DEFINE n == Len(mailbox)
<1>1. /\ n \in Nat /\ Len(mailbox') = n + 1 /\ mailbox'[n + 1] = m
      /\ \A i \in 1 .. n : i \in 1 .. n + 1 /\ mailbox'[i] = mailbox[i]
      /\ n + 1 \in 1 .. n + 1
  BY AppendMessage
<1>2. ASSUME Quiet(s, t), IsNotice(m) \/ m.who # s \/ m.type # t \/ m.on PROVE Quiet(s, t)'
  <2>1. ASSUME NEW i \in 1 .. n + 1
        PROVE  \/ IsNotice(mailbox'[i])
               \/ mailbox'[i].who # s \/ mailbox'[i].type # t \/ mailbox'[i].on
    <3>1. CASE i = n + 1
      BY <1>1, <1>2, <3>1
    <3>2. CASE i # n + 1
      <4>1. i \in 1 .. n
        BY <1>1, <3>2
      <4> QED BY <1>1, <1>2, <4>1 DEF Quiet
    <3> QED BY <3>1, <3>2
  <2> QED BY <1>1, <2>1 DEF Quiet
<1>3. NoticeInMailbox(t) \/ (IsNotice(m) /\ m.notify = t) => NoticeInMailbox(t)'
  BY <1>1 DEF NoticeInMailbox
<1> QED BY <1>2, <1>3

LEMMA SoundHandleAsk ==
  ASSUME Sound, HandleAsk
  PROVE  Sound'
<1> DEFINE m == Head(mailbox)
           t == m.type
           inner == IF m.on THEN Of(watcherss, t) \cup {m.who} ELSE Of(watcherss, t) \ {m.who}
           outer == IF m.on THEN Of(queuess, t) \cup {m.who} ELSE Of(queuess, t) \ {m.who}
<1>1. /\ TypeOK /\ KeptWhileWatched /\ WatcheeFollows /\ Due
      /\ mailbox # <<>> /\ mailbox' = Tail(mailbox) /\ ~IsNotice(m)
      /\ UNCHANGED <<news, up, faults, watched, closedQueues, wants, owed>>
  BY DEF Sound, HandleAsk
<1>2. mailbox' \in Seq(Ask \cup Notice) /\ m \in Ask
  BY <1>1, FirstMessage, Messages
<1>3. m.who \in Subscriber /\ t \in WatchType /\ m.on \in BOOLEAN
  BY <1>2, Messages
<1>4. Of(watcherss, t) \subseteq Actor /\ Of(queuess, t) \subseteq OuterQueue
  BY <1>1, <1>3, MapProperties DEF TypeOK
<1>5. PICK qs, ws :
        /\ Changes(t, qs, ws) /\ Update(t, qs, ws)
        /\ Of(ws, t) = IF m.who \in Actor THEN inner ELSE Of(watcherss, t)
        /\ Of(qs, t) = IF m.who \in Actor THEN Of(queuess, t) ELSE outer
  <2>1. CASE m.who \in Actor
    <3>1. inner \in SUBSET Actor
      BY <1>4, <2>1
    <3>2. Update(t, queuess, Put(watcherss, t, inner))
      BY <2>1 DEF HandleAsk, UpdateInnerWatch
    <3>3. Of(Put(watcherss, t, inner), t) = inner
      BY <1>1, <1>3, <3>1, PutProperties DEF TypeOK
    <3> QED BY <1>1, <1>3, <2>1, <3>1, <3>2, <3>3, ChangesInner
  <2>2. CASE m.who \notin Actor
    <3>1. outer \in SUBSET OuterQueue
      BY <1>3, <1>4, <2>2 DEF Subscriber
    <3>2. Update(t, Put(queuess, t, outer), watcherss)
      BY <2>2 DEF HandleAsk, UpdateOuterWatch
    <3>3. Of(Put(queuess, t, outer), t) = outer
      BY <1>1, <1>3, <3>1, PutProperties DEF TypeOK
    <3> QED BY <1>1, <1>3, <2>2, <3>1, <3>2, <3>3, ChangesOuter
  <2> QED BY <2>1, <2>2
<1>6. /\ watcherss' \in MapOfSets(Actor) /\ queuess' \in MapOfSets(OuterQueue)
      /\ stopInterval' \in {"default", "never", "10s"}
      /\ wire' \in Seq(Request) /\ lost' \subseteq WatchType
      /\ KeptWhileWatched' /\ WatcheeFollows'
  BY <1>1, <1>3, <1>5, UpdateStep
<1>7. TypeOK'
  BY <1>1, <1>2, <1>6 DEF TypeOK
<1>8. ASSUME NEW s \in Subscriber, NEW u \in WatchType, <<s, u>> \in owed
      PROVE  s \in Members(u)' /\ s \notin closedQueues' /\ Quiet(s, u)' /\ Coming(u)'
  <2>1. s \in Members(u) /\ s \notin closedQueues /\ Quiet(s, u) /\ Coming(u)
    BY <1>1, <1>8 DEF Due
  <2>2. Quiet(s, u)' /\ Coming(u)'
    BY <1>1, <2>1, AfterFirst
  <2>3. Members(u)' = Of(ws, u) \cup Of(qs, u)
    BY <1>5 DEF Update, Members
  <2>4. CASE u # t
    <3>1. Members(u)' = Members(u)
      BY <1>5, <2>3, <2>4 DEF Members, Changes
    <3> QED BY <1>1, <2>1, <2>2, <3>1
  <2>5. CASE u = t
    <3>1. m.on \/ m.who # s
      <4>1. mailbox[1] = m /\ 1 \in 1 .. Len(mailbox)
        BY <1>1, FirstMessage
      <4> QED BY <1>1, <2>1, <2>5, <4>1 DEF Quiet
    <3>2. s \in Of(watcherss, t) \/ s \in Of(queuess, t)
      BY <2>1, <2>5 DEF Members
    <3>3. s \in Of(ws, t) \/ s \in Of(qs, t)
      BY <1>5, <3>1, <3>2
    <3> QED BY <1>1, <2>1, <2>2, <2>3, <2>5, <3>3
  <2> QED BY <2>4, <2>5
<1>9. Due'
  BY <1>1, <1>8 DEF Due
<1> QED BY <1>6, <1>7, <1>9 DEF Sound

LEMMA SoundHandleNotice ==
  ASSUME Sound, HandleNotice
  PROVE  Sound'
<1> DEFINE m == Head(mailbox)
           t == m.notify
           left == Of(queuess, t) \ closedQueues
           qs == Put(queuess, t, left)
<1>1. /\ TypeOK /\ KeptWhileWatched /\ WatcheeFollows /\ Due
      /\ mailbox # <<>> /\ mailbox' = Tail(mailbox) /\ IsNotice(m)
      /\ Update(t, qs, watcherss)
      /\ owed' = owed \ (Reached(t) \X {t})
      /\ UNCHANGED <<news, up, faults, watched, closedQueues, wants>>
  BY DEF Sound, HandleNotice
<1>2. mailbox' \in Seq(Ask \cup Notice) /\ t \in WatchType
  BY <1>1, FirstMessage, Messages
<1>3. left \in SUBSET OuterQueue
  BY <1>1, <1>2, MapProperties DEF TypeOK
<1>4. /\ watcherss' \in MapOfSets(Actor) /\ queuess' \in MapOfSets(OuterQueue)
      /\ stopInterval' \in {"default", "never", "10s"}
      /\ wire' \in Seq(Request) /\ lost' \subseteq WatchType
      /\ KeptWhileWatched' /\ WatcheeFollows'
  BY <1>1, <1>2, <1>3, ChangesOuter, UpdateStep
<1>5. TypeOK'
  BY <1>1, <1>2, <1>4 DEF TypeOK
<1>6. ASSUME NEW s \in Subscriber, NEW u \in WatchType, <<s, u>> \in owed'
      PROVE  s \in Members(u)' /\ s \notin closedQueues' /\ Quiet(s, u)' /\ Coming(u)'
  <2>1. /\ <<s, u>> \in owed /\ s \in Members(u) /\ s \notin closedQueues
        /\ Quiet(s, u) /\ Coming(u)
    BY <1>1, <1>6 DEF Due
  <2>2. u # t
    <3> SUFFICES ASSUME u = t PROVE s \in Reached(t)
      BY <1>1, <1>6
    <3> QED BY <2>1 DEF Reached, Members
  <2>3. Quiet(s, u)' /\ Coming(u)'
    BY <1>1, <2>1, <2>2, AfterFirst
  <2>4. Members(u)' = Members(u)
    <3>1. Of(qs, u) = Of(queuess, u)
      BY SMTT(30), <1>1, <1>2, <1>3, <2>2, PutProperties DEF TypeOK
    <3> QED BY <1>1, <3>1 DEF Update, Members
  <2> QED BY <1>1, <2>1, <2>3, <2>4
<1>7. Due'
  BY <1>6 DEF Due
<1> QED BY <1>4, <1>5, <1>7 DEF Sound

LEMMA SoundStop ==
  ASSUME Sound, Stop
  PROVE  Sound'
<1>1. /\ TypeOK /\ KeptWhileWatched /\ WatcheeFollows /\ Due
      /\ stopInterval # "never" /\ mailbox = <<>>
      /\ watcherss' = NoEntries /\ queuess' = NoEntries /\ stopInterval' = "default"
      /\ UNCHANGED <<mailbox, wire, news, up, faults, watched, closedQueues, wants, lost, owed>>
  BY DEF Sound, Stop, linkVars
<1>2. TypeOK'
  BY <1>1, EmptyMap DEF TypeOK
<1>3. \A t \in WatchType : Members(t) = {} /\ Members(t)' = {}
  <2>1. DOMAIN watcherss = {} /\ DOMAIN queuess = {}
    BY <1>1 DEF KeptWhileWatched
  <2> QED BY <1>1, <2>1, EmptyMap DEF Members, Of
<1>4. KeptWhileWatched'
  BY <1>1, EmptyMap DEF KeptWhileWatched
<1>5. WatcheeFollows'
  <2>1. \A t \in WatchType : WillBeWatched(t)' <=> WillBeWatched(t)
    BY <1>1 DEF WillBeWatched, Dropped
  <2> QED BY <1>1, <1>3, <2>1 DEF WatcheeFollows
<1>6. Due'
  BY <1>1, <1>3 DEF Due
<1> QED BY <1>2, <1>4, <1>5, <1>6 DEF Sound

LEMMA SoundWatch ==
  ASSUME Sound, NEW s \in Subscriber, NEW t \in WatchType, NEW on \in BOOLEAN, Watch(s, t, on)
  PROVE  Sound'
<1> DEFINE m == [who |-> s, type |-> t, on |-> on]
<1>1. /\ TypeOK /\ KeptWhileWatched /\ WatcheeFollows /\ Due
      /\ mailbox' = Append(mailbox, m)
      /\ owed' = IF on THEN owed ELSE owed \ {<<s, t>>}
      /\ UNCHANGED <<proxyVars, wire, news, up, faults, watched, closedQueues, lost>>
  BY DEF Sound, Watch, linkVars
<1>2. m \in Ask \cup Notice /\ m.who = s /\ m.type = t /\ m.on = on
  BY Messages
<1>3. wants' \in [WatchType -> SUBSET Subscriber]
  BY <1>1 DEF Watch, TypeOK
<1>4. TypeOK'
  BY <1>1, <1>2, <1>3, AppendMessage DEF TypeOK, proxyVars
<1>5. KeptWhileWatched' /\ WatcheeFollows'
  BY <1>1, Frame
<1>6. ASSUME NEW r \in Subscriber, NEW u \in WatchType, <<r, u>> \in owed'
      PROVE  r \in Members(u)' /\ r \notin closedQueues' /\ Quiet(r, u)' /\ Coming(u)'
  <2>1. <<r, u>> \in owed /\ (on \/ r # s \/ u # t)
    BY <1>1, <1>6
  <2>2. r \in Members(u) /\ r \notin closedQueues /\ Quiet(r, u) /\ Coming(u)
    BY <1>1, <2>1 DEF Due
  <2>3. Quiet(r, u)' /\ Coming(u)'
    <3>1. m.who # r \/ m.type # u \/ m.on
      BY <1>2, <2>1, Zenon
    <3> QED BY <1>1, <1>2, <2>2, <3>1, AfterLast DEF Coming
  <2>4. Members(u)' = Members(u)
    BY <1>1 DEF proxyVars, Members
  <2> QED BY <1>1, <2>2, <2>3, <2>4
<1>7. Due'
  BY <1>6 DEF Due
<1> QED BY <1>4, <1>5, <1>7 DEF Sound

LEMMA SoundCloseQueue ==
  ASSUME Sound, NEW q \in OuterQueue, CloseQueue(q)
  PROVE  Sound'
<1>1. /\ TypeOK /\ KeptWhileWatched /\ WatcheeFollows /\ Due
      /\ closedQueues' = closedQueues \cup {q}
      /\ wants' = [t \in WatchType |-> wants[t] \ {q}]
      /\ owed' = owed \ ({q} \X WatchType)
      /\ UNCHANGED <<proxyVars, mailbox, wire, news, up, faults, watched, lost>>
  BY DEF Sound, CloseQueue, linkVars
<1>2. TypeOK'
  BY <1>1 DEF TypeOK, proxyVars
<1>3. KeptWhileWatched' /\ WatcheeFollows'
  BY <1>1, Frame
<1>4. ASSUME NEW s \in Subscriber, NEW t \in WatchType, <<s, t>> \in owed'
      PROVE  s \in Members(t)' /\ s \notin closedQueues' /\ Quiet(s, t)' /\ Coming(t)'
  <2>1. <<s, t>> \in owed /\ s # q
    BY <1>1, <1>4
  <2>2. s \in Members(t) /\ s \notin closedQueues /\ Quiet(s, t) /\ Coming(t)
    BY <1>1, <2>1 DEF Due
  <2> QED BY <1>1, <2>1, <2>2 DEF proxyVars, Members, Quiet, Coming, NoticeInMailbox
<1>5. Due'
  BY <1>4 DEF Due
<1> QED BY <1>2, <1>3, <1>5 DEF Sound

LEMMA SoundReceiveRequest ==
  ASSUME Sound, ReceiveRequest
  PROVE  Sound'
<1>1. /\ TypeOK /\ KeptWhileWatched /\ WatcheeFollows /\ Due
      /\ UNCHANGED <<proxyVars, mailbox, news, up, faults, closedQueues, wants, lost, owed>>
  BY DEF Sound, ReceiveRequest
<1>2. /\ wire' \in Seq(Request) /\ watched' \subseteq WatchType
      /\ \A t \in WatchType : WillBeWatched(t)' <=> WillBeWatched(t)
  BY <1>1, ReceiveStep DEF TypeOK
<1>3. TypeOK'
  BY <1>1, <1>2 DEF TypeOK, proxyVars
<1>4. KeptWhileWatched'
  BY <1>1, Frame
<1>5. \A t \in WatchType : Members(t)' = Members(t)
  BY <1>1 DEF proxyVars, Members
<1>6. WatcheeFollows'
  BY <1>1, <1>2, <1>5 DEF WatcheeFollows
<1>7. Due'
  BY <1>1, <1>5 DEF Due, Quiet, Coming, NoticeInMailbox
<1> QED BY <1>3, <1>4, <1>6, <1>7 DEF Sound

LEMMA SoundNotify ==
  ASSUME Sound, NEW t \in WatchType, Notify(t)
  PROVE  Sound'
<1>1. /\ TypeOK /\ KeptWhileWatched /\ WatcheeFollows /\ Due
      /\ news' = Append(news, t)
      /\ owed' = owed \cup (Settled(t) \X {t})
      /\ UNCHANGED <<proxyVars, mailbox, wire, up, faults, watched, closedQueues, wants, lost>>
  BY DEF Sound, Notify
<1>2. /\ news' \in Seq(WatchType) /\ Len(news) \in Nat /\ Len(news') = Len(news) + 1
      /\ \A i \in 1 .. Len(news) : news'[i] = news[i]
      /\ news'[Len(news) + 1] = t
  BY <1>1, AppendProperties, LenProperties DEF TypeOK
<1>3. Settled(t) \subseteq Subscriber
  BY <1>1, MapProperties DEF Settled, Members, Subscriber, TypeOK
<1>4. TypeOK'
  BY <1>1, <1>2, <1>3 DEF TypeOK, proxyVars
<1>5. KeptWhileWatched' /\ WatcheeFollows'
  BY <1>1, Frame
<1>6. ASSUME NEW s \in Subscriber, NEW u \in WatchType, <<s, u>> \in owed'
      PROVE  s \in Members(u)' /\ s \notin closedQueues' /\ Quiet(s, u)' /\ Coming(u)'
  <2>1. Members(u)' = Members(u) /\ (Quiet(s, u)' <=> Quiet(s, u))
        /\ (NoticeInMailbox(u)' <=> NoticeInMailbox(u))
    BY <1>1 DEF proxyVars, Members, Quiet, NoticeInMailbox
  <2>2. CASE <<s, u>> \in owed
    <3>1. s \in Members(u) /\ s \notin closedQueues /\ Quiet(s, u) /\ Coming(u)
      BY <1>1, <2>2 DEF Due
    <3>2. Coming(u)'
      <4>1. \A i \in 1 .. Len(news) : i \in 1 .. Len(news') /\ news'[i] = news[i]
        BY <1>2
      <4> QED BY <2>1, <3>1, <4>1 DEF Coming
    <3> QED BY <1>1, <2>1, <3>1, <3>2
  <2>3. CASE <<s, u>> \notin owed
    <3>1. u = t /\ s \in Settled(t)
      BY <1>1, <1>6, <2>3
    <3>2. s \in Members(u) /\ s \notin closedQueues /\ Quiet(s, u)
      BY <3>1 DEF Settled, Quiet
    <3>3. Coming(u)'
      <4>1. Len(news) + 1 \in 1 .. Len(news')
        BY <1>2
      <4> QED BY <1>2, <3>1, <4>1 DEF Coming
    <3> QED BY <1>1, <2>1, <3>2, <3>3
  <2> QED BY <2>2, <2>3
<1>7. Due'
  BY <1>6 DEF Due
<1> QED BY <1>4, <1>5, <1>7 DEF Sound

LEMMA SoundReceiveNotice ==
  ASSUME Sound, ReceiveNotice
  PROVE  Sound'
<1> DEFINE m == [notify |-> Head(news)]
<1>1. /\ TypeOK /\ KeptWhileWatched /\ WatcheeFollows /\ Due
      /\ news # <<>> /\ mailbox' = Append(mailbox, m) /\ news' = Tail(news)
      /\ UNCHANGED <<proxyVars, wire, up, faults, watched, closedQueues, wants, lost, owed>>
  BY DEF Sound, ReceiveNotice
<1>2. /\ Len(news) \in Nat \ {0} /\ Head(news) \in WatchType /\ Head(news) = news[1]
      /\ news' \in Seq(WatchType) /\ Len(news') = Len(news) - 1
      /\ \A i \in 1 .. Len(news) - 1 : news'[i] = news[i + 1]
  BY <1>1, HeadTailProperties, EmptySeq DEF TypeOK
<1>3. m \in Ask \cup Notice /\ IsNotice(m) /\ m.notify = Head(news)
  BY <1>2, Messages
<1>4. TypeOK'
  BY <1>1, <1>2, <1>3, AppendMessage DEF TypeOK, proxyVars
<1>5. KeptWhileWatched' /\ WatcheeFollows'
  BY <1>1, Frame
<1>6. ASSUME NEW s \in Subscriber, NEW t \in WatchType, <<s, t>> \in owed
      PROVE  s \in Members(t)' /\ s \notin closedQueues' /\ Quiet(s, t)' /\ Coming(t)'
  <2>1. s \in Members(t) /\ s \notin closedQueues /\ Quiet(s, t) /\ Coming(t)
    BY <1>1, <1>6 DEF Due
  <2>2. Quiet(s, t)'
    BY <1>1, <1>3, <2>1, AfterLast
  <2>3. Coming(t)'
    <3>1. CASE NoticeInMailbox(t) \/ t = Head(news)
      BY <1>1, <1>3, <3>1, AfterLast DEF Coming
    <3>2. CASE ~(NoticeInMailbox(t) \/ t = Head(news))
      <4>1. PICK i \in 1 .. Len(news) : news[i] = t
        BY <2>1, <3>2 DEF Coming
      <4>2. i # 1
        BY <1>2, <3>2, <4>1
      <4>3. i - 1 \in 1 .. Len(news) - 1 /\ (i - 1) + 1 = i
        BY <1>2, <4>2
      <4>4. i - 1 \in 1 .. Len(news') /\ news'[i - 1] = t
        BY <1>2, <4>1, <4>3
      <4> QED BY <4>4 DEF Coming
    <3> QED BY <3>1, <3>2
  <2>4. Members(t)' = Members(t)
    BY <1>1 DEF proxyVars, Members
  <2> QED BY <1>1, <2>1, <2>2, <2>3, <2>4
<1>7. Due'
  BY <1>1, <1>6 DEF Due
<1> QED BY <1>4, <1>5, <1>7 DEF Sound

LEMMA SoundLoseLink ==
  ASSUME Sound, LoseLink, watched' \subseteq watched,
         lost' = lost \cup Dropped \cup (watched \ watched')
  PROVE  Sound'
<1>1. /\ TypeOK /\ KeptWhileWatched /\ WatcheeFollows /\ Due
      /\ faults < MaxFaults /\ faults' = faults + 1
      /\ up' = FALSE /\ wire' = <<>> /\ news' = <<>>
      /\ owed' = {d \in owed : NoticeInMailbox(d[2])}
      /\ UNCHANGED <<proxyVars, mailbox, closedQueues, wants>>
  BY DEF Sound, LoseLink
<1>2. Dropped \subseteq WatchType
  <2>1. \A i \in 1 .. Len(wire) : wire[i] \in Request
    BY <1>1, ElementOfSeq DEF TypeOK
  <2> QED BY <2>1 DEF Dropped, Request
<1>3. TypeOK'
  <2>1. faults' \in 0 .. MaxFaults
    BY <1>1, WatchAssumption DEF TypeOK
  <2>2. wire' \in Seq(Request) /\ news' \in Seq(WatchType)
    BY <1>1, EmptySeq
  <2>3. lost' \subseteq WatchType /\ watched' \subseteq WatchType
    BY <1>1, <1>2 DEF TypeOK
  <2> QED BY <1>1, <2>1, <2>2, <2>3 DEF TypeOK, proxyVars
<1>4. KeptWhileWatched'
  BY <1>1, Frame
<1>5. \A t \in WatchType : Members(t)' = Members(t)
  BY <1>1 DEF proxyVars, Members
<1>6. WatcheeFollows'
  <2>1. ASSUME NEW t \in WatchType, t \notin lost'
        PROVE  WillBeWatched(t)' <=> Members(t)' # {}
    <3>1. t \notin lost /\ t \notin Dropped /\ (t \in watched <=> t \in watched')
      BY <2>1
    <3>2. WillBeWatched(t) <=> t \in watched
      BY <3>1 DEF WillBeWatched, Dropped
    <3>3. WillBeWatched(t)' <=> t \in watched'
      <4>1. 1 .. Len(wire') = {}
        BY <1>1, EmptySeq
      <4> QED BY <4>1 DEF WillBeWatched, Dropped
    <3> QED BY <1>1, <1>5, <3>1, <3>2, <3>3 DEF WatcheeFollows
  <2> QED BY <2>1 DEF WatcheeFollows
<1>7. Due'
  <2>1. ASSUME NEW s \in Subscriber, NEW t \in WatchType, <<s, t>> \in owed'
        PROVE  s \in Members(t)' /\ s \notin closedQueues' /\ Quiet(s, t)' /\ Coming(t)'
    <3>1. <<s, t>> \in owed /\ NoticeInMailbox(t)
      BY <1>1, <2>1
    <3>2. s \in Members(t) /\ s \notin closedQueues /\ Quiet(s, t)
      BY <1>1, <3>1 DEF Due
    <3> QED BY <1>1, <1>5, <3>1, <3>2 DEF Quiet, Coming, NoticeInMailbox
  <2> QED BY <2>1 DEF Due
<1> QED BY <1>3, <1>4, <1>6, <1>7 DEF Sound

LEMMA SoundReconnect ==
  ASSUME Sound, Reconnect
  PROVE  Sound'
<1>1. /\ TypeOK /\ KeptWhileWatched /\ WatcheeFollows /\ Due /\ up' = TRUE
      /\ UNCHANGED <<proxyVars, mailbox, wire, news, faults, watched, closedQueues, wants, lost, owed>>
  BY DEF Sound, Reconnect
<1>2. TypeOK'
  BY <1>1 DEF TypeOK, proxyVars
<1>3. KeptWhileWatched' /\ WatcheeFollows'
  BY <1>1, Frame
<1>4. Due'
  BY <1>1 DEF Due, Members, Quiet, Coming, NoticeInMailbox, proxyVars
<1> QED BY <1>2, <1>3, <1>4 DEF Sound

-----------------------------------------------------------------------------
(* The theorems.                                                           *)

LEMMA SoundInit == Init => Sound
<1> SUFFICES ASSUME Init PROVE Sound
  OBVIOUS
<1>1. TypeOK
  BY EmptyMap, EmptySeq, WatchAssumption DEF Init, TypeOK
<1>2. KeptWhileWatched
  BY EmptyMap DEF Init, KeptWhileWatched
<1>3. WatcheeFollows
  <2>1. \A t \in WatchType : Members(t) = {}
    BY EmptyMap DEF Init, Members
  <2>2. 1 .. Len(wire) = {}
    BY EmptySeq DEF Init
  <2> QED BY <2>1, <2>2 DEF Init, WatcheeFollows, WillBeWatched, Dropped
<1>4. Due
  BY DEF Init, Due
<1> QED BY <1>1, <1>2, <1>3, <1>4 DEF Sound

LEMMA SoundNext == Sound /\ [Next]_vars => Sound'
<1> SUFFICES ASSUME Sound, [Next]_vars PROVE Sound'
  OBVIOUS
<1>1. CASE HandleAsk
  BY <1>1, SoundHandleAsk
<1>2. CASE HandleNotice
  BY <1>2, SoundHandleNotice
<1>3. CASE Stop
  BY <1>3, SoundStop
<1>4. ASSUME NEW s \in Subscriber, NEW t \in WatchType, NEW on \in BOOLEAN,
             EnvelopeWatch(s, t, on) \/ EnvelopeOuterWatch(s, t, on)
      PROVE  Sound'
  BY <1>4, SoundWatch DEF EnvelopeWatch, EnvelopeOuterWatch
<1>5. ASSUME NEW q \in OuterQueue, CloseQueue(q) PROVE Sound'
  BY <1>5, SoundCloseQueue
<1>6. CASE ReceiveRequest
  BY <1>6, SoundReceiveRequest
<1>7. CASE ReceiveNotice
  BY <1>7, SoundReceiveNotice
<1>8. ASSUME NEW t \in WatchType, Notify(t) PROVE Sound'
  BY <1>8, SoundNotify
<1>9. CASE Break
  <2>1. /\ LoseLink /\ watched' \subseteq watched
        /\ lost' = lost \cup Dropped \cup (watched \ watched')
    BY <1>9 DEF Break
  <2> QED BY <2>1, SoundLoseLink
<1>10. CASE Restart
  <2>1. /\ LoseLink /\ watched' \subseteq watched
        /\ lost' = lost \cup Dropped \cup (watched \ watched')
    BY <1>10 DEF Restart
  <2> QED BY <2>1, SoundLoseLink
<1>11. CASE Reconnect
  BY <1>11, SoundReconnect
<1>12. CASE UNCHANGED vars
  <2>1. UNCHANGED <<proxyVars, mailbox, wire, news, up, faults, watched, closedQueues,
                    wants, lost, owed>>
    BY <1>12 DEF vars, linkVars
  <2>2. TypeOK'
    BY <2>1 DEF Sound, TypeOK, proxyVars
  <2>3. KeptWhileWatched' /\ WatcheeFollows'
    BY <2>1, Frame DEF Sound
  <2>4. Due'
    BY <2>1 DEF Sound, Due, Members, Quiet, Coming, NoticeInMailbox, proxyVars
  <2> QED BY <2>2, <2>3, <2>4 DEF Sound
<1> QED
  BY <1>1, <1>2, <1>3, <1>4, <1>5, <1>6, <1>7, <1>8, <1>9, <1>10, <1>11, <1>12 DEF Next

\* The proxy has its type, and is kept exactly while anybody subscribes: it is
\* never stopped with subscriptions, nor kept for good without.
THEOREM ProxyKept == Spec => [](TypeOK /\ KeptWhileWatched)
<1>1. Sound => TypeOK /\ KeptWhileWatched
  BY DEF Sound
<1> QED BY <1>1, SoundInit, SoundNext, PTL DEF Spec

\* What the watchee thinks, or is about to think, of a type is what its
\* subscribers here amount to, unless the last request about it was lost.
THEOREM WatcheeAlwaysFollows == Spec => []WatcheeFollows
<1>1. Sound => WatcheeFollows
  BY DEF Sound
<1> QED BY <1>1, SoundInit, SoundNext, PTL DEF Spec

\* A notification that is due to a subscriber is under way and will find it
\* subscribed.
THEOREM NobodyEverLeftOut == Spec => []NobodyLeftOut
<1>1. Sound => NobodyLeftOut
  <2> SUFFICES ASSUME Sound, NEW d \in owed
               PROVE  /\ d[1] \in Members(d[2])
                      /\ NoticeInMailbox(d[2]) \/ \E i \in 1 .. Len(news) : news[i] = d[2]
    BY DEF NobodyLeftOut
  <2>1. PICK s \in Subscriber, t \in WatchType : d = <<s, t>>
    BY DEF Sound, TypeOK
  <2> QED BY <2>1 DEF Sound, Due, Coming
<1> QED BY <1>1, SoundInit, SoundNext, PTL DEF Spec

\* The subscriptions, the mailbox and both directions of the link keep their
\* types.
THEOREM ProxyTypes == Spec => []TypeOK
BY ProxyKept, PTL
===============================================================================
