# Verification of dvactor

dvactor joins several vactor actor systems into a cluster. Every system opens
one TCP link to each of the others; actors send, request, watch and notify
across the links as if the receiver were local. This directory holds TLA+
modules translated from the Go source, TLC configurations that check them on
small instances, and proofs checked by TLAPS.

    tlc -config ClusterLink_registration.cfg MCClusterLink
    tlapm ClusterLinkProofs.tla

Paths below are relative to the repository's source.

## 1. The system

| part | source | state | operations | interacts with |
|---|---|---|---|---|
| Link client | `cluster_client.go`, `engine/net/client` | `c.cli`, two 1-slot channels, `systemInfo.cli` | dial, register, wait, tear down, back off 5 s, retry | receiver goroutine of its connection (callbacks), `clusterNet` (count, `doSend`) |
| Link server | `cluster_server.go`, `engine/net/server`, `engine/net/session` | `systemInfo.session`, bind object and id of each session, session table | accept, register, reject, close on error, clear on disconnect | receiver goroutine of every session, `clusterNet` |
| Connection | `engine/net/connect/socket/conn.go` | send queue with its closed flag, `net.Conn` | receiver loop, sender loop, `SendData`, `Disconnect` | queue, TCP, callbacks of client or server |
| Send queue | `engine/queue/imp/ring/queue.go` | mutex, condition variable, closed flag, buffer | send, receive (one or all, with or without waiting), close | sender goroutine and all senders of a connection |
| Ring buffer | `engine/queue/imp/ring/ring_buffer.go` | slots, head, tail, count, size | push, pop, batch forms, peek, clear; grows, never shrinks | only the queue |
| Framing | `engine/net/connect/packet.go` | bytes read and not yet cut | pack, append, next | receiver goroutine |
| Cluster start-up | `cluster_net.go` 16-125 | `systemInfos`, passive flags, `connectedSystemCount` | build, start server and clients, wait with a deadline | client loops, server, `system.Start` |
| Envelope conversion | `cluster_net.go` 126-490, `error.go` | none | `Send`, `OnMessage` | message types, `doSend`, local router |
| Router, placement | `router.go` | actor type to systems | `Router`, `CreateActorRefEx` | `clusterNet.Send`, local router, the proxies |
| Watch proxy | `watch_proxy.go` | subscriptions per watch type, actors and queues | subscribe, unsubscribe, distribute, stop interval | watchee through the router, local subscribers |
| Request proxy | `request_proxy.go` | none of its own | forward, answer or give up after 30 s | target actor, channel of the caller |
| System, message types | `system.go` | two maps between type numbers and Go types | register, marshal, unmarshal | conversion |

vactor itself, TCP, protobuf and the Go run time are outside; they appear only
as the code here uses them.

How the parts interact. A link belongs to a pair of systems. The later one in
`SystemConfigs` dials (`systemInfo.passive` on its side), the earlier one
accepts. The client loop is a goroutine of its own; everything that arrives is
handled in the receiver goroutine of the connection, on the client side as on
the server side, and callbacks reach the loop through the channels
`registerResponseChan` and `disconnectChan`. Every connection also has a
sender goroutine that drains the queue and, at its end, closes the socket.
Actors call `doSend` from vactor's worker goroutines.

What is hard, and what would be correct:

- *Concurrency.* Loop, receiver, sender and workers share `systemInfo`,
  channels, queue and counters. Right: one registration per peer, counted once,
  released only after its connection has ended; no wake-up lost; no element
  lost, repeated or reordered.
- *Failure.* Either side may die or lose the connection between any two steps,
  dialling may fail, a write may fail half way, an envelope may be
  undecodable. Right: the state of a registration is cleared in the end, the
  pair registers again, an end of a connection is reported exactly when nobody
  asked for it, sockets are released.
- *Ordering.* The answer to the registration must precede every envelope; what
  is queued before a close must be written before the socket is closed; tokens
  left in a channel by an earlier connection must not be taken for news about
  the present one.
- *Timing.* The loop backs off instead of waiting for a pending callback;
  start-up gives up after a time limit; the request proxy gives up after 30 s.
- *Boundaries.* A full ring that has wrapped grows in two copies; lengths are
  32 bits wide; placement divides by the number of systems.

`PROJECT.json` lists these hazards with the line each of them bites at and the
properties that cover it.

## 2. Modules

    Placement  -->  Routing      routers, proxies and links of all systems
                       |  a link: FIFO each way, ready or not, lost when it breaks
                    ClusterNet   start-up of all systems, every link in outline
                       |  a link in detail
    Registration  <-- implemented by --  ClusterLink     (a pair of systems)
                                             |  uses two connections' ends
                                         ConnSocket      (a connection)
                                             |  uses the queue as a channel
    Channel       <-- implemented by --  Queue           (mutex, condition)
                                             |  uses the buffer as a FIFO
    Fifo          <-- implemented by --  RingBuffer      (slots)

    Codec, Framing  -->  Wire    (envelopes as bytes over one such connection)
    WatchProxy    (subscribers, proxy, link, watchee)    over one such link

Each level uses the abstract view of the one below, and that view is shown to
be implemented by the level below: `Queue` keeps its buffer as a sequence,
which is `Fifo`; `ConnSocket` keeps its queue as a sequence with a closed
flag, which is `Channel`; `ClusterLink` joins queue and wire of a direction in
one FIFO that ends behind what was queued before the close, which is what
`StreamIntact`, `CloseDrains` and `Delivers` say of `ConnSocket`. The link of
`WatchProxy` and of `Routing` is one FIFO per direction, which a break empties,
and it is up or down as `ClusterLink` has it; what a package of `Routing` turns
into on the way is `Wire`. `ClusterNet` has the steps of `ClusterLink` that
touch the count, the session slot or `registerResponseChan`, for every pair of
systems at once. These correspondences between `ClusterNet`, `Routing` and
`ClusterLink` are by construction; they are not checked as refinements.

### ClusterLink, Registration (MCClusterLink, ClusterLinkProofs)

One pair of systems. `pc` is the client goroutine's place in
`clusterClient.Start`, with one action per blocking point or write to shared
state: `DrainDisconnect`, `Dial`/`DialFails`, `SendRegisterReq`(`Fails`),
`AwaitDisconnect`/`AwaitResponse` (the `select`), `SetCli`, `CountUp`,
`ReadyDisconnect`, `ClearCli`, `CountDown`, `Wake`. `disconnectChan` and
`registerResponseChan` are the 1-slot channels; a receiver goroutine that finds
one full is `"blocked"` or stays in `"callback"`. `clientEnd`, `clientRecv`,
`clientIn` are, per connection, the state of queue and socket, of the receiver
goroutine, and what is on its way to the client; `server*` the same at the
other end. `session`, `bound`, `sessions`, `serverCount` are the server's
`systemInfo.session`, bind objects, session table and its share of
`connectedSystemCount`; a handler that runs under `info.lock` is one action.

Choices a reader should know:

- A connection is a slot of `Conn`, used again once both ends are through
  (`Free`). A slot whose connection still holds the registration is not free.
- `Disconnect` closes the queue, the end is then `"draining"` until its sender
  goroutine closes the socket. A sender that ends on a write error
  (`conn.go:86-89`) is not part of this module: what it fails to write is
  lost, which is also what happens on a broken connection, and the leak it
  leaves is the subject of `ConnSocket`.
- The client's answer-with-an-error branch (`cluster_client.go:66-70`) is
  left out: the server never sends an error in `PkgRegisterSystemRsp`, it
  closes the session, so `registerResponseChan` only ever holds TRUE.
- Errors of the client's `OnMessage` are ignored by `client.go`, so an
  undecodable envelope that reaches the client changes nothing. On the server,
  the `OnMessage` wrapper of `NewServer` closes the session and the receiver
  goroutine reads on: `"Bad"` in `ClientPayload`.
- The envelopes that matter are one kind, `"Env"`; `owed` says that an actor of
  the client system was sent a request it is going to answer.
- `PromptCallbacks` TRUE says that the back-off of 5 s outlasts a disconnect
  callback that is about to run (`Wake`). Nothing in the code waits for that;
  runs that need it say so, the others allow any delay.
- A restart loses everything the process kept in memory; the other side sees
  the end of the stream.

`Registration` is the lease the server promises: at most one holder; granted to
a live connection while nobody holds it; given up only by a holder that has
ended; the peer counted exactly while there is a holder.

### ClusterNet (ClusterNetProofs)

All systems of a cluster, each named by its place in `SystemConfigs`. `stage`
is where `start()` is, `listener` the accept loop, `cli[c][s]`, `conn[c][s]`
and `session[c][s]` the three parts of the link that `c` opens to `s`. `passive`,
`RunsServer` and `Dials` are the three places of the code that decide a role,
each with its own condition on the index. `Start` does what the
function does before its loop: it counts the system itself, starts the server
unless the system is last, and a client for every system before it.

Choices a reader should know:

- The back-off of 5 s, the poll of 3 s and the `ConnectTimeout` may take any
  time; which systems have a timeout is a constant.
- `AcceptFails` ends the accept loop (`acceptor.go:31`) and leaves the socket
  listening (`"deaf"`): a later system still connects and waits for an answer.
  `ListenFails` leaves nothing to connect to (`"refusing"`).
- A session whose connection has ended is `"stale"` until the server notices;
  a registration meanwhile is refused, as in `ClusterLink`. Undecodable
  envelopes and their consequence (finding 1) are left to `ClusterLink`.
- A connection may end with its registration request accepted and unread:
  `late[c][s]` counts these. The receiver goroutine on `s` may still read the
  request and grant it (`RegisterLate`: that session is stale from the start),
  refuse it, or lose it with the connection (`DropLate`); neither step is fair.
  A connection that ends in the backlog takes its request with it; that it may
  still be accepted is in `ClusterLink`.

### Codec, Selection, Framing, Wire (MCWire, WireProofs)

`Codec` has one operator per branch of `clusterNet.Send` (`SendEnvelope`,
`SendBatch`, ...) and of `clusterNet.OnMessage` (`OnEnvelopeSend`, ...), over
the package types of the schema and the two maps of `RegisterMessageType`.
Every operator that may fail returns a value or an error. What the protobuf
library does is external: `Marshal` refuses a string or body that is not UTF-8
(`Broken`), and `Unmarshal` of bytes of one type as another succeeds for the
pairs in `Parses`, since many bytes are legal for several types. `EnvelopeOf`
has the envelopes of vactor that `Send` has a case for, with any references,
messages and numbers in the fields it reads; an error an envelope carries has a
code other than 0, which is the number of `ErrorCodeSuccess` on the wire.

The loops that leave out of a batch what cannot be converted are `Successes`.
It takes from the list of results those at the positions that succeeded, with
`Sub` of `Selection`, which numbers the positions instead of running along the
list as `SelectSeq` does: that way its results are the subject of lemmas that
need no induction. `MCWire` checks on small lists that the two are the same.

`Framing` is `PackMessage` and `PacketSplitter.Next`. A byte is the pair of the
frame it belongs to and its place there, so that a read that is cut wrongly is
visible as such; the sums of the code are modulo `Mod`. `FramingAssumption` is
the weakest bound under which they do not wrap: a frame and one read together
stay below 2^32.

`Wire` sends envelopes from one system to another over a ready connection: the
registration frame first, then what `Send` accepts, read in pieces of any
length. The receiver is the server or the client end; an error of `OnMessage`
closes the session at the server and is ignored at the client. A closed session
only has its queue closed: the receiver goroutine reads and handles what arrives
until the sender goroutine has closed the socket (`CloseSocket`), whenever that
is. Message types
are registered before the systems start, in any order, repeatedly, and
differently on the two systems: the maps have no lock, and the example program
registers before `Start`.

### Placement, Routing (MCRouting, RoutingProofs)

`Placement` is `CreateActorRefEx` and the references of the two proxies. Only
the range of the hash and its being the same everywhere matter, so it is a
constant; the id of a proxy, `<type>-<id>` in the code, is a pair. The systems
that declare a type are picked from the configuration with `Sub` of `Selection`,
so that a proof can tell that there are finitely many and which.

`Routing` gives each operation of `Ops` to the router of one system: a batch or
a notification for several actors, a send, a watch by an actor or a queue, a
request from outside. `groups` are the groups of a batch the loop of `Router`
has still to send, walked in any order, as Go walks a map; `err` is the variable
the loop assigns, `failed` what `Send` refused. Watches and requests that stay
on their system go to `LocalRouter`, which puts them into `inbox`; a proxy takes
them out and sends its own message through the router. A watch proxy does so for
its first subscription of a watch type (`HandleProxyWatch`) and only remembers
the next ones (`HandleProxyJoin`, `joined`), even when the first was refused or
lost; `subscribed` are the types each proxy has. The operations have no unwatch,
so a proxy that has subscribed stays; `WatchProxy` has the way back.

Choices a reader should know:

- `LocalRouter`, mailboxes and `RequestAsync` are vactor's. An envelope the
  local router was given reaches the actor (`Handle`); a `RequestAsync` that
  cannot be sent may call its callback at once or leave it to the timeout, and
  a callback is called once.
- `RspChan` has room for one answer; the callback blocks while it is full,
  which is what `NeverBlocks` excludes. The 30 s of the proxy and the
  caller's own limit may fire in either order.
- `lost` remembers what a broken link took. What `Router` returns for a message
  that is lost afterwards is not an error, in the code as here.
- An id that is not a proxy's makes `GetWatcheeActorRef` return the nil
  reference; only the router makes proxies, so no run has one.

### RingBuffer, Fifo (MCRingBuffer, RingBufferProofs)

Slots, head, tail, count and size as in `ring_buffer.go`, with Go's `make`,
`copy` and `%` written out. `PushBatch` is one step per iteration of its two
loops, with `pending` for what is still to be stored; nobody reads the buffer
in between, as the queue's lock is held, and the refinement counts an element
as it is stored. `Zero` is the zero value that `Pop` and `PopAll` leave behind.

### Queue, Channel (QueueProofs)

What a goroutine does between `Lock` and `Unlock` is one step. `Signal` and
`Broadcast` after `Send` and `BatchSend` come after the unlock and are steps of
their own (`call[p] = "signal"`, `"broadcast"`); `Wait` joins `waiting` before
it lets go of the mutex; a woken goroutine tests again (`Retry`). `Close`
broadcasts under the lock. `Len`, `IsClosed` and `NotifyClose` change nothing.

`Channel` is a channel without a bound and without locks; its fairness says
that as long as there is something to give somebody is served, and that after
the close everybody returns.

### ConnSocket (ConnSocketProofs)

Both ends of a connection. The bytes accepted at an end are numbered, so frame
`f` is `FrameLen` consecutive numbers; `wire[e]` are those written by `e` and
not yet read, `received[e]` those given to `OnData`. A write takes as many bytes as the
network has room for, a read returns as many as it likes. The error paths:
`WriteFails` (the sender returns and leaves the socket), `ReadFails` and an
error of `OnData`, both followed by `TestClosed`, `ReceiverCloses`,
`OnDisconnect`, one step each because `IsClose`, `Disconnect` and the callback
are three calls between which the application may call `Disconnect`.
The network is external: it may drop the connection (`Break`), or reset it when
a socket is closed with data unread or written to after its peer has gone
(`MayReset`). The switches `Breaks`, `WriteErrors` and `Rejects` turn the failures on. No
`OnData` of this repository returns an error, so the run has `Rejects` FALSE;
it stands for the contract of `SetOnData`, and the proofs hold either way.

### WatchProxy (WatchProxyProofs)

The proxy actor of one remote watchee. `watcherss` and `queuess` are its two
maps, with an entry only where the code has one (`Put` takes the entry of an
empty set away); `Update` is the end of `updateInnerWatch` and
`updateOuterWatch`, which compares `isWatch` before and after; `HandleAsk` is
the two messages, `HandleNotice` a `MsgOnWatchMsg` or a `MsgOnEventMsg`, whose
type is the event id. Queues that refuse a notification are dropped one by one
in the code and together in the model: only the last of them changes
`isWatch`. `EnvelopeWatch` and `EnvelopeOuterWatch` are the branches of the
router that turn a watch into a message for the proxy; `Send` is its way to
the link.

Here the way of a subscription is in detail for one proxy; `Routing` has the way
to the proxy and on to the watchee for all systems.

Choices a reader should know:

- An actor's mailbox, its stop after the stop interval without messages, the
  new instance the next message makes, and the set of watchers the watchee
  keeps are vactor's, modelled from how `watch_proxy.go` uses them (`Stop`,
  `watched`). A watch or an unwatch that is repeated changes nothing there.
- A request is lost when the router's error is ignored (`up` is FALSE) or when
  the connection ends with the request on it; the watchee's system may forget
  its watchers (`Restart`). `lost` remembers the types concerned. That the
  proxy does not repeat its requests is a known shortcoming
  (`todo.md`, `docs/proxies.md`), so the properties except those types, and
  claim that nothing else goes wrong and that the next request repairs it.
- `owed` are the subscribers a notification is due to: those in place, with
  nothing in the mailbox about that type, when the watchee notifies.
- A new subscriber of a type the watchee still notifies on behalf of an
  earlier one may be given an older notification and then miss some until its
  own watch has arrived. No property says otherwise.

## 3. Runs

| run | module | checks | bounds |
|---|---|---|---|
| `registration` | MCClusterLink | `CountsMatch`, `ResponseComesFirst`, `ImplementsRegistration` (refinement) | 3 connections, 1 fault, 1 send, bad envelopes, callbacks delayed at will |
| `reconnect` | MCClusterLink | `NoOrphanConnection`, `BindingWillBeCleared`, `FailsOnlyWhenOffline`, `Reconnects` (liveness) | 2 connections, 2 faults, 1 send, prompt callbacks |
| `zombie` | MCClusterLink | `BindingWillBeCleared`, violated (finding 1) | 2 connections, bad envelopes |
| `stale_response` | MCClusterLink | `ReadyMeansRegistered`, violated (finding 2) | 2 connections, 1 fault |
| `socket` | ConnSocket | `StreamIntact`, `CloseDrains`, `EndReported`, `BothEndsReleased`, `Delivers` (liveness) | 2 frames of 2 bytes each way, 1 byte on the wire, breaks and write errors |
| `ring_fifo` | MCRingBuffer | `ImplementsFifo` (refinement), `NoRetention` | up to 5 elements from size 2, batches of 3 |
| `queue_channel` | Queue | `WakeUpsSuffice`, `ImplementsChannel` (refinement), `ServesWaiters` (liveness) | 4 goroutines, 3 elements, batches of 2 |
| `startup` | ClusterNet | `CountIsOwnLinks`, `RolesAgree`, `ReturnsWhenLinked`, `Interconnects`, `HeldUpOnlyByDead` (liveness) | 3 systems, one with a timeout, 2 faults |
| `wire` | MCWire | `TypeOK`, `Faithful`, `Addressed`, `OnlyUnknownRejected`, `RefusedForCause`, `Arrives` (liveness) | 14 envelopes of all kinds, 2 types, 2 ids, 3 registrations, 2 sends, reads of up to 3 bytes |
| `routing` | MCRouting | `TypeOK`, `OneHome`, `Accounted`, `ErrorsReported`, `RightAnswer`, `NeverBlocks`, `RequestsEnd`, `Settles` (liveness) | 3 systems, any 2 of 11 operations, 1 break |
| `watch_elsewhere` | MCRouting | `WatchGoesWhereTold`, violated (finding 3) | the same |
| `watch_proxy` | WatchProxy | `KeptWhileWatched`, `WatcheeFollows`, `NobodyLeftOut`, `WatcheeLearns` (liveness) | 1 actor, 1 queue, 2 types, 3 messages under way, 1 fault |

Every safety property of a run that passes is also proved (section 5), and the
type invariant of every module with variables of its own that is not an
abstract view; `Wire` and `Routing` check theirs in the run too.

What the runs say that is not obvious from the names:

- `FailsOnlyWhenOffline`: while the pair is connected an actor's reply is
  refused only between the answer to the registration and `info.cli = c.cli`
  (`cluster_client.go:73`), where the receiver goroutine may already deliver a
  request. The window is real; there is no other.
- `BothEndsReleased`: closing one end closes both sockets, except the one
  whose sender a failed write has ended (`conn.go:87`). That socket stays open
  until the garbage collector finalises it, against `docs/engine.md`.
- `RefusedForCause`: `Send` refuses only what cannot cross. One of its causes
  is a message without content, and a response that carries an error
  has none: `cluster_net.go:206` marshals it before it looks at the error,
  although `OnMessage` accepts such a response, so the requester times out. The
  property describes this and would not notice a change of it, so the hazard is
  listed without a property.
- `CountsMatch`: on the client the count and `info.cli` belong together. A link
  is counted from just after `info.cli` is set to just after it is cleared, and
  `info.cli` is never a connection the loop has given up.
- `RequestsEnd`: a request from outside ends even if its caller has no limit of
  its own and the answer is lost, because the proxy gives up after 30 s
  (`request_proxy.go:12-14`, `36`). `docs/proxies.md` says otherwise: the proxy
  calls `ctx.RequestAsync` with a timeout of 0 (line 17), as the limit is kept
  by the caller (line 21). Under that sentence a caller without a limit would
  wait for ever; and with the code a caller whose limit is longer than 30 s is
  told of a timeout before it.
- `ReturnsWhenLinked`: a `start()` that returns has all links of its *own*
  system counted. `docs/cluster.md` says that it does not return before the
  whole cluster is interconnected; links among the others need not be up.
- `ErrorsReported`: an error of `Router` is real, and a refusal it does not
  report is hidden by the success of a later group of the same batch
  (`router.go:96`), never otherwise.
- `Faithful` and `OnlyUnknownRejected` except an envelope only if the receiver
  has another type under the id of one of its own messages (`Misread`); what
  else the two systems have registered does not matter. `Addressed` holds
  without exception. A response with code 0 comes back without an error
  (`error.go`, `fix_test.go`); `docs/protocol.md:49`, where any code becomes
  one, is out of date.
- `TypeOK` of `Routing`: an envelope in an inbox or on a link has a slot that is
  legal, in 1 to `Slots` - 1, besides being on the right system.
- Framing is claimed, and checked with `Mod` at its least, up to
  `FramingAssumption`; for a frame and a read that together reach 2^32 bytes
  nothing is.

Why the bounds are enough. Three connections are the most that can interfere
in `registration`: the one the loop works on, an earlier one whose end is still
to be noticed, and one that is being cleared at the server. With prompt
callbacks (`reconnect`) the loop is through with a connection before it starts
another, so the two that interfere are the current one and one the server has
still to clear; two faults produce a restart of one side during the
reconnection that a first fault has caused. Size 2 and
five elements give two growths from every position of the head. Four goroutines
are a waiter, a goroutine that takes the element the waiter was woken for, a
sender and one that closes. Frames of two bytes are cut in the middle, and two
of them show a frame that overtakes another. Three systems are a first, a last
and one that is both server and client; two faults break a link while another is
being repaired, or end an accept loop after a restart. Two sends and three registrations give two
frames that meet in one read, a type registered under two ids, an id registered
for two types and a type only one side knows. In `routing`, one actor type is
declared by two systems, one by one, one by none; two operations at a time are
what can share a proxy, a link or an actor, and each starts from every set of
links. Two subscribers of different kinds and two types give every combination
of entries in the two maps; three messages under way are a watch, an unwatch and
a notification that cross. For the safety properties these bounds are not the
last word: all of them are proved for every value of the constants besides
(section 5). For the liveness properties they are.

Deadlock is checked for the ring buffer and the watch proxy. The others may
really stop: two linked systems with nothing to send, goroutines that all wait
on an empty queue, a connection that is closed at both ends, a cluster whose
operations are done.

Fairness. `ClusterLink`: the loop, receiver and sender goroutines run, the
accept loop accepts, an actor that owes an answer gives it; a goroutine whose
read would fail because the other end is gone notices it, which the operating
system and the keep-alive of 30 s (`acceptor.go`, `connector.go`) provide. No
fault and no send is fair. `ClusterNet`: the same for every pair (client loop,
delivery, notice of an end), and the loop of `start()`; nobody owes the cluster
that a system is started, so its liveness properties assume that all systems
run from some time on. `Queue`: a woken goroutine and one with a wake-up to
deliver go on. `ConnSocket`: sender and receiver goroutines run. `Wire`: the
receiver goroutine reads and splits. `Routing`: the loop of `Router` goes on,
actors handle what they were given, packages on a link arrive, and the timer of
the proxy fires or the caller takes its answer; links and the caller's own limit
are not fair. `WatchProxy`: the proxy works off its mailbox and what is on the
link arrives or is lost with it. All of it is weak fairness of goroutines and
timers, which Go's scheduler provides.

`Reconnects` says that once faults stop (`MaxFaults` of them have happened),
the pair is registered on one connection for good. It is checked without bad
envelopes (finding 1) and with prompt callbacks.

## 4. Findings

Each is a disagreement between a sentence of the documentation and the code,
shown by a run that finds the sentence violated.

1. `zombie`. An envelope the server cannot decode makes `NewServer` close the
   session, which closes its queue; the receiver goroutine then skips
   `onDisconnectFunc` because the queue is closed (`conn.go:60`), so
   `systemInfo.session` stays set and every later registration of that peer is
   rejected. `docs/cluster.md` says the server clears the session on
   disconnection.
2. `stale_response`. The loop drains `disconnectChan` before it dials but never
   `registerResponseChan` (`cluster_client.go:35`, `61`). If an answer and a
   disconnection are both there and the `select` takes the disconnection, the
   next connection is taken for registered before it is.
3. `watch_elsewhere`. The id of a watch proxy keeps type and id of the watchee
   and drops its system; `GetWatcheeActorRef` places the reference anew by the
   hash (`router.go:19`). A watch of an actor on a system named explicitly goes
   to another one, against `Readme.md`, which says that a reference with a
   system is sent to that system.

The early reply, the socket left after a write error, the error response that
is never sent, the hidden error of a batch, the early return of `start()` and
the 30 s of the request proxy are described in section 3: there a property that holds says exactly when they
happen.

## 5. Proofs

TLAPS checks these for every value of the constants, under the named
assumptions of the modules (`LinkAssumption`, `RingAssumption`,
`QueueAssumption`, `ConnAssumption`, `WatchAssumption`, `ClusterAssumption`,
`PlacementAssumption`, `RoutingAssumption`, `FramingAssumption`,
`CodecAssumption`, `NilAssumption`, `WireAssumption`: what the constants are,
no more). TLC evaluates every one of them on the constants of the runs.

| theorem | says | inductive invariant |
|---|---|---|
| `TypeCorrect`, `CountsAlwaysMatch` | `TypeOK`, `CountsMatch` | `Counted`: both together. The type of a count, 0 or 1, follows only from what it counts |
| `RegistrationImplemented` | `ImplementsRegistration` | `Leased`: `Counted`, and a connection in the backlog has no receiver yet and is not the holder (`BacklogIsFresh`), so accepting it never brings a holder back to life |
| `NeverOrphaned` | `NoOrphanConnection`, if callbacks are prompt | `Tracked`: a connection is open until its receiver goroutine closes it (`OpenUntilClosed`); at most one of an open connection, a pending callback and a token in `disconnectChan` exists, and it is about the current connection (`OneDisconnectPending`) |
| `BindingAlwaysCleared` | `BindingWillBeCleared`, if the server can decode what it is sent | `Clearable`: envelopes go only over a registered connection (`SendsOnlyWhenRegistered`), a fresh connection carries nothing (`FreshBeforeRegister`), a registration request comes first and finds its connection open and not registered (`OneRegistration`), live sessions are listed (`SessionsListed`); so no error closes the holder's queue |
| `ResponseAlwaysFirst` | `ResponseComesFirst` | `Ordered`: `Leased`, and nothing but the answer is on its way over a connection that is not registered (`SilentBeforeRegistration`) |
| `RepliesFailOnlyWhenOffline` | `FailsOnlyWhenOffline`, an action property, if callbacks are prompt; bad envelopes may come | `Reachable`: `Tracked`, `SendsOnlyWhenRegistered`, `info.cli` is the current connection once the loop counts it up (`pc` in `countUp`, `ready`), and a connection still to be registered carries nothing. Then the holder of a registration whose both ends are open is the loop's current connection, and the loop is at `await`, `setCli` or beyond |
| `CountAlwaysOwnLinks`, `RolesAlwaysAgree`, `TypesAlwaysOK` | `CountIsOwnLinks`, `RolesAgree`, `TypeOK` of `ClusterNet`, for any number of systems | `IInv`: types without the bound of the count, a system that is down has no links (`DownIsEmpty`), roles, count. That the count never exceeds the number of systems follows, as no peer is both client and server of one system |
| `AlwaysReturnsWhenLinked` | `ReturnsWhenLinked` | the same: as many links as there are other systems are all of them |
| `RingConsistent`, `RingTypes`, `RingIsFifo` | `Consistent`: head, tail and count describe one stretch of elements; `TypeOK`; `ImplementsFifo` | `Sound`: types, and that stretch |
| `RingRetainsNothing` | `NoRetention`: only `Clear` can make a slot outside the stretch keep an element | `Sound`, and that `Clean`, every slot outside the stretch holds `Zero`, survives every other operation, a growth in progress included |
| `NoLostWakeUp`, `QueueTypes`, `EndAlwaysFinal`, `QueueIsChannel` | `WakeUpsSuffice`; `TypeOK`; `EndIsFinal`: who was told the end has left nothing behind; `ImplementsChannel` | `Sound`: types, `EndIsFinal`, and that goroutines with a wake-up to take or to give are at least as many as the elements while anybody waits |
| `IntactStream`, `ConnTypes` | `StreamIntact`, `TypeOK` | `Sound`: per direction, received, wire, frame in writing and queue are consecutive stretches of one sequence (`Flow`), without a gap as long as the connection is not dead (`Full`) |
| `CloseAfterDrain`, `EndIsReported` | `CloseDrains`, `EndReported` | `Ends`, with `Sound`: a closed socket means a sender that is through; a queue closed and not asked for means a receiver that is about to report or has |
| `ProxyKept`, `WatcheeAlwaysFollows`, `NobodyEverLeftOut`, `ProxyTypes` | `KeptWhileWatched`, `WatcheeFollows`, `NobodyLeftOut`, `TypeOK` | `Sound`: the first two, and `Due`: who is owed a notification is a member, at an open queue, has no unsubscription in the mailbox (`Quiet`), and the notification is under way (`Coming`). Without `Quiet` the member could leave first |
| `AlwaysOneHome` | `OneHome` | `IInv` of `Routing`; of it, that an envelope in an inbox, on a wire or handled is on the system, or on its way to the system, that its reference names (`InboxOK`, `WireOK`, `GotHome`) |
| `AlwaysRoomForTheAnswer`, `AlwaysTheRightAnswer` | `NeverBlocks`, `RightAnswer` | `IInv`: a request that has not been asked is one envelope (`Question`), and then has neither a callback nor anything in its channel (`Asked`); a callback is registered only while the channel is empty, and what the channel or the caller holds is right (`Answers`); an answer in flight means the actor was handed the question (`Truthful`) |
| `EveryShareIsInOnePlace`, `ErrorsAreReported`, `RoutingTypes` | `Accounted`, `ErrorsReported`, `TypeOK` of `Routing` | `Ledger`, with `IInv`: who joined a subscription finds it there (`JoinedOK`), and every reference has a legal slot (`SlotLegal`); each share of an operation that was called is in exactly one place (`Once`); envelopes in an inbox or on a link belong to a called operation and to a share of it (`Formed`); what was not called has left no trace (`Fresh`); when nil would hide a refusal, a group to another system has been sent already (`Reported`). `Once` alone is not inductive: a step moves a share only if it finds the group of it at one end, and nothing of it at the other |
| `SlotInRange`, `PlacedAlike`, `ProxyStandsForActor` | lemmas on `Placement`: a slot is in 1 to `Slots` - 1; a declared type is placed alike by every system; the id of a proxy gives back a reference placed by the hash | |
| `FrameIsCut`, `NoFrameTooEarly` | lemmas on `Framing`: a packed frame at the head of a buffer is cut off as it was packed, whatever follows; no frame is cut before its last byte is there | `FramingAssumption` keeps the sums below `Mod` |
| `FramesHandledInOrder` | `Framed` and `Packaged`: accepted frames are handled from the first on, in order, each once and as `OnMessage` makes of it, and buffer and stream hold the bytes of the others | `IInv` of `Wire`: `Typed`; `Known`, the two maps of a system hold what was registered; `Packaged`, each frame is that of the envelope accepted in its place; `Framed`, in which some function gives the place of each frame in the bytes to come (`Laid`) |
| `WireTypes`, `SendRefusesForCause` | `TypeOK`, `RefusedForCause` of `Wire` | the same. Each branch of `Send` makes a package of its schema (`SendCarried`, ...) or fails with an error of the code (`Outcomes`) |
| `EnvelopesArriveAsSent`, `EnvelopesArriveWhereSent`, `OnlyUnknownMessagesAreRejected` | `Faithful`, `Addressed`, `OnlyUnknownRejected` | the same, and per branch that `OnMessage` undoes what `Send` did: references, numbers and errors come back whatever was registered, a message if both systems know it under the id. For a batch of any length both sides filter: to take the elements at some positions, and of these the elements at some, is to take those at the positions that are left (`NthOfNth`) |

`Flow` shows why a type invariant alone is not inductive for `ConnSocket`: that
the next frame is a sequence of numbers needs that the queue holds consecutive
frames from 1 on. Likewise `NeverBlocks` alone is not inductive: it needs `Asked`, or
a request could be put twice.

Only model-checked:

- the liveness properties (`Reconnects`, `ServesWaiters`, `BothEndsReleased`,
  `Delivers`, `WatcheeLearns`, `Interconnects`, `HeldUpOnlyByDead`, `Arrives`,
  `RequestsEnd`, `Settles`), because TLAPS does not reason about `ENABLED` and
  hence about fairness here. All safety properties the runs check are proved;
- that `Sub` is `SelectSeq`, which would need induction along the list;
- the findings, which are counterexamples.

## 6. Not modelled

- `NewSystem`, which wires the parts together, and the panic of
  `RegisterActorType` for a reserved type: they change no state after start-up.
- The interface declarations (`engine/net/connect/*.go` except `packet.go`), the
  accessors, descriptors and reflection of the generated protobuf code, the
  examples, logging, and the contents of messages.
- Message types that are registered after `Start`: the maps of `system.go` have
  no lock, so this is a data race, which the Go run time may abort on. The
  example program does not do it.
- Configurations the code does not check: the same `SystemId` twice, a
  `LocalSystemId` that is not in the list, a reference to a system that is not
  (`cluster_net.go:128` would follow a nil pointer). `PlacementAssumption`,
  `ClusterAssumption` and `RoutingAssumption` exclude them by name.
- Actors, mailboxes, timers and local routing of vactor, TCP and protobuf,
  beyond what the code here relies on.

Further work, in this order: `Registration` for every pair of `ClusterNet` as a
refinement, with the count of a system as the sum over its links, which needs a
history variable that tells a stale session's connection from its successor; the
links of `Routing` joined with `ClusterNet`; that the home of a placed actor is
always a system that declares its type.
