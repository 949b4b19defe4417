------------------------------- MODULE ConnSocket -------------------------------
(***************************************************************************)
(* One TCP connection with a ConnSocket at each end (conn.go): an outgoing *)
(* queue, a sender goroutine that writes what it dequeues, and a receiver  *)
(* goroutine that hands what it reads to OnData.  Disconnect closes the    *)
(* queue; the sender drains it and closes the socket, which is what ends   *)
(* the receiver at last.                                                   *)
(*                                                                         *)
(* The queue is the channel that Queue is shown to implement.  The bytes   *)
(* accepted at one end are numbered 1, 2, ... in the order of SendData, so *)
(* frame f is FrameLen numbers, and a loss, a repetition or a mixture of   *)
(* frames shows.                                                           *)
(***************************************************************************)
EXTENDS Integers, Sequences

CONSTANTS
    A, B,         \* the two ends
    FrameLen,     \* bytes of a frame
    MaxFrames,    \* bound on the frames an end sends
    MaxWire,      \* bytes the network takes before a write has to wait
    Breaks,       \* TRUE: the network may drop the connection
    WriteErrors,  \* TRUE: writing to a connection that has ended may fail
    Rejects       \* TRUE: OnData may return an error (those of this
                  \* repository, in client.go and server.go, never do)

ASSUME ConnAssumption ==
    /\ A # B
    /\ FrameLen \in Nat \ {0} /\ MaxFrames \in Nat /\ MaxWire \in Nat \ {0}
    /\ Breaks \in BOOLEAN /\ WriteErrors \in BOOLEAN /\ Rejects \in BOOLEAN

VARIABLES
    accepted,  \* frames SendData has accepted
    queue,     \* those not yet dequeued
    closed,    \* the queue is closed
    sender,    \* where the sender goroutine is
    writing,   \* what is left of the frame it writes
    receiver,  \* where the receiver goroutine is
    open,      \* conn.Close() has not been called
    wire,      \* written at this end, not yet read at the other
    received,  \* handed to OnData
    asked,     \* the application has called Disconnect
    reported,  \* onDisconnectFunc has run
    broken     \* the connection is dead

appVars      == <<accepted, asked>>
senderVars   == <<sender, writing>>
receiverVars == <<receiver, received, reported>>
vars == <<appVars, queue, closed, senderVars, receiverVars, open, wire, broken>>

End == {A, B}
Peer(e) == IF e = A THEN B ELSE A

TypeOK ==
    /\ accepted \in [End -> Nat]
    /\ queue \in [End -> Seq(Nat)]
    /\ closed \in [End -> BOOLEAN]
    /\ sender \in [End -> {"dequeue", "write", "done"}]
    /\ writing \in [End -> Seq(Nat)]
    /\ receiver \in [End -> {"read", "failed", "closing", "callback", "done"}]
    /\ open \in [End -> BOOLEAN]
    /\ wire \in [End -> Seq(Nat)]
    /\ received \in [End -> Seq(Nat)]
    /\ asked \in [End -> BOOLEAN]
    /\ reported \in [End -> BOOLEAN]
    /\ broken \in BOOLEAN
    /\ \A e \in End : sender[e] = "write" => writing[e] # <<>>

Init ==
    /\ accepted = [e \in End |-> 0]
    /\ queue = [e \in End |-> <<>>] /\ closed = [e \in End |-> FALSE]
    /\ sender = [e \in End |-> "dequeue"] /\ writing = [e \in End |-> <<>>]
    /\ receiver = [e \in End |-> "read"] /\ received = [e \in End |-> <<>>]
    /\ open = [e \in End |-> TRUE] /\ wire = [e \in End |-> <<>>]
    /\ asked = [e \in End |-> FALSE] /\ reported = [e \in End |-> FALSE]
    /\ broken = FALSE

Frame(f) == [i \in 1 .. FrameLen |-> (f - 1) * FrameLen + i]

-----------------------------------------------------------------------------
(* The application.                                                        *)

SendData(e) ==
    /\ ~closed[e] /\ accepted[e] < MaxFrames
    /\ accepted' = [accepted EXCEPT ![e] = @ + 1]
    /\ queue' = [queue EXCEPT ![e] = Append(@, accepted[e] + 1)]
    /\ UNCHANGED <<closed, senderVars, receiverVars, open, wire, asked, broken>>

\* Disconnect while the queue is open; otherwise it changes nothing.
Disconnect(e) ==
    /\ ~closed[e]
    /\ closed' = [closed EXCEPT ![e] = TRUE]
    /\ asked' = [asked EXCEPT ![e] = TRUE]
    /\ UNCHANGED <<accepted, queue, senderVars, receiverVars, open, wire, broken>>

-----------------------------------------------------------------------------
(* The sender goroutine.                                                   *)

Dequeue(e) ==
    /\ sender[e] = "dequeue" /\ queue[e] # <<>>
    /\ queue' = [queue EXCEPT ![e] = Tail(@)]
    /\ sender' = [sender EXCEPT ![e] = "write"]
    /\ writing' = [writing EXCEPT ![e] = Frame(Head(queue[e]))]
    /\ UNCHANGED <<appVars, closed, receiverVars, open, wire, broken>>

\* The connection may be reset when a socket is closed, or a peer writes to a
\* closed one, with data the application never reads.
MayReset(unread) == broken' \in {broken} \cup IF unread THEN {TRUE} ELSE {}

Dead(e) == broken \/ ~open[Peer(e)]

\* conn.Write takes some bytes; what goes to a dead connection is lost.
MutWrite(e) ==
    /\ sender[e] = "write"
    /\ \E n \in 1 .. Len(writing[e]) :
         /\ Dead(e) \/ Len(wire[e]) + n <= MaxWire
         /\ writing' = [writing EXCEPT ![e] = <<>>]
         /\ sender' = [sender EXCEPT ![e] = "dequeue"]
         /\ wire' = IF Dead(e) THEN wire
                    ELSE [wire EXCEPT ![e] = @ \o SubSeq(writing[e], 1, n)]
    /\ MayReset(~open[Peer(e)])
    /\ UNCHANGED <<appVars, queue, closed, receiverVars, open>>

Write(e) ==
    /\ sender[e] = "write"
    /\ \E n \in 1 .. Len(writing[e]) :
         /\ Dead(e) \/ Len(wire[e]) + n <= MaxWire
         /\ writing' = [writing EXCEPT ![e] = SubSeq(@, n + 1, Len(@))]
         /\ sender' = [sender EXCEPT
                         ![e] = IF n = Len(writing[e]) THEN "dequeue" ELSE @]
         /\ wire' = IF Dead(e) THEN wire
                    ELSE [wire EXCEPT ![e] = @ \o SubSeq(writing[e], 1, n)]
    /\ MayReset(~open[Peer(e)])
    /\ UNCHANGED <<appVars, queue, closed, receiverVars, open>>

\* conn.Write fails: the goroutine returns, the socket stays as it is.
WriteFails(e) ==
    /\ WriteErrors
    /\ sender[e] = "write" /\ Dead(e)
    /\ sender' = [sender EXCEPT ![e] = "done"]
    /\ UNCHANGED <<appVars, queue, closed, writing, receiverVars, open, wire, broken>>

\* The queue is closed and drained: conn.Close().
MutSenderCloses(e) ==
    /\ sender[e] = "dequeue" /\ closed[e]
    /\ open' = [open EXCEPT ![e] = FALSE]
    /\ sender' = [sender EXCEPT ![e] = "done"]
    /\ MayReset(wire[Peer(e)] # <<>>)
    /\ UNCHANGED <<appVars, queue, closed, writing, receiverVars, wire>>

MutSenderEnds(e) ==
    /\ sender[e] = "dequeue" /\ queue[e] = <<>> /\ closed[e]
    /\ sender' = [sender EXCEPT ![e] = "done"]
    /\ UNCHANGED <<appVars, queue, closed, writing, receiverVars, open, wire, broken>>

SenderCloses(e) ==
    /\ sender[e] = "dequeue" /\ queue[e] = <<>> /\ closed[e]
    /\ open' = [open EXCEPT ![e] = FALSE]
    /\ sender' = [sender EXCEPT ![e] = "done"]
    /\ MayReset(wire[Peer(e)] # <<>>)
    /\ UNCHANGED <<appVars, queue, closed, writing, receiverVars, wire>>

Sender(e) == Dequeue(e) \/ Write(e) \/ WriteFails(e) \/ SenderCloses(e)

-----------------------------------------------------------------------------
(* The receiver goroutine.                                                 *)

\* reader.Read returns some bytes and OnData takes them or returns an error.
Read(e) ==
    /\ receiver[e] = "read" /\ open[e] /\ ~broken
    /\ \E n \in 1 .. Len(wire[Peer(e)]) :
         /\ received' = [received EXCEPT ![e] = @ \o SubSeq(wire[Peer(e)], 1, n)]
         /\ wire' = [wire EXCEPT ![Peer(e)] = SubSeq(@, n + 1, Len(@))]
    /\ \E next \in IF Rejects THEN {"read", "failed"} ELSE {"read"} :
         receiver' = [receiver EXCEPT ![e] = next]
    /\ UNCHANGED <<appVars, queue, closed, senderVars, reported, open, broken>>

\* The connection is dead, the socket is closed here, or the stream has ended.
ReadFails(e) ==
    /\ receiver[e] = "read"
    /\ broken \/ ~open[e] \/ (~open[Peer(e)] /\ wire[Peer(e)] = <<>>)
    /\ receiver' = [receiver EXCEPT ![e] = "failed"]
    /\ UNCHANGED <<appVars, queue, closed, senderVars, received, reported, open,
                   wire, broken>>

\* if !q.IsClose() ...
MutTestClosed(e) ==
    /\ receiver[e] = "failed"
    /\ receiver' = [receiver EXCEPT ![e] = "done"]
    /\ closed' = [closed EXCEPT ![e] = TRUE]
    /\ UNCHANGED <<appVars, queue, senderVars, received, reported, open, wire,
                   broken>>

TestClosed(e) ==
    /\ receiver[e] = "failed"
    /\ receiver' = [receiver EXCEPT ![e] = IF closed[e] THEN "done" ELSE "closing"]
    /\ UNCHANGED <<appVars, queue, closed, senderVars, received, reported, open,
                   wire, broken>>

\* ... Disconnect(); the application may have done so since the test.
ReceiverCloses(e) ==
    /\ receiver[e] = "closing"
    /\ closed' = [closed EXCEPT ![e] = TRUE]
    /\ receiver' = [receiver EXCEPT ![e] = "callback"]
    /\ UNCHANGED <<appVars, queue, senderVars, received, reported, open, wire,
                   broken>>

OnDisconnect(e) ==
    /\ receiver[e] = "callback"
    /\ reported' = [reported EXCEPT ![e] = TRUE]
    /\ receiver' = [receiver EXCEPT ![e] = "done"]
    /\ UNCHANGED <<appVars, queue, closed, senderVars, received, open, wire, broken>>

Receiver(e) ==
    Read(e) \/ ReadFails(e) \/ TestClosed(e) \/ ReceiverCloses(e) \/ OnDisconnect(e)

-----------------------------------------------------------------------------
Break ==
    /\ Breaks /\ ~broken
    /\ broken' = TRUE
    /\ UNCHANGED <<appVars, queue, closed, senderVars, receiverVars, open, wire>>

Next ==
    \/ \E e \in End : SendData(e) \/ Disconnect(e) \/ Sender(e) \/ Receiver(e)
    \/ Break

\* Goroutines run.  Nobody has to send, to disconnect or to break anything.
Fairness == \A e \in End : WF_vars(Sender(e)) /\ WF_vars(Receiver(e))

Spec == Init /\ [][Next]_vars
FairSpec == Spec /\ Fairness

-----------------------------------------------------------------------------
(* Properties.                                                             *)

\* What an end hands to OnData is what the other end accepted, from its first
\* byte on, without a gap, a repetition or a frame inside another, however reads
\* and writes cut the stream.
Consecutive(s, from) == \A i \in DOMAIN s : s[i] = from + i

StreamIntact ==
    \A e \in End :
        /\ Consecutive(received[Peer(e)], 0)
        /\ Consecutive(wire[e], Len(received[Peer(e)]))
        /\ Len(received[Peer(e)]) + Len(wire[e]) <= accepted[e] * FrameLen

\* A socket is closed only after all that was accepted has been written.
CloseDrains ==
    \A e \in End : ~open[e] => closed[e] /\ queue[e] = <<>> /\ writing[e] = <<>>

\* A receiver goroutine that is through has left the queue closed, and unless
\* the application had asked for the end itself, it has been told.
EndReported ==
    \A e \in End : receiver[e] = "done" => closed[e] /\ (reported[e] \/ asked[e])

\* Closing one end, for whatever reason, ends both sender goroutines, and each
\* releases its socket on the way, except one that a failed write has ended: that
\* goroutine has left its socket to nobody (conn.go:87).
WriteFailed(e) == sender[e] = "done" /\ open[e]

BothEndsReleased ==
    <>[]((\E e \in End : closed[e]) => \A x \in End : ~open[x] \/ WriteFailed(x))

\* What was accepted arrives, even if the connection is closed right behind it;
\* only a dead connection or a receiver that closes its own end may lose it.
Delivers ==
    <>[](\A e \in End : \/ Len(received[Peer(e)]) = accepted[e] * FrameLen
                       \/ broken \/ asked[Peer(e)])
=================================================================================
