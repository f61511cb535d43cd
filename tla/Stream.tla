------------------------------- MODULE Stream -------------------------------
(***************************************************************************)
(* The control API's live streams (engine/events.go, logger/logger.go,     *)
(* api/events.go, api/logs.go, ws, tuiclient/events.go), followed from the *)
(* publisher to one viewer: the subscriber channel, the HTTP handler, the  *)
(* outbound queue of the WebSocket connection, its sendLoop and its        *)
(* reader, the socket, and the reading goroutine of the viewer.            *)
(*                                                                         *)
(* Viewers share the subscriber map only, and broadcast waits for none of  *)
(* them.  A stream of events publishes under one lock; a log entry enters  *)
(* the history under one and is fanned out under another.  A message is a  *)
(* number in the order of publication; 0 is a frame nobody counts: a pong, *)
(* a close, the statistics of every second.                                *)
(***************************************************************************)
EXTENDS Integers, Sequences, FiniteSets, SequencesExt

CONSTANTS SubSize,       \* eventSubscriberBuffer
          OutSize,       \* outboundQueueSize
          WireSize,      \* frames the socket takes before Write blocks
          HistoryLimit,  \* historyLimit
          MaxPublished,  \* bound: messages published
          MaxFrames      \* bound: frames the viewer sends

ASSUME StreamAssumption ==
    /\ {SubSize, OutSize, WireSize, HistoryLimit} \subseteq Nat \ {0}
    /\ {MaxPublished, MaxFrames} \subseteq Nat

VARIABLES kind,        \* "events" or "logs"
          published,   \* messages published so far
          history,     \* logger's history
          recording,   \* entries in the history and not fanned out yet
          registered,  \* the viewer's channel is in the subscriber map
          sub,         \* the viewer's subscriber channel
          subClosed,   \* cancel has closed it
          handler,     \* where the HTTP handler is, and what it has in hand
          outbound,    \* Conn.outbound
          wsClosed,    \* Conn.closed
          done,        \* Conn.done is closed
          loop,        \* sendLoop: "writing", "draining" or "gone"
          wsReader,    \* the reading goroutine: "idle", "top", "blocked" or "gone"
          assembling,  \* ReadMessage is in a fragmented message
          frames,      \* frames the viewer has sent
          wire,        \* frames on their way to the viewer
          viewer,      \* the viewer's goroutine: "reading", "handing" or "gone"
          cancelled,   \* the viewer has called its close function
          got,         \* what the viewer's program received
          snapshot,    \* what Tail returned
          sent,        \* what the outbound queue accepted
          promised     \* how much of it when Close was called

streamVars == <<kind, published, history, recording, registered, sub, subClosed, handler,
                outbound, wsClosed, done, loop, wsReader, assembling, frames, wire, viewer,
                cancelled, got, snapshot, sent, promised>>
pubVars == <<published, history, recording>>
subVars == <<registered, sub, subClosed>>
connVars == <<outbound, wsClosed, done, sent, promised>>
readVars == <<wsReader, assembling, frames>>
viewVars == <<wire, viewer, cancelled, got>>

Message == 1..MaxPublished
Counted(s) == SelectSeq(s, LAMBDA n : n > 0)

StreamInit ==
    /\ kind \in {"events", "logs"}
    /\ published = 0 /\ history = <<>> /\ recording = {}
    /\ registered = FALSE /\ sub = <<>> /\ subClosed = FALSE
    /\ handler = [at |-> "open", todo |-> <<>>, from |-> "tail", msg |-> 0]
    /\ outbound = <<>> /\ wsClosed = FALSE /\ done = FALSE /\ loop = "writing"
    /\ wsReader = "idle" /\ assembling = FALSE /\ frames = 0
    /\ wire = <<>> /\ viewer = "reading" /\ cancelled = FALSE /\ got = <<>>
    /\ snapshot = <<>> /\ sent = <<>> /\ promised = 0

-----------------------------------------------------------------------------
(* Publishing.                                                             *)

\* broadcast: a full channel misses the message.
Offered(n) == IF registered /\ Len(sub) < SubSize THEN Append(sub, n) ELSE sub

PublishEvent ==
    /\ kind = "events" /\ published < MaxPublished
    /\ published' = published + 1
    /\ sub' = Offered(published + 1)
    /\ UNCHANGED <<kind, history, recording, registered, subClosed, handler, connVars, loop, readVars, viewVars, snapshot>>

\* record, first half: the history keeps the last HistoryLimit entries.
RecordEntry ==
    /\ kind = "logs" /\ published < MaxPublished
    /\ published' = published + 1
    /\ LET all == Append(history, published + 1)
       IN history' = IF Len(all) > HistoryLimit THEN Tail(all) ELSE all
    /\ recording' = recording \cup {published + 1}
    /\ UNCHANGED <<kind, subVars, handler, connVars, loop, readVars, viewVars, snapshot>>

\* record, second half, on the goroutine that logged.
FanOut ==
    /\ \E n \in recording : sub' = Offered(n) /\ recording' = recording \ {n}
    /\ UNCHANGED <<kind, published, history, registered, subClosed, handler, connVars, loop, readVars, viewVars, snapshot>>

-----------------------------------------------------------------------------
(* The handler.                                                            *)

\* EventsHandler subscribes at once; LogsHandler takes the tail first.  Only
\* then does each start the reader.
OpenStream ==
    /\ handler.at = "open"
    /\ snapshot' = IF kind = "logs" THEN history ELSE <<>>
    /\ handler' = [handler EXCEPT !.at = "tail", !.todo = snapshot']
    /\ UNCHANGED <<kind, pubVars, subVars, connVars, loop, readVars, viewVars>>

TailEntry ==
    /\ handler.at = "tail" /\ handler.todo # <<>>
    /\ handler' = [at |-> "send", todo |-> Tail(handler.todo), from |-> "tail", msg |-> Head(handler.todo)]
    /\ UNCHANGED <<kind, pubVars, subVars, connVars, loop, readVars, viewVars, snapshot>>

SubscribeViewer ==
    /\ handler.at = "tail" /\ handler.todo = <<>>
    /\ registered' = TRUE
    /\ wsReader' = "top"
    /\ handler' = [handler EXCEPT !.at = "live", !.from = "live"]
    /\ UNCHANGED <<kind, pubVars, sub, subClosed, connVars, loop, assembling, frames, viewVars, snapshot>>

TakeMessage ==
    /\ handler.at = "live" /\ sub # <<>>
    /\ sub' = Tail(sub)
    /\ handler' = [handler EXCEPT !.at = "send", !.msg = Head(sub)]
    /\ UNCHANGED <<kind, pubVars, registered, subClosed, connVars, loop, readVars, viewVars, snapshot>>

TickStats ==
    /\ kind = "events" /\ handler.at = "live"
    /\ handler' = [handler EXCEPT !.at = "send", !.msg = 0]
    /\ UNCHANGED <<kind, pubVars, subVars, connVars, loop, readVars, viewVars, snapshot>>

NoticeClosed ==
    /\ handler.at = "live" /\ wsReader = "gone"
    /\ handler' = [handler EXCEPT !.at = "leave"]
    /\ UNCHANGED <<kind, pubVars, subVars, connVars, loop, readVars, viewVars, snapshot>>

\* Conn.send looks at closed and then queues.
CheckClosed ==
    /\ handler.at = "send"
    /\ handler' = [handler EXCEPT !.at = IF wsClosed THEN "leave" ELSE "put"]
    /\ UNCHANGED <<kind, pubVars, subVars, connVars, loop, readVars, viewVars, snapshot>>

QueueMessage ==
    /\ handler.at = "put" /\ Len(outbound) < OutSize
    /\ outbound' = Append(outbound, handler.msg)
    /\ sent' = IF handler.msg > 0 THEN Append(sent, handler.msg) ELSE sent
    /\ handler' = [handler EXCEPT !.at = handler.from, !.msg = 0]
    /\ UNCHANGED <<kind, pubVars, subVars, wsClosed, done, promised, loop, readVars, viewVars, snapshot>>

\* A full queue ends the stream (writeWSJSON); an entry of the tail is tried
\* again until the deadline (writeWSJSONReliably).
StreamFull ==
    \/ handler' = [handler EXCEPT !.at = "leave"]
    \/ handler.from = "tail" /\ handler' = [handler EXCEPT !.at = "send"]
QueueFull ==
    /\ handler.at = "put" /\ Len(outbound) >= OutSize
    /\ StreamFull
    /\ UNCHANGED <<kind, pubVars, subVars, connVars, loop, readVars, viewVars, snapshot>>

\* The deferred calls: cancel forgets the channel, then closes it (logger's
\* leaves it open); then conn.Close.
Unregister ==
    /\ handler.at = "leave"
    /\ registered' = FALSE
    /\ handler' = [handler EXCEPT !.at = "cancelled"]
    /\ UNCHANGED <<kind, pubVars, sub, subClosed, connVars, loop, readVars, viewVars, snapshot>>

CloseSub ==
    /\ handler.at = "cancelled"
    /\ subClosed' = (kind = "events")
    /\ handler' = [handler EXCEPT !.at = "close"]
    /\ UNCHANGED <<kind, pubVars, registered, sub, connVars, loop, readVars, viewVars, snapshot>>

\* Conn.Close, once.
CloseConn ==
    /\ wsClosed' = TRUE
    /\ done' = TRUE
    /\ promised' = IF done THEN promised ELSE Len(sent)

CloseStream ==
    /\ handler.at = "close"
    /\ CloseConn
    /\ handler' = [handler EXCEPT !.at = "over"]
    /\ UNCHANGED <<kind, pubVars, subVars, outbound, sent, loop, readVars, viewVars, snapshot>>

-----------------------------------------------------------------------------
(* The connection.                                                         *)

ViewerDown == viewer = "gone"

\* Write hands the frame to the socket, or fails when the viewer is gone.
WriteFrame ==
    /\ loop \in {"writing", "draining"} /\ outbound # <<>>
    /\ ~ViewerDown /\ Len(wire) < WireSize
    /\ wire' = Append(wire, Head(outbound))
    /\ outbound' = Tail(outbound)
    /\ UNCHANGED <<kind, pubVars, subVars, handler, wsClosed, done, sent, promised, loop, readVars, viewer, cancelled, got, snapshot>>

WriteFails ==
    /\ loop \in {"writing", "draining"} /\ outbound # <<>> /\ ViewerDown
    /\ outbound' = Tail(outbound)
    /\ IF loop = "writing" THEN wsClosed' = TRUE /\ loop' = "gone" ELSE UNCHANGED <<wsClosed, loop>>
    /\ UNCHANGED <<kind, pubVars, subVars, handler, done, sent, promised, readVars, viewVars, snapshot>>

SeesDone ==
    /\ loop = "writing" /\ done
    /\ loop' = "draining"
    /\ UNCHANGED <<kind, pubVars, subVars, handler, connVars, readVars, viewVars, snapshot>>

ClosedAtOnce == loop = "draining"
Drained == loop = "draining" /\ outbound = <<>>
CloseSocket ==
    /\ Drained
    /\ loop' = "gone"
    /\ UNCHANGED <<kind, pubVars, subVars, handler, connVars, readVars, viewVars, snapshot>>

ReaderTop ==
    /\ wsReader = "top"
    /\ wsReader' = IF wsClosed THEN "gone" ELSE "blocked"
    /\ UNCHANGED <<kind, pubVars, subVars, handler, connVars, loop, assembling, frames, viewVars, snapshot>>

\* The frames readFrame lets through: a whole message or its first part, a
\* continuation that ends it or does not, the control frames; "bad" stands for
\* what it refuses, and for opcodes nobody knows.
StreamFrame == {"message", "first", "middle", "last", "ping", "pong", "close", "bad"}
Breaks(f) ==
    \/ f = "bad"
    \/ f \in {"message", "first"} /\ assembling
    \/ f \in {"middle", "last"} /\ ~assembling
    \/ f = "ping" /\ (wsClosed \/ Len(outbound) >= OutSize)
Answers(f) == f \in {"ping", "close"} /\ ~wsClosed /\ Len(outbound) < OutSize

ReadFrame(f) ==
    /\ wsReader = "blocked" /\ loop # "gone" /\ ~ViewerDown /\ frames < MaxFrames
    /\ frames' = frames + 1
    /\ outbound' = IF Answers(f) THEN Append(outbound, 0) ELSE outbound
    /\ assembling' = IF f = "first" THEN TRUE ELSE IF f = "last" THEN FALSE ELSE assembling
    /\ IF Breaks(f) \/ f = "close"
       THEN wsReader' = "gone" /\ CloseConn
       ELSE wsReader' = "top" /\ UNCHANGED <<wsClosed, done, promised>>
    /\ UNCHANGED <<kind, pubVars, subVars, handler, sent, loop, viewVars, snapshot>>

\* The socket is closed on either side.
ReadFails ==
    /\ wsReader = "blocked" /\ (loop = "gone" \/ ViewerDown)
    /\ wsReader' = "gone"
    /\ CloseConn
    /\ UNCHANGED <<kind, pubVars, subVars, handler, outbound, sent, loop, assembling, frames, viewVars, snapshot>>

-----------------------------------------------------------------------------
(* The viewer: tuiclient.Subscribe.                                        *)

ViewerReads ==
    /\ viewer = "reading" /\ wire # <<>>
    /\ viewer' = "handing"
    /\ UNCHANGED <<kind, pubVars, subVars, handler, connVars, loop, readVars, wire, cancelled, got, snapshot>>

ViewerHands ==
    /\ viewer = "handing"
    /\ got' = IF Head(wire) > 0 THEN Append(got, Head(wire)) ELSE got
    /\ wire' = Tail(wire)
    /\ viewer' = "reading"
    /\ UNCHANGED <<kind, pubVars, subVars, handler, connVars, loop, readVars, cancelled, snapshot>>

ViewerCancels ==
    /\ ~cancelled
    /\ cancelled' = TRUE
    /\ UNCHANGED <<kind, pubVars, subVars, handler, connVars, loop, readVars, wire, viewer, got, snapshot>>

ViewerEnds ==
    /\ viewer # "gone"
    /\ cancelled \/ (viewer = "reading" /\ wire = <<>> /\ loop = "gone")
    /\ viewer' = "gone"
    /\ UNCHANGED <<kind, pubVars, subVars, handler, connVars, loop, readVars, wire, cancelled, got, snapshot>>

-----------------------------------------------------------------------------
StreamNext ==
    \/ PublishEvent \/ RecordEntry \/ FanOut
    \/ OpenStream \/ TailEntry \/ SubscribeViewer \/ TakeMessage \/ TickStats \/ NoticeClosed
    \/ CheckClosed \/ QueueMessage \/ QueueFull \/ Unregister \/ CloseSub \/ CloseStream
    \/ WriteFrame \/ WriteFails \/ SeesDone \/ CloseSocket
    \/ ReaderTop \/ (\E f \in StreamFrame : ReadFrame(f)) \/ ReadFails
    \/ ViewerReads \/ ViewerHands \/ ViewerCancels \/ ViewerEnds

StreamSpec == StreamInit /\ [][StreamNext]_streamVars
-----------------------------------------------------------------------------
StreamTypeOK ==
    /\ kind \in {"events", "logs"}
    /\ published \in 0..MaxPublished /\ recording \subseteq Message /\ frames \in 0..MaxFrames
    /\ Len(history) <= HistoryLimit /\ Len(sub) <= SubSize /\ Len(outbound) <= OutSize /\ Len(wire) <= WireSize
    /\ loop \in {"writing", "draining", "gone"} /\ wsReader \in {"idle", "top", "blocked", "gone"}
    /\ viewer \in {"reading", "handing", "gone"}

\* broadcast never sends on a closed channel (it would panic under the lock).
OpenWhileRegistered == registered => ~subClosed

\* The handler has let go of both when it returns.
OverIsReleased == handler.at = "over" => ~registered /\ done

\* Events arrive in the order they were published, each at most once.
EventsInOrder ==
    kind = "events" => \A i, j \in 1..Len(sent) : i < j => sent[i] < sent[j]

\* No entry of the tail is left out before the live entries begin.
TailIsWhole ==
    /\ IsPrefix(sent, snapshot) \/ IsPrefix(snapshot, sent)
    /\ registered => IsPrefix(snapshot, sent)

\* What the queue accepted is on its way or has arrived, in that order; and
\* what was in it when Close was called is written before the socket closes.
AcceptedIsDelivered ==
    /\ ViewerDown => IsPrefix(got, sent)
    /\ ~ViewerDown => Counted(got \o wire \o outbound) = sent
    /\ ~ViewerDown /\ loop = "gone" => Len(Counted(got \o wire)) >= promised

\* A live stream (api/events.go EventsHandler, api/logs.go LogsHandler over
\* ws.Conn) delivers in order what it accepted, the whole tail first, and lets
\* go of its subscription before the channel is closed.
StreamInv ==
    StreamTypeOK /\ OpenWhileRegistered /\ OverIsReleased /\ EventsInOrder /\ TailIsWhole /\ AcceptedIsDelivered
=============================================================================
