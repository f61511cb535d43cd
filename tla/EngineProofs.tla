----------------------------- MODULE EngineProofs -----------------------------
(***************************************************************************)
(* Parts of the engine for every number of torrents, callers and messages: *)
(* what the end of the process leaves behind (Services), in which order a  *)
(* live stream of the control API delivers (Stream), whose pause the       *)
(* passes of the queue respect (Queue), and how the fleet, its manifest,   *)
(* its torrents and their files stay in agreement (Fleet).                 *)
(***************************************************************************)
EXTENDS Services, Stream, Queue, Fleet, FiniteSetTheorems, SequenceTheorems, TLAPS

(* Services *)

ServicesTypeOK ==
    /\ closing \in [Closable -> [Closers -> {"idle", "waiting", "returned"}]]
    /\ reader \in [Closable -> {"reading", "handing", "gone"}]
    /\ maintain \in {"waiting", "saving", "gone"} /\ saver \in {"none", "saving", "saved"}

\* Where Close has returned, the loops it waits for are gone and the table is saved.
ReturnedIsQuiet ==
    \A by \in Closers : closing["dht"][by] = "returned" => LoopsEnded("dht") /\ saver = "saved"

\* Shutdown's own Close of the DHT node has returned before the process ends.
ExitedIsReturned == main = "exited" => closing["dht"]["shutdown"] = "returned"

QuietInv == ServicesTypeOK /\ ReturnedIsQuiet /\ ExitedIsReturned

LEMMA QuietInitially == ServicesInit => QuietInv
BY DEF ServicesInit, QuietInv, ServicesTypeOK, ReturnedIsQuiet, ExitedIsReturned, Closable, Closers

LEMMA QuietKept ==
    ASSUME QuietInv, [ServicesNext]_servicesVars
    PROVE  QuietInv'
<1> USE DEF QuietInv, ServicesTypeOK, ReturnedIsQuiet, ExitedIsReturned, LoopsEnded, Closable, Closers
<1>1. CASE UNCHANGED servicesVars
  BY <1>1 DEF servicesVars
<1>2. ASSUME main # "exited", NEW s \in Closable, NEW by \in Closers, CloseNext(s, by)
      PROVE  QuietInv'
  <2>1. CASE CallClose(s, by)
    BY <1>2, <2>1 DEF CallClose
  <2>2. CASE Saves(by)
    BY <1>2, <2>2 DEF Saves, SaveOnce
  <2>3. CASE CloseReturns(s, by)
    BY <1>2, <2>3 DEF CloseReturns
  <2>4. QED
    BY <1>2, <2>1, <2>2, <2>3 DEF CloseNext
<1>3. CASE Arrives \/ Loops
  BY <1>3 DEF Arrives, Loops, DhtReads, Maintains, LsdReads, Dispatches, StateSaved
<1>4. CASE Ends
  BY <1>4 DEF Ends, Exits, BeginShutdown, CloseMux, TorrentStops, AllClosed
<1>5. CASE FolderScans \/ Cancel
  BY <1>5 DEF FolderScans, Cancel
<1>6. QED
  BY <1>1, <1>2, <1>3, <1>4, <1>5 DEF ServicesNext

\* Engine.Shutdown, Node.Close (dht/node.go): once the process has ended, nothing
\* writes the DHT's state file, whoever called Close first and however far the
\* periodic save was.
THEOREM NothingWritesAfterShutdown == ServicesSpec => []QuietAfterShutdown
<1>1. QuietInv => QuietAfterShutdown
  BY DEF QuietInv, ReturnedIsQuiet, ExitedIsReturned, LoopsEnded, Closers, QuietAfterShutdown
<1>2. QED
  BY QuietInitially, QuietKept, <1>1, PTL DEF ServicesSpec

-----------------------------------------------------------------------------
(* A live stream *)

Numbers == Nat \ {0}

StreamTypes ==
    /\ kind \in {"events", "logs"} /\ published \in Nat /\ recording \subseteq Numbers
    /\ history \in Seq(Numbers) /\ sub \in Seq(Numbers) /\ snapshot \in Seq(Numbers) /\ sent \in Seq(Numbers)
    /\ handler \in [at : {"open", "tail", "send", "put", "live", "leave", "cancelled", "close", "over"},
                    todo : Seq(Numbers), from : {"tail", "live"}, msg : Nat]

\* The handler lets go of its channel before it closes it, and of the connection last.
LetsGoInOrder ==
    /\ handler.at \in {"cancelled", "close", "over"} => ~registered
    /\ subClosed => handler.at \in {"close", "over"}
    /\ handler.at = "over" => done

\* What the handler has in hand.
Sending == handler.at \in {"send", "put"}
InHand == Sending /\ handler.msg > 0

\* Where each entry of the tail is.
TailIsSomewhere ==
    /\ handler.from = "tail" => 
          /\ handler.at = "open" => sent = <<>> /\ snapshot = <<>>
          /\ handler.at = "tail" => snapshot = sent \o handler.todo
          /\ Sending => handler.msg > 0 /\ snapshot = sent \o <<handler.msg>> \o handler.todo
          /\ handler.at # "live" /\ ~registered
    /\ handler.from = "live" => IsPrefix(snapshot, sent) /\ handler.at \notin {"open", "tail"}
    /\ IsPrefix(sent, snapshot) \/ IsPrefix(snapshot, sent)

\* Events in the queue, in hand and in the channel, one after the other.
EventsInLine ==
    kind = "events" =>
        /\ snapshot = <<>> /\ handler.todo = <<>>
        /\ \A i, j \in DOMAIN sent : i < j => sent[i] < sent[j]
        /\ \A i, j \in DOMAIN sub : i < j => sub[i] < sub[j]
        /\ \A i \in DOMAIN sent, j \in DOMAIN sub : sent[i] < sub[j]
        /\ InHand => /\ \A i \in DOMAIN sent : sent[i] < handler.msg
                     /\ \A j \in DOMAIN sub : handler.msg < sub[j]
                     /\ handler.msg <= published
        /\ \A i \in DOMAIN sent : sent[i] <= published
        /\ \A j \in DOMAIN sub : sub[j] <= published
        /\ recording = {}

StreamIInv == StreamTypes /\ LetsGoInOrder /\ TailIsSomewhere /\ EventsInLine

LEMMA StreamInitially == StreamInit => StreamIInv
<1> USE DEF StreamInit, StreamIInv, StreamTypes, LetsGoInOrder, TailIsSomewhere, EventsInLine, Sending, InHand, Numbers
<1>1. IsPrefix(<<>>, <<>>)
  BY DEF IsPrefix
<1> QED
  BY <1>1

\* What the goroutines of the connection and the viewer do.
Elsewhere == UNCHANGED <<kind, pubVars, subVars, handler, sent, snapshot>> /\ (done => done')

LEMMA OthersAreElsewhere ==
    ASSUME StreamNext
    PROVE  \/ PublishEvent \/ RecordEntry \/ FanOut
           \/ OpenStream \/ TailEntry \/ SubscribeViewer \/ TakeMessage \/ TickStats \/ NoticeClosed
           \/ CheckClosed \/ QueueMessage \/ QueueFull \/ Unregister \/ CloseSub \/ CloseStream
           \/ Elsewhere
<1>1. CASE WriteFrame \/ WriteFails \/ SeesDone \/ CloseSocket \/ ReaderTop
  BY <1>1 DEF WriteFrame, WriteFails, SeesDone, CloseSocket, ReaderTop, Elsewhere, connVars
<1>2. CASE ReadFails \/ \E f \in StreamFrame : ReadFrame(f)
  BY <1>2 DEF ReadFails, ReadFrame, CloseConn, Elsewhere
<1>3. CASE ViewerReads \/ ViewerHands \/ ViewerCancels \/ ViewerEnds
  BY <1>3 DEF ViewerReads, ViewerHands, ViewerCancels, ViewerEnds, Elsewhere, connVars
<1>4. QED
  BY <1>1, <1>2, <1>3 DEF StreamNext

(* Sequences *)

LEMMA PrefixOfConcat ==
    ASSUME NEW s \in Seq(Numbers), NEW t \in Seq(Numbers)
    PROVE  IsPrefix(s, s \o t)
BY DEF IsPrefix, Numbers

LEMMA PrefixOfAppend ==
    ASSUME NEW s \in Seq(Numbers), NEW t \in Seq(Numbers), NEW n \in Numbers, IsPrefix(s, t)
    PROVE  IsPrefix(s, Append(t, n))
BY DEF IsPrefix, Numbers

LEMMA AppendThenRest ==
    ASSUME NEW s \in Seq(Numbers), NEW t \in Seq(Numbers), NEW n \in Numbers
    PROVE  s \o <<n>> \o t = Append(s, n) \o t
BY AppendIsConcat

LEMMA HeadInTheMiddle ==
    ASSUME NEW s \in Seq(Numbers), NEW t \in Seq(Numbers), t # <<>>
    PROVE  /\ Head(t) \in Numbers /\ Tail(t) \in Seq(Numbers)
           /\ s \o <<Head(t)>> \o Tail(t) = s \o t
BY DEF Numbers

\* broadcast adds one message or none.
LEMMA OfferedIsSequence ==
    ASSUME NEW n \in Numbers, sub \in Seq(Numbers)
    PROVE  Offered(n) \in Seq(Numbers) /\ Offered(n) \in {sub, Append(sub, n)}
BY DEF Offered

LEMMA StreamTypesKept ==
    ASSUME StreamIInv, StreamNext
    PROVE  StreamTypes'
<1> USE DEF StreamTypes, StreamIInv, StreamTypes, LetsGoInOrder, pubVars, subVars, connVars, Numbers
<1>1. CASE PublishEvent
  <2>1. published + 1 \in Numbers
    OBVIOUS
  <2>2. QED
    BY <1>1, <2>1, OfferedIsSequence DEF PublishEvent
<1>2. CASE RecordEntry
  <2>1. published + 1 \in Numbers
    OBVIOUS
  <2> DEFINE all == Append(history, published + 1)
  <2>2. all \in Seq(Numbers) /\ Len(all) = Len(history) + 1 /\ Len(history) \in Nat
    BY <2>1
  <2> HIDE DEF all
  <2>3. Tail(all) \in Seq(Numbers)
    BY <2>2
  <2>4. history' \in Seq(Numbers)
    BY <1>2, <2>2, <2>3 DEF RecordEntry, all
  <2>5. QED
    BY <1>2, <2>1, <2>4 DEF RecordEntry
<1>3. CASE FanOut
  BY <1>3, OfferedIsSequence DEF FanOut
<1>4. CASE OpenStream
  <2>1. snapshot' \in Seq(Numbers)
    BY <1>4 DEF OpenStream
  <2>2. handler' = [at |-> "tail", todo |-> snapshot', from |-> handler.from, msg |-> handler.msg]
    BY <1>4 DEF OpenStream
  <2>3. QED
    BY <1>4, <2>1, <2>2 DEF OpenStream
<1>5. CASE TailEntry
  BY <1>5 DEF TailEntry
<1>6. CASE SubscribeViewer
  BY <1>6 DEF SubscribeViewer
<1>7. CASE TakeMessage
  <2>1. Head(sub) \in Numbers /\ Tail(sub) \in Seq(Numbers)
    BY <1>7 DEF TakeMessage
  <2>2. handler' = [at |-> "send", todo |-> handler.todo, from |-> handler.from, msg |-> Head(sub)]
    BY <1>7 DEF TakeMessage
  <2>3. QED
    BY <1>7, <2>1, <2>2 DEF TakeMessage
<1>8. CASE TickStats
  BY <1>8 DEF TickStats
<1>9. CASE NoticeClosed
  BY <1>9 DEF NoticeClosed
<1>10. CASE CheckClosed
  BY <1>10 DEF CheckClosed
<1>11. CASE QueueMessage
  <2>1. handler' = [at |-> handler.from, todo |-> handler.todo, from |-> handler.from, msg |-> 0]
    BY <1>11 DEF QueueMessage
  <2>2. sent' \in Seq(Numbers)
    BY <1>11 DEF QueueMessage
  <2>3. QED
    BY <1>11, <2>1, <2>2 DEF QueueMessage
<1>12. CASE QueueFull
  BY <1>12 DEF QueueFull, StreamFull
<1>13. CASE Unregister
  BY <1>13 DEF Unregister
<1>14. CASE CloseSub
  BY <1>14 DEF CloseSub
<1>15. CASE CloseStream
  BY <1>15 DEF CloseStream, CloseConn
<1>16. CASE Elsewhere
  BY <1>16 DEF Elsewhere
<1> QED
  BY OthersAreElsewhere, <1>1, <1>2, <1>3, <1>4, <1>5, <1>6, <1>7, <1>8, <1>9, <1>10, <1>11, <1>12, <1>13, <1>14, <1>15, <1>16

LEMMA LettingGoKept ==
    ASSUME StreamIInv, StreamNext
    PROVE  LetsGoInOrder'
<1> USE DEF LetsGoInOrder, StreamIInv, StreamTypes, LetsGoInOrder, pubVars, subVars, connVars, TailIsSomewhere, Sending
<1>1. CASE PublishEvent
  BY <1>1 DEF PublishEvent, Offered
<1>2. CASE RecordEntry
  BY <1>2 DEF RecordEntry
<1>3. CASE FanOut
  BY <1>3 DEF FanOut, Offered
<1>4. CASE OpenStream
  BY <1>4 DEF OpenStream
<1>5. CASE TailEntry
  BY <1>5 DEF TailEntry
<1>6. CASE SubscribeViewer
  BY <1>6 DEF SubscribeViewer
<1>7. CASE TakeMessage
  BY <1>7 DEF TakeMessage
<1>8. CASE TickStats
  BY <1>8 DEF TickStats
<1>9. CASE NoticeClosed
  BY <1>9 DEF NoticeClosed
<1>10. CASE CheckClosed
  BY <1>10 DEF CheckClosed
<1>11. CASE QueueMessage
  BY <1>11 DEF QueueMessage
<1>12. CASE QueueFull
  BY <1>12 DEF QueueFull, StreamFull
<1>13. CASE Unregister
  BY <1>13 DEF Unregister
<1>14. CASE CloseSub
  BY <1>14 DEF CloseSub
<1>15. CASE CloseStream
  BY <1>15 DEF CloseStream, CloseConn
<1>16. CASE Elsewhere
  BY <1>16 DEF Elsewhere
<1> QED
  BY OthersAreElsewhere, <1>1, <1>2, <1>3, <1>4, <1>5, <1>6, <1>7, <1>8, <1>9, <1>10, <1>11, <1>12, <1>13, <1>14, <1>15, <1>16

LEMMA TailKept ==
    ASSUME StreamIInv, StreamNext
    PROVE  TailIsSomewhere'
<1> USE DEF TailIsSomewhere, StreamIInv, StreamTypes, LetsGoInOrder, pubVars, subVars, connVars, Sending, Numbers
<1>1. CASE PublishEvent
  BY <1>1 DEF PublishEvent, Offered
<1>2. CASE RecordEntry
  BY <1>2 DEF RecordEntry
<1>3. CASE FanOut
  BY <1>3 DEF FanOut, Offered
<1>4. CASE OpenStream
  <2>1. snapshot' \in Seq(Numbers) /\ sent = <<>> /\ sent' = sent /\ handler.from = "tail" /\ ~registered
    BY <1>4 DEF OpenStream
  <2>2. handler' = [at |-> "tail", todo |-> snapshot', from |-> "tail", msg |-> handler.msg]
    BY <1>4, <2>1 DEF OpenStream
  <2>3. snapshot' = sent \o snapshot' /\ IsPrefix(sent, snapshot')
    BY <2>1 DEF IsPrefix
  <2>4. QED
    BY <1>4, <2>1, <2>2, <2>3 DEF OpenStream
<1>5. CASE TailEntry
  <2>1. /\ handler.from = "tail" /\ snapshot = sent \o handler.todo /\ handler.todo # <<>>
        /\ snapshot' = snapshot /\ sent' = sent /\ ~registered /\ registered' = registered
    BY <1>5 DEF TailEntry
  <2>2. handler' = [at |-> "send", todo |-> Tail(handler.todo), from |-> "tail", msg |-> Head(handler.todo)]
    BY <1>5 DEF TailEntry
  <2>3. sent \in Seq(Numbers) /\ handler.todo \in Seq(Numbers)
    OBVIOUS
  <2>4. Head(handler.todo) \in Numbers /\ sent \o <<Head(handler.todo)>> \o Tail(handler.todo) = sent \o handler.todo
    BY <2>1, <2>3, HeadInTheMiddle
  <2>5. Head(handler.todo) > 0
    <3> HIDE DEF StreamIInv
    <3>1. QED
      BY <2>4 DEF Numbers
  <2>6. sent \o <<Head(handler.todo)>> \o Tail(handler.todo) = snapshot
    <3> HIDE DEF StreamIInv
    <3>1. QED
      BY <2>1, <2>4, Zenon
  <2>7. QED
    BY <1>5, <2>1, <2>2, <2>5, <2>6
<1>6. CASE SubscribeViewer
  BY <1>6 DEF SubscribeViewer
<1>7. CASE TakeMessage
  BY <1>7 DEF TakeMessage
<1>8. CASE TickStats
  BY <1>8 DEF TickStats
<1>9. CASE NoticeClosed
  BY <1>9 DEF NoticeClosed
<1>10. CASE CheckClosed
  BY <1>10 DEF CheckClosed
<1>11. CASE QueueMessage
  <2>1. handler' = [at |-> handler.from, todo |-> handler.todo, from |-> handler.from, msg |-> 0]
    BY <1>11 DEF QueueMessage
  <2>2. snapshot' = snapshot /\ registered' = registered /\ handler.at = "put"
    BY <1>11 DEF QueueMessage
  <2>3. CASE handler.from = "tail"
    <3>1. handler.msg \in Numbers /\ sent' = Append(sent, handler.msg) /\ ~registered
      BY <1>11, <2>3 DEF QueueMessage
    <3>2. sent \in Seq(Numbers) /\ handler.todo \in Seq(Numbers) /\ snapshot = sent \o <<handler.msg>> \o handler.todo
      BY <2>2, <2>3 DEF Sending
    <3>3. sent' \in Seq(Numbers)
      BY <3>1, <3>2, AppendProperties
    <3>4. snapshot = sent' \o handler.todo
      BY <3>1, <3>2, AppendThenRest
    <3>5. IsPrefix(sent', snapshot)
      BY <3>2, <3>3, <3>4, PrefixOfConcat
    <3>6. QED
      BY <2>1, <2>2, <2>3, <3>1, <3>4, <3>5
  <2>4. CASE handler.from = "live"
    <3>1. IsPrefix(snapshot, sent')
      BY <1>11, <2>4, PrefixOfAppend DEF QueueMessage
    <3>2. QED
      BY <2>1, <2>2, <2>4, <3>1
  <2>5. QED
    BY <2>3, <2>4
<1>12. CASE QueueFull
  BY <1>12 DEF QueueFull, StreamFull
<1>13. CASE Unregister
  BY <1>13 DEF Unregister
<1>14. CASE CloseSub
  BY <1>14 DEF CloseSub
<1>15. CASE CloseStream
  BY <1>15 DEF CloseStream, CloseConn
<1>16. CASE Elsewhere
  BY <1>16 DEF Elsewhere
<1> QED
  BY OthersAreElsewhere, <1>1, <1>2, <1>3, <1>4, <1>5, <1>6, <1>7, <1>8, <1>9, <1>10, <1>11, <1>12, <1>13, <1>14, <1>15, <1>16

LEMMA EventsKept ==
    ASSUME StreamIInv, StreamNext
    PROVE  EventsInLine'
<1> USE DEF EventsInLine, StreamIInv, StreamTypes, LetsGoInOrder, pubVars, subVars, connVars, TailIsSomewhere, Sending, InHand, Numbers
<1>1. CASE PublishEvent
  <2>1. published + 1 \in Numbers
    OBVIOUS
  <2>2. sub' \in {sub, Append(sub, published + 1)}
    BY <1>1, <2>1, OfferedIsSequence DEF PublishEvent
  <2>3. UNCHANGED <<kind, snapshot, handler, sent, recording>> /\ published' = published + 1
    BY <1>1 DEF PublishEvent
  <2>4. CASE sub' = sub
    <3>1. /\ EventsInLine /\ published \in Nat /\ handler.msg \in Nat /\ sub \in Seq(Numbers) /\ sent \in Seq(Numbers)
          /\ InHand' = InHand
      BY <2>3
    <3> HIDE DEF StreamIInv, StreamTypes, TailIsSomewhere, LetsGoInOrder, InHand, Sending, pubVars, subVars, connVars
    <3>2. (\A i \in DOMAIN sent : sent[i] \in Nat) /\ (\A j \in DOMAIN sub : sub[j] \in Nat)
      <4> HIDE DEF EventsInLine
      <4>1. Numbers \subseteq Nat /\ DOMAIN sent = 1..Len(sent) /\ DOMAIN sub = 1..Len(sub)
        BY <3>1, LenProperties
      <4>2. (\A i \in 1..Len(sent) : sent[i] \in Numbers) /\ (\A j \in 1..Len(sub) : sub[j] \in Numbers)
        BY <3>1, ElementOfSeq
      <4>3. QED
        BY <4>1, <4>2, Zenon
    <3>3. ASSUME kind = "events"
          PROVE  /\ \A i \in DOMAIN sent : sent[i] <= published + 1
                 /\ \A j \in DOMAIN sub : sub[j] <= published + 1
                 /\ InHand => handler.msg <= published + 1
      BY <3>1, <3>2, <3>3
    <3>4. QED
      BY <2>3, <2>4, <3>1, <3>3
  <2>5. CASE sub' = Append(sub, published + 1)
    <3>1. /\ sub \in Seq(Numbers) /\ DOMAIN sub' = 1..Len(sub) + 1 /\ DOMAIN sub = 1..Len(sub) /\ Len(sub) \in Nat
          /\ \A j \in DOMAIN sub : sub'[j] = sub[j] /\ sub[j] \in Nat
          /\ sub'[Len(sub) + 1] = published + 1
          /\ \A i \in DOMAIN sent : sent[i] \in Nat
      <4>1. sub \in Seq(Numbers) /\ \A i \in DOMAIN sent : sent[i] \in Nat
        OBVIOUS
      <4> HIDE DEF StreamIInv, StreamTypes, TailIsSomewhere, LetsGoInOrder, EventsInLine, InHand
      <4>2. Numbers \subseteq Nat
        OBVIOUS
      <4> HIDE DEF Numbers, pubVars, subVars, connVars, Sending
      <4>3. ASSUME NEW j \in DOMAIN sub PROVE sub[j] \in Nat
        <5>1. j \in 1..Len(sub)
          BY <4>1, LenProperties
        <5>2. sub[j] \in Numbers
          BY <4>1, <5>1, ElementOfSeq
        <5>3. QED
          BY <4>2, <5>2
      <4>4. /\ sub' \in Seq(Numbers) /\ Len(sub') = Len(sub) + 1 /\ sub'[Len(sub) + 1] = published + 1
            /\ \A j \in 1..Len(sub) : sub'[j] = sub[j]
        BY <2>1, <2>5, <4>1, AppendProperties
      <4>5. DOMAIN sub' = 1..Len(sub') /\ DOMAIN sub = 1..Len(sub) /\ Len(sub) \in Nat
        BY <4>1, <4>4, LenProperties
      <4>6. QED
        BY <4>1, <4>3, <4>4, <4>5
    <3>2. ASSUME kind = "events"
          PROVE  /\ \A i, j \in DOMAIN sub' : i < j => sub'[i] < sub'[j]
                 /\ \A i \in DOMAIN sent, j \in DOMAIN sub' : sent[i] < sub'[j]
                 /\ \A i \in DOMAIN sent : sent[i] <= published + 1
                 /\ \A j \in DOMAIN sub' : sub'[j] <= published + 1
                 /\ InHand => \A j \in DOMAIN sub' : handler.msg < sub'[j]
      <4>1. /\ \A i, j \in DOMAIN sub : i < j => sub[i] < sub[j]
            /\ \A i \in DOMAIN sent, j \in DOMAIN sub : sent[i] < sub[j]
            /\ InHand => handler.msg <= published /\ \A j \in DOMAIN sub : handler.msg < sub[j]
            /\ \A i \in DOMAIN sent : sent[i] <= published
            /\ \A j \in DOMAIN sub : sub[j] <= published
            /\ published \in Nat /\ handler.msg \in Nat
        BY <3>2
      <4> HIDE DEF StreamIInv, StreamTypes, TailIsSomewhere, LetsGoInOrder, EventsInLine, InHand
      <4>2. \A j \in DOMAIN sub' : j \in DOMAIN sub \/ j = Len(sub) + 1
        BY <3>1
      <4>3. \A j \in DOMAIN sub' : sub'[j] <= published + 1 /\ (\A i \in DOMAIN sent : sent[i] < sub'[j])
        BY <3>1, <4>1, <4>2
      <4>4. \A i, j \in DOMAIN sub' : i < j => sub'[i] < sub'[j]
        BY <3>1, <4>1, <4>2
      <4>5. \A i \in DOMAIN sent : sent[i] <= published + 1
        BY <3>1, <4>1
      <4>6. InHand => \A j \in DOMAIN sub' : handler.msg < sub'[j]
        BY <3>1, <4>1, <4>2
      <4>7. QED
        BY <4>3, <4>4, <4>5, <4>6
    <3>3. QED
      BY <2>3, <3>2
  <2>6. QED
    BY <2>2, <2>4, <2>5
<1>2. CASE RecordEntry
  BY <1>2 DEF RecordEntry
<1>3. CASE FanOut
  BY <1>3 DEF FanOut, Offered
<1>4. CASE OpenStream
  BY <1>4 DEF OpenStream
<1>5. CASE TailEntry
  BY <1>5 DEF TailEntry
<1>6. CASE SubscribeViewer
  BY <1>6 DEF SubscribeViewer
<1>7. CASE TakeMessage
  <2>1. CASE kind = "events"
    <3>1. handler' = [at |-> "send", todo |-> handler.todo, from |-> handler.from, msg |-> Head(sub)]
      BY <1>7 DEF TakeMessage
    <3>2. sub # <<>> /\ sub' = Tail(sub) /\ UNCHANGED <<kind, snapshot, published, sent, recording>>
      BY <1>7 DEF TakeMessage
    <3>3. 1 \in DOMAIN sub /\ Head(sub) = sub[1] /\ \A j \in DOMAIN sub' : j + 1 \in DOMAIN sub /\ sub'[j] = sub[j + 1]
      BY <3>2
    <3>4. /\ sub \in Seq(Numbers) /\ \A j \in DOMAIN sub : sub[j] \in Nat
          /\ \A i \in DOMAIN sent : sent[i] \in Nat
      OBVIOUS
    <3>5. handler'.msg <= published /\ (\A i \in DOMAIN sent : sent[i] < handler'.msg)
      BY <2>1, <3>1, <3>3
    <3>6. \A j \in DOMAIN sub' : handler'.msg < sub'[j] /\ sub'[j] <= published
      <4>1. handler'.msg = sub[1]
        BY <3>1, <3>3
      <4>2. ASSUME NEW j \in DOMAIN sub'
            PROVE  sub[1] < sub'[j] /\ sub'[j] <= published
        <5>1. j + 1 \in DOMAIN sub /\ sub'[j] = sub[j + 1] /\ 1 < j + 1
          BY <3>2, <3>3, <3>4
        <5>2. QED
          BY <2>1, <3>3, <5>1
      <4>3. QED
        BY <4>1, <4>2
    <3>7. \A i, j \in DOMAIN sub' : i < j => sub'[i] < sub'[j]
      BY <2>1, <3>2, <3>3, <3>4
    <3>8. \A i \in DOMAIN sent, j \in DOMAIN sub' : sent[i] < sub'[j]
      BY <2>1, <3>3
    <3>9. handler'.todo = <<>>
      BY <2>1, <3>1
    <3>10. QED
      BY <2>1, <3>2, <3>5, <3>6, <3>7, <3>8, <3>9
  <2>2. QED
    BY <1>7, <2>1 DEF TakeMessage
<1>8. CASE TickStats
  BY <1>8 DEF TickStats
<1>9. CASE NoticeClosed
  BY <1>9 DEF NoticeClosed
<1>10. CASE CheckClosed
  BY <1>10 DEF CheckClosed
<1>11. CASE QueueMessage
  <2>1. CASE kind = "events"
    <3>1. handler' = [at |-> handler.from, todo |-> handler.todo, from |-> handler.from, msg |-> 0]
      BY <1>11 DEF QueueMessage
    <3>2. UNCHANGED <<kind, snapshot, published, sub, recording>> /\ sent' = IF handler.msg > 0 THEN Append(sent, handler.msg) ELSE sent
      BY <1>11 DEF QueueMessage
    <3>3. handler.at = "put" /\ (handler.msg > 0 => InHand)
      BY <1>11 DEF QueueMessage
    <3>4. handler'.todo = <<>> /\ handler'.msg = 0
      BY <2>1, <3>1
    <3>5. CASE handler.msg > 0
      <4>1. /\ sent' = Append(sent, handler.msg) /\ Len(sent) \in Nat /\ DOMAIN sent = 1..Len(sent)
            /\ DOMAIN sent' = 1..Len(sent) + 1 /\ sent'[Len(sent) + 1] = handler.msg
            /\ \A i \in DOMAIN sent : sent'[i] = sent[i]
        BY <3>2, <3>5
      <4>2. /\ \A i \in DOMAIN sent : sent[i] < handler.msg /\ sent[i] \in Nat
            /\ \A j \in DOMAIN sub : handler.msg < sub[j]
            /\ handler.msg <= published
        BY <2>1, <3>3, <3>5
      <4>3. \A i \in DOMAIN sent' : i \in DOMAIN sent \/ i = Len(sent) + 1
        BY <4>1
      <4>4. \A i \in DOMAIN sent' : sent'[i] <= published /\ \A j \in DOMAIN sub : sent'[i] < sub[j]
        BY <2>1, <4>1, <4>2, <4>3
      <4>5. \A i, j \in DOMAIN sent' : i < j => sent'[i] < sent'[j]
        BY <2>1, <4>1, <4>2, <4>3
      <4>6. ~InHand'
        BY <3>4
      <4>7. QED
        BY <2>1, <3>2, <3>4, <4>4, <4>5, <4>6
    <3>6. CASE ~(handler.msg > 0)
      BY <2>1, <3>2, <3>4, <3>6
    <3>7. QED
      BY <3>5, <3>6
  <2>2. QED
    BY <1>11, <2>1 DEF QueueMessage
<1>12. CASE QueueFull
  BY <1>12 DEF QueueFull, StreamFull
<1>13. CASE Unregister
  BY <1>13 DEF Unregister
<1>14. CASE CloseSub
  BY <1>14 DEF CloseSub
<1>15. CASE CloseStream
  BY <1>15 DEF CloseStream, CloseConn
<1>16. CASE Elsewhere
  BY <1>16 DEF Elsewhere
<1> QED
  BY OthersAreElsewhere, <1>1, <1>2, <1>3, <1>4, <1>5, <1>6, <1>7, <1>8, <1>9, <1>10, <1>11, <1>12, <1>13, <1>14, <1>15, <1>16

LEMMA StreamKept ==
    ASSUME StreamIInv, [StreamNext]_streamVars
    PROVE  StreamIInv'
<1>1. CASE StreamNext
  BY <1>1, StreamTypesKept, LettingGoKept, TailKept, EventsKept DEF StreamIInv
<1>2. CASE UNCHANGED streamVars
  BY <1>2 DEF streamVars, StreamIInv, StreamTypes, LetsGoInOrder, TailIsSomewhere, EventsInLine, InHand, Sending
<1>3. QED
  BY <1>1, <1>2

\* EventsHandler, LogsHandler, Conn.send, subscribe and its cancel: events are
\* queued for the viewer in the order they were published and each once, no entry
\* of the tail is left out before the live ones, broadcast never meets a closed
\* channel, and a handler that has returned has let go of its channel and of its
\* connection, for queues of any size and any number of messages and frames.
THEOREM StreamKeepsOrder ==
    StreamSpec => [](OpenWhileRegistered /\ OverIsReleased /\ EventsInOrder /\ TailIsWhole)
<1>1. ASSUME StreamIInv
      PROVE  OpenWhileRegistered /\ OverIsReleased /\ EventsInOrder /\ TailIsWhole
  <2>1. OpenWhileRegistered /\ OverIsReleased
    BY <1>1 DEF StreamIInv, LetsGoInOrder, OpenWhileRegistered, OverIsReleased
  <2>2. EventsInOrder
    BY <1>1 DEF StreamIInv, StreamTypes, EventsInLine, EventsInOrder
  <2>3. TailIsWhole
    BY <1>1 DEF StreamIInv, StreamTypes, LetsGoInOrder, TailIsSomewhere, TailIsWhole, Sending
  <2>4. QED
    BY <2>1, <2>2, <2>3
<1>2. QED
  BY StreamInitially, StreamKept, <1>1, PTL DEF StreamSpec

-----------------------------------------------------------------------------
(* The queue *)

PassTypes ==
    [order : Seq(Managed), forced : SUBSET Managed, held : SUBSET Managed, unseen : SUBSET Managed,
     down : SUBSET Managed, seed : SUBSET Managed, paused : SUBSET Managed, decided : BOOLEAN,
     mark : {Idle} \cup (Managed \X BOOLEAN)]

QueueTypes ==
    /\ order \in Seq(Managed) /\ \A i, j \in DOMAIN order : order[i] = order[j] => i = j
    /\ forced \subseteq InFleet /\ held \subseteq InFleet
    /\ phase \in [Managed -> {"none", "checking", "downloading", "seeding", "paused", "closed"}]
    /\ complete \in [Managed -> BOOLEAN] /\ due \in 0..2 /\ orders \in 0..MaxOrders
    /\ pausedBy \in [Managed -> {"nobody", "queue", "user", "free"}]
    /\ pass \in [Pass -> {Idle} \cup PassTypes]
    \* a torrent is in the fleet from when it is added
    /\ \A t \in InFleet : phase[t] # "none"

\* A pass has to do with torrents of its snapshot only.
OfItsSnapshot(v) == v.unseen \cup v.down \cup v.seed \subseteq {v.order[i] : i \in DOMAIN v.order}

\* Nothing that a pass knows or has to do makes it touch the torrent.
KeepsAway(v, t) ==
    /\ t \notin v.down \cup v.seed
    /\ v.mark # Idle => v.mark[1] # t
    /\ t \in v.unseen => t \notin v.held

PassesKeepAway ==
    /\ \A r \in Pass : pass[r] # Idle => OfItsSnapshot(pass[r])
    /\ \A t \in Managed : pausedBy[t] = "free" =>
          /\ phase[t] \in {"paused", "closed"} /\ t \notin held
          /\ \A r \in Pass : pass[r] # Idle => KeepsAway(pass[r], t)

QueueIInv == QueueTypes /\ PassesKeepAway

LEMMA QueueInitially == QueueInit => QueueIInv
BY QueueAssumption DEF QueueInit, QueueIInv, QueueTypes, PassesKeepAway, InFleet

(* The order *)

LEMMA PartOf ==
    ASSUME NEW s \in Seq(Managed), NEW m \in 1..Len(s) + 1, NEW n \in 0..Len(s), m <= n + 1
    PROVE  /\ SubSeq(s, m, n) \in Seq(Managed) /\ Len(SubSeq(s, m, n)) = n - m + 1
           /\ \A i \in 1..n - m + 1 : SubSeq(s, m, n)[i] = s[m + i - 1]
<1>1. Len(s) \in Nat /\ \A i \in 1..Len(s) : s[i] \in Managed
  OBVIOUS
<1>2. \A i \in m..n : s[i] \in Managed
  BY <1>1
<1>3. m \in Int /\ n \in Int
  BY <1>1
<1>4. QED
  BY <1>1, <1>2, <1>3, SubSeqProperties

LEMMA Joined ==
    ASSUME NEW s \in Seq(Managed), NEW q \in Seq(Managed)
    PROVE  /\ s \o q \in Seq(Managed) /\ Len(s \o q) = Len(s) + Len(q) /\ DOMAIN (s \o q) = 1..Len(s) + Len(q)
           /\ \A i \in 1..Len(s) + Len(q) : (s \o q)[i] = IF i <= Len(s) THEN s[i] ELSE q[i - Len(s)]
<1>1. s \o q \in Seq(Managed) /\ Len(s \o q) = Len(s) + Len(q)
  BY ConcatProperties
<1>2. QED
  BY <1>1, ConcatProperties, LenProperties

LEMMA Removed ==
    ASSUME QueueTypes, NEW t \in InFleet
    PROVE  /\ Without(t) \in Seq(Managed) /\ Len(Without(t)) = Len(order) - 1
           /\ \A i, j \in DOMAIN Without(t) : Without(t)[i] = Without(t)[j] => i = j
           /\ {Without(t)[i] : i \in DOMAIN Without(t)} = InFleet \ {t}
<1> DEFINE k == CHOOSE i \in DOMAIN order : order[i] = t
           s == RemoveAt(order, k)
<1>1. k \in DOMAIN order /\ order[k] = t
  BY DEF InFleet
<1>2. Without(t) = s
  BY DEF Without
<1>3. order \in Seq(Managed) /\ Len(order) \in Nat /\ DOMAIN order = 1..Len(order)
  BY DEF QueueTypes
<1> HIDE DEF k
<1>4. /\ s \in Seq(Managed) /\ Len(s) = Len(order) - 1 /\ DOMAIN s = 1..Len(order) - 1
      /\ \A i \in 1..Len(order) - 1 : s[i] = IF i < k THEN order[i] ELSE order[i + 1]
  <2> DEFINE p == SubSeq(order, 1, k - 1)
             q == SubSeq(order, k + 1, Len(order))
  <2>1. k \in 1..Len(order)
    BY <1>1, <1>3
  <2>2. /\ p \in Seq(Managed) /\ Len(p) = k - 1 /\ \A i \in 1..k - 1 : p[i] = order[i]
    BY <1>3, <2>1
  <2>3. /\ q \in Seq(Managed) /\ Len(q) = Len(order) - k /\ \A i \in 1..Len(order) - k : q[i] = order[k + i]
    <3>1. /\ q \in Seq(Managed) /\ Len(q) = Len(order) - (k + 1) + 1
          /\ \A i \in 1..Len(order) - (k + 1) + 1 : q[i] = order[k + 1 + i - 1]
      <4>1. k + 1 \in 1..Len(order) + 1 /\ Len(order) \in 0..Len(order) /\ k + 1 <= Len(order) + 1
        BY <1>3, <2>1
      <4>2. QED
        BY <1>3, <4>1, PartOf
    <3>2. \A i \in Nat : k + 1 + i - 1 = k + i
      BY <1>3, <2>1
    <3>3. Len(order) - (k + 1) + 1 = Len(order) - k
      BY <1>3, <2>1
    <3> HIDE DEF q
    <3>4. ASSUME NEW i \in 1..Len(order) - k
          PROVE  q[i] = order[k + i]
      <4>1. q[i] = order[k + 1 + i - 1]
        BY <3>1, <3>3
      <4>2. k + 1 + i - 1 = k + i
        BY <3>2
      <4>3. QED
        BY <4>1, <4>2
    <3>5. QED
      BY <3>1, <3>3, <3>4
  <2>4. s = p \o q
    BY DEF RemoveAt
  <2> HIDE DEF p, q, s
  <2>5. s \in Seq(Managed) /\ Len(s) = Len(order) - 1 /\ DOMAIN s = 1..Len(order) - 1
    <3>1. p \o q \in Seq(Managed) /\ Len(p \o q) = Len(p) + Len(q) /\ DOMAIN (p \o q) = 1..Len(p) + Len(q)
      BY <2>2, <2>3, Joined
    <3>2. Len(p) + Len(q) = Len(order) - 1
      BY <1>3, <2>1, <2>2, <2>3
    <3>3. QED
      BY <2>4, <3>1, <3>2
  <2>6. ASSUME NEW i \in 1..Len(order) - 1
        PROVE  s[i] = IF i < k THEN order[i] ELSE order[i + 1]
    <3>1. s[i] = IF i < k THEN p[i] ELSE q[i - k + 1]
      BY <1>3, <2>1, <2>2, <2>3, <2>4, Joined
    <3>2. i >= k => i - k + 1 \in 1..Len(order) - k /\ k + (i - k + 1) = i + 1
      BY <1>3, <2>1
    <3>3. i < k => i \in 1..k - 1
      BY <1>3, <2>1
    <3>4. i \in Int /\ k \in Int
      BY <1>3, <2>1
    <3>5. CASE i < k
      BY <2>2, <3>1, <3>3, <3>5
    <3>6. CASE i >= k
      <4>1. q[i - k + 1] = order[k + (i - k + 1)]
        BY <2>3, <3>2, <3>6
      <4>2. QED
        BY <3>1, <3>2, <3>4, <3>6, <4>1
    <3>7. QED
      BY <3>4, <3>5, <3>6
  <2>7. QED
    BY <2>5, <2>6
<1> HIDE DEF s
<1>5. \A i, j \in DOMAIN s : s[i] = s[j] => i = j
  <2>1. \A i, j \in DOMAIN order : order[i] = order[j] => i = j
    BY DEF QueueTypes
  <2>2. \A i \in DOMAIN s : /\ i \in Nat /\ i \in DOMAIN order /\ i + 1 \in DOMAIN order
    BY <1>1, <1>3, <1>4
  <2>3. QED
    BY <1>1, <1>3, <1>4, <2>1, <2>2
<1>6. ASSUME NEW u \in InFleet \ {t}
      PROVE  \E i \in DOMAIN s : s[i] = u
  <2>1. PICK i \in DOMAIN order : order[i] = u
    BY DEF InFleet
  <2>2. CASE i < k
    BY <1>1, <1>3, <1>4, <2>1, <2>2
  <2>3. CASE i > k
    <3>1. i - 1 \in DOMAIN s /\ s[i - 1] = u
      BY <1>1, <1>3, <1>4, <2>1, <2>3
    <3>2. QED
      BY <3>1
  <2>4. QED
    BY <1>1, <1>3, <2>1, <2>2, <2>3
<1>7. \A i \in DOMAIN s : s[i] \in InFleet \ {t}
  <2>1. \A i, j \in DOMAIN order : order[i] = order[j] => i = j
    BY DEF QueueTypes
  <2>2. \A i \in DOMAIN s : \E j \in DOMAIN order : s[i] = order[j] /\ j # k
    BY <1>1, <1>3, <1>4
  <2>3. QED
    BY <1>1, <2>1, <2>2 DEF InFleet
<1>8. QED
  BY <1>2, <1>3, <1>4, <1>5, <1>6, <1>7

LEMMA Inserted ==
    ASSUME NEW s \in Seq(Managed), NEW t \in Managed, NEW pos \in 1..Len(s) + 1,
           \A i, j \in DOMAIN s : s[i] = s[j] => i = j, \A i \in DOMAIN s : s[i] # t
    PROVE  /\ InsertAt(s, pos, t) \in Seq(Managed)
           /\ \A i, j \in DOMAIN InsertAt(s, pos, t) : InsertAt(s, pos, t)[i] = InsertAt(s, pos, t)[j] => i = j
           /\ {InsertAt(s, pos, t)[i] : i \in DOMAIN InsertAt(s, pos, t)} = {s[i] : i \in DOMAIN s} \cup {t}
<1> DEFINE w == InsertAt(s, pos, t)
<1>1. Len(s) \in Nat /\ DOMAIN s = 1..Len(s)
  OBVIOUS
<1>2. /\ w \in Seq(Managed) /\ DOMAIN w = 1..Len(s) + 1
      /\ \A i \in 1..Len(s) + 1 : w[i] = IF i < pos THEN s[i] ELSE IF i = pos THEN t ELSE s[i - 1]
  <2> DEFINE p == SubSeq(s, 1, pos - 1)
             q == SubSeq(s, pos, Len(s))
  <2>1. /\ p \in Seq(Managed) /\ Len(p) = pos - 1 /\ \A i \in 1..pos - 1 : p[i] = s[i]
    BY <1>1
  <2>2. /\ q \in Seq(Managed) /\ Len(q) = Len(s) - pos + 1 /\ \A i \in 1..Len(s) - pos + 1 : q[i] = s[pos + i - 1]
    BY <1>1
  <2>3. w = p \o <<t>> \o q
    BY DEF InsertAt
  <2> HIDE DEF p, q, w
  <2>4. w \in Seq(Managed) /\ DOMAIN w = 1..Len(s) + 1
    <3>1. p \o <<t>> \in Seq(Managed) /\ Len(p \o <<t>>) = pos
      BY <1>1, <2>1
    <3>2. (p \o <<t>>) \o q \in Seq(Managed) /\ Len((p \o <<t>>) \o q) = Len(p \o <<t>>) + Len(q)
      BY <2>2, <3>1, Joined
    <3>3. pos + (Len(s) - pos + 1) = Len(s) + 1
      BY <1>1
    <3>4. w = (p \o <<t>>) \o q
      BY <2>3
    <3>5. w \in Seq(Managed) /\ Len(w) = Len(s) + 1
      BY <2>2, <3>1, <3>2, <3>3, <3>4
    <3>6. QED
      BY <1>1, <3>5, LenProperties
  <2>5. ASSUME NEW i \in 1..Len(s) + 1
        PROVE  w[i] = IF i < pos THEN s[i] ELSE IF i = pos THEN t ELSE s[i - 1]
    <3>1. w[i] = IF i < pos THEN p[i] ELSE IF i = pos THEN t ELSE q[i - pos]
      <4> DEFINE u == p \o <<t>>
      <4>1. u \in Seq(Managed) /\ Len(u) = pos
        BY <2>1
      <4>2. /\ i < pos => u[i] = p[i]
            /\ i = pos => u[i] = t
        BY <2>1
      <4>3. w = u \o q
        BY <2>3
      <4> HIDE DEF u
      <4>4. w[i] = IF i <= pos THEN u[i] ELSE q[i - pos]
        BY <1>1, <2>2, <4>1, <4>3
      <4>5. QED
        BY <1>1, <4>2, <4>4
    <3>2. i > pos => i - pos \in 1..Len(s) - pos + 1 /\ pos + (i - pos) - 1 = i - 1
      BY <1>1
    <3>3. i < pos => i \in 1..pos - 1
      BY <1>1
    <3>4. QED
      BY <2>1, <2>2, <3>1, <3>2, <3>3
  <2>6. QED
    BY <2>4, <2>5
<1> HIDE DEF w
<1>3. ASSUME NEW i \in DOMAIN w, NEW j \in DOMAIN w, w[i] = w[j]
      PROVE  i = j
  <2>1. /\ i < pos => i \in DOMAIN s /\ w[i] = s[i]
        /\ i > pos => i - 1 \in DOMAIN s /\ w[i] = s[i - 1]
        /\ j < pos => j \in DOMAIN s /\ w[j] = s[j]
        /\ j > pos => j - 1 \in DOMAIN s /\ w[j] = s[j - 1]
        /\ i = pos => w[i] = t
        /\ j = pos => w[j] = t
    BY <1>1, <1>2
  <2>2. QED
    BY <1>1, <1>2, <1>3, <2>1
<1>4. ASSUME NEW i \in DOMAIN s
      PROVE  \E j \in DOMAIN w : w[j] = s[i]
  <2>1. CASE i < pos
    BY <1>1, <1>2, <2>1
  <2>2. CASE i >= pos
    <3>1. i + 1 \in DOMAIN w /\ w[i + 1] = s[i]
      BY <1>1, <1>2, <2>2
    <3>2. QED
      BY <3>1
  <2>3. QED
    BY <1>1, <2>1, <2>2
<1>5. \E j \in DOMAIN w : w[j] = t
  BY <1>1, <1>2
<1>6. ASSUME NEW i \in DOMAIN w
      PROVE  w[i] = t \/ \E j \in DOMAIN s : w[i] = s[j]
  <2>1. i = pos => w[i] = t
    BY <1>1, <1>2
  <2>2. i < pos => i \in DOMAIN s /\ w[i] = s[i]
    BY <1>1, <1>2
  <2>3. i > pos => i - 1 \in DOMAIN s /\ w[i] = s[i - 1]
    BY <1>1, <1>2
  <2>4. QED
    BY <1>1, <1>2, <2>1, <2>2, <2>3
<1>7. {w[i] : i \in DOMAIN w} = {s[i] : i \in DOMAIN s} \cup {t}
  BY <1>4, <1>5, <1>6
<1>8. w \in Seq(Managed) /\ \A i, j \in DOMAIN w : w[i] = w[j] => i = j
  BY <1>2, <1>3
<1>9. QED
  BY <1>7, <1>8 DEF w

-----------------------------------------------------------------------------
(* One pass *)

\* A pass that is as another, or as it was, and has not come nearer to any torrent.
LEMMA PassChanges ==
    ASSUME QueueIInv, NEW r \in Pass, NEW v \in {Idle} \cup PassTypes, pass' = [pass EXCEPT ![r] = v],
           v # Idle => OfItsSnapshot(v) /\ \A t \in Managed : pausedBy[t] = "free" => KeepsAway(v, t)
    PROVE  /\ pass' \in [Pass -> {Idle} \cup PassTypes]
           /\ \A q \in Pass : pass'[q] # Idle =>
                 OfItsSnapshot(pass'[q]) /\ \A t \in Managed : pausedBy[t] = "free" => KeepsAway(pass'[q], t)
BY DEF QueueIInv, QueueTypes, PassesKeepAway

LEMMA BeginPassKeeps ==
    ASSUME QueueIInv, NEW r \in Pass, BeginPass(r)
    PROVE  QueueIInv'
<1> DEFINE v == [order |-> order, forced |-> forced, held |-> held, unseen |-> InFleet,
                 down |-> {}, seed |-> {}, paused |-> {}, decided |-> FALSE, mark |-> Idle]
<1>1. InFleet \subseteq Managed
  BY DEF QueueIInv, QueueTypes, InFleet
<1>2. v \in PassTypes
  BY <1>1 DEF QueueIInv, QueueTypes, PassTypes
<1>3. OfItsSnapshot(v) /\ \A t \in Managed : pausedBy[t] = "free" => KeepsAway(v, t)
  BY DEF OfItsSnapshot, KeepsAway, InFleet, QueueIInv, PassesKeepAway
<1>4. pass' = [pass EXCEPT ![r] = v]
  BY DEF BeginPass
<1>5. due' \in 0..2
  BY DEF BeginPass, QueueIInv, QueueTypes
<1> HIDE DEF v
<1>6. UNCHANGED <<order, forced, held, phase, complete, orders, pausedBy>>
  BY DEF BeginPass
<1>7. QED
  BY <1>2, <1>3, <1>4, <1>5, <1>6, PassChanges DEF QueueIInv, QueueTypes, PassesKeepAway, InFleet

LEMMA LookKeeps ==
    ASSUME QueueIInv, NEW r \in Pass, NEW t \in Managed, Look(r, t)
    PROVE  QueueIInv'
<1> DEFINE candidate == phase[t] \in {"downloading", "seeding", "paused"} /\ ~LeftAlone(r, t)
           v == [pass[r] EXCEPT !.unseen = @ \ {t},
                                !.down = IF candidate /\ ~complete[t] THEN @ \cup {t} ELSE @,
                                !.seed = IF candidate /\ complete[t] THEN @ \cup {t} ELSE @,
                                !.paused = IF phase[t] = "paused" THEN @ \cup {t} ELSE @]
<1>1. pass[r] \in PassTypes /\ pass[r] # Idle /\ t \in pass[r].unseen
  BY DEF Look, QueueIInv, QueueTypes
<1>2. pass' = [pass EXCEPT ![r] = v]
  BY DEF Look
<1>3. v \in PassTypes
  BY <1>1 DEF PassTypes
<1>4. /\ v.order = pass[r].order /\ v.unseen \subseteq pass[r].unseen /\ v.held = pass[r].held /\ v.mark = pass[r].mark
      /\ v.down \subseteq pass[r].down \cup {t} /\ v.seed \subseteq pass[r].seed \cup {t}
      /\ ~candidate => v.down = pass[r].down /\ v.seed = pass[r].seed
  BY <1>1 DEF PassTypes
<1> HIDE DEF v
<1>5. OfItsSnapshot(v)
  BY <1>1, <1>4 DEF OfItsSnapshot, QueueIInv, PassesKeepAway
<1>6. pausedBy[t] = "free" => ~candidate
  BY <1>1 DEF QueueIInv, PassesKeepAway, KeepsAway, LeftAlone
<1>7. \A u \in Managed : pausedBy[u] = "free" => KeepsAway(v, u)
  BY <1>1, <1>4, <1>6 DEF QueueIInv, PassesKeepAway, KeepsAway
<1>8. UNCHANGED <<order, forced, held, phase, complete, due, orders, pausedBy>>
  BY DEF Look
<1>9. QED
  BY <1>2, <1>3, <1>5, <1>7, <1>8, PassChanges DEF QueueIInv, QueueTypes, PassesKeepAway, InFleet

LEMMA DecideKeeps ==
    ASSUME QueueIInv, NEW r \in Pass, Decide(r)
    PROVE  QueueIInv'
<1> DEFINE changes == {t \in pass[r].down \cup pass[r].seed : (t \in Keep(pass[r])) = (t \in pass[r].paused)}
           v == [Only(pass[r], changes) EXCEPT !.decided = TRUE]
<1>1. pass[r] \in PassTypes /\ pass[r] # Idle
  BY DEF Decide, QueueIInv, QueueTypes
<1>2. pass' = [pass EXCEPT ![r] = v]
  BY DEF Decide
<1> HIDE DEF changes
<1>3. v \in PassTypes
  BY <1>1 DEF PassTypes, Only
<1>4. /\ v.order = pass[r].order /\ v.unseen = pass[r].unseen /\ v.held = pass[r].held /\ v.mark = pass[r].mark
      /\ v.down \subseteq pass[r].down /\ v.seed \subseteq pass[r].seed
  BY <1>1 DEF PassTypes, Only
<1> HIDE DEF v
<1>5. OfItsSnapshot(v) /\ \A u \in Managed : pausedBy[u] = "free" => KeepsAway(v, u)
  BY <1>1, <1>4 DEF OfItsSnapshot, QueueIInv, PassesKeepAway, KeepsAway
<1>6. UNCHANGED <<order, forced, held, phase, complete, due, orders, pausedBy>>
  BY DEF Decide
<1>7. QED
  BY <1>2, <1>3, <1>5, <1>6, PassChanges DEF QueueIInv, QueueTypes, PassesKeepAway, InFleet

LEMMA ActKeeps ==
    ASSUME QueueIInv, NEW r \in Pass, Act(r)
    PROVE  QueueIInv'
<1>1. pass[r] \in PassTypes /\ pass[r] # Idle
  BY DEF Act, QueueIInv, QueueTypes
<1>2. PICK t \in NextOf(pass[r]) :
        LET resume == t \in pass[r].paused
         IN  /\ pass' = [pass EXCEPT ![r] = [Only(@, Managed \ {t}) EXCEPT
                                                 !.mark = IF phase[t] = "closed" THEN Idle ELSE <<t, ~resume>>]]
             /\ \/ /\ resume /\ phase[t] = "paused"
                   /\ Resumed(t) /\ Triggered
                   /\ pausedBy' = [pausedBy EXCEPT ![t] = IF @ = "free" THEN @ ELSE "nobody"]
                \/ /\ ~resume /\ ActivePhase(t)
                   /\ phase' = [phase EXCEPT ![t] = "paused"]
                   /\ pausedBy' = [pausedBy EXCEPT ![t] = "queue"] /\ Triggered
                \/ /\ IF resume THEN phase[t] # "paused" ELSE ~ActivePhase(t)
                   /\ UNCHANGED <<phase, pausedBy, due>>
  BY DEF Act
<1> DEFINE mark == IF phase[t] = "closed" THEN Idle ELSE <<t, ~(t \in pass[r].paused)>>
           v == [Only(pass[r], Managed \ {t}) EXCEPT !.mark = mark]
<1>3. t \in pass[r].down \cup pass[r].seed /\ t \in Managed
  BY <1>1, <1>2 DEF NextOf, PassTypes
<1>4. pass' = [pass EXCEPT ![r] = v]
  BY <1>2
<1>5. mark \in {Idle} \cup (Managed \X BOOLEAN) /\ (mark # Idle => mark[1] = t)
  BY <1>3
<1> HIDE DEF mark
<1>6. v \in PassTypes
  BY <1>1, <1>5 DEF PassTypes, Only
<1>7. /\ v.order = pass[r].order /\ v.unseen = pass[r].unseen /\ v.held = pass[r].held /\ v.mark = mark
      /\ v.down \subseteq pass[r].down /\ v.seed \subseteq pass[r].seed
  BY <1>1 DEF PassTypes, Only
<1> HIDE DEF v
<1>8. pausedBy[t] # "free"
  BY <1>1, <1>3 DEF QueueIInv, PassesKeepAway, KeepsAway
<1>9. OfItsSnapshot(v)
  BY <1>1, <1>7 DEF OfItsSnapshot, QueueIInv, PassesKeepAway
<1>10. \A u \in Managed : pausedBy[u] = "free" => KeepsAway(v, u)
  BY <1>1, <1>5, <1>7, <1>8 DEF QueueIInv, PassesKeepAway, KeepsAway
<1>11. /\ phase' \in [Managed -> {"none", "checking", "downloading", "seeding", "paused", "closed"}]
       /\ pausedBy' \in [Managed -> {"nobody", "queue", "user", "free"}] /\ due' \in 0..2
       /\ \A u \in Managed : u # t => phase'[u] = phase[u] /\ pausedBy'[u] = pausedBy[u]
       /\ pausedBy'[t] # "free" /\ (phase[t] # "none" => phase'[t] # "none")
  BY <1>2, <1>3, <1>8 DEF QueueIInv, QueueTypes, Resumed, Triggered
<1>13. UNCHANGED <<order, forced, held, complete, orders>>
  BY DEF Act
<1>14. InFleet' = InFleet /\ \A u \in InFleet : u \in Managed
  BY <1>13 DEF InFleet, QueueIInv, QueueTypes
<1>15. /\ pass' \in [Pass -> {Idle} \cup PassTypes]
       /\ \A q \in Pass : pass'[q] # Idle =>
             OfItsSnapshot(pass'[q]) /\ \A u \in Managed : pausedBy[u] = "free" => KeepsAway(pass'[q], u)
  BY <1>4, <1>6, <1>9, <1>10, PassChanges
<1>16. QueueTypes'
  BY <1>11, <1>13, <1>14, <1>15 DEF QueueIInv, QueueTypes
<1>17. PassesKeepAway'
  BY <1>3, <1>11, <1>13, <1>15 DEF QueueIInv, PassesKeepAway
<1>18. QED
  BY <1>16, <1>17 DEF QueueIInv

LEMMA MarkKeeps ==
    ASSUME QueueIInv, NEW r \in Pass, Mark(r)
    PROVE  QueueIInv'
<1> DEFINE v == [pass[r] EXCEPT !.mark = Idle]
<1>1. pass[r] \in PassTypes /\ pass[r] # Idle /\ pass[r].mark # Idle
  BY DEF Mark, QueueIInv, QueueTypes
<1>2. pass' = [pass EXCEPT ![r] = v] /\ UNCHANGED <<order, forced, phase, complete, due, orders, pausedBy>>
  BY DEF Mark
<1>3. v \in PassTypes
  BY <1>1 DEF PassTypes
<1>4. OfItsSnapshot(v) /\ \A u \in Managed : pausedBy[u] = "free" => KeepsAway(v, u)
  BY <1>1 DEF OfItsSnapshot, QueueIInv, PassesKeepAway, KeepsAway, PassTypes
<1> HIDE DEF v
<1>5. held' \subseteq InFleet /\ held' \subseteq held \cup {pass[r].mark[1]}
  BY DEF Mark, QueueIInv, QueueTypes
<1>6. \A u \in Managed : pausedBy[u] = "free" => u \notin held'
  BY <1>1, <1>5 DEF QueueIInv, PassesKeepAway, KeepsAway
<1>7. QED
  BY <1>2, <1>3, <1>4, <1>5, <1>6, PassChanges DEF QueueIInv, QueueTypes, PassesKeepAway, InFleet

LEMMA EndPassKeeps ==
    ASSUME QueueIInv, NEW r \in Pass, EndPass(r)
    PROVE  QueueIInv'
BY PassChanges DEF EndPass, QueueIInv, QueueTypes, PassesKeepAway, InFleet

-----------------------------------------------------------------------------
(* The torrents and their users *)

LEMMA PhaseChanges ==
    ASSUME QueueIInv, NEW t \in Managed, Checked(t) \/ Finishes(t) \/ UserResume(t) \/ StopRemoved(t)
    PROVE  QueueIInv'
<1>1. UNCHANGED <<order, forced, held, pass>> /\ InFleet' = InFleet /\ InFleet \subseteq Managed
  BY DEF Checked, Finishes, UserResume, StopRemoved, InFleet, QueueIInv, QueueTypes
<1>2. /\ phase' \in [Managed -> {"none", "checking", "downloading", "seeding", "paused", "closed"}]
      /\ pausedBy' \in [Managed -> {"nobody", "queue", "user", "free"}] /\ complete' \in [Managed -> BOOLEAN]
      /\ \A u \in Managed : u # t => phase'[u] = phase[u] /\ pausedBy'[u] = pausedBy[u]
      /\ phase'[t] # "none" /\ (pausedBy'[t] = "free" => pausedBy[t] = "free" /\ phase'[t] = "closed")
  BY DEF Checked, Finishes, UserResume, StopRemoved, Resumed, QueueIInv, QueueTypes, PassesKeepAway
<1>3. due' \in 0..2 /\ orders' \in 0..MaxOrders
  BY QueueAssumption DEF Checked, Finishes, UserResume, StopRemoved, Triggered, Ordered, QueueIInv, QueueTypes
<1>4. QueueTypes'
  BY <1>1, <1>2, <1>3 DEF QueueIInv, QueueTypes
<1>5. PassesKeepAway'
  BY <1>1, <1>2 DEF QueueIInv, PassesKeepAway
<1>6. QED
  BY <1>4, <1>5 DEF QueueIInv

LEMMA UserPauseKeeps ==
    ASSUME QueueIInv, NEW t \in Managed, UserPause(t)
    PROVE  QueueIInv'
<1>1. UNCHANGED <<order, forced, held, complete, pass>> /\ InFleet' = InFleet /\ InFleet \subseteq Managed
  BY DEF UserPause, InFleet, QueueIInv, QueueTypes
<1>2. /\ phase' = [phase EXCEPT ![t] = "paused"] /\ due' \in 0..2 /\ orders' \in 0..MaxOrders
      /\ pausedBy' = [pausedBy EXCEPT ![t] = IF t \in held \/ Looking(t) THEN "user" ELSE "free"]
  BY QueueAssumption DEF UserPause, Triggered, Ordered, QueueIInv, QueueTypes
<1>3. QueueTypes'
  BY <1>1, <1>2 DEF QueueIInv, QueueTypes
<1>4. ASSUME t \notin held, ~Looking(t), NEW r \in Pass, pass[r] # Idle
      PROVE  KeepsAway(pass[r], t)
  <2>1. pass[r] \in PassTypes
    BY <1>4 DEF QueueIInv, QueueTypes
  <2>2. t \notin {pass[r].order[i] : i \in DOMAIN pass[r].order} /\ (pass[r].mark # Idle => pass[r].mark[1] # t)
    BY <1>4 DEF Looking, ToSet
  <2>3. t \notin pass[r].unseen \cup pass[r].down \cup pass[r].seed
    BY <1>4, <2>2 DEF QueueIInv, PassesKeepAway, OfItsSnapshot
  <2>4. QED
    BY <2>2, <2>3 DEF KeepsAway
<1>5. ASSUME NEW u \in Managed, pausedBy'[u] = "free"
      PROVE  /\ phase'[u] \in {"paused", "closed"} /\ u \notin held
             /\ \A r \in Pass : pass[r] # Idle => KeepsAway(pass[r], u)
  <2>1. CASE u = t
    BY <1>2, <1>4, <1>5, <2>1 DEF QueueIInv, QueueTypes
  <2>2. CASE u # t
    BY <1>2, <1>5, <2>2 DEF QueueIInv, QueueTypes, PassesKeepAway
  <2>3. QED
    BY <2>1, <2>2
<1>6. PassesKeepAway'
  BY <1>1, <1>5 DEF QueueIInv, PassesKeepAway
<1>7. QED
  BY <1>3, <1>6 DEF QueueIInv

LEMMA AddTorrentKeeps ==
    ASSUME QueueIInv, NEW t \in Managed, AddTorrent(t)
    PROVE  QueueIInv'
<1>1. /\ phase[t] = "none" /\ order' = Append(order, t) /\ phase' = [phase EXCEPT ![t] = "checking"]
      /\ UNCHANGED <<forced, held, complete, pass, orders, pausedBy>> /\ due' \in 0..2
  BY DEF AddTorrent, Triggered, QueueIInv, QueueTypes
<1>2. t \notin InFleet
  BY <1>1 DEF QueueIInv, QueueTypes
<1>3. order \in Seq(Managed) /\ Len(order) \in Nat /\ DOMAIN order = 1..Len(order)
  BY DEF QueueIInv, QueueTypes
<1>4. /\ order' \in Seq(Managed) /\ DOMAIN order' = 1..Len(order) + 1
      /\ order'[Len(order) + 1] = t /\ \A i \in DOMAIN order : order'[i] = order[i]
  BY <1>1, <1>3
<1>5. InFleet' = InFleet \cup {t}
  <2>1. \A u \in InFleet \cup {t} : \E i \in DOMAIN order' : order'[i] = u
    BY <1>3, <1>4 DEF InFleet
  <2>2. \A i \in DOMAIN order' : order'[i] \in InFleet \cup {t}
    BY <1>3, <1>4 DEF InFleet
  <2>3. QED
    BY <2>1, <2>2 DEF InFleet
<1>6. ASSUME NEW i \in DOMAIN order', NEW j \in DOMAIN order', order'[i] = order'[j]
      PROVE  i = j
  <2>1. i \in DOMAIN order \/ i = Len(order) + 1
    BY <1>3, <1>4
  <2>2. j \in DOMAIN order \/ j = Len(order) + 1
    BY <1>3, <1>4
  <2>3. \A k \in DOMAIN order : order[k] # t
    BY <1>2 DEF InFleet
  <2>4. QED
    BY <1>4, <1>6, <2>1, <2>2, <2>3 DEF QueueIInv, QueueTypes
<1>7. QueueTypes'
  BY <1>1, <1>4, <1>5, <1>6 DEF QueueIInv, QueueTypes
<1>8. PassesKeepAway'
  BY <1>1 DEF QueueIInv, QueueTypes, PassesKeepAway
<1>9. QED
  BY <1>7, <1>8 DEF QueueIInv

LEMMA OrderChanges ==
    ASSUME QueueIInv, NEW t \in Managed,
           SetForceStart(t) \/ RemoveTorrent(t) \/ \E pos \in 1..Cardinality(Managed) : SetQueuePosition(t, pos)
    PROVE  QueueIInv'
<1>1. t \in InFleet /\ UNCHANGED <<phase, complete, pass, pausedBy>> /\ orders' \in 0..MaxOrders /\ due' \in 0..2
  BY QueueAssumption DEF SetForceStart, RemoveTorrent, SetQueuePosition, Ordered, Triggered, QueueIInv, QueueTypes
<1>2. held' \subseteq held
  BY DEF SetForceStart, RemoveTorrent, SetQueuePosition
<1>3. PassesKeepAway'
  BY <1>1, <1>2 DEF QueueIInv, PassesKeepAway
<1>4. CASE SetForceStart(t)
  <2>1. /\ order' = order /\ held' = held
        /\ forced' = IF t \in forced THEN forced \ {t} ELSE forced \cup {t}
    BY <1>4 DEF SetForceStart
  <2>2. InFleet' = InFleet
    BY <2>1 DEF InFleet
  <2>3. QueueTypes'
    BY <1>1, <2>1, <2>2 DEF QueueIInv, QueueTypes
  <2>4. QED
    BY <1>3, <2>3 DEF QueueIInv
<1>5. /\ Without(t) \in Seq(Managed) /\ Len(Without(t)) = Len(order) - 1
      /\ \A i, j \in DOMAIN Without(t) : Without(t)[i] = Without(t)[j] => i = j
      /\ {Without(t)[i] : i \in DOMAIN Without(t)} = InFleet \ {t}
  BY <1>1, Removed DEF QueueIInv
<1>6. CASE RemoveTorrent(t)
  <2>1. order' = Without(t) /\ held' = held \ {t} /\ forced' = forced \ {t}
    BY <1>6 DEF RemoveTorrent
  <2>2. InFleet' = InFleet \ {t}
    BY <1>5, <2>1 DEF InFleet
  <2>3. QueueTypes'
    BY <1>1, <1>5, <2>1, <2>2 DEF QueueIInv, QueueTypes
  <2>4. QED
    BY <1>3, <2>3 DEF QueueIInv
<1>7. ASSUME NEW pos \in 1..Cardinality(Managed), SetQueuePosition(t, pos)
      PROVE  QueueIInv'
  <2>1. order' = InsertAt(Without(t), pos, t) /\ UNCHANGED <<forced, held>> /\ pos \in 1..Len(order)
    BY <1>7 DEF SetQueuePosition
  <2>2. Len(order) \in Nat
    BY DEF QueueIInv, QueueTypes
  <2>3. pos \in 1..Len(Without(t)) + 1
    BY <1>5, <2>1, <2>2
  <2>4. \A i \in DOMAIN Without(t) : Without(t)[i] # t
    BY <1>5
  <2>5. /\ order' \in Seq(Managed) /\ \A i, j \in DOMAIN order' : order'[i] = order'[j] => i = j
        /\ {order'[i] : i \in DOMAIN order'} = {Without(t)[i] : i \in DOMAIN Without(t)} \cup {t}
    <3> DEFINE w == Without(t)
    <3>1. /\ w \in Seq(Managed) /\ pos \in 1..Len(w) + 1
          /\ \A i, j \in DOMAIN w : w[i] = w[j] => i = j
          /\ \A i \in DOMAIN w : w[i] # t
      BY <1>5, <2>3, <2>4
    <3> HIDE DEF w
    <3>2. /\ InsertAt(w, pos, t) \in Seq(Managed)
          /\ \A i, j \in DOMAIN InsertAt(w, pos, t) : InsertAt(w, pos, t)[i] = InsertAt(w, pos, t)[j] => i = j
          /\ {InsertAt(w, pos, t)[i] : i \in DOMAIN InsertAt(w, pos, t)} = {w[i] : i \in DOMAIN w} \cup {t}
      BY <3>1, Inserted
    <3>3. order' = InsertAt(w, pos, t)
      BY <2>1 DEF w
    <3>4. QED
      BY <3>2, <3>3 DEF w
  <2>6. InFleet' = InFleet
    BY <1>1, <1>5, <2>5 DEF InFleet
  <2>7. QueueTypes'
    BY <1>1, <2>1, <2>5, <2>6 DEF QueueIInv, QueueTypes
  <2>8. QED
    BY <1>3, <2>7 DEF QueueIInv
<1>8. QED
  BY <1>3, <1>4, <1>6, <1>7

LEMMA QueueKept ==
    ASSUME QueueIInv, [QueueNext]_queueVars
    PROVE  QueueIInv'
<1>1. ASSUME NEW r \in Pass, PassNext(r)
      PROVE  QueueIInv'
  BY <1>1, BeginPassKeeps, LookKeeps, DecideKeeps, ActKeeps, MarkKeeps, EndPassKeeps DEF PassNext
<1>2. ASSUME NEW t \in Managed, TorrentNext(t)
      PROVE  QueueIInv'
  BY <1>2, PhaseChanges, UserPauseKeeps, AddTorrentKeeps, OrderChanges DEF TorrentNext
<1>3. CASE UNCHANGED queueVars
  BY <1>3 DEF queueVars, QueueIInv, QueueTypes, PassesKeepAway, InFleet
<1>4. QED
  BY <1>1, <1>2, <1>3 DEF QueueNext

\* reevaluateQueue: "a torrent Paused for any other reason (a direct Torrent.Pause via
\* Get, or 3.4's seed-limit auto-pause) is left alone", whatever passes overlap, for any
\* torrents, limits and users, unless the queue held it or was looking at it.
THEOREM PauseIsRespected == QueueSpec => []QueueInv
<1>1. ASSUME QueueIInv
      PROVE  QueueInv
  <2>1. Len(order) = Cardinality(InFleet)
    <3>1. order \in Seq(Managed) /\ Len(order) \in Nat /\ DOMAIN order = 1..Len(order)
      BY <1>1 DEF QueueIInv, QueueTypes
    <3>2. order \in Bijection(1..Len(order), InFleet)
      BY <1>1, <3>1 DEF QueueIInv, QueueTypes, InFleet, Bijection, Injection, Surjection, IsInjective
    <3>3. IsFiniteSet(1..Len(order)) /\ Cardinality(1..Len(order)) = Len(order)
      BY <3>1, FS_Interval
    <3>4. ExistsBijection(1..Len(order), InFleet)
      BY <3>2 DEF ExistsBijection
    <3>5. QED
      BY <3>3, <3>4, FS_Bijection
  <2>2. QueueTypeOK
    BY <1>1, <2>1 DEF QueueIInv, QueueTypes, QueueTypeOK, PassTypes, InFleet
  <2>3. FreelyPausedIsLeftAlone
    BY <1>1 DEF QueueIInv, PassesKeepAway, FreelyPausedIsLeftAlone
  <2>4. QED
    BY <2>2, <2>3 DEF QueueInv
<1>2. QED
  BY QueueInitially, QueueKept, <1>1, PTL DEF QueueSpec

-----------------------------------------------------------------------------
(***************************************************************************)
(* Fleet.  The calls on one torrent overlap in any way that does not       *)
(* tangle it; what keeps it in order is which of them can be under way     *)
(* together and what each has done so far.                                 *)
(***************************************************************************)

FleetRecord == [t : Nat, dir : {Final, Other}, staged : BOOLEAN, completed : BOOLEAN, hooked : BOOLEAN]
FleetTorrent == [hash : Hash, dir : Dirs, phase : {"new", "running", "seeding", "stopped"}]
FleetCall == [op : {"remove", "delete", "move", "stage"}, hash : Hash, m : Nat,
              at : {"stop", "files", "restart"}, from : Dirs, to : Dirs \cup {Absent}]
Calls(g) == call[g].op # "idle"
Moves(g) == call[g].op \in {"move", "stage"}
Target(g) == rec[call[g].m].t

FleetTyped ==
    /\ fleet \in [Hash -> Nat] /\ \A h \in Hash : fleet[h] # 0 => fleet[h] \in DOMAIN rec
    /\ rec \in Seq(FleetRecord) /\ \A m \in DOMAIN rec : rec[m].t \in DOMAIN tor
    /\ tor \in Seq(FleetTorrent)
    /\ saved \in [Hash -> ManifestEntry \cup {Absent}] /\ loading \in [Hash -> ManifestEntry \cup {Absent}]
    /\ place \in [Hash -> [Dirs -> {"none", "part", "full"}]]
    /\ owed \subseteq {"stage", "hook", "done"} \X Hash
    /\ call \in [Goroutine -> {Free} \cup FleetCall] /\ \A g \in Goroutine : Calls(g) => call[g].m \in DOMAIN rec
    /\ known \subseteq Hash /\ atRisk \subseteq Hash /\ tangled \subseteq Hash /\ behind \in BOOLEAN

\* Records and calls are of torrents of their own hash.
OfItsHash ==
    /\ \A h \in Hash : fleet[h] # 0 => tor[Current(h)].hash = h
    /\ \A g \in Goroutine : Calls(g) =>
          /\ tor[Target(g)].hash = call[g].hash
          /\ Moves(g) => call[g].to \in {Final, Other}
          /\ call[g].op = "remove" => call[g].at = "stop"
          /\ call[g].op = "delete" => call[g].at # "restart"

\* Nothing happens to a torrent that Load has not added yet.
LoadingIsApart == \A h \in Hash : loading[h] # Absent =>
    fleet[h] = 0 /\ ~Busy(h) /\ \A i \in DOMAIN tor : tor[i].hash # h
KnownIsHeld == \A h \in known : fleet[h] # 0 \/ loading[h] # Absent \/ h \in atRisk

\* The calls on one torrent: one of them moves it at most, they have all met the same
\* record, and one that removes it has taken it off the fleet.
OneRecord(h) ==
    \A g \in At(h) :
       /\ Moves(g) => fleet[h] \in {0, call[g].m}
       /\ ~Moves(g) => fleet[h] = 0
       /\ call[g].op = "move" => fleet[h] = call[g].m
       /\ call[g].op = "stage" => rec[call[g].m].staged /\ call[g].to = rec[call[g].m].dir
       /\ \A k \in At(h) : call[k].m = call[g].m /\ (Moves(g) /\ Moves(k) => k = g)
\* A call that is past its Stop has stopped the torrent, and moves its content from where it is.
IsStopped(h) ==
    \A g \in At(h) :
       /\ call[g].at # "stop" => tor[Target(g)].phase = "stopped"
       /\ Moves(g) /\ call[g].at # "restart" => call[g].from = tor[Target(g)].dir
\* Until the completion hook has run the content is whole where the torrent has it, or
\* where a call is about to give it to it.
IsWhole(h) == fleet[h] # 0 =>
    /\ ~rec[fleet[h]].staged => tor[Current(h)].dir = rec[fleet[h]].dir
    /\ <<"hook", h>> \in owed =>
          /\ (\A g \in At(h) : call[g].at # "restart") => place[h][tor[Current(h)].dir] = "full"
          /\ \A g \in At(h) : call[g].at = "restart" => place[h][call[g].to] = "full"
Orderly(h) == OneRecord(h) /\ IsStopped(h) /\ IsWhole(h)

ManifestIInv == ManifestIsFleet /\ KnownIsSavedOrAtRisk /\ KnownIsHeld
RunsIInv == NoOrphanRuns /\ SeedsWhatIsThere /\ \A h \in Hash \ tangled : Orderly(h)
FleetIInv == FleetTyped /\ OfItsHash /\ LoadingIsApart /\ ManifestIInv /\ RunsIInv

LEMMA Replaced ==
    ASSUME NEW S, NEW s \in Seq(S), NEW i \in DOMAIN s, NEW e \in S
    PROVE  /\ [s EXCEPT ![i] = e] \in Seq(S) /\ DOMAIN [s EXCEPT ![i] = e] = DOMAIN s
           /\ \A j \in DOMAIN s : [s EXCEPT ![i] = e][j] = IF j = i THEN e ELSE s[j]
<1>1. i \in 1..Len(s) /\ DOMAIN s = 1..Len(s)
  BY LenProperties
<1>2. QED
  BY <1>1, ExceptSeq

LEMMA Appended ==
    ASSUME NEW S, NEW s \in Seq(S), NEW e \in S
    PROVE  /\ Append(s, e) \in Seq(S) /\ DOMAIN Append(s, e) = DOMAIN s \cup {Len(s) + 1} /\ Len(s) + 1 \notin DOMAIN s
           /\ \A j \in DOMAIN s : Append(s, e)[j] = s[j]
           /\ Append(s, e)[Len(s) + 1] = e /\ Len(Append(s, e)) = Len(s) + 1 /\ Len(s) \in Nat
<1>1. DOMAIN s = 1..Len(s) /\ Len(s) \in Nat
  BY LenProperties
<1>2. QED
  BY <1>1, AppendProperties, LenProperties

LEMMA CallFacts ==
    ASSUME FleetTyped, NEW g \in Goroutine
    PROVE  /\ call[g] = Free <=> ~Calls(g)
           /\ Calls(g) => /\ call[g] \in FleetCall /\ call[g].m \in DOMAIN rec /\ Target(g) \in DOMAIN tor
                          /\ g \in At(call[g].hash) /\ call[g].hash \in Hash
                          /\ rec[call[g].m] \in FleetRecord /\ tor[Target(g)] \in FleetTorrent
           /\ \A h : g \in At(h) <=> Calls(g) /\ call[g].hash = h
BY DEF FleetTyped, Calls, Free, FleetCall, Target, At

LEMMA RecordFacts ==
    ASSUME FleetTyped, NEW h \in Hash, fleet[h] # 0
    PROVE  /\ fleet[h] \in DOMAIN rec /\ rec[fleet[h]] \in FleetRecord
           /\ Current(h) \in DOMAIN tor /\ tor[Current(h)] \in FleetTorrent
BY DEF FleetTyped, Current

LEMMA RecordChanges ==
    ASSUME FleetTyped, NEW m0 \in DOMAIN rec, NEW r \in FleetRecord, rec' = [rec EXCEPT ![m0] = r]
    PROVE  /\ rec' \in Seq(FleetRecord) /\ DOMAIN rec' = DOMAIN rec
           /\ \A m \in DOMAIN rec : rec'[m] = IF m = m0 THEN r ELSE rec[m]
<1>1. rec \in Seq(FleetRecord)
  BY DEF FleetTyped
<1>2. /\ [rec EXCEPT ![m0] = r] \in Seq(FleetRecord) /\ DOMAIN [rec EXCEPT ![m0] = r] = DOMAIN rec
      /\ \A m \in DOMAIN rec : [rec EXCEPT ![m0] = r][m] = IF m = m0 THEN r ELSE rec[m]
  BY <1>1, Replaced
<1>3. QED
  BY <1>2

LEMMA TorrentChanges ==
    ASSUME FleetTyped, NEW i \in DOMAIN tor, NEW r \in FleetTorrent, tor' = [tor EXCEPT ![i] = r]
    PROVE  /\ tor' \in Seq(FleetTorrent) /\ DOMAIN tor' = DOMAIN tor
           /\ \A j \in DOMAIN tor : tor'[j] = IF j = i THEN r ELSE tor[j]
<1>1. tor \in Seq(FleetTorrent)
  BY DEF FleetTyped
<1>2. /\ [tor EXCEPT ![i] = r] \in Seq(FleetTorrent) /\ DOMAIN [tor EXCEPT ![i] = r] = DOMAIN tor
      /\ \A j \in DOMAIN tor : [tor EXCEPT ![i] = r][j] = IF j = i THEN r ELSE tor[j]
  BY <1>1, Replaced
<1>3. QED
  BY <1>2

LEMMA TorrentAdded ==
    ASSUME FleetTyped, NEW r \in FleetTorrent, tor' = Append(tor, r)
    PROVE  /\ tor' \in Seq(FleetTorrent) /\ DOMAIN tor' = DOMAIN tor \cup {Len(tor) + 1}
           /\ Len(tor) + 1 \notin DOMAIN tor /\ Len(tor) \in Nat
           /\ \A j \in DOMAIN tor : tor'[j] = tor[j]
           /\ tor'[Len(tor) + 1] = r
<1>1. tor \in Seq(FleetTorrent)
  BY DEF FleetTyped
<1>2. /\ Append(tor, r) \in Seq(FleetTorrent) /\ DOMAIN Append(tor, r) = DOMAIN tor \cup {Len(tor) + 1}
      /\ Len(tor) + 1 \notin DOMAIN tor /\ Len(tor) \in Nat
      /\ \A j \in DOMAIN tor : Append(tor, r)[j] = tor[j]
      /\ Append(tor, r)[Len(tor) + 1] = r
  BY <1>1, Appended
<1>3. QED
  BY <1>2

\* A torrent that runs is the current one, or a call is about to stop it.
LEMMA RunningIsCurrent ==
    ASSUME FleetIInv, NEW h \in Hash \ tangled, NEW i \in DOMAIN tor, tor[i].hash = h,
           tor[i].phase \in {"running", "seeding"}
    PROVE  /\ \/ fleet[h] # 0 /\ Current(h) = i
              \/ \E g \in At(h) : call[g].at = "stop" /\ Target(g) = i
           /\ \A g \in At(h) : call[g].at = "stop"
           /\ fleet[h] # 0 => Current(h) = i
<1>1. \/ fleet[h] # 0 /\ Current(h) = i
      \/ \E g \in At(h) : call[g].at = "stop" /\ Target(g) = i
  BY DEF FleetIInv, RunsIInv, NoOrphanRuns, Orphan, Registered, OfItsHash, Calls, Target, At
<1>2. Orderly(h) /\ FleetTyped
  BY DEF FleetIInv, RunsIInv
<1>3. ASSUME NEW g \in At(h), call[g].at # "stop"
      PROVE  FALSE
  <2>1. tor[Target(g)].phase = "stopped" /\ call[g].op \in {"remove", "delete", "move", "stage"}
    BY <1>2, <1>3, CallFacts DEF Orderly, IsStopped, At, FleetCall
  <2>2. fleet[h] # 0 => fleet[h] = call[g].m
    BY <1>2, <1>3, <2>1 DEF Orderly, OneRecord, Moves
  <2>3. \A k \in At(h) : call[k].m = call[g].m
    BY <1>2, <1>3 DEF Orderly, OneRecord
  <2>4. QED
    BY <1>1, <2>1, <2>2, <2>3 DEF Target, Current
<1>4. fleet[h] # 0 => Current(h) = i
  BY <1>1, <1>2 DEF Orderly, OneRecord, Moves, Current, Target
<1>5. QED
  BY <1>1, <1>3, <1>4

\* What leaves the record, the calls, the content and the callbacks of a torrent alone.
LEMMA LeftAloneStaysOrderly ==
    ASSUME FleetIInv, NEW h \in Hash \ tangled,
           fleet'[h] = fleet[h], At(h)' = At(h), \A g \in At(h) : call'[g] = call[g],
           \A m \in DOMAIN rec : tor[rec[m].t].hash = h =>
               rec'[m].t = rec[m].t /\ rec'[m].dir = rec[m].dir /\ rec'[m].staged = rec[m].staged,
           \A i \in DOMAIN tor : tor[i].hash = h =>
               tor'[i].dir = tor[i].dir /\ (tor[i].phase = "stopped" => tor'[i].phase = "stopped"),
           \A d \in Dirs : place[h][d] = "full" => place'[h][d] = "full",
           <<"hook", h>> \in owed' => <<"hook", h>> \in owed
    PROVE  Orderly(h)'
<1>1. FleetTyped /\ OfItsHash /\ Orderly(h)
  BY DEF FleetIInv, RunsIInv
<1>2. ASSUME NEW g \in At(h)
      PROVE  /\ call[g].m \in DOMAIN rec /\ tor[Target(g)].hash = h /\ Target(g) \in DOMAIN tor
             /\ rec'[call[g].m].t = Target(g) /\ rec'[call[g].m].dir = rec[call[g].m].dir
             /\ rec'[call[g].m].staged = rec[call[g].m].staged
             /\ tor'[Target(g)].dir = tor[Target(g)].dir
             /\ tor[Target(g)].phase = "stopped" => tor'[Target(g)].phase = "stopped"
             /\ call[g].op \in {"move", "stage"} => call[g].to \in Dirs
  <2>1. g \in Goroutine /\ Calls(g) /\ call[g].hash = h
    BY DEF At, Calls
  <2>2. call[g].m \in DOMAIN rec /\ tor[Target(g)].hash = h /\ Target(g) \in DOMAIN tor
    BY <1>1, <2>1, CallFacts DEF OfItsHash
  <2>3. QED
    BY <1>1, <2>1, <2>2 DEF Target, OfItsHash, Moves, Dirs
<1>3. fleet[h] # 0 =>
        /\ fleet[h] \in DOMAIN rec /\ tor[Current(h)].hash = h /\ Current(h) \in DOMAIN tor
        /\ rec'[fleet[h]].t = Current(h) /\ rec'[fleet[h]].dir = rec[fleet[h]].dir
        /\ rec'[fleet[h]].staged = rec[fleet[h]].staged
        /\ tor'[Current(h)].dir = tor[Current(h)].dir /\ tor[Current(h)].dir \in Dirs
  BY <1>1, RecordFacts DEF OfItsHash, Current, FleetTorrent
<1>4. OneRecord(h)'
  BY <1>1, <1>2 DEF Orderly, OneRecord, Moves
<1>5. IsStopped(h)'
  BY <1>1, <1>2 DEF Orderly, IsStopped, Moves, Target
<1>6. IsWhole(h)'
  <2>1. SUFFICES ASSUME fleet[h] # 0 PROVE IsWhole(h)'
    BY DEF IsWhole
  <2>2. ASSUME NEW g \in At(h), call[g].at = "restart" PROVE call[g].to \in Dirs
    BY <1>1, <1>2, <2>2, CallFacts DEF OfItsHash, At, Calls, Moves, FleetCall
  <2>3. QED
    BY <1>1, <1>3, <2>1, <2>2 DEF Orderly, IsWhole, Current
<1>7. QED
  BY <1>4, <1>5, <1>6 DEF Orderly

LEMMA FleetInitially == FleetInit => FleetIInv
<1> SUFFICES ASSUME FleetInit PROVE FleetIInv
  OBVIOUS
<1>1. FleetTyped
  <2>1. <<>> \in Seq(FleetRecord) /\ <<>> \in Seq(FleetTorrent) /\ DOMAIN <<>> = {}
    OBVIOUS
  <2>2. call \in [Goroutine -> {Free} \cup FleetCall] /\ \A g \in Goroutine : ~Calls(g)
    BY DEF FleetInit, Free, Calls
  <2>3. place \in [Hash -> [Dirs -> {"none", "part", "full"}]]
    BY DEF FleetInit
  <2>4. rec \in Seq(FleetRecord) /\ tor \in Seq(FleetTorrent) /\ DOMAIN rec = {}
    BY <2>1 DEF FleetInit
  <2>5. QED
    BY <2>2, <2>3, <2>4 DEF FleetInit, FleetTyped
<1>2. OfItsHash /\ LoadingIsApart
  BY DEF FleetInit, OfItsHash, Free, Calls, LoadingIsApart
<1>3. ManifestIInv
  BY DEF FleetInit, ManifestIInv, ManifestIsFleet, Image, KnownIsSavedOrAtRisk, KnownIsHeld
<1>4. \A h \in Hash : Orderly(h)
  BY DEF FleetInit, Orderly, OneRecord, IsStopped, IsWhole, At, Free
<1>5. RunsIInv
  BY <1>4 DEF FleetInit, RunsIInv, NoOrphanRuns, SeedsWhatIsThere
<1>6. QED
  BY <1>1, <1>2, <1>3, <1>5 DEF FleetIInv

\* Where the fleet, its records and the manifest are left alone.
LEMMA ManifestStays ==
    ASSUME ManifestIInv, UNCHANGED <<fleet, saved, loading, known, atRisk, behind>>, Image(fleet, rec)' = Image(fleet, rec)
    PROVE  ManifestIInv'
BY DEF ManifestIInv, ManifestIsFleet, KnownIsSavedOrAtRisk, KnownIsHeld, Loaded

LEMMA ContentGrows ==
    ASSUME FleetIInv, NEW i \in DOMAIN tor, Allocates(i) \/ Downloads(i)
    PROVE  FleetIInv'
<1>1. FleetTyped /\ OfItsHash /\ LoadingIsApart /\ ManifestIInv /\ RunsIInv
  BY DEF FleetIInv
<1> UNCHANGED <<fleet, rec, tor, saved, loading, call, owed, known, atRisk, tangled, behind>>
  BY DEF Allocates, Downloads, ghosts
<1>2. tor[i].hash \in Hash /\ tor[i].dir \in Dirs
  <2>1. tor[i] \in FleetTorrent
    BY <1>1 DEF FleetTyped
  <2>2. QED
    BY <2>1 DEF FleetTorrent
<1>3. /\ place' \in [Hash -> [Dirs -> {"none", "part", "full"}]]
      /\ \A h \in Hash, d \in Dirs : place[h][d] = "full" => place'[h][d] = "full"
  <2> DEFINE h0 == tor[i].hash  d0 == tor[i].dir
  <2>1. PICK v \in {"part", "full"} : place' = [place EXCEPT ![h0] = [place[h0] EXCEPT ![d0] = v]]
    BY DEF Allocates, Downloads
  <2>2. place[h0][d0] # "full"
    BY DEF Allocates, Downloads
  <2>3. place \in [Hash -> [Dirs -> {"none", "part", "full"}]] /\ h0 \in Hash /\ d0 \in Dirs
    BY <1>1, <1>2 DEF FleetTyped
  <2> HIDE DEF h0, d0
  <2>4. [place[h0] EXCEPT ![d0] = v] \in [Dirs -> {"none", "part", "full"}]
    BY <2>3
  <2>5. QED
    BY <2>1, <2>2, <2>3, <2>4
<1>4. FleetTyped'
  BY <1>1, <1>3 DEF FleetTyped, Calls
<1>5. OfItsHash' /\ LoadingIsApart'
  BY <1>1 DEF OfItsHash, LoadingIsApart, Busy, At, Calls, Moves, Target, Current
<1>6. ManifestIInv'
  BY <1>1, ManifestStays DEF Image
<1>7. ASSUME NEW h \in Hash \ tangled PROVE Orderly(h)'
  <2>1. At(h)' = At(h)
    BY DEF At
  <2>2. QED
    BY <1>3, <2>1, LeftAloneStaysOrderly
<1>8. RunsIInv'
  <2>1. NoOrphanRuns'
    BY <1>1 DEF RunsIInv, NoOrphanRuns, Orphan, Registered, Current
  <2>2. SeedsWhatIsThere'
    <3>1. \A j \in DOMAIN tor : tor[j] \in FleetTorrent
      BY <1>1 DEF FleetTyped
    <3>2. QED
      BY <1>1, <1>3, <3>1 DEF RunsIInv, SeedsWhatIsThere, FleetTorrent
  <2>3. QED
    BY <1>7, <2>1, <2>2 DEF RunsIInv
<1>9. QED
  BY <1>4, <1>5, <1>6, <1>8 DEF FleetIInv

LEMMA CompletionKeeps ==
    ASSUME FleetIInv, NEW i \in DOMAIN tor, Completes(i) \/ Revisits(i)
    PROVE  FleetIInv'
<1> USE DEF ghosts
<1>1. FleetTyped /\ OfItsHash /\ LoadingIsApart /\ ManifestIInv /\ RunsIInv
  BY DEF FleetIInv
<1>2. /\ tor[i].phase \in {"running", "seeding"}
      /\ tor' = [tor EXCEPT ![i].phase = "seeding"]
      /\ owed' = owed \cup ({"stage", "hook", "done"} \X {tor[i].hash})
      /\ UNCHANGED <<fleet, rec, saved, loading, place, call, ghosts, behind>>
  BY DEF Completes, Revisits, Seeding
<1>3. tor[i] \in FleetTorrent /\ tor \in Seq(FleetTorrent)
  BY <1>1 DEF FleetTyped
<1>4. /\ tor' \in Seq(FleetTorrent) /\ DOMAIN tor' = DOMAIN tor
      /\ \A j \in DOMAIN tor : tor'[j].hash = tor[j].hash /\ tor'[j].dir = tor[j].dir
                               /\ (j # i => tor'[j] = tor[j])
      /\ tor'[i].phase = "seeding"
  BY <1>2, <1>3 DEF FleetTorrent
<1>5. FleetTyped'
  BY <1>1, <1>2, <1>3, <1>4 DEF FleetTyped, Calls, FleetTorrent
<1>6. OfItsHash'
  <2>1. \A h \in Hash : fleet[h] # 0 => Current(h) \in DOMAIN tor
    BY <1>1, RecordFacts
  <2>2. \A g \in Goroutine : Calls(g) => Target(g) \in DOMAIN tor
    BY <1>1, CallFacts
  <2>3. QED
    BY <1>1, <1>2, <1>4, <2>1, <2>2 DEF OfItsHash, Calls, Moves, Target, Current
<1>7. LoadingIsApart'
  BY <1>1, <1>2, <1>3, <1>4 DEF LoadingIsApart, Busy, At, Calls
<1>8. ManifestIInv'
  BY <1>1, <1>2, ManifestStays DEF Image
<1>9. /\ tor[i].hash \notin tangled => place[tor[i].hash][tor[i].dir] = "full"
  BY <1>1 DEF Completes, Revisits, RunsIInv, SeedsWhatIsThere
<1>10. ASSUME NEW h \in Hash \ tangled PROVE Orderly(h)'
  <2>1. CASE h # tor[i].hash
    BY <1>2, <1>4, <2>1, LeftAloneStaysOrderly DEF At
  <2>2. CASE h = tor[i].hash
    <3>1. Orderly(h) /\ \A g \in At(h) : call[g].at = "stop"
      BY <1>1, <1>2, <2>2, RunningIsCurrent DEF RunsIInv
    <3>2. fleet[h] # 0 => Current(h) = i
      BY <1>2, <2>2, RunningIsCurrent
    <3>3. OneRecord(h)' /\ At(h)' = At(h)
      BY <1>2, <3>1 DEF Orderly, OneRecord, Moves, At
    <3>4. IsStopped(h)'
      <4>1. \A g \in At(h) : Target(g) \in DOMAIN tor
        BY <1>1, CallFacts DEF At, Calls
      <4>2. QED
        BY <1>2, <1>4, <3>1, <3>3, <4>1 DEF Orderly, IsStopped, Moves, Target
    <3>5. IsWhole(h)'
      BY <1>2, <1>4, <1>9, <2>2, <3>1, <3>2, <3>3 DEF Orderly, IsWhole, Current
    <3>6. QED
      BY <3>3, <3>4, <3>5 DEF Orderly
  <2>3. QED
    BY <2>1, <2>2
<1>11. RunsIInv'
  <2>1. NoOrphanRuns'
    BY <1>1, <1>2, <1>4 DEF RunsIInv, NoOrphanRuns, Orphan, Registered, Current
  <2>2. SeedsWhatIsThere'
    BY <1>1, <1>2, <1>4, <1>9 DEF RunsIInv, SeedsWhatIsThere
  <2>3. QED
    BY <1>2, <1>10, <2>1, <2>2 DEF RunsIInv
<1>12. QED
  BY <1>5, <1>6, <1>7, <1>8, <1>11 DEF FleetIInv

LEMMA CallbackKeeps ==
    ASSUME FleetIInv, NEW h0 \in Hash, Hook(h0) \/ RecordCompleted(h0)
    PROVE  FleetIInv'
<1> USE DEF ghosts
<1>1. FleetTyped /\ OfItsHash /\ LoadingIsApart /\ ManifestIInv /\ RunsIInv
  BY DEF FleetIInv
<1>2. owed' \subseteq owed /\ UNCHANGED <<fleet, tor, loading, place, call, ghosts>>
  BY DEF Hook, RecordCompleted
<1>3. \/ UNCHANGED rec
      \/ fleet[h0] # 0 /\ rec' = [rec EXCEPT ![fleet[h0]].hooked = TRUE]
      \/ fleet[h0] # 0 /\ rec' = [rec EXCEPT ![fleet[h0]].completed = TRUE]
  BY DEF Hook, RecordCompleted
<1>4. /\ rec' \in Seq(FleetRecord) /\ DOMAIN rec' = DOMAIN rec
      /\ \A m \in DOMAIN rec : rec'[m].t = rec[m].t /\ rec'[m].dir = rec[m].dir /\ rec'[m].staged = rec[m].staged
  <2>1. rec \in Seq(FleetRecord) /\ \A m \in DOMAIN rec : rec[m] \in FleetRecord
    BY <1>1 DEF FleetTyped
  <2>2. fleet[h0] # 0 => rec[fleet[h0]] \in FleetRecord /\ fleet[h0] \in DOMAIN rec
    BY <1>1, RecordFacts
  <2>3. CASE fleet[h0] # 0 /\ rec' = [rec EXCEPT ![fleet[h0]].hooked = TRUE]
    <3> DEFINE r == [rec[fleet[h0]] EXCEPT !.hooked = TRUE]
    <3>1. rec' = [rec EXCEPT ![fleet[h0]] = r]
      BY <2>3
    <3>2. r \in FleetRecord /\ r.t = rec[fleet[h0]].t /\ r.dir = rec[fleet[h0]].dir /\ r.staged = rec[fleet[h0]].staged
      BY <2>2, <2>3 DEF FleetRecord
    <3> HIDE DEF r
    <3>3. rec' \in Seq(FleetRecord) /\ DOMAIN rec' = DOMAIN rec /\ \A m \in DOMAIN rec : rec'[m] = IF m = fleet[h0] THEN r ELSE rec[m]
      BY <1>1, <2>2, <2>3, <3>1, <3>2, RecordChanges
    <3>4. QED
      BY <3>2, <3>3
  <2>4. CASE fleet[h0] # 0 /\ rec' = [rec EXCEPT ![fleet[h0]].completed = TRUE]
    <3> DEFINE r == [rec[fleet[h0]] EXCEPT !.completed = TRUE]
    <3>1. rec' = [rec EXCEPT ![fleet[h0]] = r]
      BY <2>4
    <3>2. r \in FleetRecord /\ r.t = rec[fleet[h0]].t /\ r.dir = rec[fleet[h0]].dir /\ r.staged = rec[fleet[h0]].staged
      BY <2>2, <2>4 DEF FleetRecord
    <3> HIDE DEF r
    <3>3. rec' \in Seq(FleetRecord) /\ DOMAIN rec' = DOMAIN rec /\ \A m \in DOMAIN rec : rec'[m] = IF m = fleet[h0] THEN r ELSE rec[m]
      BY <1>1, <2>2, <2>4, <3>1, <3>2, RecordChanges
    <3>4. QED
      BY <3>2, <3>3
  <2>5. QED
    BY <1>3, <2>1, <2>3, <2>4
<1>5. Image(fleet, rec) \in [Hash -> ManifestEntry \cup {Absent}] /\ Image(fleet, rec)' \in [Hash -> ManifestEntry \cup {Absent}]
  <2>1. \A h \in Hash : fleet[h] # 0 => fleet[h] \in DOMAIN rec /\ rec[fleet[h]] \in FleetRecord /\ rec'[fleet[h]] \in FleetRecord
    BY <1>1, <1>4, RecordFacts
  <2>2. QED
    BY <1>2, <2>1 DEF Image, ManifestEntry, FleetRecord
<1>6. \/ UNCHANGED <<saved, behind>> /\ Image(fleet, rec)' = Image(fleet, rec)
      \/ saved' = Image(fleet, rec)' /\ behind' = FALSE
      \/ UNCHANGED saved /\ behind' = TRUE
  <2>1. CASE Hook(h0)
    <3>1. \A h \in Hash : fleet[h] # 0 => fleet[h] \in DOMAIN rec /\ rec'[fleet[h]].dir = rec[fleet[h]].dir
                /\ rec'[fleet[h]].staged = rec[fleet[h]].staged /\ rec'[fleet[h]].completed = rec[fleet[h]].completed
      BY <1>1, <1>4, <2>1, RecordFacts DEF Hook, FleetRecord
    <3>2. Image(fleet, rec)' = Image(fleet, rec)
      BY <1>2, <3>1 DEF Image
    <3>3. QED
      BY <2>1, <3>2 DEF Hook
  <2>2. CASE RecordCompleted(h0)
    BY <1>2, <2>2 DEF RecordCompleted, SaveOr, Image
  <2>3. QED
    BY <2>1, <2>2
<1>7. FleetTyped'
  BY <1>1, <1>2, <1>4, <1>5, <1>6 DEF FleetTyped, Calls
<1>8. OfItsHash'
  BY <1>1, <1>2, <1>4, RecordFacts, CallFacts DEF OfItsHash, Calls, Moves, Target, Current
<1>9. LoadingIsApart'
  BY <1>1, <1>2 DEF LoadingIsApart, Busy, At
<1>10. ManifestIInv'
  <2>1. \A h \in Hash : fleet[h] # 0 => Image(fleet, rec)'[h] # Absent
    <3>1. ASSUME NEW h \in Hash, fleet[h] # 0 PROVE Image(fleet, rec)'[h] # Absent
      <4>1. rec'[fleet[h]] \in FleetRecord
        BY <1>1, <1>4, <3>1, RecordFacts
      <4>2. [dir |-> rec'[fleet[h]].dir, staged |-> rec'[fleet[h]].staged, completed |-> rec'[fleet[h]].completed] \in ManifestEntry
        BY <4>1 DEF FleetRecord, ManifestEntry
      <4>3. QED
        BY <1>2, <3>1, <4>2, FleetAssumption DEF Image
    <3>2. QED
      BY <3>1
  <2>2. known \subseteq Hash
    BY <1>1 DEF FleetTyped
  <2>3. QED
    BY <1>1, <1>2, <1>6, <2>1, <2>2 DEF ManifestIInv, ManifestIsFleet, KnownIsSavedOrAtRisk, KnownIsHeld, Loaded
<1>11. ASSUME NEW h \in Hash \ tangled PROVE Orderly(h)'
  <2>1. At(h)' = At(h)
    BY <1>2 DEF At
  <2>2. QED
    BY <1>2, <1>4, <2>1, LeftAloneStaysOrderly
<1>12. NoOrphanRuns' /\ SeedsWhatIsThere'
  <2>1. \A h \in Hash : fleet[h] # 0 => Current(h)' = Current(h)
    BY <1>1, <1>2, <1>4, RecordFacts DEF Current
  <2>2. \A g \in Goroutine : call[g].op # "idle" => rec'[call[g].m].t = rec[call[g].m].t
    BY <1>1, <1>4, CallFacts DEF Calls
  <2>3. QED
    BY <1>1, <1>2, <2>1, <2>2 DEF RunsIInv, NoOrphanRuns, Orphan, Registered, SeedsWhatIsThere
<1>13. QED
  BY <1>2, <1>7, <1>8, <1>9, <1>10, <1>11, <1>12 DEF FleetIInv, RunsIInv

\* A call begins with the record that the fleet has.
LEMMA CallStarts ==
    ASSUME FleetTyped, NEW g \in Goroutine, NEW h0 \in Hash, NEW op \in {"remove", "delete", "move", "stage"},
           NEW to \in Dirs \cup {Absent}, call[g] = Free, fleet[h0] # 0, Starts(g, op, h0, to)
    PROVE  /\ call' \in [Goroutine -> {Free} \cup FleetCall]
           /\ \A k \in Goroutine : k # g => call'[k] = call[k]
           /\ call'[g].op = op /\ call'[g].hash = h0 /\ call'[g].m = fleet[h0] /\ call'[g].at = "stop"
           /\ call'[g].from = tor[Current(h0)].dir /\ call'[g].to = to
           /\ At(h0)' = At(h0) \cup {g} /\ \A h \in Hash : h # h0 => At(h)' = At(h)
<1>1. fleet[h0] \in Nat /\ tor[Current(h0)].dir \in Dirs
  BY RecordFacts DEF FleetTyped, FleetTorrent
<1>2. call \in [Goroutine -> {Free} \cup FleetCall]
  BY DEF FleetTyped
<1>3. call' = [call EXCEPT ![g] = [op |-> op, hash |-> h0, m |-> fleet[h0], at |-> "stop",
                                  from |-> tor[Current(h0)].dir, to |-> to]]
  BY DEF Starts
<1>4. [op |-> op, hash |-> h0, m |-> fleet[h0], at |-> "stop", from |-> tor[Current(h0)].dir, to |-> to] \in FleetCall
  BY <1>1 DEF FleetCall
<1>5. /\ call' \in [Goroutine -> {Free} \cup FleetCall]
      /\ \A k \in Goroutine : k # g => call'[k] = call[k]
      /\ call'[g].op = op /\ call'[g].hash = h0 /\ call'[g].m = fleet[h0] /\ call'[g].at = "stop"
      /\ call'[g].from = tor[Current(h0)].dir /\ call'[g].to = to
  BY <1>2, <1>3, <1>4
<1>6. At(h0)' = At(h0) \cup {g}
  BY <1>5 DEF At
<1>7. \A h \in Hash : h # h0 => At(h)' = At(h)
  <2>1. call[g].op = "idle"
    BY DEF Free
  <2>2. QED
    BY <1>5, <2>1 DEF At
<1>8. QED
  BY <1>5, <1>6, <1>7

LEMMA StartedIsTyped ==
    ASSUME FleetIInv, NEW g \in Goroutine, NEW h0 \in Hash, NEW op \in {"remove", "delete", "move", "stage"},
           NEW to \in Dirs \cup {Absent}, call[g] = Free, fleet[h0] # 0, Starts(g, op, h0, to),
           op \in {"move", "stage"} => to \in {Final, Other},
           fleet' = fleet \/ fleet' = [fleet EXCEPT ![h0] = 0], UNCHANGED <<rec, tor>>
    PROVE  /\ call' \in [Goroutine -> {Free} \cup FleetCall] /\ \A k \in Goroutine : Calls(k)' => call'[k].m \in DOMAIN rec
           /\ OfItsHash'
<1>1. FleetTyped /\ OfItsHash
  BY DEF FleetIInv
<1>2. fleet \in [Hash -> Nat] /\ \A h \in Hash : fleet'[h] # 0 => fleet'[h] = fleet[h]
  BY <1>1 DEF FleetTyped
<1>3. fleet[h0] \in DOMAIN rec /\ tor[Current(h0)].hash = h0 /\ rec[fleet[h0]].t = Current(h0)
  BY <1>1, RecordFacts DEF OfItsHash, Current
<1>4. ASSUME NEW k \in Goroutine, k # g
      PROVE  /\ call'[k] = call[k] /\ Calls(k)' = Calls(k) /\ Moves(k)' = Moves(k)
             /\ Calls(k) => Target(k)' = Target(k)
  BY <1>1, <1>4, CallStarts DEF Calls, Moves, Target
<1>5. /\ call'[g].m = fleet[h0] /\ Target(g)' = Current(h0) /\ call'[g].hash = h0 /\ call'[g].op = op
      /\ call'[g].at = "stop" /\ call'[g].to = to
  BY <1>1, <1>3, CallStarts DEF Target
<1>6. call' \in [Goroutine -> {Free} \cup FleetCall]
  BY <1>1, CallStarts
<1>7. \A k \in Goroutine : Calls(k)' => call'[k].m \in DOMAIN rec
  BY <1>1, <1>3, <1>4, <1>5 DEF FleetTyped
<1>8. OfItsHash'
  <2>1. \A h \in Hash : fleet'[h] # 0 => tor'[Current(h)'].hash = h
    BY <1>1, <1>2 DEF OfItsHash, Current
  <2>2. ASSUME NEW k \in Goroutine, Calls(k)'
        PROVE  /\ tor'[Target(k)'].hash = call'[k].hash
               /\ Moves(k)' => call'[k].to \in {Final, Other}
               /\ call'[k].op = "remove" => call'[k].at = "stop"
               /\ call'[k].op = "delete" => call'[k].at # "restart"
    <3>1. CASE k = g
      BY <1>3, <1>5, <3>1 DEF Moves
    <3>2. CASE k # g
      BY <1>1, <1>4, <2>2, <3>2 DEF OfItsHash
    <3>3. QED
      BY <3>1, <3>2
  <2>3. QED
    BY <2>1, <2>2 DEF OfItsHash
<1>9. QED
  BY <1>6, <1>7, <1>8

\* Nothing is left of a torrent that ran when it loses its place or its record's calls.
LEMMA StartedHasNoOrphans ==
    ASSUME FleetIInv, NEW g \in Goroutine, NEW h0 \in Hash, NEW op \in {"remove", "delete", "move", "stage"},
           NEW to \in Dirs \cup {Absent}, call[g] = Free, fleet[h0] # 0, Starts(g, op, h0, to),
           fleet' = fleet \/ fleet' = [fleet EXCEPT ![h0] = 0], UNCHANGED <<rec, tor, place>>, tangled \subseteq tangled'
    PROVE  NoOrphanRuns' /\ SeedsWhatIsThere'
<1>1. FleetTyped /\ OfItsHash /\ NoOrphanRuns /\ SeedsWhatIsThere
  BY DEF FleetIInv, RunsIInv
<1>2. ASSUME NEW i \in DOMAIN tor, Orphan(i)'
      PROVE  Orphan(i)
  <2>1. ~Registered(i)
    <3>1. ASSUME NEW h \in Hash, fleet[h] # 0, Current(h) = i
          PROVE  FALSE
      <4>1. CASE h = h0
        <5>1. /\ call'[g].op # "idle" /\ call'[g].at = "stop" /\ rec'[call'[g].m].t = i
          BY <1>1, <3>1, <4>1, CallStarts DEF Current
        <5>2. QED
          BY <1>2, <5>1 DEF Orphan
      <4>2. CASE h # h0
        <5>1. fleet'[h] = fleet[h]
          BY <1>1, <4>2 DEF FleetTyped
        <5>2. QED
          BY <1>2, <3>1, <5>1 DEF Orphan, Registered, Current
      <4>3. QED
        BY <4>1, <4>2
    <3>2. QED
      BY <3>1 DEF Registered
  <2>2. ASSUME NEW k \in Goroutine, call[k].op # "idle" PROVE call'[k] = call[k]
    BY <1>1, <2>2, CallStarts DEF Free
  <2>3. QED
    BY <1>2, <2>1, <2>2 DEF Orphan
<1>3. QED
  BY <1>1, <1>2 DEF NoOrphanRuns, SeedsWhatIsThere

LEMMA MoveDataKeeps ==
    ASSUME FleetIInv, NEW g \in Goroutine, NEW h0 \in Hash, MoveData(g, h0)
    PROVE  FleetIInv'
<1>1. FleetTyped /\ OfItsHash /\ LoadingIsApart /\ ManifestIInv /\ RunsIInv
  BY DEF FleetIInv
<1>2. /\ Loaded /\ call[g] = Free /\ fleet[h0] # 0 /\ Starts(g, "move", h0, Other)
      /\ tangled' = IF At(h0) # {} THEN tangled \cup {h0} ELSE tangled
      /\ UNCHANGED <<fleet, rec, tor, saved, loading, place, owed, known, atRisk, behind>>
  BY DEF MoveData, Tangles
<1>3. Other \in Dirs \cup {Absent} /\ tangled \subseteq tangled'
  BY <1>2 DEF Dirs
<1>4. /\ call' \in [Goroutine -> {Free} \cup FleetCall] /\ \A k \in Goroutine : Calls(k)' => call'[k].m \in DOMAIN rec
      /\ OfItsHash'
  BY <1>2, <1>3, StartedIsTyped
<1>5. NoOrphanRuns' /\ SeedsWhatIsThere'
  BY <1>2, <1>3, StartedHasNoOrphans
<1>6. FleetTyped'
  BY <1>1, <1>2, <1>4 DEF FleetTyped
<1>7. LoadingIsApart'
  BY <1>2 DEF LoadingIsApart, Loaded
<1>8. ManifestIInv'
  BY <1>1, <1>2, ManifestStays DEF Image
<1>9. /\ \A k \in Goroutine : k # g => call'[k] = call[k]
      /\ call'[g].op = "move" /\ call'[g].hash = h0 /\ call'[g].m = fleet[h0] /\ call'[g].at = "stop"
      /\ call'[g].from = tor[Current(h0)].dir /\ call'[g].to = Other
      /\ At(h0)' = At(h0) \cup {g} /\ \A h \in Hash : h # h0 => At(h)' = At(h)
  BY <1>1, <1>2, <1>3, CallStarts
<1>10. ASSUME NEW h \in Hash \ tangled' PROVE Orderly(h)'
  <2>1. CASE h # h0
    <3>1. h \in Hash \ tangled /\ At(h)' = At(h) /\ \A k \in At(h) : call'[k] = call[k]
      BY <1>2, <1>9, <2>1 DEF At, Free
    <3>2. QED
      BY <1>2, <3>1, LeftAloneStaysOrderly
  <2>2. CASE h = h0
    <3>1. At(h) = {} /\ At(h)' = {g} /\ Orderly(h)
      BY <1>1, <1>2, <1>9, <2>2 DEF RunsIInv
    <3>2. OneRecord(h)'
      BY <1>2, <1>9, <2>2, <3>1 DEF OneRecord, Moves
    <3>3. IsStopped(h)'
      BY <1>2, <1>9, <2>2, <3>1 DEF IsStopped, Moves, Target, Current
    <3>4. IsWhole(h)'
      BY <1>2, <1>9, <2>2, <3>1 DEF Orderly, IsWhole, Current
    <3>5. QED
      BY <3>2, <3>3, <3>4 DEF Orderly
  <2>3. QED
    BY <2>1, <2>2
<1>11. QED
  BY <1>4, <1>5, <1>6, <1>7, <1>8, <1>10 DEF FleetIInv, RunsIInv

LEMMA UnstagingKeeps ==
    ASSUME FleetIInv, NEW g \in Goroutine, NEW h0 \in Hash, MaybeMoveFromIncompleteDir(g, h0)
    PROVE  FleetIInv'
<1>1. FleetTyped /\ OfItsHash /\ LoadingIsApart /\ ManifestIInv /\ RunsIInv
  BY DEF FleetIInv
<1>2. /\ <<"stage", h0>> \in owed /\ call[g] = Free /\ owed' \subseteq owed
      /\ tangled' = IF Moving(h0) THEN tangled \cup {h0} ELSE tangled
      /\ UNCHANGED <<fleet, rec, tor, saved, loading, place, known, atRisk, behind>>
  BY DEF MaybeMoveFromIncompleteDir, Tangles
<1>3. tangled \subseteq tangled' /\ tangled' \subseteq Hash /\ owed' \subseteq {"stage", "hook", "done"} \X Hash
  BY <1>1, <1>2 DEF FleetTyped
<1>4. ManifestIInv'
  BY <1>1, <1>2, ManifestStays DEF Image
<1>5. loading[h0] = Absent
  BY <1>1, <1>2 DEF LoadingIsApart, Busy
<1>6. CASE UNCHANGED call
  <2>1. FleetTyped' /\ OfItsHash'
    BY <1>1, <1>2, <1>3, <1>6 DEF FleetTyped, OfItsHash, Calls, Moves, Target, Current
  <2>2. LoadingIsApart'
    BY <1>1, <1>2, <1>6 DEF LoadingIsApart, Busy, At
  <2>3. NoOrphanRuns' /\ SeedsWhatIsThere'
    BY <1>1, <1>2, <1>3, <1>6 DEF RunsIInv, NoOrphanRuns, Orphan, Registered, Current, SeedsWhatIsThere
  <2>4. ASSUME NEW h \in Hash \ tangled' PROVE Orderly(h)'
    BY <1>2, <1>3, <1>6, LeftAloneStaysOrderly DEF At
  <2>5. QED
    BY <1>4, <2>1, <2>2, <2>3, <2>4 DEF FleetIInv, RunsIInv
<1>7. CASE fleet[h0] # 0 /\ rec[fleet[h0]].staged /\ Starts(g, "stage", h0, rec[fleet[h0]].dir)
  <2> DEFINE to == rec[fleet[h0]].dir
  <2>1. to \in {Final, Other} /\ to \in Dirs \cup {Absent}
    BY <1>1, <1>7, RecordFacts DEF FleetRecord, Dirs
  <2>2. Starts(g, "stage", h0, to) /\ fleet[h0] # 0
    BY <1>7
  <2> HIDE DEF to
  <2>3. /\ call' \in [Goroutine -> {Free} \cup FleetCall] /\ \A k \in Goroutine : Calls(k)' => call'[k].m \in DOMAIN rec
        /\ OfItsHash'
    BY <1>2, <2>1, <2>2, StartedIsTyped
  <2>4. NoOrphanRuns' /\ SeedsWhatIsThere'
    BY <1>2, <1>3, <2>1, <2>2, StartedHasNoOrphans
  <2>5. FleetTyped'
    BY <1>1, <1>2, <1>3, <2>3 DEF FleetTyped
  <2>6. /\ \A k \in Goroutine : k # g => call'[k] = call[k]
        /\ call'[g].op = "stage" /\ call'[g].hash = h0 /\ call'[g].m = fleet[h0] /\ call'[g].at = "stop"
        /\ call'[g].from = tor[Current(h0)].dir /\ call'[g].to = to
        /\ At(h0)' = At(h0) \cup {g} /\ \A h \in Hash : h # h0 => At(h)' = At(h)
    BY <1>1, <1>2, <2>1, <2>2, CallStarts
  <2>7. LoadingIsApart'
    BY <1>1, <1>2, <1>5, <2>6 DEF LoadingIsApart, Busy
  <2>8. ASSUME NEW h \in Hash \ tangled' PROVE Orderly(h)'
    <3>1. CASE h # h0
      <4>1. h \in Hash \ tangled /\ At(h)' = At(h) /\ \A k \in At(h) : call'[k] = call[k]
        BY <1>2, <1>3, <2>6, <3>1 DEF At, Free
      <4>2. QED
        BY <1>2, <4>1, LeftAloneStaysOrderly
    <3>2. CASE h = h0
      <4>1. Orderly(h) /\ ~Moving(h)
        BY <1>1, <1>2, <2>8, <3>2 DEF RunsIInv
      <4>2. At(h) = {}
        BY <4>1, <1>7, <3>2 DEF Orderly, OneRecord, Moving, Moves
      <4>3. At(h)' = {g}
        BY <2>6, <3>2, <4>2
      <4>4. OneRecord(h)'
        BY <1>2, <1>7, <2>6, <3>2, <4>3 DEF OneRecord, Moves, to
      <4>5. IsStopped(h)'
        BY <1>2, <2>6, <3>2, <4>3 DEF IsStopped, Moves, Target, Current
      <4>6. IsWhole(h)'
        BY <1>2, <2>6, <3>2, <4>1, <4>2, <4>3 DEF Orderly, IsWhole, Current
      <4>7. QED
        BY <4>4, <4>5, <4>6 DEF Orderly
    <3>3. QED
      BY <3>1, <3>2
  <2>9. QED
    BY <1>4, <2>3, <2>4, <2>5, <2>7, <2>8 DEF FleetIInv, RunsIInv
<1>8. QED
  BY <1>6, <1>7 DEF MaybeMoveFromIncompleteDir

LEMMA RemoveKeeps ==
    ASSUME FleetIInv, NEW g \in Goroutine, NEW h0 \in Hash, NEW op, FleetRemove(g, h0, op)
    PROVE  FleetIInv'
<1>1. FleetTyped /\ OfItsHash /\ LoadingIsApart /\ ManifestIInv /\ RunsIInv
  BY DEF FleetIInv
<1>2. /\ Loaded /\ call[g] = Free /\ fleet[h0] # 0 /\ op \in {"remove", "delete"}
      /\ tangled' = IF \E c \in At(h0) : call[c].op = "move" THEN tangled \cup {h0} ELSE tangled
      /\ UNCHANGED <<rec, tor, loading, place, owed, atRisk>>
  BY DEF FleetRemove, Tangles
<1>3. tangled \subseteq tangled' /\ tangled' \subseteq Hash
  BY <1>1, <1>2 DEF FleetTyped
<1>4. LoadingIsApart'
  BY <1>2 DEF LoadingIsApart, Loaded
<1>5. CASE UNCHANGED <<call, fleet, saved, behind, known>>
  <2>1. FleetTyped' /\ OfItsHash'
    BY <1>1, <1>2, <1>3, <1>5 DEF FleetTyped, OfItsHash, Calls, Moves, Target, Current
  <2>2. ManifestIInv'
    BY <1>1, <1>2, <1>5, ManifestStays DEF Image
  <2>3. NoOrphanRuns' /\ SeedsWhatIsThere'
    BY <1>1, <1>2, <1>3, <1>5 DEF RunsIInv, NoOrphanRuns, Orphan, Registered, Current, SeedsWhatIsThere
  <2>4. ASSUME NEW h \in Hash \ tangled' PROVE Orderly(h)'
    BY <1>2, <1>3, <1>5, LeftAloneStaysOrderly DEF At
  <2>5. QED
    BY <1>4, <2>1, <2>2, <2>3, <2>4 DEF FleetIInv, RunsIInv
<1>6. CASE /\ Starts(g, op, h0, Absent)
           /\ fleet' = [fleet EXCEPT ![h0] = 0] /\ saved' = Image(fleet', rec)
           /\ behind' = FALSE /\ known' = known \ {h0}
  <2>1. /\ call' \in [Goroutine -> {Free} \cup FleetCall] /\ \A k \in Goroutine : Calls(k)' => call'[k].m \in DOMAIN rec
        /\ OfItsHash'
    BY <1>2, <1>6, StartedIsTyped
  <2>2. NoOrphanRuns' /\ SeedsWhatIsThere'
    BY <1>2, <1>3, <1>6, StartedHasNoOrphans
  <2>3. /\ fleet' \in [Hash -> Nat] /\ fleet'[h0] = 0
        /\ \A h \in Hash : h # h0 => fleet'[h] = fleet[h]
    BY <1>1, <1>6 DEF FleetTyped
  <2>4. saved' \in [Hash -> ManifestEntry \cup {Absent}] /\ \A h \in Hash : fleet'[h] # 0 => saved'[h] # Absent
    <3>1. ASSUME NEW h \in Hash, fleet'[h] # 0
          PROVE [dir |-> rec[fleet'[h]].dir, staged |-> rec[fleet'[h]].staged, completed |-> rec[fleet'[h]].completed] \in ManifestEntry
      <4>1. rec[fleet'[h]] \in FleetRecord
        BY <1>1, <2>3, <3>1, RecordFacts
      <4>2. QED
        BY <4>1 DEF FleetRecord, ManifestEntry
    <3>2. QED
      BY <1>6, <3>1, FleetAssumption DEF Image
  <2>5. FleetTyped'
    BY <1>1, <1>2, <1>3, <1>6, <2>1, <2>3, <2>4 DEF FleetTyped
  <2>6. ManifestIInv'
    <3>1. saved' = Image(fleet, rec)'
      BY <1>2, <1>6 DEF Image
    <3>2. \A h \in known' : fleet'[h] # 0 \/ loading'[h] # Absent \/ h \in atRisk'
      BY <1>1, <1>2, <1>6, <2>3 DEF ManifestIInv, KnownIsHeld, FleetTyped
    <3>3. known' \subseteq Hash
      BY <1>1, <1>6 DEF FleetTyped
    <3>4. QED
      BY <2>4, <3>1, <3>2, <3>3 DEF ManifestIInv, ManifestIsFleet, KnownIsSavedOrAtRisk, KnownIsHeld
  <2>7. /\ \A k \in Goroutine : k # g => call'[k] = call[k]
        /\ call'[g].op = op /\ call'[g].hash = h0 /\ call'[g].m = fleet[h0] /\ call'[g].at = "stop"
        /\ At(h0)' = At(h0) \cup {g} /\ \A h \in Hash : h # h0 => At(h)' = At(h)
    BY <1>1, <1>2, <1>6, CallStarts
  <2>8. ASSUME NEW h \in Hash \ tangled' PROVE Orderly(h)'
    <3>1. CASE h # h0
      <4>1. h \in Hash \ tangled /\ At(h)' = At(h) /\ \A k \in At(h) : call'[k] = call[k]
        BY <1>2, <1>3, <2>7, <3>1 DEF At, Free
      <4>2. QED
        BY <1>2, <2>3, <3>1, <4>1, LeftAloneStaysOrderly
    <3>2. CASE h = h0
      <4>1. Orderly(h) /\ \A k \in At(h) : call[k].op # "move"
        BY <1>1, <1>2, <2>8, <3>2 DEF RunsIInv
      <4>2. \A k \in At(h) : call'[k] = call[k] /\ call[k].m = fleet[h] /\ call[k].op = "stage"
                             /\ call[k].op \in {"remove", "delete", "move", "stage"}
        <5>1. ASSUME NEW k \in At(h) PROVE call'[k] = call[k] /\ call[k].m = fleet[h] /\ call[k].op = "stage"
          <6>1. k # g /\ call'[k] = call[k]
            BY <1>2, <2>7 DEF At, Free
          <6>2. Moves(k) /\ call[k].m = fleet[h]
            BY <1>2, <3>2, <4>1 DEF Orderly, OneRecord
          <6>3. QED
            BY <4>1, <6>1, <6>2 DEF Moves
        <5>2. QED
          BY <5>1
      <4>3. g \notin At(h)
        BY <1>2 DEF At, Free
      <4>4. OneRecord(h)'
        <5>1. ASSUME NEW k \in At(h)', Moves(k)'
              PROVE  k # g /\ k \in At(h) /\ rec'[call'[k].m].staged /\ call'[k].to = rec'[call'[k].m].dir
                     /\ Moves(k) /\ call'[k].op = "stage"
          BY <1>2, <2>7, <3>2, <4>1, <4>2, <5>1 DEF Orderly, OneRecord, Moves
        <5>2. \A k \in At(h)' : call'[k].m = fleet[h]
          BY <2>7, <3>2, <4>2
        <5>3. \A k, l \in At(h)' : Moves(k)' /\ Moves(l)' => k = l
          BY <4>1, <5>1 DEF Orderly, OneRecord
        <5>4. QED
          BY <2>3, <3>2, <5>1, <5>2, <5>3 DEF OneRecord, Moves
      <4>5. IsStopped(h)'
        BY <1>2, <2>7, <3>2, <4>1, <4>2 DEF Orderly, IsStopped, Moves, Target
      <4>6. IsWhole(h)'
        BY <2>3, <3>2 DEF IsWhole
      <4>7. QED
        BY <4>4, <4>5, <4>6 DEF Orderly
    <3>3. QED
      BY <3>1, <3>2
  <2>9. QED
    BY <1>4, <2>1, <2>2, <2>5, <2>6, <2>8 DEF FleetIInv, RunsIInv
<1>7. QED
  BY <1>5, <1>6 DEF FleetRemove

\* A call that goes on, or ends: only itself changes.
LEMMA CallGoesOn ==
    ASSUME FleetTyped, OfItsHash, NEW g \in Goroutine, Calls(g), NEW at \in {"files", "restart"},
           call' = [call EXCEPT ![g] = Free] \/ call' = [call EXCEPT ![g].at = at]
    PROVE  /\ call' \in [Goroutine -> {Free} \cup FleetCall]
           /\ \A k \in Goroutine : k # g => call'[k] = call[k]
           /\ Calls(g)' => /\ call'[g].op = call[g].op /\ call'[g].hash = call[g].hash /\ call'[g].m = call[g].m
                           /\ call'[g].from = call[g].from /\ call'[g].to = call[g].to /\ call'[g].at = at
           /\ \A k \in Goroutine : Calls(k)' => Calls(k)
           /\ \A h : At(h)' = IF Calls(g)' THEN At(h) ELSE At(h) \ {g}
<1>1. call \in [Goroutine -> {Free} \cup FleetCall] /\ call[g] \in FleetCall
  BY CallFacts DEF FleetTyped
<1>2. CASE call' = [call EXCEPT ![g] = Free]
  <2>1. call' \in [Goroutine -> {Free} \cup FleetCall] /\ call'[g] = Free /\ \A k \in Goroutine : k # g => call'[k] = call[k]
    BY <1>1, <1>2
  <2>2. ~Calls(g)' /\ \A k \in Goroutine : Calls(k)' => Calls(k)
    BY <2>1 DEF Calls, Free
  <2>3. QED
    BY <2>1, <2>2 DEF At, Calls
<1>3. CASE call' = [call EXCEPT ![g].at = at]
  <2>1. /\ [call[g] EXCEPT !.at = at] \in FleetCall /\ call' = [call EXCEPT ![g] = [call[g] EXCEPT !.at = at]]
    BY <1>1, <1>3 DEF FleetCall
  <2>2. /\ call' \in [Goroutine -> {Free} \cup FleetCall] /\ \A k \in Goroutine : k # g => call'[k] = call[k]
        /\ call'[g].op = call[g].op /\ call'[g].hash = call[g].hash /\ call'[g].m = call[g].m
        /\ call'[g].from = call[g].from /\ call'[g].to = call[g].to /\ call'[g].at = at
    BY <1>1, <2>1 DEF FleetCall
  <2>3. QED
    BY <2>2 DEF At, Calls
<1>4. QED
  BY <1>2, <1>3

LEMMA StopKeeps ==
    ASSUME FleetIInv, NEW g \in Goroutine, Stop(g)
    PROVE  FleetIInv'
<1>1. FleetTyped /\ OfItsHash /\ LoadingIsApart /\ ManifestIInv /\ RunsIInv
  BY DEF FleetIInv
<1> DEFINE h0 == call[g].hash  i0 == Target(g)
<1>2. /\ Calls(g) /\ call[g].at = "stop"
      /\ tor' = [tor EXCEPT ![i0].phase = "stopped"]
      /\ call' = [call EXCEPT ![g] = Free] \/ call' = [call EXCEPT ![g].at = "files"]
      /\ call[g].op = "remove" => call' = [call EXCEPT ![g] = Free]
      /\ UNCHANGED <<fleet, rec, saved, loading, place, owed, known, atRisk, tangled, behind>>
  BY DEF Stop, Calls, Target, ghosts
<1>3. /\ call[g] \in FleetCall /\ call[g].m \in DOMAIN rec /\ i0 \in DOMAIN tor /\ tor[i0] \in FleetTorrent
      /\ g \in At(h0) /\ h0 \in Hash /\ tor[i0].hash = h0
  BY <1>1, <1>2, CallFacts DEF OfItsHash
<1>4. /\ tor' \in Seq(FleetTorrent) /\ DOMAIN tor' = DOMAIN tor
      /\ \A j \in DOMAIN tor : tor'[j].hash = tor[j].hash /\ tor'[j].dir = tor[j].dir /\ (j # i0 => tor'[j] = tor[j])
      /\ tor'[i0].phase = "stopped"
  <2> DEFINE r == [tor[i0] EXCEPT !.phase = "stopped"]
  <2>1. r \in FleetTorrent /\ r.hash = tor[i0].hash /\ r.dir = tor[i0].dir /\ r.phase = "stopped" /\ tor' = [tor EXCEPT ![i0] = r]
    BY <1>2, <1>3 DEF FleetTorrent
  <2> HIDE DEF r, i0
  <2>2. QED
    BY <1>1, <1>3, <2>1, TorrentChanges
<1> HIDE DEF h0, i0
<1>5. /\ call' \in [Goroutine -> {Free} \cup FleetCall]
      /\ \A k \in Goroutine : k # g => call'[k] = call[k]
      /\ Calls(g)' => /\ call'[g].op = call[g].op /\ call'[g].hash = h0 /\ call'[g].m = call[g].m
                      /\ call'[g].from = call[g].from /\ call'[g].to = call[g].to /\ call'[g].at = "files"
      /\ \A k \in Goroutine : Calls(k)' => Calls(k)
      /\ \A h : At(h)' = IF Calls(g)' THEN At(h) ELSE At(h) \ {g}
  BY <1>1, <1>2, CallGoesOn DEF h0
<1>6. Calls(g)' => call[g].op # "remove"
  <2>1. call[g].op = "remove" => call'[g] = Free
    BY <1>1, <1>2 DEF FleetTyped
  <2>2. QED
    BY <2>1 DEF Calls, Free
<1>7. FleetTyped'
  BY <1>1, <1>2, <1>3, <1>4, <1>5 DEF FleetTyped
<1>8. OfItsHash'
  <2>1. \A h \in Hash : fleet'[h] # 0 => tor'[Current(h)'].hash = h
    BY <1>1, <1>2, <1>4, RecordFacts DEF OfItsHash, Current
  <2>2. ASSUME NEW k \in Goroutine, Calls(k)'
        PROVE  /\ tor'[Target(k)'].hash = call'[k].hash
               /\ Moves(k)' => call'[k].to \in {Final, Other}
               /\ call'[k].op = "remove" => call'[k].at = "stop"
               /\ call'[k].op = "delete" => call'[k].at # "restart"
    <3>1. Calls(k) /\ Target(k) \in DOMAIN tor /\ Target(k)' = Target(k) /\ (Moves(k)' => Moves(k)) /\ call'[k].hash = call[k].hash
      BY <1>1, <1>2, <1>5, <2>2, CallFacts DEF Target, Moves, h0
    <3>2. CASE k = g
      BY <1>1, <1>4, <1>5, <1>6, <2>2, <3>1, <3>2 DEF OfItsHash
    <3>3. CASE k # g
      BY <1>1, <1>4, <1>5, <3>1, <3>3 DEF OfItsHash
    <3>4. QED
      BY <3>2, <3>3
  <2>3. QED
    BY <2>1, <2>2 DEF OfItsHash
<1>9. LoadingIsApart'
  BY <1>1, <1>2, <1>4, <1>5 DEF LoadingIsApart, Busy
<1>10. ManifestIInv'
  BY <1>1, <1>2, ManifestStays DEF Image
<1>11. NoOrphanRuns' /\ SeedsWhatIsThere'
  <2>1. ASSUME NEW i \in DOMAIN tor, Orphan(i)' PROVE Orphan(i)
    <3>1. i # i0 /\ tor'[i] = tor[i]
      BY <1>4, <2>1 DEF Orphan
    <3>2. ~Registered(i)
      BY <1>2, <2>1 DEF Orphan, Registered, Current
    <3>3. ASSUME NEW k \in Goroutine, call[k].op # "idle", call[k].at = "stop", rec[call[k].m].t = i PROVE FALSE
      <4>1. k # g /\ call'[k] = call[k]
        BY <1>5, <3>1, <3>3 DEF i0, Target
      <4>2. QED
        BY <1>2, <2>1, <3>3, <4>1 DEF Orphan
    <3>4. QED
      BY <2>1, <3>1, <3>2, <3>3 DEF Orphan
  <2>2. QED
    BY <1>1, <1>2, <1>4, <2>1 DEF RunsIInv, NoOrphanRuns, SeedsWhatIsThere
<1>12. ASSUME NEW h \in Hash \ tangled PROVE Orderly(h)'
  <2>1. CASE h # h0
    <3>1. g \notin At(h) /\ At(h)' = At(h)
      BY <1>5, <2>1 DEF At, h0
    <3>2. \A k \in At(h) : call'[k] = call[k]
      BY <1>5, <3>1 DEF At
    <3>3. QED
      BY <1>2, <1>3, <1>4, <2>1, <3>1, <3>2, LeftAloneStaysOrderly
  <2>2. CASE h = h0
    <3>1. Orderly(h) /\ g \in At(h)
      BY <1>1, <1>3, <2>2 DEF RunsIInv
    <3>2. ASSUME NEW k \in At(h)'
          PROVE  /\ k \in At(h) /\ call'[k].op = call[k].op /\ call'[k].m = call[k].m /\ call'[k].to = call[k].to
                 /\ call'[k].from = call[k].from /\ (k # g => call'[k].at = call[k].at) /\ (k = g => call'[k].at = "files")
                 /\ Moves(k)' = Moves(k) /\ Target(k)' = Target(k) /\ Target(k) \in DOMAIN tor /\ Target(k) = i0
      <4>1. k \in At(h) /\ k \in Goroutine /\ Calls(k)'
        BY <1>5 DEF At, Calls
      <4>2. call'[k].op = call[k].op /\ call'[k].m = call[k].m /\ call'[k].to = call[k].to
            /\ call'[k].from = call[k].from /\ (k # g => call'[k].at = call[k].at) /\ (k = g => call'[k].at = "files")
        BY <1>5, <4>1
      <4>3. call[k].m = call[g].m
        BY <3>1, <4>1 DEF Orderly, OneRecord
      <4>4. Target(k)' = Target(k) /\ Target(k) = i0
        BY <1>2, <4>2, <4>3 DEF Target, i0
      <4>5. Moves(k)' = Moves(k)
        BY <4>2 DEF Moves
      <4>6. QED
        BY <1>3, <4>1, <4>2, <4>4, <4>5
    <3>3. OneRecord(h)'
      BY <1>2, <3>1, <3>2 DEF Orderly, OneRecord
    <3>4. IsStopped(h)'
      BY <1>2, <1>3, <1>4, <3>1, <3>2 DEF Orderly, IsStopped
    <3>5. IsWhole(h)'
      <4>1. SUFFICES ASSUME fleet[h] # 0 PROVE IsWhole(h)'
        BY <1>2 DEF IsWhole
      <4>2. tor'[Current(h)].dir = tor[Current(h)].dir
        BY <1>1, <1>4, <4>1, RecordFacts
      <4>3. (\A k \in At(h)' : call'[k].at # "restart") => \A k \in At(h) : call[k].at # "restart"
        <5>1. ASSUME NEW k \in At(h), call[k].at = "restart", \A l \in At(h)' : call'[l].at # "restart" PROVE FALSE
          <6>1. k # g /\ k \in At(h)'
            BY <1>2, <1>5, <5>1
          <6>2. QED
            BY <3>2, <5>1, <6>1
        <5>2. QED
          BY <5>1
      <4>4. \A k \in At(h)' : call'[k].at = "restart" => call[k].at = "restart" /\ k \in At(h) /\ call'[k].to = call[k].to
        BY <3>2
      <4>5. QED
        BY <1>2, <3>1, <4>1, <4>2, <4>3, <4>4 DEF Orderly, IsWhole, Current
    <3>6. QED
      BY <3>3, <3>4, <3>5 DEF Orderly
  <2>3. QED
    BY <2>1, <2>2
<1>13. QED
  BY <1>2, <1>7, <1>8, <1>9, <1>10, <1>11, <1>12 DEF FleetIInv, RunsIInv

LEMMA FilesKeeps ==
    ASSUME FleetIInv, NEW g \in Goroutine, Files(g)
    PROVE  FleetIInv'
<1>1. FleetTyped /\ OfItsHash /\ LoadingIsApart /\ ManifestIInv /\ RunsIInv
  BY DEF FleetIInv
<1> DEFINE h0 == call[g].hash  src == call[g].from  dst == call[g].to
<1>2. /\ Calls(g) /\ call[g].at = "files"
      /\ call' = [call EXCEPT ![g] = Free] \/ call' = [call EXCEPT ![g].at = "restart"]
      /\ UNCHANGED <<fleet, rec, tor, saved, loading, owed, known, atRisk, tangled, behind>>
  BY DEF Files, Calls, ghosts
<1>3. /\ call[g] \in FleetCall /\ call[g].m \in DOMAIN rec /\ Target(g) \in DOMAIN tor
      /\ g \in At(h0) /\ h0 \in Hash /\ tor[Target(g)].hash = h0 /\ src \in Dirs
  BY <1>1, <1>2, CallFacts DEF OfItsHash, FleetCall
<1>4. Calls(g)' => Moves(g) /\ dst \in {Final, Other}
  <2>1. call[g].op # "remove" /\ call[g].op \in {"remove", "delete", "move", "stage"}
    BY <1>1, <1>2, <1>3 DEF OfItsHash, FleetCall
  <2>2. call[g].op = "delete" => call'[g] = Free
    BY <1>1 DEF Files, FleetTyped
  <2>3. call[g].op # "delete" => Moves(g) /\ dst \in {Final, Other}
    BY <1>1, <1>2, <2>1 DEF OfItsHash, Moves
  <2>4. QED
    BY <2>2, <2>3 DEF Calls, Free
<1>5. /\ ~Calls(g)' /\ Moves(g) => place' = place
      /\ Calls(g)' => place' = Moved(h0, src, dst)
      /\ ~Moves(g) => place' = [place EXCEPT ![h0][src] = "none"]
  <2>1. call[g].op = "delete" <=> ~Moves(g)
    BY <1>1, <1>2, <1>3 DEF OfItsHash, FleetCall, Moves
  <2>2. /\ call' = [call EXCEPT ![g] = Free] => ~Calls(g)'
        /\ call' = [call EXCEPT ![g].at = "restart"] => Calls(g)'
    BY <1>1, <1>2, <1>3 DEF FleetTyped, Calls, Free, FleetCall
  <2>3. QED
    BY <2>1, <2>2 DEF Files
<1>6. place \in [Hash -> [Dirs -> {"none", "part", "full"}]]
  BY <1>1 DEF FleetTyped
<1> HIDE DEF h0, src, dst
<1>7. /\ place' \in [Hash -> [Dirs -> {"none", "part", "full"}]]
      /\ \A h \in Hash : h # h0 => place'[h] = place[h]
      /\ Calls(g)' => place'[h0][dst] = place[h0][src]
  <2>1. CASE ~Moves(g)
    <3>1. [place[h0] EXCEPT ![src] = "none"] \in [Dirs -> {"none", "part", "full"}]
      BY <1>3, <1>6
    <3>2. place' = [place EXCEPT ![h0] = [place[h0] EXCEPT ![src] = "none"]]
      BY <1>5, <2>1
    <3>3. QED
      BY <1>3, <1>4, <1>6, <2>1, <3>1, <3>2
  <2>2. CASE Calls(g)'
    <3> DEFINE q == [d \in Dirs |-> IF d = dst THEN place[h0][src] ELSE IF d = src THEN "none" ELSE place[h0][d]]
    <3>1. q \in [Dirs -> {"none", "part", "full"}]
      BY <1>3, <1>6
    <3>2. dst \in Dirs
      BY <1>4, <2>2 DEF Dirs
    <3>3. q[dst] = place[h0][src]
      BY <3>2
    <3>4. place' = [place EXCEPT ![h0] = q]
      BY <1>5, <2>2 DEF Moved
    <3> HIDE DEF q
    <3>5. QED
      BY <1>3, <1>6, <3>1, <3>3, <3>4
  <2>3. CASE Moves(g) /\ ~Calls(g)'
    BY <1>5, <1>6, <2>3
  <2>4. QED
    BY <2>1, <2>2, <2>3
<1>8. /\ call' \in [Goroutine -> {Free} \cup FleetCall]
      /\ \A k \in Goroutine : k # g => call'[k] = call[k]
      /\ Calls(g)' => /\ call'[g].op = call[g].op /\ call'[g].hash = h0 /\ call'[g].m = call[g].m
                      /\ call'[g].from = src /\ call'[g].to = dst /\ call'[g].at = "restart"
      /\ \A k \in Goroutine : Calls(k)' => Calls(k)
      /\ \A h : At(h)' = IF Calls(g)' THEN At(h) ELSE At(h) \ {g}
  BY <1>1, <1>2, CallGoesOn DEF h0, src, dst
<1>9. FleetTyped'
  BY <1>1, <1>2, <1>3, <1>7, <1>8 DEF FleetTyped
<1>10. OfItsHash'
  <2>1. \A h \in Hash : fleet'[h] # 0 => tor'[Current(h)'].hash = h
    BY <1>1, <1>2 DEF OfItsHash, Current
  <2>2. ASSUME NEW k \in Goroutine, Calls(k)'
        PROVE  /\ tor'[Target(k)'].hash = call'[k].hash
               /\ Moves(k)' => call'[k].to \in {Final, Other}
               /\ call'[k].op = "remove" => call'[k].at = "stop"
               /\ call'[k].op = "delete" => call'[k].at # "restart"
    <3>1. Calls(k) /\ Target(k)' = Target(k)
      BY <1>2, <1>8, <2>2 DEF Target
    <3>2. CASE k = g
      BY <1>2, <1>3, <1>4, <1>8, <2>2, <3>1, <3>2 DEF Moves
    <3>3. CASE k # g
      BY <1>1, <1>2, <1>8, <3>1, <3>3 DEF OfItsHash, Moves
    <3>4. QED
      BY <3>2, <3>3
  <2>3. QED
    BY <2>1, <2>2 DEF OfItsHash
<1>11. LoadingIsApart'
  BY <1>1, <1>2, <1>8 DEF LoadingIsApart, Busy
<1>12. ManifestIInv'
  BY <1>1, <1>2, ManifestStays DEF Image
<1>13. NoOrphanRuns'
  <2>1. ASSUME NEW i \in DOMAIN tor, Orphan(i)' PROVE Orphan(i)
    <3>1. \A k \in Goroutine : call[k].op # "idle" /\ call[k].at = "stop" => call'[k] = call[k]
      BY <1>2, <1>8
    <3>2. QED
      BY <1>2, <2>1, <3>1 DEF Orphan, Registered, Current
  <2>2. QED
    BY <1>1, <1>2, <2>1 DEF RunsIInv, NoOrphanRuns
<1>14. SeedsWhatIsThere'
  <2>1. ASSUME NEW i \in DOMAIN tor, tor[i].phase = "seeding", tor[i].hash \notin tangled
        PROVE  place'[tor[i].hash][tor[i].dir] = "full"
    <3>1. tor[i].hash \in Hash
      <4>1. tor[i] \in FleetTorrent
        BY <1>1 DEF FleetTyped
      <4>2. QED
        BY <4>1 DEF FleetTorrent
    <3>2. tor[i].hash # h0
      BY <1>2, <1>3, <2>1, <3>1, RunningIsCurrent
    <3>3. QED
      BY <1>1, <1>7, <2>1, <3>1, <3>2 DEF RunsIInv, SeedsWhatIsThere
  <2>2. QED
    BY <1>2, <2>1 DEF SeedsWhatIsThere
<1>15. ASSUME NEW h \in Hash \ tangled PROVE Orderly(h)'
  <2>1. CASE h # h0
    <3>1. g \notin At(h) /\ At(h)' = At(h)
      BY <1>8, <2>1 DEF At, h0
    <3>2. \A k \in At(h) : call'[k] = call[k]
      BY <1>8, <3>1 DEF At
    <3>3. QED
      BY <1>2, <1>7, <2>1, <3>1, <3>2, LeftAloneStaysOrderly
  <2>2. CASE h = h0
    <3>1. Orderly(h) /\ g \in At(h)
      BY <1>1, <1>3, <2>2 DEF RunsIInv
    <3>2. ASSUME NEW k \in At(h)'
          PROVE  /\ k \in At(h) /\ call'[k].op = call[k].op /\ call'[k].m = call[k].m /\ call'[k].to = call[k].to
                 /\ call'[k].from = call[k].from /\ (k # g => call'[k].at = call[k].at) /\ (k = g => call'[k].at = "restart")
                 /\ Moves(k)' = Moves(k) /\ Target(k)' = Target(k)
      <4>1. k \in At(h) /\ k \in Goroutine /\ Calls(k)'
        BY <1>8 DEF At, Calls
      <4>2. call'[k].op = call[k].op /\ call'[k].m = call[k].m /\ call'[k].to = call[k].to
            /\ call'[k].from = call[k].from /\ (k # g => call'[k].at = call[k].at) /\ (k = g => call'[k].at = "restart")
        BY <1>8, <4>1 DEF src, dst
      <4>3. Target(k)' = Target(k)
        BY <1>2, <4>2 DEF Target
      <4>4. Moves(k)' = Moves(k)
        BY <4>2 DEF Moves
      <4>5. QED
        BY <4>1, <4>2, <4>3, <4>4
    <3>3. OneRecord(h)'
      BY <1>2, <3>1, <3>2 DEF Orderly, OneRecord
    <3>4. tor[Target(g)].phase = "stopped" /\ (Moves(g) => src = tor[Target(g)].dir)
      BY <1>2, <3>1 DEF Orderly, IsStopped, src
    <3>5. IsStopped(h)'
      BY <1>2, <3>1, <3>2, <3>4 DEF Orderly, IsStopped
    <3>6. IsWhole(h)'
      <4>1. SUFFICES ASSUME fleet[h] # 0 PROVE IsWhole(h)'
        BY <1>2 DEF IsWhole
      <4>2. At(h) = {g} /\ Moves(g) /\ fleet[h] = call[g].m
        BY <3>1, <4>1 DEF Orderly, OneRecord
      <4>3. Target(g) = Current(h)
        BY <4>2 DEF Target, Current
      <4>4. <<"hook", h>> \in owed => place[h][tor[Current(h)].dir] = "full"
        BY <1>2, <3>1, <4>1, <4>2 DEF Orderly, IsWhole
      <4>5. CASE Calls(g)'
        <5>1. At(h)' = {g} /\ call'[g].at = "restart" /\ call'[g].to = dst
          BY <1>8, <4>2, <4>5
        <5>2. <<"hook", h>> \in owed => place'[h][dst] = "full"
          BY <1>7, <2>2, <3>4, <4>2, <4>3, <4>4, <4>5
        <5>3. QED
          BY <1>2, <3>1, <4>1, <5>1, <5>2 DEF Orderly, IsWhole, Current
      <4>6. CASE ~Calls(g)'
        <5>1. At(h)' = {} /\ place' = place
          BY <1>5, <1>8, <4>2, <4>6
        <5>2. QED
          BY <1>2, <3>1, <4>1, <4>4, <5>1 DEF Orderly, IsWhole, Current
      <4>7. QED
        BY <4>5, <4>6
    <3>7. QED
      BY <3>3, <3>5, <3>6 DEF Orderly
  <2>3. QED
    BY <2>1, <2>2
<1>16. QED
  BY <1>2, <1>9, <1>10, <1>11, <1>12, <1>13, <1>14, <1>15 DEF FleetIInv, RunsIInv

\* An entry of the fleet is in what is saved.
LEMMA ImageOfTheFleet ==
    ASSUME FleetTyped', NEW h \in Hash
    PROVE  /\ fleet'[h] # 0 => Image(fleet, rec)'[h] \in ManifestEntry /\ Image(fleet, rec)'[h] # Absent
           /\ fleet'[h] = 0 => Image(fleet, rec)'[h] = Absent
<1>1. ASSUME fleet'[h] # 0
      PROVE  [dir |-> rec'[fleet'[h]].dir, staged |-> rec'[fleet'[h]].staged, completed |-> rec'[fleet'[h]].completed] \in ManifestEntry
  <2>1. rec'[fleet'[h]] \in FleetRecord
    BY <1>1 DEF FleetTyped
  <2>2. QED
    BY <2>1 DEF FleetRecord, ManifestEntry
<1>2. QED
  BY <1>1, FleetAssumption DEF Image

LEMMA RestartKeeps ==
    ASSUME FleetIInv, NEW g \in Goroutine, Restart(g)
    PROVE  FleetIInv'
<1>1. FleetTyped /\ OfItsHash /\ LoadingIsApart /\ ManifestIInv /\ RunsIInv
  BY DEF FleetIInv
<1> DEFINE h0 == call[g].hash  dst == call[g].to  m0 == Looked(call[g])  i0 == Len(tor) + 1
<1>2. /\ Calls(g) /\ call[g].at = "restart" /\ call' = [call EXCEPT ![g] = Free]
      /\ UNCHANGED <<fleet, loading, place, owed, known, atRisk, tangled>>
  BY DEF Restart, Calls, ghosts
<1>3. /\ call[g] \in FleetCall /\ call[g].m \in DOMAIN rec /\ Target(g) \in DOMAIN tor
      /\ g \in At(h0) /\ h0 \in Hash /\ tor[Target(g)].hash = h0
  BY <1>1, <1>2, CallFacts DEF OfItsHash
<1>4. Moves(g) /\ dst \in {Final, Other} /\ dst \in Dirs
  BY <1>1, <1>2, <1>3 DEF OfItsHash, FleetCall, Moves, Dirs
<1>5. /\ call' \in [Goroutine -> {Free} \cup FleetCall]
      /\ \A k \in Goroutine : k # g => call'[k] = call[k]
      /\ \A k \in Goroutine : Calls(k)' => Calls(k) /\ k # g
      /\ \A h : At(h)' = At(h) \ {g}
  <2>1. call'[g] = Free
    BY <1>1, <1>2 DEF FleetTyped
  <2>2. ~Calls(g)'
    BY <2>1 DEF Calls, Free
  <2>3. QED
    BY <1>1, <1>2, <2>2, CallGoesOn
<1>6. loading[h0] = Absent
  BY <1>1, <1>3 DEF LoadingIsApart, Busy
<1>7. m0 # 0 => m0 \in DOMAIN rec /\ rec[m0] \in FleetRecord /\ rec[m0].t \in DOMAIN tor /\ tor[rec[m0].t].hash = h0
  <2>1. CASE call[g].op = "move"
    BY <1>1, <1>3, <2>1 DEF Looked, Target, FleetTyped
  <2>2. CASE call[g].op # "move"
    BY <1>1, <1>3, <2>2, RecordFacts DEF Looked, OfItsHash, Current
  <2>3. QED
    BY <2>1, <2>2
<1>8. /\ m0 = 0 => UNCHANGED <<rec, tor, saved, behind>>
      /\ m0 # 0 => \E r \in FleetRecord, ph \in {"new", "running"} :
            /\ rec' = [rec EXCEPT ![m0] = r] /\ r.t = i0
            /\ call[g].op = "move" => r.dir = dst
            /\ call[g].op = "stage" => r.dir = rec[m0].dir
            /\ tor' = Append(tor, [hash |-> h0, dir |-> dst, phase |-> ph])
            /\ \/ saved' = Image(fleet, rec)' /\ behind' = FALSE
               \/ UNCHANGED saved /\ behind' = TRUE
  <2>1. CASE m0 = 0
    BY <2>1 DEF Restart
  <2>2. CASE m0 # 0 /\ call[g].op = "move"
    <3> DEFINE r == [[rec[m0] EXCEPT !.t = i0] EXCEPT !.dir = dst]
    <3>1. r \in FleetRecord /\ r.t = i0 /\ r.dir = dst
      <4>1. i0 \in Nat
        BY <1>1, LenProperties DEF FleetTyped
      <4>2. QED
        BY <1>4, <1>7, <2>2, <4>1 DEF FleetRecord
    <3>2. /\ rec' = [rec EXCEPT ![m0].t = i0, ![m0].dir = dst]
          /\ SaveOr(fleet, rec')
          /\ tor' = Append(tor, [hash |-> h0, dir |-> dst, phase |-> IF behind' THEN "new" ELSE "running"])
      BY <2>2 DEF Restart
    <3>3. rec' = [rec EXCEPT ![m0] = r]
      BY <1>1, <1>7, <2>2, <3>2 DEF FleetTyped, FleetRecord
    <3>4. \E ph \in {"new", "running"} : tor' = Append(tor, [hash |-> h0, dir |-> dst, phase |-> ph])
      BY <3>2
    <3>5. Image(fleet, rec') = Image(fleet, rec)'
      BY <1>2 DEF Image
    <3> HIDE DEF r, m0, i0, dst, h0
    <3>6. QED
      BY <1>2, <2>2, <3>1, <3>2, <3>3, <3>4, <3>5 DEF SaveOr
  <2>3. CASE m0 # 0 /\ call[g].op # "move"
    <3> DEFINE r == Unstaged([rec[m0] EXCEPT !.t = i0])
    <3>1. r \in FleetRecord /\ r.t = i0 /\ r.dir = rec[m0].dir
      <4>1. i0 \in Nat
        BY <1>1, LenProperties DEF FleetTyped
      <4>2. QED
        BY <1>7, <2>3, <4>1 DEF FleetRecord, Unstaged
    <3>2. /\ rec' = [rec EXCEPT ![m0] = r]
          /\ SaveOr(fleet, rec')
          /\ tor' = Append(tor, [hash |-> h0, dir |-> dst, phase |-> "running"])
      BY <2>3 DEF Restart
    <3>3. Image(fleet, rec') = Image(fleet, rec)'
      BY <1>2 DEF Image
    <3> HIDE DEF r, m0, i0, dst, h0
    <3>4. QED
      BY <1>2, <2>3, <3>1, <3>2, <3>3 DEF SaveOr
  <2>4. QED
    BY <2>1, <2>2, <2>3
<1> HIDE DEF h0, dst, m0, i0
<1>9. ASSUME NEW h \in Hash \ tangled, h = h0, fleet[h] # 0
      PROVE  /\ Orderly(h) /\ At(h) = {g} /\ call[g].m = fleet[h] /\ m0 = fleet[h]
             /\ call[g].op = "stage" => dst = rec[m0].dir
  <2>1. Orderly(h) /\ g \in At(h)
    BY <1>1, <1>3, <1>9 DEF RunsIInv
  <2>2. call[g].m = fleet[h]
    BY <1>4, <1>9, <2>1 DEF Orderly, OneRecord
  <2>3. m0 = fleet[h]
    BY <1>9, <2>2 DEF m0, Looked, h0
  <2>4. At(h) = {g}
    BY <1>4, <1>9, <2>1 DEF Orderly, OneRecord
  <2>5. QED
    BY <2>1, <2>2, <2>3, <2>4 DEF Orderly, OneRecord, dst
<1>10. ASSUME NEW h \in Hash \ tangled, h # h0,
              \A i \in DOMAIN tor : i \in DOMAIN tor' /\ tor'[i] = tor[i],
              \A m \in DOMAIN rec : m = m0 \/ rec'[m] = rec[m], m0 = 0 => UNCHANGED rec
       PROVE  Orderly(h)'
  <2>1. At(h)' = At(h) /\ \A k \in At(h) : call'[k] = call[k]
    BY <1>5, <1>10 DEF At, h0
  <2>2. \A m \in DOMAIN rec : tor[rec[m].t].hash = h => rec'[m] = rec[m]
    BY <1>7, <1>10
  <2>3. QED
    BY <1>2, <1>10, <2>1, <2>2, LeftAloneStaysOrderly
<1>11. CASE m0 = 0
  <2>1. UNCHANGED <<rec, tor, saved, behind>>
    BY <1>8, <1>11
  <2>2. FleetTyped'
    BY <1>1, <1>2, <1>5, <2>1 DEF FleetTyped
  <2>3. \A k \in Goroutine : Calls(k)' => call'[k] = call[k] /\ Target(k)' = Target(k) /\ Moves(k)' = Moves(k)
    BY <1>5, <2>1 DEF Target, Moves
  <2>4. OfItsHash'
    BY <1>1, <1>2, <1>5, <2>1, <2>3 DEF OfItsHash, Current
  <2>5. LoadingIsApart'
    BY <1>1, <1>2, <1>5, <2>1 DEF LoadingIsApart, Busy
  <2>6. ManifestIInv'
    BY <1>1, <1>2, <2>1, ManifestStays DEF Image
  <2>7. NoOrphanRuns' /\ SeedsWhatIsThere'
    <3>1. \A k \in Goroutine : call[k].op # "idle" /\ call[k].at = "stop" => call'[k] = call[k]
      BY <1>2, <1>5
    <3>2. \A i \in DOMAIN tor : Orphan(i)' => Orphan(i)
      BY <1>2, <2>1, <3>1 DEF Orphan, Registered, Current
    <3>3. QED
      BY <1>1, <1>2, <2>1, <3>2 DEF RunsIInv, NoOrphanRuns, SeedsWhatIsThere
  <2>8. ASSUME NEW h \in Hash \ tangled PROVE Orderly(h)'
    <3>1. CASE h # h0
      BY <1>10, <2>1, <3>1
    <3>2. CASE h = h0
      <4>1. fleet[h] = 0
        BY <1>9, <1>11, <3>2
      <4>2. Orderly(h)
        BY <1>1 DEF RunsIInv
      <4>3. \A k \in At(h)' : k \in At(h) /\ call'[k] = call[k] /\ Target(k)' = Target(k) /\ Moves(k)' = Moves(k)
        BY <1>5, <2>1 DEF At, Target, Moves
      <4>4. OneRecord(h)' /\ IsStopped(h)'
        BY <1>2, <2>1, <4>2, <4>3 DEF Orderly, OneRecord, IsStopped
      <4>5. QED
        BY <1>2, <4>1, <4>4 DEF Orderly, IsWhole
    <3>3. QED
      BY <3>1, <3>2
  <2>9. QED
    BY <1>2, <2>2, <2>4, <2>5, <2>6, <2>7, <2>8 DEF FleetIInv, RunsIInv
<1>12. CASE m0 # 0
  <2>1. PICK r \in FleetRecord, ph \in {"new", "running"} :
            /\ rec' = [rec EXCEPT ![m0] = r] /\ r.t = i0
            /\ call[g].op = "move" => r.dir = dst
            /\ call[g].op = "stage" => r.dir = rec[m0].dir
            /\ tor' = Append(tor, [hash |-> h0, dir |-> dst, phase |-> ph])
            /\ \/ saved' = Image(fleet, rec)' /\ behind' = FALSE
               \/ UNCHANGED saved /\ behind' = TRUE
    BY <1>8, <1>12
  <2>2. /\ rec' \in Seq(FleetRecord) /\ DOMAIN rec' = DOMAIN rec
        /\ \A m \in DOMAIN rec : rec'[m] = IF m = m0 THEN r ELSE rec[m]
    BY <1>1, <1>7, <1>12, <2>1, RecordChanges
  <2>3. /\ tor' \in Seq(FleetTorrent) /\ DOMAIN tor' = DOMAIN tor \cup {i0} /\ i0 \notin DOMAIN tor
        /\ \A j \in DOMAIN tor : tor'[j] = tor[j]
        /\ tor'[i0].hash = h0 /\ tor'[i0].dir = dst /\ tor'[i0].phase = ph
    <3>1. [hash |-> h0, dir |-> dst, phase |-> ph] \in FleetTorrent
      BY <1>3, <1>4 DEF FleetTorrent
    <3>2. QED
      BY <1>1, <2>1, <3>1, TorrentAdded DEF i0
  <2>4. /\ \A h \in Hash : fleet[h] # 0 => fleet[h] \in DOMAIN rec /\ tor[Current(h)].hash = h
               /\ Current(h)' = IF fleet[h] = m0 THEN i0 ELSE Current(h)
        /\ \A k \in Goroutine : Calls(k)' => call[k].m \in DOMAIN rec /\ Target(k) \in DOMAIN tor
               /\ tor[Target(k)].hash = call[k].hash /\ Target(k)' = IF call[k].m = m0 THEN i0 ELSE Target(k)
    <3>1. ASSUME NEW h \in Hash, fleet[h] # 0
          PROVE  fleet[h] \in DOMAIN rec /\ tor[Current(h)].hash = h /\ Current(h)' = IF fleet[h] = m0 THEN i0 ELSE Current(h)
      BY <1>1, <1>2, <2>1, <2>2, <3>1, RecordFacts DEF OfItsHash, Current
    <3>2. ASSUME NEW k \in Goroutine, Calls(k)'
          PROVE  call[k].m \in DOMAIN rec /\ Target(k) \in DOMAIN tor
               /\ tor[Target(k)].hash = call[k].hash /\ Target(k)' = IF call[k].m = m0 THEN i0 ELSE Target(k)
      <4>1. Calls(k) /\ call'[k] = call[k]
        BY <1>5, <3>2
      <4>2. QED
        BY <1>1, <2>1, <2>2, <4>1, CallFacts DEF OfItsHash, Target
    <3>3. QED
      BY <3>1, <3>2
  <2>5. \A h \in Hash : fleet[h] = m0 => h = h0
    BY <1>7, <1>12, <2>4 DEF Current
  <2>6. FleetTyped'
    <3>1. \A m \in DOMAIN rec' : rec'[m].t \in DOMAIN tor'
      BY <1>1, <2>1, <2>2, <2>3 DEF FleetTyped
    <3>2. Image(fleet, rec)' \in [Hash -> ManifestEntry \cup {Absent}]
      <4>1. ASSUME NEW h \in Hash, fleet[h] # 0
            PROVE [dir |-> rec'[fleet[h]].dir, staged |-> rec'[fleet[h]].staged, completed |-> rec'[fleet[h]].completed] \in ManifestEntry
        <5>1. rec'[fleet[h]] \in FleetRecord
          BY <2>2, <2>4, <4>1
        <5>2. QED
          BY <5>1 DEF FleetRecord, ManifestEntry
      <4>2. QED
        BY <1>2, <4>1 DEF Image
    <3>3. \A k \in Goroutine : Calls(k)' => call'[k].m \in DOMAIN rec'
      BY <1>5, <2>2, <2>4
    <3>4. saved' \in [Hash -> ManifestEntry \cup {Absent}] /\ behind' \in BOOLEAN
      BY <1>1, <2>1, <3>2 DEF FleetTyped
    <3>5. QED
      BY <1>1, <1>2, <1>5, <2>2, <2>3, <3>1, <3>3, <3>4 DEF FleetTyped
  <2>7. OfItsHash'
    <3>1. \A h \in Hash : fleet'[h] # 0 => tor'[Current(h)'].hash = h
      <4>1. ASSUME NEW h \in Hash, fleet[h] # 0 PROVE tor'[Current(h)'].hash = h
        <5>1. Current(h) \in DOMAIN tor
          BY <1>1, <4>1, RecordFacts
        <5>2. QED
          BY <2>3, <2>4, <2>5, <4>1, <5>1
      <4>2. QED
        BY <1>2, <4>1
    <3>2. ASSUME NEW k \in Goroutine, Calls(k)'
          PROVE  /\ tor'[Target(k)'].hash = call'[k].hash
                 /\ Moves(k)' => call'[k].to \in {Final, Other}
                 /\ call'[k].op = "remove" => call'[k].at = "stop"
                 /\ call'[k].op = "delete" => call'[k].at # "restart"
      <4>1. Calls(k) /\ call'[k] = call[k]
        BY <1>5, <3>2
      <4>2. call[k].m = m0 => call[k].hash = h0
        BY <1>7, <1>12, <2>4, <3>2 DEF Target
      <4>3. tor'[Target(k)'].hash = call[k].hash
        BY <2>3, <2>4, <3>2, <4>2
      <4>4. QED
        BY <1>1, <4>1, <4>3 DEF OfItsHash, Moves
    <3>3. QED
      BY <3>1, <3>2 DEF OfItsHash
  <2>8. LoadingIsApart'
    BY <1>1, <1>2, <1>5, <1>6, <2>3 DEF LoadingIsApart, Busy
  <2>9. ManifestIInv'
    <3>1. known \subseteq Hash
      BY <1>1 DEF FleetTyped
    <3>2. \A h \in Hash : fleet'[h] # 0 => Image(fleet, rec)'[h] # Absent
      BY <2>6, ImageOfTheFleet
    <3>3. QED
      BY <1>1, <1>2, <2>1, <3>1, <3>2 DEF ManifestIInv, ManifestIsFleet, KnownIsSavedOrAtRisk, KnownIsHeld, Loaded
  <2>10. \A i \in DOMAIN tor : tor[i].hash = h0 /\ h0 \notin tangled => tor[i].phase \notin {"running", "seeding"}
    BY <1>2, <1>3, RunningIsCurrent
  <2>11. SeedsWhatIsThere'
    BY <1>1, <1>2, <2>3 DEF RunsIInv, SeedsWhatIsThere
  <2>12. NoOrphanRuns'
    <3>1. SUFFICES ASSUME NEW i \in DOMAIN tor', Orphan(i)', tor'[i].hash \notin tangled PROVE FALSE
      BY <1>2 DEF NoOrphanRuns
    <3>2. CASE i = i0
      <4>1. h0 \in Hash \ tangled /\ fleet[h0] # 0 => Registered(i)'
        BY <1>2, <1>9, <2>4, <3>2 DEF Registered
      <4>2. h0 \in Hash \ tangled
        BY <1>3, <2>3, <3>1, <3>2
      <4>3. fleet[h0] # 0
        <5>1. CASE call[g].op = "move"
          <6>1. fleet[h0] = call[g].m
            BY <1>1, <1>3, <4>2, <5>1 DEF RunsIInv, Orderly, OneRecord
          <6>2. QED
            BY <1>12, <5>1, <6>1 DEF m0, Looked
        <5>2. CASE call[g].op # "move"
          BY <1>12, <5>2 DEF m0, Looked, h0
        <5>3. QED
          BY <5>1, <5>2
      <4>4. QED
        BY <3>1, <4>1, <4>2, <4>3 DEF Orphan
    <3>3. CASE i \in DOMAIN tor
      <4>1. tor'[i] = tor[i] /\ tor[i].phase \in {"running", "seeding"}
        BY <2>3, <3>1, <3>3 DEF Orphan
      <4>2. tor[i].hash # h0 /\ tor[i].hash \notin tangled
        BY <2>10, <3>1, <3>3, <4>1
      <4>3. ~Orphan(i)
        BY <1>1, <3>3, <4>2 DEF RunsIInv, NoOrphanRuns
      <4>4. Registered(i) => Registered(i)'
        BY <1>2, <2>4, <2>5, <4>2 DEF Registered
      <4>5. ASSUME NEW k \in Goroutine, call[k].op # "idle", call[k].at = "stop", rec[call[k].m].t = i
            PROVE  call'[k].op # "idle" /\ call'[k].at = "stop" /\ rec'[call'[k].m].t = i
        <5>1. k # g /\ call'[k] = call[k] /\ Calls(k)'
          BY <1>2, <1>5, <4>5 DEF Calls
        <5>2. call[k].m # m0
          BY <1>7, <1>12, <4>2, <4>5
        <5>3. QED
          BY <2>2, <2>4, <4>5, <5>1, <5>2
      <4>6. QED
        BY <3>1, <4>1, <4>3, <4>4, <4>5 DEF Orphan
    <3>4. QED
      BY <2>3, <3>2, <3>3
  <2>13. ASSUME NEW h \in Hash \ tangled PROVE Orderly(h)'
    <3>1. CASE h # h0
      BY <1>10, <1>12, <2>2, <2>3, <3>1
    <3>2. CASE h = h0 /\ fleet[h] # 0
      <4>1. At(h)' = {} /\ g \in At(h)
        BY <1>5, <1>9, <3>2
      <4>2. OneRecord(h)' /\ IsStopped(h)'
        BY <4>1 DEF OneRecord, IsStopped
      <4>3. fleet'[h] = m0 /\ rec'[m0] = r /\ Current(h)' = i0 /\ tor'[i0].dir = dst /\ r.dir = dst
        BY <1>2, <1>4, <1>7, <1>9, <1>12, <2>1, <2>2, <2>3, <2>4, <3>2 DEF Moves
      <4>4. <<"hook", h>> \in owed => place[h][dst] = "full"
        BY <1>2, <1>9, <3>2 DEF Orderly, IsWhole, dst
      <4>5. IsWhole(h)'
        BY <1>2, <4>1, <4>3, <4>4 DEF IsWhole
      <4>6. QED
        BY <4>2, <4>5 DEF Orderly
    <3>3. CASE h = h0 /\ fleet[h] = 0
      <4>1. Orderly(h) /\ g \in At(h)
        BY <1>1, <1>3, <3>3 DEF RunsIInv
      <4>2. call[g].op = "move"
        BY <1>12, <3>3 DEF m0, Looked, h0
      <4>3. fleet[h] = call[g].m
        BY <4>1, <4>2 DEF Orderly, OneRecord
      <4>4. m0 = call[g].m
        BY <4>2 DEF m0, Looked
      <4>5. QED
        BY <1>12, <3>3, <4>3, <4>4
    <3>4. QED
      BY <3>1, <3>2, <3>3
  <2>14. QED
    BY <1>2, <2>6, <2>7, <2>8, <2>9, <2>11, <2>12, <2>13 DEF FleetIInv, RunsIInv
<1>13. QED
  BY <1>11, <1>12

\* A torrent that the fleet does not have and nothing is under way on is added.
LEMMA AddedKeeps ==
    ASSUME FleetIInv, NEW h0 \in Hash, NEW dir \in {Final, Other}, NEW staged \in BOOLEAN, NEW completed \in BOOLEAN,
           fleet[h0] = 0,
           rec' = Append(rec, [t |-> Len(tor) + 1, dir |-> dir, staged |-> staged, completed |-> completed, hooked |-> FALSE]),
           fleet' = [fleet EXCEPT ![h0] = Len(rec')],
           tor' = Append(tor, [hash |-> h0, dir |-> Operational(dir, staged), phase |-> "running"]),
           saved' = Image(fleet', rec'), behind' = FALSE,
           UNCHANGED <<place, call, owed, atRisk>>,
           tangled \subseteq tangled', tangled' \subseteq Hash, h0 \notin tangled' => ~Busy(h0),
           loading' = [loading EXCEPT ![h0] = Absent], known' \subseteq known \cup {h0}
    PROVE  FleetIInv'
<1>1. FleetTyped /\ OfItsHash /\ LoadingIsApart /\ ManifestIInv /\ RunsIInv
  BY DEF FleetIInv
<1> DEFINE i0 == Len(tor) + 1  m0 == Len(rec) + 1
           r == [t |-> i0, dir |-> dir, staged |-> staged, completed |-> completed, hooked |-> FALSE]
           n == [hash |-> h0, dir |-> Operational(dir, staged), phase |-> "running"]
<1>2. n \in FleetTorrent /\ (~staged => n.dir = dir)
  BY DEF FleetTorrent, Operational, Dirs
<1>3. /\ tor' \in Seq(FleetTorrent) /\ DOMAIN tor' = DOMAIN tor \cup {i0}
      /\ i0 \notin DOMAIN tor /\ i0 \in Nat
      /\ \A j \in DOMAIN tor : tor'[j] = tor[j]
      /\ tor'[i0] = n
  BY <1>1, <1>2, TorrentAdded
<1>4. r \in FleetRecord /\ rec \in Seq(FleetRecord)
  BY <1>1, <1>3 DEF FleetRecord, FleetTyped
<1>5. /\ rec' \in Seq(FleetRecord) /\ DOMAIN rec' = DOMAIN rec \cup {m0} /\ m0 \notin DOMAIN rec
      /\ m0 \in Nat /\ m0 # 0 /\ Len(rec') = m0
      /\ \A m \in DOMAIN rec : rec'[m] = rec[m]
      /\ rec'[m0] = r
  <2>1. rec' = Append(rec, r)
    OBVIOUS
  <2> HIDE DEF r
  <2>2. /\ Append(rec, r) \in Seq(FleetRecord) /\ DOMAIN Append(rec, r) = DOMAIN rec \cup {m0} /\ m0 \notin DOMAIN rec
        /\ \A j \in DOMAIN rec : Append(rec, r)[j] = rec[j]
        /\ Append(rec, r)[m0] = r /\ Len(Append(rec, r)) = m0 /\ Len(rec) \in Nat
    BY <1>4, Appended
  <2>3. QED
    BY <2>1, <2>2
<1>6. /\ r.t = i0 /\ r.dir = dir /\ r.staged = staged /\ n.hash = h0 /\ n.phase = "running"
  OBVIOUS
<1> HIDE DEF i0, m0, r, n
<1>7. /\ fleet' \in [Hash -> Nat] /\ fleet'[h0] = m0 /\ \A h \in Hash : h # h0 => fleet'[h] = fleet[h]
  BY <1>1, <1>5 DEF FleetTyped
<1>8. /\ loading' \in [Hash -> ManifestEntry \cup {Absent}] /\ loading'[h0] = Absent
      /\ \A h \in Hash : h # h0 => loading'[h] = loading[h]
  BY <1>1 DEF FleetTyped
<1>9. /\ Current(h0)' = i0
      /\ \A h \in Hash : h # h0 /\ fleet[h] # 0 => Current(h)' = Current(h) /\ Current(h) \in DOMAIN tor /\ fleet[h] \in DOMAIN rec
  BY <1>1, <1>5, <1>6, <1>7, RecordFacts DEF Current
<1>10. \A k \in Goroutine : Calls(k) => Target(k)' = Target(k) /\ Target(k) \in DOMAIN tor /\ call[k].m \in DOMAIN rec
  BY <1>1, <1>5, CallFacts DEF Target
<1>11. FleetTyped'
  <2>1. ASSUME NEW h \in Hash, fleet'[h] # 0
        PROVE  fleet'[h] \in DOMAIN rec' /\ rec'[fleet'[h]] \in FleetRecord
    BY <1>1, <1>4, <1>5, <1>7, <2>1, RecordFacts
  <2>2. \A h \in Hash : fleet'[h] # 0 =>
            [dir |-> rec'[fleet'[h]].dir, staged |-> rec'[fleet'[h]].staged, completed |-> rec'[fleet'[h]].completed] \in ManifestEntry
    BY <2>1 DEF FleetRecord, ManifestEntry
  <2>3. saved' \in [Hash -> ManifestEntry \cup {Absent}]
    BY <2>2 DEF Image
  <2>4. \A m \in DOMAIN rec' : rec'[m].t \in DOMAIN tor'
    BY <1>1, <1>3, <1>5, <1>6 DEF FleetTyped
  <2>5. /\ call' \in [Goroutine -> {Free} \cup FleetCall] /\ \A k \in Goroutine : Calls(k)' => call'[k].m \in DOMAIN rec'
        /\ place' \in [Hash -> [Dirs -> {"none", "part", "full"}]] /\ owed' \subseteq {"stage", "hook", "done"} \X Hash
        /\ known' \subseteq Hash /\ atRisk' \subseteq Hash
    BY <1>1, <1>5 DEF FleetTyped, Calls
  <2>6. QED
    BY <1>3, <1>5, <1>7, <1>8, <2>1, <2>3, <2>4, <2>5 DEF FleetTyped
<1>12. OfItsHash'
  <2>1. \A h \in Hash : fleet'[h] # 0 => tor'[Current(h)'].hash = h
    BY <1>1, <1>3, <1>6, <1>7, <1>9 DEF OfItsHash
  <2>2. ASSUME NEW k \in Goroutine, Calls(k)'
        PROVE  /\ tor'[Target(k)'].hash = call'[k].hash
               /\ Moves(k)' => call'[k].to \in {Final, Other}
               /\ call'[k].op = "remove" => call'[k].at = "stop"
               /\ call'[k].op = "delete" => call'[k].at # "restart"
    <3>1. Calls(k) /\ call'[k] = call[k] /\ (Moves(k)' <=> Moves(k))
      BY <2>2 DEF Calls, Moves
    <3>2. QED
      BY <1>1, <1>3, <1>10, <3>1 DEF OfItsHash
  <2>3. QED
    BY <2>1, <2>2 DEF OfItsHash
<1>13. LoadingIsApart'
  BY <1>1, <1>3, <1>6, <1>7, <1>8 DEF LoadingIsApart, Busy, At
<1>14. ManifestIInv'
  <2>1. saved' = Image(fleet, rec)'
    BY DEF Image
  <2>2. \A h \in Hash : fleet'[h] # 0 => saved'[h] # Absent
    <3>1. \A h \in Hash : fleet'[h] # 0 => Image(fleet, rec)'[h] # Absent
      BY <1>11, ImageOfTheFleet
    <3>2. QED
      BY <2>1, <3>1
  <2>3. \A h \in known' : h \in Hash /\ (fleet'[h] # 0 \/ loading'[h] # Absent \/ h \in atRisk')
    BY <1>1, <1>5, <1>7, <1>8 DEF ManifestIInv, KnownIsHeld, FleetTyped
  <2>4. QED
    BY <2>1, <2>2, <2>3 DEF ManifestIInv, ManifestIsFleet, KnownIsSavedOrAtRisk, KnownIsHeld
<1>15. SeedsWhatIsThere'
  BY <1>1, <1>3, <1>6 DEF RunsIInv, SeedsWhatIsThere
<1>16. NoOrphanRuns'
  <2>1. SUFFICES ASSUME NEW i \in DOMAIN tor', Orphan(i)', tor'[i].hash \notin tangled' PROVE FALSE
    BY DEF NoOrphanRuns
  <2>2. i # i0
    BY <1>5, <1>7, <1>9, <2>1 DEF Orphan, Registered
  <2>3. i \in DOMAIN tor /\ tor'[i] = tor[i] /\ tor[i].hash \notin tangled
    BY <1>3, <2>1, <2>2
  <2>4. ~Registered(i)
    BY <1>7, <1>9, <2>1 DEF Orphan, Registered
  <2>5. \A k \in Goroutine : call[k].op # "idle" => rec'[call'[k].m].t = rec[call[k].m].t
    BY <1>10 DEF Calls, Target
  <2>6. Orphan(i)
    BY <2>1, <2>3, <2>4, <2>5 DEF Orphan
  <2>7. QED
    BY <1>1, <2>3, <2>6 DEF RunsIInv, NoOrphanRuns
<1>17. ASSUME NEW h \in Hash \ tangled' PROVE Orderly(h)'
  <2>1. CASE h # h0
    <3>1. At(h)' = At(h) /\ \A k \in At(h) : call'[k] = call[k]
      BY DEF At
    <3>2. QED
      BY <1>3, <1>5, <1>7, <2>1, <3>1, LeftAloneStaysOrderly
  <2>2. CASE h = h0
    <3>1. At(h)' = {} /\ <<"hook", h>> \notin owed'
      BY <1>17, <2>2 DEF Busy, At
    <3>2. OneRecord(h)' /\ IsStopped(h)'
      BY <3>1 DEF OneRecord, IsStopped
    <3>3. IsWhole(h)'
      BY <1>2, <1>3, <1>5, <1>6, <1>7, <1>9, <2>2, <3>1 DEF IsWhole
    <3>4. QED
      BY <3>2, <3>3 DEF Orderly
  <2>3. QED
    BY <2>1, <2>2
<1>18. QED
  BY <1>11, <1>12, <1>13, <1>14, <1>15, <1>16, <1>17 DEF FleetIInv, RunsIInv

\* It could not be added.
LEMMA SkippedKeeps ==
    ASSUME FleetIInv, NEW h0 \in Hash, UNCHANGED <<fleet, rec, tor, saved, behind, place, call, owed, known>>,
           tangled \subseteq tangled', tangled' \subseteq Hash,
           \/ UNCHANGED <<loading, atRisk>>
           \/ loading' = [loading EXCEPT ![h0] = Absent] /\ atRisk' = atRisk \cup {h0}
    PROVE  FleetIInv'
<1>1. FleetTyped /\ OfItsHash /\ LoadingIsApart /\ ManifestIInv /\ RunsIInv
  BY DEF FleetIInv
<1>2. /\ loading' \in [Hash -> ManifestEntry \cup {Absent}] /\ atRisk' \subseteq Hash
      /\ \A h \in Hash : loading'[h] = loading[h] \/ (loading'[h] = Absent /\ h \in atRisk')
      /\ atRisk \subseteq atRisk' /\ (atRisk' = {} => UNCHANGED <<loading, atRisk>>)
  BY <1>1 DEF FleetTyped
<1>3. FleetTyped' /\ OfItsHash'
  BY <1>1, <1>2 DEF FleetTyped, OfItsHash, Calls, Moves, Target, Current
<1>4. LoadingIsApart'
  BY <1>1, <1>2 DEF LoadingIsApart, Busy, At
<1>5. ManifestIInv'
  <2>1. ManifestIsFleet'
    BY <1>1, <1>2 DEF ManifestIInv, ManifestIsFleet, Loaded, Image
  <2>2. KnownIsSavedOrAtRisk' /\ KnownIsHeld'
    BY <1>1, <1>2 DEF ManifestIInv, KnownIsSavedOrAtRisk, KnownIsHeld, FleetTyped
  <2>3. QED
    BY <2>1, <2>2 DEF ManifestIInv
<1>6. NoOrphanRuns' /\ SeedsWhatIsThere'
  BY <1>1 DEF RunsIInv, NoOrphanRuns, Orphan, Registered, Current, SeedsWhatIsThere
<1>7. ASSUME NEW h \in Hash \ tangled' PROVE Orderly(h)'
  BY LeftAloneStaysOrderly DEF At
<1>8. QED
  BY <1>3, <1>4, <1>5, <1>6, <1>7 DEF FleetIInv, RunsIInv

LEMMA AddKeeps ==
    ASSUME FleetIInv, NEW h0 \in Hash, FleetAdd(h0)
    PROVE  FleetIInv'
<1>1. /\ Loaded /\ Added(h0, Final, TRUE, FALSE)
      /\ known' = IF fleet'[h0] # 0 THEN known \cup {h0} ELSE known
      /\ tangled' = IF Busy(h0) THEN tangled \cup {h0} ELSE tangled
      /\ UNCHANGED <<loading, place, call, owed, atRisk>>
  BY DEF FleetAdd, Tangles
<1>2. FleetTyped /\ fleet[h0] = 0
  BY <1>1 DEF FleetIInv, Added
<1>3. tangled \subseteq tangled' /\ tangled' \subseteq Hash /\ (h0 \notin tangled' => ~Busy(h0)) /\ known' \subseteq known \cup {h0}
  BY <1>1, <1>2 DEF FleetTyped
<1>4. CASE UNCHANGED <<fleet, rec, tor, saved, behind>>
  BY <1>1, <1>2, <1>3, <1>4, SkippedKeeps
<1>5. CASE ~UNCHANGED <<fleet, rec, tor, saved, behind>>
  <2>1. loading' = [loading EXCEPT ![h0] = Absent]
    BY <1>1, <1>2 DEF FleetTyped, Loaded
  <2>2. /\ rec' = Append(rec, [t |-> Len(tor) + 1, dir |-> Final, staged |-> TRUE, completed |-> FALSE, hooked |-> FALSE])
        /\ fleet' = [fleet EXCEPT ![h0] = Len(rec')]
        /\ tor' = Append(tor, [hash |-> h0, dir |-> Operational(Final, TRUE), phase |-> "running"])
        /\ saved' = Image(fleet', rec') /\ behind' = FALSE
    BY <1>1, <1>5 DEF Added
  <2>3. QED
    BY <1>1, <1>2, <1>3, <2>1, <2>2, AddedKeeps
<1>6. QED
  BY <1>4, <1>5

LEMMA LoadKeeps ==
    ASSUME FleetIInv, NEW h0 \in Hash, LoadOne(h0)
    PROVE  FleetIInv'
<1> DEFINE e == loading[h0]
<1>1. /\ e # Absent
      /\ Added(h0, e.dir, e.staged, e.completed) \/ UNCHANGED <<fleet, rec, tor, saved, behind>>
      /\ loading' = [loading EXCEPT ![h0] = Absent]
      /\ atRisk' = IF fleet'[h0] = 0 THEN atRisk \cup {h0} ELSE atRisk
      /\ UNCHANGED <<place, call, owed, known, tangled>>
  BY DEF LoadOne
<1>2. FleetTyped /\ fleet[h0] = 0 /\ ~Busy(h0)
  BY <1>1 DEF FleetIInv, LoadingIsApart
<1>3. e.dir \in {Final, Other} /\ e.staged \in BOOLEAN /\ e.completed \in BOOLEAN
  BY <1>1, <1>2 DEF FleetTyped, ManifestEntry
<1>4. tangled' \subseteq Hash
  BY <1>1, <1>2 DEF FleetTyped
<1> HIDE DEF e
<1>5. CASE UNCHANGED <<fleet, rec, tor, saved, behind>>
  BY <1>1, <1>2, <1>4, <1>5, SkippedKeeps
<1>6. CASE ~UNCHANGED <<fleet, rec, tor, saved, behind>>
  <2>1. /\ rec' = Append(rec, [t |-> Len(tor) + 1, dir |-> e.dir, staged |-> e.staged, completed |-> e.completed, hooked |-> FALSE])
        /\ fleet' = [fleet EXCEPT ![h0] = Len(rec')]
        /\ tor' = Append(tor, [hash |-> h0, dir |-> Operational(e.dir, e.staged), phase |-> "running"])
        /\ saved' = Image(fleet', rec') /\ behind' = FALSE
    BY <1>1, <1>6 DEF Added
  <2>2. fleet'[h0] # 0
    <3>1. Len(rec') = Len(rec) + 1 /\ Len(rec) \in Nat
      <4>1. rec \in Seq(FleetRecord)
        BY <1>2 DEF FleetTyped
      <4>2. [t |-> Len(tor) + 1, dir |-> e.dir, staged |-> e.staged, completed |-> e.completed, hooked |-> FALSE] \in FleetRecord
        BY <1>2, <1>3, LenProperties DEF FleetTyped, FleetRecord
      <4>3. QED
        BY <2>1, <4>1, <4>2, Appended
    <3>2. QED
      BY <1>2, <2>1, <3>1 DEF FleetTyped
  <2>3. UNCHANGED atRisk /\ tangled \subseteq tangled' /\ known' \subseteq known \cup {h0}
    BY <1>1, <2>2
  <2>4. QED
    BY <1>1, <1>2, <1>3, <1>4, <2>1, <2>3, AddedKeeps
<1>7. QED
  BY <1>5, <1>6

LEMMA CrashKeeps ==
    ASSUME FleetIInv, CrashEngine
    PROVE  FleetIInv'
<1>1. FleetTyped /\ ManifestIInv
  BY DEF FleetIInv
<1>2. /\ fleet' = [h \in Hash |-> 0] /\ rec' = <<>> /\ tor' = <<>>
      /\ loading' = saved
      /\ call' = [g \in Goroutine |-> Free] /\ owed' = {} /\ behind' = FALSE /\ tangled' = {}
      /\ atRisk' = atRisk \cup {h \in Hash : loading[h] # Absent}
      /\ UNCHANGED <<saved, place, known>>
  BY DEF CrashEngine
<1>3. FleetTyped'
  <2>1. rec' \in Seq(FleetRecord) /\ tor' \in Seq(FleetTorrent) /\ DOMAIN rec' = {}
    BY <1>2
  <2>2. call' \in [Goroutine -> {Free} \cup FleetCall] /\ \A g \in Goroutine : ~Calls(g)'
    BY <1>2 DEF Free, Calls
  <2>3. /\ place' \in [Hash -> [Dirs -> {"none", "part", "full"}]] /\ known' \subseteq Hash /\ atRisk' \subseteq Hash
        /\ saved' \in [Hash -> ManifestEntry \cup {Absent}] /\ loading' \in [Hash -> ManifestEntry \cup {Absent}]
    BY <1>1, <1>2 DEF FleetTyped
  <2>4. QED
    BY <1>2, <2>1, <2>2, <2>3 DEF FleetTyped
<1>4. OfItsHash' /\ LoadingIsApart'
  BY <1>2 DEF OfItsHash, Free, Calls, LoadingIsApart, Busy, At
<1>5. ManifestIInv'
  <2>1. ManifestIsFleet'
    BY <1>1, <1>2 DEF ManifestIsFleet, Loaded, Image, FleetTyped
  <2>2. KnownIsSavedOrAtRisk' /\ KnownIsHeld'
    BY <1>1, <1>2 DEF ManifestIInv, KnownIsSavedOrAtRisk, KnownIsHeld, FleetTyped
  <2>3. QED
    BY <2>1, <2>2 DEF ManifestIInv
<1>6. \A h \in Hash : Orderly(h)'
  BY <1>2 DEF Orderly, OneRecord, IsStopped, IsWhole, At, Free
<1>7. NoOrphanRuns' /\ SeedsWhatIsThere'
  BY <1>2 DEF NoOrphanRuns, SeedsWhatIsThere
<1>8. QED
  BY <1>3, <1>4, <1>5, <1>6, <1>7 DEF FleetIInv, RunsIInv

LEMMA FleetKept == FleetIInv /\ [FleetNext]_fleetVars => FleetIInv'
<1> SUFFICES ASSUME FleetIInv, [FleetNext]_fleetVars PROVE FleetIInv'
  OBVIOUS
<1>1. ASSUME NEW h \in Hash, FleetAdd(h) \/ LoadOne(h) \/ Callback(h) PROVE FleetIInv'
  <2>1. CASE FleetAdd(h)
    BY <2>1, AddKeeps
  <2>2. CASE LoadOne(h)
    BY <2>2, LoadKeeps
  <2>3. CASE Callback(h)
    BY <2>3, CallbackKeeps, UnstagingKeeps DEF Callback
  <2>4. QED
    BY <1>1, <2>1, <2>2, <2>3
<1>2. ASSUME NEW h \in Hash, NEW g \in Goroutine,
             MoveData(g, h) \/ \E op \in {"remove", "delete"} : FleetRemove(g, h, op)
      PROVE  FleetIInv'
  BY <1>2, MoveDataKeeps, RemoveKeeps
<1>3. ASSUME NEW g \in Goroutine, CallStep(g) PROVE FleetIInv'
  BY <1>3, StopKeeps, FilesKeeps, RestartKeeps DEF CallStep
<1>4. ASSUME NEW i \in DOMAIN tor, Allocates(i) \/ Downloads(i) \/ Completes(i) \/ Revisits(i) PROVE FleetIInv'
  BY <1>4, ContentGrows, CompletionKeeps
<1>5. CASE CrashEngine
  BY <1>5, CrashKeeps
<1>6. CASE UNCHANGED fleetVars
  <2>1. UNCHANGED <<fleet, rec, tor, saved, loading, place, call, owed, known, atRisk, behind, tangled>>
    BY <1>6 DEF fleetVars
  <2>2. FleetTyped' /\ OfItsHash' /\ LoadingIsApart'
    BY <2>1 DEF FleetIInv, FleetTyped, OfItsHash, LoadingIsApart, Busy, At, Calls, Moves, Target, Current
  <2>3. ManifestIInv'
    BY <2>1, ManifestStays DEF FleetIInv, Image
  <2>4. NoOrphanRuns' /\ SeedsWhatIsThere'
    BY <2>1 DEF FleetIInv, RunsIInv, NoOrphanRuns, Orphan, Registered, Current, SeedsWhatIsThere
  <2>5. ASSUME NEW h \in Hash \ tangled' PROVE Orderly(h)'
    BY <2>1, LeftAloneStaysOrderly DEF At
  <2>6. QED
    BY <2>2, <2>3, <2>4, <2>5 DEF FleetIInv, RunsIInv
<1>7. QED
  BY <1>1, <1>2, <1>3, <1>4, <1>5, <1>6 DEF FleetNext

\* Only the hook itself marks a record that stays in the fleet.
LEMMA OnlyHookMarks ==
    ASSUME FleetIInv, [FleetNext]_fleetVars, NEW h \in Hash, fleet[h] # 0, fleet'[h] = fleet[h],
           \A h0 \in Hash : ~Hook(h0)
    PROVE  rec'[fleet[h]].hooked = rec[fleet[h]].hooked
<1> DEFINE m == fleet[h]
<1>1. FleetTyped /\ OfItsHash /\ m \in DOMAIN rec /\ rec[m] \in FleetRecord /\ rec \in Seq(FleetRecord)
  BY RecordFacts DEF FleetIInv, FleetTyped
<1> HIDE DEF m
<1>2. ASSUME NEW r, rec' = Append(rec, r) PROVE rec'[m] = rec[m]
  BY <1>1, <1>2, AppendProperties, LenProperties
<1>3. ASSUME NEW h0 \in Hash, FleetAdd(h0) \/ LoadOne(h0) PROVE rec'[m] = rec[m]
  <2>1. \/ UNCHANGED rec
        \/ \E r : rec' = Append(rec, r)
    BY <1>3 DEF FleetAdd, LoadOne, Added
  <2>2. QED
    BY <1>2, <2>1
<1>4. ASSUME NEW h0 \in Hash, RecordCompleted(h0) PROVE rec'[m].hooked = rec[m].hooked
  BY <1>1, <1>4, RecordFacts DEF RecordCompleted, FleetRecord
<1>5. ASSUME NEW g \in Goroutine, Restart(g) PROVE rec'[m].hooked = rec[m].hooked
  <2> DEFINE m1 == Looked(call[g])
  <2>1. \/ UNCHANGED rec
        \/ rec' = [rec EXCEPT ![m1].t = Len(tor) + 1, ![m1].dir = call[g].to]
        \/ rec' = [rec EXCEPT ![m1] = Unstaged([@ EXCEPT !.t = Len(tor) + 1])]
    BY <1>5 DEF Restart
  <2> HIDE DEF m1
  <2>2. CASE rec' = [rec EXCEPT ![m1].t = Len(tor) + 1, ![m1].dir = call[g].to]
    BY <1>1, <2>2 DEF FleetRecord
  <2>3. CASE rec' = [rec EXCEPT ![m1] = Unstaged([@ EXCEPT !.t = Len(tor) + 1])]
    BY <1>1, <2>3 DEF FleetRecord, Unstaged
  <2>4. QED
    BY <2>1, <2>2, <2>3
<1>6. CASE CrashEngine
  BY <1>6 DEF CrashEngine
<1>7. CASE UNCHANGED rec
  BY <1>7
<1>8. QED
  <2>1. \/ \E h0 \in Hash : FleetAdd(h0) \/ LoadOne(h0) \/ RecordCompleted(h0)
        \/ \E g \in Goroutine : Restart(g)
        \/ CrashEngine
        \/ UNCHANGED rec
    BY DEF FleetNext, Callback, CallStep, fleetVars, MaybeMoveFromIncompleteDir, MoveData, FleetRemove, Stop, Files,
           Allocates, Downloads, Completes, Revisits, Seeding
  <2>2. QED
    BY <1>3, <1>4, <1>5, <1>6, <1>7, <2>1 DEF m

LEMMA HookFinds ==
    ASSUME FleetIInv, [FleetNext]_fleetVars, NEW h \in Hash, fleet[h] # 0, fleet'[h] = fleet[h], h \notin tangled,
           ~rec[fleet[h]].hooked, rec'[fleet[h]].hooked
    PROVE  place[h][rec[fleet[h]].dir] = "full" \/ \E g \in At(h) : call[g].op = "move"
<1>1. FleetTyped /\ OfItsHash /\ Orderly(h)
  BY DEF FleetIInv, RunsIInv
<1>2. PICK h0 \in Hash : Hook(h0)
  BY OnlyHookMarks
<1>3. fleet[h] \in DOMAIN rec /\ rec[fleet[h]] \in FleetRecord
  BY <1>1, RecordFacts
<1>4. fleet[h0] # 0 /\ ~rec[fleet[h0]].staged /\ fleet[h] = fleet[h0] /\ <<"hook", h0>> \in owed
  BY <1>1, <1>2, <1>3, RecordFacts DEF Hook, FleetTyped, FleetRecord
<1>5. h = h0
  BY <1>1, <1>4 DEF OfItsHash, Current
<1>6. tor[Current(h)].dir = rec[fleet[h]].dir
  BY <1>1, <1>4, <1>5 DEF Orderly, IsWhole
<1>7. CASE \A g \in At(h) : call[g].at # "restart"
  BY <1>1, <1>4, <1>5, <1>6, <1>7 DEF Orderly, IsWhole
<1>8. ASSUME NEW g \in At(h), call[g].at = "restart" PROVE call[g].op = "move"
  <2>1. Moves(g) /\ (call[g].op = "stage" => rec[call[g].m].staged)
    BY <1>1, <1>4, <1>5 DEF Orderly, OneRecord
  <2>2. fleet[h] = call[g].m
    BY <1>1, <1>4, <1>5, <2>1 DEF Orderly, OneRecord
  <2>3. QED
    BY <1>4, <1>5, <2>1, <2>2 DEF Moves
<1>9. QED
  BY <1>7, <1>8

LEMMA FleetTypes == FleetIInv => FleetTypeOK
<1> SUFFICES ASSUME FleetTyped PROVE FleetTypeOK
  BY DEF FleetIInv
<1>1. \A h \in Hash : fleet[h] \in 0..Len(rec)
  <2>1. rec \in Seq(FleetRecord) /\ \A h \in Hash : fleet[h] # 0 => fleet[h] \in DOMAIN rec
    BY DEF FleetTyped
  <2>2. DOMAIN rec = 1..Len(rec) /\ Len(rec) \in Nat
    BY <2>1, LenProperties
  <2>3. QED
    BY <2>1, <2>2
<1>2. \A m \in DOMAIN rec : rec[m].t \in DOMAIN tor /\ rec[m].dir \in {Final, Other}
  <2>1. \A m \in DOMAIN rec : rec[m] \in FleetRecord
    BY DEF FleetTyped
  <2>2. QED
    BY <2>1 DEF FleetTyped, FleetRecord
<1>3. \A i \in DOMAIN tor : tor[i].hash \in Hash /\ tor[i].phase \in {"new", "running", "seeding", "stopped"}
  <2>1. \A i \in DOMAIN tor : tor[i] \in FleetTorrent
    BY DEF FleetTyped
  <2>2. QED
    BY <2>1 DEF FleetTorrent
<1>4. \A g \in Goroutine : call[g] # Free => call[g].at \in {"stop", "files", "restart"} /\ call[g].m \in DOMAIN rec
  BY CallFacts DEF FleetCall
<1>5. QED
  BY <1>1, <1>2, <1>3, <1>4 DEF FleetTyped, FleetTypeOK

(***************************************************************************)
(* The manifest is the fleet, but for a move whose save failed; a torrent  *)
(* that was added and not removed is in it or was being loaded when a      *)
(* process ended; nothing runs that the fleet does not have; what seeds    *)
(* has its content where it says, and the completion hook finds it there:  *)
(* Add, Load, Remove, MoveData, the move out of the staging directory and  *)
(* the callbacks of completion in any order, with failures and crashes.    *)
(***************************************************************************)
THEOREM FleetIsKept == FleetSpec => FleetHolds
<1>1. FleetIInv => FleetTypeOK /\ ManifestIsFleet /\ KnownIsSavedOrAtRisk /\ NoOrphanRuns /\ SeedsWhatIsThere
  BY FleetTypes DEF FleetIInv, ManifestIInv, RunsIInv
<1>2. FleetIInv /\ [FleetNext]_fleetVars =>
        [\A h \in Hash : fleet[h] # 0 /\ fleet'[h] = fleet[h] /\ h \notin tangled
            /\ ~rec[fleet[h]].hooked /\ rec'[fleet[h]].hooked
            => place[h][rec[fleet[h]].dir] = "full" \/ \E g \in At(h) : call[g].op = "move"]_fleetVars
  BY HookFinds
<1>3. QED
  BY FleetInitially, FleetKept, <1>1, <1>2, PTL DEF FleetSpec, FleetHolds, HookFindsContent
=============================================================================
