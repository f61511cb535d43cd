------------------------------ MODULE Shutdown ------------------------------
(***************************************************************************)
(* How a torrent ends (torrent/torrent.go Run and Stop, torrent/run.go,    *)
(* peer/peer.go Close and Run): the actor's loop, the goroutines it        *)
(* starts and waits for (t.wg), the callers that speak to it over          *)
(* t.control and t.events, and the three signals t.ctx, t.done and the     *)
(* close of the storage.                                                   *)
(*                                                                         *)
(* Whoever sends to the actor selects between the send and a signal that   *)
(* it has gone: its goroutines watch t.ctx, everybody else t.done, which   *)
(* is closed only when Run returns.                                        *)
(***************************************************************************)
EXTENDS Naturals, Sequences

CONSTANTS Conn,        \* inbound connections
          Verifier,    \* verifyPiece goroutines
          Caller,      \* goroutines calling the torrent's methods
          WebSeed,     \* those of them that are the torrent's own web seed loops
          Stopper,     \* callers of Stop
          RunQueueLength  \* cap(t.events)

ASSUME ShutdownAssumption == WebSeed \subseteq Caller /\ RunQueueLength \in Nat \ {0}

VARIABLES stage,     \* where Run is
          cancelled, \* t.ctx is done
          storage,   \* t.storage
          runEvents,    \* t.events
          conn,      \* each connection and its pump goroutine
          client,    \* each connection's peer.Client.Run
          runPeers,     \* t.peers
          verifier, call, stop

shutdownVars == <<stage, cancelled, storage, runEvents, conn, client, runPeers, verifier, call, stop>>
actor == <<stage, storage, runPeers>>
others == <<verifier, call, stop>>

Stage == {"fresh", "running", "exited", "waiting", "closing", "done"}
RunEvent == [kind : {"incoming", "failed", "connected", "block", "gone"}, of : Conn]
         \cup [kind : {"verified"}, of : Verifier]

Done == stage = "done"     \* t.done is closed

\* A send on t.events blocks while it is full.
RunSend(kind, who) ==
    /\ Len(runEvents) < RunQueueLength
    /\ runEvents' = Append(runEvents, [kind |-> kind, of |-> who])

\* sendEvent.
SendEvent(kind, who) == RunSend(kind, who) \/ (cancelled /\ UNCHANGED runEvents)

-----------------------------------------------------------------------------
(* The torrent's goroutines: all but peer.Client.Run are in t.wg *)

\* verifyPiece: hashing reads the storage, then the result is reported.
Hashed(v) ==
    /\ verifier[v] = "hashing" /\ verifier' = [verifier EXCEPT ![v] = "reporting"]
    /\ UNCHANGED <<actor, cancelled, runEvents, conn, client, call, stop>>
Report(v) ==
    /\ verifier[v] = "reporting" /\ verifier' = [verifier EXCEPT ![v] = "ended"]
    /\ SendEvent("verified", v)
    /\ UNCHANGED <<actor, cancelled, conn, client, call, stop>>

\* acceptAndPump and registerAndPump: the handshake fails, or the client runs,
\* or the context is found done and the client closed unreported.
HandshakeFails(c) ==
    /\ conn[c] = "shaking" /\ conn' = [conn EXCEPT ![c] = "closed"]
    /\ SendEvent("failed", c)
    /\ UNCHANGED <<actor, cancelled, client, others>>
AttemptConnects(c) ==
    /\ conn[c] = "shaking"
    /\ \/ /\ RunSend("connected", c)
          /\ conn' = [conn EXCEPT ![c] = "pumping"]
          /\ client' = [client EXCEPT ![c] = "serving"]
       \/ /\ cancelled /\ conn' = [conn EXCEPT ![c] = "closed"]
          /\ UNCHANGED <<runEvents, client>>
    /\ UNCHANGED <<actor, cancelled, others>>
Relay(c) ==
    /\ conn[c] = "pumping" /\ client[c] = "serving" /\ RunSend("block", c)
    /\ UNCHANGED <<actor, cancelled, conn, client, others>>
PumpCloses(c) ==
    /\ conn[c] = "pumping" /\ client[c] = "serving" /\ cancelled
    /\ client' = [client EXCEPT ![c] = "closing"]
    /\ UNCHANGED <<actor, cancelled, runEvents, conn, others>>

\* peer.Client: the remote closes, and Run, which serves reads of the storage,
\* returns and closes the channels the pump drains.
RemoteHangsUp(c) ==
    /\ client[c] = "serving" /\ client' = [client EXCEPT ![c] = "closing"]
    /\ UNCHANGED <<actor, cancelled, runEvents, conn, others>>
ClientEnds(c) ==
    /\ client[c] = "closing" /\ client' = [client EXCEPT ![c] = "ended"]
    /\ UNCHANGED <<actor, cancelled, runEvents, conn, others>>

\* Drained: the pump reports the end and is gone.
RelayEnds(c) ==
    /\ conn[c] = "pumping" /\ client[c] = "ended"
    /\ conn' = [conn EXCEPT ![c] = "closed"]
    /\ SendEvent("gone", c)
    /\ UNCHANGED <<actor, cancelled, client, others>>

\* webSeedLoop looks at its context, then fetches a piece; a failed fetch is
\* tried again, and the loop ends when it finds the context done, before the
\* fetch or because of it.
SeedFetches(a) ==
    /\ a \in WebSeed /\ call[a] = "idle" /\ ~cancelled /\ storage # "none"
    /\ call' = [call EXCEPT ![a] = "fetching"]
    /\ UNCHANGED <<actor, cancelled, runEvents, conn, client, verifier, stop>>
FetchFails(a) ==
    /\ call[a] = "fetching" /\ ~cancelled
    /\ call' = [call EXCEPT ![a] = "idle"]
    /\ UNCHANGED <<actor, cancelled, runEvents, conn, client, verifier, stop>>
SeedEnds(a) ==
    /\ a \in WebSeed /\ call[a] \in {"idle", "fetching"} /\ cancelled
    /\ call' = [call EXCEPT ![a] = "ended"]
    /\ UNCHANGED <<actor, cancelled, runEvents, conn, client, verifier, stop>>

\* What t.wg.Wait waits for.  Mutant: verifications are not counted.
WaitedForPeers ==
    /\ \A c \in Conn : conn[c] \notin {"shaking", "pumping"}
    /\ \A a \in WebSeed : call[a] = "ended"
Waited ==
    /\ \A v \in Verifier : verifier[v] \notin {"hashing", "reporting"}
    /\ \A c \in Conn : conn[c] \notin {"shaking", "pumping"}
    /\ \A a \in WebSeed : call[a] = "ended"

-----------------------------------------------------------------------------
(* Callers *)

\* sendControl, ApplyExternalPiece, ...: a control message, answered by the
\* actor or given up when t.done is closed.  A web seed loop calls with what it
\* has fetched; its context may have ended meanwhile.
Call(a) ==
    /\ call[a] = IF a \in WebSeed THEN "fetching" ELSE "idle"
    /\ call' = [call EXCEPT ![a] = "sending"]
    /\ UNCHANGED <<actor, cancelled, runEvents, conn, client, verifier, stop>>
Refused(a) ==
    /\ call[a] = "sending" /\ Done
    /\ call' = [call EXCEPT ![a] = "idle"]
    /\ UNCHANGED <<actor, cancelled, runEvents, conn, client, verifier, stop>>

\* AcceptPeer: into the queue, or closed once t.done is closed.
Offer(c) ==
    /\ conn[c] = "away" /\ conn' = [conn EXCEPT ![c] = "offered"]
    /\ UNCHANGED <<actor, cancelled, runEvents, client, others>>
AcceptPeer(c) ==
    /\ conn[c] = "offered"
    /\ \/ RunSend("incoming", c) /\ conn' = [conn EXCEPT ![c] = "queued"]
       \/ Done /\ conn' = [conn EXCEPT ![c] = "closed"] /\ UNCHANGED runEvents
    /\ UNCHANGED <<actor, cancelled, client, others>>

Stop(k) ==
    /\ stop[k] = "idle" /\ stop' = [stop EXCEPT ![k] = "waiting"]
    /\ cancelled' = TRUE
    /\ UNCHANGED <<actor, runEvents, conn, client, verifier, call>>
StopReturned(k) ==
    /\ stop[k] = "waiting" /\ Done /\ stop' = [stop EXCEPT ![k] = "returned"]
    /\ UNCHANGED <<actor, cancelled, runEvents, conn, client, verifier, call>>

-----------------------------------------------------------------------------
(* Run *)

StartVerifier ==
    \E v \in Verifier :
        verifier[v] = "idle" /\ verifier' = [verifier EXCEPT ![v] = "hashing"]

\* openMetadata fails (or is interrupted) and Run returns, or the loop begins.
Start ==
    /\ stage = "fresh"
    /\ \/ stage' = "running" /\ storage' = "open"
       \/ stage' = "done" /\ UNCHANGED storage
    /\ UNCHANGED <<cancelled, runEvents, conn, client, runPeers, others>>

\* An ApplyExternalPiece starts a verification, other calls change no goroutine.
HandleControl(a) ==
    /\ stage = "running" /\ call[a] = "sending"
    /\ call' = [call EXCEPT ![a] = "idle"]
    /\ StartVerifier \/ UNCHANGED verifier
    /\ UNCHANGED <<actor, cancelled, runEvents, conn, client, stop>>

Take(kind, who) ==
    /\ stage = "running" /\ runEvents # <<>>
    /\ Head(runEvents) = [kind |-> kind, of |-> who]
    /\ runEvents' = Tail(runEvents)
    /\ UNCHANGED <<stage, cancelled, storage>>

\* acceptIncoming: turned down (filter, duplicate, cap) or handed to a goroutine.
AcceptIncoming(c) ==
    /\ Take("incoming", c) /\ conn[c] = "queued"
    /\ \E to \in {"shaking", "closed"} : conn' = [conn EXCEPT ![c] = to]
    /\ UNCHANGED <<client, runPeers, others>>
RunRegisterPeer(c) ==
    /\ Take("connected", c) /\ runPeers' = runPeers \cup {c}
    /\ UNCHANGED <<conn, client, others>>
RunRemovePeer(c) ==
    /\ Take("gone", c) /\ runPeers' = runPeers \ {c}
    /\ UNCHANGED <<conn, client, others>>
OnBlock(c) ==
    /\ Take("block", c)
    /\ StartVerifier \/ UNCHANGED verifier
    /\ UNCHANGED <<conn, client, runPeers, call, stop>>
Settle ==
    /\ \/ \E c \in Conn : Take("failed", c)
       \/ \E v \in Verifier : Take("verified", v)
    /\ UNCHANGED <<conn, client, runPeers, others>>
HandleEvent ==
    \/ \E c \in Conn : AcceptIncoming(c) \/ RunRegisterPeer(c) \/ RunRemovePeer(c) \/ OnBlock(c)
    \/ Settle

\* The loop sees the context done: at once, or after more of what is ready.
Exit ==
    /\ stage = "running" /\ cancelled /\ stage' = "exited"
    /\ UNCHANGED <<cancelled, storage, runEvents, conn, client, runPeers, others>>

\* shutdownPeers, then the last checkpoint and announce.
RunShutdownPeers ==
    /\ stage = "exited" /\ stage' = "waiting"
    /\ client' = [c \in Conn |->
                     IF c \in runPeers /\ client[c] = "serving" THEN "closing" ELSE client[c]]
    /\ runPeers' = {}
    /\ UNCHANGED <<cancelled, storage, runEvents, conn, others>>

CloseStorage ==
    /\ stage = "waiting" /\ Waited
    /\ stage' = "closing" /\ storage' = "closed"
    /\ UNCHANGED <<cancelled, runEvents, conn, client, runPeers, others>>

RunReturns ==
    /\ stage = "closing" /\ stage' = "done"
    /\ UNCHANGED <<cancelled, storage, runEvents, conn, client, runPeers, others>>

ShutdownInit ==
    /\ stage = "fresh" /\ cancelled = FALSE /\ storage = "none"
    /\ runEvents = <<>> /\ runPeers = {}
    /\ conn = [c \in Conn |-> "away"] /\ client = [c \in Conn |-> "none"]
    /\ verifier = [v \in Verifier |-> "idle"]
    /\ call = [a \in Caller |-> "idle"]
    /\ stop = [k \in Stopper |-> "idle"]

ShutdownNext ==
    \/ Start \/ HandleEvent \/ Exit \/ RunShutdownPeers \/ CloseStorage \/ RunReturns
    \/ \E v \in Verifier : Hashed(v) \/ Report(v)
    \/ \E c \in Conn :
          \/ Offer(c) \/ AcceptPeer(c) \/ HandshakeFails(c) \/ AttemptConnects(c) \/ Relay(c)
          \/ PumpCloses(c) \/ RemoteHangsUp(c) \/ ClientEnds(c) \/ RelayEnds(c)
    \/ \E a \in Caller : Call(a) \/ Refused(a) \/ HandleControl(a) \/ SeedFetches(a) \/ FetchFails(a) \/ SeedEnds(a)
    \/ \E k \in Stopper : Stop(k) \/ StopReturned(k)

ShutdownSpec == ShutdownInit /\ [][ShutdownNext]_shutdownVars

(***************************************************************************)
(* Every goroutine is scheduled; handshakes have timeouts; a blocked       *)
(* sender gets its turn at a channel (they queue); and the actor's select, *)
(* which picks at random, neglects no ready case for ever.  Nothing        *)
(* obliges anybody to call, to connect, to send or to stop.                *)
(***************************************************************************)
RunFairness ==
    /\ WF_shutdownVars(Start) /\ WF_shutdownVars(HandleEvent)
    /\ WF_shutdownVars(Exit) /\ WF_shutdownVars(RunShutdownPeers) /\ WF_shutdownVars(CloseStorage) /\ WF_shutdownVars(RunReturns)
    /\ \A v \in Verifier : WF_shutdownVars(Hashed(v)) /\ SF_shutdownVars(Report(v))
    /\ \A c \in Conn :
          /\ SF_shutdownVars(AcceptPeer(c) \/ HandshakeFails(c) \/ AttemptConnects(c) \/ RelayEnds(c))
          /\ WF_shutdownVars(PumpCloses(c)) /\ WF_shutdownVars(ClientEnds(c))
    /\ \A a \in Caller : WF_shutdownVars(Refused(a)) /\ WF_shutdownVars(HandleControl(a))
    /\ \A a \in WebSeed : SF_shutdownVars(SeedEnds(a))
    /\ \A k \in Stopper : WF_shutdownVars(StopReturned(k))

ShutdownLiveSpec == ShutdownSpec /\ RunFairness

-----------------------------------------------------------------------------
ShutdownTypeOK ==
    /\ stage \in Stage /\ cancelled \in BOOLEAN /\ storage \in {"none", "open", "closed"}
    /\ runEvents \in Seq(RunEvent) /\ Len(runEvents) <= RunQueueLength
    /\ conn \in [Conn -> {"away", "offered", "queued", "shaking", "pumping", "closed"}]
    /\ client \in [Conn -> {"none", "serving", "closing", "ended"}]
    /\ runPeers \subseteq Conn
    /\ verifier \in [Verifier -> {"idle", "hashing", "reporting", "ended"}]
    /\ call \in [Caller -> {"idle", "fetching", "sending", "ended"}]
    /\ stop \in [Stopper -> {"idle", "waiting", "returned"}]

(***************************************************************************)
(* "Only safe once wg.Wait has returned: a straggling verify goroutine     *)
(* still holds a reference to t.storage" (Run): the storage is closed only *)
(* when no verification and no connection can still read it.               *)
(***************************************************************************)
StorageOutlivesUse ==
    storage = "closed" =>
        /\ \A v \in Verifier : verifier[v] # "hashing"
        /\ \A c \in Conn : client[c] \notin {"serving", "closing"}

(***************************************************************************)
(* "Stop shuts the torrent down for good ... and Run returns": Stop, once  *)
(* called, returns, whatever is under way and whether or not Run had       *)
(* started.  (Stop, Run)                                                   *)
(***************************************************************************)
StopReturns == \A k \in Stopper : (stop[k] = "waiting") ~> (stop[k] = "returned")

\* A web seed loop waits for an actor that is not there.
SeedWaits == \E a \in WebSeed : call[a] = "sending"

(***************************************************************************)
(* Nothing but such a web seed loop can hold Stop up: not a full queue, a  *)
(* handshake, a pump or a verification under way.  (sendEvent,             *)
(* registerAndPump, verifyPiece)                                           *)
(***************************************************************************)
OnlySeedsHoldStop ==
    \A k \in Stopper :
        [](stop[k] = "waiting" => <>(stop[k] = "returned") \/ <>[]SeedWaits)

(***************************************************************************)
(* A call of the torrent's methods is answered or refused, also when it    *)
(* races with the end of the loop, unless Stop itself is held up.          *)
(* (sendControl, sendControlWithReply, ApplyExternalPiece)                 *)
(***************************************************************************)
CallersReturn ==
    \A a \in Caller \ WebSeed :
        [](call[a] = "sending" => <>(call[a] # "sending") \/ <>[]SeedWaits)
=============================================================================
