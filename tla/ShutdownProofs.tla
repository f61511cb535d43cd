--------------------------- MODULE ShutdownProofs ---------------------------
(***************************************************************************)
(* Shutdown for every number of connections, verifications, callers and    *)
(* Stops, and every queue length.                                          *)
(*                                                                         *)
(* StorageOutlivesUse is not inductive: that no goroutine reads a closed   *)
(* storage rests on none being left when it is closed, on none being       *)
(* started by a loop that has ended, and on the pump outliving its client. *)
(***************************************************************************)
EXTENDS Shutdown, TLAPS

\* The goroutines Run waits for that can reach the storage.
Quiet ==
    /\ \A v \in Verifier : verifier[v] \notin {"hashing", "reporting"}
    /\ \A c \in Conn : conn[c] \notin {"shaking", "pumping"}

ClosedIsQuiet == storage = "closed" => stage \in {"closing", "done"} /\ Quiet

PumpOutlivesClient ==
    \A c \in Conn : client[c] \in {"serving", "closing"} => conn[c] = "pumping"

ShutdownInv == ShutdownTypeOK /\ ClosedIsQuiet /\ PumpOutlivesClient

-----------------------------------------------------------------------------
(* Types *)

\* What the queue holds and how much, after a send or a receive.
LEMMA SendType ==
    ASSUME ShutdownTypeOK, NEW kind, NEW who, [kind |-> kind, of |-> who] \in RunEvent, RunSend(kind, who)
    PROVE  runEvents' \in Seq(RunEvent) /\ Len(runEvents') <= RunQueueLength
BY ShutdownAssumption DEF ShutdownTypeOK, RunSend

LEMMA SendEventType ==
    ASSUME ShutdownTypeOK, NEW kind, NEW who, [kind |-> kind, of |-> who] \in RunEvent,
           SendEvent(kind, who)
    PROVE  runEvents' \in Seq(RunEvent) /\ Len(runEvents') <= RunQueueLength
BY SendType DEF SendEvent, ShutdownTypeOK

LEMMA TakeType ==
    ASSUME ShutdownTypeOK, NEW kind, NEW who, Take(kind, who)
    PROVE  /\ runEvents' \in Seq(RunEvent) /\ Len(runEvents') <= RunQueueLength
           /\ UNCHANGED <<stage, cancelled, storage>>
BY ShutdownAssumption DEF ShutdownTypeOK, Take

LEMMA TypeKept ==
    ASSUME ShutdownTypeOK, [ShutdownNext]_shutdownVars
    PROVE  ShutdownTypeOK'
<1>1. CASE UNCHANGED shutdownVars
  BY <1>1 DEF ShutdownTypeOK, shutdownVars
<1>2. CASE Start \/ Exit \/ RunShutdownPeers \/ CloseStorage \/ RunReturns
  BY <1>2 DEF ShutdownTypeOK, Start, Exit, RunShutdownPeers, CloseStorage, RunReturns, others, Stage
<1>3. ASSUME NEW c \in Conn, AcceptIncoming(c) \/ RunRegisterPeer(c) \/ RunRemovePeer(c) \/ OnBlock(c)
      PROVE  ShutdownTypeOK'
  <2>1. runEvents' \in Seq(RunEvent) /\ Len(runEvents') <= RunQueueLength /\ UNCHANGED <<stage, cancelled, storage>>
    BY <1>3, TakeType DEF AcceptIncoming, RunRegisterPeer, RunRemovePeer, OnBlock
  <2>2. QED
    BY <1>3, <2>1 DEF ShutdownTypeOK, AcceptIncoming, RunRegisterPeer, RunRemovePeer, OnBlock, StartVerifier, others
<1>4. CASE Settle
  <2>1. runEvents' \in Seq(RunEvent) /\ Len(runEvents') <= RunQueueLength /\ UNCHANGED <<stage, cancelled, storage>>
    BY <1>4, TakeType DEF Settle
  <2>2. QED
    BY <1>4, <2>1 DEF ShutdownTypeOK, Settle, others
<1>5. ASSUME NEW v \in Verifier, Hashed(v) \/ Report(v)
      PROVE  ShutdownTypeOK'
  <2>1. [kind |-> "verified", of |-> v] \in RunEvent
    BY DEF RunEvent
  <2>2. CASE Hashed(v)
    BY <2>2 DEF ShutdownTypeOK, Hashed, actor
  <2>3. CASE Report(v)
    BY <2>1, <2>3, SendEventType DEF ShutdownTypeOK, Report, actor
  <2>4. QED
    BY <1>5, <2>2, <2>3
<1>6. ASSUME NEW c \in Conn,
             \/ Offer(c) \/ AcceptPeer(c) \/ HandshakeFails(c) \/ AttemptConnects(c) \/ Relay(c)
             \/ PumpCloses(c) \/ RemoteHangsUp(c) \/ ClientEnds(c) \/ RelayEnds(c)
      PROVE  ShutdownTypeOK'
  <2>1. \A kind \in {"incoming", "failed", "connected", "block", "gone"} :
           [kind |-> kind, of |-> c] \in RunEvent
    BY DEF RunEvent
  <2>2. CASE Offer(c) \/ PumpCloses(c) \/ RemoteHangsUp(c) \/ ClientEnds(c)
    BY <2>2 DEF ShutdownTypeOK, Offer, PumpCloses, RemoteHangsUp, ClientEnds, actor, others
  <2>3. CASE AcceptPeer(c)
    BY <2>1, <2>3, SendType DEF ShutdownTypeOK, AcceptPeer, actor, others
  <2>4. CASE HandshakeFails(c)
    BY <2>1, <2>4, SendEventType DEF ShutdownTypeOK, HandshakeFails, actor, others
  <2>5. CASE AttemptConnects(c)
    BY <2>1, <2>5, SendType DEF ShutdownTypeOK, AttemptConnects, actor, others
  <2>6. CASE Relay(c)
    BY <2>1, <2>6, SendType DEF ShutdownTypeOK, Relay, actor, others
  <2>7. CASE RelayEnds(c)
    BY <2>1, <2>7, SendEventType DEF ShutdownTypeOK, RelayEnds, actor, others
  <2>8. QED
    BY <1>6, <2>2, <2>3, <2>4, <2>5, <2>6, <2>7
<1>7. ASSUME NEW a \in Caller, Call(a) \/ Refused(a) \/ HandleControl(a) \/ SeedFetches(a) \/ FetchFails(a) \/ SeedEnds(a)
      PROVE  ShutdownTypeOK'
  BY <1>7 DEF ShutdownTypeOK, Call, Refused, HandleControl, SeedFetches, FetchFails, SeedEnds, StartVerifier, actor
<1>8. ASSUME NEW k \in Stopper, Stop(k) \/ StopReturned(k)
      PROVE  ShutdownTypeOK'
  BY <1>8 DEF ShutdownTypeOK, Stop, StopReturned, actor
<1>9. QED
  BY <1>1, <1>2, <1>3, <1>4, <1>5, <1>6, <1>7, <1>8 DEF ShutdownNext, HandleEvent

-----------------------------------------------------------------------------
(* The storage *)

\* A step that leaves the loop and the storage alone and starts nothing.
LEMMA NothingStarts ==
    ASSUME ClosedIsQuiet, UNCHANGED <<stage, storage>>,
           \A v \in Verifier : verifier'[v] \in {"hashing", "reporting"}
                                  => verifier[v] \in {"hashing", "reporting"},
           \A c \in Conn : conn'[c] \in {"shaking", "pumping"}
                              => conn[c] \in {"shaking", "pumping"}
    PROVE  ClosedIsQuiet'
BY DEF ClosedIsQuiet, Quiet

\* While the loop runs the storage is open.
LEMMA RunningIsOpen ==
    ASSUME ClosedIsQuiet, stage = "running", UNCHANGED <<stage, storage>>
    PROVE  ClosedIsQuiet'
BY DEF ClosedIsQuiet

LEMMA ClosedKept ==
    ASSUME ShutdownInv, [ShutdownNext]_shutdownVars
    PROVE  ClosedIsQuiet'
<1> USE DEF ShutdownInv
<1>1. CASE UNCHANGED shutdownVars
  BY <1>1 DEF ClosedIsQuiet, Quiet, shutdownVars
<1>2. CASE Start \/ Exit \/ RunShutdownPeers \/ RunReturns
  BY <1>2 DEF ClosedIsQuiet, Quiet, ShutdownTypeOK, Start, Exit, RunShutdownPeers, RunReturns, others
<1>3. CASE CloseStorage
  BY <1>3 DEF ClosedIsQuiet, Quiet, CloseStorage, Waited, others
<1>4. CASE HandleEvent
  <2>1. stage = "running" /\ UNCHANGED <<stage, storage>>
    BY <1>4 DEF HandleEvent, AcceptIncoming, RunRegisterPeer, RunRemovePeer, OnBlock, Settle, Take
  <2>2. QED
    BY <2>1, RunningIsOpen
<1>5. ASSUME NEW v \in Verifier, Hashed(v) \/ Report(v)
      PROVE  ClosedIsQuiet'
  BY <1>5, NothingStarts DEF Hashed, Report, actor, ShutdownTypeOK
<1>6. ASSUME NEW c \in Conn,
             \/ Offer(c) \/ AcceptPeer(c) \/ HandshakeFails(c) \/ AttemptConnects(c) \/ Relay(c)
             \/ PumpCloses(c) \/ RemoteHangsUp(c) \/ ClientEnds(c) \/ RelayEnds(c)
      PROVE  ClosedIsQuiet'
  <2>1. UNCHANGED <<stage, storage, verifier>>
    BY <1>6 DEF Offer, AcceptPeer, HandshakeFails, AttemptConnects, Relay, PumpCloses,
                RemoteHangsUp, ClientEnds, RelayEnds, actor, others
  <2>2. \A d \in Conn : conn'[d] \in {"shaking", "pumping"} => conn[d] \in {"shaking", "pumping"}
    BY <1>6 DEF Offer, AcceptPeer, HandshakeFails, AttemptConnects, Relay, PumpCloses,
                RemoteHangsUp, ClientEnds, RelayEnds, ShutdownTypeOK
  <2>3. QED
    BY <2>1, <2>2, NothingStarts
<1>7. ASSUME NEW a \in Caller, Call(a) \/ Refused(a) \/ SeedFetches(a) \/ FetchFails(a) \/ SeedEnds(a)
      PROVE  ClosedIsQuiet'
  BY <1>7 DEF ClosedIsQuiet, Quiet, Call, Refused, SeedFetches, FetchFails, SeedEnds, actor
<1>8. ASSUME NEW a \in Caller, HandleControl(a)
      PROVE  ClosedIsQuiet'
  BY <1>8, RunningIsOpen DEF HandleControl, actor
<1>9. ASSUME NEW k \in Stopper, Stop(k) \/ StopReturned(k)
      PROVE  ClosedIsQuiet'
  BY <1>9 DEF ClosedIsQuiet, Quiet, Stop, StopReturned, actor
<1>10. QED
  BY <1>1, <1>2, <1>3, <1>4, <1>5, <1>6, <1>7, <1>8, <1>9 DEF ShutdownNext

LEMMA PumpKept ==
    ASSUME ShutdownInv, [ShutdownNext]_shutdownVars
    PROVE  PumpOutlivesClient'
<1> USE DEF ShutdownInv, PumpOutlivesClient, ShutdownTypeOK
<1>1. CASE UNCHANGED shutdownVars
  BY <1>1 DEF shutdownVars
<1>2. CASE Start \/ Exit \/ RunShutdownPeers \/ CloseStorage \/ RunReturns
  BY <1>2 DEF Start, Exit, RunShutdownPeers, CloseStorage, RunReturns, others
<1>3. CASE HandleEvent
  <2>1. ASSUME NEW c \in Conn, AcceptIncoming(c)
        PROVE  PumpOutlivesClient'
    BY <2>1 DEF AcceptIncoming, others
  <2>2. ASSUME NEW c \in Conn, RunRegisterPeer(c) \/ RunRemovePeer(c) \/ OnBlock(c)
        PROVE  PumpOutlivesClient'
    BY <2>2 DEF RunRegisterPeer, RunRemovePeer, OnBlock, others
  <2>3. CASE Settle
    BY <2>3 DEF Settle, others
  <2>4. QED
    BY <1>3, <2>1, <2>2, <2>3 DEF HandleEvent
<1>4. ASSUME NEW v \in Verifier, Hashed(v) \/ Report(v)
      PROVE  PumpOutlivesClient'
  BY <1>4 DEF Hashed, Report, actor
<1>5. ASSUME NEW c \in Conn,
             \/ Offer(c) \/ AcceptPeer(c) \/ HandshakeFails(c) \/ AttemptConnects(c) \/ Relay(c)
             \/ PumpCloses(c) \/ RemoteHangsUp(c) \/ ClientEnds(c) \/ RelayEnds(c)
      PROVE  PumpOutlivesClient'
  <2>1. CASE Offer(c) \/ AcceptPeer(c) \/ HandshakeFails(c)
    BY <2>1 DEF Offer, AcceptPeer, HandshakeFails, others, actor
  <2>2. CASE AttemptConnects(c) \/ Relay(c)
    BY <2>2 DEF AttemptConnects, Relay, others, actor
  <2>3. CASE PumpCloses(c) \/ RemoteHangsUp(c) \/ ClientEnds(c) \/ RelayEnds(c)
    BY <2>3 DEF PumpCloses, RemoteHangsUp, ClientEnds, RelayEnds, others, actor
  <2>4. QED
    BY <1>5, <2>1, <2>2, <2>3
<1>6. ASSUME NEW a \in Caller, Call(a) \/ Refused(a) \/ HandleControl(a) \/ SeedFetches(a) \/ FetchFails(a) \/ SeedEnds(a)
      PROVE  PumpOutlivesClient'
  BY <1>6 DEF Call, Refused, HandleControl, SeedFetches, FetchFails, SeedEnds, actor
<1>7. ASSUME NEW k \in Stopper, Stop(k) \/ StopReturned(k)
      PROVE  PumpOutlivesClient'
  BY <1>7 DEF Stop, StopReturned, actor
<1>8. QED
  BY <1>1, <1>2, <1>3, <1>4, <1>5, <1>6, <1>7 DEF ShutdownNext

-----------------------------------------------------------------------------
(***************************************************************************)
(* The invariant of Run, Stop and everything they wait for.                *)
(***************************************************************************)
THEOREM ShutdownInvariant == ShutdownSpec => []ShutdownInv
<1>1. ASSUME ShutdownInit
      PROVE  ShutdownInv
  <2>1. runEvents = <<>> /\ runEvents \in Seq(RunEvent) /\ Len(runEvents) = 0
    BY <1>1 DEF ShutdownInit
  <2>2. stage \in Stage /\ storage = "none" /\ cancelled \in BOOLEAN /\ runPeers \subseteq Conn
    BY <1>1 DEF ShutdownInit, Stage
  <2>3. ShutdownTypeOK
    BY <1>1, <2>1, <2>2, ShutdownAssumption DEF ShutdownInit, ShutdownTypeOK
  <2>4. ClosedIsQuiet /\ PumpOutlivesClient
    BY <1>1 DEF ShutdownInit, ClosedIsQuiet, PumpOutlivesClient
  <2>5. QED
    BY <2>3, <2>4 DEF ShutdownInv
<1>2. ShutdownInv /\ [ShutdownNext]_shutdownVars => ShutdownInv'
  BY TypeKept, ClosedKept, PumpKept DEF ShutdownInv
<1>3. QED
  BY <1>1, <1>2, PTL DEF ShutdownSpec

(***************************************************************************)
(* The storage is closed only when nothing can still read it: the claim of *)
(* Run's own comment ("Only safe once wg.Wait has returned"), here for any *)
(* number of connections and verifications.  (Run, registerAndPump,        *)
(* verifyPiece)                                                            *)
(***************************************************************************)
THEOREM ClosedStorageIsUnused == ShutdownSpec => []StorageOutlivesUse
<1>1. ShutdownInv => StorageOutlivesUse
  BY DEF ShutdownInv, ClosedIsQuiet, Quiet, PumpOutlivesClient, StorageOutlivesUse
<1>2. QED
  BY <1>1, ShutdownInvariant, PTL

(***************************************************************************)
(* Types, and the bound of t.events.  (sendEvent, AcceptPeer)              *)
(***************************************************************************)
THEOREM ShutdownTypes == ShutdownSpec => []ShutdownTypeOK
<1>1. ShutdownInv => ShutdownTypeOK
  BY DEF ShutdownInv
<1>2. QED
  BY <1>1, ShutdownInvariant, PTL
=============================================================================
