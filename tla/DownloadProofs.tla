--------------------------- MODULE DownloadProofs ---------------------------
(***************************************************************************)
(* Download for every number of peers, pieces and blocks.                  *)
(*                                                                         *)
(* DataInv holds whatever the peers send and the disk does.  HonestInv     *)
(* adds what holds when every source of data is honest and the disk does   *)
(* not fail: then no verification ever fails, which is what keeps the      *)
(* published bitfield, the lifecycle state and the disk in step.           *)
(***************************************************************************)
EXTENDS Download, PickerProofs

DataInv == PickerInv /\ DownloadTypeOK /\ CompletedIsResolving

\* What the steps of the network, the choker and the reject path leave alone.
LEMMA MovedType ==
    ASSUME NEW s \in State, NEW t \in State
    PROVE  Moved(s, t) \in State
BY DEF Moved

\* The edges the data path takes.
LEMMA MovedEdges ==
    /\ \A s \in {"Downloading", "Seeding"} : Moved(s, "Paused") = "Paused"
    /\ \A t \in {"Downloading", "Seeding"} :
          /\ Moved("Paused", t) = t
          /\ \A s \in {"Downloading", "Seeding", "Paused"} : Moved(Moved(s, "CheckingFiles"), t) = t
    /\ \A s \in {"Downloading", "Seeding", "Paused"} : Moved(s, "Seeding") = "Seeding"
BY DEF Moved, CanTransition, transitions

\* The picker of a torrent that starts is sound.
LEMMA InitData ==
    ASSUME Init
    PROVE  DataInv
<1>1. DownloadTypeOK
  BY DownloadAssumption DEF Init, DownloadTypeOK, State
<1>2. PickerTypeOK
  BY PickerAssumption DEF Init, PickerTypeOK, BlockState, NoPeers, Priority, Normal, Skip, Low, High, Strategy
<1>3. \A p \in Piece : DoneBlocks(p) = {}
  BY PieceBlock DEF Init, DoneBlocks
<1>4. DoneCounts
  BY <1>3, FS_EmptySet DEF Init, DoneCounts
<1>5. InProgressIsMissing /\ NoResidue /\ CompletedIsResolving
  BY DEF Init, InProgressIsMissing, NoResidue, CompletedIsResolving
<1>6. MemoryBound
  BY FS_EmptySet, PickerAssumption DEF Init, MemoryBound
<1>7. QED
  BY <1>1, <1>2, <1>4, <1>5, <1>6 DEF DataInv, PickerInv

\* A step that leaves the picker alone keeps its invariant.
LEMMA PickerFrame ==
    ASSUME PickerInv, UNCHANGED <<have, active, states, done, priority, strategy>>,
           avail' \in [Piece -> Nat]
    PROVE  PickerInv'
BY DEF PickerInv, PickerTypeOK, InProgressIsMissing, DoneCounts, DoneBlocks, NoResidue, MemoryBound

-----------------------------------------------------------------------------
\* The picker's invariant is kept by every step of the torrent.
LEMMA PickerKept ==
    ASSUME DataInv, [Next]_vars
    PROVE  PickerInv'
<1> USE DEF DataInv
<1> DEFINE Frame == /\ UNCHANGED <<have, active, states, done, priority, strategy>>
                    /\ avail' \in [Piece -> Nat]
<1>0. avail \in [Piece -> Nat] /\ active \subseteq Piece
  BY DEF PickerInv, PickerTypeOK
<1>1. ASSUME NEW pc \in Peer, RegisterPeer(pc) \/ RemovePeer(pc)
      PROVE  Frame
  BY <1>0, <1>1 DEF RegisterPeer, RemovePeer, AvailabilityChange, PeerAdded, PeerRemoved
<1>2. ASSUME NEW pc \in Peer,
             \/ NetworkStep(pc) \/ OnChokeChanged(pc)
             \/ \E x \in Block : OnReject(pc, x) \/ OnBlockWriteFails(pc, x)
      PROVE  Frame
  BY <1>0, <1>2 DEF NetworkStep, OnChokeChanged, OnReject, OnBlockWriteFails, pickerVars
<1>3. ASSUME NEW p \in Piece,
             VerifyPiece(p) \/ \E good \in ExternalData : ApplyExternalPiece(p, good)
      PROVE  Frame
  BY <1>0, <1>3 DEF VerifyPiece, ApplyExternalPiece, pickerVars
<1>4. ASSUME DoResume \/ UNCHANGED vars
      PROVE  Frame
  BY <1>0, <1>4 DEF DoResume, vars, pickerVars
<1>5. ASSUME NEW pc \in Peer, NEW x \in Block, NEW good \in BOOLEAN, OnBlock(pc, x, good)
      PROVE  PickerInv'
  BY <1>5, ReceivedInv DEF OnBlock
<1>6. ASSUME NEW p \in Piece, PieceVerified(p)
      PROVE  PickerInv'
  BY <1>6, MarkVerifiedInv DEF PieceVerified
<1>7. ASSUME NEW p \in Piece, PieceFailed(p)
      PROVE  PickerInv'
  BY <1>7, MarkFailedInv DEF PieceFailed
<1>8. ASSUME TickBegins
      PROVE  PickerInv'
  <2>1. PICK X \in SUBSET Outstanding : Expire(X)
    BY <1>8 DEF TickBegins
  <2>2. QED
    BY <1>0, <2>1, GiveBackInv DEF Expire
<1>9. ASSUME NEW pc \in Peer, TickServes(pc)
      PROVE  PickerInv'
  <2>1. PICK late \in SUBSET inflight[pc] :
           LET kept == inflight[pc] \ late
               peerHas == IF pc \in choking THEN {} ELSE PeerPieces[pc]
           IN  \E o \in PickOutcomes(peerHas, Pipeline - Cardinality(kept)) : Hand(o)
    BY <1>9 DEF TickServes
  <2> DEFINE kept == inflight[pc] \ late
             peerHas == IF pc \in choking THEN {} ELSE PeerPieces[pc]
  <2>2. peerHas \in SUBSET Piece
    BY DownloadAssumption
  <2>3. QED
    BY <2>1, <2>2, HandInv
<1>10. ASSUME DoPause
       PROVE  PickerInv'
  <2>1. ResetAllPending /\ avail' \in [Piece -> Nat]
    BY <1>10 DEF DoPause, ShutdownPeers, NoPeers
  <2>2. QED
    BY <2>1, GiveBackInv DEF ResetAllPending
<1>11. ASSUME DoRecheck
       PROVE  PickerInv'
  <2> DEFINE found == Found
             given == Outstanding \cup {x \in Block : x[1] \in active \cap found}
  <2>1. /\ have' = found /\ active' = active \ found /\ avail' = NoPeers
        /\ states' = [x \in Block |-> IF x \in given THEN "needed" ELSE states[x]]
        /\ done' = [p \in Piece |-> IF p \in active \cap found THEN 0 ELSE done[p]]
        /\ UNCHANGED <<priority, strategy>>
    BY <1>11 DEF DoRecheck, ShutdownPeers
  <2>2. DoneCounts'
    <3> SUFFICES ASSUME NEW p \in Piece
                 PROVE  done'[p] = Cardinality(DoneBlocks(p)')
      BY DEF DoneCounts
    <3>1. CASE p \in active \cap found
      <4>1. DoneBlocks(p)' = {}
        BY <2>1, <3>1, PieceBlock DEF DoneBlocks
      <4>2. QED
        BY <2>1, <3>1, <4>1, FS_EmptySet
    <3>2. CASE p \notin active \cap found
      <4>1. DoneBlocks(p)' = DoneBlocks(p)
        BY <2>1, <3>2, PieceBlock DEF DoneBlocks, Outstanding
      <4>2. QED
        BY <2>1, <3>2, <4>1 DEF PickerInv, DoneCounts
    <3>3. QED
      BY <3>1, <3>2
  <2>3. PickerTypeOK' /\ InProgressIsMissing' /\ NoResidue'
    BY <2>1 DEF Found, PickerInv, PickerTypeOK, BlockState, NoPeers, InProgressIsMissing, NoResidue
  <2>4. MemoryBound'
    BY <2>1, FewerActive DEF MemoryBound
  <2>5. QED
    BY <2>2, <2>3, <2>4 DEF PickerInv
<1>12. QED
  BY <1>1, <1>2, <1>3, <1>4, <1>5, <1>6, <1>7, <1>8, <1>9, <1>10, <1>11, PickerFrame
     DEF Next, Answers

-----------------------------------------------------------------------------
\* A report queued, and a report handled.
LEMMA ReportsChange ==
    ASSUME reports \in [Piece \X BOOLEAN -> Nat], NEW p \in Piece, NEW ok \in BOOLEAN
    PROVE  /\ [reports EXCEPT ![<<p, ok>>] = @ + 1] \in [Piece \X BOOLEAN -> Nat]
           /\ reports[<<p, ok>>] > 0 =>
                 [reports EXCEPT ![<<p, ok>>] = @ - 1] \in [Piece \X BOOLEAN -> Nat]
<1> DEFINE r == <<p, ok>>
<1>1. r \in Piece \X BOOLEAN /\ reports[r] \in Nat
  OBVIOUS
<1> HIDE DEF r
<1>2. /\ [reports EXCEPT ![r] = @ + 1] \in [Piece \X BOOLEAN -> Nat]
      /\ reports[r] > 0 => [reports EXCEPT ![r] = @ - 1] \in [Piece \X BOOLEAN -> Nat]
  BY <1>1
<1>3. QED
  BY <1>2 DEF r

\* The rest of the torrent keeps its types.
LEMMA TypeKept ==
    ASSUME DataInv, [Next]_vars
    PROVE  DownloadTypeOK'
<1> USE DEF DataInv, DownloadTypeOK
<1>1. ASSUME NEW pc \in Peer, RegisterPeer(pc) \/ RemovePeer(pc)
      PROVE  DownloadTypeOK'
  BY <1>1 DEF RegisterPeer, RemovePeer, dataVars, boundVars, Idle
<1>2. ASSUME NEW pc \in Peer, NetworkStep(pc) \/ OnChokeChanged(pc)
      PROVE  DownloadTypeOK'
  BY <1>2 DEF NetworkStep, OnChokeChanged, dataVars, boundVars
<1>3. ASSUME NEW pc \in Peer, NEW x \in Block, OnReject(pc, x) \/ OnBlockWriteFails(pc, x)
      PROVE  DownloadTypeOK'
  BY <1>3 DEF OnReject, OnBlockWriteFails, Fault, dataVars, boundVars
<1>4. ASSUME NEW pc \in Peer, NEW x \in Block, NEW good \in BOOLEAN, OnBlock(pc, x, good)
      PROVE  DownloadTypeOK'
  BY <1>4, BlockPiece DEF OnBlock, boundVars
<1>5. ASSUME NEW p \in Piece, VerifyPiece(p)
      PROVE  DownloadTypeOK'
  <2>1. PICK ok \in BOOLEAN : reports' = [reports EXCEPT ![<<p, ok>>] = @ + 1]
    BY <1>5 DEF VerifyPiece, OnDisk
  <2>2. reports' \in [Piece \X BOOLEAN -> Nat]
    BY <2>1, ReportsChange
  <2>3. faults' = faults \/ faults' = faults + 1
    BY ONLY <1>5, Zenon DEF VerifyPiece, Fault
  <2>4. faults' \in Nat
    BY <2>3
  <2>5. verifying' \in [Piece -> Nat]
    BY <1>5 DEF VerifyPiece
  <2>6. QED
    BY <1>5, <2>2, <2>4, <2>5 DEF VerifyPiece, torrentVars
<1>6. ASSUME NEW p \in Piece, NEW good \in ExternalData, ApplyExternalPiece(p, good)
      PROVE  DownloadTypeOK'
  BY <1>6, DownloadAssumption DEF ApplyExternalPiece, torrentVars
<1>7. ASSUME NEW p \in Piece, PieceVerified(p)
      PROVE  DownloadTypeOK'
  <2>1. have' \in SUBSET Piece
    BY <1>7 DEF PieceVerified, MarkVerified, PickerInv, PickerTypeOK
  <2>2. state' \in State
    BY <1>7, MovedType DEF PieceVerified, Settled, State
  <2>3. reports' \in [Piece \X BOOLEAN -> Nat]
    BY <1>7, ReportsChange DEF PieceVerified
  <2>4. QED
    BY <1>7, <2>1, <2>2, <2>3 DEF PieceVerified, Publish, boundVars
<1>8. ASSUME NEW p \in Piece, PieceFailed(p)
      PROVE  DownloadTypeOK'
  <2>1. reports' \in [Piece \X BOOLEAN -> Nat]
    BY <1>8, ReportsChange DEF PieceFailed
  <2>2. QED
    BY <1>8, <2>1 DEF PieceFailed, torrentVars, boundVars
<1>9. ASSUME TickBegins
      PROVE  DownloadTypeOK'
  <2>1. state' \in State
    BY <1>9 DEF TickBegins, TickState, State
  <2>2. QED
    BY <1>9, <2>1 DEF TickBegins, dataVars, boundVars
<1>10. ASSUME NEW pc \in Peer, TickServes(pc)
       PROVE  DownloadTypeOK'
  <2>1. state' \in State
    BY <1>10 DEF TickServes, TickState, State
  <2> DEFINE peerHas == IF pc \in choking THEN {} ELSE PeerPieces[pc]
  <2>2. PICK late \in SUBSET inflight[pc] :
           \E o \in PickOutcomes(peerHas, Pipeline - Cardinality(inflight[pc] \ late)) :
              /\ inflight' = [inflight EXCEPT ![pc] = (inflight[pc] \ late) \cup o.requests]
              /\ wire' = wire \cup {<<pc, x>> : x \in o.requests}
    BY <1>10 DEF TickServes
  <2>3. PICK o \in PickOutcomes(peerHas, Pipeline - Cardinality(inflight[pc] \ late)) :
              /\ inflight' = [inflight EXCEPT ![pc] = (inflight[pc] \ late) \cup o.requests]
              /\ wire' = wire \cup {<<pc, x>> : x \in o.requests}
    BY <2>2
  <2>4. peerHas \in SUBSET Piece
    BY DownloadAssumption
  <2>5. o.requests \subseteq Block
    BY <2>3, <2>4, OutcomeShape
  <2>6. /\ ticking' = ticking \ {pc}
        /\ UNCHANGED <<peers, choking, chokeNews, dataVars, boundVars>>
    BY <1>10 DEF TickServes
  <2>7. QED
    BY <2>1, <2>3, <2>5, <2>6 DEF dataVars, boundVars
<1>11. ASSUME DoPause \/ DoResume
       PROVE  DownloadTypeOK'
  <2>1. state' \in State
    BY <1>11, MovedType DEF DoPause, DoResume, State
  <2>2. QED
    BY <1>11, <2>1 DEF DoPause, DoResume, Control, ShutdownPeers, Idle, dataVars
<1>12. ASSUME DoRecheck
       PROVE  DownloadTypeOK'
  <2>1. state' \in State
    <3>1. Moved(state, "CheckingFiles") \in State
      BY MovedType DEF State
    <3>2. QED
      BY <1>12, <3>1, MovedType DEF DoRecheck, State
  <2>2. QED
    BY <1>12, <2>1 DEF DoRecheck, Found, Publish, Control, ShutdownPeers, Idle
<1>13. CASE UNCHANGED vars
  BY <1>13 DEF vars, torrentVars, dataVars, boundVars
<1>14. QED
  BY <1>1, <1>2, <1>3, <1>4, <1>5, <1>6, <1>7, <1>8, <1>9, <1>10, <1>11, <1>12, <1>13
     DEF Next, Answers

-----------------------------------------------------------------------------
\* A completed piece is handed to a verifier by the step that completes it,
\* and every step that consumes a verification settles the piece.
LEMMA ResolvingKept ==
    ASSUME DataInv, [Next]_vars
    PROVE  CompletedIsResolving'
<1> USE DEF DataInv
<1>0. /\ active \subseteq Piece /\ done \in [Piece -> Nat]
      /\ verifying \in [Piece -> Nat] /\ reports \in [Piece \X BOOLEAN -> Nat]
      /\ \A p \in active : done[p] = NumBlocks[p] => Resolving(p)
  BY DEF PickerInv, PickerTypeOK, DownloadTypeOK, CompletedIsResolving
<1> DEFINE Frame == UNCHANGED <<active, done, verifying, reports>>
<1>1. Frame => CompletedIsResolving'
  BY <1>0 DEF CompletedIsResolving, Resolving
<1>2. ASSUME NEW pc \in Peer,
             \/ RegisterPeer(pc) \/ RemovePeer(pc) \/ NetworkStep(pc) \/ OnChokeChanged(pc)
             \/ \E x \in Block : OnReject(pc, x) \/ OnBlockWriteFails(pc, x)
      PROVE  Frame
  BY <1>2 DEF RegisterPeer, RemovePeer, AvailabilityChange, NetworkStep, OnChokeChanged,
              OnReject, OnBlockWriteFails, pickerVars, dataVars
<1>3. ASSUME TickBegins \/ DoPause \/ DoResume \/ UNCHANGED vars
      PROVE  Frame
  BY <1>3 DEF TickBegins, Expire, DoPause, ResetAllPending, GiveBack, DoResume,
              vars, pickerVars, dataVars
<1>4. ASSUME NEW pc \in Peer, NEW x \in Block, NEW good \in BOOLEAN, OnBlock(pc, x, good)
      PROVE  CompletedIsResolving'
  <2> DEFINE p == x[1]
  <2>1. p \in Piece
    BY BlockPiece
  <2>2. /\ verifying' = IF Completes(x) THEN [verifying EXCEPT ![p] = @ + 1] ELSE verifying
        /\ UNCHANGED <<active, reports>>
        /\ done' = IF Wanted(x) THEN [done EXCEPT ![p] = @ + 1] ELSE done
    BY <1>4 DEF OnBlock, Received
  <2>3. \A q \in Piece : verifying'[q] >= verifying[q]
    BY <1>0, <2>1, <2>2
  <2>4. \A q \in active : done'[q] # done[q] /\ done'[q] = NumBlocks[q] => verifying'[q] > 0
    BY <1>0, <2>1, <2>2 DEF Completes
  <2>5. SUFFICES ASSUME NEW q \in active, done'[q] = NumBlocks[q]
                 PROVE  Resolving(q)'
    BY <2>2 DEF CompletedIsResolving
  <2>6. CASE done'[q] # done[q]
    BY <2>2, <2>4, <2>5, <2>6 DEF Resolving
  <2>7. CASE done'[q] = done[q]
    <3>1. Resolving(q)
      BY <1>0, <2>2, <2>5, <2>7
    <3>2. verifying[q] \in Nat /\ verifying'[q] \in Nat /\ verifying'[q] >= verifying[q]
      BY <1>0, <2>1, <2>2, <2>3, <2>5
    <3>3. QED
      BY <2>2, <3>1, <3>2 DEF Resolving
  <2>8. QED
    BY <2>6, <2>7
<1>5. ASSUME NEW p \in Piece, VerifyPiece(p)
      PROVE  CompletedIsResolving'
  <2>1. PICK ok \in BOOLEAN : reports' = [reports EXCEPT ![<<p, ok>>] = @ + 1]
    BY <1>5 DEF VerifyPiece, OnDisk
  <2>2. UNCHANGED <<active, done>> /\ \A q \in Piece \ {p} : verifying'[q] = verifying[q]
    BY <1>0, <1>5 DEF VerifyPiece, pickerVars
  <2>3. /\ reports'[<<p, ok>>] = reports[<<p, ok>>] + 1
        /\ \A q \in Piece \ {p}, b \in BOOLEAN : reports'[<<q, b>>] = reports[<<q, b>>]
    BY <1>0, <2>1
  <2>4. Resolving(p)'
    <3>1. reports[<<p, ok>>] \in Nat
      BY <1>0
    <3>2. reports'[<<p, ok>>] > 0
      BY <2>3, <3>1
    <3>3. QED
      BY <3>2 DEF Resolving
  <2>5. \A q \in Piece \ {p} : Resolving(q) => Resolving(q)'
    BY <2>2, <2>3 DEF Resolving
  <2>6. QED
    BY <1>0, <2>2, <2>4, <2>5 DEF CompletedIsResolving
<1>6. ASSUME NEW p \in Piece, NEW good \in ExternalData, ApplyExternalPiece(p, good)
      PROVE  CompletedIsResolving'
  <2>1. UNCHANGED <<active, done, reports>> /\ \A q \in Piece : verifying'[q] >= verifying[q]
    BY <1>0, <1>6 DEF ApplyExternalPiece, pickerVars
  <2>2. \A q \in Piece : Resolving(q) => Resolving(q)'
    <3>1. SUFFICES ASSUME NEW q \in Piece, Resolving(q)
                   PROVE  Resolving(q)'
      OBVIOUS
    <3>2. verifying[q] \in Nat /\ verifying'[q] \in Nat /\ verifying'[q] >= verifying[q]
      BY <1>0, <1>6, <2>1 DEF ApplyExternalPiece
    <3>3. QED
      BY <2>1, <3>1, <3>2 DEF Resolving
  <2>3. QED
    BY <1>0, <2>1, <2>2 DEF CompletedIsResolving
<1>7. ASSUME NEW p \in Piece, PieceVerified(p)
      PROVE  CompletedIsResolving'
  <2>1. /\ active' = active \ {p} /\ UNCHANGED verifying
        /\ \A q \in Piece \ {p} : done'[q] = done[q]
        /\ \A q \in Piece \ {p}, b \in BOOLEAN : reports'[<<q, b>>] = reports[<<q, b>>]
    BY <1>0, <1>7 DEF PieceVerified, MarkVerified, ClearProgress
  <2>2. QED
    BY <1>0, <2>1 DEF CompletedIsResolving, Resolving
<1>8. ASSUME NEW p \in Piece, PieceFailed(p)
      PROVE  CompletedIsResolving'
  <2>1. /\ UNCHANGED <<active, verifying>>
        /\ p \in active => done'[p] = 0
        /\ \A q \in Piece \ {p} : done'[q] = done[q]
        /\ \A q \in Piece \ {p}, b \in BOOLEAN : reports'[<<q, b>>] = reports[<<q, b>>]
    BY <1>0, <1>8 DEF PieceFailed, MarkFailed, ClearProgress, dataVars
  <2>2. QED
    BY <1>0, <2>1, PickerAssumption DEF CompletedIsResolving, Resolving
<1>9. ASSUME NEW pc \in Peer, TickServes(pc)
      PROVE  CompletedIsResolving'
  <2> DEFINE peerHas == IF pc \in choking THEN {} ELSE PeerPieces[pc]
  <2>1. PICK late \in SUBSET inflight[pc] :
           \E o \in PickOutcomes(peerHas, Pipeline - Cardinality(inflight[pc] \ late)) : Hand(o)
    BY <1>9 DEF TickServes
  <2>2. PICK o \in PickOutcomes(peerHas, Pipeline - Cardinality(inflight[pc] \ late)) : Hand(o)
    BY <2>1
  <2>3. peerHas \in SUBSET Piece
    BY DownloadAssumption
  <2>4. o.started \subseteq Piece \ active
    BY <2>2, <2>3, OutcomeShape
  <2>5. \A p \in o.started : done[p] = 0
    BY <2>4, NothingDone
  <2>6. active' = active \cup o.started /\ UNCHANGED <<done, verifying, reports>>
    BY <1>9, <2>2 DEF Hand, TickServes, dataVars
  <2>7. QED
    BY <1>0, <2>4, <2>5, <2>6, PickerAssumption DEF CompletedIsResolving, Resolving
<1>10. ASSUME DoRecheck
       PROVE  CompletedIsResolving'
  BY <1>0, <1>10, PickerAssumption DEF DoRecheck, CompletedIsResolving, Resolving
<1>11. QED
  BY <1>1, <1>2, <1>3, <1>4, <1>5, <1>6, <1>7, <1>8, <1>9, <1>10 DEF Next, Answers

\* Every torrent, whatever its peers and its disk do, keeps DataInv.
THEOREM DataInvariant == Spec => []DataInv
<1>1. Init => DataInv
  BY InitData
<1>2. DataInv /\ [Next]_vars => DataInv'
  BY PickerKept, TypeKept, ResolvingKept DEF DataInv
<1>3. QED
  BY <1>1, <1>2, PTL DEF Spec

\* The types of the torrent's state, and of the picker's. (run.go, picker.go)
THEOREM TypeCorrect == Spec => [](DownloadTypeOK /\ PickerInv)
<1>1. DataInv => DownloadTypeOK /\ PickerInv
  BY DEF DataInv
<1>2. QED
  BY <1>1, DataInvariant, PTL

\* No piece is ever left complete with nobody to verify it. (onBlock,
\* verifyPiece, onPieceVerified, MarkFailed)
THEOREM CompletedPiecesResolve == Spec => []CompletedIsResolving
<1>1. DataInv => CompletedIsResolving
  BY DEF DataInv
<1>2. QED
  BY <1>1, DataInvariant, PTL

-----------------------------------------------------------------------------
(* Honest sources *)

\* Every source sends what the metainfo hashes, and the disk does not fail.
Honest == BadPeers = {} /\ ExternalData \subseteq {TRUE} /\ MaxFaults = 0

Running == state \in {"Downloading", "Seeding", "Paused"}

\* A block counted as arrived is on disk: TryVerify reads what onBlock wrote.
DoneIsOnDisk == \A x \in Block : states[x] = "done" => disk[x]

\* Only intact pieces are hashed, so every outcome is a success.
VerdictsAreGood ==
    \A p \in Piece :
        /\ verifying[p] > 0 => OnDisk(p)
        /\ reports[<<p, TRUE>>] > 0 => OnDisk(p)
        /\ reports[<<p, FALSE>>] = 0

HonestData == DoneIsOnDisk /\ VerdictsAreGood /\ HaveIsOnDisk
HonestLife == Running /\ SnapshotIsHave /\ SeedingIsComplete
HonestInv == DataInv /\ HonestData /\ HonestLife

\* When the last block of a piece arrives, the others have.
LEMMA LastBlock ==
    ASSUME PickerInv, NEW x \in Block, Completes(x)
    PROVE  \A y \in BlocksOf(x[1]) : y = x \/ states[y] = "done"
<1> DEFINE p == x[1]
           D == DoneBlocks(p)
<1>1. p \in Piece /\ x \in BlocksOf(p) /\ x \notin D
  BY BlockPiece DEF DoneBlocks, Completes, Wanted
<1>2. IsFiniteSet(BlocksOf(p)) /\ Cardinality(BlocksOf(p)) = NumBlocks[p]
  BY <1>1, BlocksFinite
<1>3. D \subseteq BlocksOf(p)
  BY DEF DoneBlocks
<1>4. IsFiniteSet(D)
  BY <1>2, <1>3, FS_Subset
<1>5. Cardinality(D) + 1 = NumBlocks[p]
  BY <1>1 DEF PickerInv, DoneCounts, Completes
<1>6. Cardinality(D \cup {x}) = Cardinality(D) + 1
  BY <1>1, <1>4, FS_AddElement
<1>7. D \cup {x} \subseteq BlocksOf(p)
  BY <1>1, <1>3
<1>8. Cardinality(D \cup {x}) = Cardinality(BlocksOf(p))
  BY <1>2, <1>5, <1>6
<1> HIDE DEF D
<1>9. D \cup {x} = BlocksOf(p)
  BY <1>2, <1>7, <1>8, FS_Subset
<1>10. QED
  BY <1>9 DEF D, DoneBlocks

\* Honest writes never spoil a block.
LEMMA DiskGrows ==
    ASSUME Honest, DataInv, [Next]_vars
    PROVE  /\ disk' \in [Block -> BOOLEAN]
           /\ \A x \in Block : disk[x] => disk'[x]
<1>0. disk \in [Block -> BOOLEAN]
  BY DEF DataInv, DownloadTypeOK
<1>1. ASSUME NEW pc \in Peer, NEW x \in Block, NEW good \in Answers(pc), OnBlock(pc, x, good)
      PROVE  disk' = [disk EXCEPT ![x] = TRUE]
  BY <1>1 DEF Honest, Answers, OnBlock
<1>2. ASSUME NEW p \in Piece, NEW good \in ExternalData, ApplyExternalPiece(p, good)
      PROVE  disk' = [x \in Block |-> IF x[1] = p THEN TRUE ELSE disk[x]]
  BY <1>2 DEF Honest, ApplyExternalPiece
<1>3. ASSUME NEW pc \in Peer,
             \/ RegisterPeer(pc) \/ RemovePeer(pc) \/ NetworkStep(pc)
             \/ OnChokeChanged(pc) \/ TickServes(pc)
             \/ \E x \in Block : OnReject(pc, x) \/ OnBlockWriteFails(pc, x)
      PROVE  UNCHANGED disk
  BY <1>3 DEF RegisterPeer, RemovePeer, NetworkStep, OnChokeChanged, TickServes, OnReject,
              OnBlockWriteFails, dataVars
<1>4. ASSUME NEW p \in Piece, VerifyPiece(p) \/ PieceVerified(p) \/ PieceFailed(p)
      PROVE  UNCHANGED disk
  BY <1>4 DEF VerifyPiece, PieceVerified, PieceFailed
<1>5. ASSUME TickBegins \/ DoPause \/ DoResume \/ DoRecheck \/ UNCHANGED vars
      PROVE  UNCHANGED disk
  BY <1>5 DEF TickBegins, DoPause, DoResume, DoRecheck, vars, dataVars
<1>6. QED
  BY <1>0, <1>1, <1>2, <1>3, <1>4, <1>5 DEF Next

\* What is intact stays intact.
LEMMA IntactGrows ==
    ASSUME Honest, DataInv, [Next]_vars, NEW p \in Piece, OnDisk(p)
    PROVE  OnDisk(p)'
BY DiskGrows, PieceBlock DEF OnDisk

-----------------------------------------------------------------------------
\* The blocks of a piece handed to a verifier are all there, so what the
\* verifier finds, and what the picker then records, is on disk.
LEMMA HonestDataKept ==
    ASSUME Honest, HonestInv, [Next]_vars
    PROVE  HonestData'
<1> USE DEF HonestInv
<1>0. /\ PickerInv /\ disk \in [Block -> BOOLEAN] /\ states \in [Block -> BlockState]
      /\ verifying \in [Piece -> Nat] /\ reports \in [Piece \X BOOLEAN -> Nat]
      /\ have \subseteq Piece /\ faults \in Nat
  BY DEF DataInv, PickerInv, PickerTypeOK, DownloadTypeOK
<1>1. \A p \in Piece : OnDisk(p) => OnDisk(p)'
  BY IntactGrows
<1>2. \A x \in Block : disk[x] => disk'[x]
  BY DiskGrows
<1>3. ~Fault
  BY <1>0 DEF Honest, Fault
<1> DEFINE BlocksAsBefore == \A x \in Block : states'[x] = "done" => states[x] = "done"
           PiecesAsBefore == have' \subseteq have
           VerdictsAsBefore == /\ \A p \in Piece : verifying'[p] > 0 => verifying[p] > 0
                               /\ UNCHANGED reports
<1>4. BlocksAsBefore => DoneIsOnDisk'
  BY <1>2 DEF HonestData, DoneIsOnDisk
<1>5. PiecesAsBefore => HaveIsOnDisk'
  BY <1>0, <1>1 DEF HonestData, HaveIsOnDisk
<1>6. VerdictsAsBefore => VerdictsAreGood'
  BY <1>1 DEF HonestData, VerdictsAreGood
<1>7. BlocksAsBefore /\ PiecesAsBefore /\ VerdictsAsBefore => HonestData'
  BY <1>4, <1>5, <1>6 DEF HonestData
<1>8. ASSUME NEW pc \in Peer, NEW x \in Block, NEW good \in Answers(pc), OnBlock(pc, x, good)
      PROVE  HonestData'
  <2> DEFINE p == x[1]
  <2>1. p \in Piece /\ x \in BlocksOf(p)
    BY BlockPiece
  <2>2. disk'[x]
    BY <1>0, <1>8 DEF OnBlock, Honest, Answers
  <2>3. /\ verifying' = IF Completes(x) THEN [verifying EXCEPT ![p] = @ + 1] ELSE verifying
        /\ UNCHANGED <<have, reports>>
        /\ \A y \in Block \ {x} : states'[y] = states[y]
    BY <1>0, <1>8 DEF OnBlock, Received
  <2>4. DoneIsOnDisk'
    BY <1>2, <2>2, <2>3 DEF HonestData, DoneIsOnDisk
  <2>5. Completes(x) => OnDisk(p)'
    BY <1>0, <1>2, <2>1, <2>2, LastBlock, PieceBlock DEF OnDisk, HonestData, DoneIsOnDisk
  <2>6. \A q \in Piece : verifying'[q] > 0 => OnDisk(q)'
    BY <1>0, <1>1, <2>1, <2>3, <2>5 DEF HonestData, VerdictsAreGood
  <2>7. VerdictsAreGood'
    BY <1>1, <2>3, <2>6 DEF HonestData, VerdictsAreGood
  <2>8. QED
    BY <1>5, <2>3, <2>4, <2>7 DEF HonestData
<1>9. ASSUME NEW p \in Piece, NEW good \in ExternalData, ApplyExternalPiece(p, good)
      PROVE  HonestData'
  <2>1. BlocksAsBefore /\ PiecesAsBefore /\ UNCHANGED reports
    BY <1>9 DEF ApplyExternalPiece, pickerVars
  <2>2. OnDisk(p)'
    BY <1>0, <1>9, PieceBlock DEF ApplyExternalPiece, Honest, OnDisk
  <2>3. \A q \in Piece \ {p} : verifying'[q] = verifying[q]
    BY <1>0, <1>9 DEF ApplyExternalPiece
  <2>4. VerdictsAreGood'
    BY <1>1, <2>1, <2>2, <2>3 DEF HonestData, VerdictsAreGood
  <2>5. QED
    BY <1>4, <1>5, <2>1, <2>4 DEF HonestData
<1>10. ASSUME NEW p \in Piece, VerifyPiece(p)
       PROVE  HonestData'
  <2>1. BlocksAsBefore /\ PiecesAsBefore
    BY <1>10 DEF VerifyPiece, pickerVars
  <2>2. OnDisk(p)
    BY <1>10 DEF VerifyPiece, HonestData, VerdictsAreGood
  <2>3. reports' = [reports EXCEPT ![<<p, TRUE>>] = @ + 1]
    BY <1>3, <1>10, <2>2 DEF VerifyPiece
  <2>4. /\ \A q \in Piece : reports'[<<q, FALSE>>] = reports[<<q, FALSE>>]
        /\ \A q \in Piece \ {p} : reports'[<<q, TRUE>>] = reports[<<q, TRUE>>]
    BY <1>0, <2>3
  <2>5. \A q \in Piece \ {p} : verifying'[q] = verifying[q]
    BY <1>0, <1>10 DEF VerifyPiece
  <2>6. VerdictsAreGood'
    BY <1>1, <2>2, <2>4, <2>5 DEF HonestData, VerdictsAreGood
  <2>7. QED
    BY <1>4, <1>5, <2>1, <2>6 DEF HonestData
<1>11. ASSUME NEW p \in Piece, PieceVerified(p)
       PROVE  HonestData'
  <2>1. OnDisk(p) /\ UNCHANGED verifying /\ have' = have \cup {p}
    BY <1>11 DEF PieceVerified, MarkVerified, HonestData, VerdictsAreGood
  <2>2. BlocksAsBefore
    BY <1>11 DEF PieceVerified, MarkVerified, ClearProgress
  <2>3. HaveIsOnDisk'
    BY <1>0, <1>1, <2>1 DEF HonestData, HaveIsOnDisk
  <2>4. /\ \A q \in Piece : reports'[<<q, FALSE>>] = reports[<<q, FALSE>>]
        /\ \A q \in Piece \ {p} : reports'[<<q, TRUE>>] = reports[<<q, TRUE>>]
    BY <1>0, <1>11 DEF PieceVerified
  <2>5. VerdictsAreGood'
    BY <1>1, <2>1, <2>4 DEF HonestData, VerdictsAreGood
  <2>6. QED
    BY <1>4, <2>2, <2>3, <2>5 DEF HonestData
<1>12. ASSUME NEW p \in Piece, PieceFailed(p)
       PROVE  FALSE
  <2>1. reports[<<p, FALSE>>] > 0
    BY <1>12 DEF PieceFailed
  <2>2. reports[<<p, FALSE>>] = 0
    BY DEF HonestData, VerdictsAreGood
  <2>3. QED
    BY <2>1, <2>2
<1>13. ASSUME NEW pc \in Peer,
              \/ RegisterPeer(pc) \/ RemovePeer(pc) \/ NetworkStep(pc) \/ OnChokeChanged(pc)
              \/ \E x \in Block : OnReject(pc, x) \/ OnBlockWriteFails(pc, x)
       PROVE  HonestData'
  BY <1>7, <1>13 DEF RegisterPeer, RemovePeer, AvailabilityChange, NetworkStep, OnChokeChanged,
                     OnReject, OnBlockWriteFails, pickerVars, dataVars
<1>14. ASSUME NEW pc \in Peer, TickServes(pc)
       PROVE  HonestData'
  <2>1. /\ \E o : Hand(o)
        /\ UNCHANGED dataVars
    BY <1>14 DEF TickServes
  <2>2. QED
    BY <1>7, <2>1 DEF Hand, dataVars
<1>15. ASSUME TickBegins \/ DoPause \/ DoResume \/ UNCHANGED vars
       PROVE  HonestData'
  BY <1>7, <1>15 DEF TickBegins, Expire, DoPause, ResetAllPending, GiveBack, DoResume,
                     vars, pickerVars, dataVars
<1>16. ASSUME DoRecheck
       PROVE  HonestData'
  <2>1. BlocksAsBefore /\ UNCHANGED <<verifying, reports>>
    BY <1>16 DEF DoRecheck, Found, Publish
  <2>2. HaveIsOnDisk'
    BY <1>1, <1>16 DEF DoRecheck, Found, HaveIsOnDisk
  <2>3. QED
    BY <1>4, <1>6, <2>1, <2>2 DEF HonestData
<1>17. QED
  BY <1>8, <1>9, <1>10, <1>11, <1>12, <1>13, <1>14, <1>15, <1>16 DEF Next

-----------------------------------------------------------------------------
\* Nothing fails to verify, so the picker's bitfield changes only where it is
\* also published and the state settled.
LEMMA HonestLifeKept ==
    ASSUME HonestInv, [Next]_vars
    PROVE  HonestLife'
<1> USE DEF HonestInv
<1>0. /\ state \in {"Downloading", "Seeding", "Paused"} /\ snapshot = have
      /\ Active(state) => (state = "Seeding" <=> Complete)
  BY DEF HonestLife, Running, SnapshotIsHave, SeedingIsComplete
<1> DEFINE Frame == UNCHANGED <<have, priority, snapshot>>
<1>1. Frame => (Complete' <=> Complete)
  BY DEF Complete, Missing
<1>2. Frame /\ UNCHANGED state => HonestLife'
  BY <1>0, <1>1 DEF HonestLife, Running, SnapshotIsHave, SeedingIsComplete
<1>3. ASSUME NEW pc \in Peer,
             \/ RegisterPeer(pc) \/ RemovePeer(pc) \/ NetworkStep(pc) \/ OnChokeChanged(pc)
             \/ \E x \in Block :
                   \/ OnReject(pc, x) \/ OnBlockWriteFails(pc, x)
                   \/ \E good \in Answers(pc) : OnBlock(pc, x, good)
      PROVE  HonestLife'
  BY <1>2, <1>3 DEF RegisterPeer, RemovePeer, AvailabilityChange, NetworkStep, OnChokeChanged,
                    OnReject, OnBlockWriteFails, OnBlock, Received, pickerVars, dataVars
<1>4. ASSUME NEW p \in Piece,
             VerifyPiece(p) \/ \E good \in ExternalData : ApplyExternalPiece(p, good)
      PROVE  HonestLife'
  BY <1>2, <1>4 DEF VerifyPiece, ApplyExternalPiece, pickerVars, torrentVars
<1>5. ASSUME NEW p \in Piece, PieceVerified(p)
      PROVE  HonestLife'
  <2>1. /\ have' = have \cup {p} /\ snapshot' = have' /\ UNCHANGED priority
        /\ state' = Settled(state)
    BY <1>5 DEF PieceVerified, MarkVerified, Publish
  <2>2. Complete => Complete'
    BY <2>1 DEF Complete, Missing
  <2>3. CASE Complete'
    <3>1. state' = "Seeding"
      BY <1>0, <2>1, <2>3, MovedEdges DEF Settled
    <3>2. QED
      BY <2>1, <2>3, <3>1 DEF HonestLife, Running, SnapshotIsHave, SeedingIsComplete
  <2>4. CASE ~Complete'
    <3>1. state' = state /\ ~Complete
      BY <2>1, <2>2, <2>4 DEF Settled
    <3>2. QED
      BY <1>0, <2>1, <2>4, <3>1 DEF HonestLife, Running, SnapshotIsHave, SeedingIsComplete
  <2>5. QED
    BY <2>3, <2>4
<1>6. ASSUME NEW p \in Piece, PieceFailed(p)
      PROVE  FALSE
  <2>1. reports[<<p, FALSE>>] > 0
    BY <1>6 DEF PieceFailed
  <2>2. reports[<<p, FALSE>>] = 0
    BY DEF HonestData, VerdictsAreGood
  <2>3. QED
    BY <2>1, <2>2
<1>7. ASSUME TickBegins \/ \E pc \in Peer : TickServes(pc)
      PROVE  HonestLife'
  <2>1. Frame /\ \E left : TickState(left)
    BY <1>7 DEF TickBegins, Expire, GiveBack, TickServes, Hand, dataVars
  <2>2. QED
    BY <1>0, <1>1, <2>1 DEF TickState, HonestLife, Running, SnapshotIsHave, SeedingIsComplete, Active
<1>8. ASSUME DoPause
      PROVE  HonestLife'
  <2>1. Frame /\ state' = "Paused"
    BY <1>0, <1>8, MovedEdges DEF DoPause, ResetAllPending, GiveBack, dataVars, Active
  <2>2. QED
    BY <1>0, <2>1 DEF HonestLife, Running, SnapshotIsHave, SeedingIsComplete, Active
<1>9. ASSUME DoResume
      PROVE  HonestLife'
  <2>1. Frame /\ state' = IF Complete THEN "Seeding" ELSE "Downloading"
    BY <1>9, MovedEdges DEF DoResume, pickerVars, dataVars
  <2>2. QED
    BY <1>0, <1>1, <2>1 DEF HonestLife, Running, SnapshotIsHave, SeedingIsComplete
<1>10. ASSUME DoRecheck
       PROVE  HonestLife'
  <2>1. snapshot' = have' /\ state' = IF Complete' THEN "Seeding" ELSE "Downloading"
    BY <1>0, <1>10, MovedEdges DEF DoRecheck, Found, Publish
  <2>2. QED
    BY <2>1 DEF HonestLife, Running, SnapshotIsHave, SeedingIsComplete
<1>11. CASE UNCHANGED vars
  BY <1>2, <1>11 DEF vars, pickerVars, torrentVars, dataVars
<1>12. QED
  BY <1>3, <1>4, <1>5, <1>6, <1>7, <1>8, <1>9, <1>10, <1>11 DEF Next

\* A torrent starts with what verification found, and with that only.
LEMMA InitOnDisk ==
    ASSUME Init
    PROVE  have \subseteq Piece /\ \A p \in Piece : p \in have <=> OnDisk(p)
<1>1. PICK H \in SUBSET Piece : have = H /\ disk = [x \in Block |-> x[1] \in H]
  BY DEF Init
<1>2. ASSUME NEW p \in Piece
      PROVE  p \in have <=> OnDisk(p)
  <2>1. \A x \in BlocksOf(p) : x \in Block /\ x[1] = p
    BY PieceBlock
  <2>2. <<p, 0>> \in BlocksOf(p)
    <3>1. NumBlocks[p] \in Nat \ {0}
      BY PickerAssumption
    <3>2. QED
      BY <3>1 DEF BlocksOf
  <2>3. \A x \in BlocksOf(p) : disk[x] <=> p \in have
    BY <1>1, <2>1
  <2>4. QED
    BY <2>2, <2>3 DEF OnDisk
<1>3. QED
  BY <1>1, <1>2

LEMMA InitHonest ==
    ASSUME Init
    PROVE  HonestInv
<1>1. DataInv
  BY InitData
<1>2. DoneIsOnDisk /\ VerdictsAreGood
  <2>1. DoneIsOnDisk
    BY DEF Init, DoneIsOnDisk
  <2>2. \A p \in Piece : verifying[p] = 0 /\ reports[<<p, TRUE>>] = 0 /\ reports[<<p, FALSE>>] = 0
    BY DEF Init
  <2>3. VerdictsAreGood
    <3>1. ~(0 > 0)
      OBVIOUS
    <3>2. QED
      BY <2>2, <3>1, Zenon DEF VerdictsAreGood
  <2>4. QED
    BY <2>1, <2>3
<1>3. HaveIsOnDisk
  BY InitOnDisk DEF HaveIsOnDisk
<1>4. HonestLife
  BY DEF Init, HonestLife, Running, SnapshotIsHave, SeedingIsComplete
<1>5. QED
  BY <1>1, <1>2, <1>3, <1>4 DEF HonestInv, HonestData

\* With honest sources a torrent is never wrong about what it has: no piece
\* fails its hash, whatever is lost, choked, paused, rechecked or brought by
\* web seeds, so no verified bit is ever taken back. (onBlock, verifyPiece,
\* onPieceVerified, MarkFailed)
THEOREM HonestInvariant == ASSUME Honest PROVE Spec => []HonestInv
<1>1. Init => HonestInv
  BY InitHonest
<1>2. HonestInv /\ [Next]_vars => HonestInv'
  <2>1. SUFFICES ASSUME HonestInv, [Next]_vars
                 PROVE  HonestInv'
    OBVIOUS
  <2>2. DataInv'
    BY <2>1, PickerKept, TypeKept, ResolvingKept DEF DataInv, HonestInv
  <2>3. QED
    BY <2>1, <2>2, HonestDataKept, HonestLifeKept DEF HonestInv
<1>3. QED
  BY <1>1, <1>2, PTL DEF Spec

\* What is counted as verified is on disk, what is published is what is
\* counted, and Seeding is being complete. (onPieceVerified, doRecheck,
\* doResume, tick)
THEOREM HonestTorrent ==
    ASSUME Honest
    PROVE  Spec => [](HaveIsOnDisk /\ SnapshotIsHave /\ SeedingIsComplete)
<1>1. HonestInv => HaveIsOnDisk /\ SnapshotIsHave /\ SeedingIsComplete
  BY DEF HonestInv, HonestData, HonestLife
<1>2. QED
  BY <1>1, HonestInvariant, PTL

-----------------------------------------------------------------------------
(* Requests *)

\* What is in flight at a peer is not offered to another: it is not given back,
\* unless its piece has been verified in the meantime.
HeldBack ==
    Remaining > EndgameThreshold =>
        \A pc \in Peer : \A x \in inflight[pc] : x[1] \in have \/ states[x] # "needed"
LostPeersHoldNothing == \A pc \in Peer \ peers : inflight[pc] = {}
AskedInv == AskedOnce /\ HeldBack /\ LostPeersHoldNothing

\* Verified pieces only bring the endgame nearer.
LEMMA EndgameStays ==
    ASSUME PickerInv, have \subseteq have', UNCHANGED priority
    PROVE  Remaining' <= Remaining /\ Remaining \in Nat /\ Remaining' \in Nat
<1>1. Missing' \subseteq Missing /\ Missing \subseteq Piece
  BY DEF Missing
<1>2. IsFiniteSet(Missing) /\ IsFiniteSet(Missing')
  BY <1>1, PiecesFinite, FS_Subset
<1>3. QED
  BY <1>1, <1>2, FS_Subset, FS_CardinalityType DEF Remaining

\* A step that asks for nothing new and gives nothing back that is in flight.
LEMMA NothingAsked ==
    ASSUME PickerInv, DownloadTypeOK, AskedInv, have \subseteq have', UNCHANGED priority,
           peers \subseteq peers' \/ LostPeersHoldNothing',
           \A pc \in Peer : inflight'[pc] \subseteq inflight[pc],
           \A pc \in Peer : \A x \in inflight'[pc] :
               states'[x] = "needed" => states[x] = "needed" \/ x[1] \in have'
    PROVE  AskedInv'
<1>1. Remaining' > EndgameThreshold => Remaining > EndgameThreshold
  BY EndgameStays, PickerAssumption
<1>2. LostPeersHoldNothing'
  BY DEF AskedInv, LostPeersHoldNothing
<1>3. AskedOnce'
  <2>1. SUFFICES ASSUME Remaining' > EndgameThreshold, NEW pc \in Peer, NEW qc \in Peer, pc # qc
                 PROVE  inflight'[pc] \cap inflight'[qc] = {}
    BY DEF AskedOnce
  <2>2. inflight[pc] \cap inflight[qc] = {}
    BY <1>1, <2>1 DEF AskedInv, AskedOnce
  <2>3. QED
    BY <2>2
<1>4. HeldBack'
  BY <1>1 DEF AskedInv, HeldBack
<1>5. QED
  BY <1>2, <1>3, <1>4 DEF AskedInv

\* The peers are gone and what they had in flight with them.
LEMMA NobodyAsked ==
    ASSUME inflight' = [pc \in Peer |-> {}]
    PROVE  AskedInv'
BY DEF AskedInv, AskedOnce, HeldBack, LostPeersHoldNothing

LEMMA NobodyAskedFirst == Init => AskedInv
BY DEF Init, AskedInv, AskedOnce, HeldBack, LostPeersHoldNothing

\* A tick asks a peer only for what nobody else was asked for.
LEMMA ServedKeeps ==
    ASSUME HonestInv, AskedInv, NEW pc \in Peer, TickServes(pc)
    PROVE  AskedInv'
<1>0. /\ PickerInv /\ DownloadTypeOK /\ pc \in peers
      /\ inflight \in [Peer -> SUBSET Block] /\ states \in [Block -> BlockState]
  BY DEF HonestInv, DataInv, DownloadTypeOK, PickerInv, PickerTypeOK, TickServes
<1>1. PICK late \in SUBSET inflight[pc] :
         LET kept == inflight[pc] \ late
             peerHas == IF pc \in choking THEN {} ELSE PeerPieces[pc]
         IN  \E o \in PickOutcomes(peerHas, Pipeline - Cardinality(kept)) :
                /\ Hand(o)
                /\ inflight' = [inflight EXCEPT ![pc] = kept \cup o.requests]
  BY DEF TickServes
<1> DEFINE kept == inflight[pc] \ late
           peerHas == IF pc \in choking THEN {} ELSE PeerPieces[pc]
<1>2. peerHas \in SUBSET Piece
  BY DownloadAssumption
<1>3. PICK o \in PickOutcomes(peerHas, Pipeline - Cardinality(kept)) :
         /\ Hand(o)
         /\ inflight' = [inflight EXCEPT ![pc] = kept \cup o.requests]
  BY <1>1
<1>4. /\ UNCHANGED <<have, priority, peers>>
      /\ states' = [x \in Block |-> IF x \in o.requests THEN "pending" ELSE states[x]]
  BY <1>3 DEF Hand, TickServes
<1>5. \A x \in o.requests : x \in Block /\ x[1] \notin have /\ (InEndgame \/ states[x] = "needed")
  BY <1>0, <1>2, OutcomeShape DEF PickerInv, InProgressIsMissing
<1>6. Remaining' = Remaining
  BY <1>4 DEF Remaining, Missing
<1>7. LostPeersHoldNothing'
  BY <1>0, <1>3, <1>4 DEF AskedInv, LostPeersHoldNothing
<1>8. CASE Remaining > EndgameThreshold
  <2>1. ~InEndgame
    BY <1>8, EndgameStays, <1>0, PickerAssumption, <1>4 DEF InEndgame
  <2>2. \A qc \in Peer : o.requests \cap inflight[qc] = {}
    BY <1>5, <1>8, <2>1 DEF AskedInv, HeldBack
  <2>3. inflight'[pc] \subseteq inflight[pc] \cup o.requests /\ \A qc \in Peer \ {pc} : inflight'[qc] = inflight[qc]
    BY <1>0, <1>3
  <2>4. HeldBack'
    <3>1. \A qc \in Peer : \A x \in inflight'[qc] : x \in Block /\ (x \in o.requests \/ x \in inflight[qc])
      BY <1>0, <1>5, <2>3
    <3>2. \A x \in Block : states'[x] = IF x \in o.requests THEN "pending" ELSE states[x]
      BY <1>4
    <3>3. \A qc \in Peer : \A x \in inflight[qc] : x[1] \in have \/ states[x] # "needed"
      BY <1>8 DEF AskedInv, HeldBack
    <3>4. QED
      BY <1>4, <3>1, <3>2, <3>3 DEF HeldBack
  <2>5. AskedOnce'
    BY <1>0, <1>8, <2>2, <2>3 DEF AskedInv, AskedOnce
  <2>6. QED
    BY <1>7, <2>4, <2>5 DEF AskedInv
<1>9. CASE ~(Remaining > EndgameThreshold)
  BY <1>6, <1>7, <1>9 DEF AskedInv, AskedOnce, HeldBack
<1>10. QED
  BY <1>8, <1>9

LEMMA AskedKept ==
    ASSUME HonestInv, AskedInv, [Next]_vars
    PROVE  AskedInv'
<1>0. /\ PickerInv /\ DownloadTypeOK /\ LostPeersHoldNothing
      /\ inflight \in [Peer -> SUBSET Block] /\ states \in [Block -> BlockState] /\ have \subseteq Piece
  BY DEF HonestInv, DataInv, DownloadTypeOK, PickerInv, PickerTypeOK, AskedInv
<1> DEFINE Frame == UNCHANGED <<have, priority, states>>
<1>1. ASSUME NEW pc \in Peer, RegisterPeer(pc) \/ RemovePeer(pc)
      PROVE  AskedInv'
  <2>1. Frame /\ inflight' = [inflight EXCEPT ![pc] = {}]
    BY <1>1 DEF RegisterPeer, RemovePeer, AvailabilityChange
  <2>2. LostPeersHoldNothing'
    BY <1>0, <1>1, <2>1 DEF RegisterPeer, RemovePeer, LostPeersHoldNothing
  <2>3. \A qc \in Peer : inflight'[qc] \subseteq inflight[qc]
    BY <1>0, <2>1
  <2>4. QED
    BY <1>0, <2>1, <2>2, <2>3, NothingAsked
<1>2. ASSUME NEW pc \in Peer,
             \/ NetworkStep(pc) \/ OnChokeChanged(pc)
             \/ \E x \in Block : OnReject(pc, x) \/ OnBlockWriteFails(pc, x)
      PROVE  AskedInv'
  <2>1. Frame /\ UNCHANGED peers /\ \A qc \in Peer : inflight'[qc] \subseteq inflight[qc]
    BY <1>0, <1>2 DEF NetworkStep, OnChokeChanged, OnReject, OnBlockWriteFails, pickerVars
  <2>2. QED
    BY <1>0, <2>1, NothingAsked
<1>3. ASSUME NEW pc \in Peer, NEW x \in Block, NEW good \in BOOLEAN, OnBlock(pc, x, good)
      PROVE  AskedInv'
  <2>1. UNCHANGED <<have, priority, peers>> /\ \A qc \in Peer : inflight'[qc] \subseteq inflight[qc]
    BY <1>0, <1>3 DEF OnBlock, Received
  <2>2. \A y \in Block : states'[y] = "needed" => states[y] = "needed"
    BY <1>0, <1>3 DEF OnBlock, Received
  <2>3. QED
    BY <1>0, <2>1, <2>2, NothingAsked
<1>4. ASSUME NEW p \in Piece, VerifyPiece(p) \/ \E good \in ExternalData : ApplyExternalPiece(p, good)
      PROVE  AskedInv'
  <2>1. Frame /\ UNCHANGED <<peers, inflight>>
    BY <1>4 DEF VerifyPiece, ApplyExternalPiece, pickerVars, torrentVars
  <2>2. QED
    BY <1>0, <2>1, NothingAsked
<1>5. ASSUME NEW p \in Piece, PieceVerified(p)
      PROVE  AskedInv'
  <2>1. have' = have \cup {p} /\ UNCHANGED <<priority, peers, inflight>>
    BY <1>5 DEF PieceVerified, MarkVerified
  <2>2. \A x \in Block : states'[x] = "needed" => states[x] = "needed" \/ x[1] \in have'
    BY <1>0, <1>5, <2>1 DEF PieceVerified, MarkVerified, ClearProgress
  <2>3. QED
    BY <1>0, <2>1, <2>2, NothingAsked
<1>6. ASSUME NEW p \in Piece, PieceFailed(p)
      PROVE  FALSE
  <2>1. reports[<<p, FALSE>>] > 0
    BY <1>6 DEF PieceFailed
  <2>2. reports[<<p, FALSE>>] = 0
    BY DEF HonestInv, HonestData, VerdictsAreGood
  <2>3. QED
    BY <2>1, <2>2
<1>7. ASSUME TickBegins
      PROVE  AskedInv'
  <2>1. PICK X \in SUBSET Outstanding :
           /\ Expire(X)
           /\ inflight' = [pc \in Peer |-> IF pc \in peers THEN inflight[pc] \ X ELSE inflight[pc]]
    BY <1>7 DEF TickBegins
  <2>2. /\ UNCHANGED <<have, priority, peers>>
        /\ states' = [x \in Block |-> IF x \in X THEN "needed" ELSE states[x]]
    BY <1>7, <2>1 DEF TickBegins, Expire, GiveBack
  <2>3. \A pc \in Peer : inflight'[pc] \subseteq inflight[pc] \ X
    BY <1>0, <2>1 DEF LostPeersHoldNothing
  <2>4. \A pc \in Peer : \A x \in inflight'[pc] : x \in Block /\ states'[x] = states[x]
    BY <1>0, <2>2, <2>3
  <2>5. QED
    BY <1>0, <2>2, <2>3, <2>4, NothingAsked
<1>8. ASSUME DoPause \/ DoRecheck
      PROVE  AskedInv'
  BY <1>8, NobodyAsked DEF DoPause, DoRecheck, ShutdownPeers
<1>9. ASSUME DoResume \/ UNCHANGED vars
      PROVE  AskedInv'
  <2>1. Frame /\ UNCHANGED <<peers, inflight>>
    BY <1>9 DEF DoResume, vars, pickerVars, torrentVars
  <2>2. QED
    BY <1>0, <2>1, NothingAsked
<1>10. QED
  BY <1>1, <1>2, <1>3, <1>4, <1>5, <1>6, <1>7, <1>8, <1>9, ServedKeeps DEF Next, Answers

\* Short of the endgame no two peers are asked for one block, through expiry,
\* chokes, lost peers, pauses and rechecks.  Honest sources are needed: a piece
\* that fails its hash is offered again while late requests of it are in flight.
\* (tick, Expire, expireInflight, onPeerControl)
THEOREM NoBlockAskedTwice == ASSUME Honest PROVE Spec => []AskedOnce
<1>1. Init => AskedInv
  BY NobodyAskedFirst
<1>2. HonestInv /\ AskedInv /\ [Next]_vars => AskedInv'
  BY AskedKept
<1>3. AskedInv => AskedOnce
  BY DEF AskedInv
<1>4. QED
  BY <1>1, <1>2, <1>3, HonestInvariant, PTL DEF Spec

-----------------------------------------------------------------------------
(* With honest sources the torrent implements PieceStore. *)

\* A write leaves the pieces it does not touch as they were.
LEMMA OnePieceWritten ==
    ASSUME Honest, DataInv, [Next]_vars, NEW p \in Piece,
           \A x \in Block : x[1] # p => disk'[x] = disk[x]
    PROVE  \/ {q \in Piece : OnDisk(q)}' = {q \in Piece : OnDisk(q)} \cup {p}
           \/ {q \in Piece : OnDisk(q)}' = {q \in Piece : OnDisk(q)}
<1>1. \A q \in Piece \ {p} : OnDisk(q)' <=> OnDisk(q)
  BY PieceBlock DEF OnDisk
<1>2. OnDisk(p) => OnDisk(p)'
  BY IntactGrows
<1>3. QED
  BY <1>1, <1>2 DEF Found

LEMMA StepImplementsStore ==
    ASSUME Honest, HonestInv, [Next]_vars
    PROVE  [Store!StoreNext]_(Store!storeVars)
<1> USE DEF HonestInv
<1> DEFINE intact == {p \in Piece : OnDisk(p)}
           Stutter == UNCHANGED <<disk, have>>
<1>1. Stutter => UNCHANGED Store!storeVars
  BY DEF Store!storeVars, Found, OnDisk
<1>2. ASSUME NEW p \in Piece, UNCHANGED have,
             \A x \in Block : x[1] # p => disk'[x] = disk[x]
      PROVE  [Store!StoreNext]_(Store!storeVars)
  <2>1. intact' = intact \cup {p} \/ intact' = intact
    BY <1>2, OnePieceWritten
  <2>2. QED
    BY <1>2, <2>1 DEF Store!StoreNext, Store!Written, Store!storeVars
<1>3. ASSUME NEW pc \in Peer, NEW x \in Block, NEW good \in Answers(pc), OnBlock(pc, x, good)
      PROVE  [Store!StoreNext]_(Store!storeVars)
  <2>1. x[1] \in Piece /\ UNCHANGED have
    BY <1>3, BlockPiece DEF OnBlock, Received
  <2>2. \A y \in Block : y[1] # x[1] => disk'[y] = disk[y]
    BY <1>3 DEF OnBlock, DataInv, DownloadTypeOK
  <2>3. QED
    BY <1>2, <2>1, <2>2
<1>4. ASSUME NEW p \in Piece, NEW good \in ExternalData, ApplyExternalPiece(p, good)
      PROVE  [Store!StoreNext]_(Store!storeVars)
  <2>1. UNCHANGED have /\ \A y \in Block : y[1] # p => disk'[y] = disk[y]
    BY <1>4 DEF ApplyExternalPiece, pickerVars
  <2>2. QED
    BY <1>2, <2>1
<1>5. ASSUME NEW p \in Piece, PieceVerified(p)
      PROVE  [Store!StoreNext]_(Store!storeVars)
  <2>1. OnDisk(p) /\ have' = have \cup {p} /\ UNCHANGED disk
    BY <1>5 DEF PieceVerified, MarkVerified, HonestData, VerdictsAreGood
  <2>2. p \in intact /\ intact' = intact
    BY <2>1 DEF Found, OnDisk
  <2>3. QED
    BY <2>1, <2>2 DEF Store!StoreNext, Store!Verified
<1>6. ASSUME NEW p \in Piece, PieceFailed(p)
      PROVE  FALSE
  <2>1. reports[<<p, FALSE>>] > 0
    BY <1>6 DEF PieceFailed
  <2>2. reports[<<p, FALSE>>] = 0
    BY DEF HonestData, VerdictsAreGood
  <2>3. QED
    BY <2>1, <2>2
<1>7. ASSUME DoRecheck
      PROVE  [Store!StoreNext]_(Store!storeVars)
  <2>1. have' = intact /\ UNCHANGED disk
    BY <1>7 DEF DoRecheck, Found, Publish
  <2>2. intact' = intact
    BY <2>1 DEF Found, OnDisk
  <2>3. QED
    BY <2>1, <2>2 DEF Store!StoreNext, Store!Rescan
<1>8. ASSUME NEW pc \in Peer,
             \/ RegisterPeer(pc) \/ RemovePeer(pc) \/ NetworkStep(pc) \/ OnChokeChanged(pc)
             \/ TickServes(pc) \/ \E x \in Block : OnReject(pc, x) \/ OnBlockWriteFails(pc, x)
      PROVE  Stutter
  BY <1>8 DEF RegisterPeer, RemovePeer, AvailabilityChange, NetworkStep, OnChokeChanged,
              OnReject, OnBlockWriteFails, TickServes, Hand, pickerVars, dataVars
<1>9. ASSUME TickBegins \/ DoPause \/ DoResume \/ UNCHANGED vars \/ \E p \in Piece : VerifyPiece(p)
      PROVE  Stutter
  BY <1>9 DEF TickBegins, Expire, GiveBack, DoPause, ResetAllPending, DoResume, VerifyPiece,
              vars, pickerVars, dataVars
<1>10. QED
  BY <1>1, <1>3, <1>4, <1>5, <1>6, <1>7, <1>8, <1>9 DEF Next

\* Nothing is counted as verified before it is intact, and only a recheck
\* revises what is counted: the torrent implements PieceStore. (onBlock,
\* onPieceVerified, doApplyExternalPiece, doRecheck)
THEOREM StoreImplemented == ASSUME Honest PROVE Spec => ImplementsPieceStore
<1>1. Init => Store!StoreInit
  <2>1. SUFFICES ASSUME Init
                 PROVE  Store!StoreInit
    OBVIOUS
  <2>2. QED
    BY <2>1, InitOnDisk DEF Found, Store!StoreInit
<1>2. HonestInv /\ [Next]_vars => [Store!StoreNext]_(Store!storeVars)
  BY StepImplementsStore
<1>3. QED
  BY <1>1, <1>2, HonestInvariant, PTL DEF Spec, ImplementsPieceStore, Store!StoreSpec
=============================================================================
