------------------------------- MODULE Picker -------------------------------
(***************************************************************************)
(* internal/picker: which pieces of a torrent are in progress, which of    *)
(* their blocks are outstanding, and what to ask a peer for next.          *)
(*                                                                         *)
(* A Picker is owned by the torrent actor, so every method is one atomic   *)
(* step.  Time is abstracted: Expire gives back any set of outstanding     *)
(* blocks.  A nil priority slice is the constant function Normal, on which *)
(* the code's fast paths (have.Complete, have.Count) and its scans agree.  *)
(***************************************************************************)
EXTENDS Integers, FiniteSets, Sequences, Priorities

CONSTANTS NumPieces,         \* Config.NumPieces
          NumBlocks,         \* blocks of each piece: ceil(PieceLength(p) / BlockLength)
          MaxActivePieces,   \* Config.MaxActivePieces
          EndgameThreshold   \* Config.EndgameThreshold

Piece == 0 .. NumPieces - 1

ASSUME PickerAssumption ==
    /\ NumPieces \in Nat \ {0}
    /\ NumBlocks \in [Piece -> Nat \ {0}]
    /\ MaxActivePieces \in Nat \ {0}
    /\ EndgameThreshold \in Nat \ {0}

\* A block is named by its piece and its index in the piece.
BlocksOf(p) == {p} \X (0 .. NumBlocks[p] - 1)
Block == UNION {BlocksOf(p) : p \in Piece}

Strategy == {"RarestFirst", "Sequential"}
BlockState == {"needed", "pending", "done"}

VARIABLES have,       \* verified pieces
          active,     \* pieces in progress (the keys of Picker.active)
          states,     \* state of every block; all "needed" outside active
          done,       \* pieceProgress.done of each piece; 0 outside active
          avail,      \* Availability.counts
          priority,   \* effective priority of each piece
          strategy

progress == <<active, states, done>>
pickerVars == <<have, active, states, done, avail, priority, strategy>>

-----------------------------------------------------------------------------
(* Queries *)

Missing == {p \in Piece : priority[p] # Skip /\ p \notin have}
Remaining == Cardinality(Missing)
Complete == Missing = {}
InEndgame == Missing # {} /\ Remaining <= EndgameThreshold

Outstanding == {x \in Block : x[1] \in active /\ states[x] = "pending"}

Wanted(x) == x[1] \in active /\ states[x] # "done"

(***************************************************************************)
(* nextPiece: among the pieces the peer has that are neither verified nor  *)
(* already in progress (act), the best priority tier with something        *)
(* pickable, and in it the first piece (Sequential) or any of the rarest   *)
(* (RarestFirst, which skips pieces whose availability count is zero).     *)
(***************************************************************************)
Pickable(peerHas, act) ==
    {p \in peerHas \ (have \cup act) :
        priority[p] # Skip /\ (strategy = "Sequential" \/ avail[p] > 0)}

\* Mutant of NextPiece: the tiers are ignored.
NextPieceUntiered(peerHas, act) ==
    LET pool == Pickable(peerHas, act)
    IN  {p \in pool : \A q \in pool :
            IF strategy = "Sequential" THEN p <= q ELSE avail[p] <= avail[q]}

NextPiece(peerHas, act) ==
    LET pool == Pickable(peerHas, act)
        tier == {p \in pool : \A q \in pool : priority[q] <= priority[p]}
    IN  IF strategy = "Sequential"
        THEN {p \in tier : \A q \in tier : p <= q}
        ELSE {p \in tier : \A q \in tier : avail[p] <= avail[q]}

\* What fill may hand out of the pieces already in progress.
Offers(peerHas) ==
    {x \in Block : /\ x[1] \in active \cap peerHas
                   /\ \/ states[x] = "needed"
                      \/ InEndgame /\ states[x] = "pending"}

Before(x, y) == x[1] < y[1] \/ (x[1] = y[1] /\ x[2] < y[2])
FirstOf(S, n) == {x \in S : Cardinality({y \in S : Before(y, x)}) < n}

(***************************************************************************)
(* Pick(peerHas, max): fill out the pieces in progress in index order,     *)
(* then start pieces one at a time while the request list has room and     *)
(* fewer than MaxActivePieces are in progress.  Every started piece but    *)
(* the last is handed out whole.  An outcome is the sequence of pieces     *)
(* started and the set of blocks requested.                                *)
(***************************************************************************)
StartOrders == UNION {[1 .. n -> Piece] : n \in 0 .. NumPieces}
Started(s, k) == {s[i] : i \in 1 .. k}
HandedOut(peerHas, s, k) == Offers(peerHas) \cup UNION {BlocksOf(p) : p \in Started(s, k)}

RoomToStart(peerHas, max, s, k) ==
    /\ Cardinality(HandedOut(peerHas, s, k)) < max
    /\ Cardinality(active) + k < MaxActivePieces

StartedInTurn(peerHas, max, s) ==
    /\ \A k \in 1 .. Len(s) :
          /\ RoomToStart(peerHas, max, s, k - 1)
          /\ s[k] \in NextPiece(peerHas, active \cup Started(s, k - 1))
    /\ \/ ~RoomToStart(peerHas, max, s, Len(s))
       \/ NextPiece(peerHas, active \cup Started(s, Len(s))) = {}

Requests(peerHas, max, s) ==
    IF s = <<>> THEN FirstOf(Offers(peerHas), max)
    ELSE LET given == HandedOut(peerHas, s, Len(s) - 1)
         IN  given \cup FirstOf(BlocksOf(s[Len(s)]), max - Cardinality(given))

PickOutcomes(peerHas, max) ==
    IF max <= 0 \/ Complete THEN {[started |-> {}, requests |-> {}]}
    ELSE {[started  |-> Started(s, Len(s)),
           requests |-> Requests(peerHas, max, s)] :
             s \in {o \in StartOrders : StartedInTurn(peerHas, max, o)}}

-----------------------------------------------------------------------------
(* Operations *)

Hand(o) ==
    /\ active' = active \cup o.started
    /\ states' = [x \in Block |-> IF x \in o.requests THEN "pending" ELSE states[x]]
    /\ UNCHANGED <<have, done, avail, priority, strategy>>

Pick(peerHas, max) == \E o \in PickOutcomes(peerHas, max) : Hand(o)

\* Received: the block is recorded only if its piece is in progress and
\* lacks it; the piece is then complete if its counter reaches the block count.
Completes(x) == Wanted(x) /\ done[x[1]] + 1 = NumBlocks[x[1]]

Received(x) ==
    /\ IF Wanted(x)
       THEN /\ states' = [states EXCEPT ![x] = "done"]
            /\ done' = [done EXCEPT ![x[1]] = @ + 1]
       ELSE UNCHANGED <<states, done>>
    /\ UNCHANGED <<have, active, avail, priority, strategy>>

\* Forget the progress of the pieces of S: reset (kept in progress) or delete.
ClearProgress(S) ==
    /\ states' = [x \in Block |-> IF x[1] \in S THEN "needed" ELSE states[x]]
    /\ done' = [p \in Piece |-> IF p \in S THEN 0 ELSE done[p]]

\* Mutant of MarkVerified: the piece stays in progress.
MarkVerifiedOnly(p) ==
    /\ have' = have \cup {p}
    /\ UNCHANGED <<active, states, done, avail, priority, strategy>>

MarkVerified(p) ==
    /\ have' = have \cup {p}
    /\ active' = active \ {p}
    /\ ClearProgress({p})
    /\ UNCHANGED <<avail, priority, strategy>>

\* Mutant of MarkFailed: a piece in progress keeps its blocks.
MarkFailedOnly(p) ==
    /\ have' = have \ {p}
    /\ UNCHANGED <<active, states, done, avail, priority, strategy>>

MarkFailed(p) ==
    /\ IF p \in active
       THEN ClearProgress({p}) /\ UNCHANGED have
       ELSE have' = have \ {p} /\ UNCHANGED <<states, done>>
    /\ UNCHANGED <<active, avail, priority, strategy>>

SetHave(H) ==
    /\ have' = H
    /\ active' = active \ H
    /\ ClearProgress(active \cap H)
    /\ UNCHANGED <<avail, priority, strategy>>

GiveBack(X) ==
    /\ states' = [x \in Block |-> IF x \in X THEN "needed" ELSE states[x]]
    /\ UNCHANGED <<have, active, done, priority, strategy>>

\* Mutant of Expire: outstanding blocks are never given back.
ExpireNothing(X) == X \subseteq Outstanding /\ UNCHANGED pickerVars

Expire(X) == X \subseteq Outstanding /\ GiveBack(X) /\ UNCHANGED avail

ResetAllPending == GiveBack(Outstanding)

SetPriorities(f) ==
    /\ priority' = f
    /\ UNCHANGED <<have, active, states, done, avail, strategy>>

SetStrategy(s) ==
    /\ strategy' = s
    /\ UNCHANGED <<have, active, states, done, avail, priority>>

\* Availability.AddPeer (or Add, for one piece), RemovePeer and Reset.
PeerAdded(a, H) == [p \in Piece |-> IF p \in H THEN a[p] + 1 ELSE a[p]]
PeerRemoved(a, H) == [p \in Piece |-> IF p \in H /\ a[p] > 0 THEN a[p] - 1 ELSE a[p]]
NoPeers == [p \in Piece |-> 0]

AvailabilityChange(a) ==
    /\ avail' = a
    /\ UNCHANGED <<have, active, states, done, priority, strategy>>

PickerInit ==
    /\ have = {}
    /\ active = {}
    /\ states = [x \in Block |-> "needed"]
    /\ done = [p \in Piece |-> 0]
    /\ avail = NoPeers
    /\ priority = [p \in Piece |-> Normal]
    /\ strategy \in Strategy

-----------------------------------------------------------------------------
(* Invariants of the data structure, kept by every operation. *)

PickerTypeOK ==
    /\ have \subseteq Piece
    /\ active \subseteq Piece
    /\ states \in [Block -> BlockState]
    /\ done \in [Piece -> Nat]
    /\ avail \in [Piece -> Nat]
    /\ priority \in [Piece -> Priority]
    /\ strategy \in Strategy

\* A piece is never verified and in progress at once: Pick would hand out
\* blocks of a finished piece, and MarkFailed would reset it instead of
\* forgetting that it is there.
InProgressIsMissing == have \cap active = {}

\* pieceProgress.done counts the blocks that are done.  It is kept apart from
\* the states and is what completion is judged by: one count too few and the
\* piece is never verified, one too many and it is verified with a hole in it.
DoneBlocks(p) == {x \in BlocksOf(p) : states[x] = "done"}
DoneCounts == \A p \in Piece : done[p] = Cardinality(DoneBlocks(p))

\* A piece not in progress has no trace of an earlier attempt.
NoResidue == \A x \in Block : x[1] \notin active => states[x] = "needed"

\* Config.MaxActivePieces bounds the pieces in progress, "what bounds memory".
MemoryBound == Cardinality(active) <= MaxActivePieces

PickerInv ==
    /\ PickerTypeOK
    /\ InProgressIsMissing
    /\ DoneCounts
    /\ NoResidue
    /\ MemoryBound
=============================================================================
