---------------------------- MODULE PickerProofs ----------------------------
(***************************************************************************)
(* Every operation of the picker keeps PickerInv, for any number and sizes *)
(* of pieces.  The modules that own a picker cite these lemmas.            *)
(***************************************************************************)
EXTENDS Picker, FiniteSetTheorems, TLAPS

\* The blocks of a piece are finitely many, as many as NumBlocks says.
LEMMA BlocksFinite ==
    ASSUME NEW p \in Piece
    PROVE  /\ IsFiniteSet(BlocksOf(p))
           /\ Cardinality(BlocksOf(p)) = NumBlocks[p]
<1>1. NumBlocks[p] \in Nat \ {0}
  BY PickerAssumption
<1> DEFINE I == 0 .. NumBlocks[p] - 1
<1>2. IsFiniteSet(I) /\ Cardinality(I) = NumBlocks[p]
  <2>1. 0 \in Int /\ NumBlocks[p] - 1 \in Int
    BY <1>1
  <2>2. /\ IsFiniteSet(I)
        /\ Cardinality(I) = IF 0 > NumBlocks[p] - 1 THEN 0 ELSE (NumBlocks[p] - 1) - 0 + 1
    BY <2>1, FS_Interval
  <2>3. QED
    BY <1>1, <2>2
<1>3. IsFiniteSet({p}) /\ Cardinality({p}) = 1
  BY FS_Singleton
<1>4. BlocksOf(p) = {p} \X I
  BY DEF BlocksOf
<1> HIDE DEF I
<1>5. /\ IsFiniteSet({p} \X I)
      /\ Cardinality({p} \X I) = Cardinality({p}) * Cardinality(I)
  BY <1>2, <1>3, FS_Product, Zenon
<1>6. QED
  BY <1>1, <1>2, <1>3, <1>4, <1>5

\* A block lies in the piece it names, and in no other.
LEMMA BlockPiece ==
    ASSUME NEW x \in Block
    PROVE  x[1] \in Piece /\ x \in BlocksOf(x[1])
BY DEF Block, BlocksOf

LEMMA PieceBlock ==
    ASSUME NEW p \in Piece, NEW x \in BlocksOf(p)
    PROVE  x \in Block /\ x[1] = p
BY DEF Block, BlocksOf

\* There are finitely many pieces.
LEMMA PiecesFinite == IsFiniteSet(Piece)
BY PickerAssumption, FS_Interval DEF Piece

\* A piece counts as many done blocks as it has exactly when all are done.
LEMMA AllDone ==
    ASSUME NEW p \in Piece, PickerInv, done[p] = NumBlocks[p]
    PROVE  \A x \in BlocksOf(p) : states[x] = "done"
<1>1. DoneBlocks(p) \subseteq BlocksOf(p) /\ Cardinality(DoneBlocks(p)) = NumBlocks[p]
  BY DEF PickerInv, DoneCounts, DoneBlocks
<1>2. DoneBlocks(p) = BlocksOf(p)
  BY <1>1, BlocksFinite, FS_Subset
<1>3. QED
  BY <1>2 DEF DoneBlocks

\* A piece that is not in progress has no done block.
LEMMA NothingDone ==
    ASSUME NEW p \in Piece, PickerInv, p \notin active
    PROVE  done[p] = 0
<1>1. DoneBlocks(p) = {}
  BY PieceBlock DEF PickerInv, NoResidue, DoneBlocks
<1>2. QED
  BY <1>1, FS_EmptySet DEF PickerInv, DoneCounts

-----------------------------------------------------------------------------
\* Received counts a block once, and only for a piece in progress.
LEMMA ReceivedInv ==
    ASSUME NEW x \in Block, PickerInv, Received(x)
    PROVE  PickerInv'
<1> USE DEF PickerInv
<1>1. CASE ~Wanted(x)
  BY <1>1 DEF Received, PickerTypeOK, InProgressIsMissing, DoneCounts, DoneBlocks,
              NoResidue, MemoryBound
<1>2. CASE Wanted(x)
  <2> DEFINE p == x[1]
  <2>1. /\ states' = [states EXCEPT ![x] = "done"]
        /\ done' = [done EXCEPT ![p] = @ + 1]
        /\ UNCHANGED <<have, active, avail, priority, strategy>>
        /\ p \in Piece /\ x \in BlocksOf(p) /\ p \in active /\ states[x] # "done"
    BY <1>2, BlockPiece DEF Received, Wanted
  <2>2. PickerTypeOK'
    BY <2>1 DEF PickerTypeOK, BlockState
  <2>3. DoneCounts'
    <3> SUFFICES ASSUME NEW q \in Piece
                 PROVE  done'[q] = Cardinality(DoneBlocks(q)')
      BY DEF DoneCounts
    <3>1. CASE q = p
      <4>1. DoneBlocks(p)' = DoneBlocks(p) \cup {x} /\ x \notin DoneBlocks(p)
        BY <2>1, PieceBlock DEF DoneBlocks, PickerTypeOK
      <4>2. IsFiniteSet(DoneBlocks(p))
        BY <2>1, BlocksFinite, FS_Subset DEF DoneBlocks
      <4>3. Cardinality(DoneBlocks(p)') = Cardinality(DoneBlocks(p)) + 1
        BY <4>1, <4>2, FS_AddElement
      <4>4. QED
        BY <2>1, <3>1, <4>3 DEF PickerTypeOK, DoneCounts
    <3>2. CASE q # p
      <4>1. DoneBlocks(q)' = DoneBlocks(q)
        BY <2>1, <3>2, PieceBlock DEF DoneBlocks, PickerTypeOK
      <4>2. QED
        BY <2>1, <3>2, <4>1 DEF PickerTypeOK, DoneCounts
    <3>3. QED
      BY <3>1, <3>2
  <2>4. InProgressIsMissing' /\ NoResidue' /\ MemoryBound'
    BY <2>1 DEF InProgressIsMissing, NoResidue, MemoryBound, PickerTypeOK
  <2>5. QED
    BY <2>2, <2>3, <2>4
<1>3. QED
  BY <1>1, <1>2

\* Clearing the progress of a set of pieces keeps the counters right.
LEMMA ClearProgressCounts ==
    ASSUME NEW S \in SUBSET Piece, PickerInv, ClearProgress(S)
    PROVE  /\ DoneCounts'
           /\ states' \in [Block -> BlockState]
           /\ done' \in [Piece -> Nat]
           /\ \A x \in Block : x[1] \in S \/ x[1] \notin active => states'[x] = "needed"
<1>1. /\ states' = [x \in Block |-> IF x[1] \in S THEN "needed" ELSE states[x]]
      /\ done' = [p \in Piece |-> IF p \in S THEN 0 ELSE done[p]]
      /\ PickerTypeOK /\ DoneCounts /\ NoResidue
  BY DEF ClearProgress, PickerInv
<1>2. DoneCounts'
  <2> SUFFICES ASSUME NEW q \in Piece
               PROVE  done'[q] = Cardinality(DoneBlocks(q)')
    BY DEF DoneCounts
  <2>1. CASE q \in S
    <3>1. DoneBlocks(q)' = {}
      BY <1>1, <2>1, PieceBlock DEF DoneBlocks
    <3>2. QED
      BY <1>1, <2>1, <3>1, FS_EmptySet
  <2>2. CASE q \notin S
    <3>1. DoneBlocks(q)' = DoneBlocks(q)
      BY <1>1, <2>2, PieceBlock DEF DoneBlocks
    <3>2. QED
      BY <1>1, <2>2, <3>1 DEF DoneCounts
  <2>3. QED
    BY <2>1, <2>2
<1>3. /\ states' \in [Block -> BlockState]
      /\ done' \in [Piece -> Nat]
  BY <1>1 DEF PickerTypeOK, BlockState
<1>4. \A x \in Block : x[1] \in S \/ x[1] \notin active => states'[x] = "needed"
  BY <1>1 DEF NoResidue
<1>5. QED
  BY <1>2, <1>3, <1>4

\* Fewer pieces in progress stay within the memory bound.
LEMMA FewerActive ==
    ASSUME NEW S \in SUBSET active, PickerInv
    PROVE  Cardinality(S) <= MaxActivePieces
<1>1. IsFiniteSet(active)
  BY PiecesFinite, FS_Subset DEF PickerInv, PickerTypeOK
<1>2. /\ Cardinality(S) <= Cardinality(active)
      /\ Cardinality(S) \in Nat /\ Cardinality(active) \in Nat
  BY <1>1, FS_Subset, FS_CardinalityType
<1>3. QED
  BY <1>2, PickerAssumption DEF PickerInv, MemoryBound

LEMMA MarkVerifiedInv ==
    ASSUME NEW p \in Piece, PickerInv, MarkVerified(p)
    PROVE  PickerInv'
<1>1. /\ have' = have \cup {p} /\ active' = active \ {p} /\ ClearProgress({p})
      /\ UNCHANGED <<avail, priority, strategy>>
  BY DEF MarkVerified
<1>2. /\ DoneCounts' /\ states' \in [Block -> BlockState] /\ done' \in [Piece -> Nat]
      /\ \A x \in Block : x[1] \in {p} \/ x[1] \notin active => states'[x] = "needed"
  BY <1>1, ClearProgressCounts
<1>3. NoResidue'
  BY <1>1, <1>2 DEF NoResidue
<1>4. MemoryBound'
  BY <1>1, FewerActive DEF MemoryBound
<1>5. QED
  BY <1>1, <1>2, <1>3, <1>4 DEF PickerInv, PickerTypeOK, InProgressIsMissing

LEMMA MarkFailedInv ==
    ASSUME NEW p \in Piece, PickerInv, MarkFailed(p)
    PROVE  PickerInv'
<1>1. CASE p \in active
  <2>1. ClearProgress({p}) /\ UNCHANGED <<have, active, avail, priority, strategy>>
    BY <1>1 DEF MarkFailed
  <2>2. /\ DoneCounts' /\ states' \in [Block -> BlockState] /\ done' \in [Piece -> Nat]
        /\ \A x \in Block : x[1] \in {p} \/ x[1] \notin active => states'[x] = "needed"
    BY <2>1, ClearProgressCounts
  <2>3. QED
    BY <2>1, <2>2 DEF PickerInv, PickerTypeOK, InProgressIsMissing, NoResidue, MemoryBound
<1>2. CASE p \notin active
  BY <1>2 DEF MarkFailed, PickerInv, PickerTypeOK, InProgressIsMissing, DoneCounts,
              DoneBlocks, NoResidue, MemoryBound
<1>3. QED
  BY <1>1, <1>2

LEMMA SetHaveInv ==
    ASSUME NEW H \in SUBSET Piece, PickerInv, SetHave(H)
    PROVE  PickerInv'
<1>1. /\ have' = H /\ active' = active \ H /\ ClearProgress(active \cap H)
      /\ UNCHANGED <<avail, priority, strategy>>
      /\ active \subseteq Piece
  BY DEF SetHave, PickerInv, PickerTypeOK
<1>2. /\ DoneCounts' /\ states' \in [Block -> BlockState] /\ done' \in [Piece -> Nat]
      /\ \A x \in Block : x[1] \in active \cap H \/ x[1] \notin active => states'[x] = "needed"
  BY <1>1, ClearProgressCounts
<1>3. NoResidue'
  BY <1>1, <1>2 DEF NoResidue
<1>4. MemoryBound'
  BY <1>1, FewerActive DEF MemoryBound
<1>5. QED
  BY <1>1, <1>2, <1>3, <1>4 DEF PickerInv, PickerTypeOK, InProgressIsMissing

\* Giving outstanding blocks back (Expire, ResetAllPending) touches no done block.
LEMMA GiveBackInv ==
    ASSUME NEW X \in SUBSET Outstanding, PickerInv, GiveBack(X), avail' \in [Piece -> Nat]
    PROVE  PickerInv'
<1>1. /\ states' = [x \in Block |-> IF x \in X THEN "needed" ELSE states[x]]
      /\ UNCHANGED <<have, active, done, priority, strategy>>
  BY DEF GiveBack
<1>2. \A p \in Piece : DoneBlocks(p)' = DoneBlocks(p)
  BY <1>1, PieceBlock DEF DoneBlocks, Outstanding
<1>3. QED
  BY <1>1, <1>2 DEF PickerInv, PickerTypeOK, InProgressIsMissing, DoneCounts, NoResidue,
                    MemoryBound, BlockState

-----------------------------------------------------------------------------
\* What may be started is missing and not in progress yet.
LEMMA NextPieceMissing ==
    ASSUME NEW H \in SUBSET Piece, NEW act, NEW p \in NextPiece(H, act)
    PROVE  p \in Piece \ (have \cup act)
BY DEF NextPiece, Pickable

\* At most n pieces are started by an order of length n.
LEMMA StartedBound ==
    ASSUME NEW n \in Nat, NEW s \in [1 .. n -> Piece]
    PROVE  IsFiniteSet(Started(s, n)) /\ Cardinality(Started(s, n)) \in Nat
           /\ Cardinality(Started(s, n)) <= n
<1>1. s \in Surjection(1 .. n, Started(s, n))
  BY DEF Surjection, Started
<1>2. IsFiniteSet(1 .. n) /\ Cardinality(1 .. n) = n
  BY FS_Interval
<1>3. IsFiniteSet(Started(s, n)) /\ Cardinality(Started(s, n)) <= n
  BY <1>1, <1>2, FS_Surjection
<1>4. QED
  BY <1>3, FS_CardinalityType

\* The loop that starts pieces checks the bound before each of them.
LEMMA StartsWithinBound ==
    ASSUME NEW H \in SUBSET Piece, NEW max, PickerInv,
           NEW n \in Nat, NEW s \in [1 .. n -> Piece],
           StartedInTurn(H, max, s)
    PROVE  /\ Started(s, n) \subseteq Piece \ (have \cup active)
           /\ Cardinality(active \cup Started(s, n)) <= MaxActivePieces
<1>1. Len(s) = n
  OBVIOUS
<1>2. \A k \in 1 .. n : /\ RoomToStart(H, max, s, k - 1)
                        /\ s[k] \in NextPiece(H, active \cup Started(s, k - 1))
  BY <1>1 DEF StartedInTurn
<1>3. Started(s, n) \subseteq Piece \ (have \cup active)
  <2>1. ASSUME NEW k \in 1 .. n
        PROVE  s[k] \in Piece \ (have \cup active)
    <3>1. s[k] \in NextPiece(H, active \cup Started(s, k - 1))
      BY <1>2
    <3>2. s[k] \in Piece \ (have \cup (active \cup Started(s, k - 1)))
      BY <3>1, NextPieceMissing
    <3>3. QED
      BY <3>2
  <2>2. QED
    BY <2>1 DEF Started
<1>4. Cardinality(active \cup Started(s, n)) <= MaxActivePieces
  <2>1. /\ IsFiniteSet(active) /\ Cardinality(active) \in Nat
        /\ IsFiniteSet(Started(s, n)) /\ Cardinality(Started(s, n)) \in Nat
        /\ Cardinality(Started(s, n)) <= n
    BY PiecesFinite, FS_Subset, FS_CardinalityType, StartedBound DEF PickerInv, PickerTypeOK
  <2>2. active \cap Started(s, n) = {}
    BY <1>3
  <2>3. Cardinality(active \cup Started(s, n)) = Cardinality(active) + Cardinality(Started(s, n))
    <3>1. Cardinality(active \cup Started(s, n))
          = Cardinality(active) + Cardinality(Started(s, n)) - Cardinality(active \cap Started(s, n))
      BY <2>1, FS_Union
    <3>2. Cardinality(active \cap Started(s, n)) = 0
      BY <2>2, FS_EmptySet
    <3>3. QED
      BY <2>1, <3>1, <3>2
  <2>4. CASE n = 0
    BY <2>1, <2>3, <2>4, FewerActive, PickerAssumption
  <2>5. CASE n > 0
    <3>1. n \in 1 .. n
      BY <2>5
    <3>2. RoomToStart(H, max, s, n - 1)
      BY <1>2, <3>1
    <3>3. Cardinality(active) + (n - 1) < MaxActivePieces
      BY <3>2 DEF RoomToStart
    <3>4. QED
      BY <2>1, <2>3, <3>3, PickerAssumption
  <2>6. QED
    BY <2>4, <2>5
<1>5. QED
  BY <1>3, <1>4

\* Requests are for blocks that have not arrived, of pieces in progress.
LEMMA OutcomeShape ==
    ASSUME NEW H \in SUBSET Piece, NEW max, PickerInv,
           NEW o \in PickOutcomes(H, max)
    PROVE  /\ o.started \subseteq Piece \ (have \cup active)
           /\ Cardinality(active \cup o.started) <= MaxActivePieces
           /\ \A x \in o.requests : /\ x \in Block
                                    /\ x[1] \in active \cup o.started
                                    /\ states[x] # "done"
                                    /\ InEndgame \/ states[x] = "needed"
<1>1. CASE max <= 0 \/ Complete
  <2>1. o = [started |-> {}, requests |-> {}]
    BY <1>1 DEF PickOutcomes
  <2>2. active \cup o.started = active
    BY <2>1
  <2>3. QED
    BY <2>1, <2>2, FewerActive
<1>2. CASE ~(max <= 0 \/ Complete)
  <2>0. PICK n \in Nat : \E t \in [1 .. n -> Piece] :
           /\ StartedInTurn(H, max, t)
           /\ o.started = Started(t, Len(t))
           /\ o.requests = Requests(H, max, t)
    BY <1>2 DEF PickOutcomes, StartOrders
  <2>1. PICK s \in [1 .. n -> Piece] :
           /\ StartedInTurn(H, max, s)
           /\ o.started = Started(s, Len(s))
           /\ o.requests = Requests(H, max, s)
    BY <2>0
  <2>2. Len(s) = n
    OBVIOUS
  <2>3. /\ o.started \subseteq Piece \ (have \cup active)
        /\ Cardinality(active \cup o.started) <= MaxActivePieces
    <3>1. /\ Started(s, n) \subseteq Piece \ (have \cup active)
          /\ Cardinality(active \cup Started(s, n)) <= MaxActivePieces
      BY <2>1, StartsWithinBound
    <3>2. QED
      BY <2>1, <2>2, <3>1
  <2>4. Offers(H) \subseteq {x \in Block : x[1] \in active /\ states[x] # "done"
                                          /\ (InEndgame \/ states[x] = "needed")}
    BY DEF Offers
  <2>5. \A p \in o.started : \A x \in BlocksOf(p) :
           x \in Block /\ x[1] \in o.started /\ states[x] = "needed"
    BY <2>3, PieceBlock DEF PickerInv, NoResidue
  <2>6. o.requests \subseteq Offers(H) \cup UNION {BlocksOf(p) : p \in o.started}
    <3>1. CASE s = <<>>
      BY <2>1, <3>1 DEF Requests, FirstOf
    <3>2. CASE s # <<>>
      <4>1. n > 0
        BY <3>2
      <4>2. s[n] \in o.started /\ Started(s, n - 1) \subseteq o.started
        BY <2>1, <2>2, <4>1 DEF Started
      <4>3. o.requests \subseteq HandedOut(H, s, n - 1) \cup BlocksOf(s[n])
        BY <2>1, <2>2, <3>2 DEF Requests, FirstOf
      <4>4. QED
        BY <4>2, <4>3 DEF HandedOut
    <3>3. QED
      BY <3>1, <3>2
  <2>7. QED
    BY <2>3, <2>4, <2>5, <2>6
<1>3. QED
  BY <1>1, <1>2

LEMMA HandInv ==
    ASSUME NEW H \in SUBSET Piece, NEW max, PickerInv,
           NEW o \in PickOutcomes(H, max), Hand(o)
    PROVE  PickerInv'
<1>1. /\ active' = active \cup o.started
      /\ states' = [x \in Block |-> IF x \in o.requests THEN "pending" ELSE states[x]]
      /\ UNCHANGED <<have, done, avail, priority, strategy>>
  BY DEF Hand
<1>2. /\ o.started \subseteq Piece \ (have \cup active)
      /\ Cardinality(active \cup o.started) <= MaxActivePieces
      /\ \A x \in o.requests : x \in Block /\ x[1] \in active \cup o.started /\ states[x] # "done"
  BY OutcomeShape
<1>3. \A p \in Piece : DoneBlocks(p)' = DoneBlocks(p)
  BY <1>1, <1>2, PieceBlock DEF DoneBlocks
<1>4. PickerTypeOK'
  BY <1>1, <1>2 DEF PickerInv, PickerTypeOK, BlockState
<1>5. DoneCounts'
  BY <1>1, <1>3 DEF PickerInv, DoneCounts
<1>6. NoResidue' /\ InProgressIsMissing' /\ MemoryBound'
  BY <1>1, <1>2 DEF PickerInv, NoResidue, InProgressIsMissing, MemoryBound
<1>7. QED
  BY <1>4, <1>5, <1>6 DEF PickerInv
=============================================================================
