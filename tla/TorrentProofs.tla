----------------------------- MODULE TorrentProofs -----------------------------
(***************************************************************************)
(* Parts of a torrent for every number of pieces, peers and addresses: the *)
(* resume file (Resume), the write cache (WriteCache), the slots of the    *)
(* choker (Choking) and what is selected to be fetched (Selection).        *)
(***************************************************************************)
EXTENDS PickerProofs, WriteCache, Resume, Choking, Selection

(* Resume *)

ResumeRecord == [bits : SUBSET DataPiece, stamp : Nat]

\* The types, with what the names of the sets say of each other: a piece is
\* hashed at most once in a run, and reported at most once.
ResumeTypes ==
    /\ engineOn \in {"off", "run", "saving", "last", "waiting"}
    /\ intact \subseteq DataPiece /\ verified \subseteq DataPiece /\ written \in 0..MaxWrites
    /\ cached \subseteq DataPiece /\ (engineOn # "off" => cached \subseteq hashingPiece)
    /\ hashingPiece \subseteq fetched /\ reported \subseteq fetched /\ fetched \subseteq DataPiece
    /\ reported \cap verified = {} /\ hashingPiece \cap verified = {} /\ hashingPiece \cap reported = {}
    /\ since \in Nat /\ since <= Cardinality(verified)
    /\ saved = NoFile \/ saved \in ResumeRecord
    /\ draft = NoFile \/ draft \in [bits : SUBSET DataPiece, stamp : Nat \cup {NoFile}]

\* While the process runs, what was hashed, or is being hashed and not
\* buffered, is on disk.
RunIsIntact ==
    engineOn # "off" => verified \subseteq intact /\ reported \subseteq intact /\ hashingPiece \ cached \subseteq intact

\* A checkpoint under way holds verified pieces and a time that has been.
DraftIsVerified ==
    engineOn # "off" /\ draft # NoFile =>
        /\ draft.bits \subseteq verified
        /\ draft.stamp # NoFile => draft.stamp <= written
        /\ engineOn = "last" => draft.bits = verified
        /\ engineOn = "last" /\ draft.stamp # NoFile /\ ~disturbed => draft.stamp = written

\* The resume file has a time that has been, and vouches for intact pieces.
SavedIsPast == saved # NoFile => saved.stamp <= written

\* After the last checkpoint only a late flush can outdate the resume file.
StopIsSaved ==
    stopped # NoFile =>
        /\ engineOn \in {"waiting", "off"}
        /\ ~disturbed => saved # NoFile /\ saved.stamp = written /\ saved.bits = stopped

ResumeIInv == ResumeTypes /\ RunIsIntact /\ DraftIsVerified /\ SavedIsPast /\ SavedIsIntact /\ StopIsSaved

\* What the proofs use of the constants and of a resume file.
LEMMA ResumeConstants ==
    /\ IsFiniteSet(DataPiece) /\ MaxWrites \in Nat
    /\ \A f \in ResumeRecord : f # NoFile /\ f.bits \subseteq DataPiece /\ f.stamp \in Nat
BY ResumeAssumption DEF ResumeRecord

LEMMA ResumeInitially == ResumeInit => ResumeIInv
<1>1. Cardinality({}) = 0
  BY FS_EmptySet
<1>2. ASSUME ResumeInit PROVE ResumeTypes
  BY <1>1, <1>2, ResumeConstants DEF ResumeInit, ResumeTypes
<1>3. QED
  BY <1>2 DEF ResumeInit, ResumeIInv, RunIsIntact, DraftIsVerified, SavedIsPast, SavedIsIntact, StopIsSaved

\* A start hashes what is there, or trusts what the resume file vouches for.
LEMMA StartKeepsResume ==
    ASSUME ~FullAllocation, ResumeIInv, ResumeStart
    PROVE  ResumeIInv'
<1> USE DEF ResumeStart, Zeroed, ResumeIInv
<1>1. intact' = intact /\ written' = written
  OBVIOUS
<1>2. verified' \subseteq intact
  BY <1>1 DEF Trusted, SavedIsIntact
<1>3. IsFiniteSet(verified') /\ Cardinality(verified') \in Nat
  BY <1>2, ResumeConstants, FS_Subset, FS_CardinalityType DEF ResumeTypes
<1>4. verified' \subseteq DataPiece
  BY <1>2 DEF ResumeTypes
<1>5. ResumeTypes'
  BY <1>1, <1>3, <1>4 DEF ResumeTypes
<1>6. RunIsIntact' /\ DraftIsVerified'
  BY <1>1, <1>2 DEF RunIsIntact, DraftIsVerified
<1>7. QED
  BY <1>1, <1>5, <1>6 DEF SavedIsPast, SavedIsIntact, StopIsSaved

\* One more piece counts once.
LEMMA VerifiedKeepsResume ==
    ASSUME ResumeIInv, NEW p \in DataPiece, OnVerified(p)
    PROVE  ResumeIInv'
<1> USE DEF OnVerified, Running, ResumeIInv
<1>1. IsFiniteSet(verified) /\ p \notin verified
  BY ResumeConstants, FS_Subset DEF ResumeTypes
<1>2. Cardinality(verified') = Cardinality(verified) + 1
  BY <1>1, FS_AddElement
<1>3. Cardinality(verified) \in Nat
  BY <1>1, FS_CardinalityType
<1>4. ResumeTypes'
  BY <1>2, <1>3 DEF ResumeTypes
<1>5. RunIsIntact'
  BY DEF RunIsIntact
<1>6. DraftIsVerified'
  BY DEF DraftIsVerified
<1>7. QED
  BY <1>4, <1>5, <1>6 DEF SavedIsPast, SavedIsIntact, StopIsSaved

\* The data is written, and only ever gains right pieces: what is recorded of it stays true.
LEMMA WritingKeepsResume ==
    ASSUME ResumeIInv, Touched, intact \subseteq intact', UNCHANGED <<saved, draft>>
    PROVE  /\ written' \in 0..MaxWrites /\ written <= written'
           /\ SavedIsPast' /\ SavedIsIntact'
           /\ (draft # NoFile /\ draft.stamp # NoFile /\ draft.stamp <= written => draft.stamp <= written')
<1>1. written \in 0..MaxWrites /\ MaxWrites \in Nat
  BY ResumeConstants DEF ResumeIInv, ResumeTypes
<1>2. written' \in 0..MaxWrites /\ written <= written'
  BY <1>1 DEF Touched
<1>3. saved # NoFile => saved.stamp \in Nat /\ saved.stamp <= written
  BY ResumeConstants DEF ResumeIInv, ResumeTypes, SavedIsPast
<1>4. SavedIsPast'
  BY <1>1, <1>2, <1>3 DEF SavedIsPast
<1>5. SavedIsIntact'
  <2>1. saved # NoFile /\ saved.stamp = written' => saved.stamp = written
    BY <1>1, <1>2, <1>3
  <2>2. QED
    BY <2>1 DEF SavedIsIntact, ResumeIInv
<1>6. draft # NoFile /\ draft.stamp # NoFile => draft.stamp \in Nat
  BY DEF ResumeIInv, ResumeTypes
<1>7. QED
  BY <1>1, <1>2, <1>4, <1>5, <1>6

LEMMA ResumeKept ==
    ASSUME ~FullAllocation, ResumeIInv, [ResumeNext]_resumeVars
    PROVE  ResumeIInv'
<1> USE DEF ResumeIInv, Running, Saving
<1>1. CASE UNCHANGED resumeVars
  BY <1>1 DEF resumeVars, ResumeTypes, RunIsIntact, DraftIsVerified, SavedIsPast, SavedIsIntact, StopIsSaved
<1>2. CASE ResumeStart
  BY <1>2, StartKeepsResume
<1>3. CASE CheckpointDue \/ StopRun
  BY <1>3 DEF CheckpointDue, StopRun, ResumeTypes, RunIsIntact, DraftIsVerified, SavedIsPast, SavedIsIntact, StopIsSaved
<1>4. CASE StatFiles
  BY <1>4 DEF StatFiles, ResumeTypes, RunIsIntact, DraftIsVerified, SavedIsPast, SavedIsIntact, StopIsSaved
<1>5. CASE Save
  <2>1. draft.stamp \in Nat /\ draft.stamp <= written
    BY <1>5 DEF Save, ResumeTypes, DraftIsVerified
  <2>2. ~ UNCHANGED saved =>
            saved' \in ResumeRecord /\ saved'.bits = draft.bits /\ saved'.stamp = draft.stamp
    BY <1>5, <2>1 DEF Save, BitsSaved, ResumeTypes, ResumeRecord
  <2>3. ResumeTypes'
    <3>1. Cardinality(verified) \in Nat
      BY ResumeConstants, FS_Subset, FS_CardinalityType DEF ResumeTypes
    <3>2. QED
      BY <1>5, <2>2, <3>1 DEF Save, ResumeTypes
  <2>4. RunIsIntact' /\ DraftIsVerified'
    BY <1>5 DEF Save, RunIsIntact, DraftIsVerified
  <2>5. SavedIsPast' /\ SavedIsIntact'
    BY <1>5, <2>1, <2>2 DEF Save, SavedIsPast, SavedIsIntact, DraftIsVerified, RunIsIntact
  <2>6. StopIsSaved'
    <3>1. CASE engineOn = "last"
      <4>1. draft.bits = verified /\ (~disturbed => draft.stamp = written)
        BY <1>5, <3>1 DEF Save, DraftIsVerified
      <4>2. ~disturbed' => saved' = [draft EXCEPT !.bits = draft.bits]
        BY <1>5 DEF Save, BitsSaved
      <4>3. [draft EXCEPT !.bits = draft.bits] \in ResumeRecord
        BY <1>5, <2>1 DEF Save, ResumeTypes, ResumeRecord
      <4>4. ~disturbed' => ~disturbed /\ saved' # NoFile /\ saved'.stamp = draft.stamp /\ saved'.bits = draft.bits
        BY <1>5, <4>2, <4>3, ResumeConstants DEF Save, ResumeTypes
      <4>5. QED
        BY <1>5, <3>1, <4>1, <4>4 DEF Save, StopIsSaved
    <3>2. QED
      BY <1>5, <3>1 DEF Save, StopIsSaved
  <2>7. QED
    BY <2>3, <2>4, <2>5, <2>6
<1>6. CASE RunEnds \/ CrashProcess \/ RemoveResume
  BY <1>6 DEF RunEnds, CrashProcess, RemoveResume, ResumeTypes, RunIsIntact, DraftIsVerified, SavedIsPast,
     SavedIsIntact, StopIsSaved
<1>7. ASSUME NEW p \in DataPiece, CompletesData(p) \/ Rewrites(p) \/ VerifierEnds(p) \/ OnVerified(p) \/ ExternalEdit(p)
      PROVE  ResumeIInv'
  <2>1. CASE CompletesData(p) \/ Rewrites(p)
    <3>1. CASE Touched
      <4>1. intact \subseteq intact' /\ UNCHANGED <<saved, draft>>
        BY <2>1 DEF CompletesData, Rewrites
      <4>2. ResumeTypes'
        BY <2>1, <3>1, <4>1, WritingKeepsResume DEF CompletesData, Rewrites, ResumeTypes
      <4>3. RunIsIntact'
        BY <2>1 DEF CompletesData, Rewrites, RunIsIntact
      <4>4. DraftIsVerified' /\ StopIsSaved'
        BY <2>1, <3>1, <4>1, WritingKeepsResume DEF CompletesData, Rewrites, DraftIsVerified, StopIsSaved
      <4>5. QED
        BY <3>1, <4>1, <4>2, <4>3, <4>4, WritingKeepsResume
    <3>2. CASE UNCHANGED <<intact, written>>
      BY <2>1, <3>2 DEF CompletesData, Rewrites, ResumeTypes, RunIsIntact, DraftIsVerified, SavedIsPast,
         SavedIsIntact, StopIsSaved
    <3>3. QED
      BY <2>1, <3>1, <3>2 DEF CompletesData, Rewrites
  <2>2. CASE VerifierEnds(p)
    <3>1. UNCHANGED <<saved, draft, engineOn, verified, stopped>>
      BY <2>2 DEF VerifierEnds
    <3>2. CASE p \in cached
      <4>1. Touched /\ intact' = intact \cup {p}
        BY <2>2, <3>2 DEF VerifierEnds
      <4>2. ResumeTypes'
        BY <2>2, <3>1, <4>1, WritingKeepsResume DEF VerifierEnds, Released, ResumeTypes
      <4>3. RunIsIntact'
        BY <2>2, <4>1 DEF VerifierEnds, Released, RunIsIntact
      <4>4. DraftIsVerified' /\ StopIsSaved'
        BY <2>2, <3>1, <3>2, <4>1, WritingKeepsResume DEF VerifierEnds, DraftIsVerified, StopIsSaved
      <4>5. QED
        BY <3>1, <4>1, <4>2, <4>3, <4>4, WritingKeepsResume
    <3>3. CASE p \notin cached
      BY <2>2, <3>3 DEF VerifierEnds, Released, ResumeTypes, RunIsIntact, DraftIsVerified, SavedIsPast, SavedIsIntact,
         StopIsSaved
    <3>4. QED
      BY <3>2, <3>3
  <2>3. CASE ExternalEdit(p)
    <3>1. written' \in 0..MaxWrites /\ written \in Nat /\ written' = written + 1
      BY <2>3, ResumeConstants DEF ExternalEdit, ResumeTypes
    <3>2. saved # NoFile => saved.stamp \in Nat /\ saved.stamp <= written
      BY ResumeConstants DEF ResumeTypes, SavedIsPast
    <3>3. SavedIsPast' /\ SavedIsIntact'
      BY <2>3, <3>1, <3>2 DEF ExternalEdit, SavedIsPast, SavedIsIntact
    <3>4. ResumeTypes'
      BY <2>3, <3>1 DEF ExternalEdit, ResumeTypes
    <3>5. QED
      BY <2>3, <3>3, <3>4 DEF ExternalEdit, RunIsIntact, DraftIsVerified, StopIsSaved
  <2>4. QED
    BY <1>7, <2>1, <2>2, <2>3, VerifiedKeepsResume
<1>8. QED
  BY <1>1, <1>2, <1>3, <1>4, <1>5, <1>6, <1>7 DEF ResumeNext

\* openMetadata, Run, checkpoint: unless files are allocated in full, what a torrent takes for verified is on
\* disk, the resume file vouches only for what is, and a clean stop is trusted, through any crashes, stops,
\* failed saves and edits from outside.
THEOREM ResumeIsJustified == ASSUME ~FullAllocation PROVE ResumeSpec => []ResumeInv
<1>1. ResumeIInv => ResumeInv
  <2>1. ASSUME ResumeIInv PROVE ResumeTypeOK
    <3>1. Cardinality(verified) \in Nat /\ Cardinality(DataPiece) \in Nat /\ Cardinality(verified) <= Cardinality(DataPiece)
      BY <2>1, ResumeConstants, FS_Subset, FS_CardinalityType DEF ResumeIInv, ResumeTypes
    <3>2. saved # NoFile => saved.bits \subseteq DataPiece /\ saved.stamp \in 0..MaxWrites
      BY <2>1, ResumeConstants DEF ResumeIInv, ResumeTypes, SavedIsPast
    <3>3. QED
      BY <2>1, <3>1, <3>2 DEF ResumeIInv, ResumeTypes, ResumeTypeOK
  <2>2. QED
    BY <2>1 DEF ResumeIInv, ResumeInv, RunIsIntact, TrustIsJustified, StopIsSaved, CleanStopIsTrusted
<1>2. QED
  BY ResumeInitially, ResumeKept, <1>1, PTL DEF ResumeSpec

-----------------------------------------------------------------------------
(* The write cache *)

BufferedBlocks(B) == {x \in Block : x[1] \in B}
Counts == [Verdict -> Nat]

\* What the two invariants rest on.
CacheTypes ==
    /\ buffered \subseteq Piece /\ used \in Nat
    /\ disk \in [Block -> BOOLEAN]
    /\ reports \in Counts

CacheAccounted == CacheTypes /\ CacheBounded

\* A piece that was reported right is on disk.
ReportsAreTrue == \A p \in Piece : reports[<<p, TRUE>>] > 0 => OnDisk(p)

\* An outcome more, or less.
LEMMA CountStep ==
    ASSUME NEW c \in Counts, NEW v \in Verdict
    PROVE  [c EXCEPT ![v] = @ + 1] \in Counts /\ (c[v] > 0 => [c EXCEPT ![v] = @ - 1] \in Counts)
BY DEF Counts

\* There are finitely many blocks.
LEMMA BlockFinite == IsFiniteSet(Block)
<1> DEFINE T == {BlocksOf(p) : p \in Piece}
           f == [p \in Piece |-> BlocksOf(p)]
<1>1. f \in Surjection(Piece, T)
  BY DEF Surjection
<1>2. IsFiniteSet(T)
  BY <1>1, PiecesFinite, FS_Surjection
<1>3. \A S \in T : IsFiniteSet(S)
  BY BlocksFinite
<1>4. QED
  BY <1>2, <1>3, FS_UNION DEF Block

\* A buffer takes the room of its piece's blocks.
LEMMA BufferedStep ==
    ASSUME NEW B \in SUBSET Piece, NEW p \in Piece \ B
    PROVE  /\ IsFiniteSet(BufferedBlocks(B)) /\ IsFiniteSet(BufferedBlocks(B \cup {p}))
           /\ Cardinality(BufferedBlocks(B)) \in Nat
           /\ Cardinality(BufferedBlocks(B \cup {p})) = Cardinality(BufferedBlocks(B)) + NumBlocks[p]
           /\ NumBlocks[p] \in Nat \ {0}
<1>1. BufferedBlocks(B) \in SUBSET Block /\ BufferedBlocks(B \cup {p}) \in SUBSET Block
  BY DEF BufferedBlocks
<1>2. IsFiniteSet(BufferedBlocks(B)) /\ IsFiniteSet(BufferedBlocks(B \cup {p}))
  BY <1>1, BlockFinite, FS_Subset
<1>3. BufferedBlocks(B \cup {p}) = BufferedBlocks(B) \cup BlocksOf(p)
  BY BlockPiece, PieceBlock DEF BufferedBlocks
<1>4. BufferedBlocks(B) \cap BlocksOf(p) = {}
  BY PieceBlock DEF BufferedBlocks
<1>5. IsFiniteSet(BlocksOf(p)) /\ Cardinality(BlocksOf(p)) = NumBlocks[p]
  BY BlocksFinite
<1>6. Cardinality(BufferedBlocks(B)) \in Nat /\ NumBlocks[p] \in Nat \ {0}
  BY <1>2, FS_CardinalityType, PickerAssumption
<1> HIDE DEF BufferedBlocks
<1>7. Cardinality(BufferedBlocks(B) \cup BlocksOf(p)) =
          Cardinality(BufferedBlocks(B)) + Cardinality(BlocksOf(p)) - Cardinality({})
  BY <1>2, <1>4, <1>5, FS_Union
<1>8. Cardinality({}) = 0 /\ Cardinality(BufferedBlocks(B) \cup BlocksOf(p)) = Cardinality(BufferedBlocks(B \cup {p}))
  BY <1>3, FS_EmptySet, Zenon
<1>9. QED
  BY <1>2, <1>5, <1>6, <1>7, <1>8

LEMMA CacheInitially == CacheInit => CacheAccounted /\ ReportsAreTrue /\ HaveIsOnDisk
<1> SUFFICES ASSUME CacheInit PROVE CacheAccounted /\ ReportsAreTrue /\ HaveIsOnDisk
  OBVIOUS
<1>1. {x \in Block : x[1] \in buffered} = {}
  BY DEF CacheInit
<1>2. MaxBuffered \in Nat
  BY WriteCacheAssumption
<1>3. CacheBounded
  <2>1. used = 0 /\ buffered = {} /\ {x \in Block : x[1] \in buffered} = {}
    BY DEF CacheInit
  <2>2. QED
    BY <2>1, <1>1, <1>2, FS_EmptySet DEF CacheBounded
<1>4. CacheTypes
  BY DEF CacheInit, CacheTypes, Counts, Verdict
<1>5. ReportsAreTrue /\ HaveIsOnDisk
  <2>1. \A p \in Piece : reports[<<p, TRUE>>] = 0
    <3>1. reports = [v \in Verdict |-> 0]
      BY DEF CacheInit
    <3>2. \A p \in Piece : <<p, TRUE>> \in Verdict
      BY DEF Verdict
    <3>3. QED
      BY <3>1, <3>2
  <2>2. have = {}
    BY DEF CacheInit
  <2>3. \A p \in Piece : ~(reports[<<p, TRUE>>] > 0)
    <3>1. ~(0 > 0)
      OBVIOUS
    <3>2. QED
      BY <2>1, <3>1, Zenon
  <2>4. ReportsAreTrue
    BY <2>3 DEF ReportsAreTrue
  <2>5. HaveIsOnDisk
    BY <2>2 DEF HaveIsOnDisk
  <2>6. QED
    BY <2>4, <2>5
<1>6. QED
  BY <1>3, <1>4, <1>5 DEF CacheAccounted

\* WriteBlock and TryVerify keep the account of the buffers, whatever the blocks are.
LEMMA CacheAccountKept ==
    ASSUME CacheAccounted, [CacheNext]_writeCacheVars
    PROVE  CacheAccounted'
<1> USE DEF CacheAccounted
<1>0. CacheBounded <=> used = Cardinality(BufferedBlocks(buffered)) /\ used <= MaxBuffered
  BY DEF CacheBounded, BufferedBlocks
<1>1. CacheBounded' <=> used' = Cardinality(BufferedBlocks(buffered')) /\ used' <= MaxBuffered
  BY DEF CacheBounded, BufferedBlocks
<1>2. MaxBuffered \in Nat /\ Data \subseteq BOOLEAN
  BY WriteCacheAssumption
<1>3. CASE UNCHANGED writeCacheVars
  BY <1>0, <1>1, <1>3 DEF writeCacheVars, pickerVars, cacheVars, verifyVars, CacheTypes
<1>4. CASE Ask \/ GiveUp
  BY <1>0, <1>1, <1>4 DEF Ask, GiveUp, cacheVars, verifyVars, CacheTypes
<1>5. ASSUME NEW x \in Block, NEW good \in Data, CacheOnBlock(x, good) PROVE CacheAccounted'
  <2>1. x[1] \in Piece
    BY BlockPiece
  <2>2. CacheTypes' \/ used' # used
    BY <1>2, <1>5, <2>1 DEF CacheOnBlock, WriteBlock, CacheTypes, cacheVars
  <2>3. CASE x[1] \notin buffered /\ RoomFor(x[1])
    <3>1. buffered' = buffered \cup {x[1]} /\ used' = used + NumBlocks[x[1]] /\ used' <= MaxBuffered
      BY <1>5, <2>3 DEF CacheOnBlock, WriteBlock, RoomFor
    <3>2. used' = Cardinality(BufferedBlocks(buffered')) /\ used' \in Nat
      <4>1. buffered \in SUBSET Piece /\ x[1] \in Piece \ buffered
        BY <2>1, <2>3 DEF CacheTypes
      <4>2. /\ Cardinality(BufferedBlocks(buffered)) \in Nat /\ NumBlocks[x[1]] \in Nat \ {0}
            /\ Cardinality(BufferedBlocks(buffered \cup {x[1]})) = Cardinality(BufferedBlocks(buffered)) + NumBlocks[x[1]]
        BY <4>1, BufferedStep, Zenon
      <4>3. used = Cardinality(BufferedBlocks(buffered))
        BY <1>0
      <4>4. QED
        BY <3>1, <4>2, <4>3
    <3>3. CacheTypes'
      BY <1>2, <1>5, <2>1, <3>1, <3>2 DEF CacheOnBlock, WriteBlock, CacheTypes, cacheVars
    <3>4. QED
      BY <1>1, <3>1, <3>2, <3>3
  <2>4. CASE x[1] \in buffered \/ ~RoomFor(x[1])
    <3>1. buffered' = buffered /\ used' = used
      BY <1>5, <2>4 DEF CacheOnBlock, WriteBlock, RoomFor, cacheVars
    <3>2. CacheTypes'
      BY <1>2, <1>5, <2>1, <3>1 DEF CacheOnBlock, WriteBlock, CacheTypes, cacheVars
    <3>3. QED
      BY <1>0, <1>1, <3>1, <3>2
  <2>5. QED
    BY <2>3, <2>4
<1>6. ASSUME NEW p \in Piece, TakeBuffer(p) PROVE CacheAccounted'
  <2>1. p \in buffered /\ buffered' = buffered \ {p} /\ used' = used - NumBlocks[p]
    BY <1>6 DEF TakeBuffer
  <2>2. p \in Piece \ buffered' /\ buffered' \in SUBSET Piece /\ buffered' \cup {p} = buffered
    BY <2>1 DEF CacheTypes
  <2>3. used' = Cardinality(BufferedBlocks(buffered')) /\ used' \in Nat /\ used' <= MaxBuffered
    <3>1. /\ Cardinality(BufferedBlocks(buffered')) \in Nat /\ NumBlocks[p] \in Nat \ {0}
          /\ Cardinality(BufferedBlocks(buffered' \cup {p})) = Cardinality(BufferedBlocks(buffered')) + NumBlocks[p]
      BY <2>2, BufferedStep, Zenon
    <3>2. used = Cardinality(BufferedBlocks(buffered' \cup {p})) /\ used <= MaxBuffered
      BY <1>0, <2>2
    <3>3. QED
      BY <1>2, <2>1, <3>1, <3>2
  <2>4. CacheTypes'
    BY <1>6, <2>2, <2>3 DEF TakeBuffer, CacheTypes
  <2>5. QED
    BY <1>1, <2>3, <2>4
<1>7. ASSUME NEW p \in Piece, ApplyExternalPiece(p) \/ HashDisk(p) PROVE CacheAccounted'
  <2>1. <<p, OnDisk(p)>> \in Verdict
    <3>1. OnDisk(p) \in BOOLEAN
      BY DEF OnDisk
    <3>2. QED
      BY <3>1 DEF Verdict
  <2>2. reports' = reports \/ reports' = [reports EXCEPT ![<<p, OnDisk(p)>>] = @ + 1]
    BY <1>7 DEF ApplyExternalPiece, HashDisk
  <2>3. reports' \in Counts
    BY <2>1, <2>2, CountStep DEF CacheTypes
  <2>4. disk' \in [Block -> BOOLEAN] /\ UNCHANGED <<buffered, used>>
    BY <1>7 DEF ApplyExternalPiece, HashDisk, cacheVars, CacheTypes
  <2>5. QED
    BY <1>0, <1>1, <2>3, <2>4 DEF CacheTypes
<1>8. ASSUME NEW p \in Piece, NEW ok \in BOOLEAN, HashBuffer(p, ok) \/ CacheSettle(p, ok) PROVE CacheAccounted'
  <2>1. <<p, ok>> \in Verdict /\ <<p, FALSE>> \in Verdict
    BY DEF Verdict
  <2>2. \/ reports' = [reports EXCEPT ![<<p, ok>>] = @ + 1] \/ reports' = [reports EXCEPT ![<<p, FALSE>>] = @ + 1]
        \/ reports[<<p, ok>>] > 0 /\ reports' = [reports EXCEPT ![<<p, ok>>] = @ - 1]
    BY <1>8 DEF HashBuffer, CacheSettle
  <2>3. reports' \in Counts
    BY <2>1, <2>2, CountStep DEF CacheTypes
  <2>4. disk' \in [Block -> BOOLEAN] /\ UNCHANGED <<buffered, used>>
    BY <1>8 DEF HashBuffer, CacheSettle, cacheVars, CacheTypes
  <2>5. QED
    BY <1>0, <1>1, <2>3, <2>4 DEF CacheTypes
<1>9. QED
  BY <1>3, <1>4, <1>5, <1>6, <1>7, <1>8 DEF CacheNext

\* PieceCache: used is what the buffers take and stays within WriteCacheBytes, for blocks of any quality.
THEOREM CacheKeepsItsBound == CacheSpec => []CacheBounded
<1>1. CacheAccounted => CacheBounded
  BY DEF CacheAccounted
<1>2. QED
  BY CacheInitially, CacheAccountKept, <1>1, PTL DEF CacheSpec

\* Only a piece that was reported right is counted as verified.
LEMMA HaveFollowsReports ==
    ASSUME [CacheNext]_writeCacheVars
    PROVE  have' \subseteq have \cup {p \in Piece : reports[<<p, TRUE>>] > 0}
<1>1. CASE UNCHANGED writeCacheVars
  BY <1>1 DEF writeCacheVars, pickerVars
<1>2. CASE Ask \/ GiveUp
  BY <1>2 DEF Ask, GiveUp, Hand, Expire, GiveBack
<1>3. ASSUME NEW x \in Block, NEW good \in Data, CacheOnBlock(x, good) PROVE have' = have
  BY <1>3 DEF CacheOnBlock, Received
<1>4. ASSUME NEW p \in Piece, ApplyExternalPiece(p) \/ TakeBuffer(p) \/ HashDisk(p) PROVE have' = have
  BY <1>4 DEF ApplyExternalPiece, TakeBuffer, HashDisk, pickerVars
<1>5. ASSUME NEW p \in Piece, NEW ok \in BOOLEAN, HashBuffer(p, ok) PROVE have' = have
  BY <1>5 DEF HashBuffer, pickerVars
<1>6. ASSUME NEW p \in Piece, NEW ok \in BOOLEAN, CacheSettle(p, ok)
      PROVE  have' \subseteq have \cup {q \in Piece : reports[<<q, TRUE>>] > 0}
  <2>1. CASE ok
    BY <1>6, <2>1 DEF CacheSettle, MarkVerified
  <2>2. CASE ~ok
    BY <1>6, <2>2 DEF CacheSettle, MarkFailed
  <2>3. QED
    BY <2>1, <2>2
<1>7. QED
  BY <1>1, <1>2, <1>3, <1>4, <1>5, <1>6 DEF CacheNext

\* A piece is reported right once it is on disk.
LEMMA ReportsFollowDisk ==
    ASSUME CacheTypes, [CacheNext]_writeCacheVars, NEW q \in Piece, reports'[<<q, TRUE>>] > 0
    PROVE  reports[<<q, TRUE>>] > 0 \/ OnDisk(q)' \/ (OnDisk(q) /\ UNCHANGED disk)
<1>0. reports \in [Verdict -> Nat] /\ <<q, TRUE>> \in Verdict
  BY DEF CacheTypes, Counts, Verdict
<1>1. CASE UNCHANGED reports
  BY <1>1
<1>2. ASSUME NEW p \in Piece, HashDisk(p) PROVE reports[<<q, TRUE>>] > 0 \/ (OnDisk(q) /\ UNCHANGED disk)
  <2>1. reports' = [reports EXCEPT ![<<p, OnDisk(p)>>] = @ + 1] /\ UNCHANGED disk
    BY <1>2 DEF HashDisk
  <2>2. CASE <<p, OnDisk(p)>> = <<q, TRUE>>
    BY <2>1, <2>2
  <2>3. CASE <<p, OnDisk(p)>> # <<q, TRUE>>
    BY <1>0, <2>1, <2>3
  <2>4. QED
    BY <2>2, <2>3
<1>3. ASSUME NEW p \in Piece, NEW ok \in BOOLEAN, HashBuffer(p, ok) PROVE reports[<<q, TRUE>>] > 0 \/ OnDisk(q)'
  <2>1. CASE reports' = [reports EXCEPT ![<<p, FALSE>>] = @ + 1]
    BY <1>0, <2>1
  <2>2. CASE /\ reports' = [reports EXCEPT ![<<p, ok>>] = @ + 1]
             /\ disk' = [x \in Block |-> (ok /\ x[1] = p) \/ disk[x]]
    <3>1. CASE p = q /\ ok
      <4>1. \A x \in BlocksOf(q) : disk'[x]
        BY <2>2, <3>1, PieceBlock
      <4>2. QED
        BY <4>1 DEF OnDisk
    <3>2. CASE ~(p = q /\ ok)
      BY <1>0, <2>2, <3>2
    <3>3. QED
      BY <3>1, <3>2
  <2>3. QED
    BY <1>3, <2>1, <2>2 DEF HashBuffer
<1>4. ASSUME NEW p \in Piece, NEW ok \in BOOLEAN, CacheSettle(p, ok) PROVE reports[<<q, TRUE>>] > 0
  <2>1. reports[<<p, ok>>] > 0 /\ reports' = [reports EXCEPT ![<<p, ok>>] = @ - 1]
    BY <1>4 DEF CacheSettle
  <2>2. CASE <<p, ok>> = <<q, TRUE>>
    BY <2>1, <2>2
  <2>3. CASE <<p, ok>> # <<q, TRUE>>
    BY <1>0, <2>1, <2>3
  <2>4. QED
    BY <2>2, <2>3
<1>5. UNCHANGED writeCacheVars \/ Ask \/ GiveUp \/ (\E x \in Block, good \in Data : CacheOnBlock(x, good))
      \/ (\E p \in Piece : ApplyExternalPiece(p) \/ TakeBuffer(p)) => UNCHANGED reports
  BY DEF writeCacheVars, verifyVars, Ask, GiveUp, CacheOnBlock, ApplyExternalPiece, TakeBuffer
<1>6. QED
  BY <1>1, <1>2, <1>3, <1>4, <1>5 DEF CacheNext

\* What honest peers and web seeds have brought stays on disk.
LEMMA DiskGrows ==
    ASSUME FALSE \notin Data, CacheTypes, [CacheNext]_writeCacheVars, NEW y \in Block, disk[y]
    PROVE  disk'[y]
<1>0. disk \in [Block -> BOOLEAN] /\ Data \subseteq {TRUE}
  BY WriteCacheAssumption DEF CacheTypes
<1>1. ASSUME NEW x \in Block, NEW good \in Data, CacheOnBlock(x, good) PROVE disk'[y]
  BY <1>0, <1>1 DEF CacheOnBlock
<1>2. ASSUME NEW p \in Piece, ApplyExternalPiece(p) PROVE disk'[y]
  BY <1>0, <1>2 DEF ApplyExternalPiece
<1>3. ASSUME NEW p \in Piece, NEW ok \in BOOLEAN, HashBuffer(p, ok) PROVE disk'[y]
  BY <1>0, <1>3 DEF HashBuffer
<1>4. UNCHANGED writeCacheVars \/ Ask \/ GiveUp \/ (\E p \in Piece : TakeBuffer(p) \/ HashDisk(p))
      \/ (\E p \in Piece, ok \in BOOLEAN : CacheSettle(p, ok)) => UNCHANGED disk
  BY DEF writeCacheVars, Ask, GiveUp, TakeBuffer, HashDisk, CacheSettle
<1>5. QED
  BY <1>1, <1>2, <1>3, <1>4 DEF CacheNext

CacheIInv == CacheAccounted /\ ReportsAreTrue /\ HaveIsOnDisk /\ have \subseteq Piece

LEMMA CacheKept ==
    ASSUME FALSE \notin Data, CacheIInv, [CacheNext]_writeCacheVars
    PROVE  CacheIInv'
<1>1. \A p \in Piece : OnDisk(p) => OnDisk(p)'
  BY DiskGrows, PieceBlock DEF OnDisk, CacheIInv, CacheAccounted
<1>2. CacheAccounted'
  BY CacheAccountKept DEF CacheIInv
<1>3. ReportsAreTrue'
  <2>1. ASSUME NEW q \in Piece, reports'[<<q, TRUE>>] > 0 PROVE OnDisk(q)'
    BY <1>1, <2>1, ReportsFollowDisk DEF CacheIInv, CacheAccounted, ReportsAreTrue
  <2>2. QED
    BY <2>1 DEF ReportsAreTrue
<1>4. have' \subseteq Piece
  BY HaveFollowsReports DEF CacheIInv
<1>5. HaveIsOnDisk'
  BY <1>1, HaveFollowsReports DEF CacheIInv, ReportsAreTrue, HaveIsOnDisk
<1>6. QED
  BY <1>2, <1>3, <1>4, <1>5 DEF CacheIInv

\* onBlock, TryVerify, onPieceVerified: with honest sources every verified piece is on disk, whether its
\* blocks were buffered or written through and whatever flush failed, and the cache keeps its bound.
THEOREM CachedPiecesReachDisk == ASSUME FALSE \notin Data PROVE CacheSpec => []CacheInv
<1>1. CacheInit => CacheIInv
  BY CacheInitially DEF CacheInit, CacheIInv
<1>2. CacheIInv => CacheInv
  BY DEF CacheIInv, CacheAccounted, CacheInv
<1>3. QED
  BY <1>1, CacheKept, <1>2, PTL DEF CacheSpec

-----------------------------------------------------------------------------
(* The slots of the choker *)

\* What the invariant is a consequence of, with the rates of a round as they are.
LEMMA ChokingFinite ==
    ASSUME ChokingTypeOK
    PROVE  /\ IsFiniteSet(interested) /\ IsFiniteSet(unchoked)
           /\ Cardinality(interested) \in Nat /\ Cardinality(unchoked) \in Nat
<1>1. interested \in SUBSET Candidate /\ unchoked \in SUBSET Candidate /\ IsFiniteSet(Candidate)
  BY ChokingAssumption DEF ChokingTypeOK
<1>2. IsFiniteSet(interested) /\ IsFiniteSet(unchoked)
  BY <1>1, FS_Subset
<1>3. QED
  BY <1>2, FS_CardinalityType

\* A round gives the slots to the fastest, and the last one to one of the others.
LEMMA RoundFillsSlots ==
    ASSUME ChokingTypeOK, NEW S \in SUBSET interested, Fastest(S), PickOptimistic(S),
           unchoked' = S \cup ({optimistic'} \ {Nobody})
    PROVE  /\ unchoked' \subseteq interested
           /\ optimistic' \in Candidate \cup {Nobody}
           /\ Cardinality(unchoked') = Least(Slots, Cardinality(interested))
<1> DEFINE n == Cardinality(interested)
<1>0. n \in Nat /\ IsFiniteSet(interested) /\ Slots \in Nat \ {0} /\ Nobody \notin interested
  BY ChokingFinite, ChokingAssumption DEF ChokingTypeOK
<1>1. IsFiniteSet(S) /\ Cardinality(S) \in Nat
  BY <1>0, FS_Subset, FS_CardinalityType
<1>2. Cardinality(S) = Least(RegularSlots, n)
  BY DEF Fastest
<1> HIDE DEF n
<1>3. CASE interested = {}
  <2>1. S = {} /\ optimistic' = Nobody
    BY <1>3 DEF PickOptimistic
  <2>2. unchoked' = {}
    BY <2>1
  <2>3. n = 0 /\ Cardinality(unchoked') = 0
    BY <1>3, <2>2, FS_EmptySet DEF n
  <2>4. QED
    BY <1>0, <2>1, <2>2, <2>3 DEF Least, n
<1>4. CASE interested # {} /\ S = interested
  <2>1. optimistic' = Nobody
    BY <1>4 DEF PickOptimistic, Stays
  <2>2. unchoked' = interested
    BY <1>0, <1>4, <2>1
  <2>3. n <= Slots
    BY <1>0, <1>2, <1>4 DEF Least, RegularSlots, n
  <2>4. QED
    BY <1>0, <2>1, <2>2, <2>3 DEF Least, n
<1>5. CASE interested # {} /\ S # interested
  <2>1. optimistic' \in interested \ S
    BY <1>5 DEF PickOptimistic, Stays
  <2>2. unchoked' = S \cup {optimistic'} /\ unchoked' \subseteq interested
    BY <1>0, <2>1
  <2>3. Cardinality(unchoked') = Cardinality(S) + 1
    BY <1>1, <2>1, <2>2, FS_AddElement
  <2>4. Cardinality(S) <= n /\ Cardinality(S) # n
    BY <1>0, <1>5, FS_Subset DEF n
  <2>5. Cardinality(S) = Slots - 1 /\ Slots <= n
    BY <1>0, <1>1, <1>2, <1>5, <2>4 DEF Least, RegularSlots
  <2>6. QED
    BY <1>0, <2>1, <2>2, <2>3, <2>5 DEF Least, n, ChokingTypeOK
<1>6. QED
  BY <1>3, <1>4, <1>5

LEMMA ChokingInitially == ChokingInit => ChokingInv
<1>1. Slots \in Nat \ {0} /\ Rotation \in Nat \ {0} /\ MaxRate \in Nat
  BY ChokingAssumption
<1> SUFFICES ASSUME ChokingInit PROVE ChokingInv
  OBVIOUS
<1>2. ChokingTypeOK
  <2>1. fresh \in BOOLEAN
    BY Zenon DEF ChokingInit
  <2>2. waited \in 0..Rotation /\ rates \in [Candidate -> 0..MaxRate]
    BY <1>1 DEF ChokingInit
  <2>3. QED
    BY <2>1, <2>2 DEF ChokingInit, ChokingTypeOK
<1>3. WithinSlots
  BY <1>1, FS_EmptySet DEF ChokingInit, WithinSlots
<1>4. QED
  BY <1>2, <1>3 DEF ChokingInit, ChokingInv, SlotsAreEarned

LEMMA ChokingKept ==
    ASSUME ChokingInv, [ChokingNext]_chokingVars
    PROVE  ChokingInv'
<1> USE DEF ChokingInv
<1>0. Slots \in Nat \ {0} /\ Rotation \in Nat \ {0} /\ MaxRate \in Nat
  BY ChokingAssumption
<1>1. CASE UNCHANGED chokingVars
  BY <1>1 DEF chokingVars, ChokingTypeOK, WithinSlots, SlotsAreEarned
<1>2. ASSUME NEW p \in Candidate, PeerArrives(p) \/ PeerLeaves(p) \/ InterestChanges(p)
      PROVE  ChokingInv'
  <2>1. ChokingTypeOK' /\ ~fresh' /\ unchoked' \in SUBSET unchoked
    BY <1>2 DEF PeerArrives, PeerLeaves, InterestChanges, ChokingTypeOK
  <2>2. Cardinality(unchoked') \in Nat /\ Cardinality(unchoked') <= Cardinality(unchoked)
    BY <2>1, ChokingFinite, FS_Subset, FS_CardinalityType
  <2>3. QED
    BY <1>0, <2>1, <2>2, ChokingFinite DEF WithinSlots, SlotsAreEarned
<1>3. CASE RoundPasses
  <2>1. waited' \in 0..Rotation
    BY <1>0, <1>3 DEF RoundPasses, ChokingTypeOK, Least
  <2>2. ChokingTypeOK' /\ ~fresh' /\ unchoked' = unchoked
    BY <1>3, <2>1 DEF RoundPasses, ChokingTypeOK
  <2>3. QED
    BY <2>2 DEF WithinSlots, SlotsAreEarned
<1>4. CASE ChokerRun
  <2>1. PICK S \in SUBSET interested :
            Fastest(S) /\ PickOptimistic(S) /\ unchoked' = S \cup ({optimistic'} \ {Nobody})
    BY <1>4 DEF ChokerRun
  <2>2. /\ unchoked' \subseteq interested
        /\ optimistic' \in Candidate \cup {Nobody}
        /\ Cardinality(unchoked') = Least(Slots, Cardinality(interested))
    BY <2>1, RoundFillsSlots
  <2>3. fresh' = TRUE /\ UNCHANGED <<present, interested, rates>>
    BY <1>4 DEF ChokerRun
  <2>4. waited' \in 0..Rotation
    BY <1>0, <2>1 DEF PickOptimistic, ChokingTypeOK
  <2>5. ChokingTypeOK'
    BY <2>2, <2>3, <2>4 DEF ChokingTypeOK
  <2>6. WithinSlots'
    BY <1>0, <2>2, ChokingFinite DEF WithinSlots, Least
  <2>7. SlotsAreEarned'
    <3>1. \A p \in S, q \in interested \ S : rates[p] >= rates[q]
      BY <2>1 DEF Fastest
    <3>2. unchoked' \ {optimistic'} \subseteq S /\ interested \ unchoked' \subseteq interested \ S
      BY <2>1
    <3>3. QED
      BY <2>2, <2>3, <3>1, <3>2 DEF SlotsAreEarned
  <2>8. QED
    BY <2>5, <2>6, <2>7
<1>5. QED
  BY <1>1, <1>2, <1>3, <1>4 DEF ChokingNext

\* Choker.Run: for any peers, slots and rates no more peers are unchoked than there are slots, and after a
\* round every slot is given to those who earned it, however peers came, left and changed their interest.
THEOREM SlotsAreKept == ChokingSpec => []ChokingInv
BY ChokingInitially, ChokingKept, PTL DEF ChokingSpec

-----------------------------------------------------------------------------
(* What is fetched *)

LEMMA DivisionBounds ==
    ASSUME NEW a \in Nat, NEW l \in Nat \ {0}
    PROVE  /\ a \div l \in Nat
           /\ (a \div l) * l <= a /\ a < (a \div l + 1) * l
  <1>1. a \div l \in Int /\ a % l \in 0 .. l - 1 /\ a = l * (a \div l) + (a % l)
    OBVIOUS
  <1>2. a \div l >= 0
    BY <1>1
  <1> QED
    BY <1>1, <1>2

LEMMA ProductsAreOrdered ==
    ASSUME NEW p \in Nat, NEW q \in Nat, NEW l \in Nat \ {0}
    PROVE  /\ p <= q => p * l <= q * l
           /\ p * l < (q + 1) * l => p <= q
  <1>1. ASSUME p <= q PROVE p * l <= q * l
    <2>1. PICK d \in Nat : q = p + d
      <3>1. q - p \in Nat /\ q = p + (q - p)
        BY <1>1
      <3> QED
        BY <3>1
    <2>2. q * l = p * l + d * l /\ d * l \in Nat
      BY <2>1
    <2> QED
      BY <2>2
  <1>2. ASSUME p * l < (q + 1) * l, ~(p <= q) PROVE FALSE
    <2>1. PICK d \in Nat : p = q + 1 + d
      <3>1. p - q - 1 \in Nat /\ p = q + 1 + (p - q - 1)
        BY <1>2
      <3> QED
        BY <3>1
    <2>2. p * l = (q + 1) * l + d * l /\ d * l \in Nat
      BY <2>1
    <2> QED
      BY <2>2, <1>2
  <1> QED
    BY <1>1, <1>2

LEMMA LayoutFacts ==
    /\ TotalSize \in Nat \ {0} /\ PieceLength \in Nat \ {0}
    /\ \A f \in FileIndex :
          /\ f \in DOMAIN FileOffset /\ f + 1 \in DOMAIN FileOffset
          /\ FileOffset[f] \in Nat /\ FileOffset[f + 1] \in Nat /\ Length(f) \in Nat
          /\ FileOffset[f] <= FileOffset[f + 1] /\ FileOffset[f + 1] <= TotalSize
  <1>1. /\ Len(FileOffset) \in Nat /\ Len(FileOffset) > 1 /\ DOMAIN FileOffset = 1 .. Len(FileOffset)
        /\ \A i \in DOMAIN FileOffset : FileOffset[i] \in Nat
    BY SelectionAssumption
  <1>2. ASSUME NEW f \in FileIndex
        PROVE  /\ f \in DOMAIN FileOffset /\ f + 1 \in DOMAIN FileOffset /\ Len(FileOffset) \in DOMAIN FileOffset
               /\ f <= f + 1 /\ f + 1 <= Len(FileOffset)
    BY <1>1 DEF FileIndex
  <1>3. ASSUME NEW f \in FileIndex
        PROVE  FileOffset[f] <= FileOffset[f + 1] /\ FileOffset[f + 1] <= FileOffset[Len(FileOffset)]
    BY <1>2, SelectionAssumption
  <1>4. ASSUME NEW f \in FileIndex
        PROVE  FileOffset[f] \in Nat /\ FileOffset[f + 1] \in Nat
    BY <1>1, <1>2
  <1>5. TotalSize \in Nat \ {0} /\ PieceLength \in Nat \ {0}
    BY <1>1, SelectionAssumption DEF TotalSize
  <1> QED
    BY <1>2, <1>3, <1>4, <1>5 DEF Length, TotalSize

\* What PiecesOf and the loops over offsets agree on.
LEMMA PiecesOverlap ==
    ASSUME NEW f \in FileIndex, NEW p \in PiecesOf(f)
    PROVE  p \in SelPiece /\ Overlaps(f, p) /\ FirstPiece(f) \in PiecesOf(f) /\ LastPiece(f) \in PiecesOf(f)
  <1> DEFINE from == FileOffset[f]
             to == FileOffset[f + 1]
             l == PieceLength
  <1>1. /\ from \in Nat /\ to \in Nat /\ from < to /\ to <= TotalSize /\ l \in Nat \ {0}
        /\ TotalSize \in Nat \ {0}
        /\ p \in FirstPiece(f) .. LastPiece(f) /\ PiecesOf(f) = FirstPiece(f) .. LastPiece(f)
    BY LayoutFacts DEF PiecesOf, Length
  <1>2. FirstPiece(f) = from \div l /\ LastPiece(f) = (to - 1) \div l /\ PieceOf(TotalSize - 1) = (TotalSize - 1) \div l
    BY DEF FirstPiece, LastPiece, PieceOf
  <1> HIDE DEF from, to, l
  <1>3. /\ from \div l \in Nat /\ from < (from \div l + 1) * l
    BY <1>1, DivisionBounds
  <1>4. /\ (to - 1) \div l \in Nat /\ ((to - 1) \div l) * l <= to - 1
    <2>1. to - 1 \in Nat
      BY <1>1
    <2> QED
      BY <1>1, <2>1, DivisionBounds
  <1>5. (TotalSize - 1) \div l \in Nat /\ TotalSize - 1 < ((TotalSize - 1) \div l + 1) * l
    <2>1. TotalSize - 1 \in Nat
      BY <1>1
    <2> QED
      BY <1>1, <2>1, DivisionBounds
  <1>6. p \in Nat /\ from \div l <= p /\ p <= (to - 1) \div l
    BY <1>1, <1>2, <1>3, <1>4
  <1>7. p * l \in Nat /\ p * l <= to - 1
    <2>1. p * l <= ((to - 1) \div l) * l
      BY <1>6, <1>4, <1>1, ProductsAreOrdered
    <2> QED
      BY <2>1, <1>4, <1>6, <1>1
  <1>8. from < (p + 1) * l
    <2>1. from \div l + 1 <= p + 1 /\ from \div l + 1 \in Nat /\ p + 1 \in Nat
      BY <1>6, <1>3
    <2>2. (from \div l + 1) * l <= (p + 1) * l
      BY <2>1, <1>1, ProductsAreOrdered
    <2>3. (p + 1) * l \in Nat /\ (from \div l + 1) * l \in Nat
      BY <2>1, <1>1
    <2> QED
      BY <2>2, <2>3, <1>3, <1>1
  <1>9. p \in SelPiece
    <2>1. p * l < ((TotalSize - 1) \div l + 1) * l
      <3>1. ((TotalSize - 1) \div l + 1) * l \in Nat
        BY <1>5, <1>1
      <3> QED
        BY <3>1, <1>5, <1>7, <1>1
    <2>2. p <= (TotalSize - 1) \div l
      BY <2>1, <1>5, <1>6, <1>1, ProductsAreOrdered
    <2> QED
      BY <2>2, <1>2, <1>6, <1>5 DEF SelPiece
  <1>10. Overlaps(f, p)
    <2>1. from < TotalSize
      BY <1>1
    <2> QED
      BY <2>1, <1>7, <1>8, <1>1 DEF Overlaps, PieceEnd, from, to, l
  <1>11. FirstPiece(f) \in PiecesOf(f) /\ LastPiece(f) \in PiecesOf(f)
    BY <1>1, <1>2, <1>3, <1>4
  <1> QED
    BY <1>9, <1>10, <1>11

LEMMA LengthHasPieces ==
    ASSUME NEW f \in FileIndex, Length(f) > 0
    PROVE  FirstPiece(f) \in PiecesOf(f)
  <1>1. /\ FileOffset[f] \in Nat /\ FileOffset[f + 1] - 1 \in Nat /\ FileOffset[f] <= FileOffset[f + 1] - 1
    BY LayoutFacts DEF Length
  <1>2. /\ FirstPiece(f) \in Nat /\ FirstPiece(f) * PieceLength <= FileOffset[f]
        /\ LastPiece(f) \in Nat /\ FileOffset[f + 1] - 1 < (LastPiece(f) + 1) * PieceLength
    BY <1>1, LayoutFacts, DivisionBounds DEF FirstPiece, LastPiece, PieceOf
  <1>3. FirstPiece(f) * PieceLength < (LastPiece(f) + 1) * PieceLength
    <2>1. FirstPiece(f) * PieceLength \in Nat /\ (LastPiece(f) + 1) * PieceLength \in Nat
      BY <1>2, LayoutFacts
    <2> QED
      BY <2>1, <1>1, <1>2
  <1>4. FirstPiece(f) <= LastPiece(f)
    BY <1>2, <1>3, LayoutFacts, ProductsAreOrdered
  <1> QED
    BY <1>2, <1>4 DEF PiecesOf

LEMMA HighestFact ==
    ASSUME NEW S \in SUBSET Priority, S # {}
    PROVE  Highest(S) \in S /\ \A y \in S : y <= Highest(S)
  <1>1. \A x \in S : x \in {0, 1, 2, 3}
    BY DEF Priority, Skip, Low, Normal, High
  <1>2. \E x \in S : \A y \in S : y <= x
    <2>1. CASE 3 \in S
      BY <2>1, <1>1
    <2>2. CASE 3 \notin S /\ 2 \in S
      BY <2>2, <1>1
    <2>3. CASE 3 \notin S /\ 2 \notin S /\ 1 \in S
      BY <2>3, <1>1
    <2>4. CASE 3 \notin S /\ 2 \notin S /\ 1 \notin S
      BY <2>4, <1>1
    <2> QED
      BY <2>1, <2>2, <2>3, <2>4
  <1> QED
    BY <1>2 DEF Highest

LEMMA RecomputedFacts ==
    ASSUME NEW fp \in [FileIndex -> Priority], NEW boost \in BOOLEAN
    PROVE  /\ Recomputed(fp, boost) \in [SelPiece -> Priority]
           /\ \A p \in SelPiece :
                 Recomputed(fp, boost)[p] = Skip <=> \A f \in FileIndex : Overlaps(f, p) => fp[f] = Skip
  <1> DEFINE at(p) == {fp[f] : f \in {g \in FileIndex : Overlaps(g, p)}}
             pp == PiecePriorities(fp)
             Skipped(p) == \A f \in FileIndex : Overlaps(f, p) => fp[f] = Skip
  <1>1. ASSUME NEW p \in SelPiece PROVE pp[p] \in Priority /\ (pp[p] = Skip <=> Skipped(p))
    <2>1. pp[p] = Highest({Skip} \cup at(p))
      BY DEF PiecePriorities
    <2>2. ({Skip} \cup at(p)) \in SUBSET Priority /\ ({Skip} \cup at(p)) # {}
      BY DEF Priority
    <2>3. pp[p] \in {Skip} \cup at(p) /\ \A y \in {Skip} \cup at(p) : y <= pp[p]
      <3> HIDE DEF at
      <3> QED
        BY <2>1, <2>2, HighestFact
    <2>4. pp[p] \in Priority
      BY <2>2, <2>3
    <2>5. ASSUME pp[p] = Skip, NEW f \in FileIndex, Overlaps(f, p) PROVE fp[f] = Skip
      <3>1. fp[f] \in at(p) /\ fp[f] \in Priority
        BY <2>5
      <3>2. fp[f] <= Skip
        <4> HIDE DEF at, pp
        <4> QED
          BY <3>1, <2>3, <2>5
      <3> QED
        BY <3>1, <3>2 DEF Priority, Skip, Low, Normal, High
    <2>6. ASSUME Skipped(p) PROVE pp[p] = Skip
      <3>1. at(p) \subseteq {Skip}
        BY <2>6
      <3> QED
        BY <3>1, <2>3
    <2> QED
      BY <2>4, <2>5, <2>6
  <1>2. pp \in [SelPiece -> Priority]
    <2>1. pp = [p \in SelPiece |-> pp[p]]
      BY DEF PiecePriorities
    <2> HIDE DEF pp
    <2> QED
      BY <1>1, <2>1
  <1>3. CASE boost
    <2> DEFINE ends == {p \in SelPiece : \E f \in FileIndex :
                          Length(f) > 0 /\ fp[f] # Skip /\ p \in {FirstPiece(f), LastPiece(f)}}
    <2>1. Recomputed(fp, boost) = [p \in SelPiece |-> IF p \in ends THEN High ELSE pp[p]]
      BY <1>3 DEF Recomputed, BoostFirstAndLast
    <2>2. ASSUME NEW p \in ends PROVE ~Skipped(p)
      <3>1. PICK f \in FileIndex : Length(f) > 0 /\ fp[f] # Skip /\ p \in {FirstPiece(f), LastPiece(f)}
        OBVIOUS
      <3>2. FirstPiece(f) \in PiecesOf(f)
        BY <3>1, LengthHasPieces
      <3>3. p \in PiecesOf(f)
        BY <3>1, <3>2, PiecesOverlap
      <3>4. Overlaps(f, p)
        BY <3>3, PiecesOverlap
      <3> QED
        BY <3>1, <3>4
    <2>3. High \in Priority /\ High # Skip
      BY DEF Priority, High, Skip
    <2> HIDE DEF pp, ends, Skipped
    <2>4. ASSUME NEW p \in SelPiece
          PROVE  Recomputed(fp, boost)[p] \in Priority /\ (Recomputed(fp, boost)[p] = Skip <=> Skipped(p))
      BY <2>1, <2>2, <2>3, <1>1, <1>2
    <2>5. Recomputed(fp, boost) \in [SelPiece -> Priority]
      BY <2>1, <2>3, <1>2
    <2> QED
      BY <2>4, <2>5 DEF Skipped
  <1>4. CASE ~boost
    <2>1. Recomputed(fp, boost) = pp
      BY <1>4 DEF Recomputed
    <2> QED
      BY <2>1, <1>1, <1>2
  <1> QED
    BY <1>3, <1>4

LEMMA Edges ==
    /\ \A s \in {"Added", "FetchingMetadata", "Downloading", "Seeding", "Paused"} :
          Moved(s, "CheckingFiles") = "CheckingFiles"
    /\ \A x \in {"Downloading", "Seeding", "Error"} : Moved("CheckingFiles", x) = x
    /\ \A s \in {"Downloading", "Seeding", "Paused"} : Moved(s, "Seeding") = "Seeding"
    /\ Moved("Paused", "Downloading") = "Downloading"
    /\ \A s \in {"FetchingMetadata", "Downloading", "Seeding"} : Moved(s, "Paused") = "Paused"
    /\ \A x \in State : Moved("Error", x) = "Error"
  BY DEF Moved, CanTransition, transitions, State

\* Boosting makes a piece urgent, never one that is not wanted.
LEMMA BoostedFacts ==
    ASSUME NEW pp \in [SelPiece -> Priority], NEW start \in SelPiece
    PROVE  /\ BoostStreamWindow(start, pp) \in [SelPiece -> Priority]
           /\ \A p \in SelPiece : BoostStreamWindow(start, pp)[p] = Skip <=> pp[p] = Skip
           /\ BoostStreamWindow(start, pp)[start] \in {Skip, High}
  <1>1. High \in Priority /\ High # Skip
    BY DEF Priority, High, Skip
  <1>2. start \in start .. start + Lookahead - 1
    <2>1. start \in Int /\ Lookahead \in Nat \ {0}
      BY SelectionAssumption DEF SelPiece
    <2> QED
      BY <2>1
  <1> QED
    BY <1>1, <1>2 DEF BoostStreamWindow

\* The parts of SelectionInv, and what a torrent without metadata has.
WindowIsUrgent == window # NoWindow => level[window] \in {Skip, High}
ReadersArePlaced == \A r \in Reader : Reads(r) => reader[r].at \in PiecesOf(reader[r].file)
UnopenedIsUnused ==
    /\ ~opened => /\ begun = {} /\ window = NoWindow /\ \A r \in Reader : ~Reads(r)
                  /\ selState \in {"Added", "FetchingMetadata", "Error"}
    /\ opened => selState \in {"Downloading", "Seeding", "Paused", "Error"}
SelectionIInv ==
    /\ SelectionTypeOK /\ SkippedWithItsFiles /\ BlocksHaveTheirFiles /\ SeedingIsComplete
    /\ WindowIsUrgent /\ ReadersArePlaced /\ UnopenedIsUnused

LEMMA ReaderFacts ==
    ASSUME SelectionTypeOK, NEW r \in Reader, Reads(r)
    PROVE  /\ reader[r].file \in FileIndex /\ reader[r].at \in SelPiece
           /\ reader[r].boosted \in SelPiece \cup {NoWindow} /\ reader[r].waiting \in BOOLEAN
           /\ reader[r] = [file |-> reader[r].file, at |-> reader[r].at,
                           boosted |-> reader[r].boosted, waiting |-> reader[r].waiting]
  BY DEF SelectionTypeOK, Reads, NoReader

LEMMA SelectionIInvSuffices ==
    ASSUME SelectionIInv
    PROVE  SelectionInv
  <1>1. ASSUME NEW r \in Reader, Reads(r)
        PROVE  /\ reader[r].at \in PiecesOf(reader[r].file)
               /\ filePriority[reader[r].file] # Skip => level[reader[r].at] # Skip
               /\ window = reader[r].at => level[window] \in {Skip, High}
    <2>1. /\ reader[r].at \in PiecesOf(reader[r].file) /\ opened
          /\ reader[r].file \in FileIndex /\ reader[r].at \in SelPiece
      BY <1>1, ReaderFacts DEF SelectionIInv, ReadersArePlaced, UnopenedIsUnused
    <2>2. Overlaps(reader[r].file, reader[r].at)
      BY <2>1, PiecesOverlap
    <2>3. filePriority[reader[r].file] # Skip => level[reader[r].at] # Skip
      BY <2>1, <2>2 DEF SelectionIInv, SkippedWithItsFiles
    <2>4. reader[r].at # NoWindow
      BY <2>1, LayoutFacts DEF SelPiece, NoWindow
    <2> QED
      BY <2>1, <2>3, <2>4 DEF SelectionIInv, WindowIsUrgent
  <1>2. ReadersAreServed
    BY <1>1 DEF ReadersAreServed
  <1> QED
    BY <1>2 DEF SelectionIInv, SelectionInv

-----------------------------------------------------------------------------
(* One lemma for each part that several actions disturb. *)

\* A setter writes level afresh; the first two parts say what it says.
LEMMA RecomputeKeeps ==
    ASSUME NEW fp \in [FileIndex -> Priority], NEW boost \in BOOLEAN,
           filePriority' = fp, level' = Recomputed(fp, boost)
    PROVE  SkippedWithItsFiles' /\ level' \in [SelPiece -> Priority]
  BY RecomputedFacts DEF SkippedWithItsFiles

LEMMA SkippedPieces ==
    ASSUME NEW fp \in [FileIndex -> Priority], NEW boost \in BOOLEAN,
           NEW p \in SelPiece, NEW f \in FileIndex, p \in PiecesOf(f), Recomputed(fp, boost)[p] # Skip
    PROVE  f \in NeedsAllocation(fp, Recomputed(fp, boost))
  BY DEF NeedsAllocation

LEMMA InitSelection == SelectionInit => SelectionIInv
  <1> SUFFICES ASSUME SelectionInit PROVE SelectionIInv
    OBVIOUS
  <1>1. Normal \in Priority
    BY DEF Priority
  <1>2. SelectionTypeOK
    BY <1>1 DEF SelectionInit, SelectionTypeOK, State, NoWindow
  <1>3. ~opened /\ window = NoWindow /\ begun = {} /\ selState \in {"Added", "FetchingMetadata"}
    BY DEF SelectionInit
  <1>4. \A r \in Reader : ~Reads(r)
    BY DEF SelectionInit, Reads, NoReader
  <1> QED
    BY <1>2, <1>3, <1>4 DEF SelectionIInv, SkippedWithItsFiles, BlocksHaveTheirFiles, SeedingIsComplete,
       WindowIsUrgent, ReadersArePlaced, UnopenedIsUnused

LEMMA NormalizedType ==
    ASSUME NEW given \in Given
    PROVE  Normalized(given) \in [FileIndex -> Priority]
  <1>1. given \in Seq(Priority) /\ Skip \in Priority /\ Normal \in Priority
    BY SelectionAssumption DEF Priority
  <1>2. \A f \in DOMAIN given : given[f] \in Priority
    BY <1>1
  <1> QED
    BY <1>1, <1>2 DEF Normalized

LEMMA OpenMetadataStep ==
    ASSUME SelectionIInv, NEW given \in Given, NEW found \in SUBSET SelPiece, OpenMetadata(given, found)
    PROVE  SelectionIInv'
  <1> DEFINE fp == Normalized(given)
             lv == Recomputed(fp, firstLast)
  <1>1. fp \in [FileIndex -> Priority] /\ firstLast \in BOOLEAN
    BY NormalizedType DEF SelectionIInv, SelectionTypeOK
  <1>2. /\ opened' = TRUE /\ filePriority' = fp /\ window' = NoWindow /\ firstLast' = firstLast
        /\ level' = lv /\ made' = NeedsAllocation(fp, lv) /\ held' \in {found, held}
        /\ begun' = begun /\ reader' = reader /\ changes' = changes
        /\ selState' \in {AfterVerify(Moved(selState, "CheckingFiles")), "Error"}
        /\ ~opened /\ selState \in {"Added", "FetchingMetadata"}
    BY DEF OpenMetadata, Opens
  <1> HIDE DEF fp, lv
  <1>3. begun = {} /\ \A r \in Reader : ~Reads(r)
    BY <1>2 DEF SelectionIInv, UnopenedIsUnused
  <1>4. SkippedWithItsFiles' /\ level' \in [SelPiece -> Priority]
    BY <1>1, <1>2, RecomputeKeeps DEF lv
  <1>5. selState' \in {IF Unfinished' = {} THEN "Seeding" ELSE "Downloading", "Error"}
    BY <1>2, Edges DEF AfterVerify
  <1>6. BlocksHaveTheirFiles'
    <2>1. ASSUME NEW p \in SelPiece, NEW f \in FileIndex, level'[p] # Skip \/ p \in begun', p \in PiecesOf(f)
          PROVE  f \in made'
      BY <2>1, <1>1, <1>2, <1>3, SkippedPieces DEF lv
    <2> QED
      BY <2>1 DEF BlocksHaveTheirFiles
  <1>7. SeedingIsComplete'
    BY <1>5 DEF SeedingIsComplete
  <1>8. SelectionTypeOK'
    <2>1. made' \subseteq FileIndex
      BY <1>2 DEF NeedsAllocation
    <2>2. selState' \in State
      BY <1>5 DEF State
    <2>3. window' \in SelPiece \cup {NoWindow}
      BY <1>2
    <2> QED
      BY <2>1, <2>2, <2>3, <1>1, <1>2, <1>4 DEF SelectionIInv, SelectionTypeOK
  <1>9. WindowIsUrgent' /\ ReadersArePlaced' /\ UnopenedIsUnused'
    BY <1>2, <1>3, <1>5 DEF WindowIsUrgent, ReadersArePlaced, UnopenedIsUnused, Reads
  <1> QED
    BY <1>4, <1>6, <1>7, <1>8, <1>9 DEF SelectionIInv

LEMMA OpenFailsStep ==
    ASSUME SelectionIInv, NEW given \in Given, OpenFails(given)
    PROVE  SelectionIInv'
  <1>1. /\ ~opened /\ opened' = opened /\ selState' = "Error" /\ window' = window /\ level' = level
        /\ held' = held /\ begun' = begun /\ reader' = reader /\ changes' = changes /\ firstLast' = firstLast
        /\ filePriority' = Normalized(given)
    BY DEF OpenFails, Opens
  <1>2. filePriority' \in [FileIndex -> Priority]
    BY <1>1, NormalizedType
  <1>3. made' \subseteq FileIndex
    BY DEF OpenFails, NeedsAllocation
  <1>4. SelectionTypeOK'
    BY <1>1, <1>2, <1>3 DEF SelectionIInv, SelectionTypeOK, State
  <1>5. SkippedWithItsFiles' /\ BlocksHaveTheirFiles' /\ SeedingIsComplete'
    BY <1>1 DEF SkippedWithItsFiles, BlocksHaveTheirFiles, SeedingIsComplete
  <1>6. WindowIsUrgent' /\ ReadersArePlaced' /\ UnopenedIsUnused'
    BY <1>1 DEF SelectionIInv, WindowIsUrgent, ReadersArePlaced, UnopenedIsUnused, Reads
  <1> QED
    BY <1>4, <1>5, <1>6 DEF SelectionIInv

LEMMA FlippedFacts ==
    ASSUME selState \in {"Downloading", "Seeding", "Paused", "Error"}, selState' = Flipped(selState)
    PROVE  SeedingIsComplete' /\ selState' \in {"Downloading", "Seeding", "Paused", "Error"}
  BY Edges DEF Flipped, SeedingIsComplete

LEMMA SetFilePriorityStep ==
    ASSUME SelectionIInv, NEW f \in FileIndex, NEW q \in Priority, DoSetFilePriority(f, q)
    PROVE  SelectionIInv'
  <1> DEFINE fp == [filePriority EXCEPT ![f] = q]
             lv == Recomputed(fp, firstLast)
  <1>1. fp \in [FileIndex -> Priority] /\ firstLast \in BOOLEAN
    BY DEF SelectionIInv, SelectionTypeOK
  <1>2. /\ opened /\ opened' = opened /\ filePriority' = fp /\ window' = NoWindow /\ firstLast' = firstLast
        /\ level' = lv /\ made' = made \cup NeedsAllocation(fp, lv) /\ held' = held
        /\ begun' = begun /\ reader' = reader /\ changes' = changes + 1
        /\ selState' = Flipped(selState)
    BY DEF DoSetFilePriority, Change
  <1> HIDE DEF fp, lv
  <1>3. SkippedWithItsFiles' /\ level' \in [SelPiece -> Priority]
    BY <1>1, <1>2, RecomputeKeeps DEF lv
  <1>4. SeedingIsComplete' /\ selState' \in {"Downloading", "Seeding", "Paused", "Error"}
    BY <1>2, FlippedFacts DEF SelectionIInv, UnopenedIsUnused
  <1>5. BlocksHaveTheirFiles'
    <2>1. ASSUME NEW p \in SelPiece, NEW g \in FileIndex, level'[p] # Skip \/ p \in begun', p \in PiecesOf(g)
          PROVE  g \in made'
      <3>1. CASE level'[p] # Skip
        BY <3>1, <2>1, <1>1, <1>2, SkippedPieces DEF lv
      <3>2. CASE p \in begun
        BY <3>2, <2>1, <1>2 DEF SelectionIInv, BlocksHaveTheirFiles
      <3> QED
        BY <3>1, <3>2, <2>1, <1>2
    <2> QED
      BY <2>1 DEF BlocksHaveTheirFiles
  <1>6. SelectionTypeOK'
    <2>1. made' \subseteq FileIndex
      BY <1>2 DEF NeedsAllocation, SelectionIInv, SelectionTypeOK
    <2>2. selState' \in State /\ changes' \in Nat
      BY <1>2, <1>4 DEF State, SelectionIInv, SelectionTypeOK
    <2> QED
      BY <2>1, <2>2, <1>1, <1>2, <1>3 DEF SelectionIInv, SelectionTypeOK
  <1>7. WindowIsUrgent' /\ ReadersArePlaced' /\ UnopenedIsUnused'
    BY <1>2, <1>4 DEF SelectionIInv, WindowIsUrgent, ReadersArePlaced, UnopenedIsUnused, Reads
  <1> QED
    BY <1>3, <1>4, <1>5, <1>6, <1>7 DEF SelectionIInv

LEMMA AllocationFailsStep ==
    ASSUME SelectionIInv, NEW f \in FileIndex, NEW q \in Priority, AllocationFails(f, q)
    PROVE  SelectionIInv'
  <1>1. /\ opened /\ opened' = opened /\ UNCHANGED <<choiceVars, held, begun, selState, reader>> /\ changes' = changes + 1
        /\ made \subseteq made' /\ made' \subseteq made \cup FileIndex
    BY DEF AllocationFails, Change, NeedsAllocation
  <1>2. SelectionTypeOK'
    BY <1>1 DEF SelectionIInv, SelectionTypeOK, choiceVars
  <1>3. SkippedWithItsFiles' /\ BlocksHaveTheirFiles'
    BY <1>1 DEF SelectionIInv, SkippedWithItsFiles, BlocksHaveTheirFiles, choiceVars
  <1>4. SeedingIsComplete'
    BY <1>1 DEF SelectionIInv, SeedingIsComplete, Unfinished, choiceVars
  <1>5. WindowIsUrgent' /\ ReadersArePlaced' /\ UnopenedIsUnused'
    BY <1>1 DEF SelectionIInv, WindowIsUrgent, ReadersArePlaced, UnopenedIsUnused, Reads, choiceVars
  <1> QED
    BY <1>2, <1>3, <1>4, <1>5 DEF SelectionIInv

\* What only makes pieces urgent, or less so, wants the same pieces.
LEMMA SameSkips ==
    ASSUME SelectionIInv, opened, UNCHANGED <<filePriority, held, begun, made, opened, selState>>,
           \A p \in SelPiece : level'[p] = Skip <=> level[p] = Skip
    PROVE  SkippedWithItsFiles' /\ BlocksHaveTheirFiles' /\ SeedingIsComplete'
  <1>1. SkippedWithItsFiles'
    BY DEF SelectionIInv, SkippedWithItsFiles
  <1>2. BlocksHaveTheirFiles'
    BY DEF SelectionIInv, BlocksHaveTheirFiles
  <1>3. Unfinished' = Unfinished
    BY DEF Unfinished
  <1>4. SeedingIsComplete'
    BY <1>3 DEF SelectionIInv, SeedingIsComplete
  <1> QED
    BY <1>1, <1>2, <1>4

LEMMA SetFirstLastStep ==
    ASSUME SelectionIInv, NEW enabled \in BOOLEAN, DoSetFirstLastPieceFirst(enabled)
    PROVE  SelectionIInv'
  <1>1. /\ opened /\ opened' = opened /\ firstLast' = enabled /\ window' = NoWindow
        /\ UNCHANGED <<filePriority, held, begun, made, selState, reader>> /\ changes' = changes + 1
        /\ filePriority \in [FileIndex -> Priority]
        /\ level' = Recomputed(filePriority, enabled)
    BY DEF DoSetFirstLastPieceFirst, Change, SelectionIInv, SelectionTypeOK
  <1>2. SkippedWithItsFiles' /\ level' \in [SelPiece -> Priority]
    BY <1>1, RecomputeKeeps
  <1>3. \A p \in SelPiece : level'[p] = Skip <=> level[p] = Skip
    BY <1>1, <1>2 DEF SelectionIInv, SkippedWithItsFiles
  <1>4. SkippedWithItsFiles' /\ BlocksHaveTheirFiles' /\ SeedingIsComplete'
    BY <1>1, <1>3, SameSkips
  <1>5. SelectionTypeOK'
    BY <1>1, <1>2 DEF SelectionIInv, SelectionTypeOK
  <1>6. WindowIsUrgent' /\ ReadersArePlaced' /\ UnopenedIsUnused'
    BY <1>1 DEF SelectionIInv, WindowIsUrgent, ReadersArePlaced, UnopenedIsUnused, Reads
  <1> QED
    BY <1>4, <1>5, <1>6 DEF SelectionIInv

LEMMA AskStep ==
    ASSUME SelectionIInv, NEW p \in SelPiece, AskPiece(p) \/ ExternalPiece(p)
    PROVE  SelectionIInv'
  <1>1. /\ opened /\ begun' = begun \cup {p}
        /\ UNCHANGED <<filePriority, firstLast, level, window, held, made, opened, selState, reader, changes>>
        /\ level[p] # Skip \/ \A f \in FileIndex : p \in PiecesOf(f) => f \in made
    BY DEF AskPiece, ExternalPiece, choiceVars
  <1>2. SelectionTypeOK'
    BY <1>1 DEF SelectionIInv, SelectionTypeOK
  <1>3. SkippedWithItsFiles'
    BY <1>1 DEF SelectionIInv, SkippedWithItsFiles
  <1>4. BlocksHaveTheirFiles'
    BY <1>1 DEF SelectionIInv, BlocksHaveTheirFiles
  <1>5. SeedingIsComplete'
    BY <1>1 DEF SelectionIInv, SeedingIsComplete, Unfinished
  <1>6. WindowIsUrgent' /\ ReadersArePlaced' /\ UnopenedIsUnused'
    BY <1>1 DEF SelectionIInv, WindowIsUrgent, ReadersArePlaced, UnopenedIsUnused, Reads
  <1> QED
    BY <1>2, <1>3, <1>4, <1>5, <1>6 DEF SelectionIInv

\* What changes only the state and what is held.
LEMMA ProgressKeeps ==
    ASSUME SelectionIInv, opened, UNCHANGED <<choiceVars, begun, made, opened, reader>>,
           changes' \in Nat, held' \in SUBSET SelPiece,
           selState' \in {"Downloading", "Seeding", "Paused", "Error"}, SeedingIsComplete'
    PROVE  SelectionIInv'
  <1>1. UNCHANGED <<filePriority, firstLast, level, window, begun, made, opened, reader>>
    BY DEF choiceVars
  <1>2. SelectionTypeOK'
    BY <1>1 DEF SelectionIInv, SelectionTypeOK, State
  <1>3. SkippedWithItsFiles' /\ BlocksHaveTheirFiles'
    BY <1>1 DEF SelectionIInv, SkippedWithItsFiles, BlocksHaveTheirFiles
  <1>4. WindowIsUrgent' /\ ReadersArePlaced' /\ UnopenedIsUnused'
    BY <1>1 DEF SelectionIInv, WindowIsUrgent, ReadersArePlaced, UnopenedIsUnused, Reads
  <1> QED
    BY <1>2, <1>3, <1>4 DEF SelectionIInv

LEMMA VerifiedStep ==
    ASSUME SelectionIInv, NEW p \in SelPiece, OnPieceVerified(p)
    PROVE  SelectionIInv'
  <1>1. /\ p \in begun /\ p \notin held /\ held' = held \cup {p}
        /\ UNCHANGED <<choiceVars, begun, made, opened, reader, changes>>
        /\ selState' = IF Unfinished' = {} THEN Moved(selState, "Seeding") ELSE selState
    BY DEF OnPieceVerified
  <1>2. opened /\ selState \in {"Downloading", "Seeding", "Paused", "Error"} /\ "Seeding" \in State
    BY <1>1 DEF SelectionIInv, UnopenedIsUnused, State
  <1>3. held' \in SUBSET SelPiece /\ changes' \in Nat
    BY <1>1 DEF SelectionIInv, SelectionTypeOK
  <1>4. CASE selState = "Error"
    <2>1. selState' = "Error"
      BY <1>1, <1>2, <1>4, Edges
    <2>2. SeedingIsComplete'
      BY <2>1 DEF SeedingIsComplete
    <2> QED
      BY <1>1, <1>2, <1>3, <2>1, <2>2, ProgressKeeps
  <1>5. CASE selState # "Error"
    <2>1. selState \in {"Downloading", "Seeding", "Paused"}
      BY <1>2, <1>5
    <2>2. selState' = IF Unfinished' = {} THEN "Seeding" ELSE selState
      BY <1>1, <2>1, Edges
    <2>3. Unfinished' \subseteq Unfinished
      BY <1>1 DEF Unfinished, choiceVars
    <2>4. selState = "Seeding" => Unfinished' = {}
      BY <2>3, <1>2 DEF SelectionIInv, SeedingIsComplete
    <2>5. SeedingIsComplete'
      BY <2>1, <2>2, <2>4 DEF SeedingIsComplete
    <2> QED
      BY <1>1, <1>2, <1>3, <2>1, <2>2, <2>5, ProgressKeeps
  <1> QED
    BY <1>4, <1>5

LEMMA PauseStep ==
    ASSUME SelectionIInv, DoPause \/ DoResume
    PROVE  SelectionIInv'
  <1>1. opened /\ UNCHANGED <<choiceVars, held, begun, made, opened, reader, changes>>
    BY DEF DoPause, DoResume
  <1>2. selState \in {"Downloading", "Seeding", "Paused", "Error"}
    BY <1>1 DEF SelectionIInv, UnopenedIsUnused
  <1>3. held' \in SUBSET SelPiece /\ changes' \in Nat
    BY <1>1 DEF SelectionIInv, SelectionTypeOK
  <1>4. Unfinished' = Unfinished
    BY <1>1 DEF Unfinished, choiceVars
  <1>5. CASE DoPause
    <2>1. selState' = "Paused"
      BY <1>2, <1>5, Edges DEF DoPause, Active
    <2> QED
      BY <2>1, <1>1, <1>3, ProgressKeeps DEF SeedingIsComplete
  <1>6. CASE DoResume
    <2>1. selState' = IF Unfinished = {} THEN "Seeding" ELSE "Downloading"
      BY <1>6, Edges DEF DoResume
    <2>2. SeedingIsComplete'
      BY <2>1, <1>4 DEF SeedingIsComplete
    <2> QED
      BY <2>1, <2>2, <1>1, <1>3, ProgressKeeps
  <1> QED
    BY <1>5, <1>6

LEMMA RecheckStep ==
    ASSUME SelectionIInv, NEW found \in SUBSET (held \cup begun), DoRecheck(found)
    PROVE  SelectionIInv'
  <1>1. /\ opened /\ changes' = changes + 1 /\ UNCHANGED <<choiceVars, begun, made, opened, reader>>
    BY DEF DoRecheck, Change
  <1>2. selState \in {"Downloading", "Seeding", "Paused", "Error"}
    BY <1>1 DEF SelectionIInv, UnopenedIsUnused
  <1>3. held' \in SUBSET SelPiece /\ changes' \in Nat
    BY <1>1 DEF DoRecheck, SelectionIInv, SelectionTypeOK
  <1>4. "Error" \in State /\ "CheckingFiles" \in State /\ "Seeding" \in State /\ "Downloading" \in State
    BY DEF State
  <1>5. CASE selState = "Error"
    <2>1. Moved(selState, "CheckingFiles") = "Error" /\ \A x \in State : Moved("Error", x) = "Error"
      BY <1>5, <1>4, Edges
    <2>2. selState' = "Error"
      BY <2>1, <1>4 DEF DoRecheck, AfterVerify
    <2>3. SeedingIsComplete'
      BY <2>2 DEF SeedingIsComplete
    <2> QED
      BY <2>2, <2>3, <1>1, <1>3, ProgressKeeps
  <1>6. CASE selState # "Error"
    <2>1. Moved(selState, "CheckingFiles") = "CheckingFiles"
      BY <1>6, <1>2, Edges
    <2>2. selState' \in {IF Unfinished' = {} THEN "Seeding" ELSE "Downloading", "Error"}
      BY <2>1, Edges DEF DoRecheck, AfterVerify
    <2>3. SeedingIsComplete'
      BY <2>2 DEF SeedingIsComplete
    <2> QED
      BY <2>2, <2>3, <1>1, <1>3, ProgressKeeps
  <1> QED
    BY <1>5, <1>6

\* A request that moves on, and leaves the picker as it is.
LEMMA ReaderKeeps ==
    ASSUME SelectionIInv, opened, Streaming, UNCHANGED <<level, window>>, NEW r \in Reader,
           NEW to \in [file : FileIndex, at : SelPiece, boosted : SelPiece \cup {NoWindow}, waiting : BOOLEAN]
                      \cup {NoReader},
           to = NoReader \/ to.at \in PiecesOf(to.file),
           reader' = [reader EXCEPT ![r] = to]
    PROVE  SelectionIInv'
  <1>1. UNCHANGED <<filePriority, firstLast, held, begun, made, opened, selState, changes>>
    BY DEF Streaming
  <1>2. reader \in [Reader -> [file : FileIndex, at : SelPiece, boosted : SelPiece \cup {NoWindow}, waiting : BOOLEAN]
                              \cup {NoReader}]
    BY DEF SelectionIInv, SelectionTypeOK
  <1>3. SelectionTypeOK'
    <2>1. reader' \in [Reader -> [file : FileIndex, at : SelPiece, boosted : SelPiece \cup {NoWindow}, waiting : BOOLEAN]
                              \cup {NoReader}]
      BY <1>2
    <2> QED
      BY <2>1, <1>1 DEF SelectionIInv, SelectionTypeOK
  <1>4. SkippedWithItsFiles' /\ BlocksHaveTheirFiles' /\ SeedingIsComplete'
    BY <1>1, SameSkips
  <1>5. ReadersArePlaced'
    <2>1. ASSUME NEW s \in Reader, Reads(s)' PROVE reader'[s].at \in PiecesOf(reader'[s].file)
      <3>1. CASE s = r
        <4>1. reader'[s] = to
          BY <3>1, <1>2
        <4>2. to # NoReader
          BY <4>1, <2>1 DEF Reads, NoReader
        <4> QED
          BY <4>1, <4>2
      <3>2. CASE s # r
        <4>1. reader'[s] = reader[s]
          BY <3>2, <1>2
        <4> QED
          BY <4>1, <2>1 DEF SelectionIInv, ReadersArePlaced, Reads
      <3> QED
        BY <3>1, <3>2
    <2> QED
      BY <2>1 DEF ReadersArePlaced
  <1>6. WindowIsUrgent' /\ UnopenedIsUnused'
    BY <1>1 DEF SelectionIInv, WindowIsUrgent, UnopenedIsUnused, Reads
  <1> QED
    BY <1>3, <1>4, <1>5, <1>6 DEF SelectionIInv

LEMMA StreamStep ==
    ASSUME SelectionIInv, NEW r \in Reader,
           \/ \E f \in FileIndex : HandleStream(r, f)
           \/ \E p \in SelPiece : Seek(r, p)
           \/ EndRead(r) \/ StreamGone(r)
    PROVE  SelectionIInv'
  <1> DEFINE ReaderType == [file : FileIndex, at : SelPiece, boosted : SelPiece \cup {NoWindow}, waiting : BOOLEAN]
                           \cup {NoReader}
  <1>0. reader \in [Reader -> ReaderType]
    BY DEF SelectionIInv, SelectionTypeOK
  <1>1. ASSUME NEW f \in FileIndex, HandleStream(r, f) PROVE SelectionIInv'
    <2> DEFINE to == [file |-> f, at |-> FirstPiece(f), boosted |-> NoWindow, waiting |-> FALSE]
    <2>1. /\ opened /\ Length(f) > 0 /\ reader' = [reader EXCEPT ![r] = to]
          /\ UNCHANGED <<level, window>> /\ Streaming
      BY <1>1 DEF HandleStream
    <2>2. FirstPiece(f) \in PiecesOf(f)
      BY <2>1, LengthHasPieces
    <2>3. FirstPiece(f) \in SelPiece
      BY <2>2, PiecesOverlap
    <2>4. to \in ReaderType /\ to.at \in PiecesOf(to.file)
      BY <2>2, <2>3
    <2> HIDE DEF to
    <2> QED
      BY <2>1, <2>4, ReaderKeeps
  <1>2. ASSUME Reads(r) PROVE opened /\ reader[r].at \in PiecesOf(reader[r].file)
    BY <1>2 DEF SelectionIInv, UnopenedIsUnused, ReadersArePlaced
  <1>3. ASSUME NEW p \in SelPiece, Seek(r, p) PROVE SelectionIInv'
    <2> DEFINE to == [reader[r] EXCEPT !.at = p]
    <2>1. /\ Reads(r) /\ p \in PiecesOf(reader[r].file)
          /\ reader' = [reader EXCEPT ![r].at = p] /\ UNCHANGED <<level, window>> /\ Streaming
      BY <1>3 DEF Seek
    <2>2. /\ reader[r].file \in FileIndex /\ reader[r].boosted \in SelPiece \cup {NoWindow}
          /\ reader[r].waiting \in BOOLEAN
          /\ reader[r] = [file |-> reader[r].file, at |-> reader[r].at,
                          boosted |-> reader[r].boosted, waiting |-> reader[r].waiting]
      BY <2>1, ReaderFacts DEF SelectionIInv
    <2>3. to = [file |-> reader[r].file, at |-> p, boosted |-> reader[r].boosted, waiting |-> reader[r].waiting]
      BY <2>2
    <2>4. to \in ReaderType /\ to.at \in PiecesOf(to.file)
      BY <2>1, <2>2, <2>3
    <2>5. reader' = [reader EXCEPT ![r] = to]
      BY <2>1
    <2> HIDE DEF to
    <2> QED
      BY <2>1, <2>4, <2>5, <1>2, ReaderKeeps
  <1>4. ASSUME EndRead(r) PROVE SelectionIInv'
    <2>1. /\ Reads(r) /\ UNCHANGED <<level, window>> /\ Streaming
      BY <1>4 DEF EndRead
    <2>2. /\ reader[r].file \in FileIndex /\ reader[r].boosted \in SelPiece \cup {NoWindow}
          /\ reader[r] = [file |-> reader[r].file, at |-> reader[r].at,
                          boosted |-> reader[r].boosted, waiting |-> reader[r].waiting]
      BY <2>1, ReaderFacts DEF SelectionIInv
    <2>3. PICK next \in {reader[r].at, reader[r].at + 1} :
             reader' = [reader EXCEPT ![r] = IF next \in PiecesOf(reader[r].file)
                                             THEN [reader[r] EXCEPT !.at = next, !.waiting = FALSE] ELSE NoReader]
      BY <1>4, <1>0 DEF EndRead
    <2>4. CASE next \in PiecesOf(reader[r].file)
      <3> DEFINE to == [reader[r] EXCEPT !.at = next, !.waiting = FALSE]
      <3>1. next \in SelPiece
        BY <2>2, <2>4, PiecesOverlap
      <3>2. to \in ReaderType /\ to.at \in PiecesOf(to.file)
        BY <3>1, <2>2, <2>4
      <3>3. reader' = [reader EXCEPT ![r] = to]
        BY <2>3, <2>4
      <3> HIDE DEF to
      <3> QED
        BY <3>2, <3>3, <2>1, <1>2, ReaderKeeps
    <2>5. CASE next \notin PiecesOf(reader[r].file)
      BY <2>5, <2>3, <2>1, <1>2, ReaderKeeps
    <2> QED
      BY <2>4, <2>5
  <1>5. ASSUME StreamGone(r) PROVE SelectionIInv'
    BY <1>5, <1>2, ReaderKeeps DEF StreamGone
  <1> QED
    BY <1>1, <1>3, <1>4, <1>5

LEMMA BeginReadStep ==
    ASSUME SelectionIInv, NEW r \in Reader, BeginRead(r)
    PROVE  SelectionIInv'
  <1> DEFINE ReaderType == [file : FileIndex, at : SelPiece, boosted : SelPiece \cup {NoWindow}, waiting : BOOLEAN]
                           \cup {NoReader}
             to == [reader[r] EXCEPT !.boosted = reader[r].at, !.waiting = TRUE]
             pp == Recomputed(filePriority, firstLast)
             at == reader[r].at
  <1>1. /\ Reads(r) /\ Streaming
        /\ reader' = [reader EXCEPT ![r].boosted = reader[r].at, ![r].waiting = TRUE]
        /\ \/ UNCHANGED <<level, window>>
           \/ window' = at /\ level' = BoostStreamWindow(at, pp)
    BY DEF BeginRead
  <1>2. /\ reader[r].file \in FileIndex /\ at \in SelPiece
        /\ reader[r] = [file |-> reader[r].file, at |-> reader[r].at,
                        boosted |-> reader[r].boosted, waiting |-> reader[r].waiting]
    BY <1>1, ReaderFacts DEF SelectionIInv
  <1>3. opened /\ at \in PiecesOf(reader[r].file)
    BY <1>1 DEF SelectionIInv, UnopenedIsUnused, ReadersArePlaced
  <1>4. to \in ReaderType /\ to.at \in PiecesOf(to.file)
    BY <1>2, <1>3
  <1>5. reader' = [reader EXCEPT ![r] = to]
    <2>1. reader \in [Reader -> ReaderType]
      BY DEF SelectionIInv, SelectionTypeOK
    <2> QED
      BY <1>1, <2>1
  <1>6. CASE UNCHANGED <<level, window>>
    <2> HIDE DEF to
    <2> QED
      BY <1>1, <1>3, <1>4, <1>5, <1>6, ReaderKeeps
  <1>7. CASE window' = at /\ level' = BoostStreamWindow(at, pp)
    <2>1. /\ filePriority \in [FileIndex -> Priority] /\ firstLast \in BOOLEAN
          /\ UNCHANGED <<filePriority, firstLast, held, begun, made, opened, selState, changes>>
      BY <1>1 DEF Streaming, SelectionIInv, SelectionTypeOK
    <2>2. /\ pp \in [SelPiece -> Priority]
          /\ \A p \in SelPiece : pp[p] = Skip <=> \A f \in FileIndex : Overlaps(f, p) => filePriority[f] = Skip
      BY <2>1, RecomputedFacts
    <2> HIDE DEF pp, at, to
    <2>3. /\ level' \in [SelPiece -> Priority] /\ level'[at] \in {Skip, High}
          /\ \A p \in SelPiece : level'[p] = Skip <=> pp[p] = Skip
      BY <2>2, <1>7, <1>2, BoostedFacts
    <2>4. \A p \in SelPiece : level'[p] = Skip <=> level[p] = Skip
      BY <2>2, <2>3, <1>3 DEF SelectionIInv, SkippedWithItsFiles
    <2>5. SkippedWithItsFiles' /\ BlocksHaveTheirFiles' /\ SeedingIsComplete'
      BY <2>1, <2>4, <1>3, SameSkips
    <2>6. reader \in [Reader -> ReaderType] /\ reader' \in [Reader -> ReaderType]
      <3>1. reader \in [Reader -> ReaderType]
        BY DEF SelectionIInv, SelectionTypeOK
      <3> HIDE DEF ReaderType
      <3> QED
        BY <3>1, <1>4, <1>5
    <2>7. SelectionTypeOK'
      BY <2>1, <2>3, <2>6, <1>2, <1>7 DEF SelectionIInv, SelectionTypeOK, at
    <2>8. WindowIsUrgent'
      BY <2>3, <1>7 DEF WindowIsUrgent
    <2>9. ReadersArePlaced'
      <3>1. ASSUME NEW s \in Reader, Reads(s)' PROVE reader'[s].at \in PiecesOf(reader'[s].file)
        <4>1. CASE s = r
          BY <4>1, <2>6, <1>4, <1>5
        <4>2. CASE s # r
          <5>1. reader'[s] = reader[s]
            BY <4>2, <2>6, <1>5
          <5> QED
            BY <5>1, <3>1 DEF SelectionIInv, ReadersArePlaced, Reads
        <4> QED
          BY <4>1, <4>2
      <3> QED
        BY <3>1 DEF ReadersArePlaced
    <2>10. UnopenedIsUnused'
      BY <2>1, <1>3 DEF SelectionIInv, UnopenedIsUnused
    <2> QED
      BY <2>5, <2>7, <2>8, <2>9, <2>10 DEF SelectionIInv
  <1> QED
    BY <1>1, <1>6, <1>7

\* The priorities of the pieces, the files that exist and the state agree
\* through every setter, stream, failure and recheck.
THEOREM SelectionIsRight == SelectionSpec => []SelectionInv
  <1>1. ASSUME SelectionIInv, [SelectionNext]_selectionVars PROVE SelectionIInv'
    <2>1. CASE \E given \in Given : OpenFails(given) \/ \E found \in SUBSET SelPiece : OpenMetadata(given, found)
      BY <1>1, <2>1, OpenFailsStep, OpenMetadataStep
    <2>2. CASE \E f \in FileIndex, q \in Priority : DoSetFilePriority(f, q) \/ AllocationFails(f, q)
      BY <1>1, <2>2, SetFilePriorityStep, AllocationFailsStep
    <2>3. CASE \E enabled \in BOOLEAN : DoSetFirstLastPieceFirst(enabled)
      BY <1>1, <2>3, SetFirstLastStep
    <2>4. CASE \E p \in SelPiece : AskPiece(p) \/ ExternalPiece(p) \/ OnPieceVerified(p)
      BY <1>1, <2>4, AskStep, VerifiedStep
    <2>5. CASE DoPause \/ DoResume
      BY <1>1, <2>5, PauseStep
    <2>6. CASE \E found \in SUBSET (held \cup begun) : DoRecheck(found)
      BY <1>1, <2>6, RecheckStep
    <2>7. ASSUME NEW r \in Reader,
                 \/ \E f \in FileIndex : HandleStream(r, f)
                 \/ \E p \in SelPiece : Seek(r, p)
                 \/ BeginRead(r) \/ EndRead(r) \/ StreamGone(r)
          PROVE  SelectionIInv'
      BY <1>1, <2>7, StreamStep, BeginReadStep
    <2>8. CASE UNCHANGED selectionVars
      <3>1. /\ opened' = opened /\ changes' = changes
            /\ UNCHANGED <<choiceVars, held, begun, made, opened, reader, selState>>
        BY <2>8 DEF selectionVars
      <3>2. UNCHANGED <<filePriority, firstLast, level, window, held, begun, made, opened, reader, selState, changes>>
        BY <3>1 DEF choiceVars
      <3> QED
        BY <1>1, <3>2 DEF SelectionIInv, SelectionTypeOK, SkippedWithItsFiles, BlocksHaveTheirFiles,
           SeedingIsComplete, Unfinished, WindowIsUrgent, ReadersArePlaced, UnopenedIsUnused, Reads
    <2> QED
      BY <1>1, <2>1, <2>2, <2>3, <2>4, <2>5, <2>6, <2>7, <2>8 DEF SelectionNext
  <1> QED
    BY <1>1, InitSelection, SelectionIInvSuffices, PTL DEF SelectionSpec
=============================================================================
