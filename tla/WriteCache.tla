----------------------------- MODULE WriteCache -----------------------------
(***************************************************************************)
(* storage.PieceCache between the torrent actor and the disk: a piece is   *)
(* buffered if there is room for all of it, hashed from memory and flushed *)
(* in one write; otherwise its blocks go straight to disk (onBlock,        *)
(* verifyPiece).  WriteBlock runs on the actor goroutine, TryVerify on the *)
(* verifier's: it takes the buffer out under the lock, hashes and flushes  *)
(* it outside.                                                             *)
(*                                                                         *)
(* One connected peer has everything.  Requests expire and are asked       *)
(* again, so blocks come late and more than once.                          *)
(***************************************************************************)
EXTENDS Picker

CONSTANTS MaxBuffered,  \* Config.WriteCacheBytes, in blocks
          Data,         \* the quality of the blocks peers send
          MaxCopies,    \* bound: answers on their way for one block
          MaxExternal,  \* bound: pieces brought by a web seed
          MaxFaults     \* bound: flushes that fail

ASSUME WriteCacheAssumption ==
    /\ MaxBuffered \in Nat
    /\ Data \subseteq BOOLEAN
    /\ MaxCopies \in Nat /\ MaxExternal \in Nat /\ MaxFaults \in Nat

VARIABLES buffered,   \* keys of PieceCache.pieces
          content,    \* what a buffer holds of each block
          used,       \* PieceCache.used, in blocks
          disk,       \* the block on disk is the one the metainfo hashes
          wire,       \* answers on their way, per block
          verifying,  \* verifyPiece goroutines that have not looked yet
          hashing,    \* buffers taken out of the cache, by what they hold
          reports,    \* queued eventPieceVerified, by outcome
          external, faults

cacheVars == <<buffered, content, used>>
verifyVars == <<verifying, hashing, reports>>
writeCacheVars == <<pickerVars, cacheVars, disk, wire, verifyVars, external, faults>>

Verdict == Piece \X BOOLEAN
Whole(p) == \A x \in BlocksOf(p) : content[x] = "good"
OnDisk(p) == \A x \in BlocksOf(p) : disk[x]

-----------------------------------------------------------------------------
\* tick: one more request, perhaps for a block whose answer is still coming.
Ask ==
    \E o \in PickOutcomes(Piece, 1) :
        /\ \A x \in o.requests : wire[x] < MaxCopies
        /\ Hand(o)
        /\ wire' = [x \in Block |-> IF x \in o.requests THEN wire[x] + 1 ELSE wire[x]]
        /\ UNCHANGED <<cacheVars, disk, verifyVars, external, faults>>

GiveUp == Expire(Outstanding) /\ UNCHANGED <<cacheVars, disk, wire, verifyVars, external, faults>>

\* PieceCache.WriteBlock: whether there is room to start a buffer.
RoomFor(p) == p \notin buffered /\ used + NumBlocks[p] <= MaxBuffered

WriteBlock(x, good) ==
    /\ buffered' = buffered \cup {x[1]}
    /\ content' = [content EXCEPT ![x] = IF good THEN "good" ELSE "bad"]
    /\ used' = IF x[1] \in buffered THEN used ELSE used + NumBlocks[x[1]]

\* onBlock: cached, or written through.
CacheOnBlock(x, good) ==
    /\ wire[x] > 0
    /\ wire' = [wire EXCEPT ![x] = @ - 1]
    /\ IF x[1] \in buffered \/ RoomFor(x[1])
       THEN WriteBlock(x, good) /\ UNCHANGED disk
       ELSE disk' = [disk EXCEPT ![x] = good] /\ UNCHANGED cacheVars
    /\ verifying' = IF Completes(x) THEN [verifying EXCEPT ![x[1]] = @ + 1] ELSE verifying
    /\ Received(x)
    /\ UNCHANGED <<hashing, reports, external, faults>>

\* doApplyExternalPiece, from an honest web seed: straight to disk.
ApplyExternalPiece(p) ==
    /\ external < MaxExternal /\ external' = external + 1
    /\ p \notin have
    /\ disk' = [x \in Block |-> x[1] = p \/ disk[x]]
    /\ verifying' = [verifying EXCEPT ![p] = @ + 1]
    /\ UNCHANGED <<pickerVars, cacheVars, wire, hashing, reports, faults>>

-----------------------------------------------------------------------------
(* verifyPiece *)

\* TryVerify takes the piece's buffer out of the cache.
TakeBuffer(p) ==
    /\ verifying[p] > 0 /\ p \in buffered
    /\ verifying' = [verifying EXCEPT ![p] = @ - 1]
    /\ hashing' = [hashing EXCEPT ![<<p, Whole(p)>>] = @ + 1]
    /\ buffered' = buffered \ {p}
    /\ content' = [x \in Block |-> IF x[1] = p THEN "none" ELSE content[x]]
    /\ used' = used - NumBlocks[p]
    /\ UNCHANGED <<pickerVars, disk, wire, reports, external, faults>>

\* A buffer that hashes is flushed; one that does not is dropped.  A failed
\* flush is reported as a failed piece.
\* Mutant: a failed flush is reported as a verified piece.
HashBufferLoose(p, ok) ==
    /\ hashing[<<p, ok>>] > 0
    /\ hashing' = [hashing EXCEPT ![<<p, ok>>] = @ - 1]
    /\ reports' = [reports EXCEPT ![<<p, ok>>] = @ + 1]
    /\ \/ disk' = [x \in Block |-> (ok /\ x[1] = p) \/ disk[x]] /\ UNCHANGED faults
       \/ faults < MaxFaults /\ faults' = faults + 1 /\ UNCHANGED disk
    /\ UNCHANGED <<pickerVars, cacheVars, wire, verifying, external>>

HashBuffer(p, ok) ==
    /\ hashing[<<p, ok>>] > 0
    /\ hashing' = [hashing EXCEPT ![<<p, ok>>] = @ - 1]
    /\ \/ /\ disk' = [x \in Block |-> (ok /\ x[1] = p) \/ disk[x]]
          /\ reports' = [reports EXCEPT ![<<p, ok>>] = @ + 1]
          /\ UNCHANGED faults
       \/ /\ ok /\ faults < MaxFaults /\ faults' = faults + 1
          /\ reports' = [reports EXCEPT ![<<p, FALSE>>] = @ + 1]
          /\ UNCHANGED disk
    /\ UNCHANGED <<pickerVars, cacheVars, wire, verifying, external>>

\* A piece that is not buffered is read back from disk (VerifyOne).
HashDisk(p) ==
    /\ verifying[p] > 0 /\ p \notin buffered
    /\ verifying' = [verifying EXCEPT ![p] = @ - 1]
    /\ reports' = [reports EXCEPT ![<<p, OnDisk(p)>>] = @ + 1]
    /\ UNCHANGED <<pickerVars, cacheVars, disk, wire, hashing, external, faults>>

\* onPieceVerified.
CacheSettle(p, ok) ==
    /\ reports[<<p, ok>>] > 0
    /\ reports' = [reports EXCEPT ![<<p, ok>>] = @ - 1]
    /\ IF ok THEN MarkVerified(p) ELSE MarkFailed(p)
    /\ UNCHANGED <<cacheVars, disk, wire, verifying, hashing, external, faults>>

-----------------------------------------------------------------------------
CacheInit ==
    /\ have = {} /\ active = {}
    /\ states = [x \in Block |-> "needed"]
    /\ done = [p \in Piece |-> 0]
    /\ avail = [p \in Piece |-> 1]
    /\ priority = [p \in Piece |-> Normal]
    /\ strategy = "RarestFirst"
    /\ buffered = {} /\ used = 0
    /\ content = [x \in Block |-> "none"]
    /\ disk \in [Block -> BOOLEAN]   \* what an earlier run left there
    /\ wire = [x \in Block |-> 0]
    /\ verifying = [p \in Piece |-> 0]
    /\ hashing = [v \in Verdict |-> 0]
    /\ reports = [v \in Verdict |-> 0]
    /\ external = 0 /\ faults = 0

CacheNext ==
    \/ Ask
    \/ GiveUp
    \/ \E x \in Block, good \in Data : CacheOnBlock(x, good)
    \/ \E p \in Piece :
          \/ ApplyExternalPiece(p)
          \/ TakeBuffer(p)
          \/ HashDisk(p)
          \/ \E ok \in BOOLEAN : HashBuffer(p, ok) \/ CacheSettle(p, ok)

CacheSpec == CacheInit /\ [][CacheNext]_writeCacheVars

-----------------------------------------------------------------------------
(***************************************************************************)
(* used is what the buffers take, and stays within WriteCacheBytes however *)
(* blocks, verifications and late duplicates interleave.  (WriteBlock,     *)
(* TryVerify)                                                              *)
(***************************************************************************)
CacheBounded ==
    /\ used = Cardinality({x \in Block : x[1] \in buffered})
    /\ used <= MaxBuffered

(***************************************************************************)
(* "A piece commits to one mode - buffered, or straight through - the      *)
(* moment its first block arrives, and stays that way", so that no buffer  *)
(* is "silently missing whatever earlier blocks already went straight to   *)
(* disk" (piececache.go): a buffer that is hashed holds every block.       *)
(***************************************************************************)
HashedBufferIsWhole ==
    [][\A p \in Piece : TakeBuffer(p) => \A x \in BlocksOf(p) : content[x] # "none"]_writeCacheVars

(***************************************************************************)
(* What is counted as verified is on disk, whichever way its blocks went   *)
(* and whatever flush failed.  (TryVerify, onBlock, onPieceVerified)       *)
(***************************************************************************)
HaveIsOnDisk == \A p \in have : OnDisk(p)

\* The cache forgets nothing it has taken, and takes no more than it may.
CacheInv == CacheBounded /\ HaveIsOnDisk
=============================================================================
