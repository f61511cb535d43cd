------------------------------- MODULE Resume --------------------------------
(***************************************************************************)
(* What a torrent keeps across stops and crashes (torrent/resume.go;       *)
(* openMetadata and Run of torrent.go; checkpoint of run.go; Allocate of   *)
(* storage/storage.go).  The resume file records the verified pieces and   *)
(* the modification time of the data; at the next start it is trusted only *)
(* if that time is still the same, and otherwise every piece is hashed.    *)
(*                                                                         *)
(* The sources are honest and a crash is one of the process: what it wrote *)
(* is still in the files.  One file of data stands for all.                *)
(***************************************************************************)
EXTENDS Naturals, FiniteSets

CONSTANTS DataPiece,
          FullAllocation,  \* Config.Allocation is storage.Full
          CheckpointAt,    \* checkpointPieces
          MaxWrites,       \* bound: modification times
          MaxStarts,       \* bound: starts
          NoFile

ASSUME ResumeAssumption ==
    /\ IsFiniteSet(DataPiece) /\ FullAllocation \in BOOLEAN
    /\ CheckpointAt \in Nat \ {0} /\ MaxWrites \in Nat /\ MaxStarts \in Nat
    /\ NoFile \notin [bits : SUBSET DataPiece, stamp : Nat]

VARIABLES
    engineOn,   \* the process: "off", "run", "saving", "last" (the final checkpoint), "waiting"
    intact,     \* the pieces whose content on disk is right
    written,    \* the modification time of the data
    verified,   \* t.pick.Have
    cached,     \* completed pieces in the write cache
    hashingPiece,    \* pieces with a verifier
    reported,   \* queued eventPieceVerified, all successful
    since,      \* piecesVerifiedSinceCheckpoint
    draft,      \* the resume data of the checkpoint under way: bits, then stamp
    saved,      \* the resume file
    fetched,    \* pieces that arrived in this run: each has one verifier
    starts,     \* counter for the bound
    \* for the properties
    stopped,    \* the pieces verified when the last clean stop saved, or NoFile
    disturbed   \* a flush after the last checkpoint, a save that failed, an edit or removal since

resumeVars == <<engineOn, intact, written, verified, cached, hashingPiece, reported, since, draft, saved,
                fetched, starts, stopped, disturbed>>

\* Two writes may fall into the same tick of the file system's clock.
Touched == written' \in {written, written + 1} /\ written' <= MaxWrites
Running == engineOn = "run"

-----------------------------------------------------------------------------
(* Start: openMetadata *)

\* allocateFile: a file of the right size is left alone, but full allocation
\* writes zeros all the same.
Zeroed == FullAllocation
\* loadResume.
Trusted == saved # NoFile /\ saved.stamp = written'
ResumeStart ==
    /\ engineOn = "off" /\ starts < MaxStarts /\ starts' = starts + 1
    /\ IF Zeroed THEN intact' = {} /\ Touched ELSE UNCHANGED <<intact, written>>
    /\ verified' = IF Trusted THEN saved.bits ELSE intact'
    /\ engineOn' = "run"
    /\ cached' = {} /\ hashingPiece' = {} /\ reported' = {} /\ since' = 0 /\ draft' = NoFile /\ fetched' = {}
    /\ disturbed' = FALSE /\ stopped' = NoFile
    /\ UNCHANGED saved

-----------------------------------------------------------------------------
(* The data *)

\* The last block of a piece: onBlock writes it, or the cache buffers it, and a
\* verifier starts.
CompletesData(p) ==
    /\ Running /\ p \notin verified \cup fetched
    /\ hashingPiece' = hashingPiece \cup {p} /\ fetched' = fetched \cup {p}
    /\ \/ intact' = intact \cup {p} /\ Touched /\ UNCHANGED cached
       \/ cached' = cached \cup {p} /\ UNCHANGED <<intact, written>>
    /\ UNCHANGED <<engineOn, verified, reported, since, draft, saved, starts, stopped, disturbed>>

\* A late duplicate of a block of a verified piece is written again.
Rewrites(p) ==
    /\ Running /\ p \in verified /\ Touched
    /\ UNCHANGED <<engineOn, intact, verified, cached, hashingPiece, reported, since, draft, saved, fetched,
                   starts, stopped, disturbed>>

\* verifyPiece, on its own goroutine: a buffered piece is flushed.  The result
\* is dropped once Run's context is over.
Released(p) == cached \ {p}
VerifierEnds(p) ==
    /\ engineOn # "off" /\ p \in hashingPiece
    /\ hashingPiece' = hashingPiece \ {p} /\ cached' = Released(p)
    /\ IF p \in cached THEN intact' = intact \cup {p} /\ Touched ELSE UNCHANGED <<intact, written>>
    /\ reported' = IF engineOn \in {"run", "saving"} THEN reported \cup {p} ELSE reported
    /\ disturbed' = (disturbed \/ (p \in cached /\ engineOn \in {"last", "waiting"}))
    /\ UNCHANGED <<engineOn, verified, since, draft, saved, fetched, starts, stopped>>

\* onPieceVerified.
OnVerified(p) ==
    /\ Running /\ p \in reported
    /\ reported' = reported \ {p}
    /\ verified' = verified \cup {p}
    /\ since' = since + 1
    /\ IF verified' = DataPiece \/ since' >= CheckpointAt
       THEN engineOn' = "saving" /\ draft' = [bits |-> verified', stamp |-> NoFile]
       ELSE UNCHANGED <<engineOn, draft>>
    /\ UNCHANGED <<intact, written, cached, hashingPiece, saved, fetched, starts, stopped, disturbed>>

-----------------------------------------------------------------------------
(* checkpoint: the bits, then the time of the files, then the file *)

CheckpointDue ==
    /\ Running
    /\ engineOn' = "saving" /\ draft' = [bits |-> verified, stamp |-> NoFile]
    /\ UNCHANGED <<intact, written, verified, cached, hashingPiece, reported, since, saved, fetched, starts,
                   stopped, disturbed>>

Saving == engineOn \in {"saving", "last"}
StatFiles ==
    /\ Saving /\ draft # NoFile /\ draft.stamp = NoFile
    /\ draft' = [draft EXCEPT !.stamp = written]
    /\ UNCHANGED <<engineOn, intact, written, verified, cached, hashingPiece, reported, since, saved, fetched,
                   starts, stopped, disturbed>>

\* WriteFile and Rename: all or nothing.  Then the actor goes on, or Run waits.
\* Mutant: the pieces still being hashed are saved as well.
BitsSavedEarly == draft.bits \cup hashingPiece
BitsSaved == draft.bits
Save ==
    /\ Saving /\ draft # NoFile /\ draft.stamp # NoFile
    /\ draft' = NoFile
    /\ \/ /\ saved' = [draft EXCEPT !.bits = BitsSaved] /\ since' = 0
          /\ UNCHANGED disturbed
       \/ disturbed' = TRUE /\ UNCHANGED <<saved, since>>
    /\ stopped' = IF engineOn = "last" THEN verified ELSE stopped
    /\ engineOn' = IF engineOn = "last" THEN "waiting" ELSE "run"
    /\ UNCHANGED <<intact, written, verified, cached, hashingPiece, reported, fetched, starts>>

\* Stop: run returns and Run makes the last checkpoint.
StopRun ==
    /\ Running
    /\ engineOn' = "last" /\ draft' = [bits |-> verified, stamp |-> NoFile]
    /\ UNCHANGED <<intact, written, verified, cached, hashingPiece, reported, since, saved, fetched, starts,
                   stopped, disturbed>>

\* wg.Wait, then the storage is closed.
RunEnds ==
    /\ engineOn = "waiting" /\ hashingPiece = {}
    /\ engineOn' = "off"
    /\ UNCHANGED <<intact, written, verified, cached, hashingPiece, reported, since, draft, saved, fetched,
                   starts, stopped, disturbed>>

-----------------------------------------------------------------------------
(* What happens to it *)

\* A crash at any point; a half-written temporary file is never read.
CrashProcess ==
    /\ engineOn # "off" /\ engineOn' = "off"
    /\ hashingPiece' = {} /\ stopped' = NoFile
    /\ UNCHANGED <<intact, written, verified, cached, reported, since, draft, saved, fetched, starts, disturbed>>

\* Somebody else changes the data while the torrent does not run, and its time with it.
ExternalEdit(p) ==
    /\ engineOn = "off" /\ written < MaxWrites
    /\ written' = written + 1 /\ intact' = intact \ {p} /\ disturbed' = TRUE
    /\ UNCHANGED <<engineOn, verified, cached, hashingPiece, reported, since, draft, saved, fetched, starts, stopped>>

\* RemoveResumeData, when the torrent is removed.
RemoveResume ==
    /\ engineOn = "off" /\ saved # NoFile
    /\ saved' = NoFile /\ disturbed' = TRUE
    /\ UNCHANGED <<engineOn, intact, written, verified, cached, hashingPiece, reported, since, draft, fetched,
                   starts, stopped>>

-----------------------------------------------------------------------------

ResumeInit ==
    /\ engineOn = "off" /\ intact = {} /\ written = 0 /\ verified = {} /\ cached = {} /\ hashingPiece = {}
    /\ reported = {} /\ since = 0 /\ draft = NoFile /\ saved = NoFile /\ fetched = {} /\ starts = 0
    /\ stopped = NoFile /\ disturbed = FALSE

ResumeNext ==
    \/ ResumeStart \/ CheckpointDue \/ StatFiles \/ Save \/ StopRun \/ RunEnds \/ CrashProcess \/ RemoveResume
    \/ \E p \in DataPiece : CompletesData(p) \/ Rewrites(p) \/ VerifierEnds(p) \/ OnVerified(p) \/ ExternalEdit(p)

ResumeSpec == ResumeInit /\ [][ResumeNext]_resumeVars

-----------------------------------------------------------------------------
(* Properties *)

ResumeTypeOK ==
    /\ engineOn \in {"off", "run", "saving", "last", "waiting"}
    /\ intact \subseteq DataPiece /\ verified \subseteq DataPiece /\ written \in 0..MaxWrites
    /\ cached \subseteq hashingPiece \cup (IF engineOn = "off" THEN DataPiece ELSE {})
    /\ reported \subseteq fetched /\ since \in 0..Cardinality(DataPiece)
    /\ saved = NoFile \/ (saved.bits \subseteq DataPiece /\ saved.stamp \in 0..MaxWrites)

(***************************************************************************)
(* Whatever is taken for verified is on disk, after any sequence of        *)
(* crashes, clean stops, failed saves and edits from outside: "falling     *)
(* back to a full verify is always safe", and trusting is too.             *)
(***************************************************************************)
TrustIsJustified == engineOn # "off" => verified \subseteq intact

(***************************************************************************)
(* A resume file whose time still fits vouches only for intact pieces.     *)
(***************************************************************************)
SavedIsIntact == saved # NoFile /\ saved.stamp = written => saved.bits \subseteq intact

(***************************************************************************)
(* After a clean stop the next start trusts the resume file and knows all  *)
(* that was verified, unless a verification ended after the last           *)
(* checkpoint, the save failed, or the data or the file were tampered with.*)
(***************************************************************************)
CleanStopIsTrusted ==
    engineOn = "off" /\ stopped # NoFile /\ ~disturbed =>
        saved # NoFile /\ saved.stamp = written /\ saved.bits = stopped

(***************************************************************************)
(* "It is safe to call on an existing download: files that are already the *)
(* right size are left alone": starting loses no data.                     *)
(***************************************************************************)
StartKeepsData == [][starts' # starts => intact \subseteq intact']_resumeVars

\* The resume file is trusted when it is right, and only then.
ResumeInv == ResumeTypeOK /\ TrustIsJustified /\ SavedIsIntact /\ CleanStopIsTrusted
=============================================================================
