----------------------------- MODULE Selection ------------------------------
(***************************************************************************)
(* Which pieces a torrent fetches (torrent/priority.go, stream.go and the  *)
(* setters of run.go): the priorities of the files, the first and last     *)
(* pieces of each, and the window a stream reads in (internal/stream) are  *)
(* folded into a priority for each piece; the files that those pieces lie  *)
(* in are allocated; and a change may end a download or begin one again.   *)
(*                                                                         *)
(* Every setter is one message to the actor, hence one step.  A reader is  *)
(* an HTTP request for a file, a goroutine of its own.  A pure-v2 torrent  *)
(* is a layout in which every file begins a piece; it is not streamed.     *)
(***************************************************************************)
EXTENDS Integers, Sequences, Priorities, Lifecycle

CONSTANTS FileOffset,   \* where each file starts, in order, and where the last one ends
          PieceLength,
          PaddingFile,  \* BEP 47: FileInfo.IsPadding
          Given,        \* what Config.FilePriorities may be: a prefix of the files
          Lookahead,    \* streamLookaheadPieces
          Reader,       \* stream.Content: requests that are being served
          MaxChanges    \* bound: calls of the setters and of Recheck

ASSUME SelectionAssumption ==
    /\ FileOffset \in Seq(Nat) /\ Len(FileOffset) > 1 /\ FileOffset[1] = 0
    /\ \A i, j \in DOMAIN FileOffset : i <= j => FileOffset[i] <= FileOffset[j]
    /\ FileOffset[Len(FileOffset)] > 0 /\ PieceLength \in Nat \ {0}
    /\ Lookahead \in Nat \ {0} /\ MaxChanges \in Nat
    /\ Given \subseteq Seq(Priority)

FileIndex == 1 .. Len(FileOffset) - 1
TotalSize == FileOffset[Len(FileOffset)]
PieceOf(off) == off \div PieceLength
SelPiece == 0 .. PieceOf(TotalSize - 1)

VARIABLES filePriority,  \* Torrent.filePriorities
          firstLast,     \* Config.FirstLastPieceFirst
          level,         \* Picker.priority
          window,        \* the piece of the last SetStreamPosition, until a setter recomputes
          held,          \* Picker.have and haveSnapshot
          begun,         \* pieces whose blocks are or were asked for
          made,          \* files that exist: Storage.skip is false
          opened,        \* t.pick and t.storage are there
          selState,      \* Torrent.state
          reader, changes

choiceVars == <<filePriority, firstLast, level, window>>
selectionVars == <<choiceVars, held, begun, made, opened, selState, reader, changes>>

NoWindow == -1
NoReader == [file |-> 0, at |-> 0, boosted |-> NoWindow, waiting |-> FALSE]

-----------------------------------------------------------------------------
(* Files and pieces *)

Length(f) == FileOffset[f + 1] - FileOffset[f]
PieceEnd(p) == IF (p + 1) * PieceLength < TotalSize THEN (p + 1) * PieceLength ELSE TotalSize

\* What piecePriorities' scan counts: an empty file inside a piece, too.
Overlaps(f, p) == FileOffset[f] < PieceEnd(p) /\ FileOffset[f + 1] > p * PieceLength
FirstPiece(f) == PieceOf(FileOffset[f])
LastPiece(f) == PieceOf(FileOffset[f + 1] - 1)
PiecesOf(f) == IF Length(f) > 0 THEN FirstPiece(f) .. LastPiece(f) ELSE {}

\* normalizedFilePriorities.
Normalized(given) ==
    [f \in FileIndex |-> IF f \in DOMAIN given THEN given[f]
                         ELSE IF f \in PaddingFile THEN Skip ELSE Normal]

Highest(S) == CHOOSE x \in S : \A y \in S : y <= x
PiecePriorities(fp) == [p \in SelPiece |-> Highest({Skip} \cup {fp[f] : f \in {g \in FileIndex : Overlaps(g, p)}})]

BoostFirstAndLast(fp, pp) ==
    LET ends == {p \in SelPiece : \E f \in FileIndex :
                    Length(f) > 0 /\ fp[f] # Skip /\ p \in {FirstPiece(f), LastPiece(f)}}
    IN [p \in SelPiece |-> IF p \in ends THEN High ELSE pp[p]]

BoostStreamWindow(start, pp) ==
    [p \in SelPiece |-> IF pp[p] # Skip /\ p \in start .. start + Lookahead - 1 THEN High ELSE pp[p]]

Recomputed(fp, boost) == IF boost THEN BoostFirstAndLast(fp, PiecePriorities(fp)) ELSE PiecePriorities(fp)

\* filesNeedingAllocation.  Mutant: the files that are wanted themselves.
NeedsOwn(fp, pp) == {f \in FileIndex : fp[f] # Skip}
NeedsAllocation(fp, pp) ==
    {f \in FileIndex : fp[f] # Skip \/ \E p \in PiecesOf(f) : pp[p] # Skip}

Unfinished == {p \in SelPiece : level[p] # Skip /\ p \notin held}
AfterVerify(s) == Moved(s, IF Unfinished' = {} THEN "Seeding" ELSE "Downloading")

-----------------------------------------------------------------------------
(* openMetadata *)

Opens ==
    /\ ~opened /\ selState \in {"Added", "FetchingMetadata"}
    /\ UNCHANGED <<firstLast, begun, reader, changes>>

\* The pieces found are those of the resume data, or those that hash; a
\* verification that fails leaves an open torrent in error.
OpenMetadata(given, found) ==
    LET fp == Normalized(given) IN
    /\ Opens
    /\ opened' = TRUE /\ filePriority' = fp /\ window' = NoWindow
    /\ level' = Recomputed(fp, firstLast)
    /\ made' = NeedsAllocation(fp, level')
    /\ \/ held' = found /\ selState' = AfterVerify(Moved(selState, "CheckingFiles"))
       \/ held' = held /\ selState' = "Error"

\* storage.New or Allocate fails, some files made; the torrent is in error.
OpenFails(given) ==
    LET fp == Normalized(given) IN
    /\ Opens
    /\ filePriority' = fp
    /\ \E n \in FileIndex : made' = {f \in NeedsAllocation(fp, Recomputed(fp, firstLast)) : f < n}
    /\ selState' = "Error"
    /\ UNCHANGED <<level, window, held, opened>>

-----------------------------------------------------------------------------
(* The setters: without metadata an error, and nothing changes. *)

Change == opened /\ changes < MaxChanges /\ changes' = changes + 1

\* A priority may finish a download, or unfinish it.
Flipped(s) ==
    IF Unfinished' = {} /\ s = "Downloading" THEN Moved(s, "Seeding")
    ELSE IF Unfinished' # {} /\ s = "Seeding" THEN Moved(Moved(s, "CheckingFiles"), "Downloading")
    ELSE s

DoSetFilePriority(f, q) ==
    LET fp == [filePriority EXCEPT ![f] = q] IN
    /\ Change
    /\ filePriority' = fp /\ window' = NoWindow
    /\ level' = Recomputed(fp, firstLast)
    /\ made' = made \cup NeedsAllocation(fp, level')
    /\ UNCHANGED <<firstLast, held, begun, opened, reader>>
    /\ selState' = Flipped(selState)

\* EnsureFileAllocated fails for file n: the ones before it stay, and the
\* priority is what it was.
AllocationFails(f, q) ==
    LET fp == [filePriority EXCEPT ![f] = q]
        need == NeedsAllocation(fp, Recomputed(fp, firstLast))
    IN
    /\ Change
    /\ \E n \in need \ made : made' = made \cup {g \in need : g < n}
    /\ UNCHANGED <<choiceVars, held, begun, opened, selState, reader>>

DoSetFirstLastPieceFirst(enabled) ==
    /\ Change
    /\ firstLast' = enabled /\ window' = NoWindow
    /\ level' = Recomputed(filePriority, enabled)
    /\ UNCHANGED <<filePriority, held, begun, made, opened, selState, reader>>

-----------------------------------------------------------------------------
(* The download *)

\* Blocks are only asked for of a piece that is not skipped; what was asked for
\* may arrive, and be written, at any time after.
AskPiece(p) ==
    /\ opened /\ selState = "Downloading" /\ level[p] # Skip /\ p \notin held \cup begun
    /\ begun' = begun \cup {p}
    /\ UNCHANGED <<choiceVars, held, made, opened, selState, reader, changes>>

\* A whole piece from elsewhere, skipped or not, is written if its files exist.
ExternalPiece(p) ==
    /\ opened /\ p \notin held \cup begun /\ \A f \in FileIndex : p \in PiecesOf(f) => f \in made
    /\ begun' = begun \cup {p}
    /\ UNCHANGED <<choiceVars, held, made, opened, selState, reader, changes>>

OnPieceVerified(p) ==
    /\ p \in begun \ held
    /\ held' = held \cup {p}
    /\ UNCHANGED <<choiceVars, begun, made, opened, reader, changes>>
    /\ selState' = IF Unfinished' = {} THEN Moved(selState, "Seeding") ELSE selState

DoPause ==
    /\ opened /\ Active(selState) /\ selState' = Moved(selState, "Paused")
    /\ UNCHANGED <<choiceVars, held, begun, made, opened, reader, changes>>

DoResume ==
    /\ opened /\ selState = "Paused"
    /\ selState' = Moved(selState, IF Unfinished = {} THEN "Seeding" ELSE "Downloading")
    /\ UNCHANGED <<choiceVars, held, begun, made, opened, reader, changes>>

\* What does not hash any more is lost; a verification that fails is an error.
DoRecheck(found) ==
    /\ Change
    /\ UNCHANGED <<choiceVars, begun, made, opened, reader>>
    /\ \/ held' = found /\ selState' = AfterVerify(Moved(selState, "CheckingFiles"))
       \/ held' = held /\ selState' = Moved(Moved(selState, "CheckingFiles"), "Error")

-----------------------------------------------------------------------------
(* Content: a request reads a file piece by piece. *)

Reads(r) == reader[r].file # 0
Streaming == UNCHANGED <<filePriority, firstLast, held, begun, made, opened, selState, changes>>

HandleStream(r, f) ==
    /\ opened /\ ~Reads(r) /\ Length(f) > 0
    /\ reader' = [reader EXCEPT ![r] = [file |-> f, at |-> FirstPiece(f), boosted |-> NoWindow, waiting |-> FALSE]]
    /\ UNCHANGED <<level, window>> /\ Streaming

Seek(r, p) ==
    /\ Reads(r) /\ ~reader[r].waiting /\ p \in PiecesOf(reader[r].file)
    /\ reader' = [reader EXCEPT ![r].at = p]
    /\ UNCHANGED <<level, window>> /\ Streaming

\* Read tells the picker where it is only on coming to another piece.
BeginRead(r) ==
    /\ Reads(r) /\ ~reader[r].waiting
    /\ reader' = [reader EXCEPT ![r].boosted = reader[r].at, ![r].waiting = TRUE]
    /\ IF reader[r].boosted = reader[r].at
       THEN UNCHANGED <<level, window>>
       ELSE /\ window' = reader[r].at
            /\ level' = BoostStreamWindow(reader[r].at, Recomputed(filePriority, firstLast))
    /\ Streaming

\* WaitForOffset, then ReadAt: up to the end of the piece at most, and in the end
\* of the file.
EndRead(r) ==
    /\ Reads(r) /\ reader[r].waiting /\ reader[r].at \in held
    /\ \E next \in {reader[r].at, reader[r].at + 1} :
          reader' = [reader EXCEPT ![r] = IF next \in PiecesOf(@.file) THEN [@ EXCEPT !.at = next, !.waiting = FALSE]
                                          ELSE NoReader]
    /\ UNCHANGED <<level, window>> /\ Streaming

StreamGone(r) ==
    /\ Reads(r) /\ reader' = [reader EXCEPT ![r] = NoReader]
    /\ UNCHANGED <<level, window>> /\ Streaming

-----------------------------------------------------------------------------
SelectionInit ==
    /\ filePriority = [f \in FileIndex |-> Normal] /\ firstLast \in BOOLEAN
    /\ level = [p \in SelPiece |-> Normal] /\ window = NoWindow
    /\ held = {} /\ begun = {} /\ made = {} /\ opened = FALSE
    /\ selState \in {"Added", "FetchingMetadata"}
    /\ reader = [r \in Reader |-> NoReader] /\ changes = 0

SelectionNext ==
    \/ \E given \in Given : OpenFails(given) \/ \E found \in SUBSET SelPiece : OpenMetadata(given, found)
    \/ \E f \in FileIndex, q \in Priority : DoSetFilePriority(f, q) \/ AllocationFails(f, q)
    \/ \E enabled \in BOOLEAN : DoSetFirstLastPieceFirst(enabled)
    \/ \E p \in SelPiece : AskPiece(p) \/ ExternalPiece(p) \/ OnPieceVerified(p)
    \/ DoPause \/ DoResume
    \/ \E found \in SUBSET (held \cup begun) : DoRecheck(found)
    \/ \E r \in Reader :
          \/ \E f \in FileIndex : HandleStream(r, f)
          \/ \E p \in SelPiece : Seek(r, p)
          \/ BeginRead(r) \/ EndRead(r) \/ StreamGone(r)

SelectionSpec == SelectionInit /\ [][SelectionNext]_selectionVars

-----------------------------------------------------------------------------
SelectionTypeOK ==
    /\ filePriority \in [FileIndex -> Priority] /\ firstLast \in BOOLEAN
    /\ level \in [SelPiece -> Priority] /\ window \in SelPiece \cup {NoWindow}
    /\ held \subseteq SelPiece /\ begun \subseteq SelPiece /\ made \subseteq FileIndex
    /\ opened \in BOOLEAN /\ selState \in State
    /\ reader \in [Reader -> [file : FileIndex, at : SelPiece, boosted : SelPiece \cup {NoWindow}, waiting : BOOLEAN]
                             \cup {NoReader}]
    /\ changes \in Nat

\* priority.go:82-86: a piece is skipped only when every file touching it is,
\* whatever was boosted, and whichever changes failed half way.
SkippedWithItsFiles ==
    opened => \A p \in SelPiece :
        level[p] = Skip <=> \A f \in FileIndex : Overlaps(f, p) => filePriority[f] = Skip

\* priority.go:129-152: what arrives can be written.  Every file that a piece
\* to be fetched, or asked for before its files were skipped, lies in exists.
BlocksHaveTheirFiles ==
    opened => \A p \in SelPiece, f \in FileIndex :
        (level[p] # Skip \/ p \in begun) /\ p \in PiecesOf(f) => f \in made

\* torrent.go:758-762: Seeding is exactly "every wanted piece is there".
SeedingIsComplete ==
    opened /\ selState \in {"Downloading", "Seeding"} => (selState = "Seeding" <=> Unfinished = {})

\* A reader of a wanted file never waits for a piece that nobody fetches, and
\* the one that spoke to the picker last waits for an urgent one.
ReadersAreServed ==
    \A r \in Reader : Reads(r) =>
        /\ reader[r].at \in PiecesOf(reader[r].file)
        /\ filePriority[reader[r].file] # Skip => level[reader[r].at] # Skip
        /\ window = reader[r].at => level[window] \in {Skip, High}

\* File selection, previews and streams agree on what is fetched and where it
\* goes (doSetFilePriority, doSetFirstLastPieceFirst, doSetStreamPosition).
SelectionInv == SelectionTypeOK /\ SkippedWithItsFiles /\ BlocksHaveTheirFiles /\ SeedingIsComplete /\ ReadersAreServed
=============================================================================
