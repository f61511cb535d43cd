-------------------------------- MODULE Files --------------------------------
(***************************************************************************)
(* Reads and writes of a torrent's byte space (storage.go), each a loop    *)
(* over the files it crosses, through a bounded cache of open files        *)
(* (handles.go) or of memory mappings (mmap.go) that goroutines share.     *)
(***************************************************************************)
EXTENDS Naturals, Sequences, SequencesExt, FiniteSets

CONSTANTS FileLength,   \* the length of each file, in order
          MaxOpenFiles, \* WithMaxOpenFiles
          IoCall,       \* goroutines inside ReadAt or WriteAt
          Unwanted,     \* files of skip priority, not allocated at first
          HandleId,     \* names of open files: more than are open at one time
          MaxIo         \* bound: calls

ASSUME FilesAssumption ==
    /\ FileLength \in Seq(Nat) /\ MaxOpenFiles \in Nat \ {0} /\ MaxIo \in Nat
    /\ Unwanted \subseteq DOMAIN FileLength
    /\ IsFiniteSet(IoCall) /\ IsFiniteSet(HandleId) /\ 0 \notin HandleId
    /\ Cardinality(HandleId) >= MaxOpenFiles + 2 * Cardinality(IoCall)

VARIABLES useMmap,   \* WithMmap
          exists,    \* files on disk, each of its full length
          handles,   \* open handles or mappings: cacheEntry
          lru,       \* the cache, front first
          io,        \* where each call is
          filled,    \* bytes on disk that have been written, <<file, position>>
          closed, ioCount

filesVars == <<useMmap, exists, handles, lru, io, filled, closed, ioCount>>

NotIo == [kind |-> "none"]
Offset[i \in 1..Len(FileLength) + 1] == IF i = 1 THEN 0 ELSE Offset[i - 1] + FileLength[i - 1]
End(i) == Offset[i] + FileLength[i]
TotalLength == Offset[Len(FileLength) + 1]

\* regionAt: the first file that ends after the offset.
RegionAt(off) == CHOOSE i \in DOMAIN FileLength : End(i) > off /\ \A j \in 1..i - 1 : End(j) <= off
AtMostOf(m, n) == IF m < n THEN m ELSE n

-----------------------------------------------------------------------------
(* The cache.  A cached file is a record of a table and of an order. *)

Cache(tab, order) == [tab |-> tab, order |-> order]
Only(tab, ids) == [h \in ids |-> tab[h]]
Without(order, h) == IF h \in ToSet(order) THEN RemoveAt(order, CHOOSE i \in DOMAIN order : order[i] = h) ELSE order

\* evict: out of the order; closed if nobody holds it, else by the last release.
\* Mutant: closed at once.
EvictClosing(c, h) == Cache([c.tab EXCEPT ![h].evicted = TRUE, ![h].open = FALSE], Without(c.order, h))
Evict(c, h) ==
    Cache(IF c.tab[h].refs = 0 THEN Only(c.tab, DOMAIN c.tab \ {h}) ELSE [c.tab EXCEPT ![h].evicted = TRUE],
          Without(c.order, h))

\* trim, after one file more: while there are too many, the oldest that is idle
\* goes, if one is.
Idlers(c) == {i \in DOMAIN c.order : c.tab[c.order[i]].refs = 0}
EvictIdle(c) ==
    IF Len(c.order) <= MaxOpenFiles \/ Idlers(c) = {} THEN c
    ELSE Evict(c, c.order[CHOOSE i \in Idlers(c) : \A j \in Idlers(c) : j <= i])
Trim(c) == LET after[n \in 0..Len(c.order)] == IF n = 0 THEN c ELSE EvictIdle(after[n - 1])
           IN  after[Len(c.order)]

FreeId(c) == CHOOSE h \in HandleId : h \notin DOMAIN c.tab
Opened(c, f, write) ==
    LET h == FreeId(c) IN
    Cache([x \in DOMAIN c.tab \cup {h} |-> IF x = h THEN [file |-> f, writable |-> write, refs |-> 1, evicted |-> FALSE, open |-> TRUE]
                                         ELSE c.tab[x]],
          <<h>> \o c.order)
Cached(c, f) == {h \in ToSet(c.order) : c.tab[h].file = f}
Held(c, h) == Cache([c.tab EXCEPT ![h].refs = @ + 1], <<h>> \o Without(c.order, h))

\* acquire of handleCache: a read-only handle does not serve a write, and is
\* replaced.
Acquired(c, f, write) ==
    LET fit == {h \in Cached(c, f) : ~write \/ c.tab[h].writable} IN
    IF fit # {} THEN Held(c, CHOOSE h \in fit : TRUE)
    ELSE Trim(Opened(IF Cached(c, f) = {} THEN c ELSE Evict(c, CHOOSE h \in Cached(c, f) : TRUE), f, write))

\* acquire of mmapCache: a mapping is for both.
AcquiredMapping(c, f) ==
    IF Cached(c, f) # {} THEN Held(c, CHOOSE h \in Cached(c, f) : TRUE) ELSE Trim(Opened(c, f, TRUE))

Release(c, h) ==
    IF c.tab[h].evicted /\ c.tab[h].refs = 1 THEN Cache(Only(c.tab, DOMAIN c.tab \ {h}), c.order)
    ELSE Cache([c.tab EXCEPT ![h].refs = @ - 1], c.order)

CloseAll(c) == LET busy == {h \in DOMAIN c.tab : c.tab[h].refs > 0} IN
               Cache([h \in busy |-> [c.tab[h] EXCEPT !.evicted = TRUE]], <<>>)

Becomes(c) == handles' = c.tab /\ lru' = c.order

-----------------------------------------------------------------------------
(* The calls *)

\* ReadAt or WriteAt of a range inside the torrent; neither asks whether the
\* storage is closed.
BeginIo(c, kind, from, to) ==
    /\ io[c] = NotIo /\ ioCount < MaxIo /\ ioCount' = ioCount + 1
    /\ io' = [io EXCEPT ![c] = [kind |-> kind, at |-> from, from |-> from, to |-> to, holds |-> 0]]
    /\ UNCHANGED <<useMmap, exists, handles, lru, filled, closed>>

\* The next file of the range: a file that is not there ends the call.
AcquireFile(c) ==
    /\ io[c].kind \in {"read", "write"} /\ io[c].holds = 0 /\ io[c].at < io[c].to
    /\ LET f == RegionAt(io[c].at)
           cache == Cache(handles, lru)
           next == IF useMmap THEN AcquiredMapping(cache, f) ELSE Acquired(cache, f, io[c].kind = "write")
       IN IF f \notin exists /\ Cached(cache, f) = {}
          THEN io' = [io EXCEPT ![c] = NotIo] /\ UNCHANGED <<handles, lru>>
          ELSE Becomes(next) /\ io' = [io EXCEPT ![c].holds = next.order[1]]
    /\ UNCHANGED <<useMmap, exists, filled, closed, ioCount>>

\* The part of the range that lies in this file, and the end of its use.
Transfer(c) ==
    /\ io[c].kind \in {"read", "write"} /\ io[c].holds # 0
    /\ LET f == RegionAt(io[c].at)
           want == AtMostOf(io[c].to, End(f)) - io[c].at
           first == io[c].at - Offset[f]
       IN /\ filled' = IF io[c].kind = "write" THEN filled \cup {<<f, p>> : p \in first..first + want - 1} ELSE filled
          /\ io' = [io EXCEPT ![c].at = @ + want, ![c].holds = 0]
    /\ Becomes(Release(Cache(handles, lru), io[c].holds))
    /\ UNCHANGED <<useMmap, exists, closed, ioCount>>

IoReturns(c) ==
    /\ io[c].kind \in {"read", "write"} /\ io[c].at = io[c].to
    /\ io' = [io EXCEPT ![c] = NotIo]
    /\ UNCHANGED <<useMmap, exists, handles, lru, filled, closed, ioCount>>

\* EnsureFileAllocated, when the priority of a file is raised.
EnsureFileAllocated(f) ==
    /\ f \notin exists /\ exists' = exists \cup {f}
    /\ UNCHANGED <<useMmap, handles, lru, io, filled, closed, ioCount>>

\* Close, at the end of Run, whoever is still in a call.
CloseStorage ==
    /\ ~closed /\ closed' = TRUE
    /\ Becomes(CloseAll(Cache(handles, lru)))
    /\ UNCHANGED <<useMmap, exists, io, filled, ioCount>>

\* New and Allocate: the files that are wanted are there.
FilesInit ==
    /\ useMmap \in BOOLEAN
    /\ exists = DOMAIN FileLength \ Unwanted
    /\ handles = <<>> /\ lru = <<>> /\ filled = {}
    /\ io = [c \in IoCall |-> NotIo] /\ closed = FALSE /\ ioCount = 0

FilesNext ==
    \/ \E c \in IoCall :
          \/ \E kind \in {"read", "write"}, from \in 0..TotalLength, to \in 0..TotalLength :
                from < to /\ BeginIo(c, kind, from, to)
          \/ AcquireFile(c) \/ Transfer(c) \/ IoReturns(c)
    \/ \E f \in DOMAIN FileLength : EnsureFileAllocated(f)
    \/ CloseStorage

FilesSpec == FilesInit /\ [][FilesNext]_filesVars

-----------------------------------------------------------------------------
\* handles.go:18-19: a file in use is open, for what it is used for, and it is
\* the file of the range the call has come to.
InUseIsOpen ==
    \A c \in IoCall : io[c].kind # "none" /\ io[c].holds # 0 =>
        /\ io[c].holds \in DOMAIN handles /\ handles[io[c].holds].open
        /\ io[c].kind = "write" => handles[io[c].holds].writable
        /\ handles[io[c].holds].file = RegionAt(io[c].at)

\* Every open file is in the cache or in use, each use is counted, and a path is
\* cached once: evictions, replacements, closing and late releases lose none.
HandlesAreOwned ==
    /\ \A h \in DOMAIN handles :
          /\ h \in ToSet(lru) <=> ~handles[h].evicted
          /\ handles[h].evicted => handles[h].refs > 0
          /\ handles[h].refs = Cardinality({c \in IoCall : io[c].kind # "none" /\ io[c].holds = h})
    /\ \A i, j \in DOMAIN lru : i # j => handles[lru[i]].file # handles[lru[j]].file

\* handles.go:93-96: the cache exceeds its bound only by files in use at once.
CacheIsBounded == Len(lru) <= MaxOpenFiles + Cardinality(IoCall) - 1

\* storage.go:41-46: the files are one contiguous byte space.  What a write
\* has done so far is in its place, whatever files it crosses, the empty ones
\* included.
BytesOf(off) == CHOOSE at \in {<<f, p>> : f \in DOMAIN FileLength, p \in 0..TotalLength} :
                    at[2] < FileLength[at[1]] /\ Offset[at[1]] + at[2] = off
WritesLand ==
    \A c \in IoCall : io[c].kind = "write" =>
        \A off \in io[c].from..io[c].at - 1 : BytesOf(off) \in filled

FilesInv == InUseIsOpen /\ HandlesAreOwned /\ CacheIsBounded /\ WritesLand
=============================================================================
