-------------------------------- MODULE Fleet --------------------------------
(***************************************************************************)
(* The fleet of an engine and its manifest (engine.go, manifest.go,        *)
(* movedata.go, incompletedir.go, completion.go, seedlimit.go): adding,    *)
(* removing and moving torrents, leaving the incomplete directory, what a  *)
(* restart brings back.  Each call holds the lock for its first and last   *)
(* step only, and others get in between.                                   *)
(***************************************************************************)
EXTENDS Naturals, Sequences, FiniteSets

CONSTANTS Hash,         \* infohashes
          Staging,      \* Defaults.IncompleteDir
          Final,        \* Defaults.DownloadDir
          Other,        \* where MoveData is told to move
          Goroutine,    \* bound: calls and callbacks under way at once
          MaxTorrents,  \* bound: torrents made by one process
          MaxCalls,     \* bound: what users call
          MaxFails,     \* bound: file operations that fail
          MaxCrashes,   \* bound
          Absent

Dirs == {Staging, Final, Other}

\* What the manifest has of a torrent.
ManifestEntry == [dir : {Final, Other}, staged : BOOLEAN, completed : BOOLEAN]
ASSUME FleetAssumption == Absent \notin ManifestEntry

VARIABLES
    fleet,    \* e.torrents: the record of each hash, 0 for none
    rec,      \* managedTorrent records, never reused
    tor,      \* torrents made: hash, directory, "new", "running", "seeding", "stopped"
    saved,    \* the manifest
    loading,  \* what Load has read and not yet added
    place,    \* the content of each torrent in each directory: "none", "part", "full"
    call,     \* what each goroutine does
    owed,      \* callbacks of a torrent that began to seed
    calls, fails, crashes,  \* counters for the bounds
    known,    \* torrents added and not removed since
    atRisk,   \* those a start had read and not added when it crashed or could not
    behind,   \* a failed save was not undone
    tangled   \* hashes with a MoveData or a second Add among calls that overlap

fleetVars == <<fleet, rec, tor, saved, loading, place, call, owed, calls, fails, crashes, known, atRisk, behind, tangled>>
bounds == <<calls, fails, crashes>>
ghosts == <<known, atRisk, tangled>>

Current(h) == rec[fleet[h]].t
Operational(dir, staged) == IF staged THEN Staging ELSE dir
Fine == UNCHANGED fails
Failing == fails < MaxFails /\ fails' = fails + 1
Loaded == \A h \in Hash : loading[h] = Absent
At(h) == {g \in Goroutine : call[g].op # "idle" /\ call[g].hash = h}
Busy(h) == At(h) # {} \/ \E d \in owed : d[2] = h
Moving(h) == \E g \in At(h) : call[g].op \in {"move", "stage"}
Tangles(h, cond) == tangled' = IF cond THEN tangled \cup {h} ELSE tangled
Free == [op |-> "idle"]

\* saveManifestLocked: all of the fleet, whole or not at all.
Image(f, r) == [h \in Hash |-> IF f[h] = 0 THEN Absent
                               ELSE [dir |-> r[f[h]].dir, staged |-> r[f[h]].staged, completed |-> r[f[h]].completed]]
SaveOr(f, r) == \/ saved' = Image(f, r) /\ behind' = FALSE /\ Fine
                \/ UNCHANGED saved /\ behind' = TRUE /\ Failing

-----------------------------------------------------------------------------
(* Adding and loading *)

\* AddWithOptions after its checks.
Added(h, dir, staged, completed) ==
    LET r == Append(rec, [t |-> Len(tor) + 1, dir |-> dir, staged |-> staged, completed |-> completed, hooked |-> FALSE])
        f == [fleet EXCEPT ![h] = Len(r)]
    IN  /\ Len(tor) < MaxTorrents /\ fleet[h] = 0
        /\ \/ /\ fleet' = f /\ rec' = r
              /\ tor' = Append(tor, [hash |-> h, dir |-> Operational(dir, staged), phase |-> "running"])
              /\ saved' = Image(f, r) /\ behind' = FALSE /\ Fine
           \/ Failing /\ UNCHANGED <<fleet, rec, tor, saved, behind>>

FleetAdd(h) ==
    /\ Loaded /\ calls < MaxCalls /\ calls' = calls + 1
    /\ Added(h, Final, TRUE, FALSE)
    /\ known' = IF fleet'[h] # 0 THEN known \cup {h} ELSE known
    /\ Tangles(h, Busy(h))
    /\ UNCHANGED <<loading, place, call, owed, crashes, atRisk>>

\* Load: one entry of the manifest.  It is skipped when its source is gone.
LoadOne(h) ==
    /\ loading[h] # Absent
    /\ \/ Added(h, loading[h].dir, loading[h].staged, loading[h].completed)
       \/ Failing /\ UNCHANGED <<fleet, rec, tor, saved, behind>>
    /\ loading' = [loading EXCEPT ![h] = Absent]
    /\ atRisk' = IF fleet'[h] = 0 THEN atRisk \cup {h} ELSE atRisk
    /\ UNCHANGED <<place, call, owed, calls, crashes, known, tangled>>

\* The process ends at any point and another starts.
CrashEngine ==
    /\ crashes < MaxCrashes /\ crashes' = crashes + 1
    /\ fleet' = [h \in Hash |-> 0] /\ rec' = <<>> /\ tor' = <<>>
    /\ loading' = saved
    /\ call' = [g \in Goroutine |-> Free] /\ owed' = {} /\ behind' = FALSE /\ tangled' = {}
    /\ atRisk' = atRisk \cup {h \in Hash : loading[h] # Absent}
    /\ UNCHANGED <<saved, place, calls, fails, known>>

-----------------------------------------------------------------------------
(* The torrents *)

\* The files are made; a download ends; a torrent whose content is whole seeds,
\* once more when it was paused in between.
Allocates(i) ==
    /\ tor[i].phase = "running" /\ place[tor[i].hash][tor[i].dir] = "none"
    /\ place' = [place EXCEPT ![tor[i].hash][tor[i].dir] = "part"]
    /\ UNCHANGED <<fleet, rec, tor, saved, loading, call, owed, bounds, ghosts, behind>>
Downloads(i) ==
    /\ tor[i].phase = "running" /\ place[tor[i].hash][tor[i].dir] = "part"
    /\ place' = [place EXCEPT ![tor[i].hash][tor[i].dir] = "full"]
    /\ UNCHANGED <<fleet, rec, tor, saved, loading, call, owed, bounds, ghosts, behind>>
Seeding(i) ==
    /\ tor' = [tor EXCEPT ![i].phase = "seeding"]
    /\ owed' = owed \cup ({"stage", "hook", "done"} \X {tor[i].hash})
    /\ UNCHANGED <<fleet, rec, saved, loading, place, call, fails, crashes, ghosts, behind>>
Completes(i) == tor[i].phase = "running" /\ place[tor[i].hash][tor[i].dir] = "full" /\ Seeding(i) /\ UNCHANGED calls
Revisits(i) == tor[i].phase = "seeding" /\ calls < MaxCalls /\ calls' = calls + 1 /\ Seeding(i)

\* dispatchCompletionHook.
Hook(h) ==
    /\ <<"hook", h>> \in owed /\ owed' = owed \ {<<"hook", h>>}
    /\ rec' = IF fleet[h] # 0 /\ ~rec[fleet[h]].staged THEN [rec EXCEPT ![fleet[h]].hooked = TRUE] ELSE rec
    /\ UNCHANGED <<fleet, tor, saved, loading, place, call, bounds, ghosts, behind>>

\* recordCompletedAt.
RecordCompleted(h) ==
    /\ <<"done", h>> \in owed /\ owed' = owed \ {<<"done", h>>}
    /\ IF fleet[h] # 0 /\ ~rec[fleet[h]].completed /\ ~rec[fleet[h]].staged
       THEN rec' = [rec EXCEPT ![fleet[h]].completed = TRUE] /\ SaveOr(fleet, rec')
       ELSE UNCHANGED <<rec, saved, behind, fails>>
    /\ UNCHANGED <<fleet, tor, loading, place, call, calls, crashes, ghosts>>

-----------------------------------------------------------------------------
(* Calls that stop a torrent: Remove, RemoveAndDeleteData, MoveData and      *)
(* maybeMoveFromIncompleteDir                                                *)

Starts(g, op, h, to) ==
    call' = [call EXCEPT ![g] = [op |-> op, hash |-> h, m |-> fleet[h], at |-> "stop", from |-> tor[Current(h)].dir, to |-> to]]

FleetRemove(g, h, op) ==
    /\ Loaded /\ calls < MaxCalls /\ calls' = calls + 1
    /\ op \in {"remove", "delete"} /\ call[g] = Free /\ fleet[h] # 0
    /\ \/ /\ Starts(g, op, h, Absent)
          /\ fleet' = [fleet EXCEPT ![h] = 0] /\ saved' = Image(fleet', rec)
          /\ behind' = FALSE /\ known' = known \ {h} /\ Fine
       \/ Failing /\ UNCHANGED <<call, fleet, saved, behind, known>>
    /\ Tangles(h, \E c \in At(h) : call[c].op = "move")
    /\ UNCHANGED <<rec, tor, loading, place, owed, crashes, atRisk>>

MoveData(g, h) ==
    /\ Loaded /\ calls < MaxCalls /\ calls' = calls + 1
    /\ call[g] = Free /\ fleet[h] # 0
    /\ Starts(g, "move", h, Other)
    /\ Tangles(h, At(h) # {})
    /\ UNCHANGED <<fleet, rec, tor, saved, loading, place, owed, fails, crashes, known, atRisk, behind>>

MaybeMoveFromIncompleteDir(g, h) ==
    /\ <<"stage", h>> \in owed /\ call[g] = Free /\ owed' = owed \ {<<"stage", h>>}
    /\ IF fleet[h] # 0 /\ rec[fleet[h]].staged THEN Starts(g, "stage", h, rec[fleet[h]].dir) ELSE UNCHANGED call
    /\ Tangles(h, Moving(h))
    /\ UNCHANGED <<fleet, rec, tor, saved, loading, place, bounds, known, atRisk, behind>>

\* mt.t.Stop waits: the record's torrent is looked up at this point.  It waits for
\* Run to end, and never returns where Run was not begun: after a move whose save
\* failed.
Stop(g) ==
    /\ call[g].op # "idle" /\ call[g].at = "stop" /\ tor[rec[call[g].m].t].phase # "new"
    /\ tor' = [tor EXCEPT ![rec[call[g].m].t].phase = "stopped"]
    /\ call' = [call EXCEPT ![g] = IF @.op = "remove" THEN Free ELSE [@ EXCEPT !.at = "files"]]
    /\ UNCHANGED <<fleet, rec, saved, loading, place, owed, bounds, ghosts, behind>>

\* os.RemoveAll; os.Rename, which may fail and leaves the torrent stopped.
Moved(h, from, to) == [place EXCEPT ![h] = [d \in Dirs |-> IF d = to THEN place[h][from] ELSE IF d = from THEN "none" ELSE @[d]]]
Files(g) ==
    /\ call[g].op # "idle" /\ call[g].at = "files"
    /\ LET c == call[g] IN
       \/ /\ c.op = "delete" /\ place' = [place EXCEPT ![c.hash][c.from] = "none"]
          /\ call' = [call EXCEPT ![g] = Free] /\ Fine
       \/ /\ c.op # "delete" /\ place[c.hash][c.from] # "none"
          /\ place' = Moved(c.hash, c.from, c.to)
          /\ call' = [call EXCEPT ![g].at = "restart"] /\ Fine
       \/ /\ c.op # "delete" /\ call' = [call EXCEPT ![g] = Free] /\ UNCHANGED place
          /\ IF place[c.hash][c.from] = "none" THEN Fine ELSE Failing
    /\ UNCHANGED <<fleet, rec, tor, saved, loading, owed, calls, crashes, ghosts, behind>>

\* Under the lock again.  MoveData keeps its record; what leaves the staging
\* directory looks its hash up anew.  Mutant: it does not.
SameRecord(c) == c.m
Unstaged(r) == [r EXCEPT !.staged = FALSE]
Looked(c) == IF c.op = "move" THEN c.m ELSE fleet[c.hash]
Restart(g) ==
    /\ call[g].op # "idle" /\ call[g].at = "restart" /\ Len(tor) < MaxTorrents
    /\ LET c == call[g]
           m == Looked(c)
           new(ph) == Append(tor, [hash |-> c.hash, dir |-> c.to, phase |-> ph])
       IN  \/ /\ m = 0 /\ UNCHANGED <<rec, tor, saved, behind, fails>>
           \/ /\ m # 0 /\ c.op = "move"
              /\ rec' = [rec EXCEPT ![m].t = Len(tor) + 1, ![m].dir = c.to]
              /\ SaveOr(fleet, rec') /\ tor' = new(IF behind' THEN "new" ELSE "running")
           \/ /\ m # 0 /\ c.op = "stage"
              /\ rec' = [rec EXCEPT ![m] = Unstaged([@ EXCEPT !.t = Len(tor) + 1])]
              /\ SaveOr(fleet, rec') /\ tor' = new("running")
    /\ call' = [call EXCEPT ![g] = Free]
    /\ UNCHANGED <<fleet, loading, place, owed, calls, crashes, ghosts>>

-----------------------------------------------------------------------------

FleetInit ==
    /\ fleet = [h \in Hash |-> 0] /\ rec = <<>> /\ tor = <<>>
    /\ saved = [h \in Hash |-> Absent] /\ loading = saved
    /\ place = [h \in Hash |-> [d \in Dirs |-> "none"]]
    /\ call = [g \in Goroutine |-> Free] /\ owed = {}
    /\ calls = 0 /\ fails = 0 /\ crashes = 0
    /\ known = {} /\ atRisk = {} /\ behind = FALSE /\ tangled = {}

CallStep(g) == Stop(g) \/ Files(g) \/ Restart(g)
Callback(h) == Hook(h) \/ RecordCompleted(h) \/ \E g \in Goroutine : MaybeMoveFromIncompleteDir(g, h)
FleetNext ==
    \/ \E h \in Hash : FleetAdd(h) \/ LoadOne(h) \/ Callback(h)
    \/ \E h \in Hash, g \in Goroutine : MoveData(g, h) \/ \E op \in {"remove", "delete"} : FleetRemove(g, h, op)
    \/ \E g \in Goroutine : CallStep(g)
    \/ \E i \in DOMAIN tor : Allocates(i) \/ Downloads(i) \/ Completes(i) \/ Revisits(i)
    \/ CrashEngine

FleetFairness == /\ \A g \in Goroutine : WF_fleetVars(CallStep(g))
                 /\ \A h \in Hash : WF_fleetVars(Callback(h))
                 /\ WF_fleetVars(\E i \in DOMAIN tor : Completes(i))
FleetSpec == FleetInit /\ [][FleetNext]_fleetVars /\ FleetFairness

-----------------------------------------------------------------------------
(* Properties *)

FleetTypeOK ==
    /\ \A h \in Hash : fleet[h] \in 0..Len(rec)
    /\ \A m \in DOMAIN rec : rec[m].t \in DOMAIN tor /\ rec[m].dir \in {Final, Other}
    /\ \A i \in DOMAIN tor : tor[i].hash \in Hash /\ tor[i].phase \in {"new", "running", "seeding", "stopped"}
    /\ place \in [Hash -> [Dirs -> {"none", "part", "full"}]]
    /\ owed \subseteq {"stage", "hook", "done"} \X Hash
    /\ \A g \in Goroutine : call[g] # Free => call[g].at \in {"stop", "files", "restart"} /\ call[g].m \in DOMAIN rec

(***************************************************************************)
(* "It either leaves the fleet exactly as it was or commits both the       *)
(* in-memory and on-disk state together": the manifest is the fleet, but   *)
(* for a move whose save failed, and the entries Load has yet to add.      *)
(***************************************************************************)
ManifestIsFleet == Loaded /\ ~behind /\ atRisk = {} => saved = Image(fleet, rec)

(***************************************************************************)
(* "The manifest that lets them survive a process restart": a torrent that *)
(* was added and not removed is in the manifest.                           *)
(***************************************************************************)
KnownIsSaved == \A h \in known : saved[h] # Absent \/ loading[h] # Absent

\* It is, unless a start ended before it was added again.
KnownIsSavedOrAtRisk == \A h \in known : saved[h] # Absent \/ loading[h] # Absent \/ h \in atRisk

(***************************************************************************)
(* "Remove stops a managed torrent for good": no torrent runs that is not  *)
(* the fleet's, or about to be stopped, also when a removal overtakes the  *)
(* move out of the staging directory.  MoveData and a second Add are not   *)
(* so careful.                                                             *)
(***************************************************************************)
Registered(i) == \E h \in Hash : fleet[h] # 0 /\ Current(h) = i
Orphan(i) == /\ tor[i].phase \in {"running", "seeding"} /\ ~Registered(i)
             /\ \A g \in Goroutine : ~(call[g].op # "idle" /\ call[g].at = "stop" /\ rec[call[g].m].t = i)
NoOrphanRuns == \A i \in DOMAIN tor : Orphan(i) => tor[i].hash \in tangled

\* A torrent seeds what is there: nothing moves or deletes it while it runs.
SeedsWhatIsThere == \A i \in DOMAIN tor : tor[i].phase = "seeding" /\ tor[i].hash \notin tangled
                        => place[tor[i].hash][tor[i].dir] = "full"

(***************************************************************************)
(* The completion hook finds the content in the final directory, never in  *)
(* the one it is about to be moved from.                                   *)
(***************************************************************************)
HookFindsContent == [][\A h \in Hash : fleet[h] # 0 /\ fleet'[h] = fleet[h] /\ h \notin tangled
    /\ ~rec[fleet[h]].hooked /\ rec'[fleet[h]].hooked
    => place[h][rec[fleet[h]].dir] = "full" \/ \E g \in At(h) : call[g].op = "move"]_fleetVars

(***************************************************************************)
(* A complete torrent leaves the staging directory, unless a file          *)
(* operation fails or calls on it overlap.                                 *)
(***************************************************************************)
Staged(h) == fleet[h] # 0 /\ rec[fleet[h]].staged /\ tor[Current(h)].phase = "seeding"
StagedLeaves == \A h \in Hash : Staged(h) ~> (fleet[h] = 0 \/ ~rec[fleet[h]].staged \/ fails > 0 \/ h \in tangled)

\* The fleet, the manifest, the torrents and their files agree.
FleetHolds ==
    [](FleetTypeOK /\ ManifestIsFleet /\ KnownIsSavedOrAtRisk /\ NoOrphanRuns /\ SeedsWhatIsThere) /\ HookFindsContent
=============================================================================
