-------------------------------- MODULE Dedupe --------------------------------
(***************************************************************************)
(* Pieces that another torrent of the fleet has already (engine/dedupe.go) *)
(* and the locks around them: the engine's, which List holds while it asks *)
(* every actor for its statistics, the index's, and the actors, which      *)
(* record what they verify in a callback of their own.  (A recheck, which   *)
(* may take a piece back, is left out: entries are looked at before use.)  *)
(***************************************************************************)
EXTENDS Naturals, FiniteSets

CONSTANTS Sharer,      \* torrents
          Pieces,      \* pieces of each: 1..Pieces
          ContentOf,   \* what each piece of each torrent holds, a function
          Adopts,      \* bound: torrents whose applyDedupe finds a piece missing
          PureV2,      \* torrents without v1 hashes
          Nowhere

ASSUME DedupeAssumption == Pieces \in Nat /\ PureV2 \cup Adopts \subseteq Sharer

VARIABLES
    mu,        \* e.mu: "free", "list"
    asking,    \* torrents List has yet to ask
    index,     \* dedupeIndex: where each content was last seen
    inFleet,   \* e.torrents
    life,      \* each torrent: "new", "downloading", "stopping", "stopped"
    has,       \* haveSnapshot
    callback,  \* the piece an actor is reporting, 0 when it serves its channels
    adopt,     \* applyDedupe of each torrent
    publish,   \* publishAllDedupeSources of each is to run
    panicked   \* the process has ended

dedupeVars == <<mu, asking, index, inFleet, life, has, callback, adopt, publish, panicked>>

PieceSet == 1..Pieces
Scanning == {"get", "look", "source", "read", "apply"}
Serves(t) == life[t] = "downloading" /\ callback[t] = 0
Hashless(t) == t \in PureV2
Step(t, at) == adopt' = [adopt EXCEPT ![t].at = at]
Waiting(at) == [at |-> at, i |-> 1, have |-> {}, loc |-> Nowhere]
Finish(t) == adopt' = [adopt EXCEPT ![t] = Waiting("done")]
\* On to the next piece.
Skip(t) == adopt' = [adopt EXCEPT ![t].at = "look", ![t].i = @ + 1]
Panic == panicked' = TRUE /\ UNCHANGED <<mu, asking, index, inFleet, life, has, callback, adopt, publish>>

-----------------------------------------------------------------------------
(* List and Get *)

ListBegins ==
    /\ mu = "free" /\ mu' = "list" /\ asking' = inFleet
    /\ UNCHANGED <<index, inFleet, life, has, callback, adopt, publish, panicked>>
\* Stats: the actor answers, or has ended.
ListAsks(t) ==
    /\ mu = "list" /\ t \in asking /\ (Serves(t) \/ life[t] = "stopped")
    /\ asking' = asking \ {t}
    /\ UNCHANGED <<mu, index, inFleet, life, has, callback, adopt, publish, panicked>>
ListEnds ==
    /\ mu = "list" /\ asking = {} /\ mu' = "free"
    /\ UNCHANGED <<asking, index, inFleet, life, has, callback, adopt, publish, panicked>>

-----------------------------------------------------------------------------
(* The actors *)

\* The torrent starts, with what it finds on disk, and the callbacks of its state.
Downloading(t) ==
    /\ life[t] = "new" /\ mu = "free"
    /\ life' = [life EXCEPT ![t] = "downloading"] /\ inFleet' = inFleet \cup {t}
    /\ \E S \in SUBSET PieceSet : has' = [has EXCEPT ![t] = S]
    /\ Step(t, IF t \in Adopts THEN "get" ELSE "done") /\ publish' = [publish EXCEPT ![t] = TRUE]
    /\ UNCHANGED <<mu, asking, index, callback, panicked>>

\* A piece is verified; the actor is in OnPieceVerified until it is recorded.
Verified(t, i) ==
    /\ Serves(t) /\ i \notin has[t]
    /\ has' = [has EXCEPT ![t] = @ \cup {i}] /\ callback' = [callback EXCEPT ![t] = i]
    /\ UNCHANGED <<mu, asking, index, inFleet, life, adopt, publish, panicked>>

\* recordDedupeSource.
RecordDedupeSource(t) ==
    /\ callback[t] # 0
    /\ callback' = [callback EXCEPT ![t] = 0]
    /\ index' = IF Hashless(t) THEN index ELSE [index EXCEPT ![ContentOf[t][callback[t]]] = <<t, callback[t]>>]
    /\ UNCHANGED <<mu, asking, inFleet, life, has, adopt, publish, panicked>>

\* Remove and Stop; Run ends once the actor has left its callback.
Forget(t) ==
    /\ mu = "free" /\ t \in inFleet /\ inFleet' = inFleet \ {t} /\ life' = [life EXCEPT ![t] = "stopping"]
    /\ UNCHANGED <<mu, asking, index, has, callback, adopt, publish, panicked>>
TorrentEnds(t) ==
    /\ life[t] = "stopping" /\ callback[t] = 0 /\ life' = [life EXCEPT ![t] = "stopped"]
    /\ UNCHANGED <<mu, asking, index, inFleet, has, callback, adopt, publish, panicked>>

-----------------------------------------------------------------------------
(* publishAllDedupeSources *)

\* Get and the index's lock in one step: a removal between them leaves what a removal
\* after them leaves.
PublishAll(t) ==
    /\ publish[t] /\ mu = "free"
    /\ IF t \in inFleet /\ Hashless(t) /\ has[t] # {} THEN Panic
       ELSE /\ publish' = [publish EXCEPT ![t] = FALSE]
            /\ index' = [x \in DOMAIN index |-> IF t \in inFleet /\ \E i \in has[t] : ContentOf[t][i] = x
                                                THEN <<t, CHOOSE i \in has[t] : ContentOf[t][i] = x>> ELSE index[x]]
            /\ UNCHANGED <<mu, asking, inFleet, life, has, callback, adopt, panicked>>

-----------------------------------------------------------------------------
(* applyDedupe *)

AdoptGet(t) ==
    /\ adopt[t].at = "get" /\ mu = "free"
    /\ IF t \in inFleet THEN adopt' = [adopt EXCEPT ![t] = [@ EXCEPT !.at = "look", !.have = has[t]]] ELSE Finish(t)
    /\ UNCHANGED <<mu, asking, index, inFleet, life, has, callback, publish, panicked>>
AdoptLook(t) ==
    /\ adopt[t].at = "look"
    /\ LET i == adopt[t].i IN
       IF i \in PieceSet \ adopt[t].have /\ Hashless(t) THEN Panic
       ELSE /\ IF i \notin PieceSet THEN Finish(t)
               ELSE IF i \in adopt[t].have \/ index[ContentOf[t][i]] = Nowhere \/ index[ContentOf[t][i]][1] = t THEN Skip(t)
               ELSE adopt' = [adopt EXCEPT ![t].at = "source", ![t].loc = index[ContentOf[t][i]]]
            /\ UNCHANGED <<mu, asking, index, inFleet, life, has, callback, publish, panicked>>

\* The entry may be stale: its owner is gone, or does not have the piece.
AdoptSource(t) ==
    /\ adopt[t].at = "source" /\ mu = "free"
    /\ LET o == adopt[t].loc[1]
       IN  IF o \in inFleet /\ adopt[t].loc[2] \in has[o] THEN Step(t, "read") ELSE Skip(t)
    /\ UNCHANGED <<mu, asking, index, inFleet, life, has, callback, publish, panicked>>
\* The copy may fail: the owner is being removed, and its files with it.
AdoptRead(t) ==
    /\ adopt[t].at = "read"
    /\ Step(t, "apply") \/ (adopt[t].loc[1] \notin inFleet /\ Skip(t))
    /\ UNCHANGED <<mu, asking, index, inFleet, life, has, callback, publish, panicked>>
\* ApplyExternalPiece: the actor writes it and verifies it, or has ended.  Mutant:
\* nobody looks whether it has.
Applied(t) ==
    /\ Skip(t)
    /\ \/ /\ Serves(t) /\ adopt[t].i \notin has[t]
          /\ has' = [has EXCEPT ![t] = @ \cup {adopt[t].i}] /\ callback' = [callback EXCEPT ![t] = adopt[t].i]
       \/ /\ ~Serves(t) \/ adopt[t].i \in has[t]
          /\ UNCHANGED <<has, callback>>
    /\ UNCHANGED <<mu, asking, index, inFleet, life, publish, panicked>>
AdoptApplyAlive(t) == adopt[t].at = "apply" /\ Serves(t) /\ Applied(t)
AdoptApply(t) == adopt[t].at = "apply" /\ (Serves(t) \/ life[t] = "stopped") /\ Applied(t)

-----------------------------------------------------------------------------

DedupeInit ==
    /\ mu = "free" /\ asking = {} /\ inFleet = {} /\ panicked = FALSE
    /\ index = [x \in {ContentOf[t][i] : t \in Sharer, i \in PieceSet} |-> Nowhere]
    /\ life = [t \in Sharer |-> "new"] /\ has = [t \in Sharer |-> {}] /\ callback = [t \in Sharer |-> 0]
    /\ adopt = [t \in Sharer |-> Waiting("idle")]
    /\ publish = [t \in Sharer |-> FALSE]

Listing == ListEnds \/ \E t \in Sharer : ListAsks(t)
Acting(t) == RecordDedupeSource(t) \/ TorrentEnds(t)
Adopting(t) == AdoptGet(t) \/ AdoptLook(t) \/ AdoptSource(t) \/ AdoptRead(t) \/ AdoptApply(t)
DedupeNext ==
    /\ ~panicked
    /\ \/ ListBegins \/ Listing
       \/ \E t \in Sharer : Downloading(t) \/ Acting(t) \/ Adopting(t) \/ PublishAll(t) \/ Forget(t)
                            \/ \E i \in PieceSet : Verified(t, i)

\* A mutex and a channel serve whoever waits long enough.
DedupeFairness ==
    /\ SF_dedupeVars(~panicked /\ Listing)
    /\ \A t \in Sharer : WF_dedupeVars(~panicked /\ Acting(t)) /\ SF_dedupeVars(~panicked /\ Adopting(t))
DedupeSpec == DedupeInit /\ [][DedupeNext]_dedupeVars /\ DedupeFairness

-----------------------------------------------------------------------------
(* Properties *)

(***************************************************************************)
(* "List holds e.mu waiting on this actor's Stats() reply, while this      *)
(* actor - mid-OnPieceVerified - waits on Get's e.mu": nothing of the      *)
(* kind, the lock is always released.                                      *)
(***************************************************************************)
LockIsReleased == (mu = "list") ~> (mu = "free")

\* A pass ends, also when the torrent it is for, or the one it copies from, is
\* removed meanwhile.
AdoptionEnds == \A t \in Sharer : (adopt[t].at \in Scanning) ~> (adopt[t].at = "done")

\* "Any failure is logged and skipped rather than treated as fatal."
NothingIsFatal == ~panicked

=============================================================================
