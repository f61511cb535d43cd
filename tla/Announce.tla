------------------------------- MODULE Announce -------------------------------
(***************************************************************************)
(* What a torrent tells its trackers (torrent/announce.go): a loop that    *)
(* announces to every tier over and over and puts the tracker that         *)
(* answered first, cancelled and started anew by the actor, which says     *)
(* goodbye itself.  A loop that was cancelled runs on until it notices,    *)
(* and what it had sent may still arrive.  How long a loop sleeps, and what    *)
(* event it names, are left out.                                           *)
(***************************************************************************)
EXTENDS Naturals, Sequences, FiniteSets, SequencesExt

CONSTANTS MagnetUrls,   \* Config.Trackers: one tier, a sequence
          ListTier,     \* the announce-list: one tier, a set of trackers
          ExtraUrl,     \* what AddTracker adds
          LoopId,       \* bound: announceLoop goroutines at once
          Goodbye,      \* announceOnce, which the actor calls
          MaxOrders,    \* bound: what users and the metadata make the actor do
          MaxOutages,   \* bound: trackers going down or up, timeouts
          Gone

Trackers == ToSet(MagnetUrls) \cup ListTier \cup {ExtraUrl}
Announcer == LoopId \cup {Goodbye}
\* buildTiers leaves out a tier without a tracker.
ASSUME AnnounceAssumption ==
    /\ {MaxOrders, MaxOutages} \subseteq Nat /\ Goodbye \notin LoopId
    /\ MagnetUrls \in Seq(ToSet(MagnetUrls)) /\ MagnetUrls # <<>>
    /\ IsFiniteSet(ListTier) /\ ListTier # {}

VARIABLES
    mode,      \* the torrent: "new", "active", "paused", "closed"
    quit,      \* t.ctx is cancelled
    known,     \* mi: the metadata is known
    extra,     \* extraTrackers has something
    announcing,  \* each announcer: Gone, or where it is
    answers,   \* trackers that answer
    heard,     \* the tracker that heard of us last
    toldOrders, outages  \* counters for the bounds

announceVars == <<mode, quit, known, extra, announcing, answers, heard, toldOrders, outages>>

\* buildTiers in any order within a tier, the magnet's trackers after them.
BuiltTiers == IF known THEN {<<s, MagnetUrls>> : s \in SetToSeqs(ListTier)} ELSE {<<MagnetUrls>>}
ExtraTrackerTier == IF extra THEN << <<ExtraUrl>> >> ELSE <<>>

\* A loop at the start of a round: the tiers, once more when the metadata has come.
Round(tiers, live, built) ==
    [tiers |-> tiers \o ExtraTrackerTier, own |-> Len(tiers), live |-> live, built |-> built,
     at |-> "round", i |-> 1, j |-> 1]
LiveLoop(l) == announcing[l] # Gone /\ announcing[l].live
Url(a) == a.tiers[a.i][a.j]

\* restartAnnounceLoop and stopAnnounceLoop.  Mutant: the old loop goes on.
CancelledNone == announcing
Cancelled == [l \in Announcer |-> IF l \in LoopId /\ LiveLoop(l) THEN [announcing[l] EXCEPT !.live = FALSE] ELSE announcing[l]]
RestartAnnounceLoop ==
    \E l \in LoopId : \E tiers \in BuiltTiers :
        /\ announcing[l] = Gone
        /\ announcing' = [Cancelled EXCEPT ![l] = Round(tiers, ~quit, known)]

-----------------------------------------------------------------------------
(* The actor *)

Serving == mode \in {"active", "paused"} /\ announcing[Goodbye] = Gone
Ordering == toldOrders < MaxOrders /\ toldOrders' = toldOrders + 1
Elsewhere == UNCHANGED <<answers, heard, outages>>

StartTorrent ==
    /\ mode = "new"
    /\ \/ mode' = "active" /\ RestartAnnounceLoop
       \/ mode' = "paused" /\ UNCHANGED announcing
    /\ UNCHANGED <<quit, known, extra, toldOrders>> /\ Elsewhere
\* announceOnce builds the tiers anew.
SaysGoodbye(b) == \E tiers \in BuiltTiers : announcing' = [b EXCEPT ![Goodbye] = Round(tiers, TRUE, known)]
PauseTorrent ==
    /\ Serving /\ Ordering /\ mode = "active"
    /\ SaysGoodbye(Cancelled) /\ mode' = "paused"
    /\ UNCHANGED <<quit, known, extra>> /\ Elsewhere
ResumeTorrent ==
    /\ Serving /\ Ordering /\ mode = "paused"
    /\ mode' = "active" /\ RestartAnnounceLoop
    /\ UNCHANGED <<quit, known, extra>> /\ Elsewhere
RecheckTorrent ==
    /\ Serving /\ Ordering /\ known
    /\ mode' = "active" /\ RestartAnnounceLoop
    /\ UNCHANGED <<quit, known, extra>> /\ Elsewhere
AddTracker ==
    /\ Serving /\ Ordering /\ extra' = TRUE
    /\ IF mode = "active" THEN RestartAnnounceLoop ELSE UNCHANGED announcing
    /\ UNCHANGED <<mode, quit, known>> /\ Elsewhere
Reannounce ==
    /\ Serving /\ Ordering /\ mode = "active"
    /\ RestartAnnounceLoop
    /\ UNCHANGED <<mode, quit, known, extra>> /\ Elsewhere
MetadataKnown ==
    /\ Serving /\ Ordering /\ ~known /\ known' = TRUE
    /\ UNCHANGED <<mode, quit, extra, announcing>> /\ Elsewhere
\* Stop cancels what every loop's context comes from; Run says goodbye, paused or not.
StopTorrent ==
    /\ ~quit /\ quit' = TRUE /\ announcing' = Cancelled
    /\ UNCHANGED <<mode, known, extra, toldOrders>> /\ Elsewhere
SaysGoodbyeAtEnd ==
    /\ quit /\ Serving
    /\ mode' = "closed" /\ SaysGoodbye(announcing)
    /\ UNCHANGED <<quit, known, extra, toldOrders>> /\ Elsewhere

-----------------------------------------------------------------------------
(* An announcer *)

LoopBecomes(l, a) == announcing' = [announcing EXCEPT ![l] = a]
Actor == UNCHANGED <<mode, quit, known, extra, toldOrders>>

\* A request is under way once the context allows it.
Sends(l) ==
    /\ LiveLoop(l) /\ announcing[l].at = "round"
    /\ LoopBecomes(l, [announcing[l] EXCEPT !.at = "sent"])
    /\ Actor /\ Elsewhere

\* On to the next tier, or to sleep.
After(a) == IF a.i < Len(a.tiers) THEN [a EXCEPT !.i = @ + 1, !.j = 1, !.at = "round"]
            ELSE [a EXCEPT !.at = "sleep"]
\* urls[0], urls[workedAt] = urls[workedAt], urls[0].
Promoted(a) == [a EXCEPT !.tiers[a.i][1] = a.tiers[a.i][a.j], !.tiers[a.i][a.j] = a.tiers[a.i][1]]
\* announceOnce returns.
Ended(l, a) == IF l = Goodbye /\ a.at = "sleep" THEN Gone ELSE a
Answered(l) ==
    /\ announcing[l] # Gone /\ announcing[l].at = "sent" /\ Url(announcing[l]) \in answers
    /\ heard' = Url(announcing[l])
    /\ LoopBecomes(l, Ended(l, After(Promoted(announcing[l]))))
    /\ Actor /\ UNCHANGED <<answers, outages>>

\* announceTier: the next tracker of the tier, or the next tier.
Fails(l) ==
    /\ announcing[l] # Gone /\ announcing[l].at = "sent" /\ Url(announcing[l]) \notin answers
    /\ LET a == announcing[l]
       IN  LoopBecomes(l, Ended(l, IF a.j < Len(a.tiers[a.i]) THEN [a EXCEPT !.j = @ + 1, !.at = "round"] ELSE After(a)))
    /\ Actor /\ Elsewhere

\* The interval is over.  The tiers keep their order, but for the extra one, and are
\* built anew when the metadata has come.
Wakes(l) ==
    /\ l \in LoopId /\ LiveLoop(l) /\ announcing[l].at = "sleep"
    /\ LET a == announcing[l]
       IN  \E tiers \in IF known /\ ~a.built THEN BuiltTiers ELSE {SubSeq(a.tiers, 1, a.own)} :
              LoopBecomes(l, Round(tiers, TRUE, known))
    /\ Actor /\ Elsewhere

\* A context is cancelled, or announceOnce has waited long enough: what was sent
\* may arrive all the same.
MayArrive(l) == heard' = heard \/ (announcing[l].at = "sent" /\ Url(announcing[l]) \in answers /\ heard' = Url(announcing[l]))
Notices(l) ==
    /\ l \in LoopId /\ announcing[l] # Gone /\ ~LiveLoop(l)
    /\ MayArrive(l) /\ LoopBecomes(l, Gone)
    /\ Actor /\ UNCHANGED <<answers, outages>>
AnnounceTimesOut ==
    /\ announcing[Goodbye] # Gone /\ outages < MaxOutages /\ outages' = outages + 1
    /\ MayArrive(Goodbye) /\ LoopBecomes(Goodbye, Gone)
    /\ Actor /\ UNCHANGED answers
Outage(u) ==
    /\ outages < MaxOutages /\ outages' = outages + 1
    /\ answers' = IF u \in answers THEN answers \ {u} ELSE answers \cup {u}
    /\ UNCHANGED <<announcing, heard>> /\ Actor

-----------------------------------------------------------------------------

AnnounceInit ==
    /\ mode = "new" /\ quit = FALSE /\ known \in BOOLEAN /\ extra = FALSE
    /\ announcing = [l \in Announcer |-> Gone]
    /\ answers = Trackers
    /\ heard = ExtraUrl /\ toldOrders = 0 /\ outages = 0

AnnouncerNext(l) == Sends(l) \/ Answered(l) \/ Fails(l) \/ Wakes(l) \/ Notices(l)
AnnounceActorNext == \/ StartTorrent \/ PauseTorrent \/ ResumeTorrent \/ RecheckTorrent \/ AddTracker \/ Reannounce
                     \/ MetadataKnown \/ StopTorrent \/ SaysGoodbyeAtEnd
AnnounceNext == \/ AnnounceActorNext \/ AnnounceTimesOut
                \/ \E l \in Announcer : AnnouncerNext(l)
                \/ \E u \in Trackers : Outage(u)
AnnounceFairness == /\ WF_announceVars(SaysGoodbyeAtEnd)
                    /\ \A l \in Announcer : WF_announceVars(AnnouncerNext(l))
AnnounceSpec == AnnounceInit /\ [][AnnounceNext]_announceVars /\ AnnounceFairness

-----------------------------------------------------------------------------
(* Properties *)

\* "Only mutated in place", "never rebuilt, so that promotion survives": whatever
\* answers and however often it is promoted, no tracker of a tier is lost for it.
TiersAreWhole == \A l \in Announcer : announcing[l] # Gone =>
    \A i \in DOMAIN announcing[l].tiers :
        ToSet(announcing[l].tiers[i]) \in {ToSet(MagnetUrls), ListTier, {ExtraUrl}}

(***************************************************************************)
(* "Pause/Resume/Recheck can restart the loop cleanly instead of           *)
(* accumulating a duplicate every cycle": one loop announces, and none in  *)
(* a torrent that is paused, says goodbye or was told to stop.             *)
(***************************************************************************)
OneLoopAnnounces ==
    /\ \A k, l \in LoopId : LiveLoop(k) /\ LiveLoop(l) => k = l
    /\ mode # "active" \/ quit => \A l \in LoopId : ~LiveLoop(l)

(***************************************************************************)
(* "Redundancy across tiers, not just failover within one": in a torrent   *)
(* that stays active every tier that has a tracker which answers is        *)
(* announced to again and again, the magnet's also once the announce-list  *)
(* is known.                                                               *)
(***************************************************************************)
Tiers == {ToSet(MagnetUrls)} \cup (IF known THEN {ListTier} ELSE {}) \cup (IF extra THEN {{ExtraUrl}} ELSE {})
EveryTierHears == \A T \in {ToSet(MagnetUrls), ListTier, {ExtraUrl}} :
    <>[](mode = "active" /\ ~quit /\ T \in Tiers /\ T \cap answers # {}) => []<>(heard \in T)

\* Stop does not wait for a tracker for ever: Run returns.
GoodbyeEnds == (quit /\ mode # "new") ~> (mode = "closed" /\ announcing[Goodbye] = Gone)

\* One loop announces, and to whole tiers.
AnnounceInv == TiersAreWhole /\ OneLoopAnnounces
=============================================================================
