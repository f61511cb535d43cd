-------------------------------- MODULE Queue --------------------------------
(***************************************************************************)
(* The queue of active torrents (engine/queue.go): at most so many         *)
(* torrents download, seed or do either, those forced first and the others *)
(* by position.  A pass takes the fleet's flags under the lock, then looks *)
(* at each torrent, decides, and pauses and resumes without it; several    *)
(* passes may be under way, since each change of state starts one.         *)
(***************************************************************************)
EXTENDS Naturals, Sequences, FiniteSets, SequencesExt

CONSTANTS Managed,      \* torrents, each added once
          MaxDown,      \* MaxActiveDownloads, 0 for no limit
          MaxSeed,      \* MaxActiveSeeds
          MaxTotal,     \* MaxActiveTotal
          Pass,         \* bound: passes under way at once; Ticker is StartQueue's
          Ticker,
          MaxOrders,    \* bound: what users do
          Idle

ASSUME QueueAssumption ==
    /\ IsFiniteSet(Managed) /\ {MaxDown, MaxSeed, MaxTotal} \subseteq Nat /\ Ticker \in Pass /\ MaxOrders \in Nat
    /\ Idle \notin Managed \X BOOLEAN

VARIABLES
    order,     \* e.torrents by queuePos
    forced,    \* forceStart
    held,      \* queueHeld
    phase,     \* each torrent: "none", "checking", "downloading", "seeding", "paused", "closed"
    complete,  \* Stats().Left is 0
    due,       \* passes that changes of state have started and that have not begun
    pass,      \* each pass: Idle, or what it knows and what it has to do
    orders,    \* counter for the bound
    pausedBy   \* who paused a torrent last: "nobody", "queue", "user", or "free": a user, and
               \* the queue did not hold it, nor was a pass looking at it

queueVars == <<order, forced, held, phase, complete, due, pass, orders, pausedBy>>

InFleet == {order[i] : i \in DOMAIN order}
ActivePhase(t) == phase[t] \in {"checking", "downloading", "seeding"}

\* OnStateChange starts a pass; more than two waiting are as good as two.
Triggered == due' = IF due < 2 THEN due + 1 ELSE due

-----------------------------------------------------------------------------
(* One pass: reevaluateQueue *)

\* The lock is held.
BeginPass(r) ==
    /\ pass[r] = Idle
    /\ IF r = Ticker THEN UNCHANGED due ELSE due > 0 /\ due' = due - 1
    /\ pass' = [pass EXCEPT ![r] = [order |-> order, forced |-> forced, held |-> held, unseen |-> InFleet,
                                    down |-> {}, seed |-> {}, paused |-> {}, decided |-> FALSE, mark |-> Idle]]
    /\ UNCHANGED <<order, forced, held, phase, complete, orders, pausedBy>>

\* State and Stats of one torrent.  Mutant: whoever paused it, it is a candidate.
LeftAloneNever(r, t) == FALSE
LeftAlone(r, t) == phase[t] = "paused" /\ t \notin pass[r].held
Look(r, t) ==
    /\ pass[r] # Idle /\ t \in pass[r].unseen
    /\ LET candidate == phase[t] \in {"downloading", "seeding", "paused"} /\ ~LeftAlone(r, t)
       IN  pass' = [pass EXCEPT ![r].unseen = @ \ {t},
                                ![r].down = IF candidate /\ ~complete[t] THEN @ \cup {t} ELSE @,
                                ![r].seed = IF candidate /\ complete[t] THEN @ \cup {t} ELSE @,
                                ![r].paused = IF phase[t] = "paused" THEN @ \cup {t} ELSE @]
    /\ UNCHANGED <<order, forced, held, phase, complete, due, orders, pausedBy>>

\* sortByPriority, selectAllowed and capTotal.
Before(v, t, u) == IF (t \in v.forced) = (u \in v.forced)
                   THEN \E i, j \in DOMAIN v.order : v.order[i] = t /\ v.order[j] = u /\ i < j
                   ELSE t \in v.forced
Top(v, S, max) == {t \in S : max = 0 \/ Cardinality({u \in S : Before(v, u, t)}) < max}
Keep(v) == Top(v, Top(v, v.down, MaxDown) \cup Top(v, v.seed, MaxSeed), MaxTotal)
Only(v, S) == [v EXCEPT !.down = @ \cap S, !.seed = @ \cap S, !.paused = @ \cap S]
Decide(r) ==
    /\ pass[r] # Idle /\ pass[r].unseen = {} /\ ~pass[r].decided /\ pass[r].down \cup pass[r].seed # {}
    /\ LET v == pass[r]
           changes == {t \in v.down \cup v.seed : (t \in Keep(v)) = (t \in v.paused)}
       IN  pass' = [pass EXCEPT ![r] = [Only(v, changes) EXCEPT !.decided = TRUE]]
    /\ UNCHANGED <<order, forced, held, phase, complete, due, orders, pausedBy>>

\* The next to be resumed or paused: downloads before seeds.
NextOf(v) == {t \in v.down \cup v.seed : \A u \in (v.down \cup v.seed) \ {t} :
                  IF (t \in v.down) = (u \in v.down) THEN Before(v, t, u) ELSE t \in v.down}

\* Torrent.Resume and Pause: nothing to do is no error, a stopped torrent is one.
Resumed(t) == phase' = [phase EXCEPT ![t] = IF complete[t] THEN "seeding" ELSE "downloading"]
Act(r) ==
    /\ pass[r] # Idle /\ pass[r].decided /\ pass[r].mark = Idle
    /\ \E t \in NextOf(pass[r]) :
         LET resume == t \in pass[r].paused
         IN  /\ pass' = [pass EXCEPT ![r] = [Only(@, Managed \ {t}) EXCEPT
                                                 !.mark = IF phase[t] = "closed" THEN Idle ELSE <<t, ~resume>>]]
             /\ \/ /\ resume /\ phase[t] = "paused"
                   /\ Resumed(t) /\ Triggered
                   /\ pausedBy' = [pausedBy EXCEPT ![t] = IF @ = "free" THEN @ ELSE "nobody"]
                \/ /\ ~resume /\ ActivePhase(t)
                   /\ phase' = [phase EXCEPT ![t] = "paused"]
                   /\ pausedBy' = [pausedBy EXCEPT ![t] = "queue"] /\ Triggered
                \/ /\ IF resume THEN phase[t] # "paused" ELSE ~ActivePhase(t)
                   /\ UNCHANGED <<phase, pausedBy, due>>
    /\ UNCHANGED <<order, forced, held, complete, orders>>

\* setQueueHeld.  Mutant: it is not called.
MarkNever(r) ==
    /\ pass[r] # Idle /\ pass[r].mark # Idle
    /\ pass' = [pass EXCEPT ![r].mark = Idle]
    /\ UNCHANGED <<order, forced, held, phase, complete, due, orders, pausedBy>>
Mark(r) ==
    /\ pass[r] # Idle /\ pass[r].mark # Idle
    /\ held' = IF pass[r].mark[2] THEN held \cup ({pass[r].mark[1]} \cap InFleet) ELSE held \ {pass[r].mark[1]}
    /\ pass' = [pass EXCEPT ![r].mark = Idle]
    /\ UNCHANGED <<order, forced, phase, complete, due, orders, pausedBy>>

EndPass(r) ==
    /\ pass[r] # Idle /\ pass[r].unseen = {} /\ pass[r].down \cup pass[r].seed = {} /\ pass[r].mark = Idle
    /\ pass' = [pass EXCEPT ![r] = Idle]
    /\ UNCHANGED <<order, forced, held, phase, complete, due, orders, pausedBy>>

-----------------------------------------------------------------------------
(* The torrents and their users *)

\* AddWithOptions, the verification that follows, and a download that ends.
AddTorrent(t) ==
    /\ phase[t] = "none"
    /\ order' = Append(order, t)
    /\ phase' = [phase EXCEPT ![t] = "checking"]
    /\ Triggered
    /\ UNCHANGED <<forced, held, complete, pass, orders, pausedBy>>
Checked(t) ==
    /\ phase[t] = "checking"
    /\ Resumed(t) /\ Triggered
    /\ UNCHANGED <<order, forced, held, complete, pass, orders, pausedBy>>
Finishes(t) ==
    /\ phase[t] = "downloading"
    /\ phase' = [phase EXCEPT ![t] = "seeding"] /\ complete' = [complete EXCEPT ![t] = TRUE]
    /\ Triggered
    /\ UNCHANGED <<order, forced, held, pass, orders, pausedBy>>

Ordered == orders < MaxOrders /\ orders' = orders + 1

\* Torrent.Pause by a user, or by the torrent at its seed limit; Torrent.Resume.
Looking(t) == \E r \in Pass : pass[r] # Idle
                 /\ (t \in ToSet(pass[r].order) \/ (pass[r].mark # Idle /\ pass[r].mark[1] = t))
UserPause(t) ==
    /\ Ordered /\ phase[t] \in {"downloading", "seeding"}
    /\ phase' = [phase EXCEPT ![t] = "paused"]
    /\ pausedBy' = [pausedBy EXCEPT ![t] = IF t \in held \/ Looking(t) THEN "user" ELSE "free"]
    /\ Triggered
    /\ UNCHANGED <<order, forced, held, complete, pass>>
UserResume(t) ==
    /\ Ordered /\ phase[t] = "paused"
    /\ Resumed(t) /\ pausedBy' = [pausedBy EXCEPT ![t] = "nobody"] /\ Triggered
    /\ UNCHANGED <<order, forced, held, complete, pass>>

SetForceStart(t) ==
    /\ Ordered /\ t \in InFleet
    /\ forced' = IF t \in forced THEN forced \ {t} ELSE forced \cup {t}
    /\ Triggered
    /\ UNCHANGED <<order, held, phase, complete, pass, pausedBy>>
\* The others move up.
Without(t) == RemoveAt(order, CHOOSE i \in DOMAIN order : order[i] = t)
SetQueuePosition(t, pos) ==
    /\ Ordered /\ t \in InFleet /\ pos \in 1..Len(order)
    /\ order' = InsertAt(Without(t), pos, t)
    /\ Triggered
    /\ UNCHANGED <<forced, held, phase, complete, pass, pausedBy>>

\* Remove: out of the fleet, then stopped, then a pass.
RemoveTorrent(t) ==
    /\ Ordered /\ t \in InFleet
    /\ order' = Without(t) /\ held' = held \ {t} /\ forced' = forced \ {t}
    /\ UNCHANGED <<phase, complete, due, pass, pausedBy>>
StopRemoved(t) ==
    /\ t \notin InFleet /\ phase[t] \notin {"none", "closed"}
    /\ phase' = [phase EXCEPT ![t] = "closed"]
    /\ Triggered
    /\ UNCHANGED <<order, forced, held, complete, pass, orders, pausedBy>>

-----------------------------------------------------------------------------

QueueInit ==
    /\ order = <<>> /\ forced = {} /\ held = {}
    /\ phase = [t \in Managed |-> "none"] /\ complete \in [Managed -> BOOLEAN]
    /\ due = 0 /\ pass = [r \in Pass |-> Idle] /\ orders = 0
    /\ pausedBy = [t \in Managed |-> "nobody"]

PassNext(r) == BeginPass(r) \/ Decide(r) \/ Act(r) \/ Mark(r) \/ EndPass(r) \/ \E t \in Managed : Look(r, t)
TorrentNext(t) ==
    \/ AddTorrent(t) \/ Checked(t) \/ Finishes(t) \/ UserPause(t) \/ UserResume(t) \/ SetForceStart(t)
    \/ RemoveTorrent(t) \/ StopRemoved(t) \/ \E pos \in 1..Cardinality(Managed) : SetQueuePosition(t, pos)
QueueNext == (\E r \in Pass : PassNext(r)) \/ (\E t \in Managed : TorrentNext(t))

QueueSpec == QueueInit /\ [][QueueNext]_queueVars /\ \A r \in Pass : WF_queueVars(PassNext(r))

-----------------------------------------------------------------------------
(* Properties *)

QueueTypeOK ==
    /\ InFleet \subseteq Managed /\ Len(order) = Cardinality(InFleet)
    /\ forced \subseteq InFleet /\ held \subseteq InFleet
    /\ phase \in [Managed -> {"none", "checking", "downloading", "seeding", "paused", "closed"}]
    /\ complete \in [Managed -> BOOLEAN] /\ due \in 0..2 /\ orders \in 0..MaxOrders
    /\ \A r \in Pass : pass[r] # Idle => pass[r].unseen \subseteq Managed

(***************************************************************************)
(* "a torrent Paused for any other reason (a direct Torrent.Pause via Get, *)
(* or 3.4's seed-limit auto-pause) is left alone", but for the known gap   *)
(* of a torrent the queue is holding back already.                         *)
(***************************************************************************)
PausedIsLeftAlone == [][\A t \in Managed : phase[t] = "paused" /\ pausedBy[t] \in {"user", "free"}
                            /\ orders' = orders => phase'[t] \in {"paused", "closed"}]_queueVars

\* It is, if the queue did not hold the torrent and no pass was under way.
FreelyPausedIsLeftAlone == \A t \in Managed : pausedBy[t] = "free" => phase[t] \in {"paused", "closed"}

(***************************************************************************)
(* When nothing changes any more, the torrents that run are those the      *)
(* limits allow by priority: no limit is exceeded, no slot stays idle, and *)
(* passes that overlap settle.                                             *)
(***************************************************************************)
Better(u, t) == LET Pos(x) == CHOOSE i \in DOMAIN order : order[i] = x
                IN  IF (u \in forced) = (t \in forced) THEN Pos(u) < Pos(t) ELSE u \in forced
QueueSettles ==
    LET C == {t \in InFleet : phase[t] \in {"downloading", "seeding"} \/ (phase[t] = "paused" /\ pausedBy[t] = "queue")}
        Limit(t) == IF complete[t] THEN MaxSeed ELSE MaxDown
        Fits(t, S, max) == max = 0 \/ Cardinality({u \in S : Better(u, t)}) < max
        Kind(t) == Fits(t, {u \in C : complete[u] = complete[t]}, Limit(t))
        Allowed(t) == Kind(t) /\ Fits(t, {u \in C : Kind(u)}, MaxTotal)
    IN  \A t \in C : Allowed(t) = (phase[t] # "paused")
QueueConverges == <>[]QueueSettles

\* Two passes that overlap may end with the flag of the one that acted first: such
\* a torrent is held by nobody and paused.  Passes that do not overlap converge.
OneAtOnce == \A r, s \in Pass : pass[r] # Idle /\ pass[s] # Idle => r = s
QueueConvergesInTurn == []OneAtOnce => QueueConverges

\* Neither the queue's passes nor the calls around them lose who paused a torrent.
QueueInv == QueueTypeOK /\ FreelyPausedIsLeftAlone
=============================================================================
