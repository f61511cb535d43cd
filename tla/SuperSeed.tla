------------------------------ MODULE SuperSeed ------------------------------
(***************************************************************************)
(* Super-seeding (torrent/superseed.go, and run.go where it is called): a  *)
(* seed tells each peer of one piece only, and of another when the peer    *)
(* shows that it has got it, until every piece has been released; then     *)
(* everybody is told everything.                                           *)
(*                                                                         *)
(* The assignment of a connection is chosen when it is dialled or          *)
(* accepted; the connection is registered, and hears of later pieces, only *)
(* afterwards.  The peers exchange pieces among themselves.                *)
(***************************************************************************)
EXTENDS Naturals, Sequences, FiniteSets

CONSTANTS SeedAddr,       \* addresses
          Peers,          \* bound: the connections, each an address and a number
          SeedPieces,     \* numPieces
          SeedQueueSize,  \* outboundQueueSize
          SeedPauses,     \* bound: pauses and switches
          Nothing

Pieces == 0..(SeedPieces - 1)
AddrOf(c) == c[1]

\* superSeedState.
SeedState == [released : SUBSET Pieces, next : Pieces, assigned : UNION {[D -> Pieces] : D \in SUBSET SeedAddr}]

ASSUME SuperSeedAssumption ==
    /\ Peers \subseteq SeedAddr \X Nat
    /\ SeedPieces \in Nat \ {0} /\ SeedQueueSize \in Nat \ {0} /\ SeedPauses \in Nat
    /\ Nothing \notin Pieces \cup SeedState

VARIABLES
    seeding,   \* t.State() is StateSeeding; paused otherwise
    superSeed, \* t.superSeed: Nothing, or released, next and assigned
    link,      \* where each connection is; "forgotten": closed by a pause; "stray":
               \* open, but no longer among t.peers
    baked,     \* the piece of its InitialHaves, Nothing for all of them
    seedReports,   \* its Events: the piece of a Have, Nothing for a bitfield
    seedQueue, \* its outbound queue: pieces we announce
    knows,     \* the pieces it was told of
    holds,     \* the pieces the remote side at an address has
    bitfield,  \* what it has announced on this connection
    pauses,    \* counter for the bound
    unsent,    \* announcements dropped by a full queue
    caught,    \* connections that super-seeding ended on before they were registered
    crossed    \* addresses with a report of an earlier connection handled

superSeedVars == <<seeding, superSeed, link, baked, seedReports, seedQueue, knows, holds, bitfield, pauses,
                   unsent, caught, crossed>>

Linked == {c \in Peers : link[c] = "registered"}
NewState == [released |-> {}, next |-> 0, assigned |-> [a \in {} |-> 0]]
SuperSeeding == superSeed # Nothing /\ seeding

\* The round robin.
Following(i) == (i + 1) % SeedPieces

\* SendHave to each c of the function what: Peers -> sets of pieces; each set in
\* ascending order, as far as the queue has room.
Ascending(S) == CHOOSE s \in [1..Cardinality(S) -> S] : \A i, j \in DOMAIN s : i < j => s[i] < s[j]
Serving(c) == link[c] \in {"registered", "stray"}
Room(c) == IF Serving(c) THEN SeedQueueSize - Len(seedQueue[c]) ELSE 0
Fitting(c, S) == {p \in S : Cardinality({q \in S : q < p}) < Room(c)}
SendHaves(what) ==
    /\ seedQueue' = [c \in Peers |-> seedQueue[c] \o Ascending(Fitting(c, what[c]))]
    /\ unsent' = [c \in Peers |-> unsent[c] \cup (what[c] \ Fitting(c, what[c]))]

-----------------------------------------------------------------------------

\* dial or acceptIncoming: superSeedAssign, and the bitfield that a connection
\* without an assignment starts with.
SeedDial(c) ==
    /\ seeding /\ link[c] = "none"
    /\ \A d \in Peers : AddrOf(d) = AddrOf(c) => link[d] \in {"none", "forgotten", "stray", "gone"}
    /\ \A d \in Peers : AddrOf(d) = AddrOf(c) /\ d[2] < c[2] => link[d] # "none"
    /\ link' = [link EXCEPT ![c] = "dialing"]
    /\ IF SuperSeeding
       THEN /\ baked' = [baked EXCEPT ![c] = superSeed.next]
            /\ superSeed' = [superSeed EXCEPT !.next = Following(@),
                                  !.assigned = [a \in DOMAIN @ \cup {AddrOf(c)} |->
                                                    IF a = AddrOf(c) THEN superSeed.next ELSE @[a]]]
       ELSE UNCHANGED <<baked, superSeed>>
    /\ UNCHANGED <<seeding, seedReports, seedQueue, knows, holds, bitfield, pauses, unsent, caught, crossed>>

\* eventDialFailed: the assignment stays until the address is dialled again.
SeedDialFails(c) ==
    /\ link[c] = "dialing"
    /\ link' = [link EXCEPT ![c] = "gone"]
    /\ UNCHANGED <<seeding, superSeed, baked, seedReports, seedQueue, knows, holds, bitfield, pauses, unsent,
                   caught, crossed>>

\* The connection is up: sendInitialState tells the peer of its piece, or of
\* all, and the peer tells us what it has.
InitialHaves(c) == IF baked[c] = Nothing THEN Pieces ELSE {baked[c]}
SeedConnects(c) ==
    /\ link[c] = "dialing"
    /\ link' = [link EXCEPT ![c] = "up"]
    /\ knows' = [knows EXCEPT ![c] = InitialHaves(c)]
    /\ bitfield' = [bitfield EXCEPT ![c] = holds[AddrOf(c)]]
    /\ seedReports' = [seedReports EXCEPT ![c] = IF holds[AddrOf(c)] = {} THEN <<>> ELSE <<Nothing>>]
    /\ UNCHANGED <<seeding, superSeed, baked, seedQueue, holds, pauses, unsent, caught, crossed>>

\* registerPeer.  In a torrent that was paused meanwhile it is registered all the same.
SeedRegister(c) ==
    /\ link[c] = "up"
    /\ link' = [link EXCEPT ![c] = "registered"]
    /\ UNCHANGED <<seeding, superSeed, baked, seedReports, seedQueue, knows, holds, bitfield, pauses, unsent,
                   caught, crossed>>

-----------------------------------------------------------------------------
(* What ends super-seeding *)

\* graduateSuperSeeding: a Have for every piece to every registered peer.
\* Mutant: the state is cleared, and no more.
GraduateQuietly ==
    /\ superSeed' = Nothing
    /\ caught' = caught \cup {c \in Peers : link[c] \in {"dialing", "up"} /\ baked[c] # Nothing}
    /\ UNCHANGED <<seedQueue, unsent>>
Graduate ==
    /\ superSeed' = Nothing
    /\ SendHaves([c \in Peers |-> IF c \in Linked THEN Pieces ELSE {}])
    /\ caught' = caught \cup {c \in Peers : link[c] \in {"dialing", "up"} /\ baked[c] # Nothing}

\* maybeSuperSeedAdvance.
Assigned(c) == IF superSeed # Nothing /\ AddrOf(c) \in DOMAIN superSeed.assigned
               THEN superSeed.assigned[AddrOf(c)] ELSE Nothing
Only(c, p) == [d \in Peers |-> IF d = c THEN {p} ELSE {}]
Advance(c, p) ==
    IF Assigned(c) = p
    THEN LET released == superSeed.released \cup {p}
         IN  IF Cardinality(released) >= SeedPieces
             THEN Graduate
             ELSE /\ superSeed' = [superSeed EXCEPT !.released = released, !.next = Following(@),
                                                    !.assigned[AddrOf(c)] = superSeed.next]
                  /\ SendHaves(Only(c, superSeed.next))
                  /\ UNCHANGED caught
    ELSE UNCHANGED <<superSeed, seedQueue, unsent, caught>>

\* onPeerControl on a bitfield or a Have, also of a connection that is no longer
\* among t.peers.
Shown(c) == bitfield[c]
SeedReport(c) ==
    /\ Serving(c) \/ link[c] = "forgotten"
    /\ seedReports[c] # <<>>
    /\ seedReports' = [seedReports EXCEPT ![c] = Tail(@)]
    /\ LET r == Head(seedReports[c])
       IN  IF r = Nothing
           THEN IF Assigned(c) # Nothing /\ Assigned(c) \in Shown(c)
                THEN Advance(c, Assigned(c))
                ELSE UNCHANGED <<superSeed, seedQueue, unsent, caught>>
           ELSE Advance(c, r)
    /\ crossed' = IF link[c] # "registered" THEN crossed \cup {AddrOf(c)} ELSE crossed
    /\ UNCHANGED <<seeding, link, baked, knows, holds, bitfield, pauses>>

\* doSetSuperSeeding.
SetSuperSeeding(on) ==
    /\ pauses < SeedPauses /\ pauses' = pauses + 1
    /\ IF on
       THEN superSeed' = (IF superSeed = Nothing /\ seeding THEN NewState ELSE superSeed)
            /\ UNCHANGED <<seedQueue, unsent, caught>>
       ELSE IF superSeed # Nothing THEN Graduate
       ELSE UNCHANGED <<superSeed, seedQueue, unsent, caught>>
    /\ UNCHANGED <<seeding, link, baked, seedReports, knows, holds, bitfield, crossed>>

-----------------------------------------------------------------------------
(* The rest of the swarm *)

\* sendLoop.
SeedSends(c) ==
    /\ link[c] = "up" \/ Serving(c)
    /\ seedQueue[c] # <<>>
    /\ knows' = [knows EXCEPT ![c] = @ \cup {Head(seedQueue[c])}]
    /\ seedQueue' = [seedQueue EXCEPT ![c] = Tail(@)]
    /\ UNCHANGED <<seeding, superSeed, link, baked, seedReports, holds, bitfield, pauses, unsent, caught, crossed>>

\* A remote peer gets a piece that it knows we have, or that another one has,
\* and announces it on its connection to us.
Reachable(c) == knows[c] \cup UNION {holds[a] : a \in SeedAddr}
Obtains(c, p) ==
    /\ link[c] = "up" \/ Serving(c)
    /\ p \in Reachable(c) \ holds[AddrOf(c)]
    /\ holds' = [holds EXCEPT ![AddrOf(c)] = @ \cup {p}]
    /\ bitfield' = [bitfield EXCEPT ![c] = @ \cup {p}]
    /\ seedReports' = [seedReports EXCEPT ![c] = Append(@, p)]
    /\ UNCHANGED <<seeding, superSeed, link, baked, seedQueue, knows, pauses, unsent, caught, crossed>>

\* The remote side goes; removePeer once its reports are handled.  It goes by the
\* address: when a later connection of it is registered, that one is taken out of
\* t.peers, open as it is, and loses its assignment.
SeedPeerGone(c) ==
    /\ Serving(c) \/ link[c] = "forgotten"
    /\ seedReports[c] = <<>>
    /\ LET removed == {d \in Linked : AddrOf(d) = AddrOf(c)}
       IN  /\ link' = [d \in Peers |-> IF d = c THEN "gone" ELSE IF d \in removed THEN "stray" ELSE link[d]]
           /\ superSeed' = IF superSeed = Nothing \/ removed = {} THEN superSeed
                           ELSE [superSeed EXCEPT !.assigned = [a \in DOMAIN @ \ {AddrOf(c)} |-> @[a]]]
    /\ seedQueue' = [seedQueue EXCEPT ![c] = <<>>]
    /\ UNCHANGED <<seeding, baked, seedReports, knows, holds, bitfield, pauses, unsent, caught, crossed>>

\* Pause (shutdownPeers) and Resume: the assignments outlive it.
SeedPause ==
    /\ seeding /\ pauses < SeedPauses
    /\ seeding' = FALSE /\ pauses' = pauses + 1
    /\ link' = [c \in Peers |-> IF c \in Linked THEN "forgotten" ELSE link[c]]
    /\ seedQueue' = [c \in Peers |-> IF c \in Linked THEN <<>> ELSE seedQueue[c]]
    /\ UNCHANGED <<superSeed, baked, seedReports, knows, holds, bitfield, unsent, caught, crossed>>
SeedResume ==
    /\ ~seeding /\ seeding' = TRUE
    /\ UNCHANGED <<superSeed, link, baked, seedReports, seedQueue, knows, holds, bitfield, pauses, unsent,
                   caught, crossed>>

-----------------------------------------------------------------------------

SuperSeedInit ==
    /\ seeding = TRUE /\ superSeed = NewState
    /\ link = [c \in Peers |-> "none"] /\ baked = [c \in Peers |-> Nothing]
    /\ seedReports = [c \in Peers |-> <<>>] /\ seedQueue = [c \in Peers |-> <<>>]
    /\ knows = [c \in Peers |-> {}] /\ bitfield = [c \in Peers |-> {}]
    /\ holds \in [SeedAddr -> {{}, {0}}]
    /\ pauses = 0 /\ unsent = [c \in Peers |-> {}] /\ caught = {} /\ crossed = {}

SeedConnNext(c) ==
    \/ SeedDial(c) \/ SeedDialFails(c) \/ SeedConnects(c) \/ SeedRegister(c) \/ SeedReport(c)
    \/ SeedSends(c) \/ SeedPeerGone(c) \/ \E p \in Pieces : Obtains(c, p)
SuperSeedNext ==
    \/ \E c \in Peers : SeedConnNext(c)
    \/ \E on \in BOOLEAN : SetSuperSeeding(on)
    \/ SeedPause \/ SeedResume

SuperSeedSpec == SuperSeedInit /\ [][SuperSeedNext]_superSeedVars

-----------------------------------------------------------------------------
(* Properties *)

SuperSeedTypeOK ==
    /\ seeding \in BOOLEAN /\ pauses \in 0..SeedPauses
    /\ superSeed # Nothing => superSeed \in SeedState
    /\ link \in [Peers -> {"none", "dialing", "up", "registered", "forgotten", "stray", "gone"}]
    /\ baked \in [Peers -> Pieces \cup {Nothing}]
    /\ \A c \in Peers : Len(seedQueue[c]) <= SeedQueueSize
    /\ knows \in [Peers -> SUBSET Pieces] /\ holds \in [SeedAddr -> SUBSET Pieces]

(***************************************************************************)
(* A piece counts as released only if a peer really has it: super-seeding  *)
(* never ends while a piece has not left us.                               *)
(***************************************************************************)
ReleasedIsHeld ==
    superSeed # Nothing => superSeed.released \subseteq UNION {holds[a] : a \in SeedAddr}

(***************************************************************************)
(* A peer that was given one piece is never offered, while super-seeding   *)
(* lasts, two that it lacks, through reconnections and pauses.             *)
(***************************************************************************)
SeedQueued(c) == {seedQueue[c][i] : i \in DOMAIN seedQueue[c]}
OneAtATime ==
    superSeed # Nothing /\ pauses = 0 =>
        \A c \in Linked : baked[c] # Nothing =>
            Cardinality((knows[c] \cup SeedQueued(c)) \ bitfield[c]) <= 1

(***************************************************************************)
(* What the actor holds to be a peer's piece is what the peer was told,    *)
(* unless the message was dropped: otherwise it would wait for ever to     *)
(* hear that the peer has got it.  A report of an earlier connection to    *)
(* the same address moves the assignment of the new one.                   *)
(***************************************************************************)
AssignmentReachesPeer ==
    \A c \in Linked : baked[c] # Nothing /\ Assigned(c) # Nothing /\ AddrOf(c) \notin crossed
        => Assigned(c) \in knows[c] \cup SeedQueued(c) \cup unsent[c]

(***************************************************************************)
(* Once super-seeding is over every connected peer has been told of every  *)
(* piece, "matching what an ordinary seed would have told them": except    *)
(* those whose dial was under way when it ended, and what a full queue     *)
(* dropped.                                                                *)
(***************************************************************************)
EveryoneKnows ==
    superSeed = Nothing =>
        \A c \in Linked \ caught : Pieces \subseteq knows[c] \cup SeedQueued(c) \cup unsent[c]

(***************************************************************************)
(* "every already-connected peer is swept with a Have for every piece ...  *)
(* so any connection from here on gets the normal HaveAll": nobody is left *)
(* with less.                                                              *)
(***************************************************************************)
NobodyIsLeftOut ==
    superSeed = Nothing =>
        \A c \in Linked : Pieces \subseteq knows[c] \cup SeedQueued(c)

\* Super-seeding shows each piece once, and ends with everybody told.
SuperSeedInv ==
    SuperSeedTypeOK /\ ReleasedIsHeld /\ OneAtATime /\ AssignmentReachesPeer /\ EveryoneKnows
=============================================================================
