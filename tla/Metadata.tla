------------------------------ MODULE Metadata -------------------------------
(***************************************************************************)
(* How a torrent that began as a magnet link gets its info dictionary      *)
(* (torrent/metadata.go, doSetMetadata of run.go, ut_metadata of           *)
(* peer/extension.go): all pieces are asked from one connected peer; when  *)
(* it refuses, goes, or what it sent does not hash to the infohash, another*)
(* one is tried.                                                           *)
(*                                                                         *)
(* A peer may claim a wrong size, send wrong data, refuse, repeat itself,  *)
(* answer what was not asked, go, or never answer: the code has no timeout *)
(* for a silent one.                                                       *)
(***************************************************************************)
EXTENDS Naturals, Sequences, FiniteSets

CONSTANTS MetaPeer,       \* peers, each connecting once
          Genuine,        \* the peers that send the real thing
          InfoPieces,     \* pieces of the info dictionary
          MetaQueueSize,  \* outboundQueueSize: requests sent in one go
          MaxTricks,      \* bound: pauses and messages nobody asked for
          NoFetch

Index == 0..InfoPieces
Quality == {"good", "bad"}

\* metadataFetch.
FetchState == [peer : MetaPeer, pieces : 1..InfoPieces, arrived : UNION {[D -> Quality] : D \in SUBSET Index}]

ASSUME MetadataAssumption ==
    /\ Genuine \subseteq MetaPeer /\ InfoPieces \in Nat \ {0}
    /\ MetaQueueSize \in Nat \ {0} /\ MaxTricks \in Nat
    /\ NoFetch \notin FetchState

VARIABLES
    status,    \* t.State(): "fetching", "paused", "open", "error"
    info,      \* t.mi is set
    fetch,     \* t.metadataFetch: the peer, how many pieces, what arrived
    tie,       \* each peer: "new", "registered", "closed", "forgotten", "gone"
    claims,    \* the number of pieces its metadata_size comes to, 0 for none
    shook,     \* its extended handshake has been read
    notices,   \* its Events
    parts,     \* its MetadataPieces
    asked,     \* requests it has to answer
    tricks,    \* counter for the bound
    shut,      \* the torrent was paused while it was fetching
    wasted     \* metadata was complete and refused

metadataVars == <<status, info, fetch, tie, claims, shook, notices, parts, asked, tricks, shut, wasted>>

InPeers(c) == tie[c] \in {"registered", "closed"}   \* t.peers
Relaying(c) == tie[c] \in {"registered", "closed", "forgotten"}
NoticeRoom == 2

-----------------------------------------------------------------------------

\* maybeStartMetadataFetch: every piece from the first peer found that has told
\* its size; t.peers is without order.  Requests to a closed client are lost, and
\* so are those the outbound queue has no room for.
FetchFrom(c) ==
    /\ fetch' = [peer |-> c, pieces |-> claims[c], arrived |-> [i \in {} |-> "good"]]
    /\ asked' = [asked EXCEPT ![c] = IF tie[c] = "registered"
                                     THEN @ \cup {i \in 0..(claims[c] - 1) : i < MetaQueueSize} ELSE @]
Offering(c) == shook[c] /\ claims[c] > 0
StartAmong(C) ==
    IF info \/ \A c \in C : ~Offering(c)
    THEN fetch' = NoFetch /\ UNCHANGED asked
    ELSE \E c \in C : Offering(c) /\ FetchFrom(c)

\* abandonMetadataFetch, C being t.peers.  Mutant: another peer is not
\* looked for.
AbandonOnly(c, C) ==
    IF fetch # NoFetch /\ fetch.peer = c THEN fetch' = NoFetch /\ UNCHANGED asked
    ELSE UNCHANGED <<fetch, asked>>
Abandon(c, C) ==
    IF fetch # NoFetch /\ fetch.peer = c THEN StartAmong(C) ELSE UNCHANGED <<fetch, asked>>

MetaRegistered == {c \in MetaPeer : InPeers(c)}

-----------------------------------------------------------------------------
(* The peers *)

MetaConnects(c) ==
    /\ tie[c] = "new"
    /\ tie' = [tie EXCEPT ![c] = "registered"]
    /\ UNCHANGED <<status, info, fetch, claims, shook, notices, parts, asked, tricks, shut, wasted>>

\* handleExtendedHandshake.
Shakes(c) ==
    /\ tie[c] = "registered" /\ ~shook[c]
    /\ shook' = [shook EXCEPT ![c] = TRUE]
    /\ notices' = [notices EXCEPT ![c] = Append(@, "handshake")]
    /\ UNCHANGED <<status, info, fetch, tie, claims, parts, asked, tricks, shut, wasted>>

\* handleUtMetadataMessage: data waits for room, a reject is dropped without.
DataArrives(c, i, q) == parts' = [parts EXCEPT ![c] = Append(@, <<i, q>>)] /\ UNCHANGED notices
RejectArrives(c) ==
    /\ notices' = [notices EXCEPT ![c] = IF Len(@) < NoticeRoom THEN Append(@, "reject") ELSE @]
    /\ UNCHANGED parts
CanHear(c) == tie[c] = "registered" /\ shook[c] /\ Len(parts[c]) < NoticeRoom
MetaAnswers(c) ==
    /\ CanHear(c)
    /\ \E i \in asked[c] :
          /\ asked' = [asked EXCEPT ![c] = @ \ {i}]
          /\ \/ c \in Genuine /\ DataArrives(c, i, "good")
             \/ c \notin Genuine /\ \E q \in Quality : DataArrives(c, i, q)
             \/ c \notin Genuine /\ RejectArrives(c)
    /\ UNCHANGED <<status, info, fetch, tie, claims, shook, tricks, shut, wasted>>

\* A message nobody asked for, of any index.
Unasked(c) ==
    /\ CanHear(c) /\ c \notin Genuine /\ tricks < MaxTricks /\ tricks' = tricks + 1
    /\ RejectArrives(c) \/ \E i \in Index : DataArrives(c, i, "bad")
    /\ UNCHANGED <<status, info, fetch, tie, claims, shook, asked, shut, wasted>>

\* The remote side closes, or the read loop fails.
MetaCloses(c) ==
    /\ tie[c] = "registered" /\ c \notin Genuine
    /\ tie' = [tie EXCEPT ![c] = "closed"]
    /\ asked' = [asked EXCEPT ![c] = {}]
    /\ UNCHANGED <<status, info, fetch, claims, shook, notices, parts, tricks, shut, wasted>>

-----------------------------------------------------------------------------
(* The actor *)

\* onPeerControl.
OnHandshake(c) ==
    /\ Relaying(c) /\ notices[c] # <<>> /\ Head(notices[c]) = "handshake"
    /\ notices' = [notices EXCEPT ![c] = Tail(@)]
    /\ IF fetch = NoFetch THEN StartAmong(MetaRegistered) ELSE UNCHANGED <<fetch, asked>>
    /\ UNCHANGED <<status, info, tie, claims, shook, parts, tricks, shut, wasted>>
OnMetadataReject(c) ==
    /\ Relaying(c) /\ notices[c] # <<>> /\ Head(notices[c]) = "reject"
    /\ notices' = [notices EXCEPT ![c] = Tail(@)]
    /\ Abandon(c, MetaRegistered)
    /\ UNCHANGED <<status, info, tie, claims, shook, parts, tricks, shut, wasted>>

\* removePeer, when everything else of the connection has been handled.
MetaPeerGone(c) ==
    /\ tie[c] \in {"closed", "forgotten"} /\ notices[c] = <<>> /\ parts[c] = <<>>
    /\ tie' = [tie EXCEPT ![c] = "gone"]
    /\ IF InPeers(c) THEN Abandon(c, MetaRegistered \ {c}) ELSE UNCHANGED <<fetch, asked>>
    /\ UNCHANGED <<status, info, claims, shook, notices, parts, tricks, shut, wasted>>

\* doSetMetadata on the assembled pieces: refused unless the torrent is still
\* fetching; openMetadata may fail.
DoSetMetadata ==
    IF status = "fetching"
    THEN info' = TRUE /\ status' \in {"open", "error"} /\ UNCHANGED wasted
    ELSE wasted' = TRUE /\ UNCHANGED <<info, status>>

\* onMetadataPiece.  A peer whose pieces do not verify is closed, and stays among
\* t.peers until its end is handled.  Mutant: no other peer is tried.
Expected(i) == i < fetch.pieces /\ i \notin DOMAIN fetch.arrived
DiscardOnly(c) == fetch' = NoFetch /\ UNCHANGED <<asked, info, status, wasted>>
                  /\ tie' = [tie EXCEPT ![c] = IF @ = "registered" THEN "closed" ELSE @]
Discard(c) == StartAmong(MetaRegistered) /\ UNCHANGED <<info, status, wasted>>
              /\ tie' = [tie EXCEPT ![c] = IF @ = "registered" THEN "closed" ELSE @]
Verifies(arrived) ==
    DOMAIN arrived = 0..(InfoPieces - 1) /\ \A i \in DOMAIN arrived : arrived[i] = "good"
OnMetadataPiece(c) ==
    /\ Relaying(c) /\ parts[c] # <<>>
    /\ parts' = [parts EXCEPT ![c] = Tail(@)]
    /\ LET i == Head(parts[c])[1]
           q == Head(parts[c])[2]
       IN  IF fetch # NoFetch /\ fetch.peer = c /\ Expected(i)
           THEN LET arrived == [j \in DOMAIN fetch.arrived \cup {i} |-> IF j = i THEN q ELSE fetch.arrived[j]]
                IN  IF Cardinality(DOMAIN arrived) < fetch.pieces
                    THEN fetch' = [fetch EXCEPT !.arrived = arrived]
                         /\ UNCHANGED <<asked, info, status, wasted, tie>>
                    ELSE IF Verifies(arrived)
                    THEN fetch' = NoFetch /\ DoSetMetadata /\ UNCHANGED <<asked, tie>>
                    ELSE Discard(c)
           ELSE UNCHANGED <<fetch, asked, info, status, wasted, tie>>
    /\ UNCHANGED <<claims, shook, notices, tricks, shut>>

\* doPause (shutdownPeers) and doResume: the fetch itself is left as it is.
MetaPause ==
    /\ status = "fetching" /\ tricks < MaxTricks /\ tricks' = tricks + 1
    /\ status' = "paused"
    /\ tie' = [c \in MetaPeer |-> IF InPeers(c) THEN "forgotten" ELSE tie[c]]
    /\ asked' = [c \in MetaPeer |-> {}]
    /\ shut' = TRUE
    /\ UNCHANGED <<info, fetch, claims, shook, notices, parts, wasted>>
MetaResume ==
    /\ status = "paused" /\ status' = "fetching"
    /\ UNCHANGED <<info, fetch, tie, claims, shook, notices, parts, asked, tricks, shut, wasted>>

-----------------------------------------------------------------------------

MetadataInit ==
    /\ status = "fetching" /\ info = FALSE /\ fetch = NoFetch
    /\ tie = [c \in MetaPeer |-> "new"]
    /\ claims \in [MetaPeer -> 0..InfoPieces] /\ \A c \in Genuine : claims[c] = InfoPieces
    /\ shook = [c \in MetaPeer |-> FALSE] /\ notices = [c \in MetaPeer |-> <<>>]
    /\ parts = [c \in MetaPeer |-> <<>>] /\ asked = [c \in MetaPeer |-> {}]
    /\ tricks = 0 /\ shut = FALSE /\ wasted = FALSE

MetaPeerNext(c) ==
    \/ MetaConnects(c) \/ Shakes(c) \/ MetaAnswers(c) \/ Unasked(c) \/ MetaCloses(c)
    \/ OnHandshake(c) \/ OnMetadataReject(c) \/ OnMetadataPiece(c) \/ MetaPeerGone(c)
MetadataNext == (\E c \in MetaPeer : MetaPeerNext(c)) \/ MetaPause \/ MetaResume

\* The genuine peers connect and answer, nothing is assumed of the others; the
\* actor handles what there is, and the order of a Go map favours no peer for ever.
Chooses(c) == MetadataNext /\ fetch' # fetch /\ fetch' # NoFetch /\ fetch'.peer = c
MetadataFairness ==
    /\ \A c \in Genuine :
          /\ WF_metadataVars(MetaConnects(c)) /\ WF_metadataVars(Shakes(c)) /\ WF_metadataVars(MetaAnswers(c))
    /\ \A c \in MetaPeer :
          /\ WF_metadataVars(OnHandshake(c)) /\ WF_metadataVars(OnMetadataReject(c))
          /\ WF_metadataVars(OnMetadataPiece(c)) /\ WF_metadataVars(MetaPeerGone(c))
          /\ SF_metadataVars(Chooses(c))

MetadataSpec == MetadataInit /\ [][MetadataNext]_metadataVars /\ MetadataFairness

-----------------------------------------------------------------------------
(* Properties *)

MetadataTypeOK ==
    /\ status \in {"fetching", "paused", "open", "error"} /\ info \in BOOLEAN
    /\ fetch # NoFetch =>
           /\ fetch \in FetchState
           /\ DOMAIN fetch.arrived \subseteq 0..(fetch.pieces - 1)
           /\ Cardinality(DOMAIN fetch.arrived) < fetch.pieces
    /\ tie \in [MetaPeer -> {"new", "registered", "closed", "forgotten", "gone"}]
    /\ \A c \in MetaPeer : Len(notices[c]) <= NoticeRoom /\ Len(parts[c]) <= NoticeRoom
    /\ asked \in [MetaPeer -> SUBSET Index] /\ tricks \in 0..MaxTricks

(***************************************************************************)
(* The peer that the metadata is fetched from is a connected one: "one bad *)
(* or vanished peer costs at most one attempt rather than stalling".       *)
(***************************************************************************)
FetchIsAlive == fetch # NoFetch => InPeers(fetch.peer)

\* It is, unless the torrent was paused meanwhile.
FetchIsAliveUnlessPaused == ~shut => FetchIsAlive

(***************************************************************************)
(* While the torrent fetches, a connected peer that has told its size is   *)
(* being fetched from, that one or another, unless metadata arrived in a   *)
(* paused torrent and was refused.                                         *)
(***************************************************************************)
Pending(c) == \E i \in DOMAIN notices[c] : notices[c][i] = "handshake"
NoIdleFetch ==
    status = "fetching" /\ fetch = NoFetch /\ ~wasted =>
        \A c \in MetaRegistered : Offering(c) => Pending(c)

(***************************************************************************)
(* With a genuine peer that stays, a torrent that is not paused gets its   *)
(* metadata, whatever the others claim, send and refuse, unless one of them*)
(* is being fetched from and keeps its answer to itself for ever: the code *)
(* waits for it without a timeout, although "one bad or vanished peer costs*)
(* at most one attempt".                                                   *)
(***************************************************************************)
SilentLiar == fetch # NoFetch /\ fetch.peer \notin Genuine /\ asked[fetch.peer] # {}
MetadataArrives == <>(info \/ shut) \/ <>[]SilentLiar

\* The fetch is with a connected peer, as soon as there is one to fetch from.
MetadataInv == MetadataTypeOK /\ FetchIsAliveUnlessPaused /\ NoIdleFetch
=============================================================================
