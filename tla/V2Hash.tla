------------------------------- MODULE V2Hash -------------------------------
(***************************************************************************)
(* The piece layers of a BitTorrent v2 torrent (torrent/v2hash.go, peer/   *)
(* v2hash.go, merkle, storage/verify.go verifyPieceV2): a file's info      *)
(* dictionary holds the root of a hash tree, the hashes of its pieces come *)
(* from a .torrent file or, for a magnet link, from peers, and a piece is  *)
(* checked against them.  A hash is a model value for a block and a pair   *)
(* for two hashes combined.                                                *)
(***************************************************************************)
EXTENDS Naturals, Sequences, SequencesExt, FiniteSets

CONSTANTS Layer,          \* for each file of the torrent, the roots of its pieces
          BlocksPerPiece, \* PieceLength / BlockSize
          Zero,           \* the all-zero hash
          V2Peer,         \* peers that offer the exchange
          Kin,            \* those of them that run this code
          MaxHashMsgs     \* bound: messages of one peer on the way

ASSUME V2HashAssumption ==
    /\ Layer \in Seq(Seq(UNION {ToSet(Layer[f]) : f \in DOMAIN Layer}))
    /\ BlocksPerPiece \in Nat \ {0}
    /\ Kin \subseteq V2Peer /\ MaxHashMsgs \in Nat

VARIABLES layers,    \* PieceLayers of the published MetaInfo, by file
          infoKnown, \* t.mi is not nil
          asking,    \* pendingPieceLayerRequests
          linked,    \* V2Peers connected
          wants,     \* hash requests on the way to each peer
          answers,   \* hash messages on the way back or queued for the actor
          holds      \* the layers each peer has

v2Vars == <<layers, infoKnown, asking, linked, wants, answers, holds>>

V2Files == DOMAIN Layer
Count(f) == Len(Layer[f])
Layered == {f \in V2Files : Count(f) > 1}

-----------------------------------------------------------------------------
(* The tree *)

NextPow2(n) == CHOOSE p \in 1..2 * n + 1 :
                  /\ \E k \in 0..n : p = 2^k
                  /\ p >= n /\ (p > 1 => p < 2 * n)

\* Root: combine in pairs until one is left.
MerkleRoot(leaves) ==
    LET level[k \in 0..Len(leaves)] ==
            IF k = 0 THEN leaves
            ELSE LET below == level[k - 1] IN
                 IF Len(below) = 1 THEN below
                 ELSE [i \in 1..Len(below) \div 2 |-> <<below[2 * i - 1], below[2 * i]>>]
    IN level[Len(leaves)][1]

Padded(s, with) == [i \in 1..NextPow2(Len(s)) |-> IF i <= Len(s) THEN s[i] ELSE with]
ZeroPiece == MerkleRoot([i \in 1..BlocksPerPiece |-> Zero])
FileRoot(s) == MerkleRoot(Padded(s, ZeroPiece))
PiecesRoot(f) == FileRoot(Layer[f])

\* The tree of a file, from its pieces down to its blocks: level k has 2^k
\* hashes for each piece.
Depths == {k \in 0..BlocksPerPiece : 2^k <= BlocksPerPiece}
Below(s) == [i \in 1..2 * Len(s) |-> s[(i + 1) \div 2][2 - (i % 2)]]
Level(f, k) ==
    LET level[d \in 0..k] == IF d = 0 THEN Padded(Layer[f], ZeroPiece) ELSE Below(level[d - 1])
    IN level[k]

-----------------------------------------------------------------------------
(* Pieces of the whole torrent, each file on a boundary of its own *)

StartPiece[f \in 1..Len(Layer) + 1] == IF f = 1 THEN 0 ELSE StartPiece[f - 1] + Count(f - 1)

\* PieceFile: the file of a piece and its place there.
PieceFile(i) == LET f == CHOOSE f \in V2Files : StartPiece[f] <= i /\ i < StartPiece[f] + Count(f)
                IN <<f, i - StartPiece[f] + 1>>

\* verifyPieceV2 of a piece whose bytes are the file's: no layer, no verdict.
TrueRoot(i) == FlattenSeq(Layer)[i + 1]
MatchesV2(i) ==
    LET at == PieceFile(i) IN
    IF Count(at[1]) = 1 THEN TrueRoot(i) = PiecesRoot(at[1])
    ELSE at[1] \in DOMAIN layers /\ TrueRoot(i) = layers[at[1]][at[2]]

-----------------------------------------------------------------------------
(* Asking for a layer and answering *)

\* missingPieceLayers, given the published layers.
Missing == Layered \ DOMAIN layers
RequestMissing(q) == q \o SetToSeq(Missing)

\* doSetMetadata: the metadata of a magnet link, from every peer connected.
LearnInfo ==
    /\ ~infoKnown /\ infoKnown' = TRUE
    /\ asking' = IF linked = {} THEN asking ELSE asking \cup Missing
    /\ wants' = [c \in V2Peer |-> IF c \in linked THEN RequestMissing(wants[c]) ELSE wants[c]]
    /\ UNCHANGED <<layers, linked, answers, holds>>

Room(c, n) == Len(wants[c]) + Len(answers[c]) + n <= MaxHashMsgs

\* registerPeer of a peer that supports the exchange.
RegisterV2Peer(c) ==
    /\ c \notin linked /\ Room(c, Cardinality(Missing)) /\ linked' = linked \cup {c}
    /\ IF infoKnown THEN asking' = asking \cup Missing /\ wants' = [wants EXCEPT ![c] = RequestMissing(@)]
       ELSE UNCHANGED <<asking, wants>>
    /\ UNCHANGED <<layers, infoKnown, answers, holds>>

\* removePeer: what the pump has already taken from the connection is still
\* in the queue of the actor.
RemoveV2Peer(c) ==
    /\ c \in linked /\ linked' = linked \ {c}
    /\ wants' = [wants EXCEPT ![c] = <<>>]
    /\ \E n \in 0..Len(answers[c]) : answers' = [answers EXCEPT ![c] = SubSeq(@, 1, n)]
    /\ UNCHANGED <<layers, infoKnown, asking, holds>>

\* doRequestPieceLayer: a caller asks again, known or not.
RequestPieceLayer(c, f) ==
    /\ infoKnown /\ c \in linked /\ f \in Layered /\ Room(c, 1)
    /\ asking' = asking \cup {f}
    /\ wants' = [wants EXCEPT ![c] = Append(@, f)]
    /\ UNCHANGED <<layers, infoKnown, linked, answers, holds>>

\* serveHashesSafe of a peer with this code, which has the layers of holds, pads
\* with the zero hash; another pads as the tree does or not at all, or sends a
\* deeper level of the tree, or hashes that are not the file's.  No hashes stand
\* for a reject.
Serves(c, f) ==
    IF f \notin holds[c] THEN {<<>>}
    ELSE IF c \in Kin THEN {Padded(Layer[f], Zero)}
    ELSE {<<>>, Layer[f], Reverse(Layer[f])} \cup {Level(f, k) : k \in Depths}
ServeHashes(c) ==
    /\ wants[c] # <<>>
    /\ wants' = [wants EXCEPT ![c] = Tail(@)]
    /\ \E hs \in Serves(c, Head(wants[c])) :
          answers' = [answers EXCEPT ![c] = Append(@, [file |-> Head(wants[c]), hashes |-> hs])]
    /\ UNCHANGED <<layers, infoKnown, asking, linked, holds>>

\* What a reply must be to be published: the level that was asked for, and how
\* many hashes were, are not compared.  Mutant: any that is long enough.
LongEnough(m) == Len(m.hashes) >= Count(m.file)
Verifies(m) == Len(m.hashes) >= Count(m.file) /\ FileRoot(m.hashes) = PiecesRoot(m.file)

\* A new MetaInfo with one layer more.  Mutant: with that layer alone.
PublishedAlone(m) == [f \in {m.file} |-> SubSeq(m.hashes, 1, Count(f))]
Published(m) == [f \in DOMAIN layers \cup {m.file} |-> IF f = m.file THEN SubSeq(m.hashes, 1, Count(f)) ELSE layers[f]]

OnHashMessage(c) ==
    /\ answers[c] # <<>>
    /\ LET m == Head(answers[c]) IN
       /\ answers' = [answers EXCEPT ![c] = Tail(@)]
       /\ asking' = asking \ {m.file}
       /\ layers' = IF m.file \in asking /\ Verifies(m) THEN Published(m) ELSE layers
    /\ UNCHANGED <<infoKnown, linked, wants, holds>>

\* expirePieceLayerRequests: 30 seconds, however much has happened meanwhile.
ExpireRequest(f) ==
    /\ f \in asking /\ asking' = asking \ {f}
    /\ UNCHANGED <<layers, infoKnown, linked, wants, answers, holds>>

\* A peer completes a layer of its own.
PeerLearns(c, f) ==
    /\ f \in Layered \ holds[c] /\ holds' = [holds EXCEPT ![c] = @ \cup {f}]
    /\ UNCHANGED <<layers, infoKnown, asking, linked, wants, answers>>

-----------------------------------------------------------------------------
\* A magnet link comes without metadata; a .torrent file with the layers it
\* has, each of which setV2 has checked.
V2Init ==
    /\ infoKnown \in BOOLEAN
    /\ \E some \in IF infoKnown THEN SUBSET Layered ELSE {{}} : layers = [f \in some |-> Layer[f]]
    /\ asking = {} /\ linked = {}
    /\ wants = [c \in V2Peer |-> <<>>] /\ answers = [c \in V2Peer |-> <<>>]
    /\ holds \in [V2Peer -> {{}, Layered}]

V2PeerStep(c) ==
    \/ RegisterV2Peer(c) \/ RemoveV2Peer(c) \/ ServeHashes(c) \/ OnHashMessage(c)
    \/ \E f \in Layered : RequestPieceLayer(c, f) \/ PeerLearns(c, f)

V2Next ==
    \/ LearnInfo
    \/ \E c \in V2Peer : V2PeerStep(c)
    \/ \E f \in Layered : ExpireRequest(f)

V2Spec == V2Init /\ [][V2Next]_v2Vars

-----------------------------------------------------------------------------
(***************************************************************************)
(* A published layer comes from the file's own tree, whoever sent it and   *)
(* however late: it is the piece layer or, a defect of onHashMessage, the  *)
(* first hashes of a level below it, which combine to the same root.       *)
(***************************************************************************)
LayersAreOfTheTree ==
    \A f \in DOMAIN layers : \E k \in Depths : layers[f] = SubSeq(Level(f, k), 1, Count(f))

(***************************************************************************)
(* The bytes of the file are accepted for all the pieces of a file or for  *)
(* none: where the file is one piece or its piece layer is published, and  *)
(* not where it waits for a layer or has been given a deeper level.        *)
(***************************************************************************)
VerdictsAreRight ==
    \A f \in V2Files : \A i \in StartPiece[f]..StartPiece[f + 1] - 1 :
        MatchesV2(i) <=> f \notin Layered \/ (f \in DOMAIN layers /\ layers[f] = Layer[f])

\* A published layer is never lost again, by a later one or a reject.
LayersOnlyGrow == [][DOMAIN layers \subseteq DOMAIN layers']_v2Vars

\* "Slots beyond the real count stay zero - the same raw-zero-hash padding
\* BEP 52's own tree construction uses" (v2hash.go:101-103): a layer this code
\* serves is accepted by this code when it arrives in time.
Kept(c) ==
    LET m == Head(answers[c]) IN
    c \in Kin /\ answers[c] # <<>> /\ OnHashMessage(c) /\ m.file \in asking /\ m.hashes # <<>>
        => m.file \in DOMAIN layers'
ServedLayerCounts == [][\A c \in V2Peer : Kept(c)]_v2Vars

V2Inv == LayersAreOfTheTree /\ VerdictsAreRight
=============================================================================
