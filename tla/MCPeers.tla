------------------------------ MODULE MCPeers -------------------------------
(* Small instances of what a torrent shares with its peers and its users:  *)
(* each behaviour is one of Session, V2Hash, Holepunch, Files or           *)
(* Selection, and the others stay where they start.                        *)
EXTENDS Session, V2Hash, Holepunch, Files, Selection, TLC

CONSTANTS c1, c2, c3, a1, a2, p1, p2, h1, h2, h3, h4, h5, h6, h0, n1, n2, r

VARIABLE part

\* Two connections of one address, one of another.
MCConnAddress == [c \in Conn |-> IF c = c3 THEN a2 ELSE a1]
MCPieceSymmetry == Permutations(Piece)
\* Two pieces, none, three and one: a layer that is a power of two and one
\* that is not, an empty file and one that needs no layer.  The second block is
\* the same in all the pieces.
MCLayer == <<<<<<h1, h0>>, <<h2, h0>>>>, <<>>, <<<<h3, h0>>, <<h4, h0>>, <<h5, h0>>>>, <<<<h6, h0>>>>>>
MCLinks == {<<n1, <<r, "listen">>>>, <<r, <<n2, "listen">>>>}
MCLengths == <<1, 0, 1, 1>>
\* Pieces of three: two files in the first, with an empty one between them, and
\* a padding file; selections of none, of some and of all the files.
MCOffsets == <<0, 2, 2, 4, 6>>
MCGiven == {<<>>, <<0>>, <<0, 0, 0, 2>>}

peersVars == <<part, sessionVars, v2Vars, punchVars, filesVars, selectionVars>>

PeersInit ==
    /\ part \in {"session", "crowd", "v2", "holepunch", "files", "selection"}
    /\ SessionInit /\ V2Init /\ PunchInit /\ FilesInit /\ SelectionInit
    \* what is not looked at starts in one way only
    /\ part # "session" => metadata
    /\ part # "v2" => infoKnown /\ layers = <<>> /\ holds = [c \in V2Peer |-> {}]
    /\ part # "files" => useMmap
    /\ part # "selection" => ~firstLast /\ selState = "Added"

\* One connection, with two messages of the remote peer, or one of them and one
\* control.
OneConnection == said'[c1] + controls' <= 2 /\ \A c \in Conn \ {c1} : stage'[c] = "none"

\* Three connections that come, may say that they have every piece, and go, around
\* one pause; no count of a piece depends on another piece.
Crowd ==
    /\ UNCHANGED <<have, told, amChoking, work>>
    /\ \A c \in Conn :
          /\ Len(outbound'[c]) >= Len(outbound[c]) /\ said'[c] <= 1
          /\ taken'[c] # None => taken'[c].message = [kind |-> "bitfield", of |-> Piece]

\* Two changes of what is wanted, or one of them and a reader.
TwoOrRead == changes' = 2 => \A q \in Reader : reader'[q] = NoReader

PeersNext ==
    /\ UNCHANGED part
    /\ \/ part = "session" /\ SessionNext /\ OneConnection /\ UNCHANGED <<v2Vars, punchVars, filesVars, selectionVars>>
       \/ part = "crowd" /\ SessionNext /\ Crowd /\ UNCHANGED <<v2Vars, punchVars, filesVars, selectionVars>>
       \/ part = "v2" /\ V2Next /\ UNCHANGED <<sessionVars, punchVars, filesVars, selectionVars>>
       \/ part = "holepunch" /\ PunchNext /\ UNCHANGED <<sessionVars, v2Vars, filesVars, selectionVars>>
       \/ part = "files" /\ FilesNext /\ UNCHANGED <<sessionVars, v2Vars, punchVars, selectionVars>>
       \/ part = "selection" /\ SelectionNext /\ TwoOrRead /\ UNCHANGED <<sessionVars, v2Vars, punchVars, filesVars>>

\* The layers, where their part runs.
LayersHold == part = "v2" => V2Inv

PeersSpec == PeersInit /\ [][PeersNext]_peersVars
\* The exchange of hashes alone.
ExchangeSpec == PeersInit /\ part = "v2" /\ [][PeersNext]_peersVars
=============================================================================
