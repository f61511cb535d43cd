\* One connection of the wire client, two pieces, the metadata known from the
\* start or learnt at any moment; three connections, two of them of one address,
\* that have every piece or none and go, around one pause; four v2 files and two peers that exchange
\* hashes; a relay between two torrents; four files, one of them empty and one
\* not wanted, with room for one open file and two calls at a time;
\* two pieces over four files, two changes of what is wanted, or one of them and a reader.
SPECIFICATION PeersSpec
CONSTANTS
    None = None
    c1 = c1 c2 = c2 c3 = c3 a1 = a1 a2 = a2 p1 = p1 p2 = p2
    h1 = h1 h2 = h2 h3 = h3 h4 = h4 h5 = h5 h6 = h6 h0 = h0
    n1 = n1 n2 = n2 r = r
    Conn = {c1, c2, c3} ConnAddress <- MCConnAddress Fast = {c1} Piece = {p1, p2}
    OutboundSize = 2 EventSize = 2 MaxMessages = 2 MaxControls = 1
    Layer <- MCLayer BlocksPerPiece = 2 Zero = Zero V2Peer = {k1, k2} Kin = {k1} MaxHashMsgs = 1
    Punch = {n1, n2, r} PunchLinks <- MCLinks PunchAble = {n1, n2, r} KnowsSelf = {r} MaxPunches = 2 MaxLosses = 1
    FileLength <- MCLengths MaxOpenFiles = 1 IoCall = {d1, d2} Unwanted = {4} HandleId = {1, 2, 3, 4, 5} MaxIo = 2
    FileOffset <- MCOffsets PieceLength = 3 PaddingFile = {3} Given <- MCGiven Lookahead = 1 Reader = {q1} MaxChanges = 2
INVARIANTS SessionInv LayersHold HolepunchInv FilesInv SelectionInv
PROPERTY LayersOnlyGrow
SYMMETRY MCPieceSymmetry
CHECK_DEADLOCK FALSE
