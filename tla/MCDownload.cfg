\* Two pieces, one of them of two blocks; one peer with two pieces from outside
\* and two control calls, or two peers with one control call.
SPECIFICATION SwarmSpec
CONSTANTS
    p1 = p1
    p2 = p2
    Peer = {p1, p2}
    BadPeers = {}
    PeerPieces <- MCBothSeeds
    NumPieces = 2
    NumBlocks <- MCBlocks
    MaxActivePieces = 1
    EndgameThreshold = 1
    Pipeline = 1
    ExternalData = {TRUE}
    MaxExternal = 2
    MaxFaults = 0
    MaxControls = 2
INVARIANTS
    PickerInv
    AskedOnce
    HaveIsOnDisk
PROPERTIES
    ImplementsPieceStore
