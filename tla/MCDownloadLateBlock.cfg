SPECIFICATION Spec
CONSTANTS
    p1 = p1
    p2 = p2
    Peer = {p1, p2}
    BadPeers = {p2}
    PeerPieces <- MCBothSeeds
    NumPieces = 2
    NumBlocks <- MCBlocks
    MaxActivePieces = 1
    EndgameThreshold = 1
    Pipeline = 1
    ExternalData = {TRUE}
    MaxExternal = 0
    MaxFaults = 0
    MaxControls = 0
INVARIANTS
    HaveIsOnDisk
