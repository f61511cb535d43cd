SPECIFICATION SeedSpec
CONSTANTS
    p1 = p1
    p2 = p2
    Peer = {p1}
    BadPeers = {}
    PeerPieces <- MCOneSeed
    NumPieces = 2
    NumBlocks <- MCBlocks
    MaxActivePieces = 1
    EndgameThreshold = 1
    Pipeline = 1
    ExternalData = {TRUE}
    MaxExternal = 1
    MaxFaults = 1
    MaxControls = 2
INVARIANTS
    CompletedIsResolving
PROPERTIES
    DownloadCompletes
