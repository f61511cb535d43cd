\* The parts that must make progress, as in MCTorrent.cfg but for metadata of
\* one piece.
\* A torrent that has stopped does nothing more.
SPECIFICATION TorrentLiveSpec
CONSTANTS
    None = None Nothing = Nothing Nobody = Nobody NoFetch = NoFetch NoFile = NoFile
    c1 = c1 c2 = c2 c3 = c3 c4 = c4 v1 = v1 a1 = a1 a2 = a2 k1 = k1
    NumPieces = 2 NumBlocks <- MCTwoBlocks MaxActivePieces = 2 EndgameThreshold = 1
    MaxCount = 2 Selections <- MCSelections
    MaxBuffered = 2 Data = {TRUE} MaxCopies = 2 MaxExternal = 1 MaxFaults = 1
    QueueLength = 2 MaxPeers = 1 MaxControls = 2
    Attempt = {c1, c2, c3} Address = {a1, a2} AddressOf <- MCTwoAddresses
    Conn = {c1} Verifier = {v1} Caller = {a1, a2} WebSeed = {a2} Stopper = {k1} RunQueueLength = 1
    SeedAddr = {a1, a2} Peers <- MCPeers SeedPieces = 2 SeedQueueSize = 1 SeedPauses = 1
    Candidate = {u1, u2, u3} Slots = 2 Rotation = 1 MaxRate = 1
    MetaPeer = {m1, m2} Genuine = {m1} InfoPieces = 1 MetaQueueSize = 1 MaxTricks = 1
    DataPiece = {d1, d2} FullAllocation = FALSE CheckpointAt = 2 MaxWrites = 3 MaxStarts = 2
    Parts = {"connections", "shutdown", "choke", "metadata"}
PROPERTIES GoroutinesEnd ChokedHaveATurn MagnetGetsMetadata
CHECK_DEADLOCK FALSE
