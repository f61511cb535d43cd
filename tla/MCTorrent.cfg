\* Two pieces, the first of two blocks, with and without file selections; a
\* cache too small for both, a web seed and a failing flush; four attempts at
\* two addresses sharing one slot across a pause and a resume; a connection, a
\* verification, a caller, a web seed loop and a Stop racing the end of Run;
\* three connections of two addresses to a super-seed; three peers for two
\* slots; a genuine peer and another for the metadata; two starts.
\* A torrent that has stopped does nothing more.
SPECIFICATION TorrentSpec
CONSTANTS
    None = None Nothing = Nothing Nobody = Nobody NoFetch = NoFetch NoFile = NoFile
    c1 = c1 c2 = c2 c3 = c3 c4 = c4 v1 = v1 a1 = a1 a2 = a2 k1 = k1
    NumPieces = 2 NumBlocks <- MCTwoBlocks MaxActivePieces = 2 EndgameThreshold = 1
    MaxCount = 2 Selections <- MCSelections
    MaxBuffered = 2 Data = {TRUE} MaxCopies = 2 MaxExternal = 1 MaxFaults = 1
    QueueLength = 2 MaxPeers = 1 MaxControls = 2
    Attempt = {c1, c2, c3, c4} Address = {a1, a2} AddressOf <- MCTwoAddresses
    Conn = {c1} Verifier = {v1} Caller = {a1, a2} WebSeed = {a2} Stopper = {k1} RunQueueLength = 1
    SeedAddr = {a1, a2} Peers <- MCPeers SeedPieces = 2 SeedQueueSize = 1 SeedPauses = 1
    Candidate = {u1, u2, u3} Slots = 2 Rotation = 2 MaxRate = 1
    MetaPeer = {m1, m2} Genuine = {m1} InfoPieces = 2 MetaQueueSize = 2 MaxTricks = 1
    DataPiece = {d1, d2} FullAllocation = FALSE CheckpointAt = 2 MaxWrites = 3 MaxStarts = 2
    Parts = {"picker", "cache", "connections", "shutdown", "seed", "choke", "metadata", "resume"}
INVARIANTS CacheInv DialingIsUnderway StorageOutlivesUse SuperSeedInv ChokingInv MetadataInv ResumeInv
PROPERTY PickerKeeps
CHECK_DEADLOCK FALSE
