SPECIFICATION NetworkSpec
CONSTANTS
    m = m u1 = u1 u2 = u2 A = A B1 = B1 WroteA = 2 WroteB = 1
    Width = 3 NodeId = {1, 2, 3, 4, 6, 7} Searcher = {6, 7} InfoHash = 0 Known <- MCKnown Storing = {1} OldPeer = 0 Silent = {3}
    BucketSize = 2 LookupAlpha = 2 MaxLookupRounds = 3 BadAfterFailures = 2 MaxLost = 0 MaxTicks = 0
    MagnetUrls <- MCMagnet ListTier = {u1, u2} ExtraUrl = x LoopId = {l1} Goodbye = g MaxOrders = 1 MaxOutages = 1 Gone = Gone
    UdpCall = {c1} MaxRetries = 1 Backoff <- MCBackoff ConnIdTTL = 1 Honoured = 2 MaxMislaid = 2
    Inbound = {c1, c2} Source = {i1} Served = {h1} Unserved = h9 PerIP = 2 MaxInboundQueue = 1
    EncryptionPolicies = {"required"}
    Dialer = A Accepted <- MCAccepted Chunks <- MCChunks Reads <- MCReads SeqSpace = 16 FirstSeqs = {15}
    MaxFaults = 2 SynRetries = 1 Window = 2 MayClose = {} None = None Absent = Absent
    LeaseDuration = 6 RenewBefore = 1 Speaks = {"upnp", "natpmp"} MaxTroubles = 2 MaxClock = 6
    Waiter = {w1} Rates = {0} Sizes = {1, 3} MinBurst = 2 MaxTime = 1 MaxChanges = 1
PROPERTIES EverythingSettles EveryChunkArrives
CHECK_DEADLOCK FALSE
