\* A lookup among six DHT nodes, one silent; three tiers of trackers and two
\* announce loops; two calls to a UDP tracker; two incoming connections of one
\* or two addresses; a uTP connection whose numbers wrap; a day of leases; two
\* callers of a token bucket.
SPECIFICATION NetworkSpec
CONSTANTS
    m = m u1 = u1 u2 = u2 A = A B1 = B1 WroteA = 2 WroteB = 0
    Width = 3 NodeId = {1, 2, 3, 4, 6, 7} Searcher = {6, 7} InfoHash = 0 Known <- MCKnown Storing = {1} OldPeer = 0 Silent = {3}
    BucketSize = 2 LookupAlpha = 2 MaxLookupRounds = 3 BadAfterFailures = 2 MaxLost = 1 MaxTicks = 1
    MagnetUrls <- MCMagnet ListTier = {u1, u2} ExtraUrl = x LoopId = {l1, l2} Goodbye = g MaxOrders = 1 MaxOutages = 1 Gone = Gone
    UdpCall = {c1, c2} MaxRetries = 1 Backoff <- MCBackoff ConnIdTTL = 1 Honoured = 3 MaxMislaid = 2
    Inbound = {c1, c2} Source = {i1, i2} Served = {h1} Unserved = h9 PerIP = 1 MaxInboundQueue = 1
    EncryptionPolicies = {"prefer", "required", "disabled"}
    Dialer = A Accepted <- MCAccepted Chunks <- MCChunks Reads <- MCReads SeqSpace = 16 FirstSeqs = {15}
    MaxFaults = 1 SynRetries = 1 Window = 2 MayClose = {A, B1} None = None Absent = Absent
    LeaseDuration = 6 RenewBefore = 1 Speaks = {"upnp", "natpmp"} MaxTroubles = 2 MaxClock = 20
    Waiter = {w1, w2} Rates = {0, 1, 2} Sizes = {1, 3} MinBurst = 2 MaxTime = 4 MaxChanges = 1
INVARIANTS AnnounceInv UdpInv InboundInv UtpInv PortmapInv LimiterInv
PROPERTY DhtKeeps
CHECK_DEADLOCK FALSE
