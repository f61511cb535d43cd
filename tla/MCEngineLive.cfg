\* One pass of the queue after the other; one hash; the rest as in MCEngine.cfg or
\* with smaller bounds.
SPECIFICATION EngineSpec
CONSTANTS
    x1 = x1
    Managed = {t1, t2} MaxDown = 1 MaxSeed = 0 MaxTotal = 1 Pass = {r1} Ticker = r1 MaxOrders = 1 Idle = Idle
    Hash = {h1} Staging = "staging" Final = "final" Other = "other" Goroutine = {g1, g2}
    MaxTorrents = 3 MaxCalls = 2 MaxFails = 1 MaxCrashes = 0 Absent = Absent
    Sharer = {t1, t2} Pieces = 1 ContentOf <- MCContentOf PureV2 = {} Adopts = {t1} Nowhere = Nowhere
    WeekDays = 2 DayLength = 3 NormalRates = {1, 2} AltRate = 9 Caller = {s, u} ScheduleLoop = s MaxSwitches = 2 NoCall = NoCall
    StillRunning = {} Late = "late" WatchFolder = FALSE QueueSize = 1 MaxDatagrams = 2
    SubSize = 1 OutSize = 1 WireSize = 1 HistoryLimit = 1 MaxPublished = 0 MaxFrames = 0
    Torrent = {} Named = {} Categorised = {} NoTorrent = NoTorrent MaxCommands = 1
PROPERTIES QueueIsConverging ScheduleHolds EverythingEnds
CHECK_DEADLOCK FALSE
