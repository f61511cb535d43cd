\* Two torrents and two passes of the queue, one of them the timer's; two
\* hashes, two goroutines, a failing file operation and a crash for the fleet;
\* two torrents with the same content; a week of two days of three hours; the
\* services and the torrent a watch folder adds; one stream with a slot in each
\* queue, two messages and one frame of the viewer; two torrents in the terminal
\* interface with three of its commands under way.
SPECIFICATION EngineSpec
CONSTANTS
    x1 = x1
    Managed = {t1, t2} MaxDown = 1 MaxSeed = 0 MaxTotal = 1 Pass = {r1, r2} Ticker = r1 MaxOrders = 1 Idle = Idle
    Hash = {h1, h2} Staging = "staging" Final = "final" Other = "other" Goroutine = {g1, g2}
    MaxTorrents = 6 MaxCalls = 2 MaxFails = 1 MaxCrashes = 1 Absent = Absent
    Sharer = {t1, t2} Pieces = 1 ContentOf <- MCContentOf PureV2 = {} Adopts = {t1, t2} Nowhere = Nowhere
    WeekDays = 2 DayLength = 3 NormalRates = {1, 2} AltRate = 9 Caller = {s, u} ScheduleLoop = s MaxSwitches = 2 NoCall = NoCall
    StillRunning = {} Late = "late" WatchFolder = TRUE QueueSize = 1 MaxDatagrams = 2
    SubSize = 1 OutSize = 1 WireSize = 1 HistoryLimit = 2 MaxPublished = 2 MaxFrames = 1
    Torrent = {1, 2} Named = {1} Categorised = {2} NoTorrent = NoTorrent MaxCommands = 3
INVARIANTS QueueInv QuietAfterShutdown StreamInv
PROPERTIES FleetHolds TuiKeeps
CHECK_DEADLOCK FALSE
