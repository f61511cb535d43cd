------------------------------- MODULE Services -------------------------------
(***************************************************************************)
(* The shared services of a process and how it ends (cmd/gottrentd,        *)
(* bootstrap, engine.go StartDHT .. Shutdown, dht/node.go, lsd/lsd.go,     *)
(* udpmux/mux.go): the DHT node and the uTP socket behind one UDP socket,  *)
(* local discovery, the watch folder, and the torrents.  Whatever a        *)
(* service's Close waits for is one of its loops.                          *)
(***************************************************************************)
EXTENDS Naturals, FiniteSets, Sequences

CONSTANTS StillRunning,  \* torrents running when the process is told to end
          Late,          \* a torrent the watch folder may find
          WatchFolder,   \* whether one is configured
          QueueSize,     \* 64 in the code: udpmux's and lsd's channels
          MaxDatagrams   \* bound

ASSUME ServicesAssumption == QueueSize \in Nat \ {0} /\ MaxDatagrams \in Nat /\ Late \notin StillRunning /\ WatchFolder \in BOOLEAN

Closable == {"dht", "lsd"}
Closers == {"watcher", "shutdown"}   \* the ctx watcher of StartX, and Shutdown

VARIABLES
    main,     \* run(): "up", "cancelled", "waiting" in Shutdown, "exited"
    closed,   \* services whose Close has run its closeOnce
    closing,  \* each caller of each Close: where it is
    reader,   \* readLoop of the DHT node and of lsd
    maintain, \* the DHT node's maintain
    saver,    \* the save of the routing table in Close, saveOnce
    mux,      \* the real socket and run(): "open", "closed"
    queue,    \* msgCh of the DHT's facade, a count
    found,    \* lsd's found channel, a count
    folder,   \* watchFolderLoop
    torrent,  \* each torrent: "absent", "running", "stopped"
    heard     \* datagrams read, for the bound

servicesVars == <<main, closed, closing, reader, maintain, saver, mux, queue, found, folder, torrent, heard>>

Cancelled == main # "up"

\* Close of the DHT node and of lsd: the first caller closes, every caller waits for
\* the loops; the DHT node's table is then saved by one of them, and the others wait
\* for it.  Mutant: every caller saves.
CallClose(s, by) ==
    /\ closing[s][by] = "idle"
    /\ IF by = "watcher" THEN Cancelled ELSE main = "waiting"
    /\ closing' = [closing EXCEPT ![s][by] = "waiting"]
    /\ closed' = closed \cup {s}
    /\ UNCHANGED <<main, reader, maintain, saver, mux, queue, found, folder, torrent, heard>>
LoopsEnded(s) == reader[s] = "gone" /\ (s = "dht" => maintain = "gone")
SaveEach(by) == closing["dht"][by] = "waiting" /\ saver' = "saving"
SaveOnce(by) == closing["dht"][by] = "waiting" /\ saver = "none" /\ saver' = "saving"
Saves(by) ==
    /\ LoopsEnded("dht") /\ SaveOnce(by)
    /\ UNCHANGED <<main, closed, closing, reader, maintain, mux, queue, found, folder, torrent, heard>>
StateSaved ==
    /\ saver = "saving" /\ saver' = "saved"
    /\ UNCHANGED <<main, closed, closing, reader, maintain, mux, queue, found, folder, torrent, heard>>
CloseReturns(s, by) ==
    /\ closing[s][by] = "waiting" /\ LoopsEnded(s) /\ (s = "dht" => saver = "saved")
    /\ closing' = [closing EXCEPT ![s][by] = "returned"]
    /\ UNCHANGED <<main, closed, reader, maintain, saver, mux, queue, found, folder, torrent, heard>>

\* StartUTP's watcher, and Shutdown: the socket behind both facades, before or after the
\* DHT's own.
CloseMux ==
    /\ mux = "open" /\ Cancelled /\ mux' = "closed"
    /\ UNCHANGED <<main, closed, closing, reader, maintain, saver, queue, found, folder, torrent, heard>>

\* Mux.run and deliver: a full facade loses the datagram.
Arrives ==
    /\ mux = "open" /\ queue < QueueSize /\ queue' = queue + 1
    /\ UNCHANGED <<main, closed, closing, reader, maintain, saver, mux, found, folder, torrent, heard>>
\* ReadFrom: whichever of a datagram, the end and the deadline its select picks; readLoop
\* asks whether the node is done only after an error.
DhtReads ==
    /\ reader["dht"] = "reading"
    /\ \/ queue > 0 /\ queue' = queue - 1 /\ UNCHANGED reader
       \/ "dht" \in closed /\ reader' = [reader EXCEPT !["dht"] = "gone"] /\ UNCHANGED queue
    /\ UNCHANGED <<main, closed, closing, maintain, saver, mux, found, folder, torrent, heard>>
\* maintain: its ticker starts the pings and a save, and only between two of them
\* does it look at done.
Maintains ==
    /\ \/ maintain = "waiting" /\ maintain' \in {"saving"} \cup (IF "dht" \in closed THEN {"gone"} ELSE {})
       \/ maintain = "saving" /\ maintain' = "waiting"
    /\ UNCHANGED <<main, closed, closing, reader, saver, mux, queue, found, folder, torrent, heard>>

\* lsd's readLoop: a peer is handed over, which may have to wait; done ends
\* both the waiting and the reading.
HandsOverOrDone == found < QueueSize \/ "lsd" \in closed
LsdReads ==
    /\ \/ reader["lsd"] = "reading" /\ "lsd" \notin closed /\ heard < MaxDatagrams
          /\ heard' = heard + 1 /\ reader' = [reader EXCEPT !["lsd"] = "handing"] /\ UNCHANGED found
       \/ reader["lsd"] = "reading" /\ "lsd" \in closed /\ reader' = [reader EXCEPT !["lsd"] = "gone"] /\ UNCHANGED <<found, heard>>
       \/ reader["lsd"] = "handing" /\ HandsOverOrDone /\ UNCHANGED heard
          /\ \/ found < QueueSize /\ found' = found + 1 /\ reader' = [reader EXCEPT !["lsd"] = "reading"]
             \/ "lsd" \in closed /\ reader' = [reader EXCEPT !["lsd"] = "gone"] /\ UNCHANGED found
    /\ UNCHANGED <<main, closed, closing, maintain, saver, mux, queue, folder, torrent>>
\* lsdDispatchLoop: DialPeer of a torrent, or of none; a torrent whose actor is busy keeps it.
Dispatches ==
    /\ found > 0 /\ found' = found - 1
    /\ UNCHANGED <<main, closed, closing, reader, maintain, saver, mux, queue, folder, torrent, heard>>

\* watchFolderLoop: the context is looked at between two scans, never within one.
FolderScans ==
    /\ \/ folder = "waiting" /\ ~Cancelled /\ folder' = "scanning" /\ UNCHANGED torrent
       \/ folder = "waiting" /\ Cancelled /\ folder' = "gone" /\ UNCHANGED torrent
       \/ folder = "scanning" /\ folder' = "waiting" /\ UNCHANGED torrent
       \/ folder = "scanning" /\ torrent[Late] = "absent" /\ folder' = "waiting" /\ torrent' = [torrent EXCEPT ![Late] = "running"]
    /\ main # "exited"
    /\ UNCHANGED <<main, closed, closing, reader, maintain, saver, mux, queue, found, heard>>

\* run(): the signal, cancel, Shutdown with the torrents there are at that moment.
Cancel ==
    /\ main = "up" /\ main' = "cancelled"
    /\ UNCHANGED <<closed, closing, reader, maintain, saver, mux, queue, found, folder, torrent, heard>>
BeginShutdown ==
    /\ main = "cancelled" /\ main' = "waiting"
    /\ torrent' = [t \in DOMAIN torrent |-> IF torrent[t] = "running" THEN "stopping" ELSE torrent[t]]
    /\ UNCHANGED <<closed, closing, reader, maintain, saver, mux, queue, found, folder, heard>>
TorrentStops(t) ==
    /\ torrent[t] = "stopping" /\ torrent' = [torrent EXCEPT ![t] = "stopped"]
    /\ UNCHANGED <<main, closed, closing, reader, maintain, saver, mux, queue, found, folder, heard>>
AllClosed == \A s \in Closable : closing[s]["shutdown"] = "returned"
Exits ==
    /\ main = "waiting" /\ AllClosed /\ mux = "closed"
    /\ \A t \in DOMAIN torrent : torrent[t] # "stopping"
    /\ main' = "exited"
    /\ UNCHANGED <<closed, closing, reader, maintain, saver, mux, queue, found, folder, torrent, heard>>
---------------------------------------------------------------------------
ServicesInit ==
    /\ main = "up" /\ closed = {} /\ closing = [s \in Closable |-> [c \in Closers |-> "idle"]]
    /\ reader = [s \in Closable |-> "reading"] /\ maintain = "waiting" /\ saver = "none"
    /\ mux = "open" /\ queue = 0 /\ found = 0
    /\ folder = (IF WatchFolder THEN "waiting" ELSE "gone")
    /\ torrent = [t \in StillRunning \cup {Late} |-> IF t \in StillRunning THEN "running" ELSE "absent"] /\ heard = 0

CloseNext(s, by) == CallClose(s, by) \/ (s = "dht" /\ Saves(by)) \/ CloseReturns(s, by)
Loops == DhtReads \/ Maintains \/ LsdReads \/ Dispatches \/ StateSaved
Ends == Exits \/ BeginShutdown \/ CloseMux \/ (\E t \in StillRunning \cup {Late} : TorrentStops(t))
ServicesNext ==
    main # "exited" /\ (\/ \E s \in Closable, by \in Closers : CloseNext(s, by)
                        \/ Arrives \/ Loops \/ Ends \/ FolderScans \/ Cancel)
\* Every goroutine runs; which of several ready channels a select takes is not fair
\* to the readers, so theirs is strong.  Dispatches is not assumed: a torrent may keep it.
ServicesFairness ==
    /\ \A s \in Closable, by \in Closers : WF_servicesVars(CloseNext(s, by))
    /\ SF_servicesVars(DhtReads /\ reader' # reader) /\ SF_servicesVars(LsdReads /\ reader'["lsd"] = "gone")
    /\ WF_servicesVars(Maintains) /\ SF_servicesVars(Maintains /\ maintain' = "gone")
    /\ WF_servicesVars(StateSaved) /\ WF_servicesVars(Ends)
ServicesSpec == ServicesInit /\ [][ServicesNext]_servicesVars /\ ServicesFairness
---------------------------------------------------------------------------
\* Nothing writes the DHT's state file once Shutdown has returned, whoever else called
\* Close and however far maintain was.
QuietAfterShutdown == main = "exited" => maintain # "saving" /\ saver = "saved"

\* Once told to end, the process ends: every loop a Close waits for comes to its end,
\* even with a channel full that nobody drains.
ShutdownReturns == Cancelled ~> (main = "exited")

\* Shutdown's comment: it stops every managed torrent and waits for all of them.  The
\* watch folder's scan under way adds one that nobody stops.
EveryTorrentStops == main = "exited" => \A t \in DOMAIN torrent : torrent[t] # "running"
=============================================================================
