----------------------------- MODULE MCTorrent -----------------------------
(* Small instances of the parts of a torrent that meet only through the    *)
(* actor: each behaviour is one of PickerLoop, WriteCache (which share the *)
(* picker's variables), Connections, Shutdown, SuperSeed, Choking,         *)
(* Metadata or Resume, and the others stay where they start.               *)
EXTENDS PickerLoop, WriteCache, Connections, Shutdown, SuperSeed, Choking, Metadata, Resume, TLC

CONSTANTS Parts,   \* the parts looked at
          c1, c2, c3, c4, v1, a1, a2, k1

VARIABLE part

MCTwoBlocks == 0 :> 2 @@ 1 :> 1
MCSelections == {[p \in Piece |-> Normal], [p \in Piece |-> IF p = 0 THEN Skip ELSE Normal],
                 [p \in Piece |-> IF p = 1 THEN High ELSE Low]}
MCTwoAddresses == [c \in Attempt |-> IF c \in {c1, c2} THEN a1 ELSE a2]
MCPeers == {<<a1, 1>>, <<a1, 2>>, <<a2, 1>>}

cacheOnly == <<cacheVars, disk, wire, verifyVars, external, faults>>
dataVars == <<writeCacheVars, vars, shutdownVars>>
smallVars == <<superSeedVars, chokingVars, metadataVars, resumeVars>>
torrentVars == <<part, dataVars, smallVars>>

TorrentInit ==
    /\ part \in Parts
    /\ CacheInit /\ Init /\ ShutdownInit
    /\ SuperSeedInit /\ ChokingInit /\ MetadataInit /\ ResumeInit
    \* what is not looked at starts in one way only; the picker is looked at over
    \* a whole disk, the cache over an empty one
    /\ disk = [x \in Block |-> part = "picker"]
    /\ part # "seed" => holds = [a \in SeedAddr |-> {}]
    /\ part # "metadata" => claims = [c \in MetaPeer |-> InfoPieces]

DataNext ==
    \/ part = "picker" /\ PickerNext /\ UNCHANGED <<cacheOnly, vars, shutdownVars>>
    \/ part = "cache" /\ CacheNext /\ UNCHANGED <<vars, shutdownVars>>
    \/ part = "connections" /\ Next /\ UNCHANGED <<writeCacheVars, shutdownVars>>
    \/ part = "shutdown" /\ ShutdownNext /\ UNCHANGED <<writeCacheVars, vars>>
SmallNext ==
    \/ part = "seed" /\ SuperSeedNext /\ UNCHANGED <<chokingVars, metadataVars, resumeVars>>
    \/ part = "choke" /\ ChokingNext /\ UNCHANGED <<superSeedVars, metadataVars, resumeVars>>
    \/ part = "metadata" /\ MetadataNext /\ UNCHANGED <<superSeedVars, chokingVars, resumeVars>>
    \/ part = "resume" /\ ResumeNext /\ UNCHANGED <<superSeedVars, chokingVars, metadataVars>>

TorrentNext ==
    /\ UNCHANGED part
    /\ \/ DataNext /\ UNCHANGED smallVars
       \/ SmallNext /\ UNCHANGED dataVars

\* The fairness of Connections, Shutdown, Choking and Metadata, each where it runs.
On(p, A) == part = p /\ A
TorrentFairness ==
    /\ \A c \in Attempt :
          /\ SF_vars(On("connections", ConnectFails(c) \/ Connects(c) \/ PumpEnds(c)))
          /\ WF_vars(On("connections", Dial(c) \/ DialFailed(c) \/ RegisterPeer(c) \/ RemovePeer(c)))
    /\ WF_shutdownVars(On("shutdown", Start)) /\ WF_shutdownVars(On("shutdown", HandleEvent))
    /\ WF_shutdownVars(On("shutdown", Exit)) /\ WF_shutdownVars(On("shutdown", RunShutdownPeers))
    /\ WF_shutdownVars(On("shutdown", CloseStorage)) /\ WF_shutdownVars(On("shutdown", RunReturns))
    /\ \A v \in Verifier : WF_shutdownVars(On("shutdown", Hashed(v))) /\ SF_shutdownVars(On("shutdown", Report(v)))
    /\ \A c \in Conn :
          /\ SF_shutdownVars(On("shutdown", AcceptPeer(c) \/ HandshakeFails(c) \/ AttemptConnects(c) \/ RelayEnds(c)))
          /\ WF_shutdownVars(On("shutdown", PumpCloses(c))) /\ WF_shutdownVars(On("shutdown", ClientEnds(c)))
    /\ \A a \in Caller : WF_shutdownVars(On("shutdown", Refused(a))) /\ WF_shutdownVars(On("shutdown", HandleControl(a)))
    /\ \A a \in WebSeed : SF_shutdownVars(On("shutdown", SeedEnds(a)))
    /\ \A k \in Stopper : WF_shutdownVars(On("shutdown", StopReturned(k)))
    /\ WF_chokingVars(On("choke", RoundPasses)) /\ WF_chokingVars(On("choke", ChokerRun))
    /\ \A p \in Candidate : SF_chokingVars(On("choke", Favours(p)))
    /\ \A c \in Genuine :
          /\ WF_metadataVars(On("metadata", MetaConnects(c))) /\ WF_metadataVars(On("metadata", Shakes(c)))
          /\ WF_metadataVars(On("metadata", MetaAnswers(c)))
    /\ \A c \in MetaPeer :
          /\ WF_metadataVars(On("metadata", OnHandshake(c)))
          /\ WF_metadataVars(On("metadata", OnMetadataReject(c))) /\ WF_metadataVars(On("metadata", OnMetadataPiece(c)))
          /\ WF_metadataVars(On("metadata", MetaPeerGone(c))) /\ SF_metadataVars(On("metadata", Chooses(c)))

TorrentSpec == TorrentInit /\ [][TorrentNext]_torrentVars
TorrentLiveSpec == TorrentSpec /\ TorrentFairness

\* What is said of one part, where it runs.
PickerKeeps == [](part = "picker" => PickIsRight) /\ ArrivedIsKept
GoroutinesEnd ==
    /\ part = "connections" => EndedIsForgotten
    /\ part = "shutdown" => OnlySeedsHoldStop /\ CallersReturn
ChokedHaveATurn == part = "choke" => EveryoneHasATurn
MagnetGetsMetadata == part = "metadata" => MetadataArrives
=============================================================================
