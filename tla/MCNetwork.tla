------------------------------ MODULE MCNetwork ------------------------------
(* Small instances of what talks to the network beside the wire protocol:  *)
(* each behaviour is one of Dht, Announce, UdpTracker, Inbound, Utp,       *)
(* Portmap or Limiter, and the others stay where they start.               *)
EXTENDS Dht, Announce, UdpTracker, Inbound, Utp, Portmap, Limiter

CONSTANTS m, u1, u2, A, B1, WroteA, WroteB

VARIABLE part

MCKnown == [n \in NodeId |-> CASE n = 6 -> {2, 3} [] n = 7 -> {1, 3} [] n = 2 -> {1, 4}
                               [] n = 3 -> {1, 2, 6} [] n = 1 -> {2, 4} [] OTHER -> {1}]
MCMagnet == <<m>>
MCChunks == [c \in {A, B1} |-> IF c = A THEN WroteA ELSE WroteB]
MCReads == [c \in {A, B1} |-> IF c = A THEN 0 ELSE 1]
MCAccepted == <<B1>>
MCBackoff == [n \in 0..MaxMislaid |-> 2 ^ n]

networkVars == <<part, dhtVars, announceVars, udpVars, inboundVars, utpVars, portmapVars, limiterVars>>

NetworkInit ==
    /\ part \in {"dht", "announce", "udp", "inbound", "utp", "portmap", "limiter"}
    /\ DhtInit /\ AnnounceInit /\ UdpInit /\ InboundInit /\ UtpInit /\ PortmapInit /\ LimiterInit
    \* what is not looked at starts in one way only
    /\ part # "announce" => ~known
    /\ part # "inbound" => /\ policy = CHOOSE p \in EncryptionPolicies : TRUE
                           /\ \A c \in Inbound : hello[c] = CHOOSE h \in Hello : h.mse /\ ~h.blocked
    /\ part # "limiter" => rate = 0

NetworkNext ==
    /\ UNCHANGED part
    /\ \/ part = "dht" /\ DhtNext /\ UNCHANGED <<announceVars, udpVars, inboundVars, utpVars, portmapVars, limiterVars>>
       \/ part = "announce" /\ AnnounceNext /\ UNCHANGED <<dhtVars, udpVars, inboundVars, utpVars, portmapVars, limiterVars>>
       \/ part = "udp" /\ UdpNext /\ UNCHANGED <<dhtVars, announceVars, inboundVars, utpVars, portmapVars, limiterVars>>
       \/ part = "inbound" /\ InboundNext /\ UNCHANGED <<dhtVars, announceVars, udpVars, utpVars, portmapVars, limiterVars>>
       \/ part = "utp" /\ UtpNext /\ UNCHANGED <<dhtVars, announceVars, udpVars, inboundVars, portmapVars, limiterVars>>
       \/ part = "portmap" /\ PortmapNext /\ UNCHANGED <<dhtVars, announceVars, udpVars, inboundVars, utpVars, limiterVars>>
       \/ part = "limiter" /\ LimiterNext /\ UNCHANGED <<dhtVars, announceVars, udpVars, inboundVars, utpVars, portmapVars>>

\* The fairness of each part, where it runs.
In(p, act) == part = p /\ act
NetworkFairness ==
    /\ \A s \in Searcher :
          /\ WF_dhtVars(In("dht", NextRound(s))) /\ WF_dhtVars(In("dht", Announce(s)))
          /\ \A n \in NodeId : WF_dhtVars(In("dht", Timeout(s, n)))
    /\ WF_dhtVars(In("dht", \E d \in dgrams : Serve(d))) /\ WF_dhtVars(In("dht", \E d \in dgrams : Deliver(d)))
    /\ WF_announceVars(In("announce", SaysGoodbyeAtEnd))
    /\ \A l \in Announcer : WF_announceVars(In("announce", AnnouncerNext(l)))
    /\ WF_udpVars(In("udp", TimePasses)) /\ \A c \in UdpCall : WF_udpVars(In("udp", ClientStep(c)))
    /\ \A c \in Inbound :
          /\ WF_inboundVars(In("inbound", ConnStep(c)))
          /\ WF_inboundVars(In("inbound", stage[c] = "served" /\ serving[Asks(c)] = "stopping" /\ InboundEnds(c)))
    /\ \A h \in Served : WF_inboundVars(In("inbound", TorrentStep(h)))
    /\ WF_utpVars(In("utp", SendSyn)) /\ WF_utpVars(In("utp", \E p \in net : Arrives(p, FALSE)))
    /\ \A c \in ConnIds : WF_utpVars(In("utp", HandleRTO(c)))

NetworkSpec == NetworkInit /\ [][NetworkNext]_networkVars /\ NetworkFairness

\* What is said of one part, where it runs.
EveryChunkArrives == part = "utp" => EverythingArrives
EverythingSettles ==
    /\ part = "dht" => LookupEnds
    /\ part = "announce" => EveryTierHears /\ GoodbyeEnds
    /\ part = "udp" => UdpCallsEnd
    /\ part = "inbound" => InboundSettles
=============================================================================
