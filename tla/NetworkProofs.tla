----------------------------- MODULE NetworkProofs -----------------------------
(***************************************************************************)
(* Proofs about what the engine has with the world outside its torrents:   *)
(* the port mapping on the gateway (Portmap), the slots of connections     *)
(* from outside (Inbound), the announcers of a torrent (Announce), the     *)
(* rendezvous that torrents relay for each other (Holepunch), the calls to *)
(* a UDP tracker (UdpTracker) and the DHT (Dht).                           *)
(***************************************************************************)
EXTENDS Portmap, Inbound, Announce, Holepunch, UdpTracker, Dht, FiniteSetTheorems, SequenceTheorems, TLAPS

-----------------------------------------------------------------------------
(* The port mapping *)

\* The ticker fires in time, and what it renews outlives the next time by the margin.
RenewsInTime ==
    client.stage = "renewing" =>
        /\ client.mapper \in Speaks
        /\ client.due \in Nat /\ clock <= client.due /\ client.due <= clock + RenewInterval
        /\ misses = 0 => granted[client.mapper] >= client.due + RenewBefore

\* While nothing went wrong the gateway holds one mapping, the one that is renewed.
OnlyTheOneRenewed ==
    troubles = 0 => \A m \in Protocols : granted[m] # 0 => client.stage = "renewing" /\ client.mapper = m

\* The types.
PortmapTypes ==
    /\ granted \in [Protocols -> 0..MaxClock + LeaseDuration] /\ clock \in 0..MaxClock
    /\ client \in [stage : Protocols \cup {"none", "renewing", "closed"}, mapper : Protocols, due : Nat]
    /\ misses \in Nat /\ troubles \in Nat
\* The inductive invariant.
PortmapIInv == PortmapTypes /\ RenewsInTime /\ OnlyTheOneRenewed

\* What the proofs use of the constants.
LEMMA PortmapConstants ==
    /\ LeaseDuration \in Nat /\ RenewBefore \in Nat /\ MaxTroubles \in Nat /\ MaxClock \in Nat
    /\ 0 < RenewBefore /\ RenewBefore < LeaseDuration
    /\ RenewInterval \in Nat /\ RenewInterval + RenewBefore = LeaseDuration /\ RenewInterval < LeaseDuration
BY PortmapAssumption DEF RenewInterval

\* A gateway refuses what it does not speak.
LEMMA CallsOfAGateway ==
    ASSUME NEW m \in Protocols, NEW how \in Calls(m)
    PROVE  how \in {"answered", "refused", "unanswered"} /\ (m \notin Speaks => how = "refused")
BY DEF Calls

\* Without a trouble the call was answered, or the gateway does not speak it.
LEMMA TroublesCount ==
    ASSUME PortmapTypes, NEW m, NEW how, InTrouble(m, how)
    PROVE  troubles' \in Nat /\ (troubles' = 0 => troubles = 0 /\ (how = "answered" \/ m \notin Speaks))
BY PortmapConstants DEF InTrouble, PortmapTypes

\* discoverAndMap.
LEMMA MappingKeepsPortmap ==
    ASSUME PortmapIInv, NEW m \in Protocols, NEW how \in Calls(m), NEW next \in {"natpmp", "none"},
           client.stage = m, MapWith(m, how, next)
    PROVE  PortmapIInv'
<1> USE DEF PortmapIInv
<1>1. how \in {"answered", "refused", "unanswered"} /\ (m \notin Speaks => how = "refused")
  BY CallsOfAGateway
<1>2. troubles' \in Nat /\ (troubles' = 0 => troubles = 0 /\ (how = "answered" \/ m \notin Speaks))
  BY TroublesCount DEF MapWith
<1>3. clock \in Nat /\ clock + LeaseDuration \in 0..MaxClock + LeaseDuration /\ UNCHANGED <<clock, misses>>
  BY PortmapConstants DEF PortmapTypes, MapWith
<1>4. granted' \in [Protocols -> 0..MaxClock + LeaseDuration]
  BY <1>1, <1>3 DEF MapWith, Mapped, PortmapTypes
<1>5. client.stage # "renewing"
  BY DEF Protocols
<1>6. CASE how = "answered"
  <2>1. client' = [stage |-> "renewing", mapper |-> m, due |-> clock + RenewInterval]
        /\ granted' = [granted EXCEPT ![m] = clock + LeaseDuration]
    BY <1>6 DEF MapWith, Mapped
  <2>2. PortmapTypes'
    BY <1>2, <1>3, <1>4, <2>1, PortmapConstants DEF PortmapTypes
  <2>3. RenewsInTime'
    <3>1. granted'[m] = clock + LeaseDuration
      BY <2>1 DEF PortmapTypes
    <3>2. QED
      BY <1>1, <1>3, <1>6, <2>1, <3>1, PortmapConstants DEF RenewsInTime
  <2>4. OnlyTheOneRenewed'
    BY <1>2, <1>5, <2>1 DEF OnlyTheOneRenewed, PortmapTypes
  <2>5. QED
    BY <2>2, <2>3, <2>4
<1>7. CASE how # "answered"
  <2>1. client' = [client EXCEPT !.stage = next]
    BY <1>7 DEF MapWith
  <2>2. PortmapTypes' /\ RenewsInTime'
    BY <1>2, <1>3, <1>4, <2>1 DEF PortmapTypes, RenewsInTime, Protocols
  <2>3. OnlyTheOneRenewed'
    <3>1. troubles' = 0 => troubles = 0 /\ granted' = granted
      BY <1>1, <1>2, <1>7 DEF MapWith, Mapped
    <3>2. QED
      BY <1>5, <3>1 DEF OnlyTheOneRenewed
  <2>4. QED
    BY <2>2, <2>3
<1>8. QED
  BY <1>6, <1>7

\* renewLoop.
LEMMA RenewalKeepsPortmap ==
    ASSUME PortmapIInv, Renew
    PROVE  PortmapIInv'
<1> USE DEF PortmapIInv
<1> DEFINE m == client.mapper
<1>1. PICK how \in Calls(m) :
        /\ InTrouble(m, how)
        /\ granted' = Mapped(m, how)
        /\ misses' = IF how = "answered" THEN 0 ELSE misses + 1
  BY DEF Renew
<1>2. /\ client.stage = "renewing" /\ client.due <= clock /\ UNCHANGED clock
      /\ client' = [client EXCEPT !.due = @ + RenewInterval]
  BY DEF Renew
<1>3. m \in Protocols /\ m \in Speaks /\ client.due = clock /\ clock \in Nat
  BY <1>2 DEF RenewsInTime, PortmapTypes
<1>4. how \in {"answered", "refused", "unanswered"} /\ troubles' \in Nat
      /\ (troubles' = 0 => troubles = 0 /\ how = "answered")
  BY <1>1, <1>3, CallsOfAGateway, TroublesCount
<1>5. clock + LeaseDuration \in 0..MaxClock + LeaseDuration
  BY PortmapConstants DEF PortmapTypes
<1>6. granted' \in [Protocols -> 0..MaxClock + LeaseDuration]
      /\ (how = "answered" => granted' = [granted EXCEPT ![m] = clock + LeaseDuration])
  BY <1>1, <1>3, <1>5 DEF Mapped, PortmapTypes
<1>7. /\ client'.stage = "renewing" /\ client'.mapper = m /\ client'.due = clock + RenewInterval
      /\ client' \in [stage : Protocols \cup {"none", "renewing", "closed"}, mapper : Protocols, due : Nat]
  BY <1>2, <1>3, PortmapConstants DEF PortmapTypes
<1>8. misses' \in Nat /\ (misses' = 0 => how = "answered")
  BY <1>1 DEF PortmapTypes
<1> HIDE DEF m
<1>9. PortmapTypes'
  BY <1>2, <1>4, <1>6, <1>7, <1>8 DEF PortmapTypes
<1>10. RenewsInTime'
  <2>1. misses' = 0 => granted'[m] = clock + LeaseDuration
    BY <1>3, <1>6, <1>8 DEF PortmapTypes
  <2>2. QED
    BY <1>2, <1>3, <1>7, <2>1, PortmapConstants DEF RenewsInTime
<1>11. OnlyTheOneRenewed'
  <2>1. troubles' = 0 => \A k \in Protocols : k # m => granted'[k] = granted[k]
    BY <1>4, <1>6 DEF PortmapTypes
  <2>2. QED
    BY <1>4, <1>7, <2>1 DEF OnlyTheOneRenewed, m
<1>12. QED
  BY <1>9, <1>10, <1>11

\* Close.
LEMMA WithdrawalKeepsPortmap ==
    ASSUME PortmapIInv, Withdraw
    PROVE  PortmapIInv'
<1> USE DEF PortmapIInv
<1> DEFINE m == client.mapper
<1>1. PICK how \in Calls(m) : InTrouble(m, how) /\ granted' = Deleted(m, how)
  BY DEF Withdraw
<1>2. /\ client.stage = "renewing" /\ UNCHANGED <<clock, misses>>
      /\ client' = [client EXCEPT !.stage = "closed"]
  BY DEF Withdraw
<1>3. m \in Protocols /\ m \in Speaks
  BY <1>2 DEF RenewsInTime, PortmapTypes
<1>4. how \in {"answered", "refused", "unanswered"} /\ troubles' \in Nat
      /\ (troubles' = 0 => troubles = 0 /\ how = "answered")
  BY <1>1, <1>3, CallsOfAGateway, TroublesCount
<1>5. 0 \in 0..MaxClock + LeaseDuration
  BY PortmapConstants
<1>6. granted' \in [Protocols -> 0..MaxClock + LeaseDuration]
      /\ (how = "answered" => granted' = [granted EXCEPT ![m] = 0])
  BY <1>1, <1>3, <1>4, <1>5 DEF Deleted, PortmapTypes
<1>7. PortmapTypes' /\ RenewsInTime'
  BY <1>2, <1>4, <1>6 DEF PortmapTypes, RenewsInTime
<1>8. OnlyTheOneRenewed'
  <2>1. troubles' = 0 => \A k \in Protocols : (k # m /\ granted'[k] = granted[k]) \/ (k = m /\ granted'[k] = 0)
    BY <1>4, <1>6 DEF PortmapTypes
  <2>2. QED
    BY <1>2, <1>4, <2>1 DEF OnlyTheOneRenewed
<1>9. QED
  BY <1>7, <1>8

(***************************************************************************)
(* portmap: between two renewals that were answered the port is always     *)
(* mapped, and Close leaves no mapping behind, for every lease and margin. *)
(***************************************************************************)
THEOREM MappingIsKept == PortmapSpec => []PortmapInv
<1>1. PortmapInit => PortmapIInv
  BY PortmapConstants DEF PortmapInit, PortmapIInv, PortmapTypes, RenewsInTime, OnlyTheOneRenewed, Protocols
<1>2. PortmapIInv /\ [PortmapNext]_portmapVars => PortmapIInv'
  <2>1. ASSUME PortmapIInv, DiscoverAndMap PROVE PortmapIInv'
    <3>1. CASE client.stage = "upnp" /\ \E how \in Calls("upnp") : MapWith("upnp", how, "natpmp")
      BY <2>1, <3>1, MappingKeepsPortmap DEF Protocols
    <3>2. CASE client.stage = "natpmp" /\ \E how \in Calls("natpmp") : MapWith("natpmp", how, "none")
      BY <2>1, <3>2, MappingKeepsPortmap DEF Protocols
    <3>3. QED
      BY <2>1, <3>1, <3>2 DEF DiscoverAndMap
  <2>2. ASSUME PortmapIInv, PortmapTick PROVE PortmapIInv'
    BY <2>2, PortmapConstants
       DEF PortmapTick, PortmapIInv, PortmapTypes, RenewsInTime, OnlyTheOneRenewed
  <2>3. ASSUME PortmapIInv, UNCHANGED portmapVars PROVE PortmapIInv'
    BY <2>3 DEF portmapVars, PortmapIInv, PortmapTypes, RenewsInTime, OnlyTheOneRenewed
  <2>4. QED
    BY <2>1, <2>2, <2>3, RenewalKeepsPortmap, WithdrawalKeepsPortmap DEF PortmapNext
<1>3. PortmapIInv => PortmapInv
  <2> SUFFICES ASSUME PortmapIInv PROVE PortmapInv
    OBVIOUS
  <2> USE DEF PortmapIInv
  <2>1. PortmapTypeOK
    BY PortmapConstants DEF PortmapTypes, PortmapTypeOK, RenewsInTime
  <2>2. NoGap
    BY PortmapConstants DEF PortmapTypes, NoGap, Alive, RenewsInTime
  <2>3. NothingLeftBehind
    BY DEF PortmapTypes, NothingLeftBehind, Alive, OnlyTheOneRenewed
  <2>4. QED
    BY <2>1, <2>2, <2>3 DEF PortmapInv
<1>4. QED
  BY <1>1, <1>2, <1>3, PTL DEF PortmapSpec

-----------------------------------------------------------------------------
(* Slots of connections from outside *)

\* How far a connection can come; between the first and the last it holds a slot.
Stages == {"new", "slot", "mse", "routing", "handed", "queued", "served", "closed"}
Holding == Stages \ {"new", "closed"}

\* The types.
InboundTypes ==
    /\ hello \in [Inbound -> Hello] /\ stage \in [Inbound -> Stages]
    /\ slots \in [Source -> Nat] /\ inbox \in [Served -> Seq(Inbound)]

\* Every slot is a connection that is not closed.
SlotsAreHeld ==
    \A ip \in Source : IsFiniteSet(Holders(ip)) /\ slots[ip] = Cardinality(Holders(ip)) /\ slots[ip] <= PerIP

\* What the policy asked for is settled before the connection is routed.
Settled ==
    \A c \in Inbound :
        /\ stage[c] = "mse" => hello[c].mse
        /\ stage[c] \in {"routing", "handed", "queued", "served"} =>
               (policy = "required" => hello[c].mse) /\ (hello[c].mse => hello[c].skey = Asks(c))
        /\ stage[c] \in {"handed", "queued", "served"} => Asks(c) \in Served

\* A torrent's queue holds queued connections that ask for it, each once.
QueuedOnce ==
    \A h \in Served :
        /\ \A i \in DOMAIN inbox[h] : stage[inbox[h][i]] = "queued" /\ Asks(inbox[h][i]) = h
        /\ \A i, j \in DOMAIN inbox[h] : inbox[h][i] = inbox[h][j] => i = j

\* The inductive invariant.
InboundIInv == InboundTypes /\ SlotsAreHeld /\ Settled /\ QueuedOnce

\* The address and the stage of a connection.
LEMMA HelloSays ==
    ASSUME InboundTypes, NEW c \in Inbound
    PROVE  Ip(c) \in Source /\ stage[c] \in Stages
BY DEF InboundTypes, Hello, Ip

\* A connection goes on and keeps its slot.
LEMMA SlotIsKept ==
    ASSUME InboundTypes, SlotsAreHeld, NEW c \in Inbound, NEW s \in Holding,
           stage[c] \in Holding, ToStage(c, s), UNCHANGED <<hello, slots>>
    PROVE  SlotsAreHeld'
<1>1. \A d \in Inbound : stage'[d] \notin {"new", "closed"} <=> stage[d] \notin {"new", "closed"}
  BY DEF ToStage, InboundTypes, Holding
<1>2. \A ip \in Source : Holders(ip)' = Holders(ip)
  BY <1>1 DEF Holders, Ip
<1>3. QED
  BY <1>2 DEF SlotsAreHeld

\* It gets one.
LEMMA SlotIsTaken ==
    ASSUME InboundTypes, SlotsAreHeld, NEW c \in Inbound, NEW s \in Holding,
           stage[c] = "new", Admits(c), ToStage(c, s), slots' = [slots EXCEPT ![Ip(c)] = @ + 1], UNCHANGED hello
    PROVE  SlotsAreHeld' /\ slots' \in [Source -> Nat]
<1>1. Ip(c) \in Source /\ PerIP \in Nat
  BY HelloSays, InboundAssumption
<1>2. Holders(Ip(c))' = Holders(Ip(c)) \cup {c} /\ c \notin Holders(Ip(c))
  BY DEF Holders, Ip, ToStage, InboundTypes, Holding
<1>3. \A ip \in Source \ {Ip(c)} : Holders(ip)' = Holders(ip)
  BY DEF Holders, Ip, ToStage, InboundTypes
<1>4. IsFiniteSet(Holders(Ip(c))) /\ slots[Ip(c)] = Cardinality(Holders(Ip(c))) /\ slots[Ip(c)] \in Nat
  BY <1>1 DEF SlotsAreHeld, InboundTypes
<1>5. IsFiniteSet(Holders(Ip(c)) \cup {c}) /\ Cardinality(Holders(Ip(c)) \cup {c}) = slots[Ip(c)] + 1
  BY <1>2, <1>4, FS_AddElement
<1>6. IsFiniteSet(Holders(Ip(c))') /\ Cardinality(Holders(Ip(c))') = slots[Ip(c)] + 1
  BY <1>2, <1>5, Zenon
<1>7. /\ slots' \in [Source -> Nat] /\ slots'[Ip(c)] = slots[Ip(c)] + 1
      /\ \A ip \in Source \ {Ip(c)} : slots'[ip] = slots[ip]
  BY <1>1 DEF InboundTypes
<1>8. slots[Ip(c)] + 1 <= PerIP
  BY <1>1, <1>4 DEF Admits
<1>9. \A ip \in Source : IsFiniteSet(Holders(ip)') /\ slots'[ip] = Cardinality(Holders(ip)') /\ slots'[ip] <= PerIP
  <2>1. SUFFICES ASSUME NEW ip \in Source
                 PROVE  IsFiniteSet(Holders(ip)') /\ slots'[ip] = Cardinality(Holders(ip)') /\ slots'[ip] <= PerIP
    OBVIOUS
  <2>2. CASE ip = Ip(c)
    <3>1. slots'[ip] = slots[Ip(c)] + 1
      BY <1>7, <2>2
    <3>2. slots'[ip] <= PerIP
      BY <1>8, <3>1
    <3>3. Ip(c)' = Ip(c) /\ Holders(ip)' = Holders(Ip(c))'
      BY <2>2 DEF Holders, Ip
    <3>4. QED
      BY <1>6, <3>1, <3>2, <3>3, Zenon
  <2>3. CASE ip # Ip(c)
    BY <1>3, <1>7, <2>3 DEF SlotsAreHeld
  <2>4. QED
    BY <2>2, <2>3
<1>10. QED
  BY <1>7, <1>9 DEF SlotsAreHeld

\* It closes and gives it back.
LEMMA SlotIsReleased ==
    ASSUME InboundTypes, SlotsAreHeld, NEW c \in Inbound,
           stage[c] \in Holding, CloseInbound(c), UNCHANGED hello
    PROVE  SlotsAreHeld' /\ slots' \in [Source -> Nat] /\ ToStage(c, "closed")
<1>1. Ip(c) \in Source /\ PerIP \in Nat
  BY HelloSays, InboundAssumption
<1>2. Holders(Ip(c))' = Holders(Ip(c)) \ {c} /\ c \in Holders(Ip(c))
  BY DEF Holders, Ip, CloseInbound, ToStage, InboundTypes, Holding
<1>3. \A ip \in Source \ {Ip(c)} : Holders(ip)' = Holders(ip)
  BY DEF Holders, Ip, CloseInbound, ToStage, InboundTypes
<1>4. IsFiniteSet(Holders(Ip(c))) /\ slots[Ip(c)] = Cardinality(Holders(Ip(c))) /\ slots[Ip(c)] \in Nat /\ slots[Ip(c)] <= PerIP
  BY <1>1 DEF SlotsAreHeld, InboundTypes
<1>5. IsFiniteSet(Holders(Ip(c)) \ {c}) /\ Cardinality(Holders(Ip(c)) \ {c}) = slots[Ip(c)] - 1
  BY <1>2, <1>4, FS_RemoveElement
<1>6. IsFiniteSet(Holders(Ip(c))') /\ Cardinality(Holders(Ip(c))') = slots[Ip(c)] - 1
  BY <1>2, <1>5, Zenon
<1>7. Cardinality(Holders(Ip(c))') \in Nat
  BY <1>6, FS_CardinalityType
<1>8. slots[Ip(c)] - 1 \in Nat
  BY <1>6, <1>7, Zenon
<1>9. /\ slots' \in [Source -> Nat] /\ slots'[Ip(c)] = slots[Ip(c)] - 1
      /\ \A ip \in Source \ {Ip(c)} : slots'[ip] = slots[ip]
  BY <1>1, <1>8 DEF CloseInbound, Released, InboundTypes
<1>10. \A ip \in Source : IsFiniteSet(Holders(ip)') /\ slots'[ip] = Cardinality(Holders(ip)') /\ slots'[ip] <= PerIP
  <2>1. SUFFICES ASSUME NEW ip \in Source
                 PROVE  IsFiniteSet(Holders(ip)') /\ slots'[ip] = Cardinality(Holders(ip)') /\ slots'[ip] <= PerIP
    OBVIOUS
  <2>2. CASE ip = Ip(c)
    <3>1. slots'[ip] = slots[Ip(c)] - 1
      BY <1>9, <2>2
    <3>2. slots'[ip] <= PerIP
      BY <1>1, <1>4, <1>8, <3>1
    <3>3. Ip(c)' = Ip(c) /\ Holders(ip)' = Holders(Ip(c))'
      BY <2>2 DEF Holders, Ip
    <3>4. QED
      BY <1>6, <3>1, <3>2, <3>3, Zenon
  <2>3. CASE ip # Ip(c)
    BY <1>3, <1>9, <2>3 DEF SlotsAreHeld
  <2>4. QED
    BY <2>2, <2>3
<1>11. QED
  BY <1>9, <1>10 DEF SlotsAreHeld, CloseInbound

\* A connection that is not queued goes on, and the queues stay.
LEMMA QueuesAreKept ==
    ASSUME InboundTypes, QueuedOnce, NEW c \in Inbound, NEW s \in Stages,
           stage[c] # "queued", ToStage(c, s), UNCHANGED <<hello, inbox>>
    PROVE  QueuedOnce' /\ stage' \in [Inbound -> Stages] /\ stage'[c] = s
           /\ \A d \in Inbound : d # c => stage'[d] = stage[d]
<1>1. /\ stage' \in [Inbound -> Stages] /\ stage'[c] = s
      /\ \A d : d # c => stage'[d] = stage[d]
  BY DEF ToStage, InboundTypes
<1>2. QueuedOnce'
  BY <1>1 DEF QueuedOnce, Asks
<1>3. QED
  BY <1>1, <1>2

\* The first of a torrent's queue leaves it.
LEMMA QueueIsServed ==
    ASSUME InboundTypes, QueuedOnce, NEW h \in Served, inbox[h] # <<>>, NEW s \in Stages,
           ToStage(Head(inbox[h]), s), inbox' = [inbox EXCEPT ![h] = Tail(@)], UNCHANGED hello
    PROVE  /\ Head(inbox[h]) \in Inbound /\ stage[Head(inbox[h])] = "queued"
           /\ QueuedOnce' /\ inbox' \in [Served -> Seq(Inbound)] /\ stage' \in [Inbound -> Stages]
           /\ stage'[Head(inbox[h])] = s /\ \A d \in Inbound : d # Head(inbox[h]) => stage'[d] = stage[d]
<1> DEFINE c == Head(inbox[h])
           q == inbox[h]
<1>1. q \in Seq(Inbound) /\ q # <<>>
  BY DEF InboundTypes
<1>2. Tail(q) \in Seq(Inbound) /\ Len(Tail(q)) = Len(q) - 1 /\ \A i \in 1..Len(Tail(q)) : Tail(q)[i] = q[i + 1]
  BY <1>1, HeadTailProperties
<1>3. Len(q) \in Nat \ {0} /\ DOMAIN q = 1..Len(q) /\ c = q[1] /\ c \in Inbound
  BY <1>1, EmptySeq, LenProperties, HeadTailProperties
<1>4. DOMAIN Tail(q) = 1..(Len(q) - 1)
  BY <1>2, LenProperties
<1>5. stage[c] = "queued" /\ Asks(c) = h
  BY <1>3 DEF QueuedOnce
<1>6. \A i \in DOMAIN Tail(q) : i + 1 \in DOMAIN q /\ Tail(q)[i] = q[i + 1] /\ q[i + 1] # c
  <2>1. \A i \in DOMAIN Tail(q) : i + 1 \in DOMAIN q /\ 1 \in DOMAIN q /\ i + 1 # 1 /\ Tail(q)[i] = q[i + 1]
    BY <1>2, <1>3, <1>4
  <2>2. QED
    BY <1>3, <2>1 DEF QueuedOnce
<1>7. \A i, j \in DOMAIN Tail(q) : Tail(q)[i] = Tail(q)[j] => i = j
  <2>1. SUFFICES ASSUME NEW i \in DOMAIN Tail(q), NEW j \in DOMAIN Tail(q), Tail(q)[i] = Tail(q)[j] PROVE i = j
    OBVIOUS
  <2>2. i + 1 = j + 1
    BY <1>6, <2>1 DEF QueuedOnce
  <2>3. QED
    BY <1>3, <1>4, <2>2
<1>8. /\ stage' \in [Inbound -> Stages] /\ stage'[c] = s /\ \A d : d # c => stage'[d] = stage[d]
      /\ inbox' \in [Served -> Seq(Inbound)] /\ inbox'[h] = Tail(q) /\ \A k \in Served \ {h} : inbox'[k] = inbox[k]
  BY <1>2, <1>3 DEF ToStage, InboundTypes
<1> HIDE DEF c, q
<1>9. QueuedOnce'
  <2>1. ASSUME NEW k \in Served
        PROVE  /\ \A i \in DOMAIN inbox'[k] : stage'[inbox'[k][i]] = "queued" /\ hello'[inbox'[k][i]].hash = k
               /\ \A i, j \in DOMAIN inbox'[k] : inbox'[k][i] = inbox'[k][j] => i = j
    <3>1. CASE k = h
      BY <1>6, <1>7, <1>8, <3>1 DEF QueuedOnce, Asks, q
    <3>2. CASE k # h
      <4>1. \A i \in DOMAIN inbox[k] : inbox[k][i] # c
        BY <1>5, <3>2 DEF QueuedOnce
      <4>2. QED
        BY <1>8, <3>2, <4>1 DEF QueuedOnce, Asks
    <3>3. QED
      BY <3>1, <3>2
  <2>2. QED
    BY <2>1 DEF QueuedOnce, Asks
<1>10. QED
  BY <1>3, <1>5, <1>8, <1>9 DEF c, q

\* A connection joins the queue of the torrent it asks for.
LEMMA QueueIsJoined ==
    ASSUME InboundTypes, QueuedOnce, NEW c \in Inbound, stage[c] = "handed", Asks(c) \in Served,
           ToStage(c, "queued"), inbox' = [inbox EXCEPT ![Asks(c)] = Append(@, c)], UNCHANGED hello
    PROVE  /\ QueuedOnce' /\ inbox' \in [Served -> Seq(Inbound)] /\ stage' \in [Inbound -> Stages]
           /\ stage'[c] = "queued" /\ \A d \in Inbound : d # c => stage'[d] = stage[d]
<1> DEFINE h == Asks(c)
           q == inbox[h]
           n == Len(q) + 1
<1>1. q \in Seq(Inbound)
  BY DEF InboundTypes
<1>2. /\ Append(q, c) \in Seq(Inbound) /\ Len(Append(q, c)) = n
      /\ \A i \in 1..Len(q) : Append(q, c)[i] = q[i]
      /\ Append(q, c)[n] = c
  BY <1>1, AppendProperties
<1>3. DOMAIN q = 1..Len(q) /\ DOMAIN Append(q, c) = 1..n /\ Len(q) \in Nat
  BY <1>1, <1>2, LenProperties
<1>4. \A k \in Served : \A i \in DOMAIN inbox[k] : inbox[k][i] # c
  BY DEF QueuedOnce
<1>5. "queued" \in Stages
  BY DEF Stages
<1>6. /\ stage' \in [Inbound -> Stages] /\ stage'[c] = "queued" /\ \A d : d # c => stage'[d] = stage[d]
      /\ inbox' \in [Served -> Seq(Inbound)] /\ inbox'[h] = Append(q, c) /\ \A k \in Served \ {h} : inbox'[k] = inbox[k]
  BY <1>2, <1>5 DEF ToStage, InboundTypes
<1>7. \A i \in DOMAIN Append(q, c) : (i = n /\ Append(q, c)[i] = c) \/ (i \in DOMAIN q /\ Append(q, c)[i] = q[i])
  BY <1>2, <1>3
<1> HIDE DEF h, q, n
<1>8. QueuedOnce'
  <2>1. ASSUME NEW k \in Served
        PROVE  /\ \A i \in DOMAIN inbox'[k] : stage'[inbox'[k][i]] = "queued" /\ hello'[inbox'[k][i]].hash = k
               /\ \A i, j \in DOMAIN inbox'[k] : inbox'[k][i] = inbox'[k][j] => i = j
    <3>1. CASE k = h
      <4>1. \A i \in DOMAIN inbox'[k] : (i = n /\ inbox'[k][i] = c) \/ (i \in DOMAIN inbox[k] /\ inbox'[k][i] = inbox[k][i])
        BY <1>6, <1>7, <3>1 DEF q
      <4>2. \A i \in DOMAIN inbox[k] : inbox[k][i] # c /\ stage[inbox[k][i]] = "queued" /\ hello[inbox[k][i]].hash = k
        BY <1>4 DEF QueuedOnce, Asks
      <4>3. \A i \in DOMAIN inbox'[k] : stage'[inbox'[k][i]] = "queued" /\ hello'[inbox'[k][i]].hash = k
        BY <1>6, <3>1, <4>1, <4>2 DEF Asks, h
      <4>4. \A i, j \in DOMAIN inbox[k] : inbox[k][i] = inbox[k][j] => i = j
        BY DEF QueuedOnce
      <4>5. QED
        BY <4>1, <4>2, <4>3, <4>4
    <3>2. CASE k # h
      BY <1>4, <1>6, <3>2 DEF QueuedOnce, Asks
    <3>3. QED
      BY <3>1, <3>2
  <2>2. QED
    BY <2>1 DEF QueuedOnce, Asks
<1>9. QED
  BY <1>6, <1>8

\* The steps of a connection.
LEMMA ConnectionKeepsInbound ==
    ASSUME InboundIInv, NEW c \in Inbound, HandleIncoming(c) \/ ConnStep(c) \/ InboundEnds(c)
    PROVE  InboundIInv'
<1> USE DEF InboundIInv
<1> USE DEF Stages, Holding
<1>1. UNCHANGED <<policy, hello>> /\ stage[c] # "queued"
  BY DEF HandleIncoming, ConnStep, InboundEnds, ReadsPlain, StartsMSE, EndsMSE, HandshakeFails, Route, AcceptPeer
<1>2. CASE \E s \in Holding \ {"queued"} :
             /\ ToStage(c, s) /\ UNCHANGED inbox
             /\ \/ stage[c] \in Holding /\ UNCHANGED slots
                \/ stage[c] = "new" /\ s = "slot" /\ Admits(c) /\ slots' = [slots EXCEPT ![Ip(c)] = @ + 1]
             /\ s = "mse" => hello[c].mse
             /\ s = "routing" => (policy = "required" => hello[c].mse) /\ (hello[c].mse => hello[c].skey = Asks(c))
             /\ s \in {"handed", "served"} => stage[c] = "routing" /\ Asks(c) \in Served
  <2>1. PICK s \in Holding \ {"queued"} :
             /\ ToStage(c, s) /\ UNCHANGED inbox
             /\ \/ stage[c] \in Holding /\ UNCHANGED slots
                \/ stage[c] = "new" /\ s = "slot" /\ Admits(c) /\ slots' = [slots EXCEPT ![Ip(c)] = @ + 1]
             /\ s = "mse" => hello[c].mse
             /\ s = "routing" => (policy = "required" => hello[c].mse) /\ (hello[c].mse => hello[c].skey = Asks(c))
             /\ s \in {"handed", "served"} => stage[c] = "routing" /\ Asks(c) \in Served
    BY <1>2
  <2>2. QueuedOnce' /\ stage' \in [Inbound -> Stages] /\ stage'[c] = s /\ \A d \in Inbound : d # c => stage'[d] = stage[d]
    BY <1>1, <2>1, QueuesAreKept
  <2>3. SlotsAreHeld' /\ slots' \in [Source -> Nat]
    <3>1. CASE stage[c] \in Holding /\ UNCHANGED slots
      BY <1>1, <2>1, <3>1, SlotIsKept DEF InboundTypes
    <3>2. CASE stage[c] = "new" /\ Admits(c) /\ slots' = [slots EXCEPT ![Ip(c)] = @ + 1]
      BY <1>1, <2>1, <3>2, SlotIsTaken
    <3>3. QED
      BY <2>1, <3>1, <3>2
  <2>4. Settled'
    BY <1>1, <2>1, <2>2 DEF Settled, Asks
  <2>5. InboundTypes'
    BY <1>1, <2>1, <2>2, <2>3 DEF InboundTypes
  <2>6. QED
    BY <2>2, <2>3, <2>4, <2>5
<1>3. CASE ToStage(c, "closed") /\ UNCHANGED inbox /\ (\/ stage[c] \in Holding /\ CloseInbound(c)
                                                       \/ stage[c] = "new" /\ UNCHANGED slots)
  <2>1. QueuedOnce' /\ stage' \in [Inbound -> Stages] /\ stage'[c] = "closed" /\ \A d \in Inbound : d # c => stage'[d] = stage[d]
    BY <1>1, <1>3, QueuesAreKept
  <2>2. SlotsAreHeld' /\ slots' \in [Source -> Nat]
    <3>1. CASE stage[c] \in Holding /\ CloseInbound(c)
      BY <1>1, <3>1, SlotIsReleased
    <3>2. CASE stage[c] = "new" /\ UNCHANGED slots
      <4>1. \A ip \in Source : Holders(ip)' = Holders(ip)
        BY <1>1, <2>1, <3>2 DEF Holders, Ip
      <4>2. QED
        BY <3>2, <4>1 DEF SlotsAreHeld, InboundTypes
    <3>3. QED
      BY <1>3, <3>1, <3>2
  <2>3. Settled'
    BY <1>1, <2>1 DEF Settled, Asks
  <2>4. InboundTypes'
    BY <1>1, <1>3, <2>1, <2>2 DEF InboundTypes
  <2>5. QED
    BY <2>1, <2>2, <2>3, <2>4
<1>4. CASE stage[c] = "handed" /\ inbox' = [inbox EXCEPT ![Asks(c)] = Append(@, c)] /\ ToStage(c, "queued") /\ UNCHANGED slots
  <2>1. Asks(c) \in Served
    BY <1>4 DEF Settled
  <2>2. /\ QueuedOnce' /\ inbox' \in [Served -> Seq(Inbound)] /\ stage' \in [Inbound -> Stages]
        /\ stage'[c] = "queued" /\ \A d \in Inbound : d # c => stage'[d] = stage[d]
    BY <1>1, <1>4, <2>1, QueueIsJoined
  <2>3. SlotsAreHeld'
    BY <1>1, <1>4, SlotIsKept
  <2>4. Settled'
    BY <1>1, <1>4, <2>2 DEF Settled, Asks
  <2>5. InboundTypes'
    BY <1>1, <1>4, <2>2 DEF InboundTypes
  <2>6. QED
    BY <2>2, <2>3, <2>4, <2>5
<1>5. CASE HandleIncoming(c)
  BY <1>2, <1>3, <1>5 DEF HandleIncoming
<1>6. CASE ReadsPlain(c)
  BY <1>2, <1>3, <1>6 DEF ReadsPlain, PlainAllowed, CloseInbound
<1>7. CASE StartsMSE(c)
  BY <1>2, <1>7 DEF StartsMSE
<1>8. CASE EndsMSE(c)
  BY <1>2, <1>3, <1>8 DEF EndsMSE, SkeyAgrees, CloseInbound, Settled
<1>9. CASE HandshakeFails(c) \/ InboundEnds(c)
  BY <1>3, <1>9 DEF HandshakeFails, InboundEnds, CloseInbound
<1>10. CASE Route(c)
  BY <1>2, <1>3, <1>10 DEF Route, CloseInbound
<1>11. CASE AcceptPeer(c)
  BY <1>3, <1>4, <1>11 DEF AcceptPeer, CloseInbound
<1>12. QED
  BY <1>5, <1>6, <1>7, <1>8, <1>9, <1>10, <1>11 DEF ConnStep

\* acceptIncoming.
LEMMA ActorKeepsInbound ==
    ASSUME InboundIInv, NEW h \in Served, AcceptIncoming(h)
    PROVE  InboundIInv'
<1> USE DEF InboundIInv
<1> DEFINE c == Head(inbox[h])
<1>1. /\ inbox[h] # <<>> /\ inbox' = [inbox EXCEPT ![h] = Tail(@)] /\ UNCHANGED <<policy, hello>>
      /\ (ToStage(c, "served") /\ UNCHANGED slots) \/ CloseInbound(c)
  BY DEF AcceptIncoming
<1>2. PICK s \in {"served", "closed"} : ToStage(c, s) /\ ((s = "served" /\ UNCHANGED slots) \/ (s = "closed" /\ CloseInbound(c)))
  BY <1>1 DEF CloseInbound
<1>3. /\ c \in Inbound /\ stage[c] = "queued"
      /\ QueuedOnce' /\ inbox' \in [Served -> Seq(Inbound)] /\ stage' \in [Inbound -> Stages]
      /\ stage'[c] = s /\ \A d \in Inbound : d # c => stage'[d] = stage[d]
  BY <1>1, <1>2, QueueIsServed DEF Stages
<1> HIDE DEF c
<1>4. SlotsAreHeld' /\ slots' \in [Source -> Nat]
  <2>1. stage[c] \in Holding /\ "served" \in Holding
    BY <1>3 DEF Holding, Stages
  <2>2. CASE s = "served" /\ UNCHANGED slots
    BY <1>1, <1>2, <1>3, <2>1, <2>2, SlotIsKept DEF InboundTypes
  <2>3. CASE CloseInbound(c)
    BY <1>1, <1>3, <2>1, <2>3, SlotIsReleased
  <2>4. QED
    BY <1>2, <2>2, <2>3
<1>5. Settled'
  BY <1>1, <1>2, <1>3 DEF Settled, Asks
<1>6. InboundTypes'
  BY <1>1, <1>3, <1>4 DEF InboundTypes
<1>7. QED
  BY <1>3, <1>4, <1>5, <1>6

(***************************************************************************)
(* handleIncoming: a slot of an address is a connection that is not closed *)
(* yet, no address has more than its share, and no torrent meets a         *)
(* connection that the encryption policy forbids.                          *)
(***************************************************************************)
THEOREM SlotsAreReturned == InboundSpec => []InboundInv
<1>1. InboundInit => InboundIInv
  <2> SUFFICES ASSUME InboundInit PROVE InboundIInv
    OBVIOUS
  <2> USE DEF InboundInit
  <2>1. InboundTypes
    <3>1. <<>> \in Seq(Inbound)
      BY EmptySeq
    <3>2. hello \in [Inbound -> Hello]
      OBVIOUS
    <3>3. QED
      BY <3>1, <3>2 DEF InboundTypes, Stages
  <2>2. SlotsAreHeld
    <3>1. \A ip \in Source : Holders(ip) = {}
      BY DEF Holders
    <3>2. IsFiniteSet({}) /\ Cardinality({}) = 0 /\ PerIP \in Nat
      BY FS_EmptySet, InboundAssumption
    <3>3. \A ip \in Source : slots[ip] = 0 /\ 0 <= PerIP
      BY <3>2
    <3>4. QED
      BY <3>1, <3>2, <3>3, Zenon DEF SlotsAreHeld
  <2>3. Settled /\ QueuedOnce
    BY DEF Settled, QueuedOnce
  <2>4. QED
    BY <2>1, <2>2, <2>3 DEF InboundIInv
<1>2. InboundIInv /\ [InboundNext]_inboundVars => InboundIInv'
  <2>1. ASSUME InboundIInv, UNCHANGED <<policy, hello, stage, slots, inbox>> PROVE InboundIInv'
    <3>1. \A ip \in Source : Holders(ip)' = Holders(ip)
      BY <2>1 DEF Holders, Ip
    <3>2. SlotsAreHeld'
      BY <2>1, <3>1 DEF InboundIInv, SlotsAreHeld
    <3>3. QED
      BY <2>1, <3>2 DEF InboundIInv, InboundTypes, Settled, QueuedOnce, Asks
  <2>2. ASSUME InboundIInv, NEW h \in Served, TorrentStep(h) \/ Unmanage(h) \/ StopServing(h) PROVE InboundIInv'
    BY <2>1, <2>2, ActorKeepsInbound DEF TorrentStep, RunEnds, Unmanage, StopServing
  <2>3. QED
    BY <2>1, <2>2, ConnectionKeepsInbound DEF InboundNext, inboundVars
<1>3. InboundIInv => InboundInv
  BY DEF InboundIInv, InboundInv, SlotsAreHeld, SlotsAreConnections, Settled, Encrypted
<1>4. QED
  BY <1>1, <1>2, <1>3, PTL DEF InboundSpec

-----------------------------------------------------------------------------
(* Announcers *)

\* A tier with all its trackers, in some order.
WholeTier(t) ==
    t \in Seq(Trackers) /\ t # <<>> /\ ToSet(t) \in {ToSet(MagnetUrls), ListTier, {ExtraUrl}}
WholeTiers(tiers) == tiers \in Seq(Seq(Trackers)) /\ \A k \in DOMAIN tiers : WholeTier(tiers[k])

\* The type of an announcer.
AnnouncerState ==
    [tiers : Seq(Seq(Trackers)), own : Nat, live : BOOLEAN, built : BOOLEAN,
     at : {"round", "sent", "sleep"}, i : Nat, j : Nat]

\* An announcer is at a tracker of a tier of its own, the extra tier aside.
Sound(a) ==
    /\ a \in AnnouncerState /\ WholeTiers(a.tiers)
    /\ a.own \in 1..Len(a.tiers)
    /\ a.i \in 1..Len(a.tiers) /\ a.j \in 1..Len(a.tiers[a.i])

\* Every announcer is sound.
AnnouncersAreSound ==
    /\ quit \in BOOLEAN /\ known \in BOOLEAN
    /\ DOMAIN announcing = Announcer
    /\ \A l \in Announcer : announcing[l] = Gone \/ Sound(announcing[l])

\* The inductive invariant.
AnnounceIInv == AnnouncersAreSound /\ OneLoopAnnounces

\* A function over 1..n is a sequence of the trackers that are its values.
LEMMA RangeOfASeq ==
    ASSUME NEW T, NEW n \in Nat, NEW s \in [1..n -> T]
    PROVE  s \in Seq(T) /\ Len(s) = n /\ ToSet(s) = {s[k] : k \in 1..n}
<1>1. s \in Seq(T) /\ Len(s) = n /\ DOMAIN s = 1..n
  OBVIOUS
<1>2. ToSet(s) = {s[k] : k \in DOMAIN s}
  BY DEF ToSet
<1>3. QED
  BY <1>1, <1>2, Zenon

\* The tracker that answered changes places with the first.
LEMMA PromotionKeepsTier ==
    ASSUME NEW t, WholeTier(t), NEW j \in 1..Len(t), NEW u, u = [t EXCEPT ![1] = t[j], ![j] = t[1]]
    PROVE  WholeTier(u) /\ Len(u) = Len(t)
<1> DEFINE n == Len(t)
<1>1. t \in Seq(Trackers) /\ t # <<>>
  BY DEF WholeTier
<1>2. n \in Nat /\ t \in [1..n -> Trackers] /\ 1 \in 1..n /\ j \in 1..n
  BY <1>1, EmptySeq, LenProperties
<1> HIDE DEF n
<1>3. u \in [1..n -> Trackers]
  BY <1>2
<1>4. \A k \in 1..n : u[k] = IF k = j THEN t[1] ELSE IF k = 1 THEN t[j] ELSE t[k]
  BY <1>2
<1>5. /\ u \in Seq(Trackers) /\ Len(u) = n
      /\ ToSet(t) = {t[k] : k \in 1..n} /\ ToSet(u) = {u[k] : k \in 1..n}
  <2>1. \A w \in [1..n -> Trackers] : w \in Seq(Trackers) /\ Len(w) = n /\ ToSet(w) = {w[k] : k \in 1..n}
    BY <1>2, RangeOfASeq
  <2>2. QED
    BY <1>2, <1>3, <2>1, Zenon
<1>6. \A k \in 1..n : \E m \in 1..n : u[k] = t[m]
  BY <1>2, <1>4
<1>7. \A k \in 1..n : \E m \in 1..n : t[k] = u[m]
  <2>1. SUFFICES ASSUME NEW k \in 1..n PROVE \E m \in 1..n : t[k] = u[m]
    OBVIOUS
  <2>2. t[1] = u[j]
    BY <1>2, <1>4
  <2>3. j # 1 => t[j] = u[1]
    BY <1>2, <1>4
  <2>4. k # 1 /\ k # j => t[k] = u[k]
    BY <1>4
  <2>5. QED
    BY <1>2, <2>2, <2>3, <2>4
<1>8. {u[k] : k \in 1..n} = {t[k] : k \in 1..n}
  <2> DEFINE U == {u[k] : k \in 1..n}
             W == {t[k] : k \in 1..n}
  <2>1. \A x \in U : x \in W
    BY <1>6
  <2>2. \A x \in W : x \in U
    BY <1>7
  <2> HIDE DEF U, W
  <2>3. U = W
    BY <2>1, <2>2
  <2>4. QED
    BY <2>3 DEF U, W
<1>9. u # <<>>
  BY <1>2, <1>5, EmptySeq
<1>10. ToSet(u) = ToSet(t)
  BY <1>5, <1>8, Zenon
<1>11. QED
  BY <1>5, <1>9, <1>10 DEF WholeTier, n

\* The tier of the magnet link, and that of AddTracker.
LEMMA MagnetIsWhole == WholeTier(MagnetUrls) /\ WholeTier(<<ExtraUrl>>)
<1>1. ToSet(MagnetUrls) \subseteq Trackers /\ ExtraUrl \in Trackers
  BY DEF Trackers
<1>2. MagnetUrls \in Seq(Trackers) /\ MagnetUrls # <<>>
  BY <1>1, AnnounceAssumption, SeqMonotonic
<1>3. <<ExtraUrl>> \in Seq(Trackers) /\ <<ExtraUrl>> # <<>> /\ ToSet(<<ExtraUrl>>) = {ExtraUrl}
  BY <1>1 DEF ToSet
<1>4. QED
  BY <1>2, <1>3 DEF WholeTier

\* A list of a finite set without repetition has all of it.
LEMMA ShuffledIsWhole ==
    ASSUME NEW s \in SetToSeqs(ListTier)
    PROVE  WholeTier(s)
<1> DEFINE n == Cardinality(ListTier)
<1>1. IsFiniteSet(ListTier) /\ n \in Nat /\ ListTier # {}
  BY AnnounceAssumption, FS_CardinalityType
<1>2. n # 0
  BY <1>1, FS_EmptySet
<1>3. s \in [1..n -> ListTier] /\ \A i, j \in 1..n : i # j => s[i] # s[j]
  BY DEF SetToSeqs
<1> HIDE DEF n
<1>4. s \in Injection(1..n, ListTier)
  BY <1>3 DEF Injection, IsInjective
<1>5. IsFiniteSet(1..n) /\ Cardinality(1..n) = n
  BY <1>1, FS_Interval
<1>6. s \in Surjection(1..n, ListTier)
  BY <1>1, <1>4, <1>5, FS_Injection DEF n
<1>7. ListTier \subseteq Trackers
  BY DEF Trackers
<1>8. s \in Seq(Trackers) /\ Len(s) = n /\ DOMAIN s = 1..n
  BY <1>1, <1>3, <1>7
<1>9. ToSet(s) = ListTier
  BY <1>3, <1>6, <1>8 DEF Surjection, ToSet
<1>10. s # <<>>
  BY <1>2, <1>8, EmptySeq
<1>11. QED
  BY <1>8, <1>9, <1>10 DEF WholeTier

\* buildTiers.
LEMMA TiersAreBuiltWhole ==
    ASSUME NEW tiers \in BuiltTiers
    PROVE  WholeTiers(tiers) /\ tiers # <<>>
<1>1. CASE tiers = <<MagnetUrls>>
  BY <1>1, MagnetIsWhole DEF WholeTiers, WholeTier
<1>2. CASE \E s \in SetToSeqs(ListTier) : tiers = <<s, MagnetUrls>>
  <2>1. PICK s \in SetToSeqs(ListTier) : tiers = <<s, MagnetUrls>>
    BY <1>2
  <2>2. WholeTier(s) /\ WholeTier(MagnetUrls)
    BY ShuffledIsWhole, MagnetIsWhole
  <2>3. tiers \in Seq(Seq(Trackers)) /\ DOMAIN tiers = {1, 2} /\ tiers # <<>> /\ tiers[1] = s /\ tiers[2] = MagnetUrls
    BY <2>1, <2>2 DEF WholeTier
  <2>4. QED
    BY <2>2, <2>3 DEF WholeTiers
<1>3. QED
  BY <1>1, <1>2 DEF BuiltTiers

\* A round of an announcer begins soundly.
LEMMA RoundIsSound ==
    ASSUME NEW tiers, WholeTiers(tiers), tiers # <<>>, NEW live \in BOOLEAN, NEW built \in BOOLEAN
    PROVE  Sound(Round(tiers, live, built)) /\ Round(tiers, live, built).live = live
<1> DEFINE more == ExtraTrackerTier
           all == tiers \o more
<1>1. more \in Seq(Seq(Trackers)) /\ (more = <<>> \/ more = << <<ExtraUrl>> >>) /\ (Len(more) = 0 \/ Len(more) = 1)
  BY MagnetIsWhole, EmptySeq DEF ExtraTrackerTier, WholeTier
<1>2. /\ tiers \in Seq(Seq(Trackers)) /\ Len(tiers) \in Nat \ {0} /\ DOMAIN tiers = 1..Len(tiers)
      /\ \A k \in 1..Len(tiers) : WholeTier(tiers[k])
  <2>1. tiers \in Seq(Seq(Trackers)) /\ \A k \in DOMAIN tiers : WholeTier(tiers[k])
    BY DEF WholeTiers
  <2>2. QED
    BY <2>1, EmptySeq, LenProperties
<1>3. /\ all \in Seq(Seq(Trackers)) /\ Len(all) = Len(tiers) + Len(more)
      /\ \A k \in 1..Len(tiers) + Len(more) : all[k] = IF k <= Len(tiers) THEN tiers[k] ELSE more[k - Len(tiers)]
  BY <1>1, <1>2, ConcatProperties
<1>4. DOMAIN all = 1..Len(tiers) + Len(more)
  <2> HIDE DEF all
  <2> QED BY <1>3, LenProperties
<1>5. \A k \in DOMAIN all : WholeTier(all[k])
  <2>1. SUFFICES ASSUME NEW k \in 1..Len(tiers) + Len(more) PROVE WholeTier(all[k])
    BY <1>4
  <2>2. CASE k <= Len(tiers)
    <3>1. k \in 1..Len(tiers) /\ all[k] = tiers[k]
      BY <1>1, <1>2, <1>3, <2>2
    <3>2. QED
      BY <1>2, <3>1, Zenon
  <2>3. CASE ~(k <= Len(tiers))
    <3>1. Len(more) = 1 /\ k - Len(tiers) = 1 /\ more = << <<ExtraUrl>> >>
      <4> HIDE DEF all, more
      <4>1. Len(tiers) \in Nat /\ k \in 1..Len(tiers) + Len(more)
        BY <1>2, <2>1
      <4>2. Len(more) = 1
        BY <1>1, <2>3, <4>1
      <4>3. k - Len(tiers) = 1
        BY <2>3, <4>1, <4>2
      <4>4. more # <<>>
        BY <4>2, EmptySeq
      <4>5. QED
        BY <1>1, <4>2, <4>3, <4>4
    <3>2. all[k] = <<ExtraUrl>>
      BY <1>3, <2>3, <3>1
    <3>3. QED
      BY <3>2, MagnetIsWhole
  <2>4. QED
    BY <2>2, <2>3
<1>6. Len(all) \in Nat /\ Len(tiers) \in 1..Len(all) /\ 1 \in 1..Len(all)
  BY <1>1, <1>2, <1>3
<1>7. 1 \in 1..Len(all[1])
  <2>1. WholeTier(all[1])
    BY <1>3, <1>4, <1>5, <1>6
  <2>2. QED
    BY <2>1, EmptySeq DEF WholeTier
<1> HIDE DEF all
<1>8. Round(tiers, live, built) = [tiers |-> all, own |-> Len(tiers), live |-> live, built |-> built,
                                   at |-> "round", i |-> 1, j |-> 1]
  BY DEF Round, all
<1>9. Round(tiers, live, built) \in AnnouncerState
  BY <1>2, <1>3, <1>8 DEF AnnouncerState
<1>10. QED
  BY <1>3, <1>5, <1>6, <1>7, <1>8, <1>9 DEF Sound, WholeTiers

\* announceTier goes on within its tiers, and a promotion leaves them whole.
LEMMA GoesOnSoundly ==
    ASSUME NEW a, Sound(a)
    PROVE  /\ Sound([a EXCEPT !.at = "sent"]) /\ Sound([a EXCEPT !.live = FALSE])
           /\ a.j < Len(a.tiers[a.i]) => Sound([a EXCEPT !.j = @ + 1, !.at = "round"])
           /\ Sound(After(a)) /\ Sound(Promoted(a))
<1>1. /\ a \in AnnouncerState /\ a.tiers \in Seq(Seq(Trackers)) /\ a.i \in Nat /\ a.j \in Nat
      /\ Len(a.tiers) \in Nat /\ DOMAIN a.tiers = 1..Len(a.tiers)
      /\ WholeTier(a.tiers[a.i]) /\ Len(a.tiers[a.i]) \in Nat /\ DOMAIN a.tiers[a.i] = 1..Len(a.tiers[a.i])
  <2>1. a.tiers \in Seq(Seq(Trackers)) /\ a \in AnnouncerState
    BY DEF Sound, WholeTiers
  <2>2. Len(a.tiers) \in Nat /\ DOMAIN a.tiers = 1..Len(a.tiers)
    BY <2>1, LenProperties
  <2>3. WholeTier(a.tiers[a.i])
    BY <2>2 DEF Sound, WholeTiers
  <2>4. QED
    BY <2>1, <2>2, <2>3, LenProperties DEF AnnouncerState, WholeTier
<1>2. Sound([a EXCEPT !.at = "sent"])
  <2> DEFINE b == [a EXCEPT !.at = "sent"]
  <2>1. b \in AnnouncerState /\ b.tiers = a.tiers /\ b.own = a.own /\ b.i = a.i /\ b.j = a.j
    BY <1>1 DEF AnnouncerState
  <2> HIDE DEF b
  <2>2. Sound(b)
    BY <2>1, Zenon DEF Sound
  <2>3. QED
    BY <2>2 DEF b
<1>3. Sound([a EXCEPT !.live = FALSE])
  <2> DEFINE b == [a EXCEPT !.live = FALSE]
  <2>1. FALSE \in BOOLEAN
    BY Zenon
  <2>2. b \in AnnouncerState /\ b.tiers = a.tiers /\ b.own = a.own /\ b.i = a.i /\ b.j = a.j
    BY <1>1, <2>1 DEF AnnouncerState
  <2> HIDE DEF b
  <2>3. Sound(b)
    BY <2>2, Zenon DEF Sound
  <2>4. QED
    BY <2>3 DEF b
<1>4. ASSUME a.j < Len(a.tiers[a.i]) PROVE Sound([a EXCEPT !.j = @ + 1, !.at = "round"])
  <2> DEFINE n == a.j + 1
             b == [a EXCEPT !.j = n, !.at = "round"]
  <2>1. n \in Nat /\ n \in 1..Len(a.tiers[a.i])
    BY <1>1, <1>4
  <2> HIDE DEF n
  <2>2. b \in AnnouncerState /\ b.tiers = a.tiers /\ b.own = a.own /\ b.i = a.i /\ b.j = n
    BY <1>1, <2>1 DEF AnnouncerState
  <2> HIDE DEF b
  <2>3. Sound(b)
    BY <2>1, <2>2, Zenon DEF Sound
  <2>4. QED
    BY <2>3 DEF b, n
<1>5. Sound(After(a))
  <2>1. CASE a.i < Len(a.tiers)
    <3>1. a.i + 1 \in 1..Len(a.tiers)
      BY <1>1, <2>1
    <3>2. WholeTier(a.tiers[a.i + 1])
      BY <1>1, <3>1 DEF Sound, WholeTiers
    <3>3. 1 \in 1..Len(a.tiers[a.i + 1])
      BY <3>2, EmptySeq DEF WholeTier
    <3> DEFINE n == a.i + 1
               m == 1
    <3>4. n \in Nat /\ m \in Nat /\ After(a) = [a EXCEPT !.i = n, !.j = m, !.at = "round"]
      BY <1>1, <2>1 DEF After
    <3>5. n \in 1..Len(a.tiers) /\ m \in 1..Len(a.tiers[n])
      BY <3>1, <3>3
    <3> HIDE DEF n, m
    <3>6. /\ After(a) \in AnnouncerState /\ After(a).tiers = a.tiers /\ After(a).own = a.own
          /\ After(a).i = n /\ After(a).j = m
      BY <1>1, <3>4 DEF AnnouncerState
    <3>7. QED
      BY <3>5, <3>6, Zenon DEF Sound
  <2>2. CASE ~(a.i < Len(a.tiers))
    <3>1. After(a) = [a EXCEPT !.at = "sleep"]
      BY <2>2 DEF After
    <3>2. /\ After(a) \in AnnouncerState /\ After(a).tiers = a.tiers /\ After(a).own = a.own
          /\ After(a).i = a.i /\ After(a).j = a.j
      BY <1>1, <3>1 DEF AnnouncerState
    <3>3. QED
      BY <3>2, Zenon DEF Sound
  <2>3. QED
    BY <2>1, <2>2
<1>6. Sound(Promoted(a))
  <2> DEFINE t == a.tiers[a.i]
             u == [t EXCEPT ![1] = t[a.j], ![a.j] = t[1]]
             ts == [a.tiers EXCEPT ![a.i] = u]
  <2>1. WholeTier(u) /\ Len(u) = Len(t)
    BY <1>1, PromotionKeepsTier DEF Sound
  <2>2. u \in Seq(Trackers)
    BY <2>1 DEF WholeTier
  <2>3. a.i \in 1..Len(a.tiers) /\ a.j \in 1..Len(t)
    BY DEF Sound
  <2>4. ts \in Seq(Seq(Trackers)) /\ Len(ts) = Len(a.tiers) /\ \A k \in 1..Len(a.tiers) : ts[k] = IF k = a.i THEN u ELSE a.tiers[k]
    BY <1>1, <2>2, <2>3, ExceptSeq
  <2>5. Promoted(a) = [a EXCEPT !.tiers = ts]
    BY <1>1, <2>3 DEF Promoted, AnnouncerState
  <2> HIDE DEF t, u, ts
  <2>6. DOMAIN ts = 1..Len(a.tiers)
    BY <2>4, LenProperties
  <2>7. WholeTiers(ts)
    <3>1. \A k \in 1..Len(a.tiers) : WholeTier(a.tiers[k])
      BY <1>1 DEF Sound, WholeTiers
    <3>2. \A k \in 1..Len(a.tiers) : WholeTier(ts[k])
      BY <2>1, <2>4, <3>1
    <3>3. QED
      BY <2>4, <2>6, <3>2 DEF WholeTiers
  <2>8. /\ Promoted(a) \in AnnouncerState /\ Promoted(a).tiers = ts /\ Promoted(a).own = a.own
        /\ Promoted(a).i = a.i /\ Promoted(a).j = a.j
    BY <1>1, <2>4, <2>5 DEF AnnouncerState
  <2>9. Len(ts[a.i]) = Len(t)
    BY <2>1, <2>3, <2>4
  <2>10. QED
    BY <2>3, <2>4, <2>7, <2>8, <2>9 DEF Sound
<1>7. QED
  BY <1>2, <1>3, <1>4, <1>5, <1>6

\* Nothing an announcer does on its way makes a loop live that was not.
LEMMA GoesOnAsItWas ==
    ASSUME NEW a \in AnnouncerState
    PROVE  /\ [a EXCEPT !.at = "sent"].live = a.live /\ [a EXCEPT !.live = FALSE].live = FALSE
           /\ [a EXCEPT !.j = @ + 1, !.at = "round"].live = a.live
           /\ After(a).live = a.live /\ Promoted(a).live = a.live
<1>1. /\ [a EXCEPT !.at = "sent"].live = a.live /\ [a EXCEPT !.live = FALSE].live = FALSE
  BY DEF AnnouncerState
<1>2. [a EXCEPT !.j = @ + 1, !.at = "round"].live = a.live
  BY DEF AnnouncerState
<1>3. After(a).live = a.live
  BY DEF AnnouncerState, After
<1>4. Promoted(a).live = a.live
  BY DEF AnnouncerState, Promoted
<1>5. QED
  BY <1>1, <1>2, <1>3, <1>4

\* stopAnnounceLoop leaves no loop that announces.
LEMMA CancelledIsSound ==
    ASSUME AnnouncersAreSound
    PROVE  /\ DOMAIN Cancelled = Announcer
           /\ \A l \in Announcer : Cancelled[l] = Gone \/ Sound(Cancelled[l])
           /\ \A l \in LoopId : Cancelled[l] = Gone \/ ~Cancelled[l].live
           /\ Cancelled[Goodbye] = announcing[Goodbye]
<1>1. DOMAIN Cancelled = Announcer
  BY DEF Cancelled
<1>2. ASSUME NEW l \in Announcer
      PROVE  Cancelled[l] = Gone \/ Sound(Cancelled[l])
  <2>1. CASE l \in LoopId /\ LiveLoop(l)
    <3>1. Sound(announcing[l])
      BY <2>1 DEF AnnouncersAreSound, LiveLoop
    <3>2. Cancelled[l] = [announcing[l] EXCEPT !.live = FALSE]
      BY <2>1 DEF Cancelled
    <3>3. QED
      BY <3>1, <3>2, GoesOnSoundly
  <2>2. CASE ~(l \in LoopId /\ LiveLoop(l))
    BY <2>2 DEF Cancelled, AnnouncersAreSound
  <2>3. QED
    BY <2>1, <2>2
<1>3. ASSUME NEW l \in LoopId
      PROVE  Cancelled[l] = Gone \/ ~Cancelled[l].live
  <2>1. CASE LiveLoop(l)
    <3>1. Sound(announcing[l])
      BY <2>1 DEF AnnouncersAreSound, LiveLoop, Announcer
    <3>2. Cancelled[l] = [announcing[l] EXCEPT !.live = FALSE]
      BY <2>1 DEF Cancelled, Announcer
    <3>3. QED
      BY <3>1, <3>2, GoesOnAsItWas DEF Sound
  <2>2. CASE ~LiveLoop(l)
    BY <2>2 DEF Cancelled, LiveLoop, Announcer
  <2>3. QED
    BY <2>1, <2>2
<1>4. Cancelled[Goodbye] = announcing[Goodbye]
  BY AnnounceAssumption DEF Cancelled, Announcer
<1>5. QED
  BY <1>1, <1>2, <1>3, <1>4

\* One announcer goes on, and no loop that was cancelled comes to life.
LEMMA OneGoesOn ==
    ASSUME AnnounceIInv, NEW l \in Announcer, NEW a,
           a = Gone \/ (Sound(a) /\ (l \in LoopId /\ a.live => LiveLoop(l))),
           announcing' = [announcing EXCEPT ![l] = a],
           mode' = mode, quit' = quit, known' = known
    PROVE  AnnounceIInv'
<1>1. AnnouncersAreSound /\ OneLoopAnnounces
  BY DEF AnnounceIInv
<1>2. AnnouncersAreSound'
  <2>1. quit' \in BOOLEAN /\ known' \in BOOLEAN /\ DOMAIN announcing' = Announcer
    BY <1>1 DEF AnnouncersAreSound
  <2>2. ASSUME NEW k \in Announcer
        PROVE  announcing'[k] = Gone \/ Sound(announcing'[k])
    BY <1>1, Zenon DEF AnnouncersAreSound
  <2>3. QED
    BY <2>1, <2>2 DEF AnnouncersAreSound
<1>3. ASSUME NEW k \in LoopId, LiveLoop(k)'
      PROVE  LiveLoop(k)
  <2>1. k \in Announcer /\ announcing'[k] = IF k = l THEN a ELSE announcing[k]
    BY <1>1 DEF Announcer, AnnouncersAreSound
  <2>2. QED
    BY <1>3, <2>1 DEF LiveLoop
<1>4. OneLoopAnnounces'
  BY <1>1, <1>3, Zenon DEF OneLoopAnnounces
<1>5. QED
  BY <1>2, <1>4 DEF AnnounceIInv

\* A loop starts anew: the others are cancelled.
LEMMA OneLoopStarts ==
    ASSUME AnnounceIInv, RestartAnnounceLoop,
           mode' = "active", quit' = quit, known' = known
    PROVE  AnnounceIInv'
<1>1. AnnouncersAreSound
  BY DEF AnnounceIInv
<1>2. PICK l \in LoopId, tiers \in BuiltTiers :
         announcing[l] = Gone /\ announcing' = [Cancelled EXCEPT ![l] = Round(tiers, ~quit, known)]
  BY DEF RestartAnnounceLoop
<1> DEFINE a == Round(tiers, ~quit, known)
<1>3. TRUE \in BOOLEAN /\ FALSE \in BOOLEAN
  BY Zenon
<1>4. Sound(a) /\ a.live = ~quit
  <2>1. known \in BOOLEAN /\ WholeTiers(tiers) /\ tiers # <<>>
    BY <1>1, TiersAreBuiltWhole DEF AnnouncersAreSound
  <2>2. CASE quit
    <3>1. a = Round(tiers, FALSE, known)
      BY <2>2 DEF Round
    <3>2. QED
      BY <1>3, <2>1, <2>2, <3>1, RoundIsSound
  <2>3. CASE ~quit
    <3>1. a = Round(tiers, TRUE, known)
      BY <2>3 DEF Round
    <3>2. QED
      BY <1>3, <2>1, <2>3, <3>1, RoundIsSound
  <2>4. QED
    BY <2>2, <2>3
<1> HIDE DEF a
<1>5. announcing' = [Cancelled EXCEPT ![l] = a]
  BY <1>2 DEF a
<1>6. l \in Announcer
  BY DEF Announcer
<1>7. \A k \in Announcer : announcing'[k] = IF k = l THEN a ELSE Cancelled[k]
  BY <1>1, <1>5, <1>6, CancelledIsSound
<1>8. AnnouncersAreSound'
  <2>1. DOMAIN announcing' = Announcer
    BY <1>1, <1>5, CancelledIsSound
  <2>2. \A k \in Announcer : announcing'[k] = Gone \/ Sound(announcing'[k])
    BY <1>1, <1>4, <1>7, CancelledIsSound
  <2>3. QED
    BY <1>1, <2>1, <2>2 DEF AnnouncersAreSound
<1>9. \A k \in LoopId : LiveLoop(k)' => k = l /\ ~quit
  <2>1. SUFFICES ASSUME NEW k \in LoopId, LiveLoop(k)'
                 PROVE  k = l /\ ~quit
    OBVIOUS
  <2>2. k \in Announcer /\ announcing'[k] # Gone /\ announcing'[k].live
    BY <2>1 DEF LiveLoop, Announcer
  <2>3. k = l
    BY <1>1, <1>7, <2>2, CancelledIsSound
  <2>4. QED
    BY <1>4, <1>7, <2>2, <2>3
<1>10. OneLoopAnnounces'
  BY <1>9, Zenon DEF OneLoopAnnounces
<1>11. QED
  BY <1>8, <1>10 DEF AnnounceIInv

\* The actor says goodbye: no loop announces, whether the loops were cancelled now or
\* before.
LEMMA GoodbyeIsSaid ==
    ASSUME AnnounceIInv, NEW b, b = Cancelled \/ (b = announcing /\ quit), SaysGoodbye(b),
           mode' # "active", quit' = quit, known' = known
    PROVE  AnnounceIInv'
<1>1. AnnouncersAreSound /\ OneLoopAnnounces
  BY DEF AnnounceIInv
<1>2. /\ DOMAIN b = Announcer
      /\ \A l \in Announcer : b[l] = Gone \/ Sound(b[l])
      /\ \A l \in LoopId : b[l] = Gone \/ ~b[l].live
  <2>1. CASE b = Cancelled
    BY <1>1, <2>1, CancelledIsSound
  <2>2. CASE b = announcing /\ quit
    BY <1>1, <2>2 DEF AnnouncersAreSound, OneLoopAnnounces, LiveLoop
  <2>3. QED
    BY <2>1, <2>2
<1>3. PICK tiers \in BuiltTiers : announcing' = [b EXCEPT ![Goodbye] = Round(tiers, TRUE, known)]
  BY DEF SaysGoodbye
<1> DEFINE a == Round(tiers, TRUE, known)
<1>4. TRUE \in BOOLEAN /\ known \in BOOLEAN
  <2>1. TRUE \in BOOLEAN
    BY Zenon
  <2>2. QED
    BY <1>1, <2>1 DEF AnnouncersAreSound
<1>5. Sound(a)
  BY <1>4, TiersAreBuiltWhole, RoundIsSound
<1> HIDE DEF a
<1>6. \A k \in Announcer : announcing'[k] = IF k = Goodbye THEN a ELSE b[k]
  BY <1>2, <1>3 DEF a
<1>7. AnnouncersAreSound'
  <2>1. DOMAIN announcing' = Announcer
    BY <1>2, <1>3
  <2>2. \A k \in Announcer : announcing'[k] = Gone \/ Sound(announcing'[k])
    BY <1>2, <1>5, <1>6
  <2>3. QED
    BY <1>1, <2>1, <2>2 DEF AnnouncersAreSound
<1>8. \A k \in LoopId : ~LiveLoop(k)'
  <2>1. SUFFICES ASSUME NEW k \in LoopId PROVE announcing'[k] = Gone \/ ~announcing'[k].live
    BY DEF LiveLoop
  <2>2. k \in Announcer /\ k # Goodbye
    BY AnnounceAssumption DEF Announcer
  <2>3. QED
    BY <1>2, <1>6, <2>2
<1>9. OneLoopAnnounces'
  BY <1>8, Zenon DEF OneLoopAnnounces
<1>10. QED
  BY <1>7, <1>9 DEF AnnounceIInv

\* A loop that wakes goes round its own tiers, or round those of the announce-list.
LEMMA WakesSoundly ==
    ASSUME AnnounceIInv, NEW l \in Announcer, Wakes(l)
    PROVE  AnnounceIInv'
<1>1. AnnouncersAreSound /\ l \in LoopId /\ LiveLoop(l)
  BY DEF AnnounceIInv, Wakes
<1> DEFINE a == announcing[l]
<1>2. Sound(a)
  BY <1>1 DEF AnnouncersAreSound, LiveLoop
<1>3. PICK tiers \in IF known /\ ~a.built THEN BuiltTiers ELSE {SubSeq(a.tiers, 1, a.own)} :
         announcing' = [announcing EXCEPT ![l] = Round(tiers, TRUE, known)]
  BY Zenon DEF Wakes, LoopBecomes
<1>4. WholeTiers(tiers) /\ tiers # <<>>
  <2>1. CASE tiers \in BuiltTiers
    BY <2>1, TiersAreBuiltWhole
  <2>2. CASE tiers = SubSeq(a.tiers, 1, a.own)
    <3>1. a.tiers \in Seq(Seq(Trackers)) /\ a.own \in 1..Len(a.tiers) /\ \A k \in DOMAIN a.tiers : WholeTier(a.tiers[k])
      BY <1>2 DEF Sound, WholeTiers
    <3> DEFINE ts == a.tiers
               n == a.own
    <3>2. ts \in Seq(Seq(Trackers)) /\ n \in 1..Len(ts) /\ Len(ts) \in Nat /\ \A k \in 1..Len(ts) : ts[k] \in Seq(Trackers) /\ WholeTier(ts[k])
      BY <3>1, LenProperties, ElementOfSeq
    <3>3. tiers = SubSeq(ts, 1, n)
      BY <2>2
    <3> HIDE DEF ts, n
    <3>4. n \in Nat /\ n >= 1 /\ \A k \in 1..n : ts[k] \in Seq(Trackers) /\ WholeTier(ts[k])
      BY <3>2
    <3>5. tiers \in Seq(Seq(Trackers)) /\ Len(tiers) = n /\ \A k \in 1..n : tiers[k] = ts[k]
      BY <3>3, <3>4, SubSeqProperties
    <3>6. DOMAIN tiers = 1..n /\ tiers # <<>>
      BY <3>4, <3>5, LenProperties, EmptySeq
    <3>7. QED
      BY <3>4, <3>5, <3>6 DEF WholeTiers
  <2>3. QED
    BY <2>1, <2>2
<1> DEFINE b == Round(tiers, TRUE, known)
<1>5. TRUE \in BOOLEAN /\ known \in BOOLEAN
  <2>1. TRUE \in BOOLEAN
    BY Zenon
  <2>2. QED
    BY <1>1, <2>1 DEF AnnouncersAreSound
<1>6. Sound(b)
  BY <1>4, <1>5, RoundIsSound
<1>7. mode' = mode /\ quit' = quit /\ known' = known /\ announcing' = [announcing EXCEPT ![l] = b]
  BY <1>3 DEF Wakes, Actor
<1> HIDE DEF a, b
<1>8. QED
  BY <1>1, <1>6, <1>7, OneGoesOn

\* The steps of an announcer.
LEMMA AnnouncersGoOnSoundly ==
    ASSUME AnnounceIInv, NEW l \in Announcer, AnnouncerNext(l) \/ (l = Goodbye /\ AnnounceTimesOut)
    PROVE  AnnounceIInv'
<1> DEFINE a == announcing[l]
<1>1. AnnouncersAreSound
  BY DEF AnnounceIInv
<1>2. a # Gone => Sound(a) /\ a \in AnnouncerState
  BY <1>1 DEF AnnouncersAreSound, Sound
<1>3. LiveLoop(l) <=> a # Gone /\ a.live
  BY DEF LiveLoop
<1>4. CASE Sends(l)
  <2> DEFINE b == [a EXCEPT !.at = "sent"]
  <2>1. LiveLoop(l) /\ announcing' = [announcing EXCEPT ![l] = b] /\ mode' = mode /\ quit' = quit /\ known' = known
    BY <1>4 DEF Sends, LoopBecomes, Actor
  <2>2. Sound(b)
    BY <1>2, <1>3, <2>1, GoesOnSoundly
  <2> HIDE DEF a, b
  <2>3. QED
    BY <2>1, <2>2, OneGoesOn
<1>5. CASE Answered(l)
  <2> DEFINE b == After(Promoted(a))
             c == Ended(l, b)
  <2>1. a # Gone /\ announcing' = [announcing EXCEPT ![l] = c] /\ mode' = mode /\ quit' = quit /\ known' = known
    BY <1>5 DEF Answered, LoopBecomes, Actor
  <2>2. Sound(Promoted(a)) /\ Promoted(a).live = a.live
    BY <1>2, <2>1, GoesOnSoundly, GoesOnAsItWas
  <2>3. Promoted(a) \in AnnouncerState
    BY <2>2 DEF Sound
  <2>4. Sound(b) /\ b.live = a.live
    BY <2>2, <2>3, GoesOnSoundly, GoesOnAsItWas
  <2> HIDE DEF b
  <2>5. c = Gone \/ c = b
    BY DEF Ended
  <2> HIDE DEF a, c
  <2>6. QED
    BY <1>3, <2>1, <2>4, <2>5, OneGoesOn
<1>6. CASE Fails(l)
  <2> DEFINE b == IF a.j < Len(a.tiers[a.i]) THEN [a EXCEPT !.j = @ + 1, !.at = "round"] ELSE After(a)
             c == Ended(l, b)
  <2>1. a # Gone /\ announcing' = [announcing EXCEPT ![l] = c] /\ mode' = mode /\ quit' = quit /\ known' = known
    BY <1>6 DEF Fails, LoopBecomes, Actor
  <2>2. Sound(b) /\ b.live = a.live
    BY <1>2, <2>1, GoesOnSoundly, GoesOnAsItWas
  <2> HIDE DEF b
  <2>3. c = Gone \/ c = b
    BY DEF Ended
  <2> HIDE DEF a, c
  <2>4. QED
    BY <1>3, <2>1, <2>2, <2>3, OneGoesOn
<1>7. CASE Wakes(l)
  BY <1>7, WakesSoundly
<1>8. CASE Notices(l) \/ (l = Goodbye /\ AnnounceTimesOut)
  <2>1. announcing' = [announcing EXCEPT ![l] = Gone] /\ mode' = mode /\ quit' = quit /\ known' = known
    BY <1>8 DEF Notices, AnnounceTimesOut, LoopBecomes, Actor
  <2>2. QED
    BY <2>1, OneGoesOn
<1>9. QED
  BY <1>4, <1>5, <1>6, <1>7, <1>8 DEF AnnouncerNext

\* The actor's orders.
LEMMA OrdersKeepLoops ==
    ASSUME AnnounceIInv, AnnounceActorNext
    PROVE  AnnounceIInv'
<1>1. AnnouncersAreSound /\ OneLoopAnnounces
  BY DEF AnnounceIInv
<1>2. CASE \/ mode' = "active" /\ RestartAnnounceLoop /\ quit' = quit /\ known' = known
  BY <1>2, OneLoopStarts
<1>3. CASE announcing' = announcing /\ quit' = quit /\ known' \in BOOLEAN /\ (mode' = mode \/ (mode # "active"))
      /\ (mode' = "active" => mode = "active")
  <2>1. AnnouncersAreSound'
    BY <1>1, <1>3 DEF AnnouncersAreSound
  <2>2. \A l \in LoopId : LiveLoop(l)' = LiveLoop(l)
    BY <1>3 DEF LiveLoop
  <2>3. OneLoopAnnounces'
    BY <1>1, <1>3, <2>2, Zenon DEF OneLoopAnnounces
  <2>4. QED
    BY <2>1, <2>3 DEF AnnounceIInv
<1>4. CASE PauseTorrent
  BY <1>4, GoodbyeIsSaid DEF PauseTorrent
<1>5. CASE SaysGoodbyeAtEnd
  BY <1>5, GoodbyeIsSaid DEF SaysGoodbyeAtEnd
<1>6. CASE StopTorrent
  <2>1. quit' \in BOOLEAN
    <3>1. TRUE \in BOOLEAN
      BY Zenon
    <3>2. QED
      BY <1>6, <3>1 DEF StopTorrent
  <2>2. announcing' = Cancelled /\ known' = known
    BY <1>6 DEF StopTorrent
  <2>3. DOMAIN announcing' = Announcer /\ \A l \in Announcer : announcing'[l] = Gone \/ Sound(announcing'[l])
    BY <1>1, <2>2, CancelledIsSound
  <2>4. AnnouncersAreSound'
    BY <1>1, <2>1, <2>2, <2>3 DEF AnnouncersAreSound
  <2>5. \A l \in LoopId : ~LiveLoop(l)'
    BY <1>1, <2>2, CancelledIsSound DEF LiveLoop
  <2>6. OneLoopAnnounces'
    BY <2>5, Zenon DEF OneLoopAnnounces
  <2>7. QED
    BY <2>4, <2>6 DEF AnnounceIInv
<1>7. CASE StartTorrent
  BY <1>1, <1>2, <1>3, <1>7 DEF StartTorrent, AnnouncersAreSound
<1>8. CASE ResumeTorrent \/ RecheckTorrent \/ Reannounce
  BY <1>2, <1>8 DEF ResumeTorrent, RecheckTorrent, Reannounce
<1>9. CASE AddTracker
  BY <1>1, <1>2, <1>3, <1>9 DEF AddTracker, AnnouncersAreSound
<1>10. CASE MetadataKnown
  <2>1. known' \in BOOLEAN
    <3>1. TRUE \in BOOLEAN
      BY Zenon
    <3>2. QED
      BY <1>10, <3>1 DEF MetadataKnown
  <2>2. QED
    BY <1>3, <1>10, <2>1 DEF MetadataKnown
<1>11. QED
  BY <1>4, <1>5, <1>6, <1>7, <1>8, <1>9, <1>10 DEF AnnounceActorNext

\* One loop announces, whatever the actor is told, and no promotion, failure or new
\* list loses a tracker of a tier.
THEOREM TiersStayWhole == AnnounceSpec => []AnnounceInv
<1>1. AnnounceInit => AnnounceIInv
  <2> SUFFICES ASSUME AnnounceInit PROVE AnnounceIInv
    OBVIOUS
  <2>1. FALSE \in BOOLEAN
    BY Zenon
  <2>2. AnnouncersAreSound
    BY <2>1 DEF AnnounceInit, AnnouncersAreSound
  <2>3. \A l \in LoopId : ~LiveLoop(l)
    BY DEF AnnounceInit, LiveLoop, Announcer
  <2>4. QED
    BY <2>2, <2>3, Zenon DEF OneLoopAnnounces, AnnounceIInv
<1>2. AnnounceIInv /\ [AnnounceNext]_announceVars => AnnounceIInv'
  <2> SUFFICES ASSUME AnnounceIInv, [AnnounceNext]_announceVars PROVE AnnounceIInv'
    OBVIOUS
  <2>1. CASE AnnounceActorNext
    BY <2>1, OrdersKeepLoops
  <2>2. CASE AnnounceTimesOut
    BY <2>2, AnnouncersGoOnSoundly DEF Announcer
  <2>3. ASSUME NEW l \in Announcer, AnnouncerNext(l) PROVE AnnounceIInv'
    BY <2>3, AnnouncersGoOnSoundly
  <2>4. CASE (\E u \in Trackers : Outage(u)) \/ UNCHANGED announceVars
    <3>1. announcing' = announcing /\ mode' = mode /\ quit' = quit /\ known' = known
      BY <2>4 DEF Outage, Actor, announceVars
    <3>2. AnnouncersAreSound'
      BY <3>1 DEF AnnounceIInv, AnnouncersAreSound
    <3>3. \A l \in LoopId : LiveLoop(l)' = LiveLoop(l)
      BY <3>1 DEF LiveLoop
    <3>4. OneLoopAnnounces'
      BY <3>1, <3>3, Zenon DEF AnnounceIInv, OneLoopAnnounces
    <3>5. QED
      BY <3>2, <3>4 DEF AnnounceIInv
  <2>5. QED
    BY <2>1, <2>2, <2>3, <2>4 DEF AnnounceNext
<1>3. AnnounceIInv => AnnounceInv
  BY DEF AnnounceIInv, AnnounceInv, TiersAreWhole, AnnouncersAreSound, Sound, WholeTiers, WholeTier
<1>4. QED
  BY <1>1, <1>2, <1>3, PTL DEF AnnounceSpec

-----------------------------------------------------------------------------
(* Rendezvous *)

\* The messages of the extension.
PunchMessages ==
    [type : {"rendezvous", "connect", "error"}, addr : Addresses,
     code : {"none", "self", "not connected", "no support"}]

\* How often each torrent has asked for, or dialed, each address.
Tallies == [Punch -> [Addresses -> Nat]]

\* What a message says was asked for: a rendezvous by its sender, an answer by its
\* receiver or by the other one it introduces.
Genuine(tally, ch, m) ==
    /\ m.type = "rendezvous" => tally[Far(ch[1], ch[2])][m.addr] > 0
    /\ m.type = "error" => tally[ch[2]][m.addr] > 0
    /\ m.type = "connect" => tally[ch[2]][m.addr] > 0 \/ \E s \in Sides : tally[m.addr[1]][<<ch[2], s>>] > 0
\* Every message on its way is genuine.
GenuineWire(tally, wire) ==
    /\ wire \in [Channel -> Seq(PunchMessages)]
    /\ \A ch \in Channel : \A i \in 1..Len(wire[ch]) : Genuine(tally, ch, wire[ch][i])

\* The types.
PunchTypes ==
    /\ links \subseteq Link
    /\ pendingPunch \in [Punch -> SUBSET (Addresses \X Addresses)] /\ punchDials \in [Punch -> SUBSET Addresses]
    /\ asked \in Tallies /\ dialed \in Tallies

\* A dial uses up what was asked for, and so does what still waits for its answer.
Waiting(n, x) == {key \in pendingPunch[n] : key[2] = x}
DialsAreCounted ==
    \A n \in Punch, x \in Addresses :
        IsFiniteSet(Waiting(n, x)) /\ dialed[n][x] + Cardinality(Waiting(n, x)) <= asked[n][x]

\* The inductive invariant.
PunchIInv == PunchTypes /\ GenuineWire(asked, punchWire) /\ DialsAreCounted

\* A connection has two ends, each at an address for the other.
LEMMA EndsOfALink ==
    ASSUME NEW l \in Link, NEW n \in Ends(l)
    PROVE  /\ <<l, n>> \in Channel /\ <<l, Far(l, n)>> \in Channel /\ n \in Punch /\ Far(l, n) \in Punch
           /\ Far(l, Far(l, n)) = n
           /\ RemoteAddr(l, n) \in Addresses /\ RemoteAddr(l, n)[1] = Far(l, n)
<1>1. /\ l = <<l[1], l[2]>> /\ l[1] \in Punch /\ l[2] \in Addresses /\ l[2] = <<l[2][1], l[2][2]>>
      /\ l[2][1] \in Punch /\ l[2][2] \in Sides /\ l[1] # l[2][1]
  BY DEF Link, Addresses
<1>2. n = l[1] \/ n = l[2][1]
  BY DEF Ends
<1>3. n \in Punch /\ Far(l, n) \in Punch /\ Far(l, Far(l, n)) = n /\ Far(l, n) \in Ends(l)
  BY <1>1, <1>2 DEF Far, Ends
<1>4. <<l, n>> \in Channel /\ <<l, Far(l, n)>> \in Channel
  BY <1>3 DEF Channel
<1>5. RemoteAddr(l, n) \in Addresses /\ RemoteAddr(l, n)[1] = Far(l, n)
  BY <1>1, <1>2 DEF RemoteAddr, Far, Addresses, Sides
<1>6. QED
  BY <1>3, <1>4, <1>5

\* A genuine message keeps the wire genuine, sent or not.
LEMMA SendingIsGenuine ==
    ASSUME NEW tally, NEW wire, GenuineWire(tally, wire), NEW l \in Link, NEW n \in Ends(l),
           NEW msg \in PunchMessages, Genuine(tally, <<l, Far(l, n)>>, msg)
    PROVE  GenuineWire(tally, Sent(wire, l, n, msg))
<1> DEFINE c == <<l, Far(l, n)>>
           w == [wire EXCEPT ![c] = Append(@, msg)]
<1>1. c \in Channel
  BY EndsOfALink
<1>2. Genuine(tally, c, msg)
  OBVIOUS
<1>3. wire \in [Channel -> Seq(PunchMessages)] /\ wire[c] \in Seq(PunchMessages)
  BY <1>1 DEF GenuineWire
<1> HIDE DEF c
<1>4. /\ Append(wire[c], msg) \in Seq(PunchMessages) /\ Len(Append(wire[c], msg)) = Len(wire[c]) + 1
      /\ \A i \in 1..Len(wire[c]) : Append(wire[c], msg)[i] = wire[c][i]
      /\ Append(wire[c], msg)[Len(wire[c]) + 1] = msg /\ Len(wire[c]) \in Nat
  BY <1>3, AppendProperties, LenProperties
<1>5. w \in [Channel -> Seq(PunchMessages)] /\ w[c] = Append(wire[c], msg)
      /\ \A d \in Channel : d # c => w[d] = wire[d]
  BY <1>1, <1>3, <1>4
<1>6. ASSUME NEW d \in Channel, NEW i \in 1..Len(w[d])
      PROVE  Genuine(tally, d, w[d][i])
  <2>1. CASE d # c
    BY <1>5, <1>6, <2>1 DEF GenuineWire
  <2>2. CASE d = c /\ i \in 1..Len(wire[c])
    <3>1. Genuine(tally, c, wire[c][i])
      BY <1>1, <2>2 DEF GenuineWire
    <3>2. w[d][i] = wire[c][i]
      BY <1>4, <1>5, <2>2
    <3>3. QED
      BY <2>2, <3>1, <3>2
  <2>3. CASE d = c /\ i \notin 1..Len(wire[c])
    <3>1. i = Len(wire[c]) + 1
      BY <1>4, <1>5, <1>6, <2>3
    <3>2. QED
      BY <1>2, <1>4, <1>5, <2>3, <3>1
  <2>4. QED
    BY <2>1, <2>2, <2>3
<1>7. GenuineWire(tally, w)
  BY <1>5, <1>6 DEF GenuineWire
<1>8. Sent(wire, l, n, msg) = w \/ Sent(wire, l, n, msg) = wire
  BY DEF Sent, c
<1>9. QED
  BY <1>7, <1>8

\* A message taken leaves the wire genuine, and was genuine.
LEMMA TakingIsGenuine ==
    ASSUME NEW tally, NEW wire, GenuineWire(tally, wire), NEW c \in Channel, wire[c] # <<>>
    PROVE  /\ Head(wire[c]) \in PunchMessages /\ Genuine(tally, c, Head(wire[c]))
           /\ GenuineWire(tally, [wire EXCEPT ![c] = Tail(@)])
<1> DEFINE w == [wire EXCEPT ![c] = Tail(@)]
<1>1. wire \in [Channel -> Seq(PunchMessages)] /\ wire[c] \in Seq(PunchMessages)
  BY DEF GenuineWire
<1>2. /\ Head(wire[c]) \in PunchMessages /\ Tail(wire[c]) \in Seq(PunchMessages)
      /\ Len(Tail(wire[c])) = Len(wire[c]) - 1
      /\ \A i \in 1..Len(Tail(wire[c])) : Tail(wire[c])[i] = wire[c][i + 1]
      /\ Len(wire[c]) \in Nat \ {0} /\ Head(wire[c]) = wire[c][1]
  BY <1>1, HeadTailProperties, LenProperties, EmptySeq
<1>3. Genuine(tally, c, Head(wire[c]))
  <2>1. 1 \in 1..Len(wire[c])
    BY <1>2
  <2>2. QED
    BY <1>2, <2>1 DEF GenuineWire
<1>4. w \in [Channel -> Seq(PunchMessages)] /\ w[c] = Tail(wire[c]) /\ \A d \in Channel : d # c => w[d] = wire[d]
  BY <1>1, <1>2
<1>5. ASSUME NEW d \in Channel, NEW i \in 1..Len(w[d])
      PROVE  Genuine(tally, d, w[d][i])
  <2>1. CASE d # c
    BY <1>4, <1>5, <2>1 DEF GenuineWire
  <2>2. CASE d = c
    <3>1. i + 1 \in 1..Len(wire[c]) /\ w[d][i] = wire[c][i + 1]
      BY <1>2, <1>4, <1>5, <2>2
    <3>2. Genuine(tally, c, wire[c][i + 1])
      BY <3>1 DEF GenuineWire
    <3>3. QED
      BY <2>2, <3>1, <3>2
  <2>3. QED
    BY <2>1, <2>2
<1>6. GenuineWire(tally, w)
  BY <1>4, <1>5 DEF GenuineWire
<1>7. QED
  BY <1>2, <1>3, <1>6

\* What was asked stays asked.
LEMMA GenuineStays ==
    ASSUME NEW tally \in Tallies, NEW more \in Tallies, \A n \in Punch, x \in Addresses : tally[n][x] <= more[n][x],
           NEW wire, GenuineWire(tally, wire)
    PROVE  GenuineWire(more, wire)
<1>1. ASSUME NEW n \in Punch, NEW x \in Addresses, tally[n][x] > 0
      PROVE  more[n][x] > 0
  <2>1. tally[n][x] \in Nat /\ more[n][x] \in Nat /\ tally[n][x] <= more[n][x]
    BY DEF Tallies
  <2>2. QED
    BY <1>1, <2>1
<1>2. ASSUME NEW ch \in Channel, NEW m \in PunchMessages, Genuine(tally, ch, m)
      PROVE  Genuine(more, ch, m)
  <2>1. m.addr \in Addresses /\ m.addr[1] \in Punch
    BY DEF PunchMessages, Addresses
  <2>2. ch[1] \in Link /\ ch[2] \in Ends(ch[1])
    BY DEF Channel
  <2>3. ch[2] \in Punch /\ Far(ch[1], ch[2]) \in Punch /\ \A s \in Sides : <<ch[2], s>> \in Addresses
    BY <2>2, EndsOfALink DEF Addresses
  <2>4. QED
    BY <1>1, <1>2, <2>1, <2>3 DEF Genuine
<1>3. ASSUME NEW ch \in Channel, NEW i \in 1..Len(wire[ch])
      PROVE  Genuine(more, ch, wire[ch][i])
  <2>1. wire[ch] \in Seq(PunchMessages) /\ Genuine(tally, ch, wire[ch][i])
    BY DEF GenuineWire
  <2>2. wire[ch][i] \in PunchMessages
    BY <2>1, ElementOfSeq
  <2>3. QED
    BY <1>2, <2>1, <2>2
<1>4. QED
  BY <1>3 DEF GenuineWire

\* Nothing is asked, dialed or answered.
LEMMA NothingIsCounted ==
    ASSUME PunchTypes, DialsAreCounted,
           \A n \in Punch : pendingPunch'[n] \subseteq pendingPunch[n], asked' = asked, dialed' = dialed
    PROVE  DialsAreCounted'
<1>1. ASSUME NEW n \in Punch, NEW x \in Addresses
      PROVE  IsFiniteSet(Waiting(n, x)') /\ dialed'[n][x] + Cardinality(Waiting(n, x)') <= asked'[n][x]
  <2> DEFINE old == {key \in pendingPunch[n] : key[2] = x}
             new == {key \in pendingPunch'[n] : key[2] = x}
  <2>1. IsFiniteSet(old) /\ dialed[n][x] + Cardinality(old) <= asked[n][x]
    BY DEF DialsAreCounted, Waiting
  <2>2. new \subseteq old
    OBVIOUS
  <2> HIDE DEF old, new
  <2>3. IsFiniteSet(new) /\ Cardinality(new) <= Cardinality(old) /\ Cardinality(new) \in Nat /\ Cardinality(old) \in Nat
    BY <2>1, <2>2, FS_Subset, FS_CardinalityType
  <2>4. dialed[n][x] \in Nat /\ asked[n][x] \in Nat
    BY DEF PunchTypes, Tallies
  <2>5. IsFiniteSet(new) /\ dialed[n][x] + Cardinality(new) <= asked[n][x]
    BY <2>1, <2>3, <2>4
  <2>6. QED
    BY <2>5, Zenon DEF Waiting, new
<1>2. QED
  BY <1>1 DEF DialsAreCounted, Waiting

\* A set without one of its members.
LEMMA OneFewer ==
    ASSUME NEW S, IsFiniteSet(S), NEW key \in S
    PROVE  IsFiniteSet(S \ {key}) /\ Cardinality(S \ {key}) + 1 = Cardinality(S) /\ Cardinality(S) \in Nat
<1>1. IsFiniteSet(S \ {key}) /\ Cardinality(S \ {key}) = Cardinality(S) - 1
  BY FS_RemoveElement
<1>2. Cardinality(S) \in Nat
  BY FS_CardinalityType
<1>3. QED
  BY <1>1, <1>2

\* doRequestHolepunch.
LEMMA RequestKeepsPunch ==
    ASSUME PunchIInv, NEW n \in Punch, NEW l \in LinksOf(n), NEW x \in Addresses, RequestHolepunch(n, l, x)
    PROVE  PunchIInv'
<1> DEFINE msg == PunchMessage("rendezvous", x, "none")
           key == <<RemoteAddr(l, n), x>>
<1>1. PunchTypes /\ GenuineWire(asked, punchWire) /\ DialsAreCounted
  BY DEF PunchIInv
<1>2. l \in Link /\ n \in Ends(l)
  BY <1>1 DEF LinksOf, PunchTypes
<1>3. /\ <<l, Far(l, n)>> \in Channel /\ Far(l, n) \in Ends(l) /\ Far(l, Far(l, n)) = n /\ RemoteAddr(l, n) \in Addresses
  BY <1>2, EndsOfALink DEF Channel
<1>4. /\ asked' = [asked EXCEPT ![n][x] = @ + 1]
      /\ pendingPunch' = [pendingPunch EXCEPT ![n] = @ \cup {key}]
      /\ punchWire' = Sent(punchWire, l, n, msg)
      /\ UNCHANGED <<links, punchDials, dialed>>
  BY DEF RequestHolepunch
<1>5. /\ asked' \in Tallies /\ asked'[n][x] = asked[n][x] + 1
      /\ \A k \in Punch, y \in Addresses : (k # n \/ y # x) => asked'[k][y] = asked[k][y]
  BY <1>1, <1>4 DEF PunchTypes, Tallies
<1>6. PunchTypes'
  <2>1. pendingPunch' \in [Punch -> SUBSET (Addresses \X Addresses)]
    BY <1>1, <1>3, <1>4 DEF PunchTypes, Tallies
  <2>2. QED
    BY <1>1, <1>4, <1>5, <2>1 DEF PunchTypes, Tallies
<1>7. GenuineWire(asked', punchWire')
  <2>1. msg \in PunchMessages
    BY DEF PunchMessage, PunchMessages
  <2>2. asked \in Tallies /\ \A k \in Punch, y \in Addresses : asked[k][y] <= asked'[k][y]
    <3>1. \A k \in Punch, y \in Addresses : asked[k][y] \in Nat
      BY <1>1 DEF PunchTypes, Tallies
    <3>2. QED
      BY <1>1, <1>5, <3>1 DEF PunchTypes
  <2>3. GenuineWire(asked', punchWire)
    BY <1>1, <1>5, <2>2, GenuineStays
  <2>4. asked'[n][x] > 0
    BY <1>1, <1>5 DEF PunchTypes, Tallies
  <2>5. Genuine(asked', <<l, Far(l, n)>>, msg)
    BY <1>3, <2>4 DEF Genuine, PunchMessage
  <2> HIDE DEF msg
  <2>6. GenuineWire(asked', Sent(punchWire, l, n, msg))
    BY <1>2, <2>1, <2>3, <2>5, SendingIsGenuine
  <2>7. QED
    BY <1>4, <2>6
<1>8. DialsAreCounted'
  <2>1. ASSUME NEW k \in Punch, NEW y \in Addresses
        PROVE  IsFiniteSet(Waiting(k, y)') /\ dialed'[k][y] + Cardinality(Waiting(k, y)') <= asked'[k][y]
    <3> DEFINE old == {q \in pendingPunch[k] : q[2] = y}
               new == {q \in pendingPunch'[k] : q[2] = y}
    <3>1. IsFiniteSet(old) /\ dialed[k][y] + Cardinality(old) <= asked[k][y]
      BY <1>1 DEF DialsAreCounted, Waiting
    <3>2. new = old \/ (k = n /\ y = x /\ new = old \cup {key})
      BY <1>1, <1>4 DEF PunchTypes
    <3> HIDE DEF old, new, key
    <3>3. Cardinality(old) \in Nat /\ dialed[k][y] \in Nat /\ asked[k][y] \in Nat /\ dialed' = dialed
      BY <1>1, <1>4, <3>1, FS_CardinalityType DEF PunchTypes, Tallies
    <3>4. IsFiniteSet(old \cup {key}) /\ Cardinality(old \cup {key}) \in Nat /\ Cardinality(old \cup {key}) <= Cardinality(old) + 1
      <4>1. /\ IsFiniteSet(old \cup {key})
            /\ Cardinality(old \cup {key}) = IF key \in old THEN Cardinality(old) ELSE Cardinality(old) + 1
        BY <3>1, FS_AddElement
      <4>2. QED
        BY <3>3, <4>1
    <3>5. IsFiniteSet(new) /\ dialed'[k][y] + Cardinality(new) <= asked'[k][y]
      <4>1. CASE k = n /\ y = x
        <5>1. asked'[k][y] = asked[k][y] + 1
          BY <1>5, <4>1
        <5>2. Cardinality(new) \in Nat /\ Cardinality(new) <= Cardinality(old) + 1 /\ IsFiniteSet(new)
          <6>1. CASE new = old
            BY <3>1, <3>3, <6>1
          <6>2. CASE new = old \cup {key}
            BY <3>4, <6>2
          <6>3. QED
            BY <3>2, <6>1, <6>2
        <5>3. QED
          BY <3>1, <3>3, <5>1, <5>2
      <4>2. CASE k # n \/ y # x
        <5>1. asked'[k][y] = asked[k][y] /\ new = old
          BY <1>5, <3>2, <4>2
        <5>2. QED
          BY <3>1, <3>3, <5>1
      <4>3. QED
        BY <4>1, <4>2
    <3>6. QED
      BY <3>5, Zenon DEF Waiting, new
  <2>2. QED
    BY <2>1 DEF DialsAreCounted, Waiting
<1>9. QED
  BY <1>6, <1>7, <1>8 DEF PunchIInv

\* A rendezvous that arrives is relayed: whoever asked for the address it names gets
\* the connect or the error, and the other one the address of whoever asked.
LEMMA RelayingIsGenuine ==
    ASSUME PunchTypes, NEW c \in Channel, NEW rest, GenuineWire(asked, rest), NEW x \in Addresses,
           asked[Far(c[1], c[2])][x] > 0, RelayRendezvous(c[1], c[2], rest, x)
    PROVE  GenuineWire(asked, punchWire')
<1> DEFINE l == c[1]
           n == c[2]
<1>1. l \in Link /\ n \in Ends(l)
  BY DEF Channel
<1>2. /\ <<l, Far(l, n)>> \in Channel /\ Far(l, n) \in Ends(l) /\ Far(l, Far(l, n)) = n
      /\ RemoteAddr(l, n) \in Addresses /\ RemoteAddr(l, n)[1] = Far(l, n)
  BY <1>1, EndsOfALink DEF Channel
<1>3. asked[Far(l, n)][x] > 0
  OBVIOUS
<1>4. CASE Refusal(n, x) # "none"
  <2> DEFINE msg == PunchMessage("error", x, Refusal(n, x))
  <2>1. msg \in PunchMessages /\ Genuine(asked, <<l, Far(l, n)>>, msg)
    BY <1>3 DEF PunchMessage, PunchMessages, Genuine, Refusal
  <2>2. punchWire' = Sent(rest, l, n, msg)
    BY <1>4 DEF RelayRendezvous
  <2> HIDE DEF msg, l, n
  <2>3. QED
    BY <1>1, <2>1, <2>2, SendingIsGenuine
<1>5. CASE Refusal(n, x) = "none"
  <2> DEFINE msg == PunchMessage("connect", x, "none")
             back == PunchMessage("connect", RemoteAddr(l, n), "none")
             first == Sent(rest, l, n, msg)
  <2>1. PICK t \in FindPeer(n, x) : punchWire' = Sent(first, t, n, back)
    BY <1>5 DEF RelayRendezvous, Relayed
  <2>2. t \in Link /\ n \in Ends(t) /\ RemoteAddr(t, n) = x
    <3>1. t \in LinksOf(n) /\ RemoteAddr(t, n) = x
      BY <2>1 DEF FindPeer
    <3>2. t \in links /\ n \in Ends(t)
      BY <3>1 DEF LinksOf
    <3>3. links \subseteq Link
      BY DEF PunchTypes
    <3>4. QED
      BY <3>1, <3>2, <3>3
  <2>3. msg \in PunchMessages /\ Genuine(asked, <<l, Far(l, n)>>, msg)
    BY <1>3 DEF PunchMessage, PunchMessages, Genuine
  <2>4. x = <<Far(t, n), x[2]>> /\ x[2] \in Sides
    <3>1. x[1] = Far(t, n)
      BY <2>2, EndsOfALink
    <3>2. x = <<x[1], x[2]>> /\ x[2] \in Sides
      BY DEF Addresses
    <3>3. QED
      BY <3>1, <3>2
  <2>5. back \in PunchMessages /\ back.type = "connect" /\ back.addr = RemoteAddr(l, n)
    BY <1>2 DEF PunchMessage, PunchMessages
  <2>6. asked[RemoteAddr(l, n)[1]][<<Far(t, n), x[2]>>] > 0
    BY <1>2, <1>3, <2>4
  <2> HIDE DEF msg, back, l, n
  <2>7. Genuine(asked, <<t, Far(t, n)>>, back)
    BY <2>4, <2>5, <2>6 DEF Genuine
  <2>8. GenuineWire(asked, first)
    BY <1>1, <2>3, SendingIsGenuine
  <2> HIDE DEF first
  <2>9. QED
    BY <2>1, <2>2, <2>5, <2>7, <2>8, SendingIsGenuine
<1>6. QED
  BY <1>4, <1>5

\* handleHolepunchConnect: the dial takes the place of what was waiting.
LEMMA ConnectIsCounted ==
    ASSUME PunchTypes, DialsAreCounted, NEW c \in Channel, NEW rest, NEW x \in Addresses,
           HandleConnect(c[1], c[2], rest, x), asked' = asked
    PROVE  PunchTypes' /\ DialsAreCounted'
<1> DEFINE l == c[1]
           n == c[2]
           key == <<RemoteAddr(l, n), x>>
           goes == Solicited(n, key) /\ FindPeer(n, x) = {} /\ x \notin punchDials[n]
<1>1. l \in Link /\ n \in Ends(l)
  BY DEF Channel
<1>2. n \in Punch /\ RemoteAddr(l, n) \in Addresses
  BY <1>1, EndsOfALink
<1>3. /\ pendingPunch' = [pendingPunch EXCEPT ![n] = @ \ {key}]
      /\ punchDials' = IF goes THEN [punchDials EXCEPT ![n] = @ \cup {x}] ELSE punchDials
      /\ dialed' = IF goes THEN [dialed EXCEPT ![n][x] = @ + 1] ELSE dialed
      /\ links' = links
  BY DEF HandleConnect
<1>4. pendingPunch' \in [Punch -> SUBSET (Addresses \X Addresses)] /\ pendingPunch'[n] = pendingPunch[n] \ {key}
      /\ \A k \in Punch : pendingPunch'[k] \subseteq pendingPunch[k]
  BY <1>2, <1>3 DEF PunchTypes
<1>5. goes => key \in pendingPunch[n]
  BY DEF Solicited
<1> HIDE DEF l, n, goes
<1>6. CASE ~goes
  <2>1. PunchTypes'
    BY <1>3, <1>4, <1>6 DEF PunchTypes
  <2>2. DialsAreCounted'
    BY <1>3, <1>4, <1>6, NothingIsCounted
  <2>3. QED
    BY <2>1, <2>2
<1>7. CASE goes
  <2>1. /\ dialed' \in Tallies /\ dialed'[n][x] = dialed[n][x] + 1
        /\ \A k \in Punch, y \in Addresses : (k # n \/ y # x) => dialed'[k][y] = dialed[k][y]
    BY <1>2, <1>3, <1>7 DEF PunchTypes, Tallies
  <2>2. PunchTypes'
    <3>1. punchDials' \in [Punch -> SUBSET Addresses]
      BY <1>2, <1>3, <1>7 DEF PunchTypes
    <3>2. QED
      BY <1>3, <1>4, <2>1, <3>1 DEF PunchTypes
  <2>3. ASSUME NEW k \in Punch, NEW y \in Addresses
        PROVE  IsFiniteSet(Waiting(k, y)') /\ dialed'[k][y] + Cardinality(Waiting(k, y)') <= asked'[k][y]
    <3> DEFINE old == {q \in pendingPunch[k] : q[2] = y}
               new == {q \in pendingPunch'[k] : q[2] = y}
    <3>1. IsFiniteSet(old) /\ dialed[k][y] + Cardinality(old) <= asked[k][y]
      BY DEF DialsAreCounted, Waiting
    <3>2. new \subseteq old
      BY <1>4
    <3>3. k = n /\ y = x => key \in old /\ new = old \ {key}
      BY <1>4, <1>5, <1>7
    <3> HIDE DEF old, new, key
    <3>4. IsFiniteSet(new) /\ Cardinality(new) <= Cardinality(old) /\ Cardinality(new) \in Nat /\ Cardinality(old) \in Nat
      BY <3>1, <3>2, FS_Subset, FS_CardinalityType
    <3>5. k = n /\ y = x => Cardinality(new) + 1 = Cardinality(old)
      BY <3>1, <3>3, OneFewer
    <3>6. dialed[k][y] \in Nat /\ asked[k][y] \in Nat
      BY DEF PunchTypes, Tallies
    <3>7. IsFiniteSet(new) /\ dialed'[k][y] + Cardinality(new) <= asked'[k][y]
      <4>1. CASE k = n /\ y = x
        BY <2>1, <3>1, <3>4, <3>5, <3>6, <4>1
      <4>2. CASE k # n \/ y # x
        BY <2>1, <3>1, <3>4, <3>6, <4>2
      <4>3. QED
        BY <4>1, <4>2
    <3>8. QED
      BY <3>7, Zenon DEF Waiting, new
  <2>4. DialsAreCounted'
    BY <2>3 DEF DialsAreCounted, Waiting
  <2>5. QED
    BY <2>2, <2>4
<1>8. QED
  BY <1>6, <1>7

\* onHolepunchMessage.
LEMMA MessageKeepsPunch ==
    ASSUME PunchIInv, NEW c \in Channel, OnHolepunchMessage(c[1], c[2])
    PROVE  PunchIInv'
<1>1. PunchTypes /\ GenuineWire(asked, punchWire) /\ DialsAreCounted
  BY DEF PunchIInv
<1>2. c = <<c[1], c[2]>> /\ c[1] \in Link /\ c[2] \in Ends(c[1]) /\ c[2] \in Punch
  BY DEF Channel
<1> DEFINE m == Head(punchWire[c])
           rest == [punchWire EXCEPT ![c] = Tail(@)]
<1>3. /\ asked' = asked /\ punchWire[c] # <<>>
      /\ \/ m.type = "rendezvous" /\ RelayRendezvous(c[1], c[2], rest, m.addr)
         \/ m.type = "connect" /\ HandleConnect(c[1], c[2], rest, m.addr)
         \/ m.type = "error" /\ HandleError(c[1], c[2], rest, m.addr)
  BY <1>2 DEF OnHolepunchMessage
<1>4. m \in PunchMessages /\ Genuine(asked, c, m) /\ GenuineWire(asked, rest)
  BY <1>1, <1>3, TakingIsGenuine
<1> HIDE DEF m, rest
<1>5. m.addr \in Addresses
  BY <1>4 DEF PunchMessages
<1>6. CASE m.type = "rendezvous" /\ RelayRendezvous(c[1], c[2], rest, m.addr)
  <2>1. GenuineWire(asked, punchWire')
    <3>1. asked[Far(c[1], c[2])][m.addr] > 0
      BY <1>4, <1>6 DEF Genuine
    <3>2. QED
      BY <1>1, <1>4, <1>5, <1>6, <3>1, RelayingIsGenuine
  <2>2. UNCHANGED <<links, pendingPunch, punchDials, dialed>>
    BY <1>6 DEF RelayRendezvous
  <2>3. PunchTypes' /\ DialsAreCounted'
    BY <1>1, <1>3, <2>2, NothingIsCounted DEF PunchTypes
  <2>4. QED
    BY <1>3, <2>1, <2>3 DEF PunchIInv
<1>7. CASE m.type = "connect" /\ HandleConnect(c[1], c[2], rest, m.addr)
  <2>1. punchWire' = rest
    BY <1>7 DEF HandleConnect
  <2>2. PunchTypes' /\ DialsAreCounted'
    BY <1>1, <1>3, <1>5, <1>7, ConnectIsCounted
  <2>3. QED
    BY <1>3, <1>4, <2>1, <2>2 DEF PunchIInv
<1>8. CASE m.type = "error" /\ HandleError(c[1], c[2], rest, m.addr)
  <2>1. punchWire' = rest /\ UNCHANGED <<links, punchDials, dialed>>
        /\ pendingPunch' = [pendingPunch EXCEPT ![c[2]] = @ \ {<<RemoteAddr(c[1], c[2]), m.addr>>}]
    BY <1>8 DEF HandleError
  <2>2. pendingPunch' \in [Punch -> SUBSET (Addresses \X Addresses)] /\ \A k \in Punch : pendingPunch'[k] \subseteq pendingPunch[k]
    BY <1>1, <2>1 DEF PunchTypes
  <2>3. PunchTypes' /\ DialsAreCounted'
    BY <1>1, <1>3, <2>1, <2>2, NothingIsCounted DEF PunchTypes
  <2>4. QED
    BY <1>3, <1>4, <2>1, <2>3 DEF PunchIInv
<1>9. QED
  BY <1>3, <1>6, <1>7, <1>8

\* However connects and errors are delivered, late or after a connection was lost, no
\* torrent dials an address more often than it has asked for it.
THEOREM DialsAreSolicited == PunchSpec => []HolepunchInv
<1>1. PunchInit => PunchIInv
  <2> SUFFICES ASSUME PunchInit PROVE PunchIInv
    OBVIOUS
  <2>1. PunchTypes
    BY HolepunchAssumption DEF PunchInit, PunchTypes, Tallies
  <2>2. GenuineWire(asked, punchWire)
    <3>1. punchWire \in [Channel -> Seq(PunchMessages)] /\ \A ch \in Channel : Len(punchWire[ch]) = 0
      BY EmptySeq DEF PunchInit
    <3>2. QED
      BY <3>1 DEF GenuineWire
  <2>3. DialsAreCounted
    <3>1. ASSUME NEW n \in Punch, NEW x \in Addresses
          PROVE  IsFiniteSet(Waiting(n, x)) /\ dialed[n][x] + Cardinality(Waiting(n, x)) <= asked[n][x]
      <4>1. Waiting(n, x) = {}
        BY DEF PunchInit, Waiting
      <4>2. dialed[n][x] = 0 /\ asked[n][x] = 0
        BY DEF PunchInit
      <4>3. IsFiniteSet({}) /\ Cardinality({}) = 0
        BY FS_EmptySet
      <4>4. QED
        BY <4>1, <4>2, <4>3
    <3>2. QED
      BY <3>1 DEF DialsAreCounted
  <2>4. QED
    BY <2>1, <2>2, <2>3 DEF PunchIInv
<1>2. PunchIInv /\ [PunchNext]_punchVars => PunchIInv'
  <2> SUFFICES ASSUME PunchIInv, [PunchNext]_punchVars PROVE PunchIInv'
    OBVIOUS
  <2>1. PunchTypes /\ GenuineWire(asked, punchWire) /\ DialsAreCounted
    BY DEF PunchIInv
  <2>2. ASSUME NEW n \in Punch, NEW l \in LinksOf(n), NEW x \in Addresses, RequestHolepunch(n, l, x)
        PROVE  PunchIInv'
    BY <2>2, RequestKeepsPunch
  <2>3. ASSUME NEW n \in Punch, NEW key \in pendingPunch[n], ExpireHolepunch(n, key)
        PROVE  PunchIInv'
    <3>1. pendingPunch' = [pendingPunch EXCEPT ![n] = @ \ {key}] /\ UNCHANGED <<links, punchWire, punchDials, asked, dialed>>
      BY <2>3 DEF ExpireHolepunch
    <3>2. pendingPunch' \in [Punch -> SUBSET (Addresses \X Addresses)] /\ \A k \in Punch : pendingPunch'[k] \subseteq pendingPunch[k]
      BY <2>1, <3>1 DEF PunchTypes
    <3>3. PunchTypes' /\ DialsAreCounted'
      BY <2>1, <3>1, <3>2, NothingIsCounted DEF PunchTypes
    <3>4. QED
      BY <2>1, <3>1, <3>3 DEF PunchIInv
  <2>4. ASSUME NEW n \in Punch, NEW x \in punchDials[n], PunchDialEnds(n, x)
        PROVE  PunchIInv'
    <3>1. /\ punchDials' = [punchDials EXCEPT ![n] = @ \ {x}]
          /\ links' \in {links} \cup (IF x[1] = n THEN {} ELSE {links \cup {<<n, x>>}})
          /\ UNCHANGED <<punchWire, pendingPunch, asked, dialed>>
      BY <2>4 DEF PunchDialEnds
    <3>2. x \in Addresses
      BY <2>1, <2>4 DEF PunchTypes
    <3>3. x[1] # n => <<n, x>> \in Link
      BY <3>2 DEF Link, Addresses
    <3>4. links' \subseteq Link
      BY <2>1, <3>1, <3>3 DEF PunchTypes
    <3>5. PunchTypes'
      BY <2>1, <3>1, <3>4 DEF PunchTypes
    <3>6. DialsAreCounted'
      BY <2>1, <3>1, NothingIsCounted
    <3>7. QED
      BY <2>1, <3>1, <3>5, <3>6 DEF PunchIInv
  <2>5. ASSUME NEW ch \in Channel, OnHolepunchMessage(ch[1], ch[2])
        PROVE  PunchIInv'
    BY <2>5, MessageKeepsPunch
  <2>6. ASSUME NEW l \in links, PunchLinkLost(l)
        PROVE  PunchIInv'
    <3>1. /\ links' = links \ {l} /\ UNCHANGED <<pendingPunch, punchDials, asked, dialed>>
          /\ punchWire' \in {punchWire, [ch \in Channel |-> IF ch[1] = l THEN <<>> ELSE punchWire[ch]]}
      BY <2>6 DEF PunchLinkLost
    <3>2. PunchTypes' /\ DialsAreCounted'
      BY <2>1, <3>1, NothingIsCounted DEF PunchTypes
    <3> DEFINE w == [ch \in Channel |-> IF ch[1] = l THEN <<>> ELSE punchWire[ch]]
    <3>3. GenuineWire(asked, w)
      <4>1. w \in [Channel -> Seq(PunchMessages)]
        BY <2>1, EmptySeq DEF GenuineWire
      <4>2. ASSUME NEW ch \in Channel, NEW i \in 1..Len(w[ch]) PROVE Genuine(asked, ch, w[ch][i])
        <5>1. ch[1] # l
          BY <4>2, EmptySeq
        <5>2. w[ch] = punchWire[ch]
          BY <5>1
        <5>3. QED
          BY <2>1, <4>2, <5>2 DEF GenuineWire
      <4>3. QED
        BY <4>1, <4>2 DEF GenuineWire
    <3>4. GenuineWire(asked', punchWire')
      BY <2>1, <3>1, <3>3
    <3>5. QED
      BY <3>2, <3>4 DEF PunchIInv
  <2>7. CASE UNCHANGED punchVars
    <3>1. PunchTypes' /\ DialsAreCounted'
      BY <2>1, <2>7, NothingIsCounted DEF PunchTypes, punchVars
    <3>2. QED
      BY <2>1, <2>7, <3>1 DEF PunchIInv, punchVars
  <2>8. QED
    BY <2>2, <2>3, <2>4, <2>5, <2>6, <2>7 DEF PunchNext
<1>3. PunchIInv => HolepunchInv
  <2> SUFFICES ASSUME PunchIInv PROVE HolepunchInv
    OBVIOUS
  <2>1. PunchTypes /\ GenuineWire(asked, punchWire) /\ DialsAreCounted
    BY DEF PunchIInv
  <2>2. DialsAreAsked
    <3>1. ASSUME NEW n \in Punch, NEW x \in Addresses PROVE dialed[n][x] <= asked[n][x]
      <4>1. IsFiniteSet(Waiting(n, x)) /\ dialed[n][x] + Cardinality(Waiting(n, x)) <= asked[n][x]
        BY <2>1 DEF DialsAreCounted
      <4>2. Cardinality(Waiting(n, x)) \in Nat
        BY <4>1, FS_CardinalityType
      <4>3. dialed[n][x] \in Nat /\ asked[n][x] \in Nat
        BY <2>1 DEF PunchTypes, Tallies
      <4>4. QED
        BY <4>1, <4>2, <4>3
    <3>2. QED
      BY <3>1 DEF DialsAreAsked
  <2>3. AnswersAreAsked
    <3>1. ASSUME NEW ch \in Channel, NEW i \in DOMAIN punchWire[ch] PROVE Genuine(asked, ch, punchWire[ch][i])
      <4>1. punchWire[ch] \in Seq(PunchMessages)
        BY <2>1 DEF GenuineWire
      <4>2. DOMAIN punchWire[ch] = 1..Len(punchWire[ch])
        BY <4>1, LenProperties
      <4>3. QED
        BY <2>1, <3>1, <4>2 DEF GenuineWire
    <3>2. QED
      BY <3>1 DEF AnswersAreAsked, Genuine, AsksFor
  <2>4. QED
    BY <2>2, <2>3 DEF HolepunchInv
<1>4. QED
  BY <1>1, <1>2, <1>3, PTL DEF PunchSpec

-----------------------------------------------------------------------------
(* The UDP tracker *)

DgramKinds == {"connect", "granted", "ask", "answer", "refusal"}
CallState == [at : {"idle", "connect", "ask", "done", "failed", "cancelled"}, tries : 0..MaxRetries + 1,
              id : Nat, wait : Nat, took : {"none", "answer", "refusal"}]
UdpTypes ==
    /\ cached \in CallState /\ udpCall \in [UdpCall -> CallState] /\ mislaid \in 0..MaxMislaid
    /\ dgram \subseteq [of : UdpCall, is : DgramKinds, id : Nat] /\ IsFiniteSet(dgram)

\* What is under way of a call's connect, and of its request.
Dated(c) == {d \in dgram : d.of = c /\ d.is \in {"connect", "granted"}}
Timely(c) == {d \in dgram : d.of = c /\ d.is \notin {"connect", "granted"}}

\* What a call has tried, and those answers to its connect that will make it try
\* again, are paid for by what was mislaid, but for the try just made.
Due(k, dated) == k.tries + IF k.at = "ask" THEN Cardinality(dated) ELSE 0
JustSent(k, dated, timely) == /\ k.wait = Backoff[k.tries - 1]
                              /\ IF k.at = "ask" THEN timely # {} ELSE dated # {}
Counted(k, dated, timely, n) ==
    Due(k, dated) <= n \/ (Due(k, dated) <= n + 1 /\ JustSent(k, dated, timely))

\* How old its identifier is, and will be when the present wait is over for nothing.
Young(k, timely, n) == k.at = "ask" =>
    Honoured + (IF timely = {} THEN k.wait ELSE 0) < ConnIdTTL + k.id + Backoff[n]

CallHolds(k, dated, timely, n) ==
    /\ k.at \in {"connect", "ask"} => k.tries > 0 /\ k.wait <= Backoff[k.tries - 1]
    /\ k.at \notin {"connect", "ask"} => dated = {} /\ timely = {}
    /\ k.at = "connect" => timely = {} /\ Cardinality(dated) <= k.tries
    /\ k.at \in {"connect", "ask"} /\ n < MaxMislaid => Counted(k, dated, timely, n) /\ Young(k, timely, n)
    /\ k.at = "done" => k.took = "answer"
    /\ k.at = "failed" => IF k.took = "refusal" THEN Backoff[n] > Honoured - ConnIdTTL ELSE n > MaxRetries

DgramHolds(d, n) ==
    /\ d.is = "ask" => d.id = udpCall[d.of].id
    /\ n < MaxMislaid => /\ d.is = "granted" => Honoured < d.id + Backoff[n]
                         /\ d.is = "refusal" => Honoured < ConnIdTTL + Backoff[n]

CachedIsYoung == mislaid < MaxMislaid /\ cached.wait > 0 =>
    Honoured + cached.wait < ConnIdTTL + cached.id + Backoff[mislaid]

UdpIInv ==
    /\ UdpTypes /\ CachedIsYoung
    /\ \A c \in UdpCall : CallHolds(udpCall[c], Dated(c), Timely(c), mislaid)
    /\ \A d \in dgram : DgramHolds(d, mislaid)

LEMMA Waits ==
    ASSUME NEW n \in 0..MaxMislaid
    PROVE  /\ Backoff[n] \in Nat /\ Backoff[n] > 0
           /\ \A k \in 0..MaxMislaid : n <= k => Backoff[n] <= Backoff[k]
           /\ n < MaxMislaid => n + 1 \in 0..MaxMislaid /\ 2 * Backoff[n] <= Backoff[n + 1]
<1>1. /\ MaxMislaid \in Nat /\ Backoff \in [0..MaxMislaid -> Nat \ {0}]
      /\ \A i, k \in 0..MaxMislaid : i < k => 2 * Backoff[i] <= Backoff[k]
  BY UdpAssumption
<1>2. Backoff[n] \in Nat /\ Backoff[n] > 0
  BY <1>1
<1>3. ASSUME NEW k \in 0..MaxMislaid, n <= k
      PROVE  Backoff[n] <= Backoff[k]
  <2>1. CASE n = k
    BY <1>2, <2>1
  <2>2. CASE n < k
    <3>1. 2 * Backoff[n] <= Backoff[k] /\ Backoff[k] \in Nat
      BY <1>1, <2>2
    <3>2. QED
      BY <1>2, <3>1
  <2>3. QED
    BY <1>1, <1>3, <2>1, <2>2
<1>4. n < MaxMislaid => n + 1 \in 0..MaxMislaid /\ 2 * Backoff[n] <= Backoff[n + 1]
  BY <1>1
<1>5. QED
  BY <1>2, <1>3, <1>4

LEMMA DatedIsFinite ==
    ASSUME UdpTypes, NEW c \in UdpCall
    PROVE  IsFiniteSet(Dated(c)) /\ Cardinality(Dated(c)) \in Nat
BY FS_Subset, FS_CardinalityType DEF Dated, UdpTypes

\* A call that is still waiting does not wait for less when more is mislaid.
LEMMA MoreMislaid ==
    ASSUME NEW k \in CallState, NEW dated, Cardinality(dated) \in Nat, NEW timely,
           NEW n \in 0..MaxMislaid, NEW m \in 0..MaxMislaid, n <= m, CallHolds(k, dated, timely, n)
    PROVE  CallHolds(k, dated, timely, m)
<1>1. Backoff[n] \in Nat /\ Backoff[m] \in Nat /\ Backoff[n] <= Backoff[m]
  BY Waits
<1>2. MaxMislaid \in Nat /\ MaxRetries \in Nat /\ Honoured \in Nat /\ ConnIdTTL \in Nat
  BY UdpAssumption
<1>3. k.tries \in Nat /\ k.wait \in Nat /\ k.id \in Nat /\ n \in Nat /\ m \in Nat
  BY <1>2 DEF CallState
<1>4. ASSUME k.at \in {"connect", "ask"}, m < MaxMislaid
      PROVE  Counted(k, dated, timely, m) /\ Young(k, timely, m)
  <2>1. Counted(k, dated, timely, n) /\ Young(k, timely, n)
    BY <1>2, <1>3, <1>4 DEF CallHolds
  <2>2. Due(k, dated) \in Nat
    BY <1>3 DEF Due
  <2>3. Counted(k, dated, timely, m)
    BY <1>3, <2>1, <2>2 DEF Counted
  <2>4. Young(k, timely, m)
    BY <1>1, <1>2, <1>3, <2>1 DEF Young
  <2>5. QED
    BY <2>3, <2>4
<1>5. QED
  BY <1>1, <1>2, <1>3, <1>4 DEF CallHolds

\* The others have nothing to do with a call's datagrams.
LEMMA OthersHold ==
    ASSUME UdpIInv, NEW c \in UdpCall, NEW x \in UdpCall, x # c, mislaid' = mislaid, udpCall'[x] = udpCall[x],
           \A d \in dgram' : d.of # c => d \in dgram, \A d \in dgram : d.of # c => d \in dgram'
    PROVE  CallHolds(udpCall[x], Dated(x), Timely(x), mislaid)'
<1>1. Dated(x)' = Dated(x) /\ Timely(x)' = Timely(x)
  BY DEF Dated, Timely
<1>2. CallHolds(udpCall[x], Dated(x), Timely(x), mislaid)
  BY DEF UdpIInv
<1>3. QED
  BY <1>1, <1>2 DEF CallHolds, Counted, Due, JustSent, Young

LEMMA SendingKeeps ==
    ASSUME UdpIInv, NEW c \in UdpCall, NEW k \in CallState, NEW rest \in SUBSET dgram,
           Sending(c, k, rest), mislaid' = mislaid, cached' \in CallState, CachedIsYoung',
           k.at \in {"connect", "ask"}, k.tries <= MaxRetries,
           \A d \in dgram \ rest : d.of = c,
           \A d \in rest : d.of = c /\ d.is = "ask" => d.id = k.id,
           NEW dated, dated = {d \in rest : d.of = c /\ d.is \in {"connect", "granted"}},
           k.at = "connect" => /\ \A d \in rest : d.of = c => d.is \in {"connect", "granted"}
                               /\ Cardinality(dated) <= k.tries,
           mislaid < MaxMislaid => /\ Due(k, dated) <= mislaid
                                   /\ k.at = "ask" => Honoured < ConnIdTTL + k.id + Backoff[mislaid]
    PROVE  UdpIInv'
<1> DEFINE r == Request(c, k)
           l == [k EXCEPT !.tries = @ + 1, !.wait = Backoff[k.tries]]
<1>1. /\ udpCall' = [udpCall EXCEPT ![c] = l] /\ dgram' = rest \cup {r}
      /\ r = [of |-> c, is |-> k.at, id |-> k.id]
  BY DEF Sending, Request
<1>2. /\ MaxMislaid \in Nat /\ MaxRetries \in Nat /\ MaxRetries < MaxMislaid
      /\ Honoured \in Nat /\ ConnIdTTL \in Nat /\ mislaid \in 0..MaxMislaid
  BY UdpAssumption DEF UdpIInv, UdpTypes
<1>3. /\ k.tries \in Nat /\ k.tries \in 0..MaxMislaid /\ k.id \in Nat
      /\ Backoff[k.tries] \in Nat /\ Backoff[mislaid] \in Nat
  <2>1. k.tries \in Nat /\ k.id \in Nat
    BY <1>2 DEF CallState
  <2>2. k.tries \in 0..MaxMislaid
    BY <1>2, <2>1
  <2>3. QED
    BY <1>2, <2>1, <2>2, Waits
<1>4. l \in CallState /\ l.at = k.at /\ l.tries = k.tries + 1 /\ l.wait = Backoff[k.tries] /\ l.id = k.id
  <2> DEFINE n == k.tries + 1
             w == Backoff[k.tries]
  <2>1. n \in 0..MaxRetries + 1 /\ w \in Nat
    BY <1>2, <1>3
  <2>2. l = [k EXCEPT !.tries = n, !.wait = w]
    OBVIOUS
  <2> HIDE DEF n, w, l
  <2>3. l \in CallState /\ l.at = k.at /\ l.tries = n /\ l.wait = w /\ l.id = k.id
    BY <2>1, <2>2 DEF CallState
  <2>4. QED
    BY <2>3 DEF n, w
<1>5. udpCall'[c] = l /\ udpCall' \in [UdpCall -> CallState] /\ \A x \in UdpCall : x # c => udpCall'[x] = udpCall[x]
  BY <1>1, <1>4 DEF UdpIInv, UdpTypes
<1> HIDE DEF l, r
<1>6. UdpTypes'
  <2>1. r \in [of : UdpCall, is : DgramKinds, id : Nat]
    BY <1>1, <1>3 DEF DgramKinds
  <2>2. IsFiniteSet(rest) /\ rest \subseteq [of : UdpCall, is : DgramKinds, id : Nat]
    BY FS_Subset DEF UdpIInv, UdpTypes
  <2>3. IsFiniteSet(dgram')
    BY <1>1, <2>2, FS_AddElement
  <2>4. QED
    BY <1>1, <1>2, <1>5, <2>1, <2>2, <2>3 DEF UdpTypes
<1>7. IsFiniteSet(dated) /\ Cardinality(dated) \in Nat
  BY FS_Subset, FS_CardinalityType DEF UdpIInv, UdpTypes
<1>8. CallHolds(l, Dated(c)', Timely(c)', mislaid)
  <2>1. CASE k.at = "connect"
    <3>1. Dated(c)' = dated \cup {r} /\ Timely(c)' = {}
      BY <1>1, <2>1 DEF Dated, Timely
    <3>2. Cardinality(Dated(c)') \in Nat /\ Cardinality(Dated(c)') <= Cardinality(dated) + 1
      <4>1. Cardinality(dated \cup {r}) = IF r \in dated THEN Cardinality(dated) ELSE Cardinality(dated) + 1
        BY <1>7, FS_AddElement
      <4>2. Cardinality(dated \cup {r}) \in Nat /\ Cardinality(dated \cup {r}) <= Cardinality(dated) + 1
        BY <1>7, <4>1
      <4>3. QED
        BY <3>1, <4>2
    <3>3. Due(l, Dated(c)') = l.tries /\ Due(k, dated) = k.tries
      BY <1>3, <1>4, <2>1 DEF Due
    <3>4. JustSent(l, Dated(c)', Timely(c)')
      BY <1>3, <1>4, <2>1, <3>1 DEF JustSent
    <3>5. mislaid < MaxMislaid => Counted(l, Dated(c)', Timely(c)', mislaid)
      BY <1>2, <1>3, <1>4, <3>3, <3>4 DEF Counted
    <3>6. Cardinality(Dated(c)') <= l.tries
      BY <1>3, <1>4, <1>7, <2>1, <3>2
    <3>7. l.tries > 0 /\ l.wait <= Backoff[l.tries - 1]
      BY <1>3, <1>4
    <3>8. QED
      BY <1>4, <2>1, <3>1, <3>5, <3>6, <3>7 DEF CallHolds, Young
  <2>2. CASE k.at = "ask"
    <3>1. Dated(c)' = dated /\ r \in Timely(c)'
      BY <1>1, <2>2 DEF Dated, Timely
    <3>2. Due(l, Dated(c)') = Due(k, dated) + 1 /\ Due(k, dated) \in Nat
      BY <1>3, <1>4, <1>7, <2>2, <3>1 DEF Due
    <3>3. JustSent(l, Dated(c)', Timely(c)')
      BY <1>3, <1>4, <2>2, <3>1 DEF JustSent
    <3>4. mislaid < MaxMislaid => Counted(l, Dated(c)', Timely(c)', mislaid)
      BY <1>2, <3>2, <3>3 DEF Counted
    <3>5. mislaid < MaxMislaid => Young(l, Timely(c)', mislaid)
      BY <1>2, <1>3, <1>4, <2>2, <3>1 DEF Young
    <3>6. l.tries > 0 /\ l.wait <= Backoff[l.tries - 1]
      BY <1>3, <1>4
    <3>7. QED
      BY <1>4, <2>2, <3>4, <3>5, <3>6 DEF CallHolds
  <2>3. QED
    BY <2>1, <2>2
<1>9. ASSUME NEW x \in UdpCall
      PROVE  CallHolds(udpCall[x], Dated(x), Timely(x), mislaid)'
  <2>1. CASE x = c
    BY <1>5, <1>8, <2>1 DEF CallHolds, Counted, Due, JustSent, Young
  <2>2. CASE x # c
    BY <1>1, <1>5, <2>2, OthersHold
  <2>3. QED
    BY <2>1, <2>2
<1>10. ASSUME NEW d \in dgram'
       PROVE  DgramHolds(d, mislaid)'
  <2>1. CASE d = r
    BY <1>1, <1>4, <1>5, <2>1 DEF DgramHolds
  <2>2. CASE d # r
    <3>1. d \in rest /\ d \in dgram /\ DgramHolds(d, mislaid)
      BY <1>1, <2>2 DEF UdpIInv
    <3>2. d.of \in UdpCall
      BY <3>1 DEF UdpIInv, UdpTypes
    <3>3. d.is = "ask" => d.id = udpCall'[d.of].id
      BY <1>4, <1>5, <3>1, <3>2 DEF DgramHolds
    <3>4. QED
      BY <3>1, <3>3 DEF DgramHolds
  <2>3. QED
    BY <2>1, <2>2
<1>11. QED
  BY <1>6, <1>9, <1>10 DEF UdpIInv

LEMMA ClosingKeeps ==
    ASSUME UdpIInv, NEW c \in UdpCall, NEW end \in {"done", "failed", "cancelled"}, NEW reply \in {"none", "answer", "refusal"},
           Closes(c, end, reply), mislaid' = mislaid, cached' \in CallState, CachedIsYoung',
           end = "done" => reply = "answer",
           end = "failed" => IF reply = "refusal" THEN Backoff[mislaid] > Honoured - ConnIdTTL ELSE mislaid > MaxRetries
    PROVE  UdpIInv'
<1> DEFINE l == [NotCalling EXCEPT !.at = end, !.took = reply]
<1>1. l.at = end /\ l.took = reply /\ l \in CallState
  <2>1. MaxRetries \in Nat
    BY UdpAssumption
  <2>2. 0 \in 0..MaxRetries + 1
    BY <2>1
  <2>3. NotCalling \in CallState
    BY <2>2 DEF NotCalling, CallState
  <2>4. QED
    BY <2>3 DEF CallState
<1>2. udpCall' = [udpCall EXCEPT ![c] = l] /\ dgram' = {d \in dgram : d.of # c}
  BY DEF Closes
<1> HIDE DEF l
<1>3. l \in CallState
  BY <1>1
<1>4. udpCall'[c] = l /\ udpCall' \in [UdpCall -> CallState] /\ \A x \in UdpCall : x # c => udpCall'[x] = udpCall[x]
  BY <1>2, <1>3 DEF UdpIInv, UdpTypes
<1>5. UdpTypes'
  BY <1>2, <1>4, FS_Subset DEF UdpIInv, UdpTypes
<1>6. CachedIsYoung'
  OBVIOUS
<1>7. ASSUME NEW x \in UdpCall
      PROVE  CallHolds(udpCall[x], Dated(x), Timely(x), mislaid)'
  <2>1. CASE x = c
    <3>1. Dated(c)' = {} /\ Timely(c)' = {}
      BY <1>2 DEF Dated, Timely
    <3>2. QED
      BY <1>1, <1>4, <2>1, <3>1 DEF CallHolds
  <2>2. CASE x # c
    BY <1>2, <1>4, <2>2, OthersHold
  <2>3. QED
    BY <2>1, <2>2
<1>8. ASSUME NEW d \in dgram'
      PROVE  DgramHolds(d, mislaid)'
  <2>1. d \in dgram /\ d.of # c /\ d.of \in UdpCall /\ DgramHolds(d, mislaid)
    BY <1>2 DEF UdpIInv, UdpTypes
  <2>2. QED
    BY <1>4, <2>1 DEF DgramHolds
<1>9. QED
  BY <1>5, <1>6, <1>7, <1>8 DEF UdpIInv

LEMMA CallState0 == NotCalling \in CallState /\ NotCalling.tries = 0 /\ NotCalling.wait = 0
<1>1. MaxRetries \in Nat /\ 0 \in 0..MaxRetries + 1
  BY UdpAssumption
<1>2. QED
  BY <1>1 DEF NotCalling, CallState

LEMMA BeginCallKeeps ==
    ASSUME UdpIInv, NEW c \in UdpCall, BeginCall(c)
    PROVE  UdpIInv'
<1> DEFINE k == IF Fresh THEN [NotCalling EXCEPT !.at = "ask", !.id = cached.id] ELSE [NotCalling EXCEPT !.at = "connect"]
<1>1. Sending(c, k, dgram) /\ cached' = cached /\ mislaid' = mislaid /\ udpCall[c].at = "idle"
  BY DEF BeginCall
<1>2. /\ k \in CallState /\ k.tries = 0 /\ k.at \in {"connect", "ask"}
      /\ k.at = "ask" => cached.wait > 0 /\ k.id = cached.id
  BY CallState0 DEF UdpIInv, UdpTypes, CallState, Fresh
<1> HIDE DEF k
<1>3. CallHolds(udpCall[c], Dated(c), Timely(c), mislaid) /\ cached \in CallState /\ mislaid \in 0..MaxMislaid
  BY DEF UdpIInv, UdpTypes
<1>4. Dated(c) = {} /\ Timely(c) = {}
  BY <1>1, <1>3 DEF CallHolds
<1>5. \A d \in dgram : d.of # c
  BY <1>4 DEF Dated, Timely
<1>6. {d \in dgram : d.of = c /\ d.is \in {"connect", "granted"}} = {} /\ Cardinality({}) = 0
  BY <1>5, FS_EmptySet
<1>7. Due(k, {}) = 0
  BY <1>2, <1>6 DEF Due
<1>8. mislaid < MaxMislaid /\ k.at = "ask" => Honoured < ConnIdTTL + k.id + Backoff[mislaid]
  <2>1. Honoured \in Nat /\ ConnIdTTL \in Nat /\ Backoff[mislaid] \in Nat /\ cached.wait \in Nat /\ cached.id \in Nat
    BY <1>3, UdpAssumption, Waits DEF CallState
  <2>2. QED
    BY <1>2, <2>1 DEF UdpIInv, CachedIsYoung
<1>9. MaxRetries \in Nat /\ mislaid \in Nat
  BY <1>3, UdpAssumption
<1>10. CachedIsYoung'
  BY <1>1 DEF UdpIInv, CachedIsYoung
<1>11. QED
  BY <1>1, <1>2, <1>3, <1>5, <1>6, <1>7, <1>8, <1>9, <1>10, SendingKeeps

\* Again, from a call that has to: what it tried is paid for already.
LEMMA AgainKeeps ==
    ASSUME UdpIInv, NEW c \in UdpCall, NEW rest \in SUBSET dgram, Calling(c), Again(c, rest),
           cached' = cached, mislaid' = mislaid,
           \A d \in dgram \ rest : d.of = c,
           NEW dated, dated = {d \in rest : d.of = c /\ d.is \in {"connect", "granted"}},
           udpCall[c].at = "connect" => rest = dgram,
           mislaid < MaxMislaid => Due(udpCall[c], dated) <= mislaid
    PROVE  UdpIInv'
<1> DEFINE k == udpCall[c]
<1>1. /\ k \in CallState /\ cached \in CallState /\ mislaid \in 0..MaxMislaid /\ CachedIsYoung
      /\ CallHolds(k, Dated(c), Timely(c), mislaid) /\ k.at \in {"connect", "ask"}
  BY DEF UdpIInv, UdpTypes, Calling
<1>2. /\ MaxMislaid \in Nat /\ MaxRetries \in Nat /\ MaxRetries < MaxMislaid /\ Honoured \in Nat /\ ConnIdTTL \in Nat
      /\ k.tries \in Nat /\ k.id \in Nat /\ k.wait \in Nat /\ Backoff[mislaid] \in Nat
  <2>1. MaxMislaid \in Nat /\ MaxRetries \in Nat /\ MaxRetries < MaxMislaid /\ Honoured \in Nat /\ ConnIdTTL \in Nat
    BY UdpAssumption
  <2>2. k.tries \in Nat /\ k.id \in Nat /\ k.wait \in Nat
    <3> HIDE DEF k
    <3>1. QED
      BY <1>1, <2>1 DEF CallState
  <2>3. Backoff[mislaid] \in Nat
    BY <1>1, Waits
  <2>4. QED
    BY <2>1, <2>2, <2>3
<1>3. CachedIsYoung'
  BY <1>1 DEF CachedIsYoung
<1>4. CASE c \notin cancelled /\ k.tries <= MaxRetries
  <2>1. Sending(c, k, rest)
    BY <1>4 DEF Again, SendsOn
  <2>2. \A d \in rest : d.of = c /\ d.is = "ask" => d.id = k.id
    BY DEF UdpIInv, DgramHolds
  <2>3. k.at = "connect" => /\ \A d \in rest : d.of = c => d.is \in {"connect", "granted"}
                            /\ Cardinality(dated) <= k.tries
    <3>1. k.at = "connect" => Timely(c) = {} /\ Cardinality(Dated(c)) <= k.tries
      BY <1>1 DEF CallHolds
    <3>2. rest = dgram => dated = Dated(c)
      BY DEF Dated
    <3>3. QED
      BY <3>1, <3>2 DEF Timely
  <2>4. mislaid < MaxMislaid /\ k.at = "ask" => Honoured < ConnIdTTL + k.id + Backoff[mislaid]
    BY <1>1, <1>2 DEF CallHolds, Young
  <2> HIDE DEF k
  <2>5. QED
    BY <1>1, <1>3, <1>4, <2>1, <2>2, <2>3, <2>4, SendingKeeps DEF k
<1>5. CASE c \notin cancelled /\ k.tries > MaxRetries
  <2>1. Closes(c, "failed", "none")
    BY <1>2, <1>5 DEF Again
  <2>2. Cardinality(dated) \in Nat
    BY FS_Subset, FS_CardinalityType DEF UdpIInv, UdpTypes
  <2>3. mislaid > MaxRetries
    BY <1>1, <1>2, <1>5, <2>2 DEF Due
  <2>4. QED
    BY <1>1, <1>3, <2>1, <2>3, ClosingKeeps
<1>6. CASE c \in cancelled
  <2>1. Closes(c, "cancelled", "none")
    BY <1>6 DEF Again, SendsOn
  <2>2. QED
    BY <1>1, <1>3, <2>1, ClosingKeeps
<1>7. QED
  BY <1>2, <1>4, <1>5, <1>6

LEMMA TryAgainKeeps ==
    ASSUME UdpIInv, NEW c \in UdpCall, TryAgain(c)
    PROVE  UdpIInv'
<1> DEFINE k == udpCall[c]
<1>1. /\ Calling(c) /\ k.wait = 0 /\ Again(c, dgram) /\ cached' = cached /\ mislaid' = mislaid
  BY DEF TryAgain
<1>2. /\ k \in CallState /\ mislaid \in 0..MaxMislaid
      /\ CallHolds(k, Dated(c), Timely(c), mislaid) /\ k.at \in {"connect", "ask"}
  BY <1>1 DEF UdpIInv, UdpTypes, Calling
<1>3. k.tries - 1 \in 0..MaxMislaid
  <2>1. k.tries \in 0..MaxRetries + 1 /\ k.tries > 0
    BY <1>2 DEF CallState, CallHolds
  <2>2. MaxRetries \in Nat /\ MaxMislaid \in Nat /\ MaxRetries < MaxMislaid
    BY UdpAssumption
  <2>3. QED
    BY <2>1, <2>2
<1>4. Backoff[k.tries - 1] > 0 /\ Backoff[k.tries - 1] \in Nat
  BY <1>3, Waits
<1>5. mislaid < MaxMislaid => Due(k, Dated(c)) <= mislaid
  BY <1>1, <1>2, <1>4 DEF CallHolds, Counted, JustSent
<1>6. QED
  BY <1>1, <1>5, AgainKeeps DEF Dated

LEMMA ReadReplyKeeps ==
    ASSUME UdpIInv, NEW c \in UdpCall, NEW d \in dgram, ReadReply(c, d)
    PROVE  UdpIInv'
<1> DEFINE k == udpCall[c]
           rest == dgram \ {d}
           dated == {e \in rest : e.of = c /\ e.is \in {"connect", "granted"}}
<1>1. /\ k \in CallState /\ cached \in CallState /\ mislaid \in 0..MaxMislaid /\ IsFiniteSet(dgram)
      /\ CallHolds(k, Dated(c), Timely(c), mislaid) /\ DgramHolds(d, mislaid)
      /\ d.is \in DgramKinds /\ d.id \in Nat
  BY DEF UdpIInv, UdpTypes
<1>2. /\ k.at \in {"connect", "ask"} /\ d.of = c /\ d.is \in {"granted", "answer", "refusal"} /\ mislaid' = mislaid
      /\ k.at = "connect" => Timely(c) = {}
  BY <1>1 DEF ReadReply, Calling, CallHolds
<1>3. MaxMislaid \in Nat /\ MaxRetries \in Nat /\ Honoured \in Nat /\ ConnIdTTL \in Nat /\ Honoured < ConnIdTTL + Backoff[MaxMislaid]
  BY UdpAssumption
<1>4. Backoff[mislaid] \in Nat
  BY <1>1, Waits
<1>5. IsFiniteSet(Dated(c)) /\ Cardinality(Dated(c)) \in Nat
  BY DatedIsFinite DEF UdpIInv
<1>6. d.is = "granted" => dated = Dated(c) \ {d} /\ d \in Dated(c)
  BY <1>2 DEF Dated
<1>7. d.is = "granted" => Cardinality(dated) \in Nat /\ Cardinality(dated) = Cardinality(Dated(c)) - 1
  <2>1. d.is = "granted" => Cardinality(Dated(c) \ {d}) = Cardinality(Dated(c)) - 1 /\ IsFiniteSet(Dated(c) \ {d})
    BY <1>5, <1>6, FS_RemoveElement
  <2>2. d.is = "granted" => Cardinality(dated) \in Nat
    BY <1>6, <2>1, FS_CardinalityType
  <2>3. QED
    BY <1>6, <2>1, <2>2
<1>8. k.tries \in Nat /\ k.id \in Nat /\ k.wait \in Nat
  <2> HIDE DEF k
  <2>1. QED
    BY <1>1, <1>3 DEF CallState
<1>9. CASE ~SameTransaction(c, d)
  <2>1. Again(c, rest) /\ cached' = cached
    BY <1>9 DEF ReadReply
  <2>2. k.at = "ask" /\ d.is = "granted"
    BY <1>2, <1>9 DEF SameTransaction, Timely
  <2>3. mislaid < MaxMislaid => Due(k, dated) <= mislaid
    <3>1. mislaid < MaxMislaid => Counted(k, Dated(c), Timely(c), mislaid)
      BY <1>1, <2>2 DEF CallHolds
    <3>2. mislaid < MaxMislaid => Due(k, Dated(c)) <= mislaid + 1
      BY <1>1, <1>3, <1>5, <1>8, <2>2, <3>1 DEF Counted, Due
    <3>3. Due(k, Dated(c)) = k.tries + Cardinality(Dated(c)) /\ Due(k, dated) = k.tries + Cardinality(dated)
      BY <2>2 DEF Due
    <3> HIDE DEF k, dated
    <3>4. QED
      BY <1>1, <1>3, <1>5, <1>7, <1>8, <2>2, <3>2, <3>3
  <2>4. rest \in SUBSET dgram /\ (\A e \in dgram \ rest : e.of = c)
    BY <1>2
  <2>5. dated = {e \in rest : e.of = c /\ e.is \in {"connect", "granted"}} /\ Calling(c) /\ k.at # "connect"
    BY <2>2 DEF Calling
  <2> HIDE DEF rest, dated
  <2>6. QED
    BY <1>2, <2>1, <2>3, <2>4, <2>5, AgainKeeps
<1>10. CASE SameTransaction(c, d) /\ k.at = "connect"
  <2> DEFINE m == [NotCalling EXCEPT !.at = "ask", !.id = d.id]
  <2>1. SendsOn(c, m, rest) /\ cached' = [NotCalling EXCEPT !.at = "ask", !.id = d.id, !.wait = ConnIdTTL] /\ d.is = "granted"
    BY <1>10 DEF ReadReply, SameTransaction
  <2>2. m \in CallState /\ m.at = "ask" /\ m.tries = 0 /\ m.id = d.id
    BY <1>1, CallState0 DEF CallState
  <2>3. cached' \in CallState /\ cached'.wait = ConnIdTTL /\ cached'.id = d.id
    BY <1>1, <1>3, <2>1, CallState0 DEF CallState
  <2>4. mislaid < MaxMislaid => Honoured < d.id + Backoff[mislaid]
    BY <1>1, <2>1 DEF DgramHolds
  <2>5. CachedIsYoung'
    BY <1>1, <1>2, <1>3, <1>4, <2>3, <2>4 DEF CachedIsYoung
  <2>6. mislaid < MaxMislaid => Cardinality(dated) <= mislaid
    <3>1. mislaid < MaxMislaid => Counted(k, Dated(c), Timely(c), mislaid)
      BY <1>1, <1>2 DEF CallHolds
    <3>2. mislaid < MaxMislaid => k.tries <= mislaid + 1
      BY <1>1, <1>3, <1>8, <1>10, <3>1 DEF Counted, Due
    <3>3. Cardinality(Dated(c)) <= k.tries
      BY <1>1, <1>10 DEF CallHolds
    <3> HIDE DEF k, dated
    <3>4. QED
      BY <1>1, <1>3, <1>5, <1>7, <1>8, <2>1, <3>2, <3>3
  <2>7. \A e \in rest : e.of = c /\ e.is = "ask" => e.id = m.id
    BY <1>2, <1>10 DEF Timely
  <2>8. rest \in SUBSET dgram /\ (\A e \in dgram \ rest : e.of = c)
    BY <1>2
  <2>9. dated = {e \in rest : e.of = c /\ e.is \in {"connect", "granted"}}
    OBVIOUS
  <2>10. /\ mislaid < MaxMislaid => Due(m, dated) <= mislaid
         /\ mislaid < MaxMislaid => Honoured < ConnIdTTL + m.id + Backoff[mislaid]
    <3> HIDE DEF m, dated
    <3>1. Due(m, dated) = Cardinality(dated)
      BY <1>7, <2>1, <2>2 DEF Due
    <3>2. QED
      BY <1>1, <1>3, <1>4, <2>2, <2>4, <2>6, <3>1
  <2>11. m.tries <= MaxRetries
    BY <1>3, <2>2
  <2> HIDE DEF m, rest, dated
  <2>12. CASE c \notin cancelled
    <3>1. Sending(c, m, rest)
      BY <2>1, <2>12 DEF SendsOn
    <3>2. QED
      BY <1>2, <2>1, <2>2, <2>3, <2>5, <2>7, <2>8, <2>9, <2>10, <2>11, <3>1, SendingKeeps
  <2>13. CASE c \in cancelled
    <3>1. Closes(c, "cancelled", "none")
      BY <2>1, <2>13 DEF SendsOn
    <3>2. QED
      BY <1>2, <2>3, <2>5, <3>1, ClosingKeeps
  <2>14. QED
    BY <2>12, <2>13
<1>11. CASE SameTransaction(c, d) /\ k.at = "ask"
  <2>1. Closes(c, IF d.is = "refusal" THEN "failed" ELSE "done", d.is) /\ cached' = cached
    BY <1>11 DEF ReadReply
  <2>2. d.is \in {"answer", "refusal"}
    BY <1>2, <1>11 DEF SameTransaction
  <2>3. d.is = "refusal" => Backoff[mislaid] > Honoured - ConnIdTTL
    <3>1. mislaid < MaxMislaid /\ d.is = "refusal" => Honoured < ConnIdTTL + Backoff[mislaid]
      BY <1>1 DEF DgramHolds
    <3>2. ~(mislaid < MaxMislaid) => mislaid = MaxMislaid
      BY <1>1, <1>3
    <3>3. d.is = "refusal" => Honoured < ConnIdTTL + Backoff[mislaid]
      BY <1>3, <3>1, <3>2
    <3> HIDE DEF k, rest, dated
    <3>4. QED
      BY <1>3, <1>4, <3>3
  <2>4. cached' \in CallState /\ CachedIsYoung'
    BY <1>1, <1>2, <2>1 DEF UdpIInv, CachedIsYoung
  <2>5. CASE d.is = "refusal"
    BY <1>2, <2>1, <2>3, <2>4, <2>5, ClosingKeeps
  <2>6. CASE d.is = "answer"
    BY <1>2, <2>1, <2>4, <2>6, ClosingKeeps
  <2>7. QED
    BY <2>2, <2>5, <2>6
<1>12. QED
  BY <1>2, <1>9, <1>10, <1>11

LEMMA CancelCallKeeps ==
    ASSUME UdpIInv, NEW c \in UdpCall, CancelCall(c)
    PROVE  UdpIInv'
<1>1. cached' = cached /\ mislaid' = mislaid
  BY DEF CancelCall
<1>2. cached' \in CallState /\ CachedIsYoung'
  BY <1>1 DEF UdpIInv, UdpTypes, CachedIsYoung
<1>3. CASE Closes(c, "cancelled", "none")
  BY <1>1, <1>2, <1>3, ClosingKeeps
<1>4. CASE UNCHANGED <<udpCall, dgram>>
  BY <1>1, <1>4
     DEF UdpIInv, UdpTypes, CachedIsYoung, CallHolds, Counted, Due, JustSent, Young, DgramHolds, Dated, Timely
<1>5. QED
  BY <1>3, <1>4 DEF CancelCall

\* What a call holds of its datagrams only matters by which there are, and of those
\* of its connect, how many at most.
LEMMA FewerHolds ==
    ASSUME NEW k \in CallState, NEW n \in 0..MaxMislaid, NEW old, NEW timely, NEW dated, NEW new,
           CallHolds(k, old, timely, n), Cardinality(old) \in Nat, Cardinality(dated) \in Nat,
           Cardinality(dated) <= Cardinality(old), dated = {} <=> old = {}, new = {} <=> timely = {}
    PROVE  CallHolds(k, dated, new, n)
<1>1. k.tries \in Nat /\ n \in Nat
  <2>1. MaxRetries \in Nat /\ MaxMislaid \in Nat
    BY UdpAssumption
  <2>2. QED
    BY <2>1 DEF CallState
<1>2. Due(k, dated) \in Nat /\ Due(k, old) \in Nat /\ Due(k, dated) <= Due(k, old)
  BY <1>1 DEF Due
<1>3. Counted(k, old, timely, n) => Counted(k, dated, new, n)
  BY <1>1, <1>2 DEF Counted, JustSent
<1>4. Young(k, timely, n) => Young(k, new, n)
  BY DEF Young
<1>5. k.at = "connect" /\ Cardinality(old) <= k.tries => Cardinality(dated) <= k.tries
  BY <1>1
<1>6. QED
  BY <1>3, <1>4, <1>5 DEF CallHolds

LEMMA RepliedKeeps ==
    ASSUME UdpIInv, NEW d \in dgram, NEW r \in [of : UdpCall, is : DgramKinds, id : Nat], Replied(d, r),
           r.of = d.of, r.is # "ask", d.is \in {"connect", "granted"} <=> r.is \in {"connect", "granted"},
           mislaid < MaxMislaid => /\ r.is = "granted" => Honoured < r.id + Backoff[mislaid]
                                   /\ r.is = "refusal" => Honoured < ConnIdTTL + Backoff[mislaid]
    PROVE  UdpIInv'
<1>1. dgram' = (dgram \ {d}) \cup {r} /\ cached' = cached /\ udpCall' = udpCall /\ mislaid' = mislaid
  BY DEF Replied
<1>2. UdpTypes /\ UdpTypes'
  <2>1. IsFiniteSet(dgram \ {d})
    BY FS_Subset DEF UdpIInv, UdpTypes
  <2>2. IsFiniteSet(dgram')
    BY <1>1, <2>1, FS_AddElement
  <2>3. QED
    BY <1>1, <2>2 DEF UdpIInv, UdpTypes
<1>3. CachedIsYoung'
  BY <1>1 DEF UdpIInv, CachedIsYoung
<1>4. ASSUME NEW x \in UdpCall
      PROVE  CallHolds(udpCall[x], Dated(x), Timely(x), mislaid)'
  <2>1. CallHolds(udpCall[x], Dated(x), Timely(x), mislaid) /\ udpCall[x] \in CallState /\ mislaid \in 0..MaxMislaid
    BY <1>2 DEF UdpIInv, UdpTypes
  <2>2. CASE x # d.of
    <3>1. d.of \in UdpCall
      BY DEF UdpIInv, UdpTypes
    <3>2. (\A e \in dgram' : e.of # d.of => e \in dgram) /\ (\A e \in dgram : e.of # d.of => e \in dgram')
      BY <1>1
    <3>3. QED
      BY <1>1, <2>2, <3>1, <3>2, OthersHold
  <2>3. CASE x = d.of /\ d.is \in {"connect", "granted"}
    <3>1. Dated(x)' = (Dated(x) \ {d}) \cup {r} /\ Timely(x)' = Timely(x) /\ d \in Dated(x)
      BY <1>1, <2>3 DEF Dated, Timely
    <3>2. IsFiniteSet(Dated(x)) /\ Cardinality(Dated(x)) \in Nat
      BY <1>2, DatedIsFinite
    <3>3. IsFiniteSet(Dated(x) \ {d}) /\ Cardinality(Dated(x) \ {d}) = Cardinality(Dated(x)) - 1
      BY <3>1, <3>2, FS_RemoveElement
    <3>4. Cardinality(Dated(x) \ {d}) \in Nat
      BY <3>3, FS_CardinalityType
    <3> DEFINE s == Dated(x) \ {d}
    <3>5. IsFiniteSet(s) /\ Cardinality(s) \in Nat /\ Cardinality(s) = Cardinality(Dated(x)) - 1 /\ Dated(x)' = s \cup {r}
      BY <3>1, <3>3, <3>4
    <3> HIDE DEF s
    <3>6. Cardinality(s \cup {r}) = (IF r \in s THEN Cardinality(s) ELSE Cardinality(s) + 1)
      BY <3>5, FS_AddElement
    <3>7. Cardinality(Dated(x)') \in Nat /\ Cardinality(Dated(x)') <= Cardinality(Dated(x))
      BY <3>2, <3>5, <3>6
    <3>8. CallHolds(udpCall[x], Dated(x)', Timely(x)', mislaid)
      BY <2>1, <3>1, <3>2, <3>7, FewerHolds
    <3>9. QED
      BY <1>1, <3>8 DEF CallHolds, Counted, Due, JustSent, Young
  <2>4. CASE x = d.of /\ d.is \notin {"connect", "granted"}
    <3>1. Dated(x)' = Dated(x) /\ Timely(x)' = (Timely(x) \ {d}) \cup {r} /\ d \in Timely(x)
      BY <1>1, <2>4 DEF Dated, Timely
    <3>2. Cardinality(Dated(x)) \in Nat
      BY <1>2, DatedIsFinite
    <3>3. CallHolds(udpCall[x], Dated(x)', Timely(x)', mislaid)
      BY <2>1, <3>1, <3>2, FewerHolds
    <3>4. QED
      BY <1>1, <3>3 DEF CallHolds, Counted, Due, JustSent, Young
  <2>5. QED
    BY <2>2, <2>3, <2>4
<1>5. ASSUME NEW e \in dgram'
      PROVE  DgramHolds(e, mislaid)'
  <2>1. CASE e = r
    BY <1>1, <2>1 DEF DgramHolds
  <2>2. CASE e # r
    <3>1. e \in dgram /\ DgramHolds(e, mislaid)
      BY <1>1, <2>2 DEF UdpIInv
    <3>2. QED
      BY <1>1, <3>1 DEF DgramHolds
  <2>3. QED
    BY <2>1, <2>2
<1>6. QED
  BY <1>2, <1>3, <1>4, <1>5 DEF UdpIInv

LEMMA GrantsKeeps ==
    ASSUME UdpIInv, NEW d \in dgram, Grants(d)
    PROVE  UdpIInv'
<1> DEFINE r == [of |-> d.of, is |-> "granted", id |-> Honoured]
<1>1. d.is = "connect" /\ Replied(d, r) /\ d.of \in UdpCall /\ mislaid \in 0..MaxMislaid
  BY DEF Grants, UdpIInv, UdpTypes
<1>2. Honoured \in Nat /\ Backoff[mislaid] \in Nat /\ Backoff[mislaid] > 0
  BY <1>1, UdpAssumption, Waits
<1>3. /\ r \in [of : UdpCall, is : DgramKinds, id : Nat] /\ r.of = d.of /\ r.is = "granted"
      /\ Honoured < r.id + Backoff[mislaid]
  BY <1>1, <1>2 DEF DgramKinds
<1> HIDE DEF r
<1>4. QED
  BY <1>1, <1>3, RepliedKeeps

\* An identifier that is refused was used up waiting for what was mislaid.
LEMMA AnswersKeeps ==
    ASSUME UdpIInv, NEW d \in dgram, Answers(d)
    PROVE  UdpIInv'
<1> DEFINE c == d.of
           r == [of |-> c, is |-> IF d.id > 0 THEN "answer" ELSE "refusal", id |-> 0]
<1>1. d.is = "ask" /\ Replied(d, r) /\ c \in UdpCall /\ mislaid \in 0..MaxMislaid /\ d.id \in Nat
  BY DEF Answers, UdpIInv, UdpTypes
<1>2. /\ CallHolds(udpCall[c], Dated(c), Timely(c), mislaid) /\ d.id = udpCall[c].id /\ udpCall[c] \in CallState
      /\ d \in Timely(c)
  BY <1>1 DEF UdpIInv, UdpTypes, DgramHolds, Timely
<1>3. udpCall[c].at = "ask"
  BY <1>2 DEF CallHolds, CallState
<1>4. mislaid < MaxMislaid => Honoured < ConnIdTTL + d.id + Backoff[mislaid]
  <2>1. Timely(c) # {}
    BY <1>2
  <2>2. mislaid < MaxMislaid => Young(udpCall[c], Timely(c), mislaid)
    BY <1>2, <1>3 DEF CallHolds
  <2>3. Honoured \in Nat
    BY UdpAssumption
  <2>4. QED
    BY <1>2, <1>3, <2>1, <2>2, <2>3 DEF Young
<1>5. ConnIdTTL \in Nat /\ Honoured \in Nat /\ Backoff[mislaid] \in Nat
  BY <1>1, UdpAssumption, Waits
<1>6. /\ r \in [of : UdpCall, is : DgramKinds, id : Nat] /\ r.of = c /\ r.is \in {"answer", "refusal"}
      /\ r.is = "refusal" => d.id = 0
  BY <1>1 DEF DgramKinds
<1> HIDE DEF r
<1>7. mislaid < MaxMislaid /\ r.is = "refusal" => Honoured < ConnIdTTL + Backoff[mislaid]
  BY <1>4, <1>5, <1>6
<1>8. QED
  BY <1>1, <1>6, <1>7, RepliedKeeps

LEMMA DgramsAge ==
    ASSUME NEW n \in 0..MaxMislaid, NEW m \in 0..MaxMislaid, n <= m, NEW d, d.id \in Nat, DgramHolds(d, n)
    PROVE  DgramHolds(d, m)
<1>1. Backoff[n] \in Nat /\ Backoff[m] \in Nat /\ Backoff[n] <= Backoff[m]
  BY Waits
<1>2. MaxMislaid \in Nat /\ Honoured \in Nat /\ ConnIdTTL \in Nat /\ n \in Nat /\ m \in Nat
  BY UdpAssumption
<1>3. QED
  BY <1>1, <1>2 DEF DgramHolds

LEMMA LoseDgramKeeps ==
    ASSUME UdpIInv, NEW d \in dgram, LoseDgram(d)
    PROVE  UdpIInv'
<1> DEFINE n == mislaid
           m == mislaid + 1
<1>1. dgram' = dgram \ {d} /\ cached' = cached /\ udpCall' = udpCall /\ mislaid' = m /\ n < MaxMislaid /\ UdpTypes
  BY DEF LoseDgram, Mislays, UdpIInv
<1>2. MaxMislaid \in Nat /\ MaxRetries \in Nat /\ Honoured \in Nat /\ ConnIdTTL \in Nat
  BY UdpAssumption
<1>3. n \in 0..MaxMislaid /\ m \in 0..MaxMislaid /\ n <= m /\ n \in Nat
  BY <1>1, <1>2 DEF UdpTypes
<1>4. /\ Backoff[n] \in Nat /\ Backoff[m] \in Nat /\ Backoff[n] > 0
      /\ Backoff[n] <= Backoff[m] /\ 2 * Backoff[n] <= Backoff[m]
  BY <1>1, <1>3, Waits
<1>5. UdpTypes'
  BY <1>1, <1>3, FS_Subset DEF UdpTypes
<1>6. CachedIsYoung'
  <2>1. cached.wait \in Nat /\ cached.id \in Nat
    BY <1>1 DEF UdpTypes, CallState
  <2> HIDE DEF n, m
  <2>2. CachedIsYoung /\ mislaid = n /\ mislaid' = m
    BY <1>1 DEF UdpIInv, n
  <2>3. QED
    BY <1>1, <1>2, <1>4, <2>1, <2>2 DEF CachedIsYoung
<1>7. ASSUME NEW x \in UdpCall
      PROVE  CallHolds(udpCall[x], Dated(x), Timely(x), mislaid)'
  <2> DEFINE k == udpCall[x]
             dated == Dated(x)'
             timely == Timely(x)'
  <2>1. CallHolds(k, Dated(x), Timely(x), n) /\ k \in CallState
    BY <1>1 DEF UdpIInv, UdpTypes
  <2>2. dated \subseteq Dated(x) /\ timely \subseteq Timely(x)
    BY <1>1 DEF Dated, Timely
  <2>3. IsFiniteSet(Dated(x)) /\ Cardinality(Dated(x)) \in Nat
    BY <1>1, DatedIsFinite
  <2>4. Cardinality(dated) \in Nat /\ Cardinality(dated) <= Cardinality(Dated(x))
    <3> HIDE DEF dated
    <3>1. QED
      BY <2>2, <2>3, FS_Subset, FS_CardinalityType
  <2>5. k.tries \in Nat /\ k.tries <= MaxRetries + 1 /\ k.id \in Nat /\ k.wait \in Nat
    <3> HIDE DEF k
    <3>1. QED
      BY <1>2, <2>1 DEF CallState
  <2>6. CallHolds(k, Dated(x), Timely(x), m)
    BY <1>3, <2>1, <2>3, MoreMislaid
  <2> HIDE DEF k, dated, timely, n, m
  <2>7. ASSUME k.at \in {"connect", "ask"}
        PROVE  Counted(k, dated, timely, m) /\ Young(k, timely, m)
    <3>1. Counted(k, Dated(x), Timely(x), n) /\ Young(k, Timely(x), n) /\ k.tries > 0 /\ k.wait <= Backoff[k.tries - 1]
      BY <1>1, <2>1, <2>7 DEF CallHolds, n
    <3>2. m = n + 1
      BY DEF n, m
    <3>3. Due(k, Dated(x)) <= m /\ k.tries <= m
      BY <1>3, <2>3, <2>5, <3>1, <3>2 DEF Counted, Due
    <3>4. Counted(k, dated, timely, m)
      BY <1>3, <2>3, <2>4, <2>5, <3>2, <3>3 DEF Counted, Due
    <3>5. k.wait <= Backoff[n]
      <4>1. k.tries - 1 \in 0..MaxMislaid /\ k.tries - 1 <= n
        BY <1>2, <1>3, <2>5, <3>1, <3>2, <3>3
      <4>2. Backoff[k.tries - 1] <= Backoff[n] /\ Backoff[k.tries - 1] \in Nat
        BY <1>3, <4>1, Waits
      <4>3. QED
        BY <1>4, <2>5, <3>1, <4>2
    <3>6. Young(k, timely, m)
      <4>1. CASE k.at = "ask" /\ Timely(x) = {}
        <5>1. timely = {} /\ Honoured + k.wait < ConnIdTTL + k.id + Backoff[n]
          BY <2>2, <3>1, <4>1 DEF Young
        <5>2. QED
          BY <1>2, <1>4, <2>5, <5>1 DEF Young
      <4>2. CASE k.at = "ask" /\ Timely(x) # {}
        <5>1. Honoured < ConnIdTTL + k.id + Backoff[n]
          BY <1>2, <3>1, <4>2 DEF Young
        <5>2. Honoured + k.wait < ConnIdTTL + k.id + Backoff[m]
          BY <1>2, <1>4, <2>5, <3>5, <5>1
        <5>3. Honoured < ConnIdTTL + k.id + Backoff[m]
          BY <1>2, <1>4, <2>5, <5>1
        <5>4. QED
          BY <1>2, <5>2, <5>3 DEF Young
      <4>3. QED
        BY <4>1, <4>2 DEF Young
    <3>7. QED
      BY <3>4, <3>6
  <2>8. k.at = "connect" => timely = {} /\ Cardinality(dated) <= k.tries
    BY <2>2, <2>3, <2>4, <2>5, <2>6 DEF CallHolds
  <2>9. CallHolds(k, dated, timely, m)
    BY <2>2, <2>6, <2>7, <2>8 DEF CallHolds
  <2>10. k = udpCall'[x] /\ m = mislaid'
    BY <1>1 DEF k, m
  <2>11. CallHolds(udpCall'[x], dated, timely, mislaid')
    BY <2>9, <2>10
  <2>12. QED
    BY <2>11 DEF CallHolds, Counted, Due, JustSent, Young, dated, timely
<1>8. ASSUME NEW e \in dgram'
      PROVE  DgramHolds(e, mislaid)'
  <2>1. e \in dgram /\ DgramHolds(e, n) /\ e.id \in Nat
    BY <1>1 DEF UdpIInv, UdpTypes
  <2>2. DgramHolds(e, m)
    BY <1>3, <2>1, DgramsAge
  <2>3. QED
    BY <1>1, <2>2 DEF DgramHolds
<1>9. QED
  BY <1>5, <1>6, <1>7, <1>8 DEF UdpIInv

LEMMA OlderIs ==
    ASSUME NEW k \in CallState
    PROVE  /\ Older(k) \in CallState /\ Older(k).at = k.at /\ Older(k).tries = k.tries /\ Older(k).took = k.took
           /\ Older(k).id = Less(k.id) /\ Older(k).wait = Less(k.wait)
<1> DEFINE i == Less(k.id)
           w == Less(k.wait)
<1>1. k.id \in Nat /\ k.wait \in Nat
  BY DEF CallState
<1>2. i \in Nat /\ w \in Nat
  BY <1>1 DEF Less
<1>3. Older(k) = [k EXCEPT !.id = i, !.wait = w]
  BY DEF Older
<1> HIDE DEF i, w
<1>4. /\ Older(k) \in CallState /\ Older(k).at = k.at /\ Older(k).tries = k.tries /\ Older(k).took = k.took
      /\ Older(k).id = i /\ Older(k).wait = w
  BY <1>2, <1>3 DEF CallState
<1>5. QED
  BY <1>4 DEF i, w

\* A unit of waiting costs the identifier a unit, and what is under way is late by it.
LEMMA TimePassesKeeps ==
    ASSUME UdpIInv, TimePasses
    PROVE  UdpIInv'
<1> DEFINE n == mislaid
           m == mislaid'
           aged(d) == [d EXCEPT !.id = Less(@)]
<1>1. /\ cached' = Older(cached) /\ udpCall' = [c \in UdpCall |-> Older(udpCall[c])]
      /\ dgram' = {aged(d) : d \in dgram} /\ UdpTypes /\ CachedIsYoung
  BY DEF TimePasses, UdpIInv
<1>2. MaxMislaid \in Nat /\ MaxRetries \in Nat /\ Honoured \in Nat /\ ConnIdTTL \in Nat
  BY UdpAssumption
<1>3. /\ n \in 0..MaxMislaid /\ m \in 0..MaxMislaid /\ n <= m /\ m <= n + 1
      /\ m < MaxMislaid => m = IF dgram = {} THEN n ELSE n + 1
  BY <1>1, <1>2 DEF TimePasses, Mislays, UdpTypes
<1>4. Backoff[n] \in Nat /\ Backoff[m] \in Nat /\ Backoff[n] > 0 /\ Backoff[n] <= Backoff[m]
  BY <1>3, Waits
<1>5. m < MaxMislaid /\ dgram # {} => n < MaxMislaid /\ 2 * Backoff[n] <= Backoff[m]
  <2>1. n < MaxMislaid => 2 * Backoff[n] <= Backoff[n + 1]
    BY <1>3, Waits
  <2>2. QED
    BY <1>2, <1>3, <2>1
<1>6. /\ n \in Nat /\ m \in Nat /\ n = mislaid /\ m = mislaid'
      /\ m < MaxMislaid => n < MaxMislaid
  BY <1>2, <1>3
<1>7. \A d \in dgram : /\ aged(d) \in [of : UdpCall, is : DgramKinds, id : Nat]
                       /\ aged(d).of = d.of /\ aged(d).is = d.is /\ aged(d).id = Less(d.id) /\ d.id \in Nat /\ d.of \in UdpCall
  <2>1. \A d \in dgram : d \in [of : UdpCall, is : DgramKinds, id : Nat] /\ Less(d.id) \in Nat
    BY <1>1 DEF UdpTypes, Less
  <2>2. QED
    BY <2>1
<1> HIDE DEF n, m, aged
<1>8. UdpTypes'
  <2>1. cached' \in CallState /\ udpCall' \in [UdpCall -> CallState]
    BY <1>1, OlderIs DEF UdpTypes
  <2>2. IsFiniteSet(dgram')
    <3> DEFINE f == [d \in dgram |-> aged(d)]
    <3>1. f \in Surjection(dgram, dgram')
      BY <1>1 DEF Surjection
    <3> HIDE DEF f
    <3>2. QED
      BY <1>1, <3>1, FS_Surjection DEF UdpTypes
  <2>3. dgram' \subseteq [of : UdpCall, is : DgramKinds, id : Nat]
    BY <1>1, <1>7
  <2>4. QED
    BY <1>3, <1>6, <2>1, <2>2, <2>3 DEF UdpTypes
<1>9. CachedIsYoung'
  <2>1. /\ cached'.wait = Less(cached.wait) /\ cached'.id = Less(cached.id)
        /\ cached.wait \in Nat /\ cached.id \in Nat
    BY <1>1, OlderIs DEF UdpTypes, CallState
  <2>2. QED
    BY <1>1, <1>2, <1>4, <1>6, <2>1 DEF CachedIsYoung, Less
<1>10. ASSUME NEW x \in UdpCall
       PROVE  CallHolds(udpCall[x], Dated(x), Timely(x), mislaid)'
  <2> DEFINE k == udpCall[x]
             l == Older(k)
             old == Dated(x)
             dated == Dated(x)'
             timely == Timely(x)'
  <2>1. CallHolds(k, old, Timely(x), n) /\ k \in CallState
    BY <1>1, <1>6 DEF UdpIInv, UdpTypes
  <2>2. /\ l \in CallState /\ l.at = k.at /\ l.tries = k.tries /\ l.took = k.took
        /\ l.id = Less(k.id) /\ l.wait = Less(k.wait)
    BY <2>1, OlderIs
  <2>3. IsFiniteSet(old) /\ Cardinality(old) \in Nat
    BY <1>1, DatedIsFinite
  <2>4. dated = {aged(d) : d \in old}
    BY <1>1, <1>7 DEF Dated
  <2>5. timely = {aged(d) : d \in Timely(x)}
    BY <1>1, <1>7 DEF Timely
  <2>6. dgram = {} => old = {} /\ Timely(x) = {}
    BY DEF Dated, Timely
  <2>7. udpCall'[x] = l
    BY <1>1
  <2>8. k.at \in {"connect", "ask"} => k.wait > 0
    BY DEF TimePasses, Calling
  <2>9. k.tries \in Nat /\ k.tries <= MaxRetries + 1 /\ k.id \in Nat /\ k.wait \in Nat
    <3> HIDE DEF k
    <3>1. QED
      BY <1>2, <2>1 DEF CallState
  <2> HIDE DEF k, l, old, dated, timely
  <2>10. Cardinality(dated) \in Nat /\ Cardinality(dated) <= Cardinality(old)
    <3> DEFINE f == [d \in old |-> aged(d)]
    <3>1. f \in Surjection(old, dated)
      BY <2>4 DEF Surjection
    <3> HIDE DEF f
    <3>2. IsFiniteSet(dated) /\ Cardinality(dated) <= Cardinality(old)
      BY <2>3, <3>1, FS_Surjection
    <3>3. QED
      BY <3>2, FS_CardinalityType
  <2>11. dated = {} <=> old = {}
    BY <2>4
  <2>12. timely = {} <=> Timely(x) = {}
    BY <2>5
  <2>13. l.id \in Nat /\ l.wait \in Nat /\ l.wait <= k.wait /\ (k.wait > 0 => l.wait = k.wait - 1) /\ l.id >= k.id - 1
    BY <2>2, <2>9 DEF Less
  <2>14. ASSUME k.at \in {"connect", "ask"}, m < MaxMislaid
         PROVE  Counted(l, dated, timely, m) /\ Young(l, timely, m)
    <3>1. Counted(k, old, Timely(x), n) /\ Young(k, Timely(x), n) /\ k.wait > 0
      BY <1>6, <2>1, <2>8, <2>14 DEF CallHolds
    <3>2. Due(l, dated) \in Nat /\ Due(k, old) \in Nat /\ Due(l, dated) <= Due(k, old)
      BY <2>2, <2>3, <2>9, <2>10 DEF Due
    <3>3. Due(k, old) <= m
      <4>1. CASE dgram = {}
        <5>1. ~JustSent(k, old, Timely(x)) /\ m = n
          BY <1>3, <2>6, <2>14, <4>1 DEF JustSent
        <5>2. QED
          BY <3>1, <5>1 DEF Counted
      <4>2. CASE dgram # {}
        <5>1. m = n + 1
          BY <1>3, <2>14, <4>2
        <5>2. QED
          BY <1>6, <3>1, <3>2, <5>1 DEF Counted
      <4>3. QED
        BY <4>1, <4>2
    <3>4. Counted(l, dated, timely, m)
      BY <1>6, <3>2, <3>3 DEF Counted
    <3>5. Young(l, timely, m)
      <4>1. CASE k.at = "ask" /\ Timely(x) = {}
        <5>1. Honoured + k.wait < ConnIdTTL + k.id + Backoff[n]
          BY <3>1, <4>1 DEF Young
        <5>2. Honoured + l.wait < ConnIdTTL + l.id + Backoff[m]
          BY <1>2, <1>4, <2>9, <2>13, <3>1, <5>1
        <5>3. QED
          BY <2>12, <4>1, <5>2 DEF Young
      <4>2. CASE k.at = "ask" /\ Timely(x) # {}
        <5>1. Honoured < ConnIdTTL + k.id + Backoff[n]
          BY <1>2, <3>1, <4>2 DEF Young
        <5>2. 2 * Backoff[n] <= Backoff[m]
          BY <1>5, <2>6, <2>14, <4>2
        <5>3. Honoured < ConnIdTTL + l.id + Backoff[m]
          BY <1>2, <1>4, <2>9, <2>13, <5>1, <5>2
        <5>4. timely # {}
          BY <2>12, <4>2
        <5>5. QED
          BY <1>2, <5>3, <5>4 DEF Young
      <4>3. QED
        BY <2>2, <4>1, <4>2 DEF Young
    <3>6. QED
      BY <3>4, <3>5
  <2>15. l.at \in {"connect", "ask"} => l.tries > 0 /\ l.wait <= Backoff[l.tries - 1]
    <3>1. ASSUME k.at \in {"connect", "ask"}
          PROVE  l.tries > 0 /\ l.wait <= Backoff[l.tries - 1]
      <4>1. k.tries > 0 /\ k.wait <= Backoff[k.tries - 1]
        BY <2>1, <3>1 DEF CallHolds
      <4>2. k.tries - 1 \in 0..MaxMislaid
        <5>1. MaxRetries < MaxMislaid
          BY UdpAssumption
        <5>2. QED
          BY <1>2, <2>9, <4>1, <5>1
      <4>3. Backoff[k.tries - 1] \in Nat
        BY <4>2, Waits
      <4>4. QED
        BY <2>2, <2>9, <2>13, <4>1, <4>3
    <3>2. QED
      BY <2>2, <3>1
  <2>16. l.at = "failed" => IF l.took = "refusal" THEN Backoff[m] > Honoured - ConnIdTTL ELSE m > MaxRetries
    BY <1>2, <1>3, <1>4, <1>6, <2>1, <2>2 DEF CallHolds
  <2>17. l.at = "connect" => timely = {} /\ Cardinality(dated) <= l.tries
    BY <2>1, <2>2, <2>3, <2>9, <2>10, <2>12 DEF CallHolds
  <2>18. /\ l.at \notin {"connect", "ask"} => dated = {} /\ timely = {}
         /\ l.at = "done" => l.took = "answer"
    BY <2>1, <2>2, <2>11, <2>12 DEF CallHolds
  <2>19. CallHolds(l, dated, timely, m)
    BY <2>2, <2>14, <2>15, <2>16, <2>17, <2>18 DEF CallHolds
  <2>20. QED
    BY <1>6, <2>7, <2>19 DEF CallHolds, Counted, Due, JustSent, Young, dated, timely
<1>11. ASSUME NEW e \in dgram'
       PROVE  DgramHolds(e, mislaid)'
  <2>1. PICK d \in dgram : e = aged(d)
    BY <1>1
  <2>2. e.of = d.of /\ e.is = d.is /\ e.id = Less(d.id) /\ d.id \in Nat /\ d.of \in UdpCall /\ DgramHolds(d, n)
    BY <1>6, <1>7, <2>1 DEF UdpIInv
  <2>3. udpCall'[d.of].id = Less(udpCall[d.of].id)
    BY <1>1, <2>2, OlderIs DEF UdpTypes
  <2>4. e.is = "ask" => e.id = udpCall'[e.of].id
    BY <2>2, <2>3 DEF DgramHolds
  <2>5. ASSUME m < MaxMislaid
        PROVE  /\ d.is = "granted" => Honoured < Less(d.id) + Backoff[m]
               /\ d.is = "refusal" => Honoured < ConnIdTTL + Backoff[m]
    <3>1. n < MaxMislaid /\ 2 * Backoff[n] <= Backoff[m]
      BY <1>5, <2>5
    <3>2. QED
      BY <1>2, <1>4, <2>2, <3>1 DEF DgramHolds, Less
  <2>6. QED
    BY <1>6, <2>2, <2>4, <2>5 DEF DgramHolds
<1>12. QED
  BY <1>8, <1>9, <1>10, <1>11 DEF UdpIInv

LEMMA UdpBegins == UdpInit => UdpIInv
<1>1. ASSUME UdpInit
      PROVE  UdpIInv
  <2>1. cached = NotCalling /\ udpCall = [c \in UdpCall |-> NotCalling] /\ dgram = {} /\ mislaid = 0
    BY <1>1 DEF UdpInit
  <2>2. UdpTypes
    <3>1. MaxMislaid \in Nat
      BY UdpAssumption
    <3>2. QED
      BY <2>1, <3>1, CallState0, FS_EmptySet DEF UdpTypes
  <2>3. NotCalling.at = "idle" /\ NotCalling.took = "none" /\ NotCalling.wait = 0
    BY DEF NotCalling
  <2>4. CachedIsYoung
    BY <2>1, <2>3 DEF CachedIsYoung
  <2>5. \A c \in UdpCall : Dated(c) = {} /\ Timely(c) = {}
    BY <2>1 DEF Dated, Timely
  <2>6. \A c \in UdpCall : CallHolds(udpCall[c], Dated(c), Timely(c), mislaid)
    BY <2>1, <2>3, <2>5 DEF CallHolds
  <2>7. QED
    BY <2>1, <2>2, <2>4, <2>6 DEF UdpIInv
<1>2. QED
  BY <1>1

LEMMA UdpKept ==
    ASSUME UdpIInv, [UdpNext]_udpVars
    PROVE  UdpIInv'
<1>1. CASE UNCHANGED udpVars
  BY <1>1 DEF udpVars, UdpIInv, UdpTypes, CachedIsYoung, CallHolds, Counted, Due, JustSent, Young, DgramHolds, Dated, Timely
<1>2. CASE TimePasses
  BY <1>2, TimePassesKeeps
<1>3. ASSUME NEW c \in UdpCall, BeginCall(c) \/ ClientStep(c) \/ CancelCall(c)
      PROVE  UdpIInv'
  BY <1>3, BeginCallKeeps, TryAgainKeeps, ReadReplyKeeps, CancelCallKeeps DEF ClientStep
<1>4. ASSUME NEW d \in dgram, Grants(d) \/ Answers(d) \/ LoseDgram(d)
      PROVE  UdpIInv'
  BY <1>4, GrantsKeeps, AnswersKeeps, LoseDgramKeeps
<1>5. QED
  BY <1>1, <1>2, <1>3, <1>4 DEF UdpNext

LEMMA UdpIInvImplies == UdpIInv => UdpInv
<1>1. UdpIInv => \A c \in UdpCall : CallHolds(udpCall[c], Dated(c), Timely(c), mislaid)
  BY DEF UdpIInv
<1>2. QED
  BY <1>1 DEF CallHolds, UdpInv, AnswerIsOwn, FailsOnlyByLoss

\* A call to a UDP tracker returns the answer to its own request, and fails only
\* for want of one: when more datagrams were mislaid than it has tries, or when the
\* waits for those mislaid used up the identifier that was cached.
THEOREM UdpCallsFailByLoss == UdpSpec => []UdpInv
<1>1. UdpSpec => []UdpIInv
  BY UdpBegins, UdpKept, PTL DEF UdpSpec
<1>2. QED
  BY <1>1, UdpIInvImplies, PTL

---------------------------------------------------------------------------
(***************************************************************************)
(* The DHT.  A routing table is sound, and a step of it keeps the contacts *)
(* that have not failed: what a bucket's insert and MarkFailed return is   *)
(* stated once and cited by every action.  That whoever comes later finds  *)
(* us needs to know where every datagram is: while none is lost, a lookup  *)
(* that was not cancelled waits for a living node exactly while one        *)
(* datagram of theirs is under way (Own), whoever has been told has us     *)
(* stored or is being told (Told), and so the answers of a node that was   *)
(* told of an earlier lookup name it (Names).                              *)
(***************************************************************************)

Contact == [id : NodeId, fails : 0..BadAfterFailures]
SoundBucket(n, x, b) ==
    /\ b \in Seq(Contact) /\ Len(b) <= BucketSize
    /\ \A i, j \in 1..Len(b) : b[i].id = b[j].id => i = j
    /\ \A i \in 1..Len(b) : b[i].id # n /\ BucketIndex(n, b[i].id) = x
\* A contact that is not bad is still there.
Keeps(b, c) == \A i \in 1..Len(b) : b[i].fails = BadAfterFailures \/ \E j \in 1..Len(c) : c[j].id = b[i].id

LEMMA Positive ==
    /\ BucketSize \in Nat \ {0} /\ BadAfterFailures \in Nat \ {0} /\ Width \in Nat /\ MaxLookupRounds \in Nat
    /\ NodeId \subseteq Nat /\ Searcher \subseteq NodeId \ Silent /\ Known \in [NodeId -> SUBSET NodeId]
BY DhtAssumption DEF DhtAssumption

LEMMA MinOfTwo ==
    ASSUME NEW a \in Nat, NEW b \in Nat
    PROVE  Min({a, b}) \in {a, b} /\ Min({a, b}) <= a /\ Min({a, b}) <= b
<1>1. \E m \in {a, b} : \A y \in {a, b} : m <= y
  OBVIOUS
<1>2. QED
  BY <1>1 DEF Min

\* What RemoveAt returns: the elements from k on move up.
LEMMA RemovedAt ==
    ASSUME NEW S, NEW s \in Seq(S), NEW k \in 1..Len(s)
    PROVE  /\ RemoveAt(s, k) \in Seq(S) /\ Len(RemoveAt(s, k)) = Len(s) - 1
           /\ \A j \in 1..Len(s) - 1 : RemoveAt(s, k)[j] = IF j < k THEN s[j] ELSE s[j + 1]
<1>1. Len(s) \in Nat
  BY LenProperties
<1> DEFINE a == SubSeq(s, 1, k - 1)  b == SubSeq(s, k + 1, Len(s))
<1>2. /\ a \in Seq(S) /\ Len(a) = k - 1 /\ \A j \in 1..k - 1 : a[j] = s[j]
  BY <1>1, SubSeqProperties
<1>3. /\ b \in Seq(S) /\ Len(b) = Len(s) - k /\ \A j \in 1..Len(s) - k : b[j] = s[k + j]
  <2>1. k + 1 \in Int /\ Len(s) \in Int /\ \A i \in k + 1..Len(s) : s[i] \in S
    BY <1>1, LenProperties
  <2>2. /\ b \in Seq(S) /\ Len(b) = IF k + 1 <= Len(s) THEN Len(s) - (k + 1) + 1 ELSE 0
        /\ \A i \in 1..Len(s) - (k + 1) + 1 : b[i] = s[(k + 1) + i - 1]
    BY <2>1, SubSeqProperties
  <2> HIDE DEF b
  <2>3. Len(b) = Len(s) - k
    BY <1>1, <2>2
  <2>4. ASSUME NEW j \in 1..Len(s) - k PROVE b[j] = s[k + j]
    <3>1. j \in 1..Len(s) - (k + 1) + 1 /\ (k + 1) + j - 1 = k + j
      BY <1>1
    <3>2. b[j] = s[(k + 1) + j - 1]
      BY <3>1, <2>2
    <3>3. QED
      BY <3>1, <3>2
  <2>5. QED
    BY <2>2, <2>3, <2>4
<1> HIDE DEF a, b
<1>4. /\ a \o b \in Seq(S) /\ Len(a \o b) = Len(s) - 1
      /\ \A j \in 1..Len(s) - 1 : (a \o b)[j] = IF j <= k - 1 THEN a[j] ELSE b[j - (k - 1)]
  <2>1. /\ a \o b \in Seq(S) /\ Len(a \o b) = Len(a) + Len(b)
        /\ \A j \in 1..Len(a) + Len(b) : (a \o b)[j] = IF j <= Len(a) THEN a[j] ELSE b[j - Len(a)]
    BY <1>2, <1>3, ConcatProperties
  <2>2. Len(a) = k - 1 /\ Len(a) + Len(b) = Len(s) - 1
    BY <1>1, <1>2, <1>3
  <2>3. QED
    BY <2>1, <2>2
<1>5. ASSUME NEW j \in 1..Len(s) - 1 PROVE (a \o b)[j] = IF j < k THEN s[j] ELSE s[j + 1]
  <2>1. CASE j < k
    BY <1>1, <1>2, <1>4, <2>1
  <2>2. CASE ~(j < k)
    <3>1. j - (k - 1) \in 1..Len(s) - k /\ k + (j - (k - 1)) = j + 1 /\ ~(j <= k - 1)
      BY <1>1, <2>2
    <3>2. QED
      BY <1>3, <1>4, <2>2, <3>1
  <2>3. QED
    BY <2>1, <2>2
<1>6. RemoveAt(s, k) = a \o b
  BY DEF RemoveAt, a, b
<1>7. QED
  BY <1>4, <1>5, <1>6

\* bucket.insert: the refreshed contact moves to the tail, a newcomer takes a free
\* place or that of a contact that is bad; nothing else goes.
LEMMA InsertedInBucket ==
    ASSUME NEW n \in NodeId, NEW x \in 0..Width - 1, NEW b, SoundBucket(n, x, b),
           NEW id \in NodeId, id # n, BucketIndex(n, id) = x
    PROVE  SoundBucket(n, x, BucketInsert(b, id)) /\ Keeps(b, BucketInsert(b, id))
<1> DEFINE new == [id |-> id, fails |-> 0]
<1>1. BucketSize \in Nat \ {0} /\ BadAfterFailures \in Nat \ {0}
  BY Positive
<1>2. new \in Contact /\ new.id = id
  BY <1>1 DEF Contact
<1>3. /\ b \in Seq(Contact) /\ Len(b) \in Nat /\ Len(b) <= BucketSize
      /\ \A i \in 1..Len(b) : b[i] \in Contact
  BY LenProperties DEF SoundBucket
<1>9. DOMAIN b = 1..Len(b)
  BY LenProperties DEF SoundBucket
<1> HIDE DEF new
<1>4. CASE \E i \in DOMAIN b : b[i].id = id
  <2> DEFINE k == CHOOSE i \in DOMAIN b : b[i].id = id
             r == RemoveAt(b, k)
  <2>1. k \in 1..Len(b) /\ b[k].id = id
    BY <1>9, <1>4
  <2> HIDE DEF k
  <2>2. /\ r \in Seq(Contact) /\ Len(r) = Len(b) - 1
        /\ \A j \in 1..Len(b) - 1 : r[j] = IF j < k THEN b[j] ELSE b[j + 1]
    BY <1>3, <2>1, RemovedAt
  <2> HIDE DEF r
  <2>3. /\ Append(r, new) \in Seq(Contact) /\ Len(Append(r, new)) = Len(b)
        /\ \A j \in 1..Len(b) - 1 : Append(r, new)[j] = r[j]
        /\ Append(r, new)[Len(b)] = new
    <3>1. /\ Append(r, new) \in Seq(Contact) /\ Len(Append(r, new)) = Len(r) + 1
          /\ \A j \in 1..Len(r) : Append(r, new)[j] = r[j]
          /\ Append(r, new)[Len(r) + 1] = new
      BY <1>2, <2>2, AppendProperties
    <3>2. Len(r) = Len(b) - 1 /\ Len(r) + 1 = Len(b)
      BY <1>3, <2>1, <2>2
    <3>3. QED
      BY <3>1, <3>2
  <2>4. BucketInsert(b, id) = Append(r, new)
    BY <1>4 DEF BucketInsert, k, r, new
  <2> DEFINE c == Append(r, new)  Old(j) == IF j = Len(b) THEN k ELSE IF j < k THEN j ELSE j + 1
  <2>5. ASSUME NEW j \in 1..Len(b) PROVE Old(j) \in 1..Len(b) /\ c[j].id = b[Old(j)].id
    <3>1. CASE j = Len(b)
      BY <1>2, <2>1, <2>3, <3>1
    <3>2. CASE j # Len(b)
      <4>1. j \in 1..Len(b) - 1 /\ k \in Int
        BY <1>3, <2>1, <3>2
      <4>2. c[j] = IF j < k THEN b[j] ELSE b[j + 1]
        BY <2>2, <2>3, <4>1
      <4>3. j + 1 \in 1..Len(b)
        BY <1>3, <4>1
      <4>4. QED
        BY <3>2, <4>2, <4>3
    <3>3. QED
      BY <3>1, <3>2
  <2>6. ASSUME NEW i \in 1..Len(b), NEW j \in 1..Len(b), Old(i) = Old(j) PROVE i = j
    BY <1>3, <2>1, <2>6
  <2>7. \A i \in 1..Len(b) : \E j \in 1..Len(b) : Old(j) = i
    <3>1. ASSUME NEW i \in 1..Len(b) PROVE \E j \in 1..Len(b) : Old(j) = i
      <4>1. CASE i = k
        <5>1. Len(b) \in 1..Len(b) /\ Old(Len(b)) = i
          BY <1>3, <2>1, <4>1
        <5>2. QED
          BY <5>1
      <4>2. CASE i < k
        <5>1. Old(i) = i
          BY <1>3, <2>1, <4>2
        <5>2. QED
          BY <5>1
      <4>3. CASE i > k
        <5>1. i - 1 \in 1..Len(b) /\ Old(i - 1) = i
          BY <1>3, <2>1, <4>3
        <5>2. QED
          BY <5>1
      <4>4. QED
        BY <1>3, <2>1, <4>1, <4>2, <4>3
    <3>2. QED
      BY <3>1
  <2> HIDE DEF Old
  <2>8. SoundBucket(n, x, c)
    <3>1. c \in Seq(Contact) /\ Len(c) = Len(b)
      BY <2>3
    <3> HIDE DEF c
    <3>2. ASSUME NEW i \in 1..Len(b), NEW j \in 1..Len(b), c[i].id = c[j].id PROVE i = j
      <4>1. b[Old(i)].id = b[Old(j)].id /\ Old(i) \in 1..Len(b) /\ Old(j) \in 1..Len(b)
        BY <2>5, <3>2
      <4>2. Old(i) = Old(j)
        BY <4>1 DEF SoundBucket
      <4>3. QED
        BY <2>6, <4>2
    <3>3. ASSUME NEW i \in 1..Len(b) PROVE c[i].id # n /\ BucketIndex(n, c[i].id) = x
      BY <2>5 DEF SoundBucket
    <3>4. QED
      BY <1>3, <3>1, <3>2, <3>3 DEF SoundBucket
  <2>9. Keeps(b, c)
    <3>1. Len(c) = Len(b)
      BY <2>3
    <3> HIDE DEF c
    <3>2. ASSUME NEW i \in 1..Len(b) PROVE \E j \in 1..Len(c) : c[j].id = b[i].id
      <4>1. PICK j \in 1..Len(b) : Old(j) = i
        BY <2>7
      <4>2. QED
        BY <2>5, <3>1, <4>1
    <3>3. QED
      BY <3>2 DEF Keeps
  <2>10. QED
    BY <2>4, <2>8, <2>9
<1>5. CASE ~(\E i \in DOMAIN b : b[i].id = id) /\ Len(b) < BucketSize
  <2>1. BucketInsert(b, id) = Append(b, new)
    BY <1>5 DEF BucketInsert, new
  <2>2. /\ Append(b, new) \in Seq(Contact) /\ Len(Append(b, new)) = Len(b) + 1
        /\ \A j \in 1..Len(b) : Append(b, new)[j] = b[j]
        /\ Append(b, new)[Len(b) + 1] = new
    BY <1>2, <1>3, AppendProperties
  <2> DEFINE c == Append(b, new)
  <2> HIDE DEF c
  <2>3. SoundBucket(n, x, c)
    BY <1>1, <1>2, <1>3, <1>9, <1>5, <2>2 DEF SoundBucket, c
  <2>4. Keeps(b, c)
    BY <1>3, <2>2 DEF Keeps, c
  <2>5. QED
    BY <2>1, <2>3, <2>4 DEF c
<1>6. CASE ~(\E i \in DOMAIN b : b[i].id = id) /\ ~(Len(b) < BucketSize) /\ \E i \in DOMAIN b : FirstBad(b, i)
  <2> DEFINE k == CHOOSE i \in DOMAIN b : FirstBad(b, i)
  <2>1. k \in 1..Len(b) /\ Bad(b[k])
    BY <1>9, <1>6 DEF FirstBad
  <2>2. BucketInsert(b, id) = [b EXCEPT ![k] = new]
    BY <1>6 DEF BucketInsert, new, k
  <2> HIDE DEF k
  <2>3. /\ [b EXCEPT ![k] = new] \in Seq(Contact) /\ Len([b EXCEPT ![k] = new]) = Len(b)
        /\ \A j \in 1..Len(b) : [b EXCEPT ![k] = new][j] = IF j = k THEN new ELSE b[j]
    BY <1>2, <1>3, <2>1, ExceptSeq
  <2>4. b[k].fails = BadAfterFailures
    BY <1>1, <1>3, <2>1 DEF Bad, Contact
  <2> DEFINE c == [b EXCEPT ![k] = new]
  <2> HIDE DEF c
  <2>5. SoundBucket(n, x, c)
    BY <1>2, <1>3, <1>9, <1>6, <2>1, <2>3 DEF SoundBucket, c
  <2>6. Keeps(b, c)
    BY <1>3, <2>3, <2>4 DEF Keeps, c
  <2>7. QED
    BY <2>2, <2>5, <2>6 DEF c
<1>7. CASE ~(\E i \in DOMAIN b : b[i].id = id) /\ ~(Len(b) < BucketSize) /\ ~(\E i \in DOMAIN b : FirstBad(b, i))
  <2>1. BucketInsert(b, id) = b
    BY <1>7 DEF BucketInsert
  <2>2. QED
    BY <1>3, <2>1 DEF Keeps
<1>8. QED
  BY <1>4, <1>5, <1>6, <1>7

SoundTable(t) ==
    /\ DOMAIN t = NodeId /\ \A n \in NodeId : DOMAIN t[n] = 0..Width - 1
    /\ \A n \in NodeId : \A x \in 0..Width - 1 : SoundBucket(n, x, t[n][x])
KeepsAll(t, u) == \A n \in NodeId : \A x \in 0..Width - 1 : Keeps(t[n][x], u[n][x])

LEMMA KeepsItself ==
    ASSUME NEW t, SoundTable(t)
    PROVE  KeepsAll(t, t)
BY DEF KeepsAll, Keeps

LEMMA InsertedInTable ==
    ASSUME NEW t, SoundTable(t), NEW self \in NodeId, NEW id \in NodeId
    PROVE  SoundTable(Insert(t, self, id)) /\ KeepsAll(t, Insert(t, self, id))
<1>1. CASE id = self
  BY <1>1, KeepsItself DEF Insert
<1>2. CASE id # self
  <2> DEFINE y == BucketIndex(self, id)  u == Insert(t, self, id)
  <2>1. /\ DOMAIN u = NodeId /\ \A n \in NodeId : DOMAIN u[n] = 0..Width - 1
        /\ \A n \in NodeId : \A x \in 0..Width - 1 :
              u[n][x] = IF n = self /\ x = y THEN BucketInsert(t[n][x], id) ELSE t[n][x]
    BY <1>2 DEF Insert, SoundTable
  <2> HIDE DEF u
  <2>2. ASSUME NEW n \in NodeId, NEW x \in 0..Width - 1
        PROVE  SoundBucket(n, x, u[n][x]) /\ Keeps(t[n][x], u[n][x])
    <3>1. SoundBucket(n, x, t[n][x])
      BY DEF SoundTable
    <3>2. CASE n = self /\ x = y
      <4>1. u[n][x] = BucketInsert(t[n][x], id)
        BY <2>1, <3>2
      <4>2. QED
        BY <1>2, <3>1, <3>2, <4>1, InsertedInBucket
    <3>3. CASE ~(n = self /\ x = y)
      <4>1. u[n][x] = t[n][x]
        BY <2>1, <3>3
      <4>2. QED
        BY <3>1, <4>1 DEF Keeps
    <3>4. QED
      BY <3>2, <3>3
  <2>3. QED
    BY <2>1, <2>2 DEF u, SoundTable, KeepsAll
<1>3. QED
  BY <1>1, <1>2

\* MarkFailed counts a failure, up to the bound, and moves nothing.
LEMMA MarkedInBucket ==
    ASSUME NEW n \in NodeId, NEW x \in 0..Width - 1, NEW b, SoundBucket(n, x, b), NEW ids,
           NEW c, c = [i \in DOMAIN b |-> IF b[i].id \in ids THEN Failed(b[i]) ELSE b[i]]
    PROVE  SoundBucket(n, x, c) /\ Keeps(b, c)
<1>1. BadAfterFailures \in Nat \ {0}
  BY Positive
<1>2. /\ b \in Seq(Contact) /\ Len(b) \in Nat /\ Len(b) <= BucketSize
      /\ \A i \in 1..Len(b) : b[i] \in Contact
  BY LenProperties DEF SoundBucket
<1>3. DOMAIN b = 1..Len(b)
  BY <1>2, LenProperties
<1>4. ASSUME NEW a \in Contact
      PROVE  Failed(a) \in Contact /\ Failed(a).id = a.id
  <2>1. Failed(a) = [id |-> a.id, fails |-> IF Bad(a) THEN a.fails ELSE a.fails + 1]
    BY DEF Failed, Contact
  <2>2. (IF Bad(a) THEN a.fails ELSE a.fails + 1) \in 0..BadAfterFailures
    BY <1>1 DEF Bad, Contact
  <2>3. QED
    BY <2>1, <2>2 DEF Contact
<1>5. c = [i \in 1..Len(b) |-> IF b[i].id \in ids THEN Failed(b[i]) ELSE b[i]]
  BY <1>3
<1>6. \A i \in 1..Len(b) : c[i] \in Contact /\ c[i].id = b[i].id
  BY <1>2, <1>4, <1>5
<1>7. c \in Seq(Contact) /\ Len(c) = Len(b)
  <2>1. c \in [1..Len(b) -> Contact]
    BY <1>5, <1>6
  <2>2. QED
    BY <1>2, <2>1, SeqDef, LenProperties
<1>8. SoundBucket(n, x, c)
  <2>1. ASSUME NEW i \in 1..Len(b), NEW j \in 1..Len(b), c[i].id = c[j].id PROVE i = j
    <3>1. b[i].id = b[j].id
      BY <1>6, <2>1
    <3>2. QED
      BY <3>1 DEF SoundBucket
  <2>2. ASSUME NEW i \in 1..Len(b) PROVE c[i].id # n /\ BucketIndex(n, c[i].id) = x
    BY <1>6 DEF SoundBucket
  <2>3. QED
    BY <1>2, <1>7, <2>1, <2>2 DEF SoundBucket
<1>9. Keeps(b, c)
  BY <1>6, <1>7 DEF Keeps
<1>10. QED
  BY <1>8, <1>9

LEMMA MarkedInTable ==
    ASSUME NEW t, SoundTable(t), NEW self \in NodeId, NEW ids
    PROVE  SoundTable(MarkFailed(t, self, ids)) /\ KeepsAll(t, MarkFailed(t, self, ids))
<1> DEFINE u == MarkFailed(t, self, ids)
           Marked(b) == [i \in DOMAIN b |-> IF b[i].id \in ids THEN Failed(b[i]) ELSE b[i]]
<1>1. /\ DOMAIN u = NodeId /\ \A n \in NodeId : DOMAIN u[n] = 0..Width - 1
      /\ \A n \in NodeId : \A x \in 0..Width - 1 : u[n][x] = IF n = self THEN Marked(t[n][x]) ELSE t[n][x]
  BY DEF MarkFailed, SoundTable
<1> HIDE DEF u
<1>2. ASSUME NEW n \in NodeId, NEW x \in 0..Width - 1
      PROVE  SoundBucket(n, x, u[n][x]) /\ Keeps(t[n][x], u[n][x])
  <2>1. SoundBucket(n, x, t[n][x])
    BY DEF SoundTable
  <2>2. CASE n = self
    <3>1. u[n][x] = [i \in DOMAIN t[n][x] |-> IF t[n][x][i].id \in ids THEN Failed(t[n][x][i]) ELSE t[n][x][i]]
      BY <1>1, <2>2
    <3>2. QED
      BY <2>1, <3>1, MarkedInBucket
  <2>3. CASE n # self
    <3>1. u[n][x] = t[n][x]
      BY <1>1, <2>3
    <3>2. QED
      BY <2>1, <3>1 DEF Keeps
  <2>4. QED
    BY <2>2, <2>3
<1>3. QED
  BY <1>1, <1>2 DEF u, SoundTable, KeepsAll

\* What loadState restores.
LEMMA LoadedTable ==
    SoundTable([n \in NodeId |-> [x \in 0..Width - 1 |-> Loads(n, x)]])
<1> DEFINE t == [n \in NodeId |-> [x \in 0..Width - 1 |-> Loads(n, x)]]
<1>1. ASSUME NEW n \in NodeId, NEW x \in 0..Width - 1
      PROVE  SoundBucket(n, x, Loads(n, x))
  <2> DEFINE S == {a \in Known[n] \ {n} : BucketIndex(n, a) = x}
             ids == SetToSeq(S)
             m == Min({Len(ids), BucketSize})
             b == Loads(n, x)
  <2>1. S \subseteq NodeId
    BY Positive
  <2>2. IsFiniteSet(S)
    BY <2>1, DhtAssumption, FS_Subset DEF DhtAssumption
  <2>3. \A a \in S : a # n /\ BucketIndex(n, a) = x
    OBVIOUS
  <2> HIDE DEF S
  <2>4. Cardinality(S) \in Nat /\ \E f \in [1..Cardinality(S) -> S] : IsInjective(f)
    BY <2>2, FS_CardinalityType DEF ExistsBijection, Bijection, Injection
  <2>5. ids \in [1..Cardinality(S) -> S] /\ IsInjective(ids)
    BY <2>4 DEF SetToSeq
  <2> HIDE DEF ids
  <2>6. Len(ids) = Cardinality(S) /\ DOMAIN ids = 1..Cardinality(S)
    BY <2>4, <2>5, SeqDef, LenProperties
  <2>7. m \in Nat /\ m <= Len(ids) /\ m <= BucketSize
    BY <2>4, <2>6, MinOfTwo, Positive
  <2> HIDE DEF m
  <2>8. b = [i \in 1..m |-> [id |-> ids[i], fails |-> 0]]
    BY DEF Loads, ids, m, S
  <2> HIDE DEF b
  <2>9. \A i \in 1..m : ids[i] \in S /\ b[i] = [id |-> ids[i], fails |-> 0]
    BY <2>4, <2>5, <2>6, <2>7, <2>8
  <2>10. \A i \in 1..m : b[i] \in Contact
    <3>1. 0 \in 0..BadAfterFailures
      BY Positive
    <3>2. ASSUME NEW i \in 1..m PROVE b[i] \in Contact
      <4>1. ids[i] \in NodeId /\ b[i] = [id |-> ids[i], fails |-> 0]
        BY <2>1, <2>9
      <4>2. QED
        BY <3>1, <4>1 DEF Contact
    <3>3. QED
      BY <3>2
  <2>11. b \in Seq(Contact) /\ Len(b) = m
    <3>1. b \in [1..m -> Contact]
      BY <2>8, <2>10
    <3>2. QED
      BY <2>7, <3>1, SeqDef, LenProperties
  <2>12. \A i, j \in 1..m : ids[i] = ids[j] => i = j
    <3>1. \A i \in 1..m : i \in 1..Cardinality(S)
      BY <2>4, <2>6, <2>7
    <3>2. QED
      BY <2>5, <2>6, <3>1 DEF IsInjective
  <2>13. QED
    BY <2>3, <2>7, <2>9, <2>11, <2>12 DEF b, SoundBucket
<1>2. QED
  BY <1>1 DEF SoundTable

LEMMA SoundTableSays ==
    ASSUME NEW t, SoundTable(t), NEW n \in NodeId, NEW x \in 0..Width - 1
    PROVE  LET b == t[n][x] IN
           /\ Len(b) <= BucketSize /\ IsInjective([i \in DOMAIN b |-> b[i].id])
           /\ \A i \in DOMAIN b : b[i].id # n /\ BucketIndex(n, b[i].id) = x /\ b[i].fails \in 0..BadAfterFailures
<1> DEFINE b == t[n][x]
<1>1. SoundBucket(n, x, b)
  BY DEF SoundTable
<1> HIDE DEF b
<1>2. DOMAIN b = 1..Len(b) /\ \A i \in 1..Len(b) : b[i] \in Contact
  BY <1>1, LenProperties DEF SoundBucket
<1>3. IsInjective([i \in DOMAIN b |-> b[i].id])
  BY <1>1, <1>2 DEF IsInjective, SoundBucket
<1>4. QED
  BY <1>1, <1>2, <1>3 DEF b, SoundBucket, Contact

LEMMA GoodContactsAreKept ==
    ASSUME SoundTable(table), SoundTable(table'), KeepsAll(table, table')
    PROVE  KeepsGoodContacts
<1> SUFFICES ASSUME NEW n \in NodeId, NEW x \in 0..Width - 1, NEW i \in DOMAIN table[n][x],
                    table[n][x][i].fails # BadAfterFailures
             PROVE  table[n][x][i].id \in ContactsIn(table', n)
  BY DEF KeepsGoodContacts
<1>1. SoundBucket(n, x, table[n][x]) /\ SoundBucket(n, x, table'[n][x]) /\ Keeps(table[n][x], table'[n][x])
  BY DEF SoundTable, KeepsAll
<1>2. DOMAIN table[n][x] = 1..Len(table[n][x]) /\ DOMAIN table'[n][x] = 1..Len(table'[n][x])
  BY <1>1, LenProperties DEF SoundBucket
<1>3. PICK j \in DOMAIN table'[n][x] : table'[n][x][j].id = table[n][x][i].id
  BY <1>1, <1>2 DEF Keeps
<1>4. table[n][x][i].id \in {table'[n][x][k].id : k \in DOMAIN table'[n][x]}
  BY <1>3
<1>5. QED
  BY <1>4 DEF ContactsIn

Peers == Searcher \cup {OldPeer}
LookupState ==
    [phase : {"idle", "rounds", "announce", "done"}, list : [NodeId -> {"unheard", "new", "asked"}],
     waiting : SUBSET NodeId, round : 0..MaxLookupRounds, found : SUBSET Peers,
     targets : Seq([node : NodeId, token : Nat]), answered : SUBSET NodeId, told : SUBSET NodeId,
     after : SUBSET Searcher, cancelled : BOOLEAN]
Queries == [kind : {"get_peers", "announce_peer"}, from : Searcher, to : NodeId, token : Nat]
Replies == [kind : {"reply"}, from : NodeId, to : Searcher, of : {"get_peers", "announce_peer", "error"},
            token : Nat, peers : SUBSET Peers, nodes : SUBSET NodeId]
Issuer == [rotated : Nat, current : Nat, prev : Int]

\* What a lookup's phase says of the rest of it.
Phased(l) ==
    /\ l.phase \in {"idle", "done"} => l.waiting = {}
    /\ l.phase = "announce" /\ l.waiting # {} => l.targets # <<>>
    /\ l.phase = "idle" => l.answered = {} /\ l.told = {}
    /\ l.cancelled => l.phase = "done"
Searches(f) ==
    /\ f \in [Searcher -> LookupState]
    /\ \A s \in Searcher : Phased(f[s]) /\ \A t \in f[s].after : f[t].phase = "done"
DhtTypes ==
    /\ SoundTable(table) /\ stored \in [NodeId -> SUBSET Peers] /\ secrets \in [NodeId -> Issuer]
    /\ Searches(search) /\ dgrams \subseteq Queries \cup Replies /\ ticks \in Nat /\ lost \in Nat

\* The two ends of an exchange, and what was asked.
Client(d) == IF d.kind = "reply" THEN d.to ELSE d.from
Server(d) == IF d.kind = "reply" THEN d.from ELSE d.to
Of(d) == IF d.kind = "reply" THEN d.of ELSE d.kind
Mine(s, D) == {d \in D : Client(d) = s}

Issued(sec, now) == \A n \in NodeId : sec[n].rotated <= now /\ sec[n].current = sec[n].rotated /\ sec[n].prev = sec[n].current - 1
OnTime(D, now) == \A d \in D : d.token <= now /\ (d.kind = "reply" => d.from \notin Silent /\ d.of # "error")
\* A lookup waits for a node that is there exactly while one datagram of theirs is under way.
Own(l, M, now) ==
    /\ \A i \in 1..Len(l.targets) : l.targets[i].node \notin Silent /\ l.targets[i].token <= now
    /\ l.phase = "announce" => l.waiting \subseteq {Head(l.targets).node}
    /\ \A n \in l.waiting \ Silent : \E d \in M : Server(d) = n
    /\ ~l.cancelled => \A d \in M : Server(d) \notin Silent =>
          /\ Server(d) \in l.waiting /\ (Of(d) = "get_peers" <=> l.phase = "rounds")
          /\ \A e \in M : Server(e) = Server(d) => e = d
\* Who was told has it stored, or is being told.
Told(s, l, M, st) ==
    ~l.cancelled => \A n \in l.told : s \in st[n] \/ \E d \in M : d.kind = "announce_peer" /\ d.to = n
\* Who was told of an earlier lookup names it to a later one.
Names(f, s, M) ==
    \A t \in f[s].after : ~f[t].cancelled =>
        \A n \in f[t].told :
            /\ n \in f[s].answered => t \in f[s].found
            /\ \A d \in M : d.kind = "reply" /\ d.of = "get_peers" /\ d.from = n => t \in d.peers
Promised(f, D, st, sec, now) ==
    /\ Issued(sec, now) /\ OnTime(D, now)
    /\ \A s \in Searcher : Own(f[s], Mine(s, D), now) /\ Told(s, f[s], Mine(s, D), st) /\ Names(f, s, Mine(s, D))
DhtIInv == DhtTypes /\ (lost = 0 /\ ticks <= 1 => Promised(search, dgrams, stored, secrets, ticks))

\* What a lookup says of the ones before it is not disturbed while it is not done.
LEMMA OneSearches ==
    ASSUME Searches(search), NEW s \in Searcher, search[s].phase # "done",
           NEW l \in LookupState, Phased(l), \A t \in l.after : t # s /\ search[t].phase = "done",
           search' = [search EXCEPT ![s] = l]
    PROVE  Searches(search')
<1>1. search' \in [Searcher -> LookupState] /\ search'[s] = l /\ \A u \in Searcher : u # s => search'[u] = search[u]
  BY DEF Searches
<1>2. ASSUME NEW u \in Searcher PROVE Phased(search'[u]) /\ \A t \in search'[u].after : search'[t].phase = "done"
  <2>1. \A t \in search'[u].after : t \in Searcher
    BY <1>1 DEF LookupState
  <2>2. QED
    BY <1>1, <2>1 DEF Searches
<1>3. QED
  BY <1>1, <1>2 DEF Searches

LEMMA OneIsPromised ==
    ASSUME Searches(search), NEW now, NEW st, NEW sec, NEW D, NEW E, Promised(search, D, st, sec, now),
           NEW s \in Searcher, search[s].phase # "done",
           NEW l \in LookupState, \A t \in l.after : t # s, NEW f, f = [search EXCEPT ![s] = l],
           OnTime(E, now), \A u \in Searcher \ {s} : Mine(u, E) = Mine(u, D),
           Own(l, Mine(s, E), now), Told(s, l, Mine(s, E), st), Names(f, s, Mine(s, E))
    PROVE  Promised(f, E, st, sec, now)
<1>1. f[s] = l /\ \A u \in Searcher : u # s => f[u] = search[u]
  BY DEF Searches
<1>2. ASSUME NEW u \in Searcher, u # s
      PROVE  Own(f[u], Mine(u, E), now) /\ Told(u, f[u], Mine(u, E), st) /\ Names(f, u, Mine(u, E))
  <2>1. Mine(u, E) = Mine(u, D) /\ f[u] = search[u]
    BY <1>1, <1>2
  <2>2. Own(search[u], Mine(u, D), now) /\ Told(u, search[u], Mine(u, D), st) /\ Names(search, u, Mine(u, D))
    BY DEF Promised
  <2>3. \A t \in search[u].after : t \in Searcher /\ t # s
    BY DEF Searches, LookupState
  <2>4. Names(f, u, Mine(u, D))
    BY <1>1, <1>2, <2>2, <2>3 DEF Names
  <2>5. QED
    BY <2>1, <2>2, <2>4
<1>3. QED
  BY <1>1, <1>2 DEF Promised

LEMMA InSeq ==
    ASSUME NEW S, NEW T \in Seq(S)
    PROVE  DOMAIN T = 1..Len(T) /\ \A i \in 1..Len(T) : T[i] \in S
<1>1. Len(T) \in Nat /\ DOMAIN T = 1..Len(T) /\ T \in [1..Len(T) -> S]
  BY LenProperties
<1>2. QED
  BY <1>1
LEMMA TargetsAre ==
    ASSUME NEW T \in Seq([node : NodeId, token : Nat])
    PROVE  /\ DOMAIN T = 1..Len(T) /\ \A i \in DOMAIN T : T[i] \in [node : NodeId, token : Nat] /\ T[i].node \in NodeId /\ T[i].token \in Nat
           /\ T # <<>> => Head(T) = T[1] /\ 1 \in DOMAIN T /\ Len(T) \in Nat \ {0}
<1> DEFINE R == [node : NodeId, token : Nat]
<1>1. \A x \in R : x.node \in NodeId /\ x.token \in Nat
  OBVIOUS
<1> HIDE DEF R
<1>2. T \in Seq(R)
  BY DEF R
<1>3. DOMAIN T = 1..Len(T) /\ \A i \in 1..Len(T) : T[i] \in R
  BY <1>2, InSeq
<1>4. ASSUME T # <<>> PROVE Head(T) = T[1] /\ 1 \in 1..Len(T) /\ Len(T) \in Nat \ {0}
  <2>1. Len(T) \in Nat /\ Len(T) # 0
    BY <1>2, <1>4, LenProperties, EmptySeq
  <2>2. QED
    BY <1>2, <1>4, <2>1, HeadTailProperties
<1>5. QED
  BY <1>1, <1>3, <1>4 DEF R

LEMMA QueryIs ==
    ASSUME NEW s \in Searcher, NEW n \in NodeId, NEW kind \in {"get_peers", "announce_peer"}, NEW token \in Nat
    PROVE  LET q == Query(s, n, kind, token) IN
           q \in Queries /\ q.kind = kind /\ q.token = token /\ q.to = n /\ Client(q) = s /\ Server(q) = n /\ Of(q) = kind
BY DEF Query, Queries, Client, Server, Of

LEMMA BucketsAreOfNodes ==
    ASSUME NEW t, SoundTable(t), NEW n \in NodeId
    PROVE  ContactsIn(t, n) \subseteq NodeId
<1>1. ASSUME NEW x \in 0..Width - 1, NEW i \in DOMAIN t[n][x] PROVE t[n][x][i].id \in NodeId
  <2>1. t[n][x] \in Seq(Contact)
    BY DEF SoundTable, SoundBucket
  <2>2. t[n][x][i] \in Contact
    BY <2>1, LenProperties
  <2>3. QED
    BY <2>2 DEF Contact
<1>2. QED
  BY <1>1 DEF ContactsIn

LEMMA ClosestAreAmong ==
    ASSUME NEW h, NEW ids
    PROVE  Closest(h, ids) \subseteq ids
BY DEF Closest

\* What a lookup is promised while nothing is lost and at most one turn has passed.
Calm == lost = 0 /\ ticks <= 1
Keeping(s, l, D, st) == Own(l, Mine(s, D), ticks) /\ Told(s, l, Mine(s, D), st)

LEMMA SearcherHas ==
    ASSUME DhtIInv, NEW s \in Searcher
    PROVE  /\ Searches(search) /\ search[s] \in LookupState /\ Phased(search[s]) /\ ticks \in Nat
           /\ \A t \in search[s].after : t \in Searcher /\ search[t].phase = "done"
           /\ Calm => OnTime(dgrams, ticks) /\ Keeping(s, search[s], dgrams, stored) /\ Names(search, s, Mine(s, dgrams))
BY DEF DhtIInv, DhtTypes, Searches, LookupState, Promised, Calm, Keeping

\* A step of one lookup need only say what becomes of itself and its own datagrams.
LEMMA OneKeeps ==
    ASSUME DhtIInv, NEW s \in Searcher, search[s].phase # "done",
           NEW l \in LookupState, Phased(l), \A t \in l.after : t # s /\ search[t].phase = "done",
           search' = [search EXCEPT ![s] = l], UNCHANGED <<stored, secrets, ticks>>,
           SoundTable(table'), dgrams' \subseteq Queries \cup Replies, lost' \in {lost, lost + 1},
           \A u \in Searcher \ {s} : Mine(u, dgrams') = Mine(u, dgrams),
           Calm /\ lost' = lost => OnTime(dgrams', ticks) /\ Keeping(s, l, dgrams', stored) /\ Names(search', s, Mine(s, dgrams'))
    PROVE  DhtIInv'
<1>1. Searches(search) /\ lost \in Nat /\ ticks \in Nat
  BY DEF DhtIInv, DhtTypes
<1>2. DhtTypes'
  <2>1. Searches(search')
    BY <1>1, OneSearches
  <2>2. QED
    BY <1>1, <2>1 DEF DhtIInv, DhtTypes
<1>3. ASSUME lost' = 0, ticks <= 1 PROVE Promised(search', dgrams', stored, secrets, ticks)
  <2>1. lost' = lost /\ lost = 0 /\ Calm
    BY <1>1, <1>3 DEF Calm
  <2>2. OnTime(dgrams', ticks) /\ Own(l, Mine(s, dgrams'), ticks) /\ Told(s, l, Mine(s, dgrams'), stored) /\ Names(search', s, Mine(s, dgrams'))
    BY <2>1 DEF Keeping
  <2>3. Promised(search, dgrams, stored, secrets, ticks)
    BY <2>1 DEF DhtIInv, Calm
  <2>4. \A t \in l.after : t # s
    OBVIOUS
  <2>5. QED
    BY <1>1, <2>2, <2>3, <2>4, OneIsPromised
<1>4. QED
  BY <1>2, <1>3 DEF DhtIInv

LEMMA StillNames ==
    ASSUME DhtIInv, NEW s \in Searcher, NEW l \in LookupState, NEW M, NEW N, Names(search, s, M),
           search' = [search EXCEPT ![s] = l], \A t \in l.after : t # s,
           l.after \subseteq search[s].after, l.answered \subseteq search[s].answered, search[s].found \subseteq l.found,
           \A d \in N : d.kind = "reply" => d \in M
    PROVE  Names(search', s, N)
<1>1. search'[s] = l /\ \A t \in l.after : search'[t] = search[t]
  <2>1. \A t \in l.after : t \in Searcher
    BY DEF LookupState
  <2>2. QED
    BY <2>1 DEF DhtIInv, DhtTypes, Searches
<1>2. QED
  BY <1>1 DEF Names

LEMMA StartKeeps ==
    ASSUME DhtIInv, NEW s \in Searcher, StartLookup(s)
    PROVE  DhtIInv'
<1> DEFINE l == Begin(s)  M == Mine(s, dgrams)
<1>1. /\ Searches(search) /\ search[s] \in LookupState /\ Phased(search[s])
      /\ Calm => OnTime(dgrams, ticks) /\ Own(search[s], M, ticks)
  BY SearcherHas DEF Keeping
<1>2. search[s].phase = "idle" /\ search' = [search EXCEPT ![s] = l] /\ UNCHANGED <<table, stored, secrets, dgrams, ticks, lost>>
  BY DEF StartLookup, Lookup
<1>3. /\ l \in LookupState /\ l.phase = "rounds" /\ l.cancelled = FALSE /\ l.waiting = {} /\ l.targets = search[s].targets
      /\ l.answered = {} /\ l.told = {} /\ l.after = {t \in Searcher : search[t].phase = "done"}
  BY <1>1, <1>2 DEF Begin, Lookup, LookupState, Phased
<1> HIDE DEF l
<1>4. Phased(l) /\ \A t \in l.after : t # s /\ search[t].phase = "done"
  BY <1>2, <1>3 DEF Phased
<1>5. M \subseteq dgrams
  BY DEF Mine
<1> HIDE DEF M
<1>6. ASSUME Calm PROVE OnTime(dgrams, ticks) /\ Own(l, M, ticks) /\ Told(s, l, M, stored) /\ Names(search', s, M)
  <2>1. OnTime(dgrams, ticks) /\ Own(search[s], M, ticks)
    BY <1>1, <1>6
  <2>2. \A d \in M : Server(d) \in Silent
    BY <1>1, <1>2, <2>1 DEF Own, Phased
  <2>3. Own(l, M, ticks)
    BY <1>3, <2>1, <2>2 DEF Own
  <2>4. Told(s, l, M, stored)
    BY <1>3 DEF Told
  <2>5. Names(search', s, M)
    <3>1. search'[s] = l
      BY <1>1, <1>2 DEF Searches
    <3>2. \A d \in M : d.kind # "reply"
      BY <1>5, <2>1, <2>2 DEF OnTime, Server
    <3>3. QED
      BY <1>3, <3>1, <3>2 DEF Names
  <2>6. QED
    BY <2>1, <2>3, <2>4, <2>5
<1>7. SoundTable(table') /\ dgrams' \subseteq Queries \cup Replies
  BY <1>2 DEF DhtIInv, DhtTypes
<1>8. QED
  BY <1>2, <1>3, <1>4, <1>6, <1>7, OneKeeps DEF Keeping, M

LEMMA RoundKeeps ==
    ASSUME DhtIInv, NEW s \in Searcher, NextRound(s)
    PROVE  DhtIInv'
<1> DEFINE next == {n \in Unasked(s) : Cardinality({m \in Unasked(s) : Closer(InfoHash, m, n)}) < LookupAlpha}
           new == {Query(s, n, "get_peers", 0) : n \in next}
           M == Mine(s, dgrams)
<1>1. /\ Searches(search) /\ search[s] \in LookupState /\ Phased(search[s]) /\ ticks \in Nat
      /\ \A t \in search[s].after : t \in Searcher /\ search[t].phase = "done"
      /\ Calm => OnTime(dgrams, ticks) /\ Own(search[s], M, ticks) /\ Told(s, search[s], M, stored) /\ Names(search, s, M)
  BY SearcherHas DEF Keeping
<1>2. search[s].phase = "rounds" /\ search[s].waiting = {} /\ UNCHANGED <<table, stored, secrets, ticks, lost>>
  BY DEF NextRound, Lookup
<1>3. next \subseteq NodeId
  BY ClosestAreAmong DEF Unasked, Top, Listed
<1>4. SoundTable(table') /\ dgrams \subseteq Queries \cup Replies
  BY <1>2 DEF DhtIInv, DhtTypes
<1>5. Calm => \A d \in M : Server(d) \in Silent
  BY <1>1, <1>2 DEF Own, Phased
<1>6. CASE next = {} \/ search[s].round = MaxLookupRounds
  <2> DEFINE l == [search[s] EXCEPT !.phase = "announce"]
  <2>1. search' = [search EXCEPT ![s] = l] /\ dgrams' = dgrams
    BY <1>6 DEF NextRound, Lookup
  <2>2. /\ l \in LookupState /\ l.phase = "announce" /\ l.cancelled = search[s].cancelled /\ l.waiting = {} /\ l.targets = search[s].targets
        /\ l.answered = search[s].answered /\ l.found = search[s].found /\ l.told = search[s].told /\ l.after = search[s].after
    BY <1>1, <1>2 DEF LookupState
  <2> HIDE DEF l
  <2>3. Phased(l) /\ \A t \in l.after : t # s /\ search[t].phase = "done"
    BY <1>1, <1>2, <2>2 DEF Phased
  <2>4. ASSUME Calm PROVE OnTime(dgrams, ticks) /\ Own(l, M, ticks) /\ Told(s, l, M, stored) /\ Names(search', s, M)
    <3> HIDE DEF M
    <3>1. Own(l, M, ticks)
      BY <1>1, <1>5, <2>2, <2>4 DEF Own
    <3>2. Told(s, l, M, stored)
      BY <1>1, <2>2, <2>4 DEF Told
    <3>3. Names(search', s, M)
      BY <1>1, <2>1, <2>2, <2>3, <2>4, StillNames
    <3>4. QED
      BY <1>1, <2>4, <3>1, <3>2, <3>3
  <2>5. QED
    BY <1>2, <1>4, <2>1, <2>2, <2>3, <2>4, OneKeeps DEF Keeping
<1>7. CASE ~(next = {} \/ search[s].round = MaxLookupRounds)
  <2> DEFINE l == [search[s] EXCEPT !.waiting = next, !.round = @ + 1, !.list = [n \in NodeId |-> IF n \in next THEN "asked" ELSE @[n]]]
             N == Mine(s, dgrams')
  <2>1. search' = [search EXCEPT ![s] = l] /\ dgrams' = dgrams \cup new
    BY <1>7 DEF NextRound, Lookup
  <2>2. /\ l \in LookupState /\ l.phase = "rounds" /\ l.cancelled = search[s].cancelled /\ l.waiting = next /\ l.targets = search[s].targets
        /\ l.answered = search[s].answered /\ l.found = search[s].found /\ l.told = search[s].told /\ l.after = search[s].after
    <3>1. search[s].round + 1 \in 0..MaxLookupRounds
      BY <1>1, <1>7, Positive DEF LookupState
    <3>2. [n \in NodeId |-> IF n \in next THEN "asked" ELSE search[s].list[n]] \in [NodeId -> {"unheard", "new", "asked"}]
      BY <1>1 DEF LookupState
    <3> HIDE DEF next
    <3>3. QED
      BY <1>1, <1>2, <1>3, <3>1, <3>2 DEF LookupState
  <2> HIDE DEF l
  <2>3. Phased(l) /\ \A t \in l.after : t # s /\ search[t].phase = "done"
    BY <1>1, <1>2, <2>2 DEF Phased
  <2> HIDE DEF next
  <2>4. \A q \in new : q \in Queries /\ q.kind = "get_peers" /\ q.token = 0 /\ Client(q) = s /\ Server(q) \in next /\ Of(q) = "get_peers"
    BY <1>3, QueryIs
  <2>5. \A n \in next : \E q \in new : Server(q) = n
    BY <1>3, QueryIs
  <2>6. \A q \in new : q = Query(s, Server(q), "get_peers", 0)
    BY <1>3, QueryIs
  <2> HIDE DEF new
  <2>7. N = M \cup new /\ \A u \in Searcher \ {s} : Mine(u, dgrams') = Mine(u, dgrams)
    BY <2>1, <2>4 DEF Mine
  <2>8. ASSUME Calm PROVE OnTime(dgrams', ticks) /\ Own(l, N, ticks) /\ Told(s, l, N, stored) /\ Names(search', s, N)
    <3> HIDE DEF M, N
    <3>1. OnTime(dgrams', ticks)
      BY <1>1, <2>1, <2>4, <2>8 DEF OnTime
    <3>2. Own(l, N, ticks)
      <4>1. \A n \in l.waiting \ Silent : \E d \in N : Server(d) = n
        BY <2>2, <2>5, <2>7
      <4>2. ASSUME NEW d \in N, Server(d) \notin Silent
            PROVE  /\ Server(d) \in l.waiting /\ Of(d) = "get_peers"
                   /\ \A e \in N : Server(e) = Server(d) => e = d
        BY <1>5, <2>2, <2>4, <2>6, <2>7, <2>8, <4>2
      <4>3. QED
        BY <1>1, <2>2, <2>8, <4>1, <4>2 DEF Own
    <3>3. Told(s, l, N, stored)
      BY <1>1, <2>2, <2>7, <2>8 DEF Told
    <3>4. Names(search', s, N)
      <4>1. \A d \in N : d.kind = "reply" => d \in M
        BY <2>4, <2>7
      <4>2. QED
        BY <1>1, <2>1, <2>2, <2>3, <2>8, <4>1, StillNames
    <3>5. QED
      BY <3>1, <3>2, <3>3, <3>4
  <2>9. dgrams' \subseteq Queries \cup Replies
    BY <1>4, <2>1, <2>4
  <2>10. QED
    BY <1>2, <1>4, <2>1, <2>2, <2>3, <2>7, <2>8, <2>9, OneKeeps DEF Keeping
<1>8. QED
  BY <1>6, <1>7

LEMMA AnnounceKeeps ==
    ASSUME DhtIInv, NEW s \in Searcher, Announce(s)
    PROVE  DhtIInv'
<1> DEFINE M == Mine(s, dgrams)
<1>1. /\ Searches(search) /\ search[s] \in LookupState /\ Phased(search[s]) /\ ticks \in Nat
      /\ \A t \in search[s].after : t \in Searcher /\ search[t].phase = "done"
      /\ Calm => OnTime(dgrams, ticks) /\ Own(search[s], M, ticks) /\ Told(s, search[s], M, stored) /\ Names(search, s, M)
  BY SearcherHas DEF Keeping
<1>2. search[s].phase = "announce" /\ search[s].waiting = {} /\ UNCHANGED <<table, stored, secrets, ticks, lost>>
  BY DEF Announce, Lookup
<1>3. SoundTable(table') /\ dgrams \subseteq Queries \cup Replies
  BY <1>2 DEF DhtIInv, DhtTypes
<1>4. search[s].cancelled = FALSE
  BY <1>1, <1>2 DEF Phased, LookupState
<1>5. Calm => \A d \in M : Server(d) \in Silent
  BY <1>1, <1>2, <1>4 DEF Own
<1>6. CASE search[s].targets = <<>>
  <2> DEFINE l == [search[s] EXCEPT !.phase = "done"]
  <2>1. search' = [search EXCEPT ![s] = l] /\ dgrams' = dgrams
    BY <1>6 DEF Announce, Lookup
  <2>2. /\ l \in LookupState /\ l.phase = "done" /\ l.waiting = {} /\ l.targets = search[s].targets
        /\ l.answered = search[s].answered /\ l.found = search[s].found /\ l.told = search[s].told /\ l.after = search[s].after
    BY <1>1, <1>2 DEF LookupState
  <2> HIDE DEF l
  <2>3. Phased(l) /\ \A t \in l.after : t # s /\ search[t].phase = "done"
    BY <1>1, <1>2, <2>2 DEF Phased
  <2>4. ASSUME Calm PROVE OnTime(dgrams, ticks) /\ Own(l, M, ticks) /\ Told(s, l, M, stored) /\ Names(search', s, M)
    <3> HIDE DEF M
    <3>1. Own(l, M, ticks)
      BY <1>1, <1>5, <2>2, <2>4 DEF Own
    <3>2. Told(s, l, M, stored)
      BY <1>1, <1>4, <2>2, <2>4 DEF Told
    <3>3. Names(search', s, M)
      BY <1>1, <2>1, <2>2, <2>3, <2>4, StillNames
    <3>4. QED
      BY <1>1, <2>4, <3>1, <3>2, <3>3
  <2>5. QED
    BY <1>2, <1>3, <2>1, <2>2, <2>3, <2>4, OneKeeps DEF Keeping
<1>7. CASE search[s].targets # <<>>
  <2> DEFINE t1 == Head(search[s].targets)
             q == Query(s, t1.node, "announce_peer", t1.token)
             l == [search[s] EXCEPT !.waiting = {t1.node}, !.told = @ \cup {t1.node}]
             N == Mine(s, dgrams')
  <2>1. search' = [search EXCEPT ![s] = l] /\ dgrams' = dgrams \cup {q}
    BY <1>7 DEF Announce, Lookup
  <2>2. /\ search[s].targets \in Seq([node : NodeId, token : Nat]) /\ Len(search[s].targets) \in Nat \ {0}
        /\ t1 = search[s].targets[1] /\ t1 \in [node : NodeId, token : Nat]
    <3>1. search[s].targets \in Seq([node : NodeId, token : Nat])
      BY <1>1 DEF LookupState
    <3>2. Len(search[s].targets) \in Nat \ {0} /\ t1 = search[s].targets[1] /\ 1 \in 1..Len(search[s].targets)
      BY <1>7, <3>1, TargetsAre
    <3>3. t1 \in [node : NodeId, token : Nat]
      BY <1>7, <3>1, TargetsAre
    <3>4. QED
      BY <3>1, <3>2, <3>3
  <2>3. t1.node \in NodeId /\ t1.token \in Nat
    BY <2>2
  <2>4. 1 \in 1..Len(search[s].targets)
    BY <2>2
  <2>5. Calm => t1.node \notin Silent /\ t1.token <= ticks
    BY <1>1, <2>2, <2>4 DEF Own
  <2>6. /\ l \in LookupState /\ l.phase = "announce" /\ l.cancelled = FALSE /\ l.waiting = {t1.node} /\ l.targets = search[s].targets
        /\ l.answered = search[s].answered /\ l.found = search[s].found /\ l.told = search[s].told \cup {t1.node} /\ l.after = search[s].after
    <3> HIDE DEF t1
    <3>1. QED
      BY <1>1, <1>2, <1>4, <2>3 DEF LookupState
  <2> HIDE DEF l
  <2>7. Phased(l) /\ \A t \in l.after : t # s /\ search[t].phase = "done"
    BY <1>1, <1>2, <1>7, <2>6 DEF Phased
  <2>8. q \in Queries /\ q.kind = "announce_peer" /\ q.token = t1.token /\ q.to = t1.node /\ Client(q) = s /\ Server(q) = t1.node /\ Of(q) = "announce_peer"
    BY <2>3, QueryIs
  <2> HIDE DEF q
  <2>9. N = M \cup {q} /\ \A u \in Searcher \ {s} : Mine(u, dgrams') = Mine(u, dgrams)
    BY <2>1, <2>8 DEF Mine
  <2>10. ASSUME Calm PROVE OnTime(dgrams', ticks) /\ Own(l, N, ticks) /\ Told(s, l, N, stored) /\ Names(search', s, N)
    <3> HIDE DEF M, N
    <3>1. OnTime(dgrams', ticks)
      BY <1>1, <2>1, <2>5, <2>8, <2>10 DEF OnTime
    <3>2. Own(l, N, ticks)
      <4>1. \A n \in l.waiting : \E d \in N : Server(d) = n
        BY <2>6, <2>8, <2>9
      <4>2. ASSUME NEW d \in N, Server(d) \notin Silent
            PROVE  d = q
        BY <1>5, <2>9, <2>10, <4>2
      <4>3. l.waiting \subseteq {Head(l.targets).node}
        BY <2>6
      <4>4. \A d \in N : Server(d) \notin Silent => Server(d) \in l.waiting /\ (Of(d) = "get_peers" <=> l.phase = "rounds")
        BY <2>6, <2>8, <4>2
      <4>5. \A d \in N : Server(d) \notin Silent => \A e \in N : Server(e) = Server(d) => e = d
        BY <4>2
      <4>6. \A i \in 1..Len(l.targets) : l.targets[i].node \notin Silent /\ l.targets[i].token <= ticks
        BY <1>1, <2>6, <2>10 DEF Own
      <4>7. QED
        BY <4>1, <4>3, <4>4, <4>5, <4>6 DEF Own
    <3>3. Told(s, l, N, stored)
      <4>1. \A n \in search[s].told : s \in stored[n] \/ \E d \in M : d.kind = "announce_peer" /\ d.to = n
        BY <1>1, <1>4, <2>10 DEF Told
      <4>2. QED
        BY <2>6, <2>8, <2>9, <4>1 DEF Told
    <3>4. Names(search', s, N)
      <4>1. \A d \in N : d.kind = "reply" => d \in M
        BY <2>8, <2>9
      <4>2. QED
        BY <1>1, <2>1, <2>6, <2>7, <2>10, <4>1, StillNames
    <3>5. QED
      BY <3>1, <3>2, <3>3, <3>4
  <2>11. dgrams' \subseteq Queries \cup Replies
    BY <1>3, <2>1, <2>8
  <2>12. QED
    BY <1>2, <1>3, <2>1, <2>6, <2>7, <2>9, <2>10, <2>11, OneKeeps DEF Keeping
<1>8. QED
  BY <1>6, <1>7

LEMMA TimeoutKeeps ==
    ASSUME DhtIInv, NEW s \in Searcher, NEW n \in NodeId, Timeout(s, n)
    PROVE  DhtIInv' /\ KeepsAll(table, table')
<1> DEFINE M == Mine(s, dgrams)
<1>1. /\ Searches(search) /\ search[s] \in LookupState /\ Phased(search[s]) /\ ticks \in Nat
      /\ \A t \in search[s].after : t \in Searcher /\ search[t].phase = "done"
      /\ Calm => OnTime(dgrams, ticks) /\ Own(search[s], M, ticks) /\ Told(s, search[s], M, stored) /\ Names(search, s, M)
  BY SearcherHas DEF Keeping
<1>2. n \in search[s].waiting /\ UNCHANGED <<stored, secrets, dgrams, ticks>>
  BY DEF Timeout, Lookup
<1>3. search[s].phase \in {"rounds", "announce"} /\ search[s].phase # "done"
  BY <1>1, <1>2 DEF Phased, LookupState
<1>4. SoundTable(table) /\ dgrams \subseteq Queries \cup Replies /\ lost \in Nat /\ Searcher \subseteq NodeId \ Silent
  BY Positive DEF DhtIInv, DhtTypes
<1>5. lost' \in {lost, lost + 1} /\ (lost' = lost => ~UnderWay(s, n))
  BY <1>4 DEF Timeout
<1>6. ASSUME Calm, lost' = lost PROVE n \in Silent
  <2> SUFFICES ASSUME n \notin Silent PROVE FALSE
    OBVIOUS
  <2>1. PICK d \in M : Server(d) = n
    BY <1>1, <1>2, <1>6 DEF Own
  <2>2. d \in dgrams /\ Client(d) = s
    BY DEF Mine
  <2>3. {d.from, d.to} = {s, n} /\ d.to \notin Silent
    BY <1>4, <2>1, <2>2 DEF Client, Server
  <2>4. QED
    BY <1>5, <1>6, <2>2, <2>3 DEF UnderWay
<1>7. CASE search[s].phase = "rounds"
  <2> DEFINE l == [search[s] EXCEPT !.waiting = @ \ {n}]
  <2>1. search' = [search EXCEPT ![s] = l] /\ table' = MarkFailed(table, s, {n})
    BY <1>7 DEF Timeout, Abandoned, Lookup
  <2>2. /\ l \in LookupState /\ l.phase = "rounds" /\ l.cancelled = search[s].cancelled /\ l.waiting = search[s].waiting \ {n} /\ l.targets = search[s].targets
        /\ l.answered = search[s].answered /\ l.found = search[s].found /\ l.told = search[s].told /\ l.after = search[s].after
    BY <1>1, <1>7 DEF LookupState
  <2> HIDE DEF l
  <2>3. Phased(l) /\ \A t \in l.after : t # s /\ search[t].phase = "done"
    BY <1>1, <1>7, <2>2 DEF Phased
  <2>4. SoundTable(table') /\ KeepsAll(table, table')
    BY <1>4, <2>1, MarkedInTable
  <2>5. ASSUME Calm, lost' = lost PROVE OnTime(dgrams, ticks) /\ Own(l, M, ticks) /\ Told(s, l, M, stored) /\ Names(search', s, M)
    <3> HIDE DEF M
    <3>1. n \in Silent
      BY <1>6, <2>5
    <3>2. Own(l, M, ticks)
      BY <1>1, <1>7, <2>2, <2>5, <3>1 DEF Own
    <3>3. Told(s, l, M, stored)
      BY <1>1, <2>2, <2>5 DEF Told
    <3>4. Names(search', s, M)
      BY <1>1, <2>1, <2>2, <2>3, <2>5, StillNames
    <3>5. QED
      BY <1>1, <2>5, <3>2, <3>3, <3>4
  <2>6. QED
    BY <1>2, <1>3, <1>4, <1>5, <2>1, <2>2, <2>3, <2>4, <2>5, OneKeeps DEF Keeping
<1>8. CASE search[s].phase = "announce"
  <2> DEFINE l == [search[s] EXCEPT !.waiting = {}, !.targets = Tail(@)]
  <2>1. search' = [search EXCEPT ![s] = l] /\ table' = table
    BY <1>8 DEF Timeout, Abandoned, Lookup
  <2>2. search[s].targets \in Seq([node : NodeId, token : Nat]) /\ search[s].targets # <<>>
    BY <1>1, <1>2, <1>8 DEF Phased, LookupState
  <2>3. Tail(search[s].targets) \in Seq([node : NodeId, token : Nat]) /\ Head(search[s].targets) = search[s].targets[1] /\ 1 \in 1..Len(search[s].targets)
    BY <2>2, HeadTailProperties, LenProperties, EmptySeq
  <2>4. /\ l \in LookupState /\ l.phase = "announce" /\ l.cancelled = search[s].cancelled /\ l.waiting = {} /\ l.after = search[s].after
    BY <1>1, <1>8, <2>3 DEF LookupState
  <2> HIDE DEF l
  <2>5. Phased(l) /\ \A t \in l.after : t # s /\ search[t].phase = "done"
    BY <1>1, <1>8, <2>4 DEF Phased
  <2>6. SoundTable(table') /\ KeepsAll(table, table')
    BY <1>4, <2>1, KeepsItself
  <2>7. ~(Calm /\ lost' = lost)
    BY <1>1, <1>2, <1>6, <1>8, <2>3 DEF Own
  <2>8. QED
    BY <1>2, <1>3, <1>4, <1>5, <2>1, <2>4, <2>5, <2>6, <2>7, OneKeeps
<1>9. QED
  BY <1>3, <1>7, <1>8

LEMMA CancelKeeps ==
    ASSUME DhtIInv, NEW s \in Searcher, CancelLookup(s)
    PROVE  DhtIInv' /\ KeepsAll(table, table')
<1> DEFINE M == Mine(s, dgrams)  N == Mine(s, dgrams')
           T == search[s].targets
           new == {Query(s, T[i].node, "announce_peer", T[i].token) : i \in DOMAIN T}
           l == [search[s] EXCEPT !.phase = "done", !.cancelled = TRUE, !.waiting = {}, !.targets = <<>>,
                                  !.told = @ \cup {T[i].node : i \in DOMAIN T}]
<1>1. /\ Searches(search) /\ search[s] \in LookupState /\ ticks \in Nat
      /\ \A t \in search[s].after : t \in Searcher /\ search[t].phase = "done"
      /\ Calm => OnTime(dgrams, ticks) /\ Own(search[s], M, ticks) /\ Names(search, s, M)
  BY SearcherHas DEF Keeping
<1>2. /\ search[s].phase # "done" /\ UNCHANGED <<stored, secrets, ticks, lost>>
      /\ search' = [search EXCEPT ![s] = l] /\ dgrams' = dgrams \cup new
      /\ table' = IF search[s].phase = "rounds" THEN MarkFailed(table, s, search[s].waiting) ELSE table
  BY DEF CancelLookup, Lookup
<1>3. /\ SoundTable(table) /\ dgrams \subseteq Queries \cup Replies /\ s \in NodeId
  BY Positive DEF DhtIInv, DhtTypes
<1>4. SoundTable(table') /\ KeepsAll(table, table')
  BY <1>2, <1>3, MarkedInTable, KeepsItself
<1>5. DOMAIN T = 1..Len(T) /\ \A i \in DOMAIN T : T[i].node \in NodeId /\ T[i].token \in Nat
  <2>1. T \in Seq([node : NodeId, token : Nat])
    BY <1>1 DEF LookupState
  <2>2. QED
    BY <2>1, TargetsAre
<1>6. /\ l \in LookupState /\ l.phase = "done" /\ l.cancelled = TRUE /\ l.waiting = {} /\ l.targets = <<>>
      /\ l.answered = search[s].answered /\ l.found = search[s].found /\ l.after = search[s].after
  <2>1. {T[i].node : i \in DOMAIN T} \subseteq NodeId
    BY <1>5
  <2>2. <<>> \in Seq([node : NodeId, token : Nat])
    BY EmptySeq
  <2> DEFINE more == {T[i].node : i \in DOMAIN T}
  <2> HIDE DEF more
  <2>3. [search[s] EXCEPT !.phase = "done", !.cancelled = TRUE, !.waiting = {}, !.targets = <<>>, !.told = @ \cup more] \in LookupState
    BY <1>1, <2>1, <2>2 DEF LookupState, more
  <2>4. QED
    BY <1>1, <2>3 DEF more, LookupState
<1> HIDE DEF l
<1>7. Phased(l) /\ \A t \in l.after : t # s /\ search[t].phase = "done"
  BY <1>1, <1>2, <1>6 DEF Phased
<1>8. \A q \in new : \E i \in 1..Len(T) : q \in Queries /\ q.kind = "announce_peer" /\ q.token = T[i].token /\ Client(q) = s
  BY <1>5, QueryIs
<1> HIDE DEF new
<1>9. N = M \cup new /\ \A u \in Searcher \ {s} : Mine(u, dgrams') = Mine(u, dgrams)
  BY <1>2, <1>8 DEF Mine
<1>10. ASSUME Calm PROVE OnTime(dgrams', ticks) /\ Own(l, N, ticks) /\ Told(s, l, N, stored) /\ Names(search', s, N)
  <2>1. \A i \in 1..Len(T) : T[i].token <= ticks
    BY <1>1, <1>10 DEF Own
  <2> HIDE DEF M, N, T
  <2>2. OnTime(dgrams', ticks)
    BY <1>1, <1>2, <1>8, <1>10, <2>1 DEF OnTime
  <2>3. Own(l, N, ticks)
    <3>1. Len(l.targets) = 0
      BY <1>6
    <3>2. QED
      BY <1>6, <3>1 DEF Own
  <2>4. Told(s, l, N, stored)
    BY <1>6 DEF Told
  <2>5. Names(search', s, N)
    <3>1. \A d \in N : d.kind = "reply" => d \in M
      BY <1>8, <1>9
    <3>2. QED
      BY <1>1, <1>2, <1>6, <1>7, <1>10, <3>1, StillNames
  <2>6. QED
    BY <2>2, <2>3, <2>4, <2>5
<1>11. dgrams' \subseteq Queries \cup Replies
  BY <1>2, <1>3, <1>8
<1>12. QED
  BY <1>2, <1>4, <1>6, <1>7, <1>9, <1>10, <1>11, OneKeeps DEF Keeping

\* A reply nobody waits for: of a lookup that was cancelled.
LEMMA LateReplyKeeps ==
    ASSUME DhtIInv, NEW r \in dgrams, r.kind = "reply", ~Awaited(r.to, r), dgrams' = dgrams \ {r},
           UNCHANGED <<search, stored, secrets, ticks, lost>>, SoundTable(table')
    PROVE  DhtIInv'
<1> DEFINE s == r.to  M == Mine(s, dgrams)
<1>1. r \in Replies
  BY DEF DhtIInv, DhtTypes, Queries
<1>2. s \in Searcher
  BY <1>1 DEF Replies
<1>3. /\ Phased(search[s]) /\ search[s] \in LookupState
      /\ Calm => OnTime(dgrams, ticks) /\ Own(search[s], M, ticks) /\ Told(s, search[s], M, stored) /\ Names(search, s, M)
  BY <1>2, SearcherHas DEF Keeping
<1>4. DhtTypes'
  BY DEF DhtIInv, DhtTypes
<1>5. ASSUME Calm PROVE Promised(search, dgrams', stored, secrets, ticks)
  <2>1. Promised(search, dgrams, stored, secrets, ticks) /\ OnTime(dgrams, ticks)
    BY <1>5 DEF Calm, DhtIInv, Promised
  <2>2. r \in M /\ Server(r) \notin Silent /\ Server(r) = r.from /\ Of(r) = r.of /\ Client(r) = s
    BY <1>1, <2>1 DEF Mine, OnTime, Server, Client, Of
  <2>3. search[s].cancelled
    BY <1>3, <1>5, <2>2 DEF Awaited, Own, Lookup
  <2>4. Mine(s, dgrams') \subseteq M /\ \A u \in Searcher \ {s} : Mine(u, dgrams') = Mine(u, dgrams)
    BY <2>2 DEF Mine
  <2>5. Own(search[s], M, ticks) /\ Told(s, search[s], M, stored) /\ Names(search, s, M)
    BY <1>3, <1>5
  <2> HIDE DEF M
  <2>6. search[s].waiting = {} /\ search[s].phase = "done"
    BY <1>3, <2>3 DEF Phased
  <2>7. Own(search[s], Mine(s, dgrams'), ticks)
    BY <2>3, <2>5, <2>6 DEF Own
  <2>8. Told(s, search[s], Mine(s, dgrams'), stored)
    BY <2>3 DEF Told
  <2>9. Names(search, s, Mine(s, dgrams'))
    BY <2>4, <2>5 DEF Names
  <2>10. OnTime(dgrams', ticks)
    BY <2>1 DEF OnTime
  <2> HIDE DEF s
  <2>11. ASSUME NEW u \in Searcher
         PROVE  Own(search[u], Mine(u, dgrams'), ticks) /\ Told(u, search[u], Mine(u, dgrams'), stored) /\ Names(search, u, Mine(u, dgrams'))
    <3>1. CASE u = s
      BY <2>7, <2>8, <2>9, <3>1
    <3>2. CASE u # s
      <4>1. Mine(u, dgrams') = Mine(u, dgrams)
        BY <2>4, <3>2
      <4>2. Own(search[u], Mine(u, dgrams), ticks) /\ Told(u, search[u], Mine(u, dgrams), stored) /\ Names(search, u, Mine(u, dgrams))
        BY <2>1 DEF Promised
      <4>3. QED
        BY <4>1, <4>2
    <3>3. QED
      BY <3>1, <3>2
  <2>12. QED
    BY <2>1, <2>10, <2>11 DEF Promised
<1>6. QED
  BY <1>4, <1>5 DEF DhtIInv, Calm

LEMMA DeliverKeeps ==
    ASSUME DhtIInv, NEW r \in dgrams, Deliver(r)
    PROVE  DhtIInv' /\ KeepsAll(table, table')
<1> DEFINE s == r.to  M == Mine(s, dgrams)  N == Mine(s, dgrams')
<1>1. r.kind = "reply" /\ dgrams' = dgrams \ {r} /\ UNCHANGED <<stored, secrets, ticks, lost>>
  BY DEF Deliver
<1>2. r \in Replies
  BY <1>1 DEF DhtIInv, DhtTypes, Queries
<1>3. /\ s \in Searcher /\ s \in NodeId /\ r.from \in NodeId /\ r.token \in Nat /\ r.peers \subseteq Peers /\ r.nodes \subseteq NodeId
      /\ Client(r) = s /\ Server(r) = r.from /\ Of(r) = r.of /\ r \in M
  BY <1>1, <1>2, Positive DEF Replies, Client, Server, Of, Mine
<1>4. SoundTable(table) /\ dgrams' \subseteq Queries \cup Replies
  BY <1>1 DEF DhtIInv, DhtTypes
<1>5. SoundTable(table') /\ KeepsAll(table, table')
  <2>1. table' = table \/ table' = Insert(table, s, r.from)
    BY DEF Deliver
  <2>2. QED
    BY <1>3, <1>4, <2>1, InsertedInTable, KeepsItself
<1>6. CASE ~Awaited(s, r)
  <2>1. search' = search
    BY <1>6 DEF Deliver
  <2>2. QED
    BY <1>1, <1>5, <1>6, <2>1, LateReplyKeeps
<1>7. CASE Awaited(s, r)
  <2>1. /\ Searches(search) /\ search[s] \in LookupState /\ Phased(search[s]) /\ ticks \in Nat
        /\ \A t \in search[s].after : t \in Searcher /\ search[t].phase = "done"
        /\ Calm => OnTime(dgrams, ticks) /\ Own(search[s], M, ticks) /\ Told(s, search[s], M, stored) /\ Names(search, s, M)
    BY <1>3, SearcherHas DEF Keeping
  <2>2. r.from \in search[s].waiting /\ (r.of = "get_peers" <=> search[s].phase = "rounds")
    BY <1>7 DEF Awaited, Lookup
  <2>3. search[s].phase \in {"rounds", "announce"} /\ search[s].cancelled = FALSE
    BY <2>1, <2>2 DEF Phased, LookupState
  <2>4. N = M \ {r} /\ \A u \in Searcher \ {s} : Mine(u, dgrams') = Mine(u, dgrams)
    BY <1>1, <1>3 DEF Mine
  <2>5. ASSUME Calm
        PROVE  /\ r.from \notin Silent /\ r.token <= ticks /\ OnTime(dgrams', ticks)
               /\ \A d \in M : Server(d) \notin Silent => Server(d) \in search[s].waiting /\ (Of(d) = "get_peers" <=> search[s].phase = "rounds")
               /\ \A d \in M : Server(d) = r.from => d = r
    <3>1. r.from \notin Silent /\ r.token <= ticks /\ OnTime(dgrams', ticks)
      BY <1>1, <2>1, <2>5 DEF OnTime
    <3> HIDE DEF M
    <3>2. \A d \in M : Server(d) \notin Silent => Server(d) \in search[s].waiting /\ (Of(d) = "get_peers" <=> search[s].phase = "rounds")
      BY <2>1, <2>3, <2>5 DEF Own
    <3>3. \A d \in M : Server(d) = r.from => d = r
      BY <1>3, <2>1, <2>3, <2>5, <3>1 DEF Own
    <3>4. QED
      BY <3>1, <3>2, <3>3
  <2>6. CASE r.of = "get_peers"
    <3> DEFINE l == WithAnswer(search[s], r)
               T == search[s].targets
               one == [node |-> r.from, token |-> r.token]
    <3>1. search' = [search EXCEPT ![s] = l]
      BY <1>7, <2>1, <2>6 DEF Deliver, Searches
    <3>2. search[s].phase = "rounds"
      BY <2>2, <2>6
    <3>3. T \in Seq([node : NodeId, token : Nat]) /\ one \in [node : NodeId, token : Nat]
      BY <1>3, <2>1 DEF LookupState
    <3>4. Append(T, one) \in Seq([node : NodeId, token : Nat])
      BY <3>3, AppendProperties
    <3>5. /\ l \in LookupState /\ l.phase = "rounds" /\ l.cancelled = FALSE /\ l.waiting = search[s].waiting \ {r.from}
          /\ l.targets \in {T, Append(T, one)} /\ l.answered = search[s].answered \cup {r.from} /\ l.found = search[s].found \cup r.peers
          /\ l.told = search[s].told /\ l.after = search[s].after
      <4>1. Merged(search[s], r) \in [NodeId -> {"unheard", "new", "asked"}]
        BY <2>1 DEF Merged, LookupState
      <4>2. l = [search[s] EXCEPT !.waiting = @ \ {r.from}, !.list = Merged(search[s], r), !.answered = @ \cup {r.from}, !.found = @ \cup r.peers,
                                  !.targets = IF r.peers = {} THEN @ ELSE Append(@, one)]
        BY DEF WithAnswer
      <4> DEFINE k == search[s]
                 w == k.waiting \ {r.from}
                 g == Merged(k, r)
                 h == k.answered \cup {r.from}
                 f == k.found \cup r.peers
                 t == IF r.peers = {} THEN T ELSE Append(T, one)
      <4>3. k \in LookupState /\ l = [k EXCEPT !.waiting = w, !.list = g, !.answered = h, !.found = f, !.targets = t]
        BY <2>1, <4>2
      <4>4. k.waiting \subseteq NodeId /\ k.answered \subseteq NodeId /\ k.found \subseteq Peers
        BY <2>1 DEF LookupState
      <4>5. /\ w \in SUBSET NodeId /\ g \in [NodeId -> {"unheard", "new", "asked"}] /\ h \in SUBSET NodeId /\ f \in SUBSET Peers
            /\ t \in {T, Append(T, one)} /\ t \in Seq([node : NodeId, token : Nat])
        <5> HIDE DEF one, l, s, k, T
        <5>1. QED
          BY <1>3, <3>3, <3>4, <4>1, <4>4 DEF k
      <4> HIDE DEF one, l, s, w, g, h, f, t, T, k
      <4>6. /\ l \in LookupState /\ l.waiting = w /\ l.answered = h /\ l.found = f /\ l.targets = t
            /\ l.phase = k.phase /\ l.cancelled = k.cancelled /\ l.told = k.told /\ l.after = k.after
        BY <4>3, <4>5 DEF LookupState
      <4>7. QED
        BY <2>3, <3>2, <4>5, <4>6 DEF k, w, h, f
    <3> HIDE DEF l
    <3>6. Phased(l) /\ \A t \in l.after : t # s /\ search[t].phase = "done"
      BY <2>1, <3>2, <3>5 DEF Phased
    <3>7. ASSUME Calm PROVE Own(l, N, ticks) /\ Told(s, l, N, stored) /\ Names(search', s, N)
      <4>1. /\ r.from \notin Silent /\ r.token <= ticks
            /\ \A d \in M : Server(d) \notin Silent => Server(d) \in search[s].waiting /\ (Of(d) = "get_peers" <=> search[s].phase = "rounds")
            /\ \A d \in M : Server(d) = r.from => d = r
            /\ Own(search[s], M, ticks) /\ Told(s, search[s], M, stored) /\ Names(search, s, M)
        BY <2>1, <2>5, <3>7
      <4> HIDE DEF M, N
      <4>2. Own(l, N, ticks)
        <5>1. \A i \in 1..Len(l.targets) : l.targets[i].node \notin Silent /\ l.targets[i].token <= ticks
          <6>1. \A i \in 1..Len(T) : T[i].node \notin Silent /\ T[i].token <= ticks
            BY <4>1 DEF Own
          <6>2. /\ Len(T) \in Nat /\ Len(Append(T, one)) = Len(T) + 1 /\ Append(T, one)[Len(T) + 1] = one
                /\ \A i \in 1..Len(T) : Append(T, one)[i] = T[i]
            BY <3>3, AppendProperties, LenProperties
          <6>3. one.node \notin Silent /\ one.token <= ticks
            BY <4>1
          <6> HIDE DEF one, T
          <6>4. ASSUME NEW i \in 1..Len(Append(T, one)) PROVE Append(T, one)[i].node \notin Silent /\ Append(T, one)[i].token <= ticks
            <7>1. i \in 1..Len(T) \/ i = Len(T) + 1
              BY <6>2
            <7>2. QED
              BY <6>1, <6>2, <6>3, <7>1
          <6>5. QED
            BY <3>5, <6>1, <6>4
        <5>2. \A n \in l.waiting \ Silent : \E d \in N : Server(d) = n
          BY <1>3, <2>4, <3>5, <4>1 DEF Own
        <5>3. \A d \in N : Server(d) \notin Silent => Server(d) \in l.waiting /\ (Of(d) = "get_peers" <=> l.phase = "rounds")
          BY <2>4, <3>2, <3>5, <4>1
        <5>4. \A d \in N : Server(d) \notin Silent => \A e \in N : Server(e) = Server(d) => e = d
          BY <2>3, <2>4, <4>1 DEF Own
        <5>5. QED
          BY <3>5, <5>1, <5>2, <5>3, <5>4 DEF Own
      <4>3. Told(s, l, N, stored)
        BY <1>1, <2>3, <2>4, <3>5, <4>1 DEF Told
      <4>4. Names(search', s, N)
        <5>1. search'[s] = l /\ \A t \in l.after : search'[t] = search[t]
          BY <1>3, <2>1, <3>1, <3>5, <3>6 DEF Searches
        <5>2. QED
          BY <1>1, <1>3, <2>4, <2>6, <3>5, <4>1, <5>1 DEF Names
      <4>5. QED
        BY <4>2, <4>3, <4>4
    <3>8. QED
      BY <1>1, <1>3, <1>4, <1>5, <2>3, <2>4, <2>5, <3>1, <3>5, <3>6, <3>7, OneKeeps DEF Keeping
  <2>7. CASE r.of # "get_peers"
    <3> DEFINE l == [search[s] EXCEPT !.waiting = {}, !.targets = Tail(@)]
               T == search[s].targets
    <3>1. search' = [search EXCEPT ![s] = l]
      BY <1>7, <2>7 DEF Deliver
    <3>2. search[s].phase = "announce"
      BY <2>2, <2>3, <2>7
    <3>3. T \in Seq([node : NodeId, token : Nat]) /\ T # <<>>
      BY <2>1, <2>2, <3>2 DEF Phased, LookupState
    <3>4. /\ Tail(T) \in Seq([node : NodeId, token : Nat]) /\ Len(T) \in Nat /\ Len(Tail(T)) = Len(T) - 1
          /\ \A i \in 1..Len(Tail(T)) : Tail(T)[i] = T[i + 1]
      BY <3>3, HeadTailProperties, LenProperties, EmptySeq
    <3>5. /\ l \in LookupState /\ l.phase = "announce" /\ l.cancelled = FALSE /\ l.waiting = {} /\ l.targets = Tail(T)
          /\ l.answered = search[s].answered /\ l.found = search[s].found /\ l.told = search[s].told /\ l.after = search[s].after
      BY <2>1, <2>3, <3>2, <3>4 DEF LookupState
    <3> HIDE DEF l
    <3>6. Phased(l) /\ \A t \in l.after : t # s /\ search[t].phase = "done"
      BY <2>1, <3>2, <3>5 DEF Phased
    <3>7. ASSUME Calm PROVE Own(l, N, ticks) /\ Told(s, l, N, stored) /\ Names(search', s, N)
      <4>1. /\ \A d \in M : Server(d) \notin Silent => Server(d) \in search[s].waiting
            /\ \A d \in M : Server(d) = r.from => d = r
            /\ Own(search[s], M, ticks) /\ Told(s, search[s], M, stored) /\ Names(search, s, M)
        BY <2>1, <2>5, <3>7
      <4> HIDE DEF M, N
      <4>2. Own(l, N, ticks)
        <5>1. \A i \in 1..Len(l.targets) : l.targets[i].node \notin Silent /\ l.targets[i].token <= ticks
          <6>1. \A i \in 1..Len(T) : T[i].node \notin Silent /\ T[i].token <= ticks
            BY <4>1 DEF Own
          <6> HIDE DEF T
          <6>2. ASSUME NEW i \in 1..Len(Tail(T)) PROVE Tail(T)[i].node \notin Silent /\ Tail(T)[i].token <= ticks
            <7>1. i + 1 \in 1..Len(T)
              BY <3>4
            <7>2. QED
              BY <3>4, <6>1, <7>1
          <6>3. QED
            BY <3>5, <6>2
        <5>2. \A d \in N : Server(d) \in Silent
          <6>1. search[s].waiting \subseteq {Head(T).node}
            BY <3>2, <4>1 DEF Own
          <6>2. \A d \in M : Server(d) \notin Silent => d = r
            BY <2>2, <4>1, <6>1
          <6>3. QED
            BY <2>4, <6>2
        <5>3. QED
          BY <3>5, <5>1, <5>2 DEF Own
      <4>3. Told(s, l, N, stored)
        BY <1>1, <2>3, <2>4, <3>5, <4>1 DEF Told
      <4>4. Names(search', s, N)
        BY <1>3, <2>4, <3>1, <3>5, <3>6, <4>1, StillNames
      <4>5. QED
        BY <4>2, <4>3, <4>4
    <3>8. QED
      BY <1>1, <1>3, <1>4, <1>5, <2>3, <2>4, <2>5, <3>1, <3>5, <3>6, <3>7, OneKeeps DEF Keeping
  <2>8. QED
    BY <2>6, <2>7
<1>8. QED
  BY <1>6, <1>7

\* A token less than two turns old is one of its issuer's.
LEMMA TokensHold ==
    ASSUME DhtIInv, Calm, NEW n \in NodeId
    PROVE  /\ Rotated(n).rotated <= ticks /\ Rotated(n).current = Rotated(n).rotated /\ Rotated(n).prev = Rotated(n).current - 1
           /\ \A k \in Nat : k <= ticks => ValidToken(n, k)
<1>1. /\ secrets[n] \in Issuer /\ ticks \in {0, 1}
      /\ secrets[n].rotated <= ticks /\ secrets[n].current = secrets[n].rotated /\ secrets[n].prev = secrets[n].current - 1
  BY DEF DhtIInv, DhtTypes, Calm, Promised, Issued
<1>2. secrets[n].rotated \in Nat
  BY <1>1 DEF Issuer
<1>3. CASE ticks > secrets[n].rotated
  <2>1. ticks = 1 /\ secrets[n].rotated = 0
    BY <1>1, <1>2, <1>3
  <2>2. Rotated(n).rotated = 1 /\ Rotated(n).current = 1 /\ Rotated(n).prev = 0
    BY <1>1, <1>3, <2>1 DEF Rotated
  <2>3. QED
    BY <2>1, <2>2 DEF ValidToken
<1>4. CASE ~(ticks > secrets[n].rotated)
  <2>1. Rotated(n) = secrets[n] /\ secrets[n].rotated = ticks
    BY <1>1, <1>2, <1>4 DEF Rotated
  <2>2. \A k \in Nat : k <= ticks => k \in {ticks, ticks - 1}
    BY <1>1
  <2>3. QED
    BY <1>1, <2>1, <2>2 DEF ValidToken
<1>5. QED
  BY <1>3, <1>4

LEMMA ServeKeeps ==
    ASSUME DhtIInv, NEW q \in dgrams, Serve(q)
    PROVE  DhtIInv' /\ KeepsAll(table, table')
<1> DEFINE n == q.to  s == q.from  seen == Insert(table, n, s)
           nodes == IF stored[n] = {} THEN Closest(InfoHash, ContactsIn(seen, n)) ELSE {}
<1>1. /\ SoundTable(table) /\ stored \in [NodeId -> SUBSET Peers] /\ secrets \in [NodeId -> Issuer] /\ Searches(search)
      /\ dgrams \subseteq Queries \cup Replies /\ ticks \in Nat /\ Searcher \subseteq NodeId
  BY Positive DEF DhtIInv, DhtTypes
<1>2. /\ q.kind # "reply" /\ n \notin Silent /\ secrets' = [secrets EXCEPT ![n] = Rotated(n)] /\ UNCHANGED <<search, ticks, lost>>
  BY DEF Serve
<1>3. /\ q \in Queries /\ n \in NodeId /\ s \in Searcher /\ s \in NodeId /\ q.token \in Nat
      /\ Client(q) = s /\ Server(q) = n /\ Of(q) = q.kind
  BY <1>1, <1>2 DEF Queries, Replies, Client, Server, Of
<1>4. Rotated(n) \in Issuer /\ Rotated(n).current \in Nat
  BY <1>1, <1>3 DEF Rotated, Issuer
<1>5. SoundTable(seen) /\ KeepsAll(table, seen)
  BY <1>1, <1>3, InsertedInTable
<1>6. nodes \subseteq NodeId
  BY <1>3, <1>5, BucketsAreOfNodes, ClosestAreAmong
<1> HIDE DEF nodes
<1>7. \E r \in Replies :
         /\ Client(r) = s /\ Server(r) = n /\ r.kind = "reply" /\ r.from = n /\ dgrams' = (dgrams \ {q}) \cup {r}
         /\ \/ q.kind = "get_peers" /\ r.of = "get_peers" /\ r.token = Rotated(n).current /\ r.peers = stored[n] /\ table' = seen /\ stored' = stored
            \/ q.kind = "announce_peer" /\ ValidToken(n, q.token) /\ r.of = "announce_peer" /\ r.token = 0
               /\ table' = seen /\ stored' = [stored EXCEPT ![n] = @ \cup {s}]
            \/ q.kind = "announce_peer" /\ ~ValidToken(n, q.token) /\ r.token = 0 /\ table' = table /\ stored' = stored
  <2>1. CASE q.kind = "get_peers"
    <3> DEFINE r == Reply(q, Rotated(n).current, stored[n], nodes)
    <3>1. dgrams' = (dgrams \ {q}) \cup {r} /\ table' = seen /\ stored' = stored
      BY <2>1 DEF Serve, nodes
    <3>2. stored[n] \subseteq Peers
      BY <1>1, <1>3
    <3>3. r \in Replies /\ Client(r) = s /\ Server(r) = n /\ r.kind = "reply" /\ r.from = n /\ r.of = "get_peers" /\ r.token = Rotated(n).current /\ r.peers = stored[n]
      BY <1>3, <1>4, <1>6, <2>1, <3>2 DEF Reply, Replies, Client, Server
    <3>4. QED
      BY <2>1, <3>1, <3>3
  <2>2. CASE q.kind = "announce_peer" /\ ValidToken(n, q.token)
    <3> DEFINE r == Reply(q, 0, {}, {})
    <3>1. dgrams' = (dgrams \ {q}) \cup {r} /\ table' = seen /\ stored' = [stored EXCEPT ![n] = @ \cup {s}]
      BY <2>2 DEF Serve
    <3>2. r \in Replies /\ Client(r) = s /\ Server(r) = n /\ r.kind = "reply" /\ r.from = n /\ r.of = "announce_peer" /\ r.token = 0
      BY <1>3, <2>2 DEF Reply, Replies, Client, Server
    <3>3. QED
      BY <2>2, <3>1, <3>2
  <2>3. CASE q.kind = "announce_peer" /\ ~ValidToken(n, q.token)
    <3> DEFINE r == [Reply(q, 0, {}, {}) EXCEPT !.of = "error"]
    <3>1. dgrams' = (dgrams \ {q}) \cup {r} /\ table' = table /\ stored' = stored
      BY <2>3 DEF Serve
    <3>2. r \in Replies /\ Client(r) = s /\ Server(r) = n /\ r.kind = "reply" /\ r.from = n /\ r.token = 0
      BY <1>3, <2>3 DEF Reply, Replies, Client, Server
    <3>3. QED
      BY <2>3, <3>1, <3>2
  <2>4. QED
    BY <1>3, <2>1, <2>2, <2>3 DEF Queries
<1>8. PICK r \in Replies :
         /\ Client(r) = s /\ Server(r) = n /\ r.kind = "reply" /\ r.from = n /\ dgrams' = (dgrams \ {q}) \cup {r}
         /\ \/ q.kind = "get_peers" /\ r.of = "get_peers" /\ r.token = Rotated(n).current /\ r.peers = stored[n] /\ table' = seen /\ stored' = stored
            \/ q.kind = "announce_peer" /\ ValidToken(n, q.token) /\ r.of = "announce_peer" /\ r.token = 0
               /\ table' = seen /\ stored' = [stored EXCEPT ![n] = @ \cup {s}]
            \/ q.kind = "announce_peer" /\ ~ValidToken(n, q.token) /\ r.token = 0 /\ table' = table /\ stored' = stored
  BY <1>7
<1>9. SoundTable(table') /\ KeepsAll(table, table')
  BY <1>1, <1>5, <1>8, KeepsItself
<1> HIDE DEF seen
<1>10. stored' \in [NodeId -> SUBSET Peers] /\ \A m \in NodeId : stored[m] \subseteq stored'[m]
  <2>1. stored' = stored \/ stored' = [stored EXCEPT ![n] = @ \cup {s}]
    BY <1>8
  <2>2. s \in Peers
    BY <1>3 DEF Peers
  <2>3. QED
    BY <1>1, <1>3, <2>1, <2>2
<1>11. DhtTypes'
  <2>1. secrets' \in [NodeId -> Issuer]
    BY <1>1, <1>2, <1>3, <1>4
  <2>2. dgrams' \subseteq Queries \cup Replies
    BY <1>1, <1>8
  <2>3. QED
    BY <1>2, <1>9, <1>10, <2>1, <2>2 DEF DhtIInv, DhtTypes
<1>12. ASSUME Calm PROVE Promised(search, dgrams', stored', secrets', ticks)
  <2> DEFINE M == Mine(s, dgrams)  N == Mine(s, dgrams')
  <2>1. /\ Issued(secrets, ticks) /\ OnTime(dgrams, ticks)
        /\ \A u \in Searcher : Own(search[u], Mine(u, dgrams), ticks) /\ Told(u, search[u], Mine(u, dgrams), stored) /\ Names(search, u, Mine(u, dgrams))
    BY <1>12 DEF DhtIInv, Calm, Promised
  <2>2. Issued(secrets', ticks)
    <3>1. Rotated(n).rotated <= ticks /\ Rotated(n).current = Rotated(n).rotated /\ Rotated(n).prev = Rotated(n).current - 1
      BY <1>3, <1>12, TokensHold
    <3>2. \A m \in NodeId : secrets'[m] = IF m = n THEN Rotated(n) ELSE secrets[m]
      BY <1>1, <1>2, <1>3
    <3>3. QED
      BY <2>1, <3>1, <3>2 DEF Issued
  <2>3. /\ r.token <= ticks /\ r.of = q.kind
        /\ q.kind = "get_peers" => r.peers = stored[n] /\ stored' = stored
        /\ q.kind = "announce_peer" => stored' = [stored EXCEPT ![n] = @ \cup {s}]
    <3>1. ValidToken(n, q.token)
      <4>1. q.token <= ticks
        BY <2>1 DEF OnTime
      <4>2. QED
        BY <1>3, <1>12, <4>1, TokensHold
    <3>2. Rotated(n).current <= ticks
      BY <1>3, <1>12, TokensHold
    <3>3. 0 <= ticks
      BY <1>1
    <3>4. QED
      BY <1>8, <3>1, <3>2, <3>3
  <2>4. OnTime(dgrams', ticks)
    <3>1. r.from \notin Silent /\ r.of # "error"
      BY <1>2, <1>3, <1>8, <2>3 DEF Queries
    <3>2. QED
      BY <1>8, <2>1, <2>3, <3>1 DEF OnTime
  <2>5. q \in M /\ Of(r) = q.kind /\ Of(q) = q.kind /\ N = (M \ {q}) \cup {r} /\ \A u \in Searcher \ {s} : Mine(u, dgrams') = Mine(u, dgrams)
    BY <1>2, <1>3, <1>8, <2>3 DEF Mine, Of
  <2>6. \A u \in Searcher : search[u].told \subseteq NodeId /\ search[u].after \subseteq Searcher /\ Phased(search[u]) /\ \A t \in search[u].after : search[t].phase = "done"
    BY <1>1 DEF Searches, LookupState
  <2>7. Own(search[s], M, ticks) /\ Told(s, search[s], M, stored) /\ Names(search, s, M)
    BY <1>3, <2>1
  <2> DEFINE l == search[s]
  <2>8. Own(l, N, ticks)
    <3> HIDE DEF M, N, n, s, l
    <3>1. \A m \in l.waiting \ Silent : \E d \in N : Server(d) = m
      <4>1. \A m \in l.waiting \ Silent : \E d \in M : Server(d) = m
        BY <2>7 DEF Own, l
      <4>2. QED
        BY <1>3, <1>8, <2>5, <4>1
    <3>2. ASSUME ~l.cancelled, NEW d \in N, Server(d) \notin Silent
          PROVE  /\ Server(d) \in l.waiting /\ (Of(d) = "get_peers" <=> l.phase = "rounds")
                 /\ \A e \in N : Server(e) = Server(d) => e = d
      <4>1. \A d1 \in M : Server(d1) \notin Silent =>
               /\ Server(d1) \in l.waiting /\ (Of(d1) = "get_peers" <=> l.phase = "rounds")
               /\ \A e \in M : Server(e) = Server(d1) => e = d1
        BY <2>7, <3>2 DEF Own, l
      <4>2. CASE d = r
        <5>1. \A e \in M : Server(e) = n => e = q
          BY <1>2, <1>3, <2>5, <4>1
        <5>2. QED
          BY <1>2, <1>3, <1>8, <2>5, <4>1, <4>2, <5>1
      <4>3. CASE d # r
        <5>1. d \in M /\ d # q
          BY <2>5, <4>3
        <5>2. Server(d) # n
          BY <1>3, <2>5, <3>2, <4>1, <5>1
        <5>3. \A e \in N : Server(e) = Server(d) => e \in M
          BY <1>8, <2>5, <5>2
        <5>4. QED
          BY <3>2, <4>1, <5>1, <5>3
      <4>4. QED
        BY <4>2, <4>3
    <3>3. QED
      BY <2>7, <3>1, <3>2 DEF Own, l
  <2>9. Told(s, l, N, stored')
    <3> SUFFICES ASSUME ~l.cancelled, NEW m \in l.told
                 PROVE  s \in stored'[m] \/ \E d \in N : d.kind = "announce_peer" /\ d.to = m
      BY DEF Told
    <3>1. m \in NodeId
      BY <1>3, <2>6
    <3>2. s \in stored[m] \/ \E d \in M : d.kind = "announce_peer" /\ d.to = m
      BY <2>7 DEF Told
    <3>3. CASE s \in stored[m]
      BY <1>10, <3>1, <3>3
    <3>4. CASE \E d \in M : d.kind = "announce_peer" /\ d.to = m
      <4>1. PICK d \in M : d.kind = "announce_peer" /\ d.to = m
        BY <3>4
      <4>2. CASE d = q
        BY <1>1, <1>3, <2>3, <4>1, <4>2
      <4>3. CASE d # q
        BY <2>5, <4>1, <4>3
      <4>4. QED
        BY <4>2, <4>3
    <3>5. QED
      BY <3>2, <3>3, <3>4
  <2>10. Names(search, s, N)
    <3> SUFFICES ASSUME NEW t \in l.after, ~search[t].cancelled, NEW m \in search[t].told
                 PROVE  /\ m \in l.answered => t \in l.found
                        /\ \A d \in N : d.kind = "reply" /\ d.of = "get_peers" /\ d.from = m => t \in d.peers
      BY DEF Names
    <3>1. /\ m \in l.answered => t \in l.found
          /\ \A d \in M : d.kind = "reply" /\ d.of = "get_peers" /\ d.from = m => t \in d.peers
      BY <2>7 DEF Names
    <3>2. ASSUME r.of = "get_peers", m = n PROVE t \in r.peers
      <4>1. t \in Searcher /\ search[t].phase = "done" /\ Phased(search[t])
        BY <1>3, <2>6
      <4>2. Own(search[t], Mine(t, dgrams), ticks) /\ Told(t, search[t], Mine(t, dgrams), stored)
        BY <2>1, <4>1
      <4>3. \A d \in Mine(t, dgrams) : Server(d) \in Silent
        BY <4>1, <4>2 DEF Own, Phased
      <4>4. ~(\E d \in Mine(t, dgrams) : d.kind = "announce_peer" /\ d.to = n)
        BY <1>2, <4>3 DEF Server
      <4>5. t \in stored[n]
        BY <3>2, <4>2, <4>4 DEF Told
      <4>6. QED
        BY <2>3, <3>2, <4>5
    <3>3. QED
      BY <1>8, <2>5, <3>1, <3>2
  <2>11. ASSUME NEW u \in Searcher
         PROVE  Own(search[u], Mine(u, dgrams'), ticks) /\ Told(u, search[u], Mine(u, dgrams'), stored') /\ Names(search, u, Mine(u, dgrams'))
    <3>1. CASE u = s
      BY <2>8, <2>9, <2>10, <3>1
    <3>2. CASE u # s
      <4>1. Mine(u, dgrams') = Mine(u, dgrams)
        BY <2>5, <3>2
      <4>2. Own(search[u], Mine(u, dgrams), ticks) /\ Told(u, search[u], Mine(u, dgrams), stored) /\ Names(search, u, Mine(u, dgrams))
        BY <2>1
      <4>3. Told(u, search[u], Mine(u, dgrams), stored')
        BY <1>10, <2>6, <4>2 DEF Told
      <4>4. QED
        BY <4>1, <4>2, <4>3
    <3>3. QED
      BY <3>1, <3>2
  <2>12. QED
    BY <2>2, <2>4, <2>11 DEF Promised
<1>13. QED
  BY <1>2, <1>9, <1>11, <1>12 DEF DhtIInv, Calm

LEMMA LossKeeps ==
    ASSUME DhtIInv, NEW d \in dgrams, LoseDatagram(d)
    PROVE  DhtIInv'
<1>1. lost' = lost + 1 /\ lost \in Nat /\ dgrams' = dgrams \ {d} /\ UNCHANGED <<table, stored, secrets, search, ticks>>
  BY DEF LoseDatagram, DhtIInv, DhtTypes
<1>2. DhtTypes'
  BY <1>1 DEF DhtIInv, DhtTypes
<1>3. lost' # 0
  BY <1>1
<1>4. QED
  BY <1>2, <1>3 DEF DhtIInv

LEMMA PingKeeps ==
    ASSUME DhtIInv, NEW s \in Searcher, NEW x \in 0..Width - 1, NEW i \in DOMAIN table[s][x], PingQuestionable(s, x, i)
    PROVE  DhtIInv' /\ KeepsAll(table, table')
<1>1. SoundTable(table) /\ s \in NodeId
  BY Positive DEF DhtIInv, DhtTypes
<1>2. table[s][x] \in Seq(Contact)
  BY <1>1 DEF SoundTable, SoundBucket
<1>3. table[s][x][i].id \in NodeId
  <2>1. table[s][x][i] \in Contact
    BY <1>2, InSeq
  <2>2. QED
    BY <2>1 DEF Contact
<1>4. SoundTable(table') /\ KeepsAll(table, table')
  BY <1>1, <1>3, InsertedInTable, MarkedInTable DEF PingQuestionable
<1>5. QED
  BY <1>4 DEF PingQuestionable, DhtIInv, DhtTypes

LEMMA TickKeeps ==
    ASSUME DhtIInv, DhtTick
    PROVE  DhtIInv'
<1>1. ticks' = ticks + 1 /\ UNCHANGED <<table, stored, secrets, search, dgrams, lost>> /\ ticks \in Nat
  BY DEF DhtTick, DhtIInv, DhtTypes
<1>2. DhtTypes'
  BY <1>1 DEF DhtIInv, DhtTypes
<1>3. ASSUME lost = 0, ticks + 1 <= 1 PROVE Promised(search, dgrams, stored, secrets, ticks + 1)
  <2>1. Promised(search, dgrams, stored, secrets, ticks)
    BY <1>1, <1>3 DEF DhtIInv
  <2>2. Issued(secrets, ticks + 1)
    <3>1. \A n \in NodeId : secrets[n].rotated \in Nat
      BY DEF DhtIInv, DhtTypes, Issuer
    <3>2. QED
      BY <1>1, <2>1, <3>1 DEF Promised, Issued
  <2>3. OnTime(dgrams, ticks + 1)
    <3>1. \A d \in dgrams : d.token \in Nat
      BY DEF DhtIInv, DhtTypes, Queries, Replies
    <3>2. QED
      BY <1>1, <2>1, <3>1 DEF Promised, OnTime
  <2>4. ASSUME NEW s \in Searcher PROVE Own(search[s], Mine(s, dgrams), ticks + 1)
    <3>1. search[s].targets \in Seq([node : NodeId, token : Nat])
      BY DEF DhtIInv, DhtTypes, Searches, LookupState
    <3>2. \A i \in 1..Len(search[s].targets) : search[s].targets[i].token \in Nat
      BY <3>1, TargetsAre
    <3>3. Own(search[s], Mine(s, dgrams), ticks)
      BY <2>1 DEF Promised
    <3>4. QED
      BY <1>1, <3>2, <3>3 DEF Own
  <2>5. QED
    BY <2>1, <2>2, <2>3, <2>4 DEF Promised
<1>4. QED
  BY <1>1, <1>2, <1>3 DEF DhtIInv

LEMMA DhtBegins ==
    ASSUME DhtInit
    PROVE  DhtIInv
<1>1. SoundTable(table)
  BY LoadedTable DEF DhtInit
<1>2. stored \in [NodeId -> SUBSET Peers] /\ secrets \in [NodeId -> Issuer] /\ dgrams = {} /\ ticks = 0 /\ lost = 0
  BY DEF DhtInit, Peers, Issuer
<1>3. ASSUME NEW s \in Searcher
      PROVE  /\ search[s] \in LookupState /\ search[s].phase = "idle" /\ search[s].waiting = {} /\ search[s].targets = <<>>
             /\ search[s].answered = {} /\ search[s].told = {} /\ search[s].after = {} /\ search[s].cancelled = FALSE
  <2>1. <<>> \in Seq([node : NodeId, token : Nat]) /\ 0 \in 0..MaxLookupRounds
    BY Positive, EmptySeq
  <2>2. QED
    BY <2>1 DEF DhtInit, LookupState
<1>4. Searches(search)
  <2>1. DOMAIN search = Searcher /\ search = [s \in DOMAIN search |-> search[s]]
    BY DEF DhtInit
  <2>2. search \in [Searcher -> LookupState]
    BY <1>3, <2>1
  <2>3. \A s \in Searcher : Phased(search[s]) /\ \A t \in search[s].after : search[t].phase = "done"
    BY <1>3 DEF Phased
  <2>4. QED
    BY <2>2, <2>3 DEF Searches
<1>5. Promised(search, dgrams, stored, secrets, ticks)
  <2>1. Issued(secrets, ticks) /\ OnTime(dgrams, ticks)
    <3>1. \A n \in NodeId : secrets[n].rotated = 0 /\ secrets[n].current = 0 /\ secrets[n].prev = -1
      BY DEF DhtInit
    <3>2. QED
      BY <1>2, <3>1 DEF Issued, OnTime
  <2>2. ASSUME NEW s \in Searcher
        PROVE  Own(search[s], Mine(s, dgrams), ticks) /\ Told(s, search[s], Mine(s, dgrams), stored) /\ Names(search, s, Mine(s, dgrams))
    <3>1. Mine(s, dgrams) = {}
      BY <1>2 DEF Mine
    <3>2. Len(search[s].targets) = 0
      <4>1. search[s].targets = <<>>
        BY <1>3
      <4>2. Len(<<>>) = 0
        BY EmptySeq
      <4>3. QED
        BY <4>1, <4>2
    <3>3. Own(search[s], {}, ticks)
      <4>1. \A i \in 1..Len(search[s].targets) : FALSE
        BY <3>2
      <4>2. QED
        BY <1>3, <4>1 DEF Own
    <3>4. Told(s, search[s], {}, stored) /\ Names(search, s, {})
      BY <1>3 DEF Told, Names
    <3>5. QED
      BY <3>1, <3>3, <3>4
  <2>3. QED
    BY <2>1, <2>2 DEF Promised
<1>6. QED
  BY <1>1, <1>2, <1>4, <1>5 DEF DhtIInv, DhtTypes

LEMMA DhtGoesOn ==
    ASSUME DhtIInv, [DhtNext]_dhtVars
    PROVE  DhtIInv' /\ (table' # table => KeepsAll(table, table'))
<1>1. ASSUME NEW s \in Searcher, SearcherNext(s) PROVE DhtIInv' /\ (table' # table => KeepsAll(table, table'))
  <2>1. CASE StartLookup(s)
    BY <2>1, StartKeeps DEF StartLookup
  <2>2. CASE NextRound(s)
    BY <2>2, RoundKeeps DEF NextRound
  <2>3. CASE Announce(s)
    BY <2>3, AnnounceKeeps DEF Announce
  <2>4. CASE CancelLookup(s)
    BY <2>4, CancelKeeps
  <2>5. ASSUME NEW n \in NodeId, Timeout(s, n) PROVE DhtIInv' /\ (table' # table => KeepsAll(table, table'))
    BY <2>5, TimeoutKeeps
  <2>6. ASSUME NEW x \in 0..Width - 1, NEW i \in DOMAIN table[s][x], PingQuestionable(s, x, i)
        PROVE  DhtIInv' /\ (table' # table => KeepsAll(table, table'))
    BY <2>6, PingKeeps
  <2>7. QED
    BY <1>1, <2>1, <2>2, <2>3, <2>4, <2>5, <2>6 DEF SearcherNext
<1>2. ASSUME NEW d \in dgrams, Serve(d) \/ Deliver(d) \/ LoseDatagram(d) PROVE DhtIInv' /\ (table' # table => KeepsAll(table, table'))
  <2>1. CASE Serve(d)
    BY <2>1, ServeKeeps
  <2>2. CASE Deliver(d)
    BY <2>2, DeliverKeeps
  <2>3. CASE LoseDatagram(d)
    BY <2>3, LossKeeps DEF LoseDatagram
  <2>4. QED
    BY <1>2, <2>1, <2>2, <2>3
<1>3. CASE DhtTick
  BY <1>3, TickKeeps DEF DhtTick
<1>4. CASE UNCHANGED dhtVars
  BY <1>4 DEF dhtVars, DhtIInv, DhtTypes
<1>5. QED
  BY <1>1, <1>2, <1>3, <1>4 DEF DhtNext

LEMMA DhtIInvSays ==
    ASSUME DhtIInv
    PROVE  DhtTypeOK /\ LaterSearchersFindUs
<1>1. SoundTable(table) /\ Searches(search)
  BY DEF DhtIInv, DhtTypes
<1>2. DhtTypeOK
  BY <1>1, SoundTableSays DEF DhtTypeOK, Searches, LookupState, Lookup
<1>3. ASSUME lost = 0, ticks <= 1, NEW s \in Searcher, NEW t \in search[s].after,
             ~search[t].cancelled, search[s].answered \cap search[t].told # {}
      PROVE  t \in search[s].found
  <2>1. Names(search, s, Mine(s, dgrams))
    BY <1>3 DEF DhtIInv, Promised
  <2>2. QED
    BY <1>3, <2>1 DEF Names
<1>4. LaterSearchersFindUs
  BY <1>3 DEF LaterSearchersFindUs, Lookup
<1>5. QED
  BY <1>2, <1>4

\* The DHT keeps its tables sound and the contacts that have not failed (bucket.insert,
\* MarkFailed), and while no datagram is lost and a token is at most one turn old, a
\* lookup that begins after another client's has ended finds it at every node both
\* reached (FindPeers, handleQuery, tokenIssuer).
THEOREM TablesAndPeersAreKept == DhtSpec => DhtKeeps
<1>1. DhtInit => DhtIInv
  BY DhtBegins
<1>2. DhtIInv /\ [DhtNext]_dhtVars => DhtIInv'
  BY DhtGoesOn
<1>3. DhtIInv => DhtTypeOK /\ LaterSearchersFindUs
  BY DhtIInvSays
<1>4. DhtIInv /\ DhtIInv' /\ [DhtNext]_dhtVars => [table' # table => KeepsGoodContacts]_table
  <2>1. SUFFICES ASSUME DhtIInv, DhtIInv', [DhtNext]_dhtVars, table' # table PROVE KeepsGoodContacts
    OBVIOUS
  <2>2. SoundTable(table) /\ SoundTable(table')
    BY <2>1 DEF DhtIInv, DhtTypes
  <2>3. KeepsAll(table, table')
    BY <2>1, DhtGoesOn
  <2>4. QED
    BY <2>2, <2>3, GoodContactsAreKept
<1>5. QED
  BY <1>1, <1>2, <1>3, <1>4, PTL DEF DhtSpec, DhtKeeps
=============================================================================
