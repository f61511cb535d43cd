----------------------------- MODULE Holepunch -----------------------------
(***************************************************************************)
(* BEP 55 rendezvous among torrents that all run this code (torrent/       *)
(* holepunch.go, peer/holepunch.go): one asks a peer to introduce it to an *)
(* address, the relay answers both sides or sends an error back, and the   *)
(* one that asked dials.                                                   *)
(***************************************************************************)
EXTENDS Naturals, Sequences, FiniteSets

CONSTANTS Punch,        \* torrents of the swarm
          PunchLinks,   \* connections at the start, <<who dialed, what address>>
          PunchAble,    \* those whose extended handshake offers ut_holepunch
          KnowsSelf,    \* those with a LocalIP
          MaxPunches,   \* bound: rendezvous asked for
          MaxLosses     \* bound: connections lost

VARIABLES links,       \* connections
          punchWire,   \* messages on each connection, by receiver
          pendingPunch,  \* pendingHolepunches of each torrent: <<relay, target>>
          punchDials,  \* addresses each torrent is dialing
          asked, dialed,  \* how often each has asked for and dialed an address
          asks, losses   \* counters for the bounds

punchVars == <<links, punchWire, pendingPunch, punchDials, asked, dialed, asks, losses>>

\* Who accepted is seen at the address that was dialed, who dialed at the one its
\* router gave the connection.
Sides == {"listen", "mapped"}
Addresses == Punch \X Sides
Link == {l \in Punch \X Addresses : l[1] # l[2][1]}
Ends(l) == {l[1], l[2][1]}
Channel == {ch \in Link \X Punch : ch[2] \in Ends(ch[1])}
Far(l, n) == IF l[1] = n THEN l[2][1] ELSE l[1]
RemoteAddr(l, n) == IF l[1] = n THEN l[2] ELSE <<l[1], "mapped">>
LinksOf(n) == {l \in links : n \in Ends(l)}

ASSUME HolepunchAssumption ==
    /\ PunchLinks \subseteq Link /\ PunchAble \cup KnowsSelf \subseteq Punch
    /\ {MaxPunches, MaxLosses} \subseteq Nat

PunchMessage(type, addr, code) == [type |-> type, addr |-> addr, code |-> code]

\* SendHolepunch: nothing to a peer that has not offered the extension, or is gone.
Sent(wire, l, n, msg) ==
    IF l \in links /\ Far(l, n) \in PunchAble THEN [wire EXCEPT ![<<l, Far(l, n)>>] = Append(@, msg)] ELSE wire

\* findPeerByAddr and isOwnAddress
FindPeer(n, x) == {l \in LinksOf(n) : RemoteAddr(l, n) = x}
IsOwnAddress(n, x) == n \in KnowsSelf /\ x = <<n, "listen">>

-----------------------------------------------------------------------------
\* doRequestHolepunch
RequestHolepunch(n, l, x) ==
    /\ l \in LinksOf(n) /\ Far(l, n) \in PunchAble
    /\ asks < MaxPunches /\ asks' = asks + 1
    /\ asked' = [asked EXCEPT ![n][x] = @ + 1]
    /\ pendingPunch' = [pendingPunch EXCEPT ![n] = @ \cup {<<RemoteAddr(l, n), x>>}]
    /\ punchWire' = Sent(punchWire, l, n, PunchMessage("rendezvous", x, "none"))
    /\ UNCHANGED <<links, punchDials, dialed, losses>>

Refusal(n, x) ==
    IF IsOwnAddress(n, x) THEN "self"
    ELSE IF FindPeer(n, x) = {} THEN "not connected"
    ELSE IF \A l \in FindPeer(n, x) : Far(l, n) \notin PunchAble THEN "no support"
    ELSE "none"

\* relayRendezvous: an error to the one that asked, or a connect to each side.
Relayed(wire, l, n, x) ==
    \E t \in FindPeer(n, x) :
        punchWire' = Sent(Sent(wire, l, n, PunchMessage("connect", x, "none")), t, n, PunchMessage("connect", RemoteAddr(l, n), "none"))

RelayRendezvous(l, n, rest, x) ==
    /\ IF Refusal(n, x) = "none" THEN Relayed(rest, l, n, x)
       ELSE punchWire' = Sent(rest, l, n, PunchMessage("error", x, Refusal(n, x)))
    /\ UNCHANGED <<links, pendingPunch, punchDials, dialed>>

\* Which connects and errors are ours.  Mutant: any connect is.
AnyConnect(n, key) == TRUE
Solicited(n, key) == key \in pendingPunch[n]

\* handleHolepunchConnect and dial: nothing towards an address connected or
\* being dialed.
HandleConnect(l, n, rest, x) ==
    LET key == <<RemoteAddr(l, n), x>>
        goes == Solicited(n, key) /\ FindPeer(n, x) = {} /\ x \notin punchDials[n]
    IN /\ punchWire' = rest
       /\ pendingPunch' = [pendingPunch EXCEPT ![n] = @ \ {key}]
       /\ punchDials' = IF goes THEN [punchDials EXCEPT ![n] = @ \cup {x}] ELSE punchDials
       /\ dialed' = IF goes THEN [dialed EXCEPT ![n][x] = @ + 1] ELSE dialed
       /\ UNCHANGED links

HandleError(l, n, rest, x) ==
    /\ punchWire' = rest
    /\ pendingPunch' = [pendingPunch EXCEPT ![n] = @ \ {<<RemoteAddr(l, n), x>>}]
    /\ UNCHANGED <<links, punchDials, dialed>>

OnHolepunchMessage(l, n) ==
    /\ punchWire[<<l, n>>] # <<>>
    /\ LET m == Head(punchWire[<<l, n>>])
           rest == [punchWire EXCEPT ![<<l, n>>] = Tail(@)]
       IN \/ m.type = "rendezvous" /\ RelayRendezvous(l, n, rest, m.addr)
          \/ m.type = "connect" /\ HandleConnect(l, n, rest, m.addr)
          \/ m.type = "error" /\ HandleError(l, n, rest, m.addr)
    /\ UNCHANGED <<asked, asks, losses>>

\* expireHolepunches: after 30 seconds, answered late or never.
ExpireHolepunch(n, key) ==
    /\ key \in pendingPunch[n]
    /\ pendingPunch' = [pendingPunch EXCEPT ![n] = @ \ {key}]
    /\ UNCHANGED <<links, punchWire, punchDials, asked, dialed, asks, losses>>

\* An attempt ends, with a connection to whoever has the address or without.
PunchDialEnds(n, x) ==
    /\ x \in punchDials[n] /\ punchDials' = [punchDials EXCEPT ![n] = @ \ {x}]
    /\ links' \in {links} \cup (IF x[1] = n THEN {} ELSE {links \cup {<<n, x>>}})
    /\ UNCHANGED <<punchWire, pendingPunch, asked, dialed, asks, losses>>

\* A connection is lost, with what the actors have not queued yet.
PunchLinkLost(l) ==
    /\ l \in links /\ losses < MaxLosses /\ losses' = losses + 1
    /\ links' = links \ {l}
    /\ punchWire' \in {punchWire, [ch \in Channel |-> IF ch[1] = l THEN <<>> ELSE punchWire[ch]]}
    /\ UNCHANGED <<pendingPunch, punchDials, asked, dialed, asks>>

PunchInit ==
    /\ links = PunchLinks
    /\ punchWire = [ch \in Channel |-> <<>>]
    /\ pendingPunch = [n \in Punch |-> {}] /\ punchDials = [n \in Punch |-> {}]
    /\ asked = [n \in Punch |-> [x \in Addresses |-> 0]] /\ dialed = asked
    /\ asks = 0 /\ losses = 0

PunchNext ==
    \/ \E n \in Punch : \/ \E l \in LinksOf(n), x \in Addresses : RequestHolepunch(n, l, x)
                        \/ \E key \in pendingPunch[n] : ExpireHolepunch(n, key)
                        \/ \E x \in punchDials[n] : PunchDialEnds(n, x)
    \/ \E ch \in Channel : OnHolepunchMessage(ch[1], ch[2])
    \/ \E l \in links : PunchLinkLost(l)

PunchSpec == PunchInit /\ [][PunchNext]_punchVars

-----------------------------------------------------------------------------
\* holepunch.go:54-60: no other torrent can make this one dial.  However many
\* connects arrive, from its own requests and from those of the other side, it
\* dials an address no more often than it has asked for it.
DialsAreAsked == \A n \in Punch, x \in Addresses : dialed[n][x] <= asked[n][x]

\* relayRendezvous: an error goes to who asked, and a connect to each of the two
\* it names: one of them has asked for the other.
AsksFor(n, x) == asked[n][x] > 0
AnswersAreAsked ==
    \A ch \in Channel : \A i \in DOMAIN punchWire[ch] :
        LET m == punchWire[ch][i]
            n == ch[2]
        IN /\ m.type = "error" => AsksFor(n, m.addr)
           /\ m.type = "connect" => AsksFor(n, m.addr) \/ \E s \in Sides : AsksFor(m.addr[1], <<n, s>>)

HolepunchInv == DialsAreAsked /\ AnswersAreAsked
=============================================================================
