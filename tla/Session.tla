------------------------------ MODULE Session -------------------------------
(***************************************************************************)
(* The sessions of a torrent with its peers: peer.Client (peer/peer.go,    *)
(* fast.go) on one side of the queues, the actor (torrent/run.go) on the   *)
(* other.  Each client has a goroutine that reads the connection, one that *)
(* sends what is in its outbound queue and one that turns assigned work    *)
(* into requests; the actor tells it what to announce and whom to choke,   *)
(* hears of it through the events queue, and gives it the torrent's        *)
(* geometry when a magnet's metadata arrives (UpgradeMetadata).            *)
(*                                                                         *)
(* Blocks themselves, hashes and extension messages are left out.  The     *)
(* pump and t.events, which carry the events on in the same order, are     *)
(* part of the queue here.  The remote side is what it says and what it    *)
(* has been told.                                                          *)
(***************************************************************************)
EXTENDS Naturals, Sequences, FiniteSets

CONSTANTS Conn,          \* connections, each made once
          ConnAddress,   \* the address each is made to or from
          Piece,
          Fast,          \* the connections whose peer has the Fast extension
          OutboundSize,  \* outboundQueueSize
          EventSize,     \* eventQueueSize
          MaxMessages,   \* bound: messages of one peer
          MaxControls,   \* bound: choker changes, assigned work and pauses
          None

ASSUME SessionAssumption ==
    /\ Fast \subseteq Conn /\ IsFiniteSet(Conn)
    /\ OutboundSize \in Nat \ {0} /\ EventSize \in Nat \ {0}
    /\ MaxMessages \in Nat /\ MaxControls \in Nat
    /\ \A S \in SUBSET Piece : S # None

VARIABLES
    \* the actor
    metadata,    \* t.mi is known and t.pick made
    have,        \* t.haveSnapshot
    registered,  \* t.peers
    counts,      \* the picker's Availability
    stale,       \* for the properties: a piece's mistaken discounts since it was reset
    upgrading,   \* the loop of doSetMetadata: <<connection, stored>> still to do
    controls,    \* counter for the bound
    \* each client
    stage,       \* where its goroutines are
    joined,      \* eventPeerConnected: "no", "queued", "handled"
    geometry,    \* torrentInfo: "none", "born" with it, "upgraded"
    bits,        \* the peer's bitfield
    wide,        \* the bitfield has the torrent's width
    pending,     \* pendingBitfield and pendingHaveAll
    amChoking, peerChoking, allowedFast,
    snapshot,    \* what sendInitialState has read
    taken,       \* the message the read loop is handling
    work,        \* WorkQueue
    events,      \* Events
    outbound,    \* outbound
    \* the remote side
    said,        \* how many messages it has sent
    announced,   \* what it said it has, Haves before the metadata left out
    told,        \* what it has been told that we have
    choked,      \* whether it has been told that it is choked
    \* what was given up, for the properties
    lost,        \* frames dropped by send
    dropped,     \* connections with an event dropped by notify
    gap,         \* pieces verified too late for the first message, too early for a Have
    overlapped   \* connections with a message taken before the upgrade, handled after

actorVars == <<metadata, have, registered, counts, stale, upgrading, controls>>
bitVars == <<geometry, bits, wide, pending>>
flagVars == <<amChoking, peerChoking, allowedFast>>
loopVars == <<stage, joined, snapshot, taken, work>>
remoteVars == <<said, announced, told, choked>>
queueVars == <<outbound, lost>>
ghostVars == <<gap, overlapped>>
sessionVars == <<actorVars, bitVars, flagVars, loopVars, remoteVars, queueVars, events, dropped, ghostVars>>

(***************************************************************************)
(* "dialing" until the handshake; "hello", "look", "greet" on the way      *)
(* through the start of Client.Run; "reading"; "closed" once Client.Close  *)
(* was called; "over" once Run has returned; "gone" once the actor knows.  *)
(***************************************************************************)
Stage == {"none", "dialing", "hello", "look", "greet", "reading", "closed", "over", "gone"}
Open(c) == stage[c] \in {"hello", "look", "greet", "reading"}

Frame == [kind : {"interested", "choke", "unchoke"}]
         \cup [kind : {"have", "request", "piece", "reject"}, of : Piece]
         \cup [kind : {"bitfield"}, of : SUBSET Piece]
Message == [kind : {"choke", "unchoke", "interest", "malformed"}]
           \cup [kind : {"have", "request", "allowedfast"}, of : Piece]
           \cup [kind : {"bitfield", "haveall"}, of : SUBSET Piece]
Event == [kind : {"bitfield", "choke", "other"}] \cup [kind : {"have"}, of : Piece]

-----------------------------------------------------------------------------
(* Queues *)

\* send to each connection of C: never blocks, drops the frame when the queue
\* is full.
Broadcast(C, f) ==
    LET Full(c) == Len(outbound[c]) >= OutboundSize
    IN  /\ outbound' = [c \in Conn |-> IF c \in C /\ Open(c) /\ ~Full(c)
                                        THEN Append(outbound[c], f) ELSE outbound[c]]
        /\ lost' = [c \in Conn |-> IF c \in C /\ Open(c) /\ Full(c)
                                    THEN lost[c] \cup {f} ELSE lost[c]]
Send(c, f) == Broadcast({c}, f)

\* notify: never blocks either.
Notify(c, e) ==
    IF Len(events[c]) < EventSize
    THEN /\ events' = [events EXCEPT ![c] = Append(@, e)]
         /\ UNCHANGED dropped
    ELSE dropped' = dropped \cup {c} /\ UNCHANGED events

-----------------------------------------------------------------------------
(* A connection begins *)

\* dial and acceptIncoming: one connection of an address at a time, as far as
\* t.dialing and t.peers tell.  peerTorrentInfo is read before the dial; newClient
\* makes the rest.
Others(c) == {d \in Conn \ {c} : ConnAddress[d] = ConnAddress[c]}
BeginDial(c) ==
    /\ stage[c] = "none"
    /\ \A d \in Others(c) : stage[d] # "dialing" /\ joined[d] # "queued" /\ d \notin registered
    /\ stage' = [stage EXCEPT ![c] = "dialing"]
    /\ geometry' = [geometry EXCEPT ![c] = IF metadata THEN "born" ELSE "none"]
    /\ wide' = [wide EXCEPT ![c] = metadata]
    /\ UNCHANGED <<actorVars, bits, pending, flagVars, joined, snapshot, taken, work, remoteVars,
                   queueVars, events, dropped, ghostVars>>

\* registerAndPump: the registration is queued, Run starts.
Connects(c) ==
    /\ stage[c] = "dialing"
    /\ stage' = [stage EXCEPT ![c] = "hello"]
    /\ joined' = [joined EXCEPT ![c] = "queued"]
    /\ UNCHANGED <<actorVars, bitVars, flagVars, snapshot, taken, work, remoteVars, queueVars,
                   events, dropped, ghostVars>>

\* Run: without room for the first message the connection is given up.
SendInterested(c) ==
    /\ stage[c] = "hello"
    /\ Send(c, [kind |-> "interested"])
    /\ stage' = [stage EXCEPT ![c] = IF Len(outbound[c]) < OutboundSize THEN "look" ELSE "closed"]
    /\ UNCHANGED <<actorVars, bitVars, flagVars, joined, snapshot, taken, work, remoteVars, events,
                   dropped, ghostVars>>

\* sendInitialState reads the published bitfield ...
LookAtHave(c) ==
    /\ stage[c] = "look"
    /\ stage' = [stage EXCEPT ![c] = "greet"]
    /\ snapshot' = [snapshot EXCEPT ![c] = IF geometry[c] = "none" THEN {} ELSE have]
    /\ gap' = [gap EXCEPT ![c] = IF geometry[c] = "none" THEN have ELSE {}]
    /\ UNCHANGED <<actorVars, bitVars, flagVars, joined, taken, work, remoteVars, queueVars, events,
                   dropped, overlapped>>

\* ... and sends it later: HaveAll, HaveNone or a Bitfield, or nothing at all.
SendInitialState(c) ==
    /\ stage[c] = "greet"
    /\ stage' = [stage EXCEPT ![c] = "reading"]
    /\ IF snapshot[c] = {} /\ c \notin Fast
       THEN UNCHANGED queueVars
       ELSE Send(c, [kind |-> "bitfield", of |-> snapshot[c]])
    /\ UNCHANGED <<actorVars, bitVars, flagVars, joined, snapshot, taken, work, remoteVars, events,
                   dropped, ghostVars>>

-----------------------------------------------------------------------------
(* The read loop: a message is taken off the wire, then handled *)

\* The remote side sends anything it likes, a bitfield only at the start.
ReadMessage(c) ==
    /\ stage[c] = "reading" /\ taken[c] = None /\ said[c] < MaxMessages
    /\ \E m \in Message :
          /\ m.kind = "bitfield" => said[c] = 0
          /\ m.kind = "haveall" => said[c] = 0 /\ m.of = Piece /\ c \in Fast
          /\ m.kind = "allowedfast" => c \in Fast
          /\ taken' = [taken EXCEPT ![c] = [message |-> m, known |-> geometry[c] # "none"]]
    /\ said' = [said EXCEPT ![c] = @ + 1]
    /\ UNCHANGED <<actorVars, bitVars, flagVars, stage, joined, snapshot, work, announced, told,
                   choked, queueVars, events, dropped, ghostVars>>

Handles(c, kind) == taken[c] # None /\ taken[c].message.kind = kind
\* The message is done with; a peer that breaks the protocol loses its connection.
Handled(c) == taken' = [taken EXCEPT ![c] = None] /\ UNCHANGED stage
Violates(c) ==
    /\ taken' = [taken EXCEPT ![c] = None]
    /\ stage' = [stage EXCEPT ![c] = IF Open(c) THEN "closed" ELSE @]
\* What the geometry was when the message was taken is no longer so.
Late(c) == overlapped' = IF taken[c].known # wide[c] THEN overlapped \cup {c} ELSE overlapped

OnChoke(c) ==
    /\ Handles(c, "choke") \/ Handles(c, "unchoke")
    /\ peerChoking' = [peerChoking EXCEPT ![c] = Handles(c, "choke")]
    /\ Notify(c, [kind |-> "choke"])
    /\ Handled(c)
    /\ UNCHANGED <<actorVars, bitVars, amChoking, allowedFast, joined, snapshot, work, remoteVars,
                   queueVars, ghostVars>>

\* MsgInterested and MsgNotInterested; a RejectRequest likewise.
OnInterest(c) ==
    /\ Handles(c, "interest")
    /\ Notify(c, [kind |-> "other"])
    /\ Handled(c)
    /\ UNCHANGED <<actorVars, bitVars, flagVars, joined, snapshot, work, remoteVars, queueVars, ghostVars>>

\* MsgHave.  Before the metadata only the event is sent.  setPiece is lost on
\* a bitfield that does not have its width yet.
OnHave(c) ==
    /\ Handles(c, "have")
    /\ LET p == taken[c].message.of
       IN  /\ Notify(c, [kind |-> "have", of |-> p])
           /\ bits' = [bits EXCEPT ![c] = IF taken[c].known /\ wide[c] THEN @ \cup {p} ELSE @]
           /\ announced' = [announced EXCEPT ![c] = IF taken[c].known THEN @ \cup {p} ELSE @]
    /\ overlapped' = IF taken[c].known /\ ~wide[c] THEN overlapped \cup {c} ELSE overlapped
    /\ Handled(c)
    /\ UNCHANGED <<actorVars, geometry, wide, pending, flagVars, joined, snapshot, work, said, told,
                   choked, queueVars, gap>>

\* MsgBitfield: kept for later before the metadata; of the wrong width while
\* UpgradeMetadata is under way.
OnBitfield(c) ==
    /\ Handles(c, "bitfield")
    /\ LET S == taken[c].message.of
       IN  /\ announced' = [announced EXCEPT ![c] = S]
           /\ IF taken[c].known
              THEN /\ bits' = [bits EXCEPT ![c] = IF wide[c] THEN S ELSE @]
                   /\ UNCHANGED pending
              ELSE /\ pending' = [pending EXCEPT ![c] = S]
                   /\ UNCHANGED bits
    /\ IF taken[c].known /\ ~wide[c]
       THEN Violates(c) /\ UNCHANGED <<events, dropped>>
       ELSE Handled(c) /\ Notify(c, [kind |-> "bitfield"])
    /\ Late(c)
    /\ UNCHANGED <<actorVars, geometry, wide, flagVars, joined, snapshot, work, said, told, choked,
                   queueVars, gap>>

\* applyHaveAll.
OnHaveAll(c) ==
    /\ Handles(c, "haveall")
    /\ announced' = [announced EXCEPT ![c] = Piece]
    /\ IF taken[c].known
       THEN bits' = [bits EXCEPT ![c] = Piece] /\ wide' = [wide EXCEPT ![c] = TRUE] /\ UNCHANGED pending
       ELSE pending' = [pending EXCEPT ![c] = Piece] /\ UNCHANGED <<bits, wide>>
    /\ Notify(c, [kind |-> "bitfield"])
    /\ Handled(c)
    /\ Late(c)
    /\ UNCHANGED <<actorVars, geometry, flagVars, joined, snapshot, work, said, told, choked,
                   queueVars, gap>>

OnAllowedFast(c) ==
    /\ Handles(c, "allowedfast")
    /\ allowedFast' = [allowedFast EXCEPT ![c] = @ \cup {taken[c].message.of}]
    /\ Handled(c)
    /\ UNCHANGED <<actorVars, bitVars, amChoking, peerChoking, joined, snapshot, work, remoteVars,
                   queueVars, events, dropped, ghostVars>>

\* MsgRequest: validateRequest refuses any while the geometry is unknown;
\* serveRequest answers, refuses or is silent.
OnRequest(c) ==
    /\ Handles(c, "request")
    /\ LET p == taken[c].message.of
       IN  IF geometry[c] = "none"
           THEN Violates(c) /\ UNCHANGED queueVars
           ELSE /\ Handled(c)
                /\ IF ~amChoking[c] /\ p \in have THEN Send(c, [kind |-> "piece", of |-> p])
                   ELSE IF c \in Fast THEN Send(c, [kind |-> "reject", of |-> p])
                   ELSE UNCHANGED queueVars
    /\ UNCHANGED <<actorVars, bitVars, flagVars, joined, snapshot, work, remoteVars, events, dropped,
                   ghostVars>>

\* A malformed message of any kind, or a Piece that was not asked for.
OnMalformed(c) ==
    /\ Handles(c, "malformed")
    /\ Violates(c)
    /\ UNCHANGED <<actorVars, bitVars, flagVars, joined, snapshot, work, remoteVars, queueVars, events,
                   dropped, ghostVars>>

HandleMessage(c) ==
    OnChoke(c) \/ OnInterest(c) \/ OnHave(c) \/ OnBitfield(c) \/ OnHaveAll(c)
    \/ OnAllowedFast(c) \/ OnRequest(c) \/ OnMalformed(c)

\* The remote side closes, an error or a timeout on the socket: Close.
Disconnects(c) ==
    /\ Open(c)
    /\ stage' = [stage EXCEPT ![c] = "closed"]
    /\ UNCHANGED <<actorVars, bitVars, flagVars, joined, snapshot, taken, work, remoteVars, queueVars,
                   events, dropped, ghostVars>>

\* Run returns: its channels are closed.
RunReturns(c) ==
    /\ stage[c] = "closed" /\ taken[c] = None
    /\ stage' = [stage EXCEPT ![c] = "over"]
    /\ UNCHANGED <<actorVars, bitVars, flagVars, joined, snapshot, taken, work, remoteVars, queueVars,
                   events, dropped, ghostVars>>

-----------------------------------------------------------------------------
(* The other two goroutines of the client *)

\* sendLoop: a frame goes out, and the remote side knows.
SendLoop(c) ==
    /\ Open(c) /\ outbound[c] # <<>>
    /\ LET f == Head(outbound[c])
       IN  /\ told' = [told EXCEPT ![c] = CASE f.kind = "have" -> @ \cup {f.of}
                                            [] f.kind = "bitfield" -> f.of
                                            [] OTHER -> @]
           /\ choked' = [choked EXCEPT ![c] = CASE f.kind = "choke" -> TRUE
                                                [] f.kind = "unchoke" -> FALSE
                                                [] OTHER -> @]
    /\ outbound' = [outbound EXCEPT ![c] = Tail(@)]
    /\ UNCHANGED <<actorVars, bitVars, flagVars, loopVars, said, announced, lost, events, dropped, ghostVars>>

\* writeLoop drops work it cannot ask for.
CanAsk(c, p) == (peerChoking[c] => p \in allowedFast[c]) /\ p \in bits[c]
WriteLoop(c) ==
    /\ Open(c) /\ work[c] # <<>>
    /\ work' = [work EXCEPT ![c] = Tail(@)]
    /\ IF CanAsk(c, Head(work[c]))
       THEN Send(c, [kind |-> "request", of |-> Head(work[c])])
       ELSE UNCHANGED queueVars
    /\ UNCHANGED <<actorVars, bitVars, flagVars, stage, joined, snapshot, taken, remoteVars, events,
                   dropped, ghostVars>>

-----------------------------------------------------------------------------
(* The actor *)

ActorFree == upgrading = {}

RegisterPeer(c) ==
    /\ ActorFree /\ joined[c] = "queued"
    /\ joined' = [joined EXCEPT ![c] = "handled"]
    /\ registered' = (registered \ Others(c)) \cup {c}
    /\ UNCHANGED <<metadata, have, counts, stale, upgrading, controls, bitVars, flagVars, stage, snapshot,
                   taken, work, remoteVars, queueVars, events, dropped, ghostVars>>

\* Availability.AddPeer, Add and RemovePeer.
Counted(S) == [p \in Piece |-> counts[p] + IF p \in S THEN 1 ELSE 0]
Discounted(S) == [p \in Piece |-> IF p \in S /\ counts[p] > 0 THEN counts[p] - 1 ELSE counts[p]]

\* onPeerControl, also for a connection that a pause has forgotten.
OnPeerControl(c) ==
    /\ ActorFree /\ joined[c] = "handled" /\ events[c] # <<>>
    /\ events' = [events EXCEPT ![c] = Tail(@)]
    /\ LET e == Head(events[c])
       IN  counts' = CASE metadata /\ e.kind = "bitfield" -> Counted(bits[c])
                       [] metadata /\ e.kind = "have" -> Counted({e.of})
                       [] OTHER -> counts
    /\ UNCHANGED <<metadata, have, registered, stale, upgrading, controls, bitVars, flagVars, loopVars,
                   remoteVars, queueVars, dropped, ghostVars>>

\* removePeer, once the pump has handed over everything else.  It goes by the
\* address: a connection that a pause has forgotten takes a later one of its
\* address out of t.peers, and is itself discounted, which the pause has done.
RemovePeer(c) ==
    /\ ActorFree /\ joined[c] = "handled" /\ stage[c] = "over" /\ events[c] = <<>>
    /\ stage' = [stage EXCEPT ![c] = "gone"]
    /\ LET removed == registered \cap (Others(c) \cup {c})
           discounts == removed # {} /\ metadata
       IN  /\ registered' = registered \ removed
           /\ counts' = IF discounts THEN Discounted(bits[c]) ELSE counts
           /\ stale' = IF discounts /\ c \notin registered
                       THEN [p \in Piece |-> stale[p] + IF p \in bits[c] THEN 1 ELSE 0] ELSE stale
    /\ UNCHANGED <<metadata, have, upgrading, controls, bitVars, flagVars, joined, snapshot, taken,
                   work, remoteVars, queueVars, events, dropped, ghostVars>>

\* The connections that hear of p neither in the first message nor in a Have
\* that counts: not registered yet, or the Have overtaken by an older bitfield.
Misses(c) == stage[c] = "greet" \/ (stage[c] = "reading" /\ c \notin registered)

\* onPieceVerified: publishHave, then SendHave to every peer.
PieceVerified ==
    /\ ActorFree /\ metadata
    /\ \E p \in Piece \ have :
          /\ have' = have \cup {p}
          /\ Broadcast(registered, [kind |-> "have", of |-> p])
          /\ gap' = [c \in Conn |-> IF Misses(c) THEN gap[c] \cup {p} ELSE gap[c]]
    /\ UNCHANGED <<metadata, registered, counts, stale, upgrading, controls, bitVars, flagVars, loopVars,
                   remoteVars, events, dropped, overlapped>>

\* doSetMetadata: openMetadata finds what is on disk, then the peers that are
\* connected are upgraded one by one.
SetMetadata ==
    /\ ActorFree /\ ~metadata
    /\ metadata' = TRUE
    /\ \E found \in SUBSET Piece :
          /\ have' = found
          /\ gap' = [c \in Conn |-> IF stage[c] \in {"greet", "reading"} THEN gap[c] \cup found ELSE gap[c]]
    /\ upgrading' = {<<c, FALSE>> : c \in registered}
    /\ UNCHANGED <<registered, counts, stale, controls, bitVars, flagVars, loopVars, remoteVars, queueVars,
                   events, dropped, overlapped>>

\* UpgradeMetadata publishes the geometry ...
UpgradeStores(c) ==
    /\ <<c, FALSE>> \in upgrading
    /\ upgrading' = (upgrading \ {<<c, FALSE>>}) \cup {<<c, TRUE>>}
    /\ geometry' = [geometry EXCEPT ![c] = IF @ = "none" THEN "upgraded" ELSE @]
    /\ UNCHANGED <<metadata, have, registered, counts, stale, controls, bits, wide, pending, flagVars, loopVars,
                   remoteVars, queueVars, events, dropped, ghostVars>>

\* ... then takes the lock and applies what the peer sent before; the peer is
\* counted.  Mutant: the peer is not counted.
Applied(c) == IF pending[c] = None THEN {} ELSE pending[c]
UpgradeAppliesUncounted(c) ==
    /\ <<c, TRUE>> \in upgrading
    /\ upgrading' = upgrading \ {<<c, TRUE>>}
    /\ bits' = [bits EXCEPT ![c] = Applied(c)]
    /\ wide' = [wide EXCEPT ![c] = TRUE]
    /\ pending' = [pending EXCEPT ![c] = None]
    /\ UNCHANGED <<metadata, have, registered, counts, stale, controls, geometry, flagVars, loopVars, remoteVars,
                   queueVars, events, dropped, ghostVars>>
UpgradeApplies(c) ==
    /\ <<c, TRUE>> \in upgrading
    /\ upgrading' = upgrading \ {<<c, TRUE>>}
    /\ bits' = [bits EXCEPT ![c] = Applied(c)]
    /\ wide' = [wide EXCEPT ![c] = TRUE]
    /\ pending' = [pending EXCEPT ![c] = None]
    /\ counts' = Counted(Applied(c))
    /\ UNCHANGED <<metadata, have, registered, stale, controls, geometry, flagVars, loopVars, remoteVars,
                   queueVars, events, dropped, ghostVars>>

\* The choker changes its mind about a peer: SendChoke, SendUnchoke.
ChokerFlips(c) ==
    /\ ActorFree /\ c \in registered /\ controls < MaxControls
    /\ controls' = controls + 1
    /\ amChoking' = [amChoking EXCEPT ![c] = ~@]
    /\ Send(c, [kind |-> IF amChoking[c] THEN "unchoke" ELSE "choke"])
    /\ UNCHANGED <<metadata, have, registered, counts, stale, upgrading, bitVars, peerChoking, allowedFast,
                   loopVars, remoteVars, events, dropped, ghostVars>>

\* tick hands a piece to ask for to the client.
Assign(c) ==
    /\ ActorFree /\ c \in registered /\ metadata /\ controls < MaxControls
    /\ controls' = controls + 1
    /\ \E p \in bits[c] \ have :
          /\ peerChoking[c] => p \in allowedFast[c]
          /\ work' = [work EXCEPT ![c] = Append(@, p)]
    /\ UNCHANGED <<metadata, have, registered, counts, stale, upgrading, bitVars, flagVars, stage, joined,
                   snapshot, taken, remoteVars, queueVars, events, dropped, ghostVars>>

\* shutdownPeers, for a pause.
ShutdownPeers ==
    /\ ActorFree /\ registered # {} /\ controls < MaxControls
    /\ controls' = controls + 1
    /\ stage' = [c \in Conn |-> IF c \in registered /\ Open(c) THEN "closed" ELSE stage[c]]
    /\ registered' = {}
    /\ counts' = [p \in Piece |-> 0] /\ stale' = [p \in Piece |-> 0]
    /\ UNCHANGED <<metadata, have, upgrading, bitVars, flagVars, joined, snapshot, taken, work,
                   remoteVars, queueVars, events, dropped, ghostVars>>

-----------------------------------------------------------------------------

SessionInit ==
    /\ metadata \in BOOLEAN /\ have = {} /\ registered = {} /\ counts = [p \in Piece |-> 0]
    /\ upgrading = {} /\ controls = 0
    /\ stage = [c \in Conn |-> "none"] /\ joined = [c \in Conn |-> "no"]
    /\ geometry = [c \in Conn |-> "none"] /\ bits = [c \in Conn |-> {}]
    /\ wide = [c \in Conn |-> FALSE] /\ pending = [c \in Conn |-> None]
    /\ amChoking = [c \in Conn |-> TRUE] /\ peerChoking = [c \in Conn |-> TRUE]
    /\ allowedFast = [c \in Conn |-> {}] /\ snapshot = [c \in Conn |-> {}]
    /\ taken = [c \in Conn |-> None] /\ work = [c \in Conn |-> <<>>]
    /\ events = [c \in Conn |-> <<>>] /\ outbound = [c \in Conn |-> <<>>]
    /\ said = [c \in Conn |-> 0] /\ announced = [c \in Conn |-> {}]
    /\ told = [c \in Conn |-> {}] /\ choked = [c \in Conn |-> TRUE]
    /\ lost = [c \in Conn |-> {}] /\ dropped = {} /\ stale = [p \in Piece |-> 0]
    /\ gap = [c \in Conn |-> {}] /\ overlapped = {}

ClientNext(c) ==
    \/ BeginDial(c) \/ Connects(c) \/ SendInterested(c) \/ LookAtHave(c) \/ SendInitialState(c)
    \/ ReadMessage(c) \/ HandleMessage(c) \/ Disconnects(c) \/ RunReturns(c)
    \/ SendLoop(c) \/ WriteLoop(c)
ActorNext(c) ==
    \/ RegisterPeer(c) \/ OnPeerControl(c) \/ RemovePeer(c) \/ UpgradeStores(c) \/ UpgradeApplies(c)
    \/ ChokerFlips(c) \/ Assign(c)
SessionNext ==
    \/ \E c \in Conn : ClientNext(c) \/ ActorNext(c)
    \/ PieceVerified \/ SetMetadata \/ ShutdownPeers

SessionSpec == SessionInit /\ [][SessionNext]_sessionVars

-----------------------------------------------------------------------------
(* Properties *)

SessionTypeOK ==
    /\ metadata \in BOOLEAN /\ have \subseteq Piece /\ registered \subseteq Conn
    /\ counts \in [Piece -> Nat] /\ upgrading \subseteq Conn \X BOOLEAN /\ controls \in 0..MaxControls
    /\ stage \in [Conn -> Stage] /\ joined \in [Conn -> {"no", "queued", "handled"}]
    /\ geometry \in [Conn -> {"none", "born", "upgraded"}]
    /\ bits \in [Conn -> SUBSET Piece] /\ wide \in [Conn -> BOOLEAN]
    /\ pending \in [Conn -> {None} \cup (SUBSET Piece)]
    /\ amChoking \in [Conn -> BOOLEAN] /\ peerChoking \in [Conn -> BOOLEAN]
    /\ allowedFast \in [Conn -> SUBSET Piece] /\ snapshot \in [Conn -> SUBSET Piece]
    /\ taken \in [Conn -> [message : Message, known : BOOLEAN] \cup {None}]
    /\ \A c \in Conn : Len(events[c]) <= EventSize /\ Len(outbound[c]) <= OutboundSize
    /\ said \in [Conn -> 0..MaxMessages] /\ announced \in [Conn -> SUBSET Piece]
    /\ told \in [Conn -> SUBSET Piece] /\ choked \in [Conn -> BOOLEAN] /\ stale \in [Piece -> Nat]

(***************************************************************************)
(* We never take a peer for one that has a piece it did not announce, and  *)
(* no request for such a piece is ever queued: through messages that come  *)
(* before the metadata, while UpgradeMetadata runs, and after it.          *)
(***************************************************************************)
RequestsAreServable ==
    \A c \in Conn :
        /\ bits[c] \subseteq announced[c]
        /\ \A i \in DOMAIN outbound[c] :
               outbound[c][i].kind = "request" => outbound[c][i].of \in announced[c]

(***************************************************************************)
(* What a peer has announced is not forgotten: when nothing is under way,  *)
(* its bitfield is all that it said, unless one of its messages was being  *)
(* handled while the metadata arrived.                                     *)
(***************************************************************************)
Settled(c) == stage[c] = "reading" /\ taken[c] = None /\ \A s \in BOOLEAN : <<c, s>> \notin upgrading
HeardIsHeld ==
    \A c \in Conn : Settled(c) /\ geometry[c] # "none" /\ c \notin overlapped => bits[c] = announced[c]

(***************************************************************************)
(* Once the metadata is known, so it is to every connected peer's client.  *)
(***************************************************************************)
PeersAreUpgraded ==
    \A c \in registered : metadata /\ upgrading = {} => geometry[c] # "none"

(***************************************************************************)
(* Availability counts each connected peer whose events have all been      *)
(* handled for every piece it has, whatever other peers came and went, as  *)
(* long as no event had to be dropped, and but for one thing: removePeer   *)
(* goes by the address, so that a connection forgotten by a pause, when    *)
(* its end is handled after its address has connected again, is discounted *)
(* though the pause had reset the counts; a piece is short by no more than *)
(* the number of those.                                                    *)
(***************************************************************************)
CountedFor(c, p) == p \in bits[c] /\ events[c] = <<>> /\ upgrading = {}
CountsCoverPeers ==
    dropped = {} =>
        \A p \in Piece : counts[p] + stale[p] >= Cardinality({c \in registered : CountedFor(c, p)})

(***************************************************************************)
(* A connected peer whose queue is empty knows of every verified piece,    *)
(* except those whose announcement was dropped and those verified between  *)
(* the reading of the bitfield for its first message and the moment its    *)
(* registration was handled and that message queued.                       *)
(***************************************************************************)
LostPieces(c) == {p \in Piece : [kind |-> "have", of |-> p] \in lost[c]}
                 \cup UNION {f.of : f \in {g \in lost[c] : g.kind = "bitfield"}}
MissesOnlyTheGap ==
    \A c \in registered :
        stage[c] = "reading" /\ outbound[c] = <<>> => have \subseteq told[c] \cup gap[c] \cup LostPieces(c)

(***************************************************************************)
(* The choke flag agrees with what the peer was told last, once everything *)
(* queued has been sent: "SendChoke ... owns the AmChoking flag so that    *)
(* the flag and the wire message can never disagree".                      *)
(***************************************************************************)
ChokeAgrees == \A c \in Conn : stage[c] = "reading" /\ outbound[c] = <<>> => choked[c] = amChoking[c]

\* It does as long as no choke or unchoke was dropped.
LostChoke(c) == \E f \in lost[c] : f.kind \in {"choke", "unchoke"}
ChokeAgreesUnlessLost ==
    \A c \in Conn : stage[c] = "reading" /\ outbound[c] = <<>> /\ ~LostChoke(c) => choked[c] = amChoking[c]

\* What both sides and the actor think of a connection agrees, but for what was lost.
SessionInv ==
    /\ SessionTypeOK /\ RequestsAreServable /\ HeardIsHeld
    /\ CountsCoverPeers /\ MissesOnlyTheGap /\ ChokeAgreesUnlessLost
=============================================================================
