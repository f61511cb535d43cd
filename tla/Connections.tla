---------------------------- MODULE Connections -----------------------------
(***************************************************************************)
(* How a torrent's connections come and go (torrent/run.go): addresses are *)
(* discovered or connect to us, each attempt runs on a goroutine of its    *)
(* own, and all of them report to the actor over one queue, t.events.      *)
(* t.peers and t.dialing are the actor's; it deduplicates by address and   *)
(* keeps to maxPeers.  (The IP filter turns an address down like the other *)
(* checks do, and is left out.)                                            *)
(*                                                                         *)
(* An attempt is one dial or one inbound connection: the goroutine, the    *)
(* peer.Client and the peerConn it may become.                             *)
(***************************************************************************)
EXTENDS Lifecycle, Naturals, Sequences, FiniteSets

CONSTANTS Attempt,      \* dials and inbound connections, each made once
          Address,      \* remote addresses
          AddressOf,    \* the address of each attempt
          MaxPeers,     \* maxPeers
          QueueLength,  \* cap(t.events)
          MaxControls,  \* bound: pauses and resumes
          None

ASSUME ConnectionsAssumption ==
    /\ AddressOf \in [Attempt -> Address]
    /\ MaxPeers \in Nat \ {0} /\ QueueLength \in Nat \ {0} /\ MaxControls \in Nat
    /\ None \notin Attempt

VARIABLES state,     \* Torrent.state
          phase,     \* where each attempt has got to
          peers,     \* Torrent.peers
          dialing,   \* Torrent.dialing
          events,    \* Torrent.events, first in first out
          controls   \* counter for the bound

vars == <<state, phase, peers, dialing, events, controls>>

(***************************************************************************)
(* "new"; "asked" once the address is queued for the actor; "dialing" once *)
(* its goroutine runs; "open" from the handshake on; "closed" when one     *)
(* side has closed it and the pump is draining; "ended" when the goroutine *)
(* is gone, or the attempt was turned down.                                *)
(***************************************************************************)
Phase == {"new", "asked", "dialing", "open", "closed", "ended"}

Event == [kind : {"ask", "failed", "connected", "gone"}, of : Attempt]
Registered == {a \in Address : peers[a] # None}
Connecting == Cardinality(Registered) + Cardinality(dialing)
Live(c) == phase[c] \in {"dialing", "open"}

\* sendEvent, DialPeer and AcceptPeer block while the queue is full.
Send(kind, c) ==
    /\ Len(events) < QueueLength
    /\ events' = Append(events, [kind |-> kind, of |-> c])

-----------------------------------------------------------------------------
(* Off the actor goroutine *)

\* A tracker, the DHT, PEX or a caller finds an address, or a peer connects.
Discover(c) ==
    /\ phase[c] = "new"
    /\ phase' = [phase EXCEPT ![c] = "asked"]
    /\ Send("ask", c)
    /\ UNCHANGED <<state, peers, dialing, controls>>

\* connectAndPump, acceptAndPump: a failed handshake.  Mutant: not reported.
FailsSilently(c) ==
    /\ phase[c] = "dialing"
    /\ phase' = [phase EXCEPT ![c] = "ended"]
    /\ UNCHANGED <<state, peers, dialing, events, controls>>
ConnectFails(c) ==
    /\ phase[c] = "dialing"
    /\ phase' = [phase EXCEPT ![c] = "ended"]
    /\ Send("failed", c)
    /\ UNCHANGED <<state, peers, dialing, controls>>

\* registerAndPump, from the handshake on.
Connects(c) ==
    /\ phase[c] = "dialing"
    /\ phase' = [phase EXCEPT ![c] = "open"]
    /\ Send("connected", c)
    /\ UNCHANGED <<state, peers, dialing, controls>>

RemoteCloses(c) ==
    /\ phase[c] = "open"
    /\ phase' = [phase EXCEPT ![c] = "closed"]
    /\ UNCHANGED <<state, peers, dialing, events, controls>>

\* The pump has drained the client's channels and reports the end.
PumpEnds(c) ==
    /\ phase[c] = "closed"
    /\ phase' = [phase EXCEPT ![c] = "ended"]
    /\ Send("gone", c)
    /\ UNCHANGED <<state, peers, dialing, controls>>

-----------------------------------------------------------------------------
(* handleEvent, on the actor goroutine *)

Handles(kind, c) ==
    /\ events # <<>> /\ Head(events) = [kind |-> kind, of |-> c]
    /\ events' = Tail(events)

\* dial and acceptIncoming.
WantedDial(c) ==
    /\ peers[AddressOf[c]] = None /\ AddressOf[c] \notin dialing
    /\ Connecting < MaxPeers

Dial(c) ==
    /\ Handles("ask", c)
    /\ IF WantedDial(c)
       THEN /\ dialing' = dialing \cup {AddressOf[c]}
            /\ phase' = [phase EXCEPT ![c] = "dialing"]
       ELSE /\ phase' = [phase EXCEPT ![c] = "ended"]
            /\ UNCHANGED dialing
    /\ UNCHANGED <<state, peers, controls>>

DialFailed(c) ==
    /\ Handles("failed", c)
    /\ dialing' = dialing \ {AddressOf[c]}
    /\ UNCHANGED <<state, phase, peers, controls>>

\* registerPeer looks at neither the state nor what it replaces.
RegisterPeer(c) ==
    /\ Handles("connected", c)
    /\ dialing' = dialing \ {AddressOf[c]}
    /\ peers' = [peers EXCEPT ![AddressOf[c]] = c]
    /\ UNCHANGED <<state, phase, controls>>

\* removePeer goes by the address.  Mutant: nothing is removed.
RemoveNothing(c) ==
    /\ Handles("gone", c)
    /\ UNCHANGED <<state, phase, peers, dialing, controls>>
RemovePeer(c) ==
    /\ Handles("gone", c)
    /\ peers' = [peers EXCEPT ![AddressOf[c]] = None]
    /\ UNCHANGED <<state, phase, dialing, controls>>

-----------------------------------------------------------------------------
(* Control *)

\* shutdownPeers closes what is registered; dials under way go on.
ShutdownPeers ==
    /\ phase' = [c \in Attempt |->
                    IF phase[c] = "open" /\ peers[AddressOf[c]] = c THEN "closed" ELSE phase[c]]
    /\ peers' = [a \in Address |-> None]

Pause ==
    /\ controls < MaxControls /\ controls' = controls + 1
    /\ Active(state)
    /\ ShutdownPeers
    /\ state' = Moved(state, "Paused")
    /\ UNCHANGED <<dialing, events>>

Resume ==
    /\ controls < MaxControls /\ controls' = controls + 1
    /\ state = "Paused"
    /\ state' = Moved(state, "Downloading")
    /\ UNCHANGED <<phase, peers, dialing, events>>

Init ==
    /\ state = "Downloading"
    /\ phase = [c \in Attempt |-> "new"]
    /\ peers = [a \in Address |-> None]
    /\ dialing = {}
    /\ events = <<>>
    /\ controls = 0

Next ==
    \/ \E c \in Attempt :
          \/ Discover(c) \/ ConnectFails(c) \/ Connects(c) \/ RemoteCloses(c) \/ PumpEnds(c)
          \/ Dial(c) \/ DialFailed(c) \/ RegisterPeer(c) \/ RemovePeer(c)
    \/ Pause
    \/ Resume

Spec == Init /\ [][Next]_vars

\* Goroutines are scheduled, a handshake succeeds or times out, and the actor
\* keeps receiving.
Fairness ==
    \A c \in Attempt :
        /\ SF_vars(ConnectFails(c) \/ Connects(c) \/ PumpEnds(c))
        /\ WF_vars(Dial(c) \/ DialFailed(c) \/ RegisterPeer(c) \/ RemovePeer(c))

LiveSpec == Spec /\ Fairness

-----------------------------------------------------------------------------
TypeOK ==
    /\ state \in State
    /\ phase \in [Attempt -> Phase]
    /\ peers \in [Address -> Attempt \cup {None}]
    /\ dialing \subseteq Address
    /\ events \in Seq(Event) /\ Len(events) <= QueueLength
    /\ controls \in 0 .. MaxControls

(***************************************************************************)
(* Connections and dials under way together never exceed maxPeers: a dial  *)
(* trades its slot for the connection it becomes.  (dial, acceptIncoming,  *)
(* registerPeer)                                                           *)
(***************************************************************************)
WithinMaxPeers == Connecting <= MaxPeers

(***************************************************************************)
(* A dialing entry belongs to exactly one attempt, still under way or with *)
(* its outcome queued: no outcome is lost, which would block the address   *)
(* and use up a slot for good, and none clears another attempt's entry.    *)
(***************************************************************************)
Queued(kind, c) == \E i \in DOMAIN events : events[i] = [kind |-> kind, of |-> c]
Underway(c) == phase[c] = "dialing" \/ Queued("failed", c) \/ Queued("connected", c)
DialingIsUnderway ==
    \A a \in Address :
        Cardinality({c \in Attempt : AddressOf[c] = a /\ Underway(c)})
        = IF a \in dialing THEN 1 ELSE 0

(***************************************************************************)
(* A connection that ends is forgotten, and so is a failed dial: the       *)
(* address can be connected to again.                                      *)
(***************************************************************************)
EndedIsForgotten ==
    \A c \in Attempt : []<>(phase[c] = "ended" => peers[AddressOf[c]] # c)

(***************************************************************************)
(* "Dedup-by-address ... This is the sole writer of t.dialing and t.peers, *)
(* so these checks cannot race" (dial): there is never more than one       *)
(* connection to an address, under way or open.                            *)
(***************************************************************************)
OneConnectionPerAddress ==
    \A c, d \in Attempt :
        c # d /\ AddressOf[c] = AddressOf[d] => ~(Live(c) /\ Live(d))
=============================================================================
