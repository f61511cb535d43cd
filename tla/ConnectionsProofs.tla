-------------------------- MODULE ConnectionsProofs --------------------------
(***************************************************************************)
(* Connections for every number of addresses and attempts, every cap and   *)
(* every queue length, and the v2 piece layers that connections bring.     *)
(*                                                                         *)
(* WithinMaxPeers is not inductive: a dial gives its slot to the           *)
(* connection it becomes only if its entry in t.dialing is still there     *)
(* when the actor hears of it.  That rests on one outcome being queued for *)
(* each attempt and one attempt being under way for each address.          *)
(*                                                                         *)
(* Then the token bucket (ratelimit/ratelimit.go) that connections share,  *)
(* for any callers, rates and sizes.  What all callers owe is a sum over a *)
(* set: its laws are proved by an induction over the subsets of a finite   *)
(* set, stated for a set of subsets so that it needs no predicate.         *)
(*                                                                         *)
(* Then the files that pieces are in and the cache of their handles        *)
(* (storage/storage.go, handles.go, mmap.go).  The offsets of the files    *)
(* and the rounds of trim are recursive functions: they are what they      *)
(* promise for every number because they are for 0 and from each to the    *)
(* next.  The cache is counted by its uses: an open file is in the order   *)
(* or in use, and the order has a file once.                               *)
(*                                                                         *)
(* Last the transport over UDP (utp/).  Each packet stands for a place in  *)
(* the stream of its sender: its data from place 0 on, the SYN of a dialer *)
(* at -1 and its FIN at a place a.  While less than half of the numbers    *)
(* are used, seqLess compares numbers as their places.  A reader has read  *)
(* the first r places and keeps some of those to come, and nothing under   *)
(* way is of a place that has not been sent.                               *)
(***************************************************************************)
EXTENDS Connections, V2Hash, Limiter, Files, Utp, FiniteSetTheorems,
        SequenceTheorems, TLAPS

\* What is queued, in no order.
Pending == {events[i] : i \in DOMAIN events}
Message(kind, c) == [kind |-> kind, of |-> c]

QueuedOnce == \A i, j \in DOMAIN events : events[i] = events[j] => i = j

\* What may be queued of an attempt in each phase.
Consistent ==
    \A c \in Attempt :
        /\ Message("ask", c) \in Pending => phase[c] = "asked"
        /\ Message("failed", c) \in Pending => phase[c] = "ended"
        /\ Message("connected", c) \in Pending =>
              /\ phase[c] \in {"open", "closed", "ended"}
              /\ Message("failed", c) \notin Pending
        /\ Message("gone", c) \in Pending => phase[c] = "ended"

Unsettled(c) ==
    \/ phase[c] = "dialing"
    \/ Message("failed", c) \in Pending
    \/ Message("connected", c) \in Pending

OneUnsettled ==
    \A c, d \in Attempt :
        Unsettled(c) /\ Unsettled(d) /\ AddressOf[c] = AddressOf[d] => c = d
UnsettledIsDialing == \A c \in Attempt : Unsettled(c) => AddressOf[c] \in dialing
DialingIsUnsettled ==
    \A a \in dialing : \E c \in Attempt : AddressOf[c] = a /\ Unsettled(c)

Counted ==
    /\ IsFiniteSet(Registered) /\ IsFiniteSet(dialing)
    /\ WithinMaxPeers

ConnectionsInv ==
    /\ TypeOK /\ QueuedOnce /\ Consistent
    /\ OneUnsettled /\ UnsettledIsDialing /\ DialingIsUnsettled
    /\ Counted

-----------------------------------------------------------------------------
(* The queue *)

\* Sending adds one message to what is queued.
LEMMA SendPending ==
    ASSUME TypeOK, QueuedOnce, NEW kind, NEW c, Send(kind, c),
           Message(kind, c) \in Event, Message(kind, c) \notin Pending
    PROVE  /\ events' \in Seq(Event) /\ Len(events') <= QueueLength
           /\ QueuedOnce'
           /\ Pending' = Pending \cup {Message(kind, c)}
<1> DEFINE m == Message(kind, c)
<1>1. events \in Seq(Event) /\ events' = Append(events, m) /\ Len(events) < QueueLength
  BY DEF TypeOK, Send, Message
<1>2. m \in Event /\ m \notin Pending
  OBVIOUS
<1> HIDE DEF m
<1>3. /\ events' \in Seq(Event) /\ Len(events') = Len(events) + 1
      /\ \A i \in 1 .. Len(events) : events'[i] = events[i]
      /\ events'[Len(events) + 1] = m
  BY <1>1, <1>2
<1>4. DOMAIN events = 1 .. Len(events) /\ DOMAIN events' = 1 .. Len(events) + 1 /\ Len(events) \in Nat
  BY <1>1, <1>3
<1>5. Len(events') <= QueueLength
  BY <1>1, <1>3, <1>4, ConnectionsAssumption
<1>6. QueuedOnce'
  BY <1>2, <1>3, <1>4 DEF QueuedOnce, Pending
<1>7. Pending' = Pending \cup {m}
  BY <1>3, <1>4 DEF Pending
<1>8. QED
  BY <1>3, <1>5, <1>6, <1>7 DEF m

\* Handling removes the message handled, for it is queued once.
LEMMA HandlesPending ==
    ASSUME TypeOK, QueuedOnce, NEW kind, NEW c, Handles(kind, c)
    PROVE  /\ events' \in Seq(Event) /\ Len(events') <= QueueLength
           /\ QueuedOnce'
           /\ Message(kind, c) \in Pending
           /\ Pending' = Pending \ {Message(kind, c)}
<1> DEFINE m == Message(kind, c)
<1>1. events \in Seq(Event) /\ events # <<>> /\ Head(events) = m /\ events' = Tail(events)
  BY DEF TypeOK, Handles, Message
<1>2. Len(events) <= QueueLength
  BY DEF TypeOK
<1> HIDE DEF m
<1>3. /\ Len(events) \in Nat \ {0} /\ DOMAIN events = 1 .. Len(events)
      /\ events[1] = m
  BY <1>1
<1>4. /\ events' \in Seq(Event) /\ Len(events') = Len(events) - 1
      /\ DOMAIN events' = 1 .. Len(events) - 1
      /\ \A i \in 1 .. Len(events) - 1 : events'[i] = events[i + 1]
  BY <1>1, <1>3
<1>5. Len(events') <= QueueLength
  BY <1>2, <1>3, <1>4, ConnectionsAssumption
<1>6. QueuedOnce'
  BY SMTT(20), <1>3, <1>4 DEF QueuedOnce
<1>7. m \in Pending
  BY <1>3 DEF Pending
<1>8. \A i \in DOMAIN events : events[i] = m <=> i = 1
  BY <1>3 DEF QueuedOnce
<1>9. Pending' = Pending \ {m}
  <2>1. ASSUME NEW x \in Pending'
        PROVE  x \in Pending \ {m}
    BY <2>1, <1>3, <1>4, <1>8 DEF Pending
  <2>2. ASSUME NEW x \in Pending, x # m
        PROVE  x \in Pending'
    <3>1. PICK i \in 1 .. Len(events) : x = events[i]
      BY <2>2, <1>3 DEF Pending
    <3>2. i # 1 /\ i - 1 \in 1 .. Len(events) - 1
      BY <3>1, <2>2, <1>3
    <3>3. x = events'[i - 1]
      BY <3>1, <3>2, <1>3, <1>4
    <3>4. QED
      BY <3>2, <3>3, <1>4 DEF Pending
  <2>3. QED
    BY <2>1, <2>2
<1>10. QED
  BY <1>4, <1>5, <1>6, <1>7, <1>9 DEF m

\* An attempt has its messages, and no two of them are the same.
LEMMA MessageFacts ==
    /\ \A k \in {"ask", "failed", "connected", "gone"}, c \in Attempt : Message(k, c) \in Event
    /\ \A j, k, c, d : Message(j, c) = Message(k, d) => j = k /\ c = d
BY DEF Message, Event

-----------------------------------------------------------------------------
(* The steps *)

\* What a step leaves of the counts when it leaves the maps alone.
LEMMA CountedFrame ==
    ASSUME Counted, UNCHANGED <<peers, dialing>>
    PROVE  Counted'
BY DEF Counted, WithinMaxPeers, Connecting, Registered

\* Off the actor goroutine: an attempt moves on and reports.
LEMMA AttemptKept ==
    ASSUME ConnectionsInv, NEW c \in Attempt,
           \/ Discover(c) \/ ConnectFails(c) \/ Connects(c) \/ RemoteCloses(c) \/ PumpEnds(c)
    PROVE  ConnectionsInv'
<1> USE MessageFacts DEF ConnectionsInv
<1>1. UNCHANGED <<state, peers, dialing, controls>>
  BY DEF Discover, ConnectFails, Connects, RemoteCloses, PumpEnds
<1>2. Counted'
  BY <1>1, CountedFrame
<1>3. PICK next \in Phase : phase' = [phase EXCEPT ![c] = next]
  BY DEF Discover, ConnectFails, Connects, RemoteCloses, PumpEnds, Phase
<1>4. phase \in [Attempt -> Phase] /\ phase' \in [Attempt -> Phase]
  BY <1>3 DEF TypeOK
<1>5. CASE Discover(c)
  <2>1. phase[c] = "new" /\ phase' = [phase EXCEPT ![c] = "asked"] /\ Send("ask", c)
    BY <1>5 DEF Discover
  <2>2. Message("ask", c) \notin Pending
    BY <2>1 DEF Consistent
  <2>3. /\ events' \in Seq(Event) /\ Len(events') <= QueueLength /\ QueuedOnce'
        /\ Pending' = Pending \cup {Message("ask", c)}
    BY <2>1, <2>2, SendPending
  <2>4. TypeOK'
    BY <1>1, <1>4, <2>3 DEF TypeOK
  <2>5. Consistent'
    BY <1>4, <2>1, <2>3 DEF Consistent
  <2>6. \A d \in Attempt : Unsettled(d)' <=> Unsettled(d)
    BY <1>4, <2>1, <2>3 DEF Unsettled
  <2>7. QED
    BY <1>1, <1>2, <2>3, <2>4, <2>5, <2>6 DEF OneUnsettled, UnsettledIsDialing, DialingIsUnsettled
<1>6. CASE ConnectFails(c)
  <2>1. phase[c] = "dialing" /\ phase' = [phase EXCEPT ![c] = "ended"] /\ Send("failed", c)
    BY <1>6 DEF ConnectFails
  <2>2. Message("failed", c) \notin Pending /\ Message("connected", c) \notin Pending
    BY <2>1 DEF Consistent
  <2>3. /\ events' \in Seq(Event) /\ Len(events') <= QueueLength /\ QueuedOnce'
        /\ Pending' = Pending \cup {Message("failed", c)}
    BY <2>1, <2>2, SendPending
  <2>4. TypeOK'
    BY <1>1, <1>4, <2>3 DEF TypeOK
  <2>5. Consistent'
    BY <1>4, <2>1, <2>2, <2>3 DEF Consistent
  <2>6. \A d \in Attempt : Unsettled(d)' <=> Unsettled(d)
    BY <1>4, <2>1, <2>3 DEF Unsettled
  <2>7. QED
    BY <1>1, <1>2, <2>3, <2>4, <2>5, <2>6 DEF OneUnsettled, UnsettledIsDialing, DialingIsUnsettled
<1>7. CASE Connects(c)
  <2>1. phase[c] = "dialing" /\ phase' = [phase EXCEPT ![c] = "open"] /\ Send("connected", c)
    BY <1>7 DEF Connects
  <2>2. Message("failed", c) \notin Pending /\ Message("connected", c) \notin Pending
    BY <2>1 DEF Consistent
  <2>3. /\ events' \in Seq(Event) /\ Len(events') <= QueueLength /\ QueuedOnce'
        /\ Pending' = Pending \cup {Message("connected", c)}
    BY <2>1, <2>2, SendPending
  <2>4. TypeOK'
    BY <1>1, <1>4, <2>3 DEF TypeOK
  <2>5. Consistent'
    BY <1>4, <2>1, <2>2, <2>3 DEF Consistent
  <2>6. \A d \in Attempt : Unsettled(d)' <=> Unsettled(d)
    BY <1>4, <2>1, <2>3 DEF Unsettled
  <2>7. QED
    BY <1>1, <1>2, <2>3, <2>4, <2>5, <2>6 DEF OneUnsettled, UnsettledIsDialing, DialingIsUnsettled
<1>8. CASE RemoteCloses(c)
  <2>1. phase[c] = "open" /\ phase' = [phase EXCEPT ![c] = "closed"] /\ UNCHANGED events
    BY <1>8 DEF RemoteCloses
  <2>2. QueuedOnce' /\ Pending' = Pending
    BY <2>1 DEF QueuedOnce, Pending
  <2>3. TypeOK'
    BY <1>1, <1>4, <2>1 DEF TypeOK
  <2>4. Consistent'
    BY <1>4, <2>1, <2>2 DEF Consistent
  <2>5. \A d \in Attempt : Unsettled(d)' <=> Unsettled(d)
    BY <1>4, <2>1, <2>2 DEF Unsettled
  <2>6. QED
    BY <1>1, <1>2, <2>2, <2>3, <2>4, <2>5 DEF OneUnsettled, UnsettledIsDialing, DialingIsUnsettled
<1>9. CASE PumpEnds(c)
  <2>1. phase[c] = "closed" /\ phase' = [phase EXCEPT ![c] = "ended"] /\ Send("gone", c)
    BY <1>9 DEF PumpEnds
  <2>2. Message("gone", c) \notin Pending
    BY <2>1 DEF Consistent
  <2>3. /\ events' \in Seq(Event) /\ Len(events') <= QueueLength /\ QueuedOnce'
        /\ Pending' = Pending \cup {Message("gone", c)}
    BY <2>1, <2>2, SendPending
  <2>4. TypeOK'
    BY <1>1, <1>4, <2>3 DEF TypeOK
  <2>5. Consistent'
    BY <1>4, <2>1, <2>3 DEF Consistent
  <2>6. \A d \in Attempt : Unsettled(d)' <=> Unsettled(d)
    BY <1>4, <2>1, <2>3 DEF Unsettled
  <2>7. QED
    BY <1>1, <1>2, <2>3, <2>4, <2>5, <2>6 DEF OneUnsettled, UnsettledIsDialing, DialingIsUnsettled
<1>10. QED
  BY <1>5, <1>6, <1>7, <1>8, <1>9

\* The counts after a dial begins, ends or becomes a connection.
LEMMA DialCounted ==
    ASSUME ConnectionsInv, NEW a \in Address, a \notin dialing, Connecting < MaxPeers,
           dialing' = dialing \cup {a}, UNCHANGED peers
    PROVE  Counted'
<1>1. IsFiniteSet(Registered) /\ IsFiniteSet(dialing)
  BY DEF ConnectionsInv, Counted
<1>2. IsFiniteSet(dialing') /\ Cardinality(dialing') = Cardinality(dialing) + 1
  BY <1>1, FS_AddElement
<1>3. Registered' = Registered
  BY DEF Registered
<1>4. Cardinality(Registered) \in Nat /\ Cardinality(dialing) \in Nat
  BY <1>1, FS_CardinalityType
<1>5. QED
  BY <1>1, <1>2, <1>3, <1>4, ConnectionsAssumption DEF Counted, WithinMaxPeers, Connecting

LEMMA FreedCounted ==
    ASSUME ConnectionsInv, dialing' \subseteq dialing, Registered' \subseteq Registered
    PROVE  Counted'
<1>1. IsFiniteSet(Registered) /\ IsFiniteSet(dialing)
  BY DEF ConnectionsInv, Counted
<1>2. /\ IsFiniteSet(dialing') /\ Cardinality(dialing') <= Cardinality(dialing)
      /\ IsFiniteSet(Registered') /\ Cardinality(Registered') <= Cardinality(Registered)
  BY <1>1, FS_Subset
<1>3. /\ Cardinality(Registered) \in Nat /\ Cardinality(dialing) \in Nat
      /\ Cardinality(Registered') \in Nat /\ Cardinality(dialing') \in Nat
  BY <1>1, <1>2, FS_CardinalityType
<1>4. Connecting <= MaxPeers
  BY DEF ConnectionsInv, Counted, WithinMaxPeers
<1>5. QED
  BY <1>2, <1>3, <1>4, ConnectionsAssumption DEF Counted, WithinMaxPeers, Connecting

LEMMA RegisterCounted ==
    ASSUME ConnectionsInv, NEW a \in dialing,
           dialing' = dialing \ {a}, Registered' \subseteq Registered \cup {a}
    PROVE  Counted'
<1>1. IsFiniteSet(Registered) /\ IsFiniteSet(dialing)
  BY DEF ConnectionsInv, Counted
<1>2. IsFiniteSet(dialing') /\ Cardinality(dialing') = Cardinality(dialing) - 1
  BY <1>1, FS_RemoveElement
<1>3. /\ IsFiniteSet(Registered \cup {a})
      /\ \/ Cardinality(Registered \cup {a}) = Cardinality(Registered) + 1
         \/ Cardinality(Registered \cup {a}) = Cardinality(Registered)
  BY <1>1, FS_AddElement
<1>4. IsFiniteSet(Registered') /\ Cardinality(Registered') <= Cardinality(Registered \cup {a})
  BY <1>3, FS_Subset
<1>5. /\ Cardinality(Registered) \in Nat /\ Cardinality(dialing) \in Nat
      /\ Cardinality(Registered') \in Nat /\ Cardinality(dialing') \in Nat
  BY <1>1, <1>2, <1>4, FS_CardinalityType
<1>6. Connecting <= MaxPeers
  BY DEF ConnectionsInv, Counted, WithinMaxPeers
<1>7. QED
  BY <1>2, <1>3, <1>4, <1>5, <1>6, ConnectionsAssumption DEF Counted, WithinMaxPeers, Connecting

\* handleEvent, on the actor goroutine.
LEMMA HandlerKept ==
    ASSUME ConnectionsInv, NEW c \in Attempt,
           Dial(c) \/ DialFailed(c) \/ RegisterPeer(c) \/ RemovePeer(c)
    PROVE  ConnectionsInv'
<1> USE MessageFacts DEF ConnectionsInv
<1> DEFINE a == AddressOf[c]
<1>1. a \in Address /\ AddressOf \in [Attempt -> Address]
  BY ConnectionsAssumption
<1>2. /\ phase \in [Attempt -> Phase] /\ peers \in [Address -> Attempt \cup {None}]
      /\ dialing \subseteq Address
  BY DEF TypeOK
<1>3. CASE Dial(c) /\ WantedDial(c)
  <2>1. /\ Handles("ask", c) /\ UNCHANGED <<state, peers, controls>>
        /\ phase' = [phase EXCEPT ![c] = "dialing"] /\ dialing' = dialing \cup {a}
        /\ a \notin dialing /\ Connecting < MaxPeers
    BY <1>3 DEF Dial, WantedDial
  <2>2. /\ events' \in Seq(Event) /\ Len(events') <= QueueLength /\ QueuedOnce'
        /\ Message("ask", c) \in Pending /\ Pending' = Pending \ {Message("ask", c)}
    BY <2>1, HandlesPending
  <2>3. phase[c] = "asked" /\ Message("failed", c) \notin Pending /\ Message("connected", c) \notin Pending
    BY <2>2 DEF Consistent
  <2>4. TypeOK'
    BY <1>1, <1>2, <2>1, <2>2 DEF TypeOK, Phase
  <2>5. Consistent'
    BY <1>2, <2>1, <2>2, <2>3 DEF Consistent
  <2>6. \A d \in Attempt : Unsettled(d)' <=> Unsettled(d) \/ d = c
    BY <1>2, <2>1, <2>2, <2>3 DEF Unsettled
  <2>7. \A d \in Attempt : Unsettled(d) => AddressOf[d] # a
    BY <2>1 DEF UnsettledIsDialing
  <2>8. Counted'
    BY <1>1, <2>1, DialCounted
  <2>9. OneUnsettled' /\ UnsettledIsDialing' /\ DialingIsUnsettled'
    BY <2>1, <2>6, <2>7 DEF OneUnsettled, UnsettledIsDialing, DialingIsUnsettled
  <2>10. QED
    BY <2>2, <2>4, <2>5, <2>8, <2>9
<1>4. CASE Dial(c) /\ ~WantedDial(c)
  <2>1. /\ Handles("ask", c) /\ UNCHANGED <<state, peers, controls, dialing>>
        /\ phase' = [phase EXCEPT ![c] = "ended"]
    BY <1>4 DEF Dial
  <2>2. /\ events' \in Seq(Event) /\ Len(events') <= QueueLength /\ QueuedOnce'
        /\ Message("ask", c) \in Pending /\ Pending' = Pending \ {Message("ask", c)}
    BY <2>1, HandlesPending
  <2>3. phase[c] = "asked" /\ Message("failed", c) \notin Pending /\ Message("connected", c) \notin Pending
    BY <2>2 DEF Consistent
  <2>4. TypeOK'
    BY <1>2, <2>1, <2>2 DEF TypeOK, Phase
  <2>5. Consistent'
    BY <1>2, <2>1, <2>2, <2>3 DEF Consistent
  <2>6. \A d \in Attempt : Unsettled(d)' <=> Unsettled(d)
    BY <1>2, <2>1, <2>2, <2>3 DEF Unsettled
  <2>7. Counted'
    BY <2>1, CountedFrame
  <2>8. QED
    BY <2>1, <2>2, <2>4, <2>5, <2>6, <2>7 DEF OneUnsettled, UnsettledIsDialing, DialingIsUnsettled
<1>5. CASE DialFailed(c)
  <2>1. /\ Handles("failed", c) /\ UNCHANGED <<state, phase, peers, controls>>
        /\ dialing' = dialing \ {a}
    BY <1>5 DEF DialFailed
  <2>2. /\ events' \in Seq(Event) /\ Len(events') <= QueueLength /\ QueuedOnce'
        /\ Message("failed", c) \in Pending /\ Pending' = Pending \ {Message("failed", c)}
    BY <2>1, HandlesPending
  <2>3. phase[c] = "ended" /\ Message("connected", c) \notin Pending /\ Unsettled(c)
    BY <2>2 DEF Consistent, Unsettled
  <2>4. TypeOK'
    BY <2>1, <2>2 DEF TypeOK
  <2>5. Consistent'
    BY <2>1, <2>2 DEF Consistent
  <2>6. \A d \in Attempt : Unsettled(d)' <=> Unsettled(d) /\ d # c
    BY <2>1, <2>2, <2>3 DEF Unsettled
  <2>7. \A d \in Attempt : Unsettled(d) /\ AddressOf[d] = a => d = c
    BY <2>3 DEF OneUnsettled
  <2>8. Counted'
    <3>1. dialing' \subseteq dialing /\ Registered' \subseteq Registered
      BY <2>1 DEF Registered
    <3>2. QED
      BY <3>1, FreedCounted
  <2>9. OneUnsettled' /\ UnsettledIsDialing' /\ DialingIsUnsettled'
    BY <1>1, <2>1, <2>6, <2>7 DEF OneUnsettled, UnsettledIsDialing, DialingIsUnsettled
  <2>10. QED
    BY <2>2, <2>4, <2>5, <2>8, <2>9
<1>6. CASE RegisterPeer(c)
  <2>1. /\ Handles("connected", c) /\ UNCHANGED <<state, phase, controls>>
        /\ dialing' = dialing \ {a} /\ peers' = [peers EXCEPT ![a] = c]
    BY <1>6 DEF RegisterPeer
  <2>2. /\ events' \in Seq(Event) /\ Len(events') <= QueueLength /\ QueuedOnce'
        /\ Message("connected", c) \in Pending /\ Pending' = Pending \ {Message("connected", c)}
    BY <2>1, HandlesPending
  <2>3. phase[c] # "dialing" /\ Message("failed", c) \notin Pending /\ Unsettled(c)
    BY <2>2 DEF Consistent, Unsettled
  <2>4. TypeOK'
    BY <1>2, <2>1, <2>2 DEF TypeOK
  <2>5. Consistent'
    BY <2>1, <2>2 DEF Consistent
  <2>6. \A d \in Attempt : Unsettled(d)' <=> Unsettled(d) /\ d # c
    BY <2>1, <2>2, <2>3 DEF Unsettled
  <2>7. \A d \in Attempt : Unsettled(d) /\ AddressOf[d] = a => d = c
    BY <2>3 DEF OneUnsettled
  <2>8. Counted'
    <3>1. a \in dialing
      BY <2>3 DEF UnsettledIsDialing
    <3>2. Registered' \subseteq Registered \cup {a}
      BY <1>2, <2>1 DEF Registered
    <3>3. QED
      BY <2>1, <3>1, <3>2, RegisterCounted
  <2>9. OneUnsettled' /\ UnsettledIsDialing' /\ DialingIsUnsettled'
    BY <1>1, <2>1, <2>6, <2>7 DEF OneUnsettled, UnsettledIsDialing, DialingIsUnsettled
  <2>10. QED
    BY <2>2, <2>4, <2>5, <2>8, <2>9
<1>7. CASE RemovePeer(c)
  <2>1. /\ Handles("gone", c) /\ UNCHANGED <<state, phase, dialing, controls>>
        /\ peers' = [peers EXCEPT ![a] = None]
    BY <1>7 DEF RemovePeer
  <2>2. /\ events' \in Seq(Event) /\ Len(events') <= QueueLength /\ QueuedOnce'
        /\ Pending' = Pending \ {Message("gone", c)}
    BY <2>1, HandlesPending
  <2>3. TypeOK'
    BY <1>2, <2>1, <2>2 DEF TypeOK
  <2>4. Consistent'
    BY <2>1, <2>2 DEF Consistent
  <2>5. \A d \in Attempt : Unsettled(d)' <=> Unsettled(d)
    BY <2>1, <2>2 DEF Unsettled
  <2>6. Counted'
    <3>1. dialing' \subseteq dialing /\ Registered' \subseteq Registered
      BY <1>2, <2>1 DEF Registered
    <3>2. QED
      BY <3>1, FreedCounted
  <2>7. QED
    BY <2>1, <2>2, <2>3, <2>4, <2>5, <2>6 DEF OneUnsettled, UnsettledIsDialing, DialingIsUnsettled
<1>8. QED
  BY <1>3, <1>4, <1>5, <1>6, <1>7

\* Pause closes what is registered and leaves what is under way.
LEMMA ControlKept ==
    ASSUME ConnectionsInv, Pause \/ Resume
    PROVE  ConnectionsInv'
<1> USE DEF ConnectionsInv
<1>1. UNCHANGED <<dialing, events>>
  BY DEF Pause, Resume
<1>2. QueuedOnce' /\ Pending' = Pending
  BY <1>1 DEF QueuedOnce, Pending
<1>3. phase \in [Attempt -> Phase]
  BY DEF TypeOK
<1>4. phase' \in [Attempt -> Phase]
  BY <1>3 DEF Pause, Resume, ShutdownPeers, Phase
<1>5. \A d \in Attempt : phase'[d] = phase[d] \/ (phase[d] = "open" /\ phase'[d] = "closed")
  BY <1>3 DEF Pause, Resume, ShutdownPeers
<1>6. TypeOK'
  <2>1. state' \in State
    BY DEF TypeOK, Pause, Resume, Moved, State
  <2>2. peers' \in [Address -> Attempt \cup {None}]
    BY DEF TypeOK, Pause, Resume, ShutdownPeers
  <2>3. controls' \in 0 .. MaxControls
    BY ConnectionsAssumption DEF TypeOK, Pause, Resume
  <2>4. QED
    BY <1>1, <1>4, <2>1, <2>2, <2>3 DEF TypeOK
<1>7. Consistent'
  BY <1>2, <1>5 DEF Consistent
<1>8. \A d \in Attempt : Unsettled(d)' <=> Unsettled(d)
  BY <1>2, <1>5 DEF Unsettled
<1>9. Counted'
  <2>1. Registered' \subseteq Registered
    BY DEF Registered, Pause, Resume, ShutdownPeers
  <2>2. QED
    BY <1>1, <2>1, FreedCounted
<1>10. QED
  BY <1>1, <1>2, <1>6, <1>7, <1>8, <1>9 DEF OneUnsettled, UnsettledIsDialing, DialingIsUnsettled

-----------------------------------------------------------------------------
(***************************************************************************)
(* The invariant of t.peers, t.dialing and the event queue.  (dial,        *)
(* acceptIncoming, registerPeer, removePeer, shutdownPeers)                *)
(***************************************************************************)
THEOREM ConnectionsInvariant == Spec => []ConnectionsInv
<1>1. ASSUME Init
      PROVE  ConnectionsInv
  <2>1. events = <<>> /\ events \in Seq(Event) /\ Len(events) = 0 /\ DOMAIN events = {}
    BY <1>1 DEF Init
  <2>2. Pending = {} /\ QueuedOnce
    BY <2>1 DEF Pending, QueuedOnce
  <2>3. TypeOK
    BY <1>1, <2>1, ConnectionsAssumption DEF Init, TypeOK, State, Phase
  <2>4. Consistent
    BY <2>2 DEF Consistent
  <2>5. \A c \in Attempt : ~Unsettled(c)
    BY <1>1, <2>2 DEF Init, Unsettled
  <2>6. OneUnsettled /\ UnsettledIsDialing /\ DialingIsUnsettled
    BY <1>1, <2>5 DEF Init, OneUnsettled, UnsettledIsDialing, DialingIsUnsettled
  <2>7. Registered = {} /\ dialing = {}
    BY <1>1 DEF Init, Registered
  <2>8. Counted
    BY <2>7, FS_EmptySet, ConnectionsAssumption DEF Counted, WithinMaxPeers, Connecting
  <2>9. QED
    BY <2>2, <2>3, <2>4, <2>6, <2>8 DEF ConnectionsInv
<1>2. ConnectionsInv /\ [Next]_vars => ConnectionsInv'
  <2>1. ASSUME ConnectionsInv, UNCHANGED vars
        PROVE  ConnectionsInv'
    BY <2>1 DEF vars, ConnectionsInv, TypeOK, QueuedOnce, Consistent, OneUnsettled,
                UnsettledIsDialing, DialingIsUnsettled, Unsettled, Pending,
                Counted, WithinMaxPeers, Connecting, Registered
  <2>2. QED
    BY <2>1, AttemptKept, HandlerKept, ControlKept DEF Next
<1>3. QED
  BY <1>1, <1>2, PTL DEF Spec

(***************************************************************************)
(* The cap: connections and dials under way never exceed maxPeers,         *)
(* whatever is queued, paused and resumed.  (dial, acceptIncoming,         *)
(* registerPeer)                                                           *)
(***************************************************************************)
THEOREM WithinCap == Spec => []WithinMaxPeers
<1>1. ConnectionsInv => WithinMaxPeers
  BY DEF ConnectionsInv, Counted
<1>2. QED
  BY <1>1, ConnectionsInvariant, PTL

(***************************************************************************)
(* A dialing entry belongs to exactly one attempt under way or with its    *)
(* outcome queued: no slot is lost, none is freed for another's outcome.   *)
(* (dial, connectAndPump, acceptAndPump, registerPeer)                     *)
(***************************************************************************)
THEOREM DialingHasOneAttempt == Spec => []DialingIsUnderway
<1>1. ASSUME ConnectionsInv
      PROVE  DialingIsUnderway
  <2>1. \A c \in Attempt : Underway(c) <=> Unsettled(c)
    BY DEF Underway, Queued, Unsettled, Pending, Message
  <2>2. ASSUME NEW a \in Address
        PROVE  Cardinality({c \in Attempt : AddressOf[c] = a /\ Underway(c)})
               = IF a \in dialing THEN 1 ELSE 0
    <3> DEFINE U == {c \in Attempt : AddressOf[c] = a /\ Underway(c)}
    <3>1. CASE a \in dialing
      <4>1. PICK c \in Attempt : AddressOf[c] = a /\ Unsettled(c)
        BY <1>1, <3>1 DEF ConnectionsInv, DialingIsUnsettled
      <4>2. U = {c}
        BY <1>1, <2>1, <4>1 DEF ConnectionsInv, OneUnsettled
      <4>3. Cardinality(U) = 1
        BY <4>2, FS_Singleton
      <4>4. QED
        BY <3>1, <4>3
    <3>2. CASE a \notin dialing
      <4>1. U = {}
        BY <1>1, <2>1, <3>2 DEF ConnectionsInv, UnsettledIsDialing
      <4>2. Cardinality(U) = 0
        BY <4>1, FS_EmptySet
      <4>3. QED
        BY <3>2, <4>2
    <3>3. QED
      BY <3>1, <3>2
  <2>3. QED
    BY <2>2 DEF DialingIsUnderway
<1>2. QED
  BY <1>1, ConnectionsInvariant, PTL

-----------------------------------------------------------------------------
(* What connections bring: the piece layers of a v2 torrent                *)

\* t.mi is only ever replaced by a MetaInfo with one layer more.
LEMMA PublishingKeepsLayers ==
    ASSUME NEW c \in V2Peer, OnHashMessage(c)
    PROVE  DOMAIN layers \subseteq DOMAIN layers'
BY DEF OnHashMessage, Published

\* onHashesMessage, expirePieceLayerRequests, doSetMetadata, removePeer: a layer
\* that was published is never lost again, whichever peers answer, refuse or send
\* other hashes, for any files, any number of peers and however late they are.
THEOREM LayersAreKept == V2Spec => LayersOnlyGrow
<1>1. [V2Next]_v2Vars => [DOMAIN layers \subseteq DOMAIN layers']_v2Vars
  <2>1. CASE LearnInfo \/ \E f \in Layered : ExpireRequest(f)
    BY <2>1 DEF LearnInfo, ExpireRequest
  <2>2. ASSUME NEW c \in V2Peer, V2PeerStep(c)
        PROVE  DOMAIN layers \subseteq DOMAIN layers'
    <3>1. CASE OnHashMessage(c)
      BY <3>1, PublishingKeepsLayers
    <3>2. CASE ~OnHashMessage(c)
      BY <2>2, <3>2 DEF V2PeerStep, RegisterV2Peer, RemoveV2Peer, ServeHashes, RequestPieceLayer, PeerLearns
    <3>3. QED
      BY <3>1, <3>2
  <2>3. QED
    BY <2>1, <2>2 DEF V2Next
<1>2. QED
  BY <1>1, PTL DEF V2Spec, LayersOnlyGrow

-----------------------------------------------------------------------------
(* Sums over finite sets, for the bucket *)

\* Induction on the numbers, for a set: were n the first to be missing, x + 1 would
\* map those below into themselves and leave 0 out.
LEMMA EveryNumber ==
    ASSUME NEW P \in SUBSET Nat, 0 \in P, \A n \in P : n + 1 \in P
    PROVE  P = Nat
<1> SUFFICES ASSUME NEW n \in Nat, n \notin P PROVE FALSE
  OBVIOUS
<1> DEFINE B == P \cap 0..n  T == B \ {0}
<1>1. 0 \in B
  OBVIOUS
<1>2. IsFiniteSet(B) /\ Cardinality(B) \in Nat
  <2>1. IsFiniteSet(0..n)
    BY FS_Interval
  <2>2. IsFiniteSet(B)
    BY <2>1, FS_Subset
  <2>3. QED
    BY <2>2, FS_CardinalityType
<1>3. \A x \in B : x \in Nat /\ x + 1 \in T
  <2> SUFFICES ASSUME NEW x \in B PROVE x \in Nat /\ x + 1 \in T
    OBVIOUS
  <2>1. x \in P /\ x \in Nat /\ x <= n /\ x # n
    OBVIOUS
  <2>2. x + 1 \in P /\ x + 1 <= n /\ x + 1 # 0
    BY <2>1
  <2>3. QED
    BY <2>1, <2>2
<1> HIDE DEF B
<1>4. IsFiniteSet(T) /\ Cardinality(T) = Cardinality(B) - 1
  BY <1>1, <1>2, FS_RemoveElement
<1> HIDE DEF T
<1> DEFINE f == [x \in B |-> x + 1]
<1>5. f \in [B -> T]
  BY <1>3
<1>6. \A x, y \in B : f[x] = f[y] => x = y
  BY <1>3
<1> HIDE DEF f
<1>7. Cardinality(T) < Cardinality(B)
  BY <1>2, <1>4
<1>8. \E x, y \in B : x # y /\ f[x] = f[y]
  BY <1>2, <1>4, <1>5, <1>7, FS_PigeonHole
<1>9. QED
  BY <1>6, <1>8

\* Induction on the subsets of a finite set.
LEMMA EverySubset ==
    ASSUME NEW S, IsFiniteSet(S), NEW P \in SUBSET (SUBSET S),
           \A T \in SUBSET S : (\A x \in T : T \ {x} \in P) => T \in P
    PROVE  P = SUBSET S
<1> DEFINE N == {n \in Nat : \A T \in SUBSET S : Cardinality(T) = n => T \in P}
<1>1. \A T \in SUBSET S : IsFiniteSet(T) /\ Cardinality(T) \in Nat
  BY FS_Subset, FS_CardinalityType
<1>2. 0 \in N
  <2>1. \A T \in SUBSET S : Cardinality(T) = 0 => T = {}
    BY <1>1, FS_EmptySet
  <2>2. {} \in P
    OBVIOUS
  <2>3. QED
    BY <2>1, <2>2
<1>3. ASSUME NEW n \in N PROVE n + 1 \in N
  <2> SUFFICES ASSUME NEW T \in SUBSET S, Cardinality(T) = n + 1 PROVE T \in P
    OBVIOUS
  <2>1. ASSUME NEW x \in T PROVE T \ {x} \in P
    <3>1. Cardinality(T \ {x}) = Cardinality(T) - 1
      BY <1>1, FS_RemoveElement
    <3>2. Cardinality(T \ {x}) = n /\ T \ {x} \in SUBSET S
      BY <3>1
    <3>3. QED
      BY <3>2
  <2>2. QED
    BY <2>1
<1>4. N = Nat
  <2>1. N \in SUBSET Nat
    OBVIOUS
  <2> HIDE DEF N
  <2>2. QED
    BY <1>2, <1>3, <2>1, EveryNumber
<1>5. QED
  BY <1>1, <1>4

Amount(ws) == \A w \in Waiter : ws[w].n \in Nat
OneOf(s) == CHOOSE x \in s : TRUE
Step(ws, g, s) == IF s = {} THEN 0 ELSE ws[OneOf(s)].n + g[s \ {OneOf(s)}]
Sums(ws, g) == g = [s \in SUBSET Waiter |-> Step(ws, g, s)]
SumOf(ws) == CHOOSE g : Sums(ws, g)

LEMMA OwedIs == ASSUME NEW ws PROVE OwedBy(ws) = SumOf(ws)[Waiter]
BY DEF OwedBy, MapThenSumSet, MapThenFoldSet, Sums, SumOf, Step, OneOf

LEMMA OneOfThem == ASSUME NEW s, s # {} PROVE OneOf(s) \in s
BY DEF OneOf

\* The sum is there.
LEMMA SumExists ==
    ASSUME IsFiniteSet(Waiter), NEW ws, Amount(ws)
    PROVE  Sums(ws, SumOf(ws)) /\ SumOf(ws) \in [SUBSET Waiter -> Nat]
<1> DEFINE Up(g, n) == \A s \in SUBSET Waiter : Cardinality(s) <= n => g[s] = Step(ws, g, s)
           N == {n \in Nat : \E g \in [SUBSET Waiter -> Nat] : Up(g, n)}
<1>0. \A s \in SUBSET Waiter : IsFiniteSet(s) /\ Cardinality(s) \in Nat
  BY FS_Subset, FS_CardinalityType
<1>1. 0 \in N
  <2> DEFINE g == [s \in SUBSET Waiter |-> 0]
  <2>1. \A s \in SUBSET Waiter : Cardinality(s) <= 0 => s = {}
    BY <1>0, FS_EmptySet
  <2>2. g \in [SUBSET Waiter -> Nat] /\ Up(g, 0)
    BY <2>1 DEF Step
  <2>3. QED
    BY <2>2
<1>2. ASSUME NEW n \in N PROVE n + 1 \in N
  <2>1. n \in Nat
    OBVIOUS
  <2>2. PICK g \in [SUBSET Waiter -> Nat] : Up(g, n)
    OBVIOUS
  <2> DEFINE h == [s \in SUBSET Waiter |-> Step(ws, g, s)]
  <2>3. ASSUME NEW s \in SUBSET Waiter, s # {}
        PROVE  /\ OneOf(s) \in Waiter /\ s \ {OneOf(s)} \in SUBSET Waiter
               /\ Cardinality(s \ {OneOf(s)}) = Cardinality(s) - 1
    <3>1. OneOf(s) \in s
      BY <2>3, OneOfThem
    <3>2. Cardinality(s \ {OneOf(s)}) = Cardinality(s) - 1
      BY <1>0, <3>1, FS_RemoveElement
    <3>3. QED
      BY <3>1, <3>2
  <2>4. h \in [SUBSET Waiter -> Nat]
    <3> SUFFICES ASSUME NEW s \in SUBSET Waiter PROVE Step(ws, g, s) \in Nat
      OBVIOUS
    <3>1. CASE s = {}
      BY <3>1 DEF Step
    <3>2. CASE s # {}
      <4>1. ws[OneOf(s)].n \in Nat /\ g[s \ {OneOf(s)}] \in Nat
        BY <2>3, <3>2 DEF Amount
      <4>2. QED
        BY <3>2, <4>1 DEF Step
    <3>3. QED
      BY <3>1, <3>2
  <2>5. \A s \in SUBSET Waiter : Cardinality(s) <= n => h[s] = g[s]
    BY <2>2
  <2>6. ASSUME NEW s \in SUBSET Waiter, Cardinality(s) <= n + 1
        PROVE  h[s] = Step(ws, h, s)
    <3>1. CASE s = {}
      BY <3>1 DEF Step
    <3>2. CASE s # {}
      <4>1. Cardinality(s \ {OneOf(s)}) <= n /\ s \ {OneOf(s)} \in SUBSET Waiter
        BY <1>0, <2>1, <2>3, <2>6, <3>2
      <4>2. h[s \ {OneOf(s)}] = g[s \ {OneOf(s)}]
        BY <2>5, <4>1
      <4>3. h[s] = Step(ws, g, s)
        OBVIOUS
      <4> HIDE DEF h
      <4>4. QED
        BY <3>2, <4>2, <4>3 DEF Step
    <3>3. QED
      BY <3>1, <3>2
  <2> HIDE DEF h
  <2>7. Up(h, n + 1)
    BY <2>6
  <2>8. QED
    BY <2>1, <2>4, <2>7
<1>3. N = Nat
  <2>1. N \in SUBSET Nat
    OBVIOUS
  <2> HIDE DEF N
  <2>2. QED
    BY <1>1, <1>2, <2>1, EveryNumber
<1>4. PICK g \in [SUBSET Waiter -> Nat] : Up(g, Cardinality(Waiter))
  BY <1>0, <1>3
<1>5. Sums(ws, g)
  <2>1. \A s \in SUBSET Waiter : g[s] = Step(ws, g, s)
    <3> SUFFICES ASSUME NEW s \in SUBSET Waiter PROVE g[s] = Step(ws, g, s)
      OBVIOUS
    <3>1. Cardinality(s) <= Cardinality(Waiter)
      BY FS_Subset
    <3>2. QED
      BY <1>4, <3>1
  <2>2. g = [s \in SUBSET Waiter |-> g[s]]
    BY <1>4
  <2>3. QED
    BY <2>1, <2>2 DEF Sums
<1>6. Sums(ws, SumOf(ws))
  BY <1>5 DEF SumOf
<1> DEFINE G == SumOf(ws)
<1>7. \A s \in SUBSET Waiter : G[s] = Step(ws, G, s)
  BY <1>6 DEF Sums
<1>8. DOMAIN G = SUBSET Waiter /\ G = [s \in SUBSET Waiter |-> G[s]]
  BY <1>6 DEF Sums
<1> HIDE DEF G
<1> DEFINE P == {s \in SUBSET Waiter : G[s] \in Nat}
<1>9. ASSUME NEW s \in SUBSET Waiter, \A x \in s : s \ {x} \in P PROVE s \in P
  <2>1. CASE s = {}
    <3>1. G[s] = Step(ws, G, s)
      BY <1>7
    <3>2. G[s] = 0
      BY <2>1, <3>1 DEF Step
    <3>3. QED
      BY <3>2
  <2>2. CASE s # {}
    <3>1. OneOf(s) \in s
      BY <2>2, OneOfThem
    <3>2. G[s \ {OneOf(s)}] \in Nat
      BY <1>9, <3>1
    <3>5. ws[OneOf(s)].n \in Nat
      BY <3>1 DEF Amount
    <3>3. G[s] = ws[OneOf(s)].n + G[s \ {OneOf(s)}]
      BY <1>7, <2>2 DEF Step
    <3>4. QED
      BY <3>2, <3>3, <3>5
  <2>3. QED
    BY <2>1, <2>2
<1>10. P = SUBSET Waiter
  <2>1. P \in SUBSET (SUBSET Waiter)
    OBVIOUS
  <2> HIDE DEF P
  <2>2. QED
    BY <1>9, <2>1, EverySubset
<1>11. \A s \in SUBSET Waiter : G[s] \in Nat
  BY <1>10
<1>12. G \in [SUBSET Waiter -> Nat]
  BY <1>8, <1>11
<1>13. QED
  BY <1>6, <1>12 DEF G

\* One at a time, whichever.
LEMMA SumTakesAny ==
    ASSUME IsFiniteSet(Waiter), NEW ws, Amount(ws)
    PROVE  /\ SumOf(ws) \in [SUBSET Waiter -> Nat] /\ SumOf(ws)[{}] = 0
           /\ \A s \in SUBSET Waiter : \A x \in s : SumOf(ws)[s] = ws[x].n + SumOf(ws)[s \ {x}]
<1> DEFINE G == SumOf(ws)
<1>1. Sums(ws, G) /\ G \in [SUBSET Waiter -> Nat]
  BY SumExists
<1>2. \A s \in SUBSET Waiter : G[s] = Step(ws, G, s)
  BY <1>1 DEF Sums
<1> HIDE DEF G
<1>3. G[{}] = 0
  BY <1>2 DEF Step
<1> DEFINE P == {s \in SUBSET Waiter : \A x \in s : G[s] = ws[x].n + G[s \ {x}]}
<1>4. ASSUME NEW s \in SUBSET Waiter, \A x \in s : s \ {x} \in P PROVE s \in P
  <2> SUFFICES ASSUME NEW x \in s PROVE G[s] = ws[x].n + G[s \ {x}]
    OBVIOUS
  <2> DEFINE c == OneOf(s)
  <2>1. c \in s /\ s # {}
    BY OneOfThem
  <2> HIDE DEF c
  <2>2. G[s] = ws[c].n + G[s \ {c}]
    BY <1>2, <2>1 DEF Step, c
  <2>3. CASE x = c
    BY <2>2, <2>3
  <2>4. CASE x # c
    <3>1. x \in s \ {c} /\ c \in s \ {x} /\ (s \ {c}) \ {x} = (s \ {x}) \ {c}
      BY <2>1, <2>4
    <3>2. s \ {c} \in P /\ s \ {x} \in P
      BY <1>4, <2>1
    <3>3. G[s \ {c}] = ws[x].n + G[(s \ {c}) \ {x}]
      BY <3>1, <3>2
    <3>4. G[s \ {x}] = ws[c].n + G[(s \ {x}) \ {c}]
      BY <3>1, <3>2
    <3>5. ws[c].n \in Nat /\ ws[x].n \in Nat
      BY <2>1 DEF Amount
    <3>6. G[(s \ {c}) \ {x}] \in Nat /\ G[(s \ {x}) \ {c}] = G[(s \ {c}) \ {x}]
      BY <1>1, <3>1
    <3>7. QED
      BY <2>2, <3>3, <3>4, <3>5, <3>6
  <2>5. QED
    BY <2>3, <2>4
<1>5. P = SUBSET Waiter
  <2>1. P \in SUBSET (SUBSET Waiter)
    OBVIOUS
  <2> HIDE DEF P
  <2>2. QED
    BY <1>4, <2>1, EverySubset
<1>6. QED
  BY <1>1, <1>3, <1>5 DEF G

\* What is owed is at least nothing; when one caller's part changes, so does the
\* sum; part of it is no more than the whole; and each owing at most m, ...
LEMMA OwedIsNat ==
    ASSUME IsFiniteSet(Waiter), NEW ws, Amount(ws)
    PROVE  OwedBy(ws) \in Nat
BY SumTakesAny, OwedIs

LEMMA OwedAfter ==
    ASSUME IsFiniteSet(Waiter), NEW ws, Amount(ws), NEW vs, Amount(vs), NEW w \in Waiter,
           \A x \in Waiter \ {w} : vs[x].n = ws[x].n
    PROVE  OwedBy(vs) = OwedBy(ws) - ws[w].n + vs[w].n
<1> DEFINE F == SumOf(ws)  G == SumOf(vs)
<1>1. /\ F \in [SUBSET Waiter -> Nat] /\ F[{}] = 0
      /\ \A s \in SUBSET Waiter : \A x \in s : F[s] = ws[x].n + F[s \ {x}]
  BY SumTakesAny
<1>2. /\ G \in [SUBSET Waiter -> Nat] /\ G[{}] = 0
      /\ \A s \in SUBSET Waiter : \A x \in s : G[s] = vs[x].n + G[s \ {x}]
  BY SumTakesAny
<1>3. OwedBy(ws) = F[Waiter] /\ OwedBy(vs) = G[Waiter]
  BY OwedIs
<1> HIDE DEF F, G
<1> DEFINE P == {s \in SUBSET Waiter : w \notin s => G[s] = F[s]}
<1>4. ASSUME NEW s \in SUBSET Waiter, \A x \in s : s \ {x} \in P PROVE s \in P
  <2> SUFFICES ASSUME w \notin s PROVE G[s] = F[s]
    OBVIOUS
  <2>1. CASE s = {}
    BY <1>1, <1>2, <2>1
  <2>2. CASE s # {}
    <3>1. PICK x \in s : TRUE
      BY <2>2
    <3>2. s \ {x} \in P /\ w \notin s \ {x}
      BY <1>4, <3>1
    <3>3. G[s \ {x}] = F[s \ {x}]
      BY <3>2
    <3>4. vs[x].n = ws[x].n
      BY <3>1
    <3>5. G[s] = vs[x].n + G[s \ {x}] /\ F[s] = ws[x].n + F[s \ {x}]
      BY <1>1, <1>2, <3>1
    <3>6. QED
      BY <3>3, <3>4, <3>5
  <2>3. QED
    BY <2>1, <2>2
<1>5. P = SUBSET Waiter
  <2>1. P \in SUBSET (SUBSET Waiter)
    OBVIOUS
  <2> HIDE DEF P
  <2>2. QED
    BY <1>4, <2>1, EverySubset
<1>6. G[Waiter \ {w}] = F[Waiter \ {w}]
  BY <1>5
<1>7. G[Waiter] = vs[w].n + G[Waiter \ {w}] /\ F[Waiter] = ws[w].n + F[Waiter \ {w}]
  BY <1>1, <1>2
<1>8. F[Waiter \ {w}] \in Nat /\ ws[w].n \in Nat /\ vs[w].n \in Nat
  BY <1>1 DEF Amount
<1>9. QED
  BY <1>3, <1>6, <1>7, <1>8

LEMMA OwedInPart ==
    ASSUME IsFiniteSet(Waiter), NEW ws, Amount(ws), NEW vs, Amount(vs),
           \A x \in Waiter : vs[x].n <= ws[x].n
    PROVE  OwedBy(vs) <= OwedBy(ws)
<1> DEFINE F == SumOf(ws)  G == SumOf(vs)
<1>1. /\ F \in [SUBSET Waiter -> Nat] /\ F[{}] = 0
      /\ \A s \in SUBSET Waiter : \A x \in s : F[s] = ws[x].n + F[s \ {x}]
  BY SumTakesAny
<1>2. /\ G \in [SUBSET Waiter -> Nat] /\ G[{}] = 0
      /\ \A s \in SUBSET Waiter : \A x \in s : G[s] = vs[x].n + G[s \ {x}]
  BY SumTakesAny
<1>3. OwedBy(ws) = F[Waiter] /\ OwedBy(vs) = G[Waiter]
  BY OwedIs
<1> HIDE DEF F, G
<1> DEFINE P == {s \in SUBSET Waiter : G[s] <= F[s]}
<1>4. ASSUME NEW s \in SUBSET Waiter, \A x \in s : s \ {x} \in P PROVE s \in P
  <2>1. CASE s = {}
    <3>1. G[s] = 0 /\ F[s] = 0
      BY <1>1, <1>2, <2>1
    <3>2. QED
      BY <3>1
  <2>2. CASE s # {}
    <3>1. PICK x \in s : TRUE
      BY <2>2
    <3>2. s \ {x} \in P
      BY <1>4, <3>1
    <3>3. G[s \ {x}] <= F[s \ {x}] /\ G[s \ {x}] \in Nat /\ F[s \ {x}] \in Nat
      BY <1>1, <1>2, <3>2
    <3>4. vs[x].n <= ws[x].n /\ vs[x].n \in Nat /\ ws[x].n \in Nat
      BY <3>1 DEF Amount
    <3>5. G[s] = vs[x].n + G[s \ {x}] /\ F[s] = ws[x].n + F[s \ {x}]
      BY <1>1, <1>2, <3>1
    <3>6. G[s] <= F[s]
      BY <3>3, <3>4, <3>5
    <3>7. QED
      BY <3>6
  <2>3. QED
    BY <2>1, <2>2
<1>5. P = SUBSET Waiter
  <2>1. P \in SUBSET (SUBSET Waiter)
    OBVIOUS
  <2> HIDE DEF P
  <2>2. QED
    BY <1>4, <2>1, EverySubset
<1>6. QED
  BY <1>3, <1>5

LEMMA OwedAtMost ==
    ASSUME IsFiniteSet(Waiter), NEW ws, Amount(ws), NEW m \in Nat, \A x \in Waiter : ws[x].n <= m
    PROVE  OwedBy(ws) <= m * Cardinality(Waiter)
<1> DEFINE F == SumOf(ws)
<1>1. /\ F \in [SUBSET Waiter -> Nat] /\ F[{}] = 0
      /\ \A s \in SUBSET Waiter : \A x \in s : F[s] = ws[x].n + F[s \ {x}]
  BY SumTakesAny
<1>2. OwedBy(ws) = F[Waiter]
  BY OwedIs
<1> HIDE DEF F
<1> DEFINE P == {s \in SUBSET Waiter : F[s] <= m * Cardinality(s)}
<1>3. ASSUME NEW s \in SUBSET Waiter, \A x \in s : s \ {x} \in P PROVE s \in P
  <2>1. CASE s = {}
    <3>1. F[s] = 0 /\ Cardinality(s) = 0
      BY <1>1, <2>1, FS_EmptySet
    <3>2. F[s] <= m * Cardinality(s)
      BY <3>1
    <3>3. QED
      BY <3>2
  <2>2. CASE s # {}
    <3>1. PICK x \in s : TRUE
      BY <2>2
    <3>2. F[s \ {x}] <= m * Cardinality(s \ {x}) /\ F[s \ {x}] \in Nat
      BY <1>1, <1>3, <3>1
    <3>3. IsFiniteSet(s) /\ Cardinality(s) \in Nat
      BY FS_Subset, FS_CardinalityType
    <3>4. Cardinality(s \ {x}) = Cardinality(s) - 1
      BY <3>1, <3>3, FS_RemoveElement
    <3>5. ws[x].n <= m /\ ws[x].n \in Nat
      BY <3>1 DEF Amount
    <3>6. F[s] = ws[x].n + F[s \ {x}]
      BY <1>1, <3>1
    <3>7. m * (Cardinality(s) - 1) + m = m * Cardinality(s)
      BY <3>3
    <3>8. F[s] <= m * Cardinality(s)
      BY <3>2, <3>3, <3>4, <3>5, <3>6, <3>7
    <3>9. QED
      BY <3>8
  <2>3. QED
    BY <2>1, <2>2
<1>4. P = SUBSET Waiter
  <2>1. P \in SUBSET (SUBSET Waiter)
    OBVIOUS
  <2> HIDE DEF P
  <2>2. QED
    BY <1>3, <2>1, EverySubset
<1>5. QED
  BY <1>2, <1>4

LEMMA MaxIs ==
    ASSUME NEW S \in SUBSET Nat, IsFiniteSet(S), S # {}
    PROVE  Max(S) \in S /\ \A y \in S : y <= Max(S)
<1> DEFINE P == {T \in SUBSET S : T = {} \/ \E m \in T : \A y \in T : y <= m}
<1>1. ASSUME NEW T \in SUBSET S, \A x \in T : T \ {x} \in P PROVE T \in P
  <2>1. CASE T = {}
    BY <2>1
  <2>2. CASE T # {}
    <3>1. PICK x \in T : TRUE
      BY <2>2
    <3>2. T \ {x} \in P
      BY <1>1, <3>1
    <3>3. CASE T \ {x} = {}
      <4>1. \A y \in T : y <= x
        BY <3>1, <3>3
      <4>2. QED
        BY <3>1, <4>1
    <3>4. CASE T \ {x} # {}
      <4>1. PICK m \in T \ {x} : \A y \in T \ {x} : y <= m
        BY <3>2, <3>4
      <4>2. m \in Nat /\ x \in Nat
        BY <3>1, <4>1
      <4>3. CASE x <= m
        <5>1. \A y \in T : y <= m
          BY <4>1, <4>3
        <5>2. QED
          BY <4>1, <5>1
      <4>4. CASE m < x
        <5>1. \A y \in T : y <= x
          <6> SUFFICES ASSUME NEW y \in T PROVE y <= x
            OBVIOUS
          <6>1. y = x \/ y <= m
            BY <4>1
          <6>2. QED
            BY <4>2, <4>4, <6>1
        <5>2. QED
          BY <3>1, <5>1
      <4>5. QED
        BY <4>2, <4>3, <4>4
    <3>5. QED
      BY <3>3, <3>4
  <2>3. QED
    BY <2>1, <2>2
<1>2. P = SUBSET S
  <2>1. P \in SUBSET (SUBSET S)
    OBVIOUS
  <2> HIDE DEF P
  <2>2. QED
    BY <1>1, <2>1, EverySubset
<1>3. \E m \in S : \A y \in S : y <= m
  BY <1>2
<1>4. \E m \in S : \A y \in S : m >= y
  BY <1>3
<1>5. QED
  BY <1>4 DEF Max

\* Rounding up.
LEMMA TimesKeepsOrder ==
    ASSUME NEW p \in Nat, NEW q \in Nat, NEW l \in Nat, p <= q
    PROVE  p * l <= q * l /\ p * l \in Nat
<1>1. PICK d \in Nat : q = p + d
  <2>1. q - p \in Nat /\ q = p + (q - p)
    OBVIOUS
  <2>2. QED
    BY <2>1
<1>2. q * l = p * l + d * l /\ d * l \in Nat /\ p * l \in Nat
  BY <1>1
<1>3. QED
  BY <1>2

LEMMA CeilDivIs ==
    ASSUME NEW a \in Nat, NEW b \in Nat \ {0}
    PROVE  /\ CeilDiv(a, b) \in Nat /\ a <= CeilDiv(a, b) * b
           /\ \A q \in Nat : a <= q * b => CeilDiv(a, b) <= q
<1> DEFINE e == a + b - 1  c == e \div b
<1>1. e \in Nat
  OBVIOUS
<1> HIDE DEF e
<1>2. c \in Int /\ e % b \in 0 .. b - 1 /\ e = b * c + (e % b)
  BY <1>1
<1>3. c >= 0
  BY <1>1, <1>2
<1> HIDE DEF c
<1>4. e = a + b - 1
  BY DEF e
<1>5. a <= c * b
  BY <1>2, <1>4
<1>6. ASSUME NEW q \in Nat, a <= q * b PROVE c <= q
  <2> SUFFICES ASSUME q + 1 <= c PROVE FALSE
    BY <1>2, <1>3
  <2>1. (q + 1) * b <= c * b
    BY <1>2, <1>3, TimesKeepsOrder
  <2>2. (q + 1) * b = q * b + b /\ q * b \in Nat /\ c * b = b * c /\ b * c \in Int
    BY <1>2
  <2>3. b * c <= a + b - 1
    BY <1>2, <1>4, <2>2
  <2>4. QED
    BY <1>6, <2>1, <2>2, <2>3
<1>7. CeilDiv(a, b) = c
  BY DEF CeilDiv, c, e
<1>8. QED
  BY <1>2, <1>3, <1>5, <1>6, <1>7

LEMMA Distributes ==
    ASSUME NEW a \in Int, NEW b \in Int, NEW c \in Int, NEW r \in Int
    PROVE  (c - a) * r = (b - a) * r + (c - b) * r /\ (c - a) * r \in Int /\ (b - a) * r \in Int /\ (c - b) * r \in Int
OBVIOUS

-----------------------------------------------------------------------------
(* The bucket *)

Wait == [until : Int, n : Sizes \cup {0}, under : Nat]
LimiterTypes ==
    /\ rate \in Nat /\ tokens \in Int /\ last \in Nat /\ now \in Nat /\ since \in Nat /\ changes \in Nat
    /\ grantedBytes \in Int /\ last <= now /\ since <= now
    /\ waits \in [Waiter -> Wait] /\ \A w \in Waiter : waits[w].under <= changes

\* Of those who wait, who will not have been granted under limit c by t.
Late(ws, c, t) == [w \in Waiter |-> IF ws[w].under # c \/ ws[w].until > t THEN ws[w] ELSE NotWaiting]
\* The tokens there would be at t.
Worth(t) == tokens + (t - last) * rate

\* What was granted, may be granted and is owed, and the h that callers of before a
\* SetLimit were granted beyond what they paid, was all earned; and at any time
\* the tokens, with h, cover those who owe.
Accounted(h) ==
    /\ Refilled + grantedBytes + OwedBy(waits) + h <= Burst + rate * (now - since)
    /\ \A t \in Nat : t >= now => Worth(t) + OwedBy(Late(waits, changes, t)) + h >= 0
    /\ changes = 0 => h = 0

\* Nobody waits under no limit, until one is set.
WaitsUnderOne == changes = 0 /\ (\E w \in Waiter : waits[w] # NotWaiting) => rate > 0 /\ Sizes # {}

LimiterIInv == LimiterTypes /\ (\E h \in Nat : Accounted(h)) /\ WaitsUnderOne /\ NobodyWaitsForMore

LEMMA LimiterConstants ==
    /\ Rates \subseteq Nat /\ Sizes \subseteq Nat /\ MinBurst \in Nat /\ MinBurst > 0
    /\ IsFiniteSet(Waiter) /\ IsFiniteSet(Sizes)
BY LimiterAssumption

LEMMA LateFacts ==
    ASSUME NEW ws \in [Waiter -> Wait], NEW c, NEW t
    PROVE  /\ Amount(ws) /\ Amount(Late(ws, c, t))
           /\ OwedBy(ws) \in Nat /\ OwedBy(Late(ws, c, t)) \in Nat
           /\ OwedBy(Late(ws, c, t)) <= OwedBy(ws)
<1>1. \A w \in Waiter : ws[w].n \in Nat
  <2> SUFFICES ASSUME NEW w \in Waiter PROVE ws[w].n \in Nat
    OBVIOUS
  <2>1. ws[w] \in Wait
    OBVIOUS
  <2>2. ws[w].n \in Sizes \cup {0}
    BY <2>1 DEF Wait
  <2>3. \A x \in Sizes \cup {0} : x \in Nat
    BY LimiterConstants
  <2>4. QED
    BY <2>2, <2>3, Zenon
<1>2. \A w \in Waiter : Late(ws, c, t)[w].n \in Nat /\ Late(ws, c, t)[w].n <= ws[w].n
  BY <1>1 DEF Late, NotWaiting
<1>3. Amount(ws) /\ Amount(Late(ws, c, t))
  BY <1>1, <1>2 DEF Amount
<1>4. QED
  BY <1>2, <1>3, LimiterConstants, OwedIsNat, OwedInPart

LEMMA BurstIs == ASSUME rate \in Nat PROVE Burst \in Nat /\ Burst > 0 /\ rate <= Burst
BY LimiterConstants DEF Burst

LEMMA RefilledIs ==
    ASSUME LimiterTypes
    PROVE  /\ Worth(now) \in Int /\ Refilled \in Int /\ Refilled <= Worth(now) /\ Refilled <= Burst
           /\ Refilled = Worth(now) \/ Refilled = Burst
<1>1. Burst \in Nat
  BY BurstIs DEF LimiterTypes
<1>2. (now - last) * rate \in Int
  BY DEF LimiterTypes
<1>3. Worth(now) \in Int
  BY <1>2 DEF LimiterTypes, Worth
<1>4. Refilled = AtMost(Worth(now), Burst)
  BY DEF Refilled, Worth
<1> QED
  BY <1>1, <1>3, <1>4 DEF AtMost

\* What the invariant is for.
LEMMA RateFollows ==
    ASSUME LimiterTypes, NEW h \in Nat, Accounted(h)
    PROVE  RateIsHeld
<1> DEFINE W == OwedBy(waits)  V == OwedBy(Late(waits, changes, now))
<1>1. W \in Nat /\ V \in Nat /\ V <= W
  BY LateFacts DEF LimiterTypes
<1>2. Worth(now) + V + h >= 0
  <2>1. now \in Nat /\ now >= now
    BY DEF LimiterTypes
  <2>2. QED
    BY <2>1 DEF Accounted
<1>3. Burst \in Nat
  BY BurstIs DEF LimiterTypes
<1>4. Refilled + W + h >= 0 /\ Refilled \in Int
  BY <1>1, <1>2, <1>3, RefilledIs
<1>5. rate * (now - since) \in Int /\ grantedBytes \in Int
  BY DEF LimiterTypes
<1>6. Refilled + grantedBytes + W + h <= Burst + rate * (now - since)
  BY DEF Accounted
<1> HIDE DEF W
<1>7. grantedBytes <= Burst + rate * (now - since)
  BY <1>1, <1>3, <1>4, <1>5, <1>6
<1>8. QED
  BY <1>7 DEF RateIsHeld

LEMMA LimiterStarts ==
    ASSUME LimiterInit
    PROVE  LimiterIInv
<1>1. /\ rate \in Nat /\ tokens = Burst /\ last = 0 /\ now = 0 /\ since = 0 /\ changes = 0 /\ grantedBytes = 0
      /\ waits = [w \in Waiter |-> NotWaiting]
  BY LimiterConstants DEF LimiterInit
<1>2. Burst \in Nat /\ Burst > 0
  BY <1>1, BurstIs
<1>3. NotWaiting \in Wait
  BY DEF NotWaiting, Wait
<1>4. LimiterTypes
  <2>1. waits \in [Waiter -> Wait] /\ \A w \in Waiter : waits[w].under = 0
    BY <1>1, <1>3 DEF NotWaiting
  <2>2. QED
    BY <1>1, <1>2, <2>1 DEF LimiterTypes
<1>5. OwedBy(waits) = 0
  <2>1. Amount(waits) /\ OwedBy(waits) \in Nat
    BY <1>4, LateFacts DEF LimiterTypes
  <2>2. \A w \in Waiter : waits[w].n <= 0
    BY <1>1 DEF NotWaiting
  <2>3. OwedBy(waits) <= 0 * Cardinality(Waiter)
    BY <2>1, <2>2, LimiterConstants, OwedAtMost
  <2>4. Cardinality(Waiter) \in Nat
    BY LimiterConstants, FS_CardinalityType
  <2>5. QED
    BY <2>1, <2>3, <2>4
<1>6. Refilled \in Int /\ Refilled <= Burst
  BY <1>4, RefilledIs
<1>7. ASSUME NEW t \in Nat, t >= now PROVE Worth(t) + OwedBy(Late(waits, changes, t)) + 0 >= 0
  <2>1. OwedBy(Late(waits, changes, t)) \in Nat
    BY <1>4, LateFacts DEF LimiterTypes
  <2>2. (t - last) * rate \in Nat
    BY <1>1
  <2>3. QED
    BY <1>1, <1>2, <2>1, <2>2 DEF Worth
<1>8. rate * (now - since) = 0
  BY <1>1
<1>9. Accounted(0)
  BY <1>1, <1>2, <1>5, <1>6, <1>7, <1>8 DEF Accounted
<1>10. NobodyWaitsForMore /\ WaitsUnderOne
  BY <1>1 DEF NobodyWaitsForMore, WaitsUnderOne
<1>11. QED
  BY <1>4, <1>9, <1>10 DEF LimiterIInv

\* Time passes: no more is earned than the bound grows by.
LEMMA TickAccounts ==
    ASSUME LimiterTypes, NEW h \in Nat, Accounted(h), Tick, LimiterTypes'
    PROVE  Accounted(h)'
<1>1. /\ now' = now + 1 /\ rate' = rate /\ tokens' = tokens /\ last' = last /\ waits' = waits /\ changes' = changes
      /\ since' = since /\ grantedBytes' = grantedBytes /\ Burst' = Burst
  BY DEF Tick, Burst
<1>2. /\ rate \in Nat /\ now \in Nat /\ last \in Nat /\ since \in Nat /\ tokens \in Int /\ grantedBytes \in Int
      /\ Burst \in Nat /\ OwedBy(waits) \in Nat
  BY BurstIs, LateFacts DEF LimiterTypes
<1>3. Refilled' <= Refilled + rate
  <2>1. Refilled' = AtMost(Worth(now) + rate, Burst)
    <3>1. (now + 1 - last) * rate = (now - last) * rate + rate /\ (now - last) * rate \in Int
      BY <1>2
    <3>2. Refilled' = AtMost(tokens + (now + 1 - last) * rate, Burst)
      <4>1. Refilled' = AtMost(tokens' + (now' - last') * rate', Burst')
        BY DEF Refilled, AtMost
      <4>2. now' - last' = now + 1 - last /\ rate' = rate /\ tokens' = tokens /\ Burst' = Burst
        BY <1>1, <1>2
      <4>3. (now' - last') * rate' = (now + 1 - last) * rate
        BY <4>2
      <4>4. QED
        BY <4>1, <4>2, <4>3
    <3>3. tokens + (now + 1 - last) * rate = Worth(now) + rate
      BY <1>2, <3>1 DEF Worth
    <3>4. QED
      BY <3>2, <3>3
  <2>2. Refilled = AtMost(Worth(now), Burst) /\ Worth(now) \in Int
    BY RefilledIs DEF Refilled, Worth
  <2>3. QED
    BY <1>2, <2>1, <2>2 DEF AtMost
<1>4. rate * (now + 1 - since) = rate * (now - since) + rate /\ rate * (now - since) \in Int
  BY <1>2
<1>5. Refilled' + grantedBytes' + OwedBy(waits') + h <= Burst' + rate' * (now' - since')
  <2>1. Refilled + grantedBytes + OwedBy(waits) + h <= Burst + rate * (now - since)
    BY DEF Accounted
  <2>2. Refilled \in Int /\ Refilled' \in Int
    <3>1. Refilled \in Int
      BY RefilledIs
    <3>2. Refilled' \in Int
      <4>1. (now' - last') * rate' \in Int /\ tokens' \in Int
        BY <1>1, <1>2
      <4>2. QED
        BY <1>1, <1>2, <4>1 DEF Refilled, AtMost
    <3>3. QED
      BY <3>1, <3>2
  <2>3. Refilled' + grantedBytes + OwedBy(waits) + h <= Burst + (rate * (now - since) + rate)
    BY <1>2, <1>3, <1>4, <2>1, <2>2
  <2>4. rate' * (now' - since') = rate * (now - since) + rate
    <3>1. rate' = rate /\ now' - since' = now + 1 - since
      BY <1>1, <1>2
    <3>2. rate' * (now' - since') = rate * (now + 1 - since)
      BY <3>1
    <3>3. QED
      BY <1>4, <3>2
  <2>5. OwedBy(waits') = OwedBy(waits) /\ grantedBytes' = grantedBytes /\ Burst' = Burst
    BY <1>1
  <2>6. QED
    BY <2>3, <2>4, <2>5
<1>6. ASSUME NEW t \in Nat, t >= now' PROVE Worth(t)' + OwedBy(Late(waits', changes', t)) + h >= 0
  <2>1. t >= now
    BY <1>1, <1>2, <1>6
  <2>2. Worth(t)' = Worth(t)
    BY <1>1 DEF Worth
  <2>3. Worth(t) + OwedBy(Late(waits, changes, t)) + h >= 0
    BY <2>1 DEF Accounted
  <2>4. QED
    BY <1>1, <2>2, <2>3
<1>7. changes' = 0 => h = 0
  BY <1>1 DEF Accounted
<1>8. QED
  BY <1>5, <1>6, <1>7 DEF Accounted

\* One caller's part changes, and the sums by as much.
LEMMA OneChanges ==
    ASSUME NEW ws \in [Waiter -> Wait], NEW vs \in [Waiter -> Wait], NEW w \in Waiter,
           \A x \in Waiter \ {w} : vs[x] = ws[x]
    PROVE  /\ OwedBy(vs) = OwedBy(ws) - ws[w].n + vs[w].n
           /\ OwedBy(ws) \in Nat /\ ws[w].n \in Nat /\ vs[w].n \in Nat
<1>1. Amount(ws) /\ Amount(vs) /\ OwedBy(ws) \in Nat
  BY LateFacts
<1>2. IsFiniteSet(Waiter)
  BY LimiterConstants
<1>3. OwedBy(vs) = OwedBy(ws) - ws[w].n + vs[w].n
  <2>1. \A x \in Waiter \ {w} : vs[x].n = ws[x].n
    OBVIOUS
  <2>2. QED
    BY <1>1, <1>2, <2>1, OwedAfter
<1>4. ws[w].n \in Nat /\ vs[w].n \in Nat
  BY <1>1 DEF Amount
<1>5. QED
  BY <1>1, <1>3, <1>4

LEMMA LateTyped ==
    ASSUME NEW ws \in [Waiter -> Wait], NEW c, NEW t
    PROVE  Late(ws, c, t) \in [Waiter -> Wait]
BY DEF Late, NotWaiting, Wait

\* One caller less: what it owed is out of the sums.
LEMMA OneLess ==
    ASSUME LimiterTypes, NEW w \in Waiter, NEW vs, vs = [waits EXCEPT ![w] = NotWaiting]
    PROVE  /\ vs \in [Waiter -> Wait] /\ OwedBy(vs) = OwedBy(waits) - waits[w].n
           /\ \A t : OwedBy(Late(vs, changes, t))
                     = OwedBy(Late(waits, changes, t)) - Late(waits, changes, t)[w].n
           /\ waits[w].n \in Nat
<1>1. waits \in [Waiter -> Wait] /\ NotWaiting \in Wait
  BY DEF NotWaiting, Wait, LimiterTypes
<1>2. vs \in [Waiter -> Wait] /\ vs[w] = NotWaiting /\ \A x \in Waiter \ {w} : vs[x] = waits[x]
  BY <1>1
<1>3. OwedBy(vs) = OwedBy(waits) - waits[w].n + vs[w].n /\ OwedBy(waits) \in Nat /\ waits[w].n \in Nat
  BY <1>1, <1>2, OneChanges, Zenon
<1>4. vs[w].n = 0
  BY <1>2 DEF NotWaiting
<1>5. OwedBy(vs) = OwedBy(waits) - waits[w].n
  BY <1>3, <1>4
<1>6. ASSUME NEW t PROVE OwedBy(Late(vs, changes, t)) = OwedBy(Late(waits, changes, t)) - Late(waits, changes, t)[w].n
  <2> DEFINE F == Late(waits, changes, t)  G == Late(vs, changes, t)
  <2>1. OwedBy(G) = OwedBy(F) - F[w].n + G[w].n /\ OwedBy(F) \in Nat /\ F[w].n \in Nat
    <3>1. F \in [Waiter -> Wait] /\ G \in [Waiter -> Wait]
      BY <1>1, <1>2, LateTyped
    <3>2. \A x \in Waiter \ {w} : G[x] = F[x]
      BY <1>2 DEF Late
    <3> HIDE DEF F, G
    <3>3. QED
      BY <3>1, <3>2, OneChanges
  <2>2. G[w].n = 0
    BY <1>2 DEF Late, NotWaiting
  <2> HIDE DEF F, G
  <2>3. OwedBy(G) = OwedBy(F) - F[w].n
    BY <2>1, <2>2
  <2>4. QED
    BY <2>3 DEF F, G
<1>7. QED
  BY <1>2, <1>3, <1>5, <1>6

\* A timer fires: what was owed is granted, or was owed under a limit of before.
LEMMA GrantedAccounts ==
    ASSUME LimiterTypes, NEW h \in Nat, Accounted(h), NEW w \in Waiter, Granted(w)
    PROVE  \E k \in Nat : Accounted(k)'
<1>1. /\ now' = now /\ rate' = rate /\ tokens' = tokens /\ last' = last /\ changes' = changes
      /\ since' = since /\ Burst' = Burst /\ Refilled' = Refilled
      /\ waits' = [waits EXCEPT ![w] = NotWaiting] /\ now >= waits[w].until
      /\ grantedBytes' = IF waits[w].under = changes THEN grantedBytes + waits[w].n ELSE grantedBytes
  BY DEF Granted, Burst, Refilled, Fired, AtMost
<1>2. /\ OwedBy(waits') = OwedBy(waits) - waits[w].n
      /\ \A t : OwedBy(Late(waits', changes, t))
                = OwedBy(Late(waits, changes, t)) - Late(waits, changes, t)[w].n
      /\ waits[w].n \in Nat /\ waits' \in [Waiter -> Wait]
  BY <1>1, OneLess
<1>3. /\ rate * (now - since) \in Int /\ grantedBytes \in Int /\ Burst \in Nat /\ Refilled \in Int
      /\ OwedBy(waits) \in Nat /\ now \in Nat
  BY BurstIs, RefilledIs, LateFacts DEF LimiterTypes
<1>4. Refilled + grantedBytes + OwedBy(waits) + h <= Burst + rate * (now - since)
  BY DEF Accounted
<1>5. \A t \in Nat : t >= now => /\ Worth(t)' = Worth(t) /\ Worth(t) \in Int
                                 /\ Worth(t) + OwedBy(Late(waits, changes, t)) + h >= 0
  <2> SUFFICES ASSUME NEW t \in Nat, t >= now
               PROVE /\ Worth(t)' = Worth(t) /\ Worth(t) \in Int
                     /\ Worth(t) + OwedBy(Late(waits, changes, t)) + h >= 0
    OBVIOUS
  <2>1. (t - last) * rate \in Int /\ tokens \in Int
    BY DEF LimiterTypes
  <2>2. QED
    BY <1>1, <2>1 DEF Worth, Accounted
<1>6. CASE waits[w].under = changes
  <2>1. Refilled' + grantedBytes' + OwedBy(waits') + h <= Burst' + rate' * (now' - since')
    <3>1. grantedBytes' = grantedBytes + waits[w].n
      BY <1>1, <1>6
    <3>2. Refilled + (grantedBytes + waits[w].n) + (OwedBy(waits) - waits[w].n) + h <= Burst + rate * (now - since)
      BY <1>2, <1>3, <1>4
    <3>3. QED
      BY <1>1, <1>2, <3>1, <3>2
  <2>2. ASSUME NEW t \in Nat, t >= now' PROVE Worth(t)' + OwedBy(Late(waits', changes', t)) + h >= 0
    <3>1. Late(waits, changes, t)[w] = NotWaiting
      <4>1. waits[w].until \in Int
        BY DEF LimiterTypes, Wait
      <4>2. ~(waits[w].until > t)
        BY <1>1, <1>3, <2>2, <4>1
      <4>3. QED
        BY <1>6, <4>2 DEF Late
    <3>2. Late(waits, changes, t)[w].n = 0
      BY <3>1 DEF NotWaiting
    <3>3. OwedBy(Late(waits', changes, t)) = OwedBy(Late(waits, changes, t)) - 0
      BY <1>2, <3>2
    <3>4. OwedBy(Late(waits, changes, t)) \in Nat
      BY LateFacts DEF LimiterTypes
    <3>5. Late(waits', changes', t) = Late(waits', changes, t)
      BY <1>1
    <3>6. QED
      BY <1>1, <1>5, <2>2, <3>3, <3>4, <3>5
  <2>3. changes' = 0 => h = 0
    BY <1>1 DEF Accounted
  <2>4. Accounted(h)'
    BY <2>1, <2>2, <2>3 DEF Accounted
  <2>5. QED
    BY <2>4
<1>7. CASE waits[w].under # changes
  <2>1. PICK k \in Nat : k = h + waits[w].n
    BY <1>2
  <2>2. Refilled' + grantedBytes' + OwedBy(waits') + k <= Burst' + rate' * (now' - since')
    <3>1. grantedBytes' = grantedBytes
      BY <1>1, <1>7
    <3>2. Refilled + grantedBytes + (OwedBy(waits) - waits[w].n) + (h + waits[w].n) <= Burst + rate * (now - since)
      BY <1>2, <1>3, <1>4
    <3>3. QED
      BY <1>1, <1>2, <2>1, <3>1, <3>2
  <2>3. ASSUME NEW t \in Nat, t >= now' PROVE Worth(t)' + OwedBy(Late(waits', changes', t)) + k >= 0
    <3>1. Late(waits, changes, t)[w] = waits[w]
      BY <1>7 DEF Late
    <3>2. OwedBy(Late(waits', changes', t)) = OwedBy(Late(waits, changes, t)) - waits[w].n
      BY <1>1, <1>2, <3>1
    <3>3. OwedBy(Late(waits, changes, t)) \in Nat
      BY LateFacts DEF LimiterTypes
    <3>4. QED
      BY <1>1, <1>2, <1>5, <2>1, <2>3, <3>2, <3>3
  <2>4. changes' = 0 => k = 0
    <3>1. changes # 0
      <4>1. waits[w].under \in Nat /\ waits[w].under <= changes /\ changes \in Nat
        BY DEF LimiterTypes, Wait
      <4>2. QED
        BY <1>7, <4>1
    <3>2. QED
      BY <1>1, <3>1
  <2>5. Accounted(k)'
    BY <2>2, <2>3, <2>4 DEF Accounted
  <2>6. QED
    BY <2>5
<1>8. QED
  BY <1>6, <1>7

\* A caller that is gone has what it owes given back.
LEMMA RefundAccounts ==
    ASSUME LimiterTypes, NEW h \in Nat, Accounted(h), NEW w \in Waiter, Refund(w)
    PROVE  Accounted(h)'
<1>1. /\ now' = now /\ rate' = rate /\ tokens' = tokens + waits[w].n /\ last' = last /\ changes' = changes
      /\ since' = since /\ Burst' = Burst /\ waits' = [waits EXCEPT ![w] = NotWaiting] /\ grantedBytes' = grantedBytes
  BY DEF Refund, Burst
<1>2. /\ OwedBy(waits') = OwedBy(waits) - waits[w].n
      /\ \A t : OwedBy(Late(waits', changes, t))
                = OwedBy(Late(waits, changes, t)) - Late(waits, changes, t)[w].n
      /\ waits[w].n \in Nat
  BY <1>1, OneLess
<1>3. /\ rate * (now - since) \in Int /\ grantedBytes \in Int /\ Burst \in Nat /\ Refilled \in Int
      /\ OwedBy(waits) \in Nat /\ now \in Nat /\ tokens \in Int
  BY BurstIs, RefilledIs, LateFacts DEF LimiterTypes
<1>4. Refilled' \in Int /\ Refilled' <= Refilled + waits[w].n
  <2> DEFINE e == (now - last) * rate
  <2>1. e \in Int
    BY DEF LimiterTypes
  <2>2. Refilled = AtMost(tokens + e, Burst) /\ Refilled' = AtMost(tokens + waits[w].n + e, Burst)
    BY <1>1 DEF Refilled
  <2> HIDE DEF e
  <2>3. QED
    BY <1>2, <1>3, <2>1, <2>2 DEF AtMost
<1>5. Refilled' + grantedBytes' + OwedBy(waits') + h <= Burst' + rate' * (now' - since')
  <2>1. Refilled + grantedBytes + OwedBy(waits) + h <= Burst + rate * (now - since)
    BY DEF Accounted
  <2>2. Refilled' + grantedBytes + (OwedBy(waits) - waits[w].n) + h <= Burst + rate * (now - since)
    BY <1>2, <1>3, <1>4, <2>1
  <2>3. QED
    BY <1>1, <1>2, <2>2
<1>6. ASSUME NEW t \in Nat, t >= now' PROVE Worth(t)' + OwedBy(Late(waits', changes', t)) + h >= 0
  <2> DEFINE e == (t - last) * rate
  <2>1. e \in Int
    BY DEF LimiterTypes
  <2>2. Worth(t) = tokens + e /\ Worth(t)' = tokens + waits[w].n + e
    BY <1>1 DEF Worth
  <2> HIDE DEF e
  <2>3. Worth(t) + OwedBy(Late(waits, changes, t)) + h >= 0
    BY <1>1, <1>6 DEF Accounted
  <2>4. Late(waits, changes, t)[w].n \in Nat /\ Late(waits, changes, t)[w].n <= waits[w].n
    BY <1>2 DEF Late, NotWaiting
  <2>5. OwedBy(Late(waits, changes, t)) \in Nat
    BY LateFacts DEF LimiterTypes
  <2>6. OwedBy(Late(waits', changes', t)) = OwedBy(Late(waits, changes, t)) - Late(waits, changes, t)[w].n
    BY <1>1, <1>2
  <2>7. QED
    BY <1>2, <1>3, <2>1, <2>2, <2>3, <2>4, <2>5, <2>6
<1>7. changes' = 0 => h = 0
  BY <1>1 DEF Accounted
<1>8. QED
  BY <1>5, <1>6, <1>7 DEF Accounted

LEMMA AccountsStay ==
    ASSUME NEW h \in Nat, Accounted(h), UNCHANGED limiterVars
    PROVE  Accounted(h)'
<1>1. /\ rate' = rate /\ tokens' = tokens /\ last' = last /\ now' = now /\ waits' = waits /\ changes' = changes
      /\ since' = since /\ grantedBytes' = grantedBytes
  BY DEF limiterVars
<1>2. Burst' = Burst
  BY <1>1 DEF Burst
<1>3. Refilled' = Refilled
  BY <1>1, <1>2 DEF Refilled
<1>4. \A t : Worth(t)' = Worth(t)
  BY <1>1 DEF Worth
<1>5. QED
  BY <1>1, <1>2, <1>3, <1>4 DEF Accounted

\* A new limit: the sum is closed, and begins with a debt of all that is owed.  The h
\* is what the tokens do not cover.
LEMMA SetLimitAccounts ==
    ASSUME LimiterTypes, NEW r \in Nat, SetLimit(r), LimiterTypes'
    PROVE  \E k \in Nat : Accounted(k)'
<1> DEFINE W == OwedBy(waits)
<1>1. /\ rate' = r /\ last' = last /\ now' = now /\ waits' = waits /\ changes' = changes + 1
      /\ since' = now /\ grantedBytes' = 0 - W
  BY DEF SetLimit
<1>2. /\ W \in Nat /\ now \in Nat /\ last \in Nat /\ last <= now /\ tokens' \in Int /\ changes \in Nat
      /\ Burst' \in Nat
  <2>1. Burst' \in Nat
    BY <1>1, LimiterConstants DEF Burst
  <2>2. W \in Nat
    BY LateFacts DEF LimiterTypes
  <2>3. QED
    BY <2>1, <2>2 DEF LimiterTypes
<1> HIDE DEF W
<1>3. PICK u \in Int : u = tokens' + (now - last) * r
  <2>1. (now - last) * r \in Int
    BY <1>2
  <2>2. tokens' + (now - last) * r \in Int
    BY <1>2, <2>1
  <2>3. QED
    BY <2>2
<1>4. PICK k \in Nat : k = IF u + W >= 0 THEN 0 ELSE 0 - (u + W)
  <2>1. (IF u + W >= 0 THEN 0 ELSE 0 - (u + W)) \in Nat
    BY <1>2
  <2>2. QED
    BY <2>1
<1>5. u + W + k >= 0 /\ (k = 0 \/ u + W + k = 0)
  BY <1>2, <1>4
<1>6. Refilled' + (0 - W) + W + k <= Burst'
  <2>1. Refilled' = AtMost(u, Burst')
    <3>1. Refilled' = AtMost(tokens' + (now' - last') * rate', Burst')
      BY DEF Refilled, AtMost
    <3>2. now' - last' = now - last /\ rate' = r
      BY <1>1, <1>2
    <3>3. QED
      <4>1. (now' - last') * rate' = (now - last) * r
        BY <3>2
      <4>2. QED
        BY <1>3, <3>1, <4>1
  <2>2. PICK z \in Int : z = Refilled' /\ z <= Burst' /\ z <= u /\ (z = u \/ z = Burst')
    <3>1. AtMost(u, Burst') \in Int /\ AtMost(u, Burst') <= Burst' /\ AtMost(u, Burst') <= u
          /\ (AtMost(u, Burst') = u \/ AtMost(u, Burst') = Burst')
      BY <1>2 DEF AtMost
    <3>2. QED
      BY <2>1, <3>1
  <2>3. z + (0 - W) + W + k <= Burst'
    <3>1. z <= Burst' /\ z <= u
      BY <2>2
    <3>2. CASE k = 0
      BY <1>2, <3>1, <3>2
    <3>3. CASE u + W + k = 0
      BY <1>2, <3>1, <3>3
    <3>4. QED
      BY <1>5, <3>2, <3>3
  <2>4. QED
    BY <2>2, <2>3
<1>7. ASSUME NEW t \in Nat, t >= now' PROVE Worth(t)' + OwedBy(Late(waits', changes', t)) + k >= 0
  <2>1. Late(waits', changes', t) = waits
    <3>1. ASSUME NEW w \in Waiter PROVE waits[w].under # changes + 1
      <4>1. waits[w].under \in Nat /\ waits[w].under <= changes
        BY DEF LimiterTypes, Wait
      <4>2. QED
        BY <1>2, <4>1
    <3>2. Late(waits, changes + 1, t) = [w \in Waiter |-> waits[w]]
      BY <3>1 DEF Late
    <3>3. waits = [w \in Waiter |-> waits[w]]
      BY DEF LimiterTypes
    <3>4. QED
      BY <1>1, <3>2, <3>3
  <2>2. OwedBy(Late(waits', changes', t)) = W
    BY <2>1 DEF W
  <2>3. (t - now) * r \in Nat
    <3>1. t - now \in Nat
      BY <1>1, <1>2, <1>7
    <3>2. QED
      BY <3>1
  <2>4. Worth(t)' = u + (t - now) * r
    <3>1. Worth(t)' = tokens' + (t - last') * rate'
      BY DEF Worth
    <3>2. t - last' = t - last /\ rate' = r
      BY <1>1, <1>2
    <3>3. Worth(t)' = tokens' + (t - last) * r
      BY <3>1, <3>2
    <3>4. (t - last) * r = (now - last) * r + (t - now) * r /\ (now - last) * r \in Int
      BY <1>2, Distributes
    <3>5. QED
      BY <1>2, <1>3, <2>3, <3>3, <3>4
  <2>5. (u + (t - now) * r) + W + k >= 0
    BY <1>2, <1>5, <2>3
  <2>6. QED
    BY <2>2, <2>4, <2>5
<1>8. Refilled' + grantedBytes' + OwedBy(waits') + k <= Burst' + rate' * (now' - since')
  <2>1. now' - since' = 0 /\ rate' * 0 = 0
    BY <1>1, <1>2
  <2>2. OwedBy(waits') = W /\ grantedBytes' = 0 - W
    BY <1>1 DEF W
  <2>3. Burst' + rate' * (now' - since') = Burst'
    BY <1>2, <2>1
  <2>4. QED
    BY <1>6, <2>2, <2>3
<1>9. changes' # 0
  BY <1>1, <1>2
<1>10. Accounted(k)'
  BY <1>7, <1>8, <1>9 DEF Accounted
<1>11. QED
  BY <1>10

\* One caller more.
LEMMA OneMore ==
    ASSUME LimiterTypes, NEW w \in Waiter, waits[w] = NotWaiting,
           NEW vs \in [Waiter -> Wait], \A x \in Waiter \ {w} : vs[x] = waits[x]
    PROVE  /\ OwedBy(vs) = OwedBy(waits) + vs[w].n
           /\ \A t : OwedBy(Late(vs, changes, t)) = OwedBy(Late(waits, changes, t)) + Late(vs, changes, t)[w].n
<1>1. waits \in [Waiter -> Wait]
  BY DEF LimiterTypes
<1>2. vs \in [Waiter -> Wait] /\ \A x \in Waiter \ {w} : vs[x] = waits[x]
  OBVIOUS
<1>3. OwedBy(vs) = OwedBy(waits) - waits[w].n + vs[w].n /\ OwedBy(waits) \in Nat /\ vs[w].n \in Nat
  BY <1>1, <1>2, OneChanges, Zenon
<1>4. waits[w].n = 0
  BY DEF NotWaiting
<1>5. PICK a \in Nat : a = OwedBy(waits)
  BY <1>3
<1>6. PICK b \in Nat : b = vs[w].n
  BY <1>3
<1>7. OwedBy(vs) = a - 0 + b
  BY <1>3, <1>4, <1>5, <1>6, Zenon
<1>8. a - 0 + b = a + b
  OBVIOUS
<1>9. OwedBy(vs) = OwedBy(waits) + vs[w].n
  BY <1>2, <1>5, <1>6, <1>7, <1>8, Zenon
<1>10. ASSUME NEW t PROVE OwedBy(Late(vs, changes, t)) = OwedBy(Late(waits, changes, t)) + Late(vs, changes, t)[w].n
  <2> DEFINE F == Late(waits, changes, t)  G == Late(vs, changes, t)
  <2>1. OwedBy(G) = OwedBy(F) - F[w].n + G[w].n /\ OwedBy(F) \in Nat /\ G[w].n \in Nat
    <3>1. F \in [Waiter -> Wait] /\ G \in [Waiter -> Wait]
      BY <1>1, <1>2, LateTyped
    <3>2. \A x \in Waiter \ {w} : G[x] = F[x]
      BY <1>2 DEF Late
    <3> HIDE DEF F, G
    <3>3. QED
      BY <3>1, <3>2, OneChanges
  <2>2. F[w].n = 0
    BY DEF Late, NotWaiting
  <2> HIDE DEF F, G
  <2>3. OwedBy(G) = OwedBy(F) + G[w].n
    BY <2>1, <2>2
  <2>4. QED
    BY <2>3 DEF F, G
<1>11. QED
  BY <1>2, <1>9, <1>10

\* What is asked for is debited; who has to wait waits until the debt is earned.
LEMMA ReserveAccounts ==
    ASSUME LimiterTypes, NEW h \in Nat, Accounted(h), NEW w \in Waiter, NEW n \in Sizes, Reserve(w, n)
    PROVE  Accounted(h)'
<1>1. CASE rate = 0
  BY <1>1, AccountsStay DEF Reserve, limiterVars
<1>2. CASE rate # 0
  <2> DEFINE left == Refilled - n  W == OwedBy(waits)
  <2>1. /\ waits[w] = NotWaiting /\ rate' = rate /\ now' = now /\ changes' = changes /\ since' = since
        /\ tokens' = left /\ last' = now /\ Burst' = Burst
    BY <1>2 DEF Reserve, Burst
  <2>2. /\ rate \in Nat \ {0} /\ now \in Nat /\ n \in Nat /\ W \in Nat /\ Refilled \in Int /\ Burst \in Nat
        /\ grantedBytes \in Int /\ since \in Nat /\ Refilled <= Burst /\ last \in Nat /\ last <= now
    BY <1>2, LimiterConstants, RefilledIs, BurstIs, LateFacts DEF LimiterTypes
  <2>3. left \in Int /\ left <= Burst
    BY <2>2
  <2>4. Refilled' = left
    <3>1. Refilled' = AtMost(tokens' + (now' - last') * rate', Burst')
      BY DEF Refilled, AtMost
    <3>2. (now' - last') * rate' = 0
      <4>1. now' - last' = 0 /\ rate' = rate
        BY <2>1, <2>2
      <4>2. QED
        BY <2>2, <4>1
    <3>3. tokens' + (now' - last') * rate' = left
      BY <2>1, <2>3, <3>2
    <3>4. Refilled' = AtMost(left, Burst)
      BY <2>1, <3>1, <3>3
    <3>5. QED
      BY <2>2, <2>3, <3>4 DEF AtMost
  <2>5. Refilled + grantedBytes + W + h <= Burst + rate * (now - since) /\ rate * (now - since) \in Int
    BY <2>2 DEF Accounted
  <2>6. rate' * (now' - since') = rate * (now - since)
    BY <2>1
  <2>7. ASSUME NEW t \in Nat, t >= now
        PROVE  /\ Worth(t)' = left + (t - now) * rate /\ (t - now) * rate \in Nat
               /\ Worth(t) = Worth(now) + (t - now) * rate
    <3>1. t - now \in Nat
      BY <2>2, <2>7
    <3>2. (t - now) * rate \in Nat
      BY <2>2, <3>1
    <3>3. Worth(t)' = left + (t - now) * rate
      <4>1. Worth(t)' = tokens' + (t - last') * rate'
        BY DEF Worth
      <4>2. t - last' = t - now /\ rate' = rate /\ tokens' = left
        BY <2>1
      <4>3. QED
        BY <4>1, <4>2
    <3>4. (t - last) * rate = (now - last) * rate + (t - now) * rate /\ (now - last) * rate \in Int
      BY <2>2, Distributes
    <3>5. tokens \in Int
      BY DEF LimiterTypes
    <3>6. Worth(t) = Worth(now) + (t - now) * rate
      BY <3>2, <3>4, <3>5 DEF Worth
    <3>7. QED
      BY <3>2, <3>3, <3>6
  <2>8. changes' = 0 => h = 0
    BY <2>1 DEF Accounted
  <2>9. CASE left >= 0
    <3>1. waits' = waits /\ grantedBytes' = grantedBytes + n
      BY <1>2, <2>9 DEF Reserve
    <3>2. Refilled' + grantedBytes' + OwedBy(waits') + h <= Burst' + rate' * (now' - since')
      <4>1. (Refilled - n) + (grantedBytes + n) + W + h <= Burst + rate * (now - since)
        BY <2>2, <2>5
      <4>2. OwedBy(waits') = W
        BY <3>1
      <4>3. QED
        BY <2>1, <2>4, <2>6, <3>1, <4>1, <4>2
    <3>3. ASSUME NEW t \in Nat, t >= now' PROVE Worth(t)' + OwedBy(Late(waits', changes', t)) + h >= 0
      <4>1. OwedBy(Late(waits, changes, t)) \in Nat
        BY LateFacts DEF LimiterTypes
      <4>2. OwedBy(Late(waits', changes', t)) = OwedBy(Late(waits, changes, t))
        BY <2>1, <3>1
      <4>3. Worth(t)' = left + (t - now) * rate /\ (t - now) * rate \in Nat
        BY <2>1, <2>7, <3>3
      <4> HIDE DEF left
      <4>4. QED
        BY <2>3, <2>9, <4>1, <4>2, <4>3
    <3>4. QED
      BY <2>8, <3>2, <3>3 DEF Accounted
  <2>10. CASE left < 0
    <3> DEFINE c == CeilDiv(-left, rate)
               d == [until |-> now + c, n |-> n, under |-> changes]
    <3>1. waits' = [waits EXCEPT ![w] = d] /\ grantedBytes' = grantedBytes
      BY <1>2, <2>3, <2>10 DEF Reserve
    <3>2. c \in Nat /\ -left <= c * rate
      BY <2>2, <2>3, <2>10, CeilDivIs
    <3>3. d \in Wait /\ d.n = n /\ d.until = now + c /\ d.under = changes
      BY <2>2, <3>2 DEF Wait, LimiterTypes
    <3> HIDE DEF c, d
    <3>8. /\ waits' \in [Waiter -> Wait] /\ OwedBy(waits') = OwedBy(waits) + d.n /\ waits'[w] = d
          /\ \A t : OwedBy(Late(waits', changes, t)) = OwedBy(Late(waits, changes, t)) + Late(waits', changes, t)[w].n
      <4>1. waits[w] = NotWaiting /\ d \in Wait /\ waits' = [waits EXCEPT ![w] = d]
        BY <2>1, <3>1, <3>3
      <4>2. waits \in [Waiter -> Wait]
        BY DEF LimiterTypes
      <4>3. waits' \in [Waiter -> Wait] /\ waits'[w] = d /\ \A x \in Waiter \ {w} : waits'[x] = waits[x]
        BY <4>1, <4>2
      <4>4. /\ OwedBy(waits') = OwedBy(waits) + waits'[w].n
            /\ \A t : OwedBy(Late(waits', changes, t)) = OwedBy(Late(waits, changes, t)) + Late(waits', changes, t)[w].n
        BY <4>1, <4>3, OneMore
      <4>5. QED
        BY <4>3, <4>4
    <3>4. /\ OwedBy(waits') = W + n /\ waits'[w] = d
          /\ \A t : OwedBy(Late(waits', changes, t)) = OwedBy(Late(waits, changes, t)) + Late(waits', changes, t)[w].n
      BY <3>3, <3>8
    <3>5. Refilled' + grantedBytes' + OwedBy(waits') + h <= Burst' + rate' * (now' - since')
      <4>1. (Refilled - n) + grantedBytes + (W + n) + h <= Burst + rate * (now - since)
        BY <2>2, <2>5
      <4>2. QED
        BY <2>1, <2>4, <2>6, <3>1, <3>4, <4>1
    <3>6. ASSUME NEW t \in Nat, t >= now' PROVE Worth(t)' + OwedBy(Late(waits', changes', t)) + h >= 0
      <4> DEFINE V == OwedBy(Late(waits, changes, t))  L == Late(waits', changes, t)[w].n
      <4>1. V \in Nat
        BY LateFacts DEF LimiterTypes
      <4>2. t >= now /\ Late(waits', changes', t) = Late(waits', changes, t)
        BY <2>1, <3>6
      <4>3. OwedBy(Late(waits', changes', t)) = V + L
        BY <3>4, <4>2
      <4>4. L = IF now + c > t THEN n ELSE 0
        BY <3>3, <3>4 DEF Late, NotWaiting
      <4>5. Worth(t)' = left + (t - now) * rate /\ (t - now) * rate \in Nat /\ Worth(t) = Worth(now) + (t - now) * rate
        BY <2>7, <4>2
      <4>6. Worth(t) + V + h >= 0
        BY <4>2 DEF Accounted
      <4>7. Worth(now) \in Int /\ (Refilled = Worth(now) \/ Refilled = Burst)
        BY RefilledIs
      <4> HIDE DEF V, L
      <4>8. CASE now + c > t
        <5>1. Worth(t)' + (V + n) + h = Refilled + (t - now) * rate + V + h
          BY <2>2, <4>1, <4>5
        <5>2. Refilled + (t - now) * rate + V + h >= 0
          BY <2>2, <4>1, <4>5, <4>6, <4>7
        <5>3. QED
          BY <4>3, <4>4, <4>8, <5>1, <5>2
      <4>9. CASE now + c <= t
        <5>1. c <= t - now /\ t - now \in Nat
          BY <2>2, <3>2, <4>2, <4>9
        <5>2. c * rate <= (t - now) * rate /\ c * rate \in Nat
          BY <2>2, <3>2, <5>1, TimesKeepsOrder
        <5> HIDE DEF left
        <5>3. left + (t - now) * rate >= 0
          BY <2>3, <3>2, <4>5, <5>2
        <5>4. L = 0
          BY <2>2, <3>2, <4>4, <4>9
        <5>5. QED
          BY <4>1, <4>3, <4>5, <5>3, <5>4, <2>3
      <4>10. QED
        BY <2>2, <3>2, <4>8, <4>9
    <3>7. QED
      BY <2>8, <3>5, <3>6 DEF Accounted
  <2>11. QED
    BY <2>3, <2>9, <2>10
<1>3. QED
  BY <1>1, <1>2

LEMMA LimiterTypesKept ==
    ASSUME LimiterTypes, LimiterNext
    PROVE  LimiterTypes'
<1> USE DEF LimiterTypes
<1>0. NotWaiting \in Wait /\ NotWaiting.under = 0
  BY DEF NotWaiting, Wait
<1>1. CASE Tick
  BY <1>1 DEF Tick
<1>2. ASSUME NEW r \in Rates, SetLimit(r) PROVE LimiterTypes'
  <2>1. r \in Nat /\ MinBurst \in Nat
    BY LimiterConstants
  <2>2. OwedBy(waits) \in Nat
    BY LateFacts
  <2>3. /\ rate' = r /\ last' = last /\ now' = now /\ waits' = waits /\ changes' = changes + 1
        /\ since' = now /\ grantedBytes' = 0 - OwedBy(waits)
        /\ tokens' = AtMost(tokens, IF r < MinBurst THEN MinBurst ELSE r)
    BY <1>2 DEF SetLimit
  <2>4. tokens' \in Int
    BY <2>1, <2>3 DEF AtMost
  <2>5. grantedBytes' \in Int
    BY <2>2, <2>3
  <2>6. \A w \in Waiter : waits'[w].under <= changes'
    <3> SUFFICES ASSUME NEW w \in Waiter PROVE waits[w].under <= changes + 1
      BY <2>3
    <3>1. waits[w].under \in Nat /\ waits[w].under <= changes
      BY DEF Wait
    <3>2. QED
      BY <3>1
  <2>7. QED
    BY <2>1, <2>3, <2>4, <2>5, <2>6
<1>3. ASSUME NEW w \in Waiter, Granted(w) PROVE LimiterTypes'
  <2>1. /\ now' = now /\ rate' = rate /\ tokens' = tokens /\ last' = last /\ changes' = changes
        /\ since' = since /\ waits' = [waits EXCEPT ![w] = NotWaiting]
        /\ grantedBytes' = IF waits[w].under = changes THEN grantedBytes + waits[w].n ELSE grantedBytes
    BY <1>3 DEF Granted
  <2>2. waits[w].n \in Nat
    BY OneLess
  <2>3. grantedBytes' \in Int
    BY <2>1, <2>2
  <2>4. waits' \in [Waiter -> Wait] /\ \A x \in Waiter : waits'[x].under <= changes
    BY <1>0, <2>1
  <2>5. QED
    BY <2>1, <2>3, <2>4
<1>4. ASSUME NEW w \in Waiter, Refund(w) PROVE LimiterTypes'
  <2>1. /\ now' = now /\ rate' = rate /\ tokens' = tokens + waits[w].n /\ last' = last /\ changes' = changes
        /\ since' = since /\ waits' = [waits EXCEPT ![w] = NotWaiting] /\ grantedBytes' = grantedBytes
    BY <1>4 DEF Refund
  <2>2. waits[w].n \in Nat
    BY OneLess
  <2>3. tokens' \in Int
    BY <2>1, <2>2
  <2>4. waits' \in [Waiter -> Wait] /\ \A x \in Waiter : waits'[x].under <= changes
    BY <1>0, <2>1
  <2>5. QED
    BY <2>1, <2>3, <2>4
<1>5. ASSUME NEW w \in Waiter, NEW n \in Sizes, Reserve(w, n) PROVE LimiterTypes'
  <2>1. now' = now /\ rate' = rate /\ changes' = changes /\ since' = since
    BY <1>5 DEF Reserve
  <2>2. n \in Nat /\ Refilled \in Int /\ rate \in Nat
    BY LimiterConstants, RefilledIs
  <2>3. CASE rate = 0
    BY <1>5, <2>1, <2>3 DEF Reserve
  <2>4. CASE rate # 0
    <3> DEFINE left == Refilled - n
    <3>1. left \in Int /\ tokens' = left /\ last' = now
      BY <1>5, <2>2, <2>4 DEF Reserve
    <3>2. CASE left >= 0
      <4>1. waits' = waits /\ grantedBytes' = grantedBytes + n
        BY <1>5, <2>4, <3>2 DEF Reserve
      <4> HIDE DEF left
      <4>2. grantedBytes' \in Int
        BY <2>2, <4>1
      <4>3. QED
        BY <2>1, <3>1, <4>1, <4>2
    <3>3. CASE left < 0
      <4> DEFINE c == CeilDiv(-left, rate)
                 d == [until |-> now + c, n |-> n, under |-> changes]
      <4>1. waits' = [waits EXCEPT ![w] = d] /\ grantedBytes' = grantedBytes
        BY <1>5, <2>4, <3>1, <3>3 DEF Reserve
      <4>2. c \in Nat
        BY <2>2, <2>4, <3>1, <3>3, CeilDivIs
      <4>3. d \in Wait /\ d.under = changes
        BY <4>2 DEF Wait
      <4> HIDE DEF c, d
      <4>4. waits' \in [Waiter -> Wait] /\ \A x \in Waiter : waits'[x].under <= changes
        BY <4>1, <4>3
      <4> HIDE DEF left
      <4>5. QED
        BY <2>1, <3>1, <4>1, <4>4
    <3>4. QED
      BY <3>1, <3>2, <3>3
  <2>5. QED
    BY <2>3, <2>4
<1>6. QED
  BY <1>1, <1>2, <1>3, <1>4, <1>5 DEF LimiterNext

LEMMA LimiterAccountsKept ==
    ASSUME LimiterTypes, LimiterTypes', NEW h \in Nat, Accounted(h), LimiterNext
    PROVE  \E k \in Nat : Accounted(k)'
<1>1. CASE Tick
  <2>1. Accounted(h)'
    BY <1>1, TickAccounts
  <2>2. QED
    BY <2>1
<1>2. ASSUME NEW r \in Rates, SetLimit(r) PROVE \E k \in Nat : Accounted(k)'
  <2>1. r \in Nat
    BY LimiterConstants
  <2>2. QED
    BY <1>2, <2>1, SetLimitAccounts
<1>3. ASSUME NEW w \in Waiter, Granted(w) PROVE \E k \in Nat : Accounted(k)'
  BY <1>3, GrantedAccounts
<1>4. ASSUME NEW w \in Waiter, Refund(w) PROVE \E k \in Nat : Accounted(k)'
  <2>1. Accounted(h)'
    BY <1>4, RefundAccounts
  <2>2. QED
    BY <2>1
<1>5. ASSUME NEW w \in Waiter, NEW n \in Sizes, Reserve(w, n) PROVE \E k \in Nat : Accounted(k)'
  <2>1. Accounted(h)'
    BY <1>5, ReserveAccounts
  <2>2. QED
    BY <2>1
<1>6. QED
  BY <1>1, <1>2, <1>3, <1>4, <1>5 DEF LimiterNext

\* Under the first limit, whoever waits waits for what all of them may owe.
LEMMA WaitIsBounded ==
    ASSUME LimiterTypes, LimiterTypes', Accounted(0), NEW w \in Waiter, NEW n \in Sizes, Reserve(w, n),
           rate # 0, Refilled - n < 0
    PROVE  CeilDiv(-(Refilled - n), rate) <= CeilDiv(Max(Sizes) * Cardinality(Waiter), rate)
<1> DEFINE left == Refilled - n  W == OwedBy(waits)  m == Max(Sizes)  all == m * Cardinality(Waiter)
           d == [until |-> now + CeilDiv(-left, rate), n |-> n, under |-> changes]
<1>1. rate \in Nat \ {0} /\ n \in Nat /\ Refilled \in Int /\ W \in Nat /\ Cardinality(Waiter) \in Nat
  BY LimiterConstants, RefilledIs, LateFacts, FS_CardinalityType DEF LimiterTypes
<1>2. m \in Nat /\ \A y \in Sizes : y <= m
  <2>1. Sizes \subseteq Nat /\ IsFiniteSet(Sizes) /\ Sizes # {}
    BY LimiterConstants
  <2>2. QED
    BY <2>1, MaxIs
<1>3. left \in Int /\ -left \in Nat /\ left < 0
  BY <1>1
<1>4. waits' = [waits EXCEPT ![w] = d] /\ waits[w] = NotWaiting
  BY <1>3 DEF Reserve
<1>5. d.n = n
  OBVIOUS
<1> HIDE DEF d, m
<1>6. waits \in [Waiter -> Wait] /\ waits' \in [Waiter -> Wait]
  BY DEF LimiterTypes
<1>7. waits'[w] = d /\ \A x \in Waiter \ {w} : waits'[x] = waits[x]
  BY <1>4, <1>6
<1>8. OwedBy(waits') = W + n
  <2>1. OwedBy(waits') = OwedBy(waits) + waits'[w].n
    BY <1>4, <1>6, <1>7, OneMore
  <2>2. QED
    BY <1>5, <1>7, <2>1
<1>9. OwedBy(waits') <= all
  <2>1. Amount(waits')
    BY <1>6, LateFacts
  <2>2. ASSUME NEW x \in Waiter PROVE waits'[x].n <= m
    <3>1. waits'[x] \in Wait
      BY <1>6
    <3>2. waits'[x].n \in Sizes \cup {0}
      BY <3>1 DEF Wait
    <3>3. \A y \in Sizes \cup {0} : y <= m
      BY <1>2
    <3>4. QED
      BY <3>2, <3>3, Zenon
  <2>3. IsFiniteSet(Waiter)
    BY LimiterConstants
  <2>4. QED
    BY <1>2, <2>1, <2>2, <2>3, OwedAtMost
<1>10. Refilled >= -W
  <2> DEFINE V == OwedBy(Late(waits, changes, now))
  <2>1. V \in Nat /\ V <= W
    BY <1>6, LateFacts
  <2>2. now \in Nat /\ now >= now
    BY DEF LimiterTypes
  <2>3. Worth(now) + V + 0 >= 0
    BY <2>2 DEF Accounted
  <2>4. Worth(now) \in Int /\ (Refilled = Worth(now) \/ Refilled = Burst) /\ Burst \in Nat
    BY RefilledIs, BurstIs DEF LimiterTypes
  <2> HIDE DEF V, W
  <2>5. QED
    BY <1>1, <2>1, <2>3, <2>4
<1>11. all \in Nat
  BY <1>1, <1>2
<1>12. -left <= all
  <2> HIDE DEF W, all
  <2>1. n - Refilled <= all
    BY <1>1, <1>8, <1>9, <1>10, <1>11
  <2>2. QED
    BY <1>1, <2>1
<1> HIDE DEF left, all
<1>13. PICK q \in Nat : q = CeilDiv(all, rate)
  BY <1>1, <1>11, CeilDivIs
<1>14. all <= q * rate /\ q * rate \in Nat
  <2>1. all <= CeilDiv(all, rate) * rate
    BY <1>1, <1>11, CeilDivIs
  <2>2. QED
    BY <1>1, <1>13, <2>1
<1>15. -left <= q * rate
  BY <1>3, <1>11, <1>12, <1>14
<1>16. CeilDiv(-left, rate) <= q
  BY <1>1, <1>3, <1>15, CeilDivIs
<1>17. QED
  BY <1>13, <1>16 DEF left, all, m

LEMMA WaitsKept ==
    ASSUME LimiterIInv, LimiterNext, LimiterTypes'
    PROVE  WaitsUnderOne' /\ NobodyWaitsForMore'
<1> DEFINE Bound == CeilDiv(Max(Sizes) * Cardinality(Waiter), rate)
<1>0. LimiterTypes /\ WaitsUnderOne /\ NobodyWaitsForMore
  BY DEF LimiterIInv
<1>1. CASE Tick
  <2>1. now' = now + 1 /\ rate' = rate /\ waits' = waits /\ changes' = changes
    BY <1>1 DEF Tick
  <2>2. WaitsUnderOne'
    BY <1>0, <2>1 DEF WaitsUnderOne
  <2>3. ASSUME NEW w \in Waiter, waits[w] # NotWaiting, changes = 0 PROVE waits[w].until - (now + 1) <= Bound
    <3>1. waits[w].until - now <= Bound
      BY <1>0, <2>3 DEF NobodyWaitsForMore
    <3>2. waits[w].until \in Int /\ now \in Nat
      BY <1>0 DEF LimiterTypes, Wait
    <3>3. Bound \in Nat
      <4>1. rate > 0 /\ rate \in Nat /\ Sizes # {}
        BY <1>0, <2>3 DEF WaitsUnderOne, LimiterTypes
      <4>2. Max(Sizes) \in Nat /\ Cardinality(Waiter) \in Nat
        <5>1. Sizes \subseteq Nat /\ IsFiniteSet(Sizes) /\ IsFiniteSet(Waiter)
          BY LimiterConstants
        <5>2. Max(Sizes) \in Sizes
          BY <4>1, <5>1, MaxIs
        <5>3. QED
          BY <5>1, <5>2, FS_CardinalityType
      <4>3. Max(Sizes) * Cardinality(Waiter) \in Nat
        BY <4>2
      <4>4. QED
        BY <4>1, <4>3, CeilDivIs
    <3> HIDE DEF Bound
    <3>4. QED
      BY <3>1, <3>2, <3>3
  <2>4. NobodyWaitsForMore'
    <3> SUFFICES ASSUME NEW w \in Waiter, waits'[w] # NotWaiting, changes' = 0
                 PROVE  waits'[w].until - now' <= CeilDiv(Max(Sizes) * Cardinality(Waiter), rate')
      BY DEF NobodyWaitsForMore, NotWaiting, CeilDiv
    <3>1. waits[w].until - (now + 1) <= Bound
      BY <2>1, <2>3
    <3>2. QED
      BY <2>1, <3>1
  <2>5. QED
    BY <2>2, <2>4
<1>2. ASSUME NEW r \in Rates, SetLimit(r) PROVE WaitsUnderOne' /\ NobodyWaitsForMore'
  <2>1. changes' # 0
    BY <1>0, <1>2 DEF SetLimit, LimiterTypes
  <2>2. QED
    BY <2>1 DEF WaitsUnderOne, NobodyWaitsForMore
<1>3. ASSUME NEW w \in Waiter, Granted(w) \/ Refund(w) PROVE WaitsUnderOne' /\ NobodyWaitsForMore'
  <2>1. now' = now /\ rate' = rate /\ changes' = changes /\ waits' = [waits EXCEPT ![w] = NotWaiting]
    BY <1>3 DEF Granted, Refund
  <2>2. \A x \in Waiter : waits'[x] # NotWaiting => waits'[x] = waits[x]
    BY <1>0, <2>1 DEF LimiterTypes
  <2>3. QED
    BY <1>0, <2>1, <2>2 DEF WaitsUnderOne, NobodyWaitsForMore
<1>4. ASSUME NEW w \in Waiter, NEW n \in Sizes, Reserve(w, n) PROVE WaitsUnderOne' /\ NobodyWaitsForMore'
  <2>1. now' = now /\ rate' = rate /\ changes' = changes
    BY <1>4 DEF Reserve
  <2>2. CASE waits' = waits
    BY <1>0, <2>1, <2>2 DEF WaitsUnderOne, NobodyWaitsForMore
  <2>3. CASE waits' # waits
    <3> DEFINE left == Refilled - n
    <3>1. rate # 0 /\ ~(left >= 0)
      BY <1>4, <2>3 DEF Reserve
    <3>2. left \in Int /\ rate \in Nat
      BY <1>0, LimiterConstants, RefilledIs DEF LimiterTypes
    <3>3. left < 0
      BY <3>1, <3>2
    <3>4. waits' = [waits EXCEPT ![w] = [until |-> now + CeilDiv(-left, rate), n |-> n, under |-> changes]]
      BY <1>4, <3>1 DEF Reserve
    <3>5. WaitsUnderOne'
      BY <2>1, <3>1, <3>2 DEF WaitsUnderOne
    <3>6. ASSUME NEW x \in Waiter, waits'[x] # NotWaiting, changes = 0
          PROVE  waits'[x].until - now <= Bound
      <4>1. CASE x # w
        <5>1. waits'[x] = waits[x]
          BY <1>0, <3>4, <4>1 DEF LimiterTypes
        <5>2. QED
          BY <1>0, <3>6, <5>1 DEF NobodyWaitsForMore
      <4>2. CASE x = w
        <5>1. PICK h \in Nat : Accounted(h)
          BY DEF LimiterIInv
        <5>2. Accounted(0)
          BY <3>6, <5>1 DEF Accounted
        <5>3. CeilDiv(-left, rate) <= Bound
          BY <1>0, <1>4, <3>1, <3>3, <5>2, WaitIsBounded
        <5>4. CeilDiv(-left, rate) \in Nat /\ now \in Nat
          BY <1>0, <3>1, <3>2, <3>3, CeilDivIs DEF LimiterTypes
        <5>5. waits'[x].until = now + CeilDiv(-left, rate)
          BY <1>0, <3>4, <4>2 DEF LimiterTypes
        <5> HIDE DEF left, Bound
        <5>6. PICK q \in Nat : q = CeilDiv(-left, rate)
          BY <5>4
        <5>7. (now + q) - now = q
          BY <5>4
        <5>8. waits'[x].until = now + q
          BY <5>5, <5>6, Zenon
        <5>9. waits'[x].until - now = q
          BY <5>7, <5>8, Zenon
        <5>10. q <= Bound
          BY <5>3, <5>6, Zenon
        <5>11. QED
          BY <5>9, <5>10, Zenon
      <4>3. QED
        BY <4>1, <4>2
    <3>7. NobodyWaitsForMore'
      BY <2>1, <3>6 DEF NobodyWaitsForMore
    <3>8. QED
      BY <3>5, <3>7
  <2>4. QED
    BY <2>2, <2>3
<1>5. QED
  BY <1>1, <1>2, <1>3, <1>4 DEF LimiterNext

\* reserve debits what is asked for, Wait waits out the debt or has it refunded, and
\* SetLimit changes the limit under those who wait: what is granted keeps to the
\* rate, and under the first limit nobody waits for more than all may owe.
THEOREM RateIsKept == LimiterSpec => []LimiterInv
<1>1. LimiterInit => LimiterIInv
  BY LimiterStarts
<1>2. LimiterIInv /\ [LimiterNext]_limiterVars => LimiterIInv'
  <2> SUFFICES ASSUME LimiterIInv, [LimiterNext]_limiterVars PROVE LimiterIInv'
    OBVIOUS
  <2>1. PICK h \in Nat : Accounted(h)
    BY DEF LimiterIInv
  <2>2. LimiterTypes /\ WaitsUnderOne /\ NobodyWaitsForMore
    BY DEF LimiterIInv
  <2>3. CASE LimiterNext
    <3>1. LimiterTypes'
      BY <2>2, <2>3, LimiterTypesKept
    <3>2. \E k \in Nat : Accounted(k)'
      BY <2>1, <2>2, <2>3, <3>1, LimiterAccountsKept
    <3>3. WaitsUnderOne' /\ NobodyWaitsForMore'
      BY <2>3, <3>1, WaitsKept
    <3>4. QED
      BY <3>1, <3>2, <3>3 DEF LimiterIInv
  <2>4. CASE UNCHANGED limiterVars
    <3>1. Accounted(h)'
      BY <2>1, <2>4, AccountsStay
    <3>2. LimiterTypes'
      BY <2>2, <2>4 DEF LimiterTypes, limiterVars
    <3>3. WaitsUnderOne' /\ NobodyWaitsForMore'
      BY <2>2, <2>4 DEF WaitsUnderOne, NobodyWaitsForMore, limiterVars
    <3>4. QED
      BY <3>1, <3>2, <3>3 DEF LimiterIInv
  <2>5. QED
    BY <2>3, <2>4
<1>3. LimiterIInv => LimiterInv
  BY RateFollows DEF LimiterIInv, LimiterInv
<1>4. QED
  BY <1>1, <1>2, <1>3, PTL DEF LimiterSpec

-----------------------------------------------------------------------------
(* The files of a torrent *)

\* A recursive function of numbers exists: each value is a step from the one
\* before.
Recursion(V, v0, step, m) ==
    \E f \in [0..m -> V] : f[0] = v0 /\ \A i \in 1..m : f[i] = step[<<i, f[i - 1]>>]
LEMMA RecursionExists ==
    ASSUME NEW V, NEW v0 \in V, NEW step \in [Nat \X V -> V], NEW m \in Nat
    PROVE  Recursion(V, v0, step, m)
<1> DEFINE Is(f, n) == f[0] = v0 /\ \A i \in 1..n : f[i] = step[<<i, f[i - 1]>>]
           P == {n \in Nat : \E f \in [0..n -> V] : Is(f, n)}
<1>1. 0 \in P
  <2> DEFINE f == [i \in 0..0 |-> v0]
  <2>1. f \in [0..0 -> V] /\ Is(f, 0)
    OBVIOUS
  <2>2. QED
    BY <2>1
<1>2. ASSUME NEW n \in P PROVE n + 1 \in P
  <2>1. PICK f \in [0..n -> V] : Is(f, n)
    OBVIOUS
  <2> DEFINE g == [i \in 0..n + 1 |-> IF i = n + 1 THEN step[<<n + 1, f[n]>>] ELSE f[i]]
  <2>2. n \in Nat /\ f[n] \in V /\ step[<<n + 1, f[n]>>] \in V
    OBVIOUS
  <2>3. g \in [0..n + 1 -> V]
    BY <2>2
  <2>4. g[0] = v0 /\ g[n + 1] = step[<<n + 1, g[n]>>]
    <3>1. 0 \in 0..n + 1 /\ n \in 0..n + 1 /\ n + 1 \in 0..n + 1 /\ 0 # n + 1 /\ n # n + 1
      BY <2>2
    <3>2. g[0] = f[0] /\ g[n] = f[n] /\ g[n + 1] = step[<<n + 1, f[n]>>]
      BY <3>1
    <3>3. QED
      BY <2>1, <3>2
  <2>5. ASSUME NEW i \in 1..n PROVE g[i] = step[<<i, g[i - 1]>>]
    <3>1. g[i] = f[i] /\ g[i - 1] = f[i - 1]
      BY <2>2
    <3>2. QED
      BY <2>1, <3>1
  <2> HIDE DEF g
  <2>6. \A i \in 1..n + 1 : i = n + 1 \/ i \in 1..n
    BY <2>2
  <2>6a. (n + 1) - 1 = n
    BY <2>2
  <2>7. Is(g, n + 1)
    BY <2>4, <2>5, <2>6, <2>6a
  <2>8. n + 1 \in Nat /\ \E h \in [0..n + 1 -> V] : Is(h, n + 1)
    BY <2>2, <2>3, <2>7
  <2> HIDE DEF Is
  <2>9. QED
    BY <2>8
<1> HIDE DEF Is
<1>3. P = Nat
  <2>1. P \in SUBSET Nat
    OBVIOUS
  <2> HIDE DEF P
  <2>2. QED
    BY <1>1, <1>2, <2>1, EveryNumber
<1>4. m \in P
  BY <1>3
<1>5. \E f \in [0..m -> V] : Is(f, m)
  BY <1>4
<1>6. QED
  BY <1>5 DEF Is, Recursion

\* The files lie one after the other.
LEMMA OffsetsAre ==
    /\ Offset \in [1..Len(FileLength) + 1 -> Nat]
    /\ Offset[1] = 0
    /\ \A i \in DOMAIN FileLength : Offset[i + 1] = End(i) /\ End(i) \in Nat /\ Offset[i] \in Nat /\ FileLength[i] \in Nat
<1> DEFINE L == Len(FileLength)
           step == [x \in Nat \X Nat |-> IF x[1] \in 1..L THEN x[2] + FileLength[x[1]] ELSE 0]
<1>1. L \in Nat /\ DOMAIN FileLength = 1..L /\ \A i \in 1..L : FileLength[i] \in Nat
  BY FilesAssumption
<1>2. step \in [Nat \X Nat -> Nat]
  BY <1>1
<1>3. PICK f \in [0..L -> Nat] : f[0] = 0 /\ \A i \in 1..L : f[i] = step[<<i, f[i - 1]>>]
  <2>1. 0 \in Nat
    OBVIOUS
  <2> HIDE DEF step, L
  <2>2. Recursion(Nat, 0, step, L)
    BY <1>1, <1>2, <2>1, RecursionExists, Zenon
  <2>3. QED
    BY <2>2 DEF Recursion
<1> DEFINE g == [i \in 1..L + 1 |-> f[i - 1]]
           Rec(h) == [i \in 1..L + 1 |-> IF i = 1 THEN 0 ELSE h[i - 1] + FileLength[i - 1]]
<1>4. g = Rec(g)
  <2>1. ASSUME NEW i \in 1..L + 1 PROVE g[i] = IF i = 1 THEN 0 ELSE g[i - 1] + FileLength[i - 1]
    <3>1. CASE i = 1
      BY <1>1, <1>3, <3>1
    <3>2. CASE i # 1
      <4>1. i - 1 \in 1..L /\ i - 1 \in 1..L + 1
        BY <1>1, <3>2
      <4>2. g[i] = f[i - 1] /\ g[i - 1] = f[(i - 1) - 1]
        BY <1>1, <4>1
      <4>3. f[(i - 1) - 1] \in Nat
        BY <1>1, <4>1
      <4>4. f[i - 1] = f[(i - 1) - 1] + FileLength[i - 1]
        BY SMTT(20), <1>1, <1>3, <4>1, <4>3
      <4>5. QED
        BY <3>2, <4>2, <4>4
    <3>3. QED
      BY <3>1, <3>2
  <2>2. QED
    BY <2>1
<1> HIDE DEF g, step
<1>5. Offset = Rec(Offset)
  BY <1>4 DEF Offset
<1>6. \A i \in 1..L + 1 : Offset[i] = IF i = 1 THEN 0 ELSE Offset[i - 1] + FileLength[i - 1]
  BY <1>5
<1>7. Offset[1] = 0
  BY <1>1, <1>6
<1>8. \A i \in 1..L : Offset[i + 1] = End(i)
  BY <1>1, <1>6 DEF End
<1>9. \A i \in 1..L + 1 : Offset[i] \in Nat
  <2> DEFINE P == {n \in Nat : n \in 0..L => Offset[n + 1] \in Nat}
  <2>1. 0 \in P
    BY <1>7
  <2>2. ASSUME NEW n \in P PROVE n + 1 \in P
    <3>1. n \in Nat /\ (n \in 0..L => Offset[n + 1] \in Nat)
      OBVIOUS
    <3>2. ASSUME n + 1 \in 0..L PROVE Offset[(n + 1) + 1] \in Nat
      <4>1. n \in 0..L /\ n + 1 \in 1..L
        BY <1>1, <3>1, <3>2
      <4>2. Offset[n + 1] \in Nat /\ FileLength[n + 1] \in Nat /\ Offset[(n + 1) + 1] = End(n + 1)
        BY <1>1, <1>8, <3>1, <4>1
      <4>3. QED
        BY <4>2 DEF End
    <3>3. QED
      BY <3>1, <3>2
  <2>3. P = Nat
    <3>1. P \in SUBSET Nat
      OBVIOUS
    <3> HIDE DEF P
    <3>2. QED
      BY <2>1, <2>2, <3>1, EveryNumber
  <2>4. ASSUME NEW i \in 1..L + 1 PROVE Offset[i] \in Nat
    <3>1. i - 1 \in Nat /\ i - 1 \in 0..L /\ (i - 1) + 1 = i
      BY <1>1
    <3>2. i - 1 \in P
      BY <2>3, <3>1
    <3>3. Offset[(i - 1) + 1] \in Nat
      BY <3>1, <3>2
    <3>4. QED
      BY <3>1, <3>3
  <2>5. QED
    BY <2>4
<1>10. Offset \in [1..L + 1 -> Nat]
  BY <1>5, <1>9
<1>11. \A i \in 1..L : End(i) \in Nat /\ Offset[i] \in Nat /\ FileLength[i] \in Nat
  BY <1>1, <1>9 DEF End
<1>12. QED
  BY <1>1, <1>7, <1>8, <1>10, <1>11

LEMMA OffsetsGrow ==
    \A i, j \in 1..Len(FileLength) + 1 : i <= j => Offset[i] <= Offset[j]
<1> DEFINE L == Len(FileLength)
           P == {d \in Nat : \A i \in 1..L + 1 : i + d <= L + 1 => Offset[i] <= Offset[i + d]}
<1>1. L \in Nat /\ DOMAIN FileLength = 1..L
  BY FilesAssumption
<1>2. Offset \in [1..L + 1 -> Nat]
  BY OffsetsAre
<1>3. \A i \in 1..L : Offset[i] <= Offset[i + 1]
  <2>1. ASSUME NEW i \in 1..L PROVE Offset[i] <= Offset[i + 1]
    <3>1. Offset[i + 1] = Offset[i] + FileLength[i] /\ Offset[i] \in Nat /\ FileLength[i] \in Nat
      BY <1>1, OffsetsAre DEF End
    <3>2. QED
      BY <3>1
  <2>2. QED
    BY <2>1
<1>4. 0 \in P
  BY <1>1, <1>2
<1>5. ASSUME NEW d \in P PROVE d + 1 \in P
  <2>1. d \in Nat /\ \A i \in 1..L + 1 : i + d <= L + 1 => Offset[i] <= Offset[i + d]
    OBVIOUS
  <2>2. ASSUME NEW i \in 1..L + 1, i + (d + 1) <= L + 1 PROVE Offset[i] <= Offset[i + (d + 1)]
    <3>1. i + d \in 1..L /\ i + d <= L + 1 /\ i + (d + 1) = (i + d) + 1
      BY <1>1, <2>1, <2>2
    <3>2. Offset[i] <= Offset[i + d] /\ Offset[i + d] <= Offset[(i + d) + 1]
      BY <1>3, <2>1, <3>1
    <3>3. i + d \in 1..L + 1 /\ (i + d) + 1 \in 1..L + 1
      BY <1>1, <3>1
    <3>4. Offset[i] \in Nat /\ Offset[i + d] \in Nat /\ Offset[(i + d) + 1] \in Nat
      BY <1>2, <3>3
    <3>5. QED
      BY <3>1, <3>2, <3>4
  <2>3. QED
    BY <2>1, <2>2
<1>6. P = Nat
  <2>1. P \in SUBSET Nat
    OBVIOUS
  <2> HIDE DEF P
  <2>2. QED
    BY <1>4, <1>5, <2>1, EveryNumber
<1>7. ASSUME NEW i \in 1..L + 1, NEW j \in 1..L + 1, i <= j PROVE Offset[i] <= Offset[j]
  <2>1. j - i \in Nat /\ i + (j - i) = j
    BY <1>1, <1>7
  <2>2. j - i \in P
    BY <1>6, <2>1
  <2>3. Offset[i] <= Offset[i + (j - i)]
    BY <1>1, <2>1, <2>2
  <2>4. QED
    BY <2>1, <2>3
<1>8. QED
  BY <1>7

\* regionAt finds the file an offset lies in.
LEMMA RegionHolds ==
    ASSUME NEW off \in Nat, off < TotalLength
    PROVE  /\ RegionAt(off) \in DOMAIN FileLength
           /\ Offset[RegionAt(off)] <= off /\ off < End(RegionAt(off))
<1> DEFINE L == Len(FileLength)
           First(i) == End(i) > off /\ \A j \in 1..i - 1 : End(j) <= off
           P == {n \in Nat : \A j \in 1..n : j <= L => End(j) <= off}
<1>1. L \in Nat /\ DOMAIN FileLength = 1..L
  BY FilesAssumption
<1>2. \A i \in 1..L : Offset[i + 1] = End(i) /\ End(i) \in Nat /\ Offset[i] \in Nat
  BY <1>1, OffsetsAre
<1>3. \E i \in DOMAIN FileLength : First(i)
  <2> SUFFICES ASSUME \A i \in 1..L : ~First(i) PROVE FALSE
    BY <1>1
  <2>1. 0 \in P
    OBVIOUS
  <2>2. \A n \in P : n + 1 \in P
    <3> SUFFICES ASSUME NEW n \in P, NEW j \in 1..n + 1, j <= L PROVE End(j) <= off
      OBVIOUS
    <3>1. CASE j \in 1..n
      BY <3>1
    <3>2. CASE j = n + 1
      <4>1. \A k \in 1..j - 1 : End(k) <= off
        BY <1>1, <3>2
      <4>2. j \in 1..L
        BY <1>1
      <4>3. QED
        BY <1>2, <4>1, <4>2
    <3>3. QED
      BY <3>1, <3>2
  <2>3. P = Nat
    <3>1. P \in SUBSET Nat
      OBVIOUS
    <3> HIDE DEF P
    <3>2. QED
      BY <2>1, <2>2, <3>1, EveryNumber
  <2>4. L \in P
    BY <1>1, <2>3
  <2>5. CASE L = 0
    BY <2>5, OffsetsAre DEF TotalLength
  <2>6. CASE L # 0
    <3>1. L \in 1..L
      BY <1>1, <2>6
    <3>2. End(L) <= off /\ End(L) = TotalLength
      BY <1>1, <1>2, <2>4, <3>1 DEF TotalLength
    <3>3. QED
      BY <1>2, <3>1, <3>2
  <2>7. QED
    BY <2>5, <2>6
<1> DEFINE r == RegionAt(off)
<1>4. r \in DOMAIN FileLength /\ First(r)
  BY <1>3 DEF RegionAt
<1>5. off < End(r)
  BY <1>1, <1>2, <1>4
<1>6. Offset[r] <= off
  <2>1. CASE r = 1
    BY <2>1, OffsetsAre
  <2>2. CASE r # 1
    <3>1. r - 1 \in 1..r - 1 /\ r - 1 \in 1..L /\ (r - 1) + 1 = r
      BY <1>1, <1>4, <2>2
    <3>2. End(r - 1) <= off /\ Offset[r] = End(r - 1)
      BY <1>2, <1>4, <3>1
    <3>3. QED
      BY <3>2
  <2>3. QED
    BY <2>1, <2>2
<1>7. QED
  BY <1>4, <1>5, <1>6

\* A byte has one place.
LEMMA BytesHavePlaces ==
    ASSUME NEW f \in DOMAIN FileLength, NEW p \in Nat, p < FileLength[f]
    PROVE  BytesOf(Offset[f] + p) = <<f, p>>
<1> DEFINE L == Len(FileLength)
           off == Offset[f] + p
           All == {<<g, q>> : g \in DOMAIN FileLength, q \in 0..TotalLength}
           Is(at) == at[2] < FileLength[at[1]] /\ Offset[at[1]] + at[2] = off
<1>1. L \in Nat /\ DOMAIN FileLength = 1..L
  BY FilesAssumption
<1>2. /\ Offset \in [1..L + 1 -> Nat]
      /\ \A i \in 1..L : Offset[i + 1] = Offset[i] + FileLength[i] /\ Offset[i] \in Nat /\ FileLength[i] \in Nat
  BY <1>1, OffsetsAre DEF End
<1>3. Offset[f + 1] <= TotalLength /\ TotalLength \in Nat
  BY <1>1, <1>2, OffsetsGrow DEF TotalLength
<1>4. <<f, p>> \in All /\ Is(<<f, p>>)
  <2>1. p \in 0..TotalLength
    BY <1>1, <1>2, <1>3
  <2>2. QED
    BY <2>1
<1>5. ASSUME NEW at \in All, Is(at) PROVE at = <<f, p>>
  <2>1. PICK g \in 1..L, q \in 0..TotalLength : at = <<g, q>>
    BY <1>1
  <2>2. q < FileLength[g] /\ Offset[g] + q = Offset[f] + p /\ q \in Nat
    BY <1>3, <1>5, <2>1
  <2>3. f \in 1..L /\ Offset[f] \in Nat /\ Offset[g] \in Nat /\ FileLength[f] \in Nat /\ FileLength[g] \in Nat
    BY <1>1, <1>2
  <2>4. CASE f < g
    <3>1. f + 1 \in 1..L + 1 /\ g \in 1..L + 1 /\ f + 1 <= g
      BY SMTT(20), <1>1, <2>3, <2>4
    <3>2. Offset[f + 1] <= Offset[g]
      BY <3>1, OffsetsGrow
    <3>3. Offset[f + 1] = Offset[f] + FileLength[f]
      BY <2>3, OffsetsAre, <1>1 DEF End
    <3>4. p < FileLength[f]
      OBVIOUS
    <3> HIDE DEF L, off, All, Is
    <3>5. FALSE
      BY <2>2, <2>3, <3>2, <3>3, <3>4
    <3>6. QED
      BY <3>5
  <2>5. CASE g < f
    <3>1. g + 1 \in 1..L + 1 /\ f \in 1..L + 1 /\ g + 1 <= f
      BY <1>1, <2>3, <2>5
    <3>2. Offset[g + 1] <= Offset[f]
      BY <3>1, OffsetsGrow
    <3>3. Offset[g + 1] = Offset[g] + FileLength[g]
      BY <1>2, <2>3
    <3>4. p < FileLength[f]
      OBVIOUS
    <3> HIDE DEF L, off, All, Is
    <3>5. FALSE
      BY <2>2, <2>3, <3>2, <3>3, <3>4
    <3>6. QED
      BY <3>5
  <2>6. CASE f = g
    BY <2>1, <2>2, <2>3, <2>6
  <2>7. QED
    BY <1>1, <2>3, <2>4, <2>5, <2>6
<1>6. BytesOf(off) = CHOOSE at \in All : Is(at)
  BY DEF BytesOf
<1> HIDE DEF All, Is
<1>7. QED
  BY <1>4, <1>5, <1>6

\* The caches whose open files are those that u counts the uses of: each is in
\* the order or used, and the order has a file once.
CacheEntry == [file : DOMAIN FileLength, writable : BOOLEAN, refs : Nat, evicted : BOOLEAN, open : {TRUE}]
Caches == [tab : UNION {[H -> CacheEntry] : H \in SUBSET HandleId}, order : Seq(HandleId)]
OnceEach(s) == \A i, j \in DOMAIN s : i # j => s[i] # s[j]
CountedBy(c, u) ==
    /\ c \in Caches
    /\ ToSet(c.order) \subseteq DOMAIN c.tab
    /\ \A h \in DOMAIN c.tab : /\ h \in ToSet(c.order) <=> ~c.tab[h].evicted
                               /\ c.tab[h].evicted => c.tab[h].refs > 0
                               /\ c.tab[h].refs = u[h]
    /\ \A h \in HandleId : u[h] > 0 => h \in DOMAIN c.tab
    /\ OnceEach(c.order)
    /\ \A g, h \in ToSet(c.order) : g # h => c.tab[g].file # c.tab[h].file

\* What is open in d was open in c, as it is.
Descends(c, d) == \A h \in DOMAIN d.tab :
    h \in DOMAIN c.tab /\ d.tab[h].file = c.tab[h].file /\ d.tab[h].writable = c.tab[h].writable

UsersOf(calls, h) == {c \in IoCall : calls[c].kind # "none" /\ calls[c].holds = h}
Uses(calls) == [h \in HandleId |-> Cardinality(UsersOf(calls, h))]

More(u, h) == [u EXCEPT ![h] = @ + 1]
Less(u, h) == [u EXCEPT ![h] = @ - 1]

IoCalls == [kind : {"read", "write"}, at : Nat, from : Nat, to : 0..TotalLength, holds : HandleId \cup {0}]
InRange(k) == k.from <= k.at /\ k.at <= k.to
HoldsItsFile(k, tab) == k.holds # 0 => /\ k.at < k.to /\ tab[k.holds].file = RegionAt(k.at)
                                       /\ k.kind = "write" => tab[k.holds].writable
FilesIInv ==
    /\ useMmap \in BOOLEAN /\ exists \subseteq DOMAIN FileLength
    /\ DOMAIN io = IoCall
    /\ \A c \in IoCall : io[c] # NotIo => io[c] \in IoCalls /\ InRange(io[c]) /\ HoldsItsFile(io[c], handles)
    /\ CountedBy(Cache(handles, lru), Uses(io))
    /\ useMmap => \A h \in DOMAIN handles : handles[h].writable
    /\ CacheIsBounded
    /\ WritesLand

LEMMA WithoutIs ==
    ASSUME NEW S, NEW s \in Seq(S), OnceEach(s), NEW h \in ToSet(s)
    PROVE  /\ Without(s, h) \in Seq(S) /\ Len(Without(s, h)) = Len(s) - 1
           /\ OnceEach(Without(s, h)) /\ ToSet(Without(s, h)) = ToSet(s) \ {h}
           /\ s[1] # h => Len(Without(s, h)) > 0 /\ Without(s, h)[1] = s[1]
<1> DEFINE k == CHOOSE i \in DOMAIN s : s[i] = h
           t == Without(s, h)
           n == Len(s)
<1>1. k \in DOMAIN s /\ s[k] = h
  BY DEF ToSet
<1>2. t = SubSeq(s, 1, k - 1) \o SubSeq(s, k + 1, Len(s))
  BY DEF Without, RemoveAt
<1>3. n \in Nat /\ DOMAIN s = 1..n /\ \A i \in 1..n : s[i] \in S
  OBVIOUS
<1> HIDE DEF k, t
<1>4. k \in 1..n
  BY <1>1, <1>3
<1> DEFINE p == SubSeq(s, 1, k - 1)
           q == SubSeq(s, k + 1, n)
<1>5. p \in Seq(S) /\ Len(p) = k - 1 /\ \A i \in 1..k - 1 : p[i] = s[i]
  <2>1. 1 \in Int /\ k - 1 \in Int /\ \A i \in 1..k - 1 : s[i] \in S
    BY <1>3, <1>4
  <2>2. /\ p \in Seq(S) /\ Len(p) = IF 1 <= k - 1 THEN (k - 1) - 1 + 1 ELSE 0
        /\ \A i \in 1..(k - 1) - 1 + 1 : p[i] = s[1 + i - 1]
    BY <2>1, SubSeqProperties
  <2> HIDE DEF p
  <2>3. QED
    BY <1>4, <2>2
<1>6. q \in Seq(S) /\ Len(q) = n - k /\ \A i \in 1..n - k : q[i] = s[k + i]
  <2>1. k + 1 \in Int /\ n \in Int /\ \A i \in k + 1..n : s[i] \in S
    BY <1>3, <1>4
  <2>2. /\ q \in Seq(S) /\ Len(q) = IF k + 1 <= n THEN n - (k + 1) + 1 ELSE 0
        /\ \A i \in 1..n - (k + 1) + 1 : q[i] = s[(k + 1) + i - 1]
    BY <2>1, SubSeqProperties
  <2> HIDE DEF q, n
  <2>3. Len(q) = n - k
    BY <1>3, <1>4, <2>2
  <2>4. ASSUME NEW i \in 1..n - k PROVE q[i] = s[k + i]
    <3>1. i \in 1..n - (k + 1) + 1 /\ (k + 1) + i - 1 = k + i
      BY <1>3, <1>4
    <3>2. QED
      BY <2>2, <3>1
  <2>5. QED
    BY <2>2, <2>3, <2>4
<1>7. /\ t \in Seq(S) /\ Len(t) = n - 1
      /\ \A i \in 1..n - 1 : t[i] = IF i <= k - 1 THEN p[i] ELSE q[i - (k - 1)]
  <2>1. t = p \o q
    BY <1>2
  <2> HIDE DEF p, q, n
  <2>2a. /\ t \in Seq(S) /\ Len(t) = Len(p) + Len(q)
         /\ \A i \in 1..Len(p) + Len(q) : t[i] = IF i <= Len(p) THEN p[i] ELSE q[i - Len(p)]
    BY <1>5, <1>6, <2>1, ConcatProperties
  <2>2. /\ t \in Seq(S) /\ Len(t) = (k - 1) + (n - k)
        /\ \A i \in 1..(k - 1) + (n - k) : t[i] = IF i <= k - 1 THEN p[i] ELSE q[i - (k - 1)]
    BY <1>5, <1>6, <2>2a
  <2>3. QED
    BY <1>3, <1>4, <2>2
<1>8. \A i \in 1..n - 1 : t[i] = IF i < k THEN s[i] ELSE s[i + 1]
  <2> HIDE DEF p, q, n
  <2>1. ASSUME NEW i \in 1..n - 1, i < k PROVE t[i] = s[i]
    <3>1. i \in 1..k - 1 /\ i <= k - 1
      BY <1>4, <2>1
    <3>2. QED
      BY <1>5, <1>7, <3>1
  <2>2. ASSUME NEW i \in 1..n - 1, ~(i < k) PROVE t[i] = s[i + 1]
    <3>1. i - (k - 1) \in 1..n - k /\ k + (i - (k - 1)) = i + 1 /\ ~(i <= k - 1)
      BY <1>3, <1>4, <2>2
    <3>2. t[i] = q[i - (k - 1)]
      BY <1>7, <3>1
    <3>3. QED
      BY <1>6, <3>1, <3>2
  <2>3. QED
    BY <2>1, <2>2
<1>9. DOMAIN t = 1..n - 1
  BY <1>7
<1> DEFINE from == [i \in 1..n - 1 |-> IF i < k THEN i ELSE i + 1]
<1>10. \A i \in 1..n - 1 : from[i] \in 1..n /\ from[i] # k /\ t[i] = s[from[i]]
  BY <1>3, <1>4, <1>8
<1>11. \A i, j \in 1..n - 1 : i # j => from[i] # from[j]
  BY <1>3, <1>4
<1>12. \A m \in 1..n : m # k => \E i \in 1..n - 1 : from[i] = m
  <2> SUFFICES ASSUME NEW m \in 1..n, m # k PROVE \E i \in 1..n - 1 : from[i] = m
    OBVIOUS
  <2>1. CASE m < k
    <3>1. m \in 1..n - 1
      BY <1>3, <1>4, <2>1
    <3>2. QED
      BY <2>1, <3>1
  <2>2. CASE m > k
    <3>1. m - 1 \in 1..n - 1 /\ ~(m - 1 < k) /\ (m - 1) + 1 = m
      BY <1>3, <1>4, <2>2
    <3>2. QED
      BY <3>1
  <2>3. QED
    BY <1>4, <2>1, <2>2
<1> HIDE DEF from
<1>13. OnceEach(t)
  BY <1>3, <1>9, <1>10, <1>11 DEF OnceEach
<1>14. ToSet(t) \subseteq ToSet(s) \ {h}
  BY <1>1, <1>3, <1>9, <1>10 DEF ToSet, OnceEach
<1>15. ToSet(s) \ {h} \subseteq ToSet(t)
  <2> SUFFICES ASSUME NEW m \in 1..n, s[m] # h PROVE \E i \in 1..n - 1 : t[i] = s[m]
    BY <1>3, <1>9 DEF ToSet
  <2>1. m # k
    BY <1>1
  <2>2. QED
    BY <1>10, <1>12, <2>1
<1>16. s[1] # h => Len(t) > 0 /\ t[1] = s[1]
  <2> SUFFICES ASSUME s[1] # h PROVE Len(t) > 0 /\ t[1] = s[1]
    OBVIOUS
  <2>1. 1 < k /\ 1 \in 1..n - 1
    BY <1>1, <1>3, <1>4
  <2>2. QED
    BY <1>3, <1>7, <1>8, <2>1
<1>17. QED
  BY <1>7, <1>13, <1>14, <1>15, <1>16 DEF t

LEMMA Pushed ==
    ASSUME NEW S, NEW s \in Seq(S), OnceEach(s), NEW h \in S, h \notin ToSet(s)
    PROVE  /\ <<h>> \o s \in Seq(S) /\ Len(<<h>> \o s) = Len(s) + 1 /\ (<<h>> \o s)[1] = h
           /\ OnceEach(<<h>> \o s) /\ ToSet(<<h>> \o s) = ToSet(s) \cup {h}
<1> DEFINE n == Len(s)  t == <<h>> \o s
<1>1. n \in Nat /\ DOMAIN s = 1..n
  OBVIOUS
<1>2. t \in Seq(S) /\ Len(t) = n + 1 /\ t[1] = h
  OBVIOUS
<1>3. \A i \in 1..n : t[i + 1] = s[i]
  OBVIOUS
<1>4. DOMAIN t = 1..n + 1
  BY <1>1, <1>2
<1> HIDE DEF t, n
<1>5. \A j \in 1..n + 1 : j = 1 \/ (j - 1 \in 1..n /\ t[j] = s[j - 1])
  <2> SUFFICES ASSUME NEW j \in 1..n + 1, j # 1 PROVE j - 1 \in 1..n /\ t[j] = s[j - 1]
    OBVIOUS
  <2>1. j - 1 \in 1..n /\ (j - 1) + 1 = j
    BY <1>1
  <2>2. QED
    BY <1>3, <2>1
<1>6. \A i \in 1..n : s[i] # h
  BY <1>1 DEF ToSet
<1>7. ASSUME NEW i \in 1..n + 1, NEW j \in 1..n + 1, i # j PROVE t[i] # t[j]
  <2>1. CASE i = 1
    BY <1>2, <1>5, <1>6, <1>7, <2>1
  <2>2. CASE j = 1
    BY <1>2, <1>5, <1>6, <1>7, <2>2
  <2>3. CASE i # 1 /\ j # 1
    <3>1. i - 1 \in 1..n /\ j - 1 \in 1..n /\ i - 1 # j - 1 /\ t[i] = s[i - 1] /\ t[j] = s[j - 1]
      BY <1>1, <1>5, <1>7, <2>3
    <3>2. QED
      BY <1>1, <3>1 DEF OnceEach
  <2>4. QED
    BY <2>1, <2>2, <2>3
<1>8. ToSet(t) \subseteq ToSet(s) \cup {h}
  BY <1>1, <1>2, <1>4, <1>5 DEF ToSet
<1>9. ToSet(s) \subseteq ToSet(t)
  <2> SUFFICES ASSUME NEW i \in 1..n PROVE s[i] \in ToSet(t)
    BY <1>1 DEF ToSet
  <2>1. i + 1 \in 1..n + 1
    BY <1>1
  <2>2. QED
    BY <1>3, <1>4, <2>1 DEF ToSet
<1>10. h \in ToSet(t)
  <2>1. 1 \in 1..n + 1
    BY <1>1
  <2>2. QED
    BY <1>2, <1>4, <2>1 DEF ToSet
<1>11. QED
  BY <1>2, <1>4, <1>7, <1>8, <1>9, <1>10 DEF OnceEach, t, n

LEMMA CachesAre ==
    ASSUME NEW c \in Caches
    PROVE  /\ c.tab = [h \in DOMAIN c.tab |-> c.tab[h]] /\ DOMAIN c.tab \subseteq HandleId
           /\ \A h \in DOMAIN c.tab : c.tab[h] \in CacheEntry
           /\ c.order \in Seq(HandleId) /\ c = Cache(c.tab, c.order)
<1>1. c.tab \in UNION {[H -> CacheEntry] : H \in SUBSET HandleId} /\ c.order \in Seq(HandleId)
      /\ c = Cache(c.tab, c.order)
  BY DEF Caches, Cache
<1>2. PICK H \in SUBSET HandleId : c.tab \in [H -> CacheEntry]
  BY <1>1
<1>3. QED
  BY <1>1, <1>2

LEMMA MakesCache ==
    ASSUME NEW H \in SUBSET HandleId, NEW t \in [H -> CacheEntry], NEW o \in Seq(HandleId)
    PROVE  Cache(t, o) \in Caches /\ Cache(t, o).tab = t /\ Cache(t, o).order = o
<1>1. t \in UNION {[K -> CacheEntry] : K \in SUBSET HandleId}
  OBVIOUS
<1>2. QED
  BY <1>1 DEF Caches, Cache

\* evict.
LEMMA EvictKeeps ==
    ASSUME NEW u, NEW c, CountedBy(c, u), NEW h \in ToSet(c.order)
    PROVE  LET d == Evict(c, h) IN
           /\ CountedBy(d, u) /\ Descends(c, d)
           /\ Len(d.order) = Len(c.order) - 1
           /\ ToSet(d.order) = ToSet(c.order) \ {h}
           /\ c.order[1] # h => Len(d.order) > 0 /\ d.order[1] = c.order[1]
<1> DEFINE d == Evict(c, h)
           o == Without(c.order, h)
           D == DOMAIN c.tab
<1>1. /\ c.tab = [x \in D |-> c.tab[x]] /\ D \subseteq HandleId
      /\ \A x \in D : c.tab[x] \in CacheEntry
      /\ c.order \in Seq(HandleId)
  BY CachesAre DEF CountedBy
<1>2. h \in D /\ c.tab[h] \in CacheEntry
  BY <1>1 DEF CountedBy
<1>2a. c.tab[h].refs \in Nat
  BY <1>2 DEF CacheEntry
<1>3. /\ o \in Seq(HandleId) /\ Len(o) = Len(c.order) - 1
      /\ OnceEach(o) /\ ToSet(o) = ToSet(c.order) \ {h}
      /\ c.order[1] # h => Len(o) > 0 /\ o[1] = c.order[1]
  BY <1>1, WithoutIs DEF CountedBy
<1> HIDE DEF o
<1>4. CASE c.tab[h].refs = 0
  <2> DEFINE t == Only(c.tab, D \ {h})
  <2>1. d = Cache(t, o)
    BY <1>4 DEF Evict, o
  <2>2. t \in [D \ {h} -> CacheEntry] /\ \A x \in D \ {h} : t[x] = c.tab[x]
    BY <1>1 DEF Only
  <2>2a. D \ {h} \in SUBSET HandleId
    BY <1>1
  <2> HIDE DEF t, D, d
  <2>3. d \in Caches /\ d.tab = t /\ d.order = o
    BY <1>3, <2>1, <2>2, <2>2a, MakesCache
  <2>4. DOMAIN t = D \ {h}
    BY <2>2
  <2>5. \A g \in HandleId : u[g] > 0 => g \in D \ {h}
    BY <1>2, <1>4 DEF CountedBy, D
  <2>6. \A x \in D \ {h} : /\ x \in ToSet(o) <=> ~t[x].evicted
                           /\ t[x].evicted => t[x].refs > 0
                           /\ t[x].refs = u[x]
    BY <1>3, <2>2 DEF CountedBy, D
  <2>7. ToSet(o) \subseteq D \ {h}
    BY <1>3 DEF CountedBy, D
  <2>8. \A f, g \in ToSet(o) : f # g => t[f].file # t[g].file
    BY <1>3, <2>2, <2>7 DEF CountedBy
  <2>9. CountedBy(d, u)
    BY <1>3, <2>3, <2>4, <2>5, <2>6, <2>7, <2>8 DEF CountedBy
  <2>10. Descends(c, d)
    BY <2>2, <2>3, <2>4 DEF Descends, D
  <2>11. QED
    BY <1>3, <2>3, <2>9, <2>10 DEF d
<1>5. CASE c.tab[h].refs # 0
  <2> DEFINE t == [c.tab EXCEPT ![h].evicted = TRUE]
  <2>1. d = Cache(t, o)
    BY <1>5 DEF Evict, o
  <2>2. /\ t \in [D -> CacheEntry] /\ \A x \in D \ {h} : t[x] = c.tab[x]
        /\ t[h].evicted /\ t[h].refs = c.tab[h].refs /\ t[h].file = c.tab[h].file /\ t[h].writable = c.tab[h].writable
    BY <1>1, <1>2 DEF CacheEntry
  <2>3. c.tab[h].refs > 0
    BY <1>2a, <1>5
  <2>3a. D \in SUBSET HandleId
    BY <1>1
  <2> HIDE DEF t, D, d
  <2>4. d \in Caches /\ d.tab = t /\ d.order = o
    BY <1>3, <2>1, <2>2, <2>3a, MakesCache
  <2>5. DOMAIN t = D
    BY <2>2
  <2>6. \A x \in D : /\ x \in ToSet(o) <=> ~t[x].evicted
                     /\ t[x].evicted => t[x].refs > 0
                     /\ t[x].refs = u[x]
    <3> SUFFICES ASSUME NEW x \in D
                 PROVE  /\ x \in ToSet(o) <=> ~t[x].evicted
                        /\ t[x].evicted => t[x].refs > 0
                        /\ t[x].refs = u[x]
      OBVIOUS
    <3>1. CASE x = h
      BY <1>2, <1>3, <2>2, <2>3, <3>1 DEF CountedBy, D
    <3>2. CASE x # h
      BY <1>3, <2>2, <3>2 DEF CountedBy, D
    <3>3. QED
      BY <3>1, <3>2
  <2>7. ToSet(o) \subseteq D \ {h}
    BY <1>3 DEF CountedBy, D
  <2>8. \A f, g \in ToSet(o) : f # g => t[f].file # t[g].file
    BY <1>3, <2>2, <2>7 DEF CountedBy
  <2>9. CountedBy(d, u)
    BY <1>3, <2>4, <2>5, <2>6, <2>7, <2>8 DEF CountedBy, D
  <2>10. Descends(c, d)
    BY <2>2, <2>4, <2>5 DEF Descends, D
  <2>11. QED
    BY <1>3, <2>4, <2>9, <2>10 DEF d
<1>6. QED
  BY <1>4, <1>5

\* A set of numbers up to a bound has a greatest.
LEMMA GreatestOf ==
    ASSUME NEW n \in Nat, NEW I \in SUBSET (1..n), I # {}
    PROVE  \E i \in I : \A j \in I : j <= i
<1> SUFFICES ASSUME \A i \in I : \E j \in I : ~(j <= i) PROVE FALSE
  OBVIOUS
<1> DEFINE P == {k \in Nat : \E i \in I : i >= k}
<1>1. 0 \in P
  <2>1. PICK i \in I : TRUE
    OBVIOUS
  <2>2. i >= 0
    BY <2>1
  <2>3. QED
    BY <2>2
<1>2. ASSUME NEW k \in P PROVE k + 1 \in P
  <2>1. k \in Nat /\ \E i \in I : i >= k
    OBVIOUS
  <2>2. PICK i \in I : i >= k
    BY <2>1
  <2>3. PICK j \in I : ~(j <= i)
    OBVIOUS
  <2>4. j >= k + 1 /\ k + 1 \in Nat
    BY <2>1, <2>2, <2>3
  <2>5. QED
    BY <2>4
<1>3. P = Nat
  <2>1. P \in SUBSET Nat
    OBVIOUS
  <2> HIDE DEF P
  <2>2. QED
    BY <1>1, <1>2, <2>1, EveryNumber
<1>4. n + 1 \in Nat
  OBVIOUS
<1>5. \E i \in I : i >= n + 1
  BY <1>3, <1>4
<1>6. QED
  BY <1>5

\* One round of trim.
LEMMA EvictIdleKeeps ==
    ASSUME NEW u, NEW c, CountedBy(c, u),
           NEW h \in HandleId, u[h] > 0, Len(c.order) > 0, c.order[1] = h
    PROVE  LET d == EvictIdle(c) IN
           /\ CountedBy(d, u) /\ Descends(c, d)
           /\ Len(d.order) > 0 /\ d.order[1] = h
           /\ Len(d.order) <= Len(c.order)
           /\ Len(c.order) > MaxOpenFiles /\ Idlers(c) # {} => Len(d.order) = Len(c.order) - 1
<1> DEFINE d == EvictIdle(c)
<1>1. c.order \in Seq(HandleId) /\ Len(c.order) \in Nat /\ DOMAIN c.order = 1..Len(c.order)
  <2>1. c \in Caches
    BY DEF CountedBy
  <2>2. c.order \in Seq(HandleId)
    BY <2>1, CachesAre
  <2>3. QED
    BY <2>2
<1>2. MaxOpenFiles \in Nat
  BY FilesAssumption
<1>3. CASE Len(c.order) <= MaxOpenFiles \/ Idlers(c) = {}
  <2>1. d = c
    BY <1>3 DEF EvictIdle
  <2>2. Descends(c, c)
    BY DEF Descends
  <2> HIDE DEF d
  <2>3. ~(Len(c.order) > MaxOpenFiles /\ Idlers(c) # {})
    BY <1>1, <1>2, <1>3
  <2>4. QED
    BY <1>1, <2>1, <2>2, <2>3 DEF d
<1>4. CASE ~(Len(c.order) <= MaxOpenFiles \/ Idlers(c) = {})
  <2> DEFINE m == CHOOSE i \in Idlers(c) : \A j \in Idlers(c) : j <= i
  <2>1. Idlers(c) \in SUBSET (1..Len(c.order)) /\ Idlers(c) # {}
    BY <1>1, <1>4 DEF Idlers
  <2>2. \E i \in Idlers(c) : \A j \in Idlers(c) : j <= i
    BY <1>1, <2>1, GreatestOf
  <2>3. m \in Idlers(c)
    BY <2>2
  <2>4. d = Evict(c, c.order[m])
    BY <1>4 DEF EvictIdle
  <2> HIDE DEF m, d
  <2>5. c.order[m] \in ToSet(c.order) /\ c.tab[c.order[m]].refs = 0
    BY <1>1, <2>3 DEF Idlers, ToSet
  <2>6. c.order[m] # h
    BY <2>5 DEF CountedBy
  <2>7. /\ CountedBy(d, u) /\ Descends(c, d)
        /\ Len(d.order) = Len(c.order) - 1
        /\ Len(d.order) > 0 /\ d.order[1] = h
    BY <2>4, <2>5, <2>6, EvictKeeps
  <2>8. QED
    BY <1>1, <2>7 DEF d
<1>5. QED
  BY <1>3, <1>4

LEMMA DescendsFurther ==
    ASSUME NEW c, NEW d, NEW e, Descends(c, d), Descends(d, e)
    PROVE  Descends(c, e)
BY DEF Descends

\* trim: all its rounds.
Trimmed(u, c, d, h, B) ==
    /\ CountedBy(d, u) /\ Descends(c, d)
    /\ Len(d.order) > 0 /\ d.order[1] = h
    /\ Len(d.order) <= Len(c.order)
    /\ Idlers(c) # {} => Len(d.order) <= B
LEMMA TrimKeeps ==
    ASSUME NEW u, NEW c, CountedBy(c, u), NEW B \in Nat,
           NEW h \in HandleId, u[h] > 0, Len(c.order) > 0, c.order[1] = h,
           MaxOpenFiles <= B, Len(c.order) <= B + 1
    PROVE  Trimmed(u, c, Trim(c), h, B)
<1> DEFINE n == Len(c.order)
           Good(d) == /\ CountedBy(d, u) /\ Descends(c, d)
                      /\ Len(d.order) > 0 /\ d.order[1] = h
                      /\ Len(d.order) <= n
           V == {d \in Caches : Good(d)}
           step == [x \in Nat \X V |-> EvictIdle(x[2])]
           Rec(f) == [k \in 0..n |-> IF k = 0 THEN c ELSE EvictIdle(f[k - 1])]
           after == CHOOSE f : f = Rec(f)
<1>1. n \in Nat /\ \A d \in Caches : Len(d.order) \in Nat
  <2>1. \A d \in Caches : Len(d.order) \in Nat
    BY CachesAre
  <2>2. QED
    BY <2>1 DEF CountedBy
<1>2. MaxOpenFiles \in Nat
  BY FilesAssumption
<1>3. c \in V
  BY <1>1 DEF CountedBy, Descends
<1>4. ASSUME NEW d \in V
      PROVE  /\ EvictIdle(d) \in V
             /\ Len(d.order) <= B => Len(EvictIdle(d).order) <= B
  <2>1. CountedBy(d, u) /\ Len(d.order) > 0 /\ d.order[1] = h /\ Descends(c, d) /\ Len(d.order) <= n
    OBVIOUS
  <2> DEFINE e == EvictIdle(d)
  <2>2. /\ CountedBy(e, u) /\ Descends(d, e)
        /\ Len(e.order) > 0 /\ e.order[1] = h
        /\ Len(e.order) <= Len(d.order)
    BY <2>1, EvictIdleKeeps
  <2> HIDE DEF e
  <2>3. e \in Caches /\ d \in Caches
    BY <2>1, <2>2 DEF CountedBy
  <2>4. Descends(c, e)
    BY <2>1, <2>2, DescendsFurther
  <2>5. Len(e.order) \in Nat /\ Len(d.order) \in Nat
    BY <1>1, <2>3
  <2>6. Len(e.order) <= n /\ (Len(d.order) <= B => Len(e.order) <= B)
    BY <1>1, <2>1, <2>2, <2>5
  <2>7. QED
    BY <2>2, <2>3, <2>4, <2>6 DEF e
<1>5. Idlers(c) # {} => Len(EvictIdle(c).order) <= B
  <2> SUFFICES ASSUME Idlers(c) # {} PROVE Len(EvictIdle(c).order) <= B
    OBVIOUS
  <2> DEFINE e == EvictIdle(c)
  <2>1. /\ CountedBy(e, u) /\ Len(e.order) <= n
        /\ n > MaxOpenFiles => Len(e.order) = n - 1
    BY EvictIdleKeeps
  <2>2. Len(e.order) \in Nat
    BY <1>1, <2>1 DEF CountedBy
  <2> HIDE DEF e, n
  <2>3. n <= B + 1
    BY DEF n
  <2>4. Len(e.order) <= B
    BY <1>1, <1>2, <2>1, <2>2, <2>3
  <2>5. QED
    BY <2>4 DEF e
<1>6. step \in [Nat \X V -> V]
  BY <1>4
<1>7. \A k \in Nat, d \in V : step[<<k, d>>] = EvictIdle(d)
  OBVIOUS
<1> HIDE DEF V, step
<1>8. Recursion(V, c, step, n)
  BY <1>1, <1>3, <1>6, RecursionExists, Zenon
<1>9. PICK f \in [0..n -> V] : f[0] = c /\ \A i \in 1..n : f[i] = step[<<i, f[i - 1]>>]
  BY <1>8 DEF Recursion
<1>10. f = Rec(f)
  <2>1. ASSUME NEW k \in 0..n PROVE f[k] = IF k = 0 THEN c ELSE EvictIdle(f[k - 1])
    <3>1. CASE k = 0
      BY <1>9, <3>1
    <3>2. CASE k # 0
      <4>1. k \in 1..n /\ k - 1 \in 0..n /\ k \in Nat
        BY <1>1, <3>2
      <4>2. f[k - 1] \in V
        BY <1>9, <4>1
      <4>3. f[k] = step[<<k, f[k - 1]>>]
        BY <1>9, <4>1
      <4>4. QED
        BY <1>7, <3>2, <4>1, <4>2, <4>3
    <3>3. QED
      BY <3>1, <3>2
  <2>2. QED
    BY <2>1
<1>11. after = Rec(after)
  BY <1>10
<1>12. Trim(c) = after[n]
  BY DEF Trim
<1> HIDE DEF after
<1>13. after[0] = c /\ \A k \in 0..n : k # 0 => after[k] = EvictIdle(after[k - 1])
  <2>1. ASSUME NEW g, g = Rec(g) PROVE \A k \in 0..n : g[k] = IF k = 0 THEN c ELSE EvictIdle(g[k - 1])
    BY <2>1
  <2>2. \A k \in 0..n : after[k] = IF k = 0 THEN c ELSE EvictIdle(after[k - 1])
    BY <1>11, <2>1
  <2>3. 0 \in 0..n
    BY <1>1
  <2>4. QED
    BY <2>2, <2>3
<1> DEFINE P == {k \in Nat : k \in 0..n => /\ after[k] \in V
                                           /\ k # 0 /\ Idlers(c) # {} => Len(after[k].order) <= B}
<1>14. 0 \in P
  BY <1>3, <1>13
<1>15. ASSUME NEW k \in P PROVE k + 1 \in P
  <2>1. k \in Nat /\ (k \in 0..n => /\ after[k] \in V
                                    /\ k # 0 /\ Idlers(c) # {} => Len(after[k].order) <= B)
    OBVIOUS
  <2>2. ASSUME k + 1 \in 0..n
        PROVE  /\ after[k + 1] \in V
               /\ Idlers(c) # {} => Len(after[k + 1].order) <= B
    <3>1. k \in 0..n /\ k + 1 # 0 /\ (k + 1) - 1 = k
      BY <1>1, <2>1, <2>2
    <3>2. after[k] \in V /\ after[k + 1] = EvictIdle(after[k])
      BY <1>13, <2>1, <2>2, <3>1
    <3>3. CASE k = 0
      BY <1>3, <1>4, <1>5, <1>13, <3>2, <3>3
    <3>4. CASE k # 0
      BY <1>4, <2>1, <3>1, <3>2, <3>4
    <3>5. QED
      BY <3>3, <3>4
  <2>3. QED
    BY <2>1, <2>2
<1>16. P = Nat
  <2>1. P \in SUBSET Nat
    OBVIOUS
  <2> HIDE DEF P
  <2>2. QED
    BY <1>14, <1>15, <2>1, EveryNumber
<1>17. n # 0
  OBVIOUS
<1>18. n \in P /\ n \in 0..n
  BY <1>1, <1>16
<1> HIDE DEF n
<1>19. after[n] \in V /\ (Idlers(c) # {} => Len(after[n].order) <= B)
  BY <1>17, <1>18
<1>20. QED
  BY <1>12, <1>19 DEF V, n, Trimmed

\* A handle more, opened for a file that is not cached.
LEMMA OpenedKeeps ==
    ASSUME NEW u \in [HandleId -> Nat], NEW c, CountedBy(c, u),
           NEW f \in DOMAIN FileLength, NEW w \in BOOLEAN, Cached(c, f) = {},
           FreeId(c) \in HandleId, FreeId(c) \notin DOMAIN c.tab
    PROVE  LET d == Opened(c, f, w)  h == FreeId(c) IN
           /\ CountedBy(d, More(u, h))
           /\ Len(d.order) = Len(c.order) + 1 /\ d.order[1] = h
           /\ h \in DOMAIN d.tab /\ d.tab[h].file = f /\ d.tab[h].writable = w
           /\ \A x \in DOMAIN d.tab : x # h => /\ x \in DOMAIN c.tab /\ d.tab[x].file = c.tab[x].file
                                               /\ d.tab[x].writable = c.tab[x].writable
<1> DEFINE d == Opened(c, f, w)
           h == FreeId(c)
           D == DOMAIN c.tab
           new == [file |-> f, writable |-> w, refs |-> 1, evicted |-> FALSE, open |-> TRUE]
           t == [x \in D \cup {h} |-> IF x = h THEN new ELSE c.tab[x]]
           o == <<h>> \o c.order
           v == More(u, h)
<1>1. c \in Caches
  BY DEF CountedBy
<1>2. /\ D \subseteq HandleId /\ \A x \in D : c.tab[x] \in CacheEntry
      /\ c.order \in Seq(HandleId)
  BY <1>1, CachesAre
<1>3. d = Cache(t, o)
  BY DEF Opened
<1>4. new \in CacheEntry
  BY DEF CacheEntry
<1> HIDE DEF h
<1>5. h \in HandleId /\ h \notin D
  BY DEF h
<1>6. ToSet(c.order) \subseteq D
  BY DEF CountedBy
<1>7. /\ o \in Seq(HandleId) /\ Len(o) = Len(c.order) + 1 /\ o[1] = h
      /\ OnceEach(o) /\ ToSet(o) = ToSet(c.order) \cup {h}
  <2>1. OnceEach(c.order) /\ h \notin ToSet(c.order)
    BY <1>5, <1>6 DEF CountedBy
  <2>2. QED
    BY <1>2, <1>5, <2>1, Pushed
<1>8. u[h] = 0
  <2>1. ~(u[h] > 0) /\ u[h] \in Nat
    BY <1>5 DEF CountedBy
  <2>2. QED
    BY <2>1
<1>9. v[h] = 1 /\ \A x \in HandleId : x # h => v[x] = u[x]
  BY <1>5, <1>8 DEF More
<1>10. /\ t \in [D \cup {h} -> CacheEntry] /\ D \cup {h} \in SUBSET HandleId
       /\ t[h] = new /\ \A x \in D : t[x] = c.tab[x]
  BY <1>2, <1>4, <1>5
<1>11. new.file = f /\ new.writable = w /\ new.refs = 1 /\ ~new.evicted
  OBVIOUS
<1> HIDE DEF t, o, v, new, D, d
<1>12. d \in Caches /\ d.tab = t /\ d.order = o
  BY <1>3, <1>7, <1>10, MakesCache
<1>13. DOMAIN t = D \cup {h}
  BY <1>10
<1>14. \A x \in D : c.tab[x].file # f \/ x \notin ToSet(c.order)
  BY DEF Cached
<1>15. ToSet(o) \subseteq D \cup {h}
  BY <1>6, <1>7
<1>16. \A x \in D \cup {h} : /\ x \in ToSet(o) <=> ~t[x].evicted
                             /\ t[x].evicted => t[x].refs > 0
                             /\ t[x].refs = v[x]
  <2>1. ASSUME NEW x \in D PROVE /\ x \in ToSet(o) <=> ~t[x].evicted
                                 /\ t[x].evicted => t[x].refs > 0
                                 /\ t[x].refs = v[x]
    <3>1. x # h /\ x \in HandleId /\ t[x] = c.tab[x]
      BY <1>2, <1>5, <1>10
    <3>2. /\ x \in ToSet(c.order) <=> ~c.tab[x].evicted
          /\ c.tab[x].evicted => c.tab[x].refs > 0
          /\ c.tab[x].refs = u[x]
      BY DEF CountedBy, D
    <3>3. QED
      BY <1>7, <1>9, <3>1, <3>2
  <2>2. /\ h \in ToSet(o) /\ ~t[h].evicted /\ t[h].refs = v[h]
    BY <1>7, <1>9, <1>10, <1>11
  <2>3. QED
    BY <2>1, <2>2
<1>17. \A x \in HandleId : v[x] > 0 => x \in D \cup {h}
  BY <1>9 DEF CountedBy, D
<1>18. \A g, x \in ToSet(o) : g # x => t[g].file # t[x].file
  <2>1. \A x \in ToSet(c.order) : x \in D /\ t[x].file # f
    BY <1>6, <1>10, <1>14
  <2>2. \A g, x \in ToSet(c.order) : g # x => t[g].file # t[x].file
    BY <1>6, <1>10 DEF CountedBy
  <2>3. QED
    BY <1>7, <1>10, <1>11, <2>1, <2>2
<1>19. CountedBy(d, v)
  BY <1>7, <1>12, <1>13, <1>15, <1>16, <1>17, <1>18 DEF CountedBy
<1>20. QED
  BY <1>7, <1>10, <1>11, <1>12, <1>13, <1>19 DEF d, h, v, D

\* An open file with another number of uses.
LEMMA EntryUsed ==
    ASSUME NEW r \in CacheEntry, NEW n \in Nat
    PROVE  LET q == [r EXCEPT !.refs = n] IN
           /\ q \in CacheEntry /\ q.refs = n
           /\ q.file = r.file /\ q.writable = r.writable /\ q.evicted = r.evicted
BY DEF CacheEntry

\* A handle that is there is used once more.
LEMMA HeldKeeps ==
    ASSUME NEW u \in [HandleId -> Nat], NEW c, CountedBy(c, u), NEW h \in ToSet(c.order)
    PROVE  LET d == Held(c, h) IN
           /\ CountedBy(d, More(u, h))
           /\ Len(d.order) = Len(c.order) /\ d.order[1] = h
           /\ DOMAIN d.tab = DOMAIN c.tab /\ h \in DOMAIN c.tab
           /\ \A x \in DOMAIN d.tab : d.tab[x].file = c.tab[x].file /\ d.tab[x].writable = c.tab[x].writable
<1> DEFINE d == Held(c, h)
           D == DOMAIN c.tab
           p == Without(c.order, h)
           o == <<h>> \o p
           t == [c.tab EXCEPT ![h].refs = @ + 1]
           v == More(u, h)
<1>1. c \in Caches
  BY DEF CountedBy
<1>2. /\ D \subseteq HandleId /\ \A x \in D : c.tab[x] \in CacheEntry
      /\ c.tab = [x \in D |-> c.tab[x]]
      /\ c.order \in Seq(HandleId)
  BY <1>1, CachesAre
<1>3. d = Cache(t, o)
  BY DEF Held
<1>4. h \in D /\ h \in HandleId
  BY <1>2 DEF CountedBy
<1>5. c.tab[h] \in CacheEntry /\ c.tab[h].refs \in Nat /\ ~c.tab[h].evicted
  BY <1>2, <1>4 DEF CacheEntry, CountedBy
<1>6. /\ p \in Seq(HandleId) /\ Len(p) = Len(c.order) - 1
      /\ OnceEach(p) /\ ToSet(p) = ToSet(c.order) \ {h}
  BY <1>2, WithoutIs DEF CountedBy
<1>7. Len(c.order) \in Nat
  BY <1>2
<1> HIDE DEF p
<1>8. /\ o \in Seq(HandleId) /\ Len(o) = Len(c.order) /\ o[1] = h
      /\ OnceEach(o) /\ ToSet(o) = ToSet(c.order)
  <2>1. h \notin ToSet(p)
    BY <1>6
  <2>2. /\ o \in Seq(HandleId) /\ Len(o) = Len(p) + 1 /\ o[1] = h
        /\ OnceEach(o) /\ ToSet(o) = ToSet(p) \cup {h}
    BY <1>4, <1>6, <2>1, Pushed
  <2> HIDE DEF o
  <2>3. QED
    BY <1>6, <1>7, <2>2
<1> DEFINE q == [c.tab[h] EXCEPT !.refs = c.tab[h].refs + 1]
<1>9. /\ q \in CacheEntry /\ q.refs = c.tab[h].refs + 1
      /\ q.file = c.tab[h].file /\ q.writable = c.tab[h].writable /\ q.evicted = c.tab[h].evicted
  <2>1. c.tab[h].refs + 1 \in Nat
    BY <1>5
  <2>2. QED
    BY <1>5, <2>1, EntryUsed
<1>9a. t = [c.tab EXCEPT ![h] = q]
  OBVIOUS
<1> HIDE DEF q
<1>10. /\ t \in [D -> CacheEntry] /\ D \in SUBSET HandleId
       /\ t[h] = q /\ \A x \in D : x # h => t[x] = c.tab[x]
  BY <1>2, <1>4, <1>9, <1>9a
<1>11. /\ t[h].file = c.tab[h].file /\ t[h].writable = c.tab[h].writable
       /\ t[h].evicted = c.tab[h].evicted /\ t[h].refs = c.tab[h].refs + 1
  BY <1>9, <1>10
<1>12. v[h] = u[h] + 1 /\ \A x \in HandleId : x # h => v[x] = u[x]
  BY <1>4 DEF More
<1> HIDE DEF t, o, v, D, d
<1>13. d \in Caches /\ d.tab = t /\ d.order = o
  BY <1>3, <1>8, <1>10, MakesCache
<1>14. DOMAIN t = D
  BY <1>10
<1>15. \A x \in D : t[x].file = c.tab[x].file /\ t[x].writable = c.tab[x].writable
  BY <1>10, <1>11
<1>16. \A x \in D : /\ x \in ToSet(o) <=> ~t[x].evicted
                    /\ t[x].evicted => t[x].refs > 0
                    /\ t[x].refs = v[x]
  <2>2. h \in ToSet(o) /\ ~t[h].evicted /\ t[h].refs = v[h]
    <3>1. c.tab[h].refs = u[h]
      BY <1>4 DEF CountedBy, D
    <3>2. QED
      BY <1>5, <1>8, <1>11, <1>12, <3>1
  <2>3. ASSUME NEW x \in D PROVE /\ x \in ToSet(o) <=> ~t[x].evicted
                                 /\ t[x].evicted => t[x].refs > 0
                                 /\ t[x].refs = v[x]
    <3>1. CASE x = h
      BY <2>2, <3>1
    <3>2. CASE x # h
      <4>1. x \in HandleId /\ t[x] = c.tab[x]
        BY <1>2, <1>10, <3>2
      <4>2. /\ x \in ToSet(c.order) <=> ~c.tab[x].evicted
            /\ c.tab[x].evicted => c.tab[x].refs > 0
            /\ c.tab[x].refs = u[x]
        BY DEF CountedBy, D
      <4>3. QED
        BY <1>8, <1>12, <3>2, <4>1, <4>2
    <3>3. QED
      BY <3>1, <3>2
  <2>4. QED
    BY <2>3
<1>17. \A x \in HandleId : v[x] > 0 => x \in D
  BY <1>4, <1>12 DEF CountedBy, D
<1>18. ToSet(o) \subseteq D
  BY <1>8 DEF CountedBy, D
<1>19. \A g, x \in ToSet(o) : g # x => t[g].file # t[x].file
  BY <1>8, <1>15, <1>18 DEF CountedBy
<1>20. CountedBy(d, v)
  BY <1>8, <1>13, <1>14, <1>16, <1>17, <1>18, <1>19 DEF CountedBy
<1>21. QED
  BY <1>4, <1>8, <1>13, <1>14, <1>15, <1>20 DEF d, v, D

\* release.
LEMMA ReleaseKeeps ==
    ASSUME NEW u \in [HandleId -> Nat], NEW c, CountedBy(c, u), NEW h \in HandleId, u[h] > 0
    PROVE  LET d == Release(c, h) IN
           /\ CountedBy(d, Less(u, h)) /\ Descends(c, d)
           /\ d.order = c.order
<1> DEFINE d == Release(c, h)
           D == DOMAIN c.tab
           o == c.order
           v == Less(u, h)
<1>1. c \in Caches
  BY DEF CountedBy
<1>2. /\ D \subseteq HandleId /\ \A x \in D : c.tab[x] \in CacheEntry
      /\ c.tab = [x \in D |-> c.tab[x]]
      /\ o \in Seq(HandleId) /\ OnceEach(o)
      /\ \A g, x \in ToSet(o) : g # x => c.tab[g].file # c.tab[x].file
  BY <1>1, CachesAre DEF CountedBy
<1>3. h \in D
  BY DEF CountedBy
<1>4. c.tab[h] \in CacheEntry /\ c.tab[h].refs = u[h] /\ u[h] \in Nat /\ u[h] > 0
  BY <1>2, <1>3 DEF CountedBy
<1>5. v[h] = u[h] - 1 /\ \A x \in HandleId : x # h => v[x] = u[x]
  BY DEF Less
<1>6. \A x \in D : /\ x \in ToSet(o) <=> ~c.tab[x].evicted
                   /\ c.tab[x].evicted => c.tab[x].refs > 0
                   /\ c.tab[x].refs = u[x]
  BY DEF CountedBy
<1>7. ToSet(o) \subseteq D /\ \A x \in HandleId : u[x] > 0 => x \in D
  BY DEF CountedBy
<1>8. CASE c.tab[h].evicted /\ c.tab[h].refs = 1
  <2> DEFINE t == Only(c.tab, D \ {h})
  <2>1. d = Cache(t, o)
    BY <1>8 DEF Release
  <2>2. t \in [D \ {h} -> CacheEntry] /\ \A x \in D \ {h} : t[x] = c.tab[x]
    BY <1>2 DEF Only
  <2>3. D \ {h} \in SUBSET HandleId
    BY <1>2
  <2> HIDE DEF t, D, d, o, v
  <2>4. d \in Caches /\ d.tab = t /\ d.order = o
    BY <1>2, <2>1, <2>2, <2>3, MakesCache
  <2>5. DOMAIN t = D \ {h} /\ v[h] = 0 /\ h \notin ToSet(o)
    BY <1>3, <1>4, <1>5, <1>6, <1>8, <2>2
  <2>6. ToSet(o) \subseteq D \ {h} /\ \A x \in HandleId : v[x] > 0 => x \in D \ {h}
    BY <1>5, <1>7, <2>5
  <2>7. ASSUME NEW x \in D \ {h} PROVE /\ x \in ToSet(o) <=> ~t[x].evicted
                                       /\ t[x].evicted => t[x].refs > 0
                                       /\ t[x].refs = v[x]
    <3>1. x \in HandleId /\ x \in D /\ x # h /\ t[x] = c.tab[x] /\ v[x] = u[x]
      BY <1>2, <1>5, <2>2
    <3>2. QED
      BY <1>6, <3>1
  <2>8. \A g, x \in ToSet(o) : g # x => t[g].file # t[x].file
    BY <1>2, <2>2, <2>6
  <2>9. CountedBy(d, v)
    BY <1>2, <2>4, <2>5, <2>6, <2>7, <2>8 DEF CountedBy
  <2>10. Descends(c, d)
    BY <2>2, <2>4, <2>5 DEF Descends, D
  <2>11. QED
    BY <2>4, <2>9, <2>10 DEF d, v, o
<1>9. CASE ~(c.tab[h].evicted /\ c.tab[h].refs = 1)
  <2> DEFINE q == [c.tab[h] EXCEPT !.refs = c.tab[h].refs - 1]
             t == [c.tab EXCEPT ![h] = q]
  <2>1. d = Cache(t, o)
    BY <1>9 DEF Release
  <2>2. /\ q \in CacheEntry /\ q.refs = u[h] - 1
        /\ q.file = c.tab[h].file /\ q.writable = c.tab[h].writable /\ q.evicted = c.tab[h].evicted
    <3>1. c.tab[h].refs - 1 \in Nat
      BY <1>4
    <3>2. /\ q \in CacheEntry /\ q.refs = c.tab[h].refs - 1
          /\ q.file = c.tab[h].file /\ q.writable = c.tab[h].writable /\ q.evicted = c.tab[h].evicted
      BY <1>4, <3>1, EntryUsed
    <3>3. QED
      BY <1>4, <3>2
  <2> HIDE DEF q
  <2>3. /\ t \in [D -> CacheEntry] /\ D \in SUBSET HandleId
        /\ t[h] = q /\ \A x \in D : x # h => t[x] = c.tab[x]
    BY <1>2, <1>3, <2>2
  <2> HIDE DEF t, D, d, o, v
  <2>4. d \in Caches /\ d.tab = t /\ d.order = o
    BY <1>2, <2>1, <2>3, MakesCache
  <2>5. DOMAIN t = D
    BY <2>3
  <2>6. \A x \in D : t[x].file = c.tab[x].file /\ t[x].writable = c.tab[x].writable
    BY <2>2, <2>3
  <2>7. ASSUME NEW x \in D PROVE /\ x \in ToSet(o) <=> ~t[x].evicted
                                 /\ t[x].evicted => t[x].refs > 0
                                 /\ t[x].refs = v[x]
    <3>1. CASE x = h
      <4>1. t[x].refs = v[x] /\ t[x].evicted = c.tab[h].evicted
        BY <1>5, <2>2, <2>3, <3>1
      <4>2. c.tab[h].evicted => v[h] > 0
        BY <1>4, <1>5, <1>9
      <4>3. h \in ToSet(o) <=> ~c.tab[h].evicted
        BY <1>3, <1>6
      <4>4. QED
        BY <3>1, <4>1, <4>2, <4>3
    <3>2. CASE x # h
      <4>1. x \in HandleId /\ t[x] = c.tab[x] /\ v[x] = u[x]
        BY <1>2, <1>5, <2>3, <3>2
      <4>2. QED
        BY <1>6, <4>1
    <3>3. QED
      BY <3>1, <3>2
  <2>8. \A x \in HandleId : v[x] > 0 => x \in D
    BY <1>3, <1>5, <1>7
  <2>9. \A g, x \in ToSet(o) : g # x => t[g].file # t[x].file
    BY <1>2, <1>7, <2>6
  <2>10. CountedBy(d, v)
    BY <1>2, <1>7, <2>4, <2>5, <2>7, <2>8, <2>9 DEF CountedBy
  <2>11. Descends(c, d)
    BY <2>4, <2>5, <2>6 DEF Descends, D
  <2>12. QED
    BY <2>4, <2>10, <2>11 DEF d, v, o
<1>10. QED
  BY <1>8, <1>9

\* closeAll.
LEMMA CloseAllKeeps ==
    ASSUME NEW u, NEW c, CountedBy(c, u)
    PROVE  LET d == CloseAll(c) IN CountedBy(d, u) /\ Descends(c, d) /\ d.order = <<>>
<1> DEFINE d == CloseAll(c)
           busy == {h \in DOMAIN c.tab : c.tab[h].refs > 0}
           t == [h \in busy |-> [c.tab[h] EXCEPT !.evicted = TRUE]]
<1>1. c \in Caches
  BY DEF CountedBy
<1>2. DOMAIN c.tab \subseteq HandleId /\ \A x \in DOMAIN c.tab : c.tab[x] \in CacheEntry
  BY <1>1, CachesAre
<1>3. d = Cache(t, <<>>)
  BY DEF CloseAll
<1>4. \A r \in CacheEntry : LET q == [r EXCEPT !.evicted = TRUE] IN
          q \in CacheEntry /\ q.evicted /\ q.refs = r.refs /\ q.file = r.file /\ q.writable = r.writable
  BY DEF CacheEntry
<1>5. /\ t \in [busy -> CacheEntry] /\ busy \in SUBSET HandleId /\ DOMAIN t = busy
      /\ \A x \in busy : /\ x \in DOMAIN c.tab /\ c.tab[x].refs > 0
                         /\ t[x].evicted /\ t[x].refs = c.tab[x].refs
                         /\ t[x].file = c.tab[x].file /\ t[x].writable = c.tab[x].writable
  BY <1>2, <1>4
<1>6. <<>> \in Seq(HandleId) /\ DOMAIN <<>> = {} /\ ToSet(<<>>) = {}
  BY DEF ToSet
<1>7. \A x \in HandleId : u[x] > 0 => x \in busy
  BY DEF CountedBy
<1> HIDE DEF t, busy, d
<1>8. d \in Caches /\ d.tab = t /\ d.order = <<>>
  BY <1>3, <1>5, <1>6, MakesCache
<1>9. \A x \in busy : t[x].refs = u[x]
  BY <1>5 DEF CountedBy
<1>10. CountedBy(d, u)
  BY <1>5, <1>6, <1>7, <1>8, <1>9 DEF CountedBy, OnceEach
<1>11. Descends(c, d)
  BY <1>5, <1>8 DEF Descends
<1>12. QED
  BY <1>8, <1>10, <1>11 DEF d

\* A set that another can tell apart is not larger.
LEMMA NotLarger ==
    ASSUME NEW S, NEW T, IsFiniteSet(S), IsFiniteSet(T), NEW f \in [S -> T],
           \A x, y \in S : f[x] = f[y] => x = y
    PROVE  Cardinality(S) <= Cardinality(T) /\ Cardinality(S) \in Nat /\ Cardinality(T) \in Nat
<1>1. Cardinality(S) \in Nat /\ Cardinality(T) \in Nat
  BY FS_CardinalityType
<1>2. ~(Cardinality(T) < Cardinality(S))
  BY FS_PigeonHole
<1>3. QED
  BY <1>1, <1>2

LEMMA MoreIs ==
    ASSUME NEW u \in [HandleId -> Nat], NEW h \in HandleId
    PROVE  More(u, h)[h] > 0 /\ \A x \in HandleId : u[x] > 0 => More(u, h)[x] > 0
BY DEF More

LEMMA UsesAreNumbers ==
    ASSUME NEW a
    PROVE  /\ Uses(a) \in [HandleId -> Nat]
           /\ \A h \in HandleId : /\ IsFiniteSet(UsersOf(a, h))
                                  /\ Uses(a)[h] = Cardinality(UsersOf(a, h))
                                  /\ Uses(a)[h] > 0 <=> UsersOf(a, h) # {}
<1>1. ASSUME NEW h \in HandleId
      PROVE  /\ IsFiniteSet(UsersOf(a, h)) /\ Cardinality(UsersOf(a, h)) \in Nat
             /\ Cardinality(UsersOf(a, h)) > 0 <=> UsersOf(a, h) # {}
  <2>1. UsersOf(a, h) \in SUBSET IoCall /\ IsFiniteSet(IoCall)
    BY FilesAssumption DEF UsersOf
  <2> DEFINE U == UsersOf(a, h)
  <2> HIDE DEF U
  <2>2. IsFiniteSet(U)
    BY <2>1, FS_Subset DEF U
  <2>3. Cardinality(U) \in Nat
    BY <2>2, FS_CardinalityType
  <2>4. Cardinality(U) = 0 <=> U = {}
    BY <2>2, FS_EmptySet
  <2>5. QED
    BY <2>2, <2>3, <2>4 DEF U
<1>2. QED
  BY <1>1 DEF Uses

\* A call begins to use a handle.
LEMMA UsesMore ==
    ASSUME NEW a, NEW b, NEW k \in IoCall, NEW h \in HandleId,
           \A c \in IoCall : c # k => a[c] = b[c],
           \A g \in HandleId : k \notin UsersOf(a, g),
           b[k].kind # "none", b[k].holds = h
    PROVE  Uses(b) = More(Uses(a), h)
<1>1. \A g \in HandleId : g # h => UsersOf(b, g) = UsersOf(a, g)
  BY DEF UsersOf
<1>2. UsersOf(b, h) = UsersOf(a, h) \cup {k} /\ k \notin UsersOf(a, h)
  BY DEF UsersOf
<1>3. IsFiniteSet(UsersOf(a, h))
  BY UsesAreNumbers
<1> DEFINE U == UsersOf(a, h)
<1> HIDE DEF U
<1>4. Cardinality(U \cup {k}) = Cardinality(U) + 1
  BY <1>2, <1>3, FS_AddElement DEF U
<1>5. Cardinality(UsersOf(b, h)) = Cardinality(UsersOf(a, h)) + 1
  BY <1>2, <1>4 DEF U
<1>6. QED
  BY <1>1, <1>5 DEF Uses, More

\* If every file of the order is used, there are no more than calls.
LEMMA AllBusy ==
    ASSUME NEW a, NEW c, CountedBy(c, Uses(a)), Idlers(c) = {}
    PROVE  Len(c.order) <= Cardinality(IoCall)
<1> DEFINE n == Len(c.order)
           f == [i \in 1..n |-> CHOOSE k \in UsersOf(a, c.order[i]) : TRUE]
<1>1. n \in Nat /\ DOMAIN c.order = 1..n /\ DOMAIN c.tab \subseteq HandleId
      /\ \A x \in DOMAIN c.tab : c.tab[x].refs \in Nat
  <2>1. c \in Caches
    BY DEF CountedBy
  <2>2. c.order \in Seq(HandleId) /\ DOMAIN c.tab \subseteq HandleId /\ \A x \in DOMAIN c.tab : c.tab[x] \in CacheEntry
    BY <2>1, CachesAre
  <2>3. \A r \in CacheEntry : r.refs \in Nat
    BY DEF CacheEntry
  <2>4. QED
    BY <2>2, <2>3
<1>2. IsFiniteSet(1..n) /\ Cardinality(1..n) = n
  <2>1. n \in Int /\ 1 \in Int
    BY <1>1
  <2>2. IsFiniteSet(1..n) /\ Cardinality(1..n) = IF 1 > n THEN 0 ELSE n - 1 + 1
    BY <2>1, FS_Interval
  <2>3. QED
    BY <1>1, <2>2
<1>3. ASSUME NEW i \in 1..n
      PROVE  c.order[i] \in HandleId /\ f[i] \in UsersOf(a, c.order[i])
  <2>1. c.order[i] \in DOMAIN c.tab
    BY <1>1 DEF CountedBy, ToSet
  <2>2. c.tab[c.order[i]].refs # 0
    BY <1>1 DEF Idlers
  <2>3. c.order[i] \in HandleId /\ Uses(a)[c.order[i]] > 0
    BY <1>1, <2>1, <2>2 DEF CountedBy
  <2>4. UsersOf(a, c.order[i]) # {}
    BY <2>3, UsesAreNumbers
  <2>5. QED
    BY <2>3, <2>4
<1>4. f \in [1..n -> IoCall]
  BY <1>3 DEF UsersOf
<1>5. \A i, j \in 1..n : f[i] = f[j] => i = j
  <2> HIDE DEF f
  <2> SUFFICES ASSUME NEW i \in 1..n, NEW j \in 1..n, f[i] = f[j] PROVE i = j
    OBVIOUS
  <2>1. c.order[i] = a[f[i]].holds /\ c.order[j] = a[f[j]].holds
    BY <1>3 DEF UsersOf
  <2>2. c.order[i] = c.order[j]
    BY <2>1
  <2>3. QED
    BY <1>1, <2>2 DEF CountedBy, OnceEach
<1> HIDE DEF f
<1>6. IsFiniteSet(IoCall)
  BY FilesAssumption
<1>7. Cardinality(1..n) <= Cardinality(IoCall)
  BY <1>2, <1>4, <1>5, <1>6, NotLarger
<1>8. QED
  BY <1>2, <1>7

\* There is always a name for one more open file.
LEMMA NameIsFree ==
    ASSUME NEW a, NEW c, CountedBy(c, Uses(a)),
           Len(c.order) <= MaxOpenFiles + Cardinality(IoCall) - 1
    PROVE  FreeId(c) \in HandleId /\ FreeId(c) \notin DOMAIN c.tab
<1> DEFINE n == Len(c.order)
           D == DOMAIN c.tab
           S == ToSet(c.order)
           B == {h \in D : UsersOf(a, h) # {}}
           f == [h \in S |-> CHOOSE i \in 1..n : c.order[i] = h]
           g == [h \in B |-> CHOOSE k \in UsersOf(a, h) : TRUE]
<1>1. n \in Nat /\ DOMAIN c.order = 1..n /\ D \subseteq HandleId /\ S \subseteq D
  <2>1. c \in Caches /\ S \subseteq D
    BY DEF CountedBy
  <2>2. c.order \in Seq(HandleId) /\ D \subseteq HandleId
    BY <2>1, CachesAre
  <2>3. QED
    BY <2>1, <2>2
<1>2. /\ MaxOpenFiles \in Nat /\ IsFiniteSet(IoCall) /\ IsFiniteSet(HandleId)
      /\ Cardinality(HandleId) >= MaxOpenFiles + 2 * Cardinality(IoCall)
      /\ Cardinality(IoCall) \in Nat
  BY FilesAssumption, FS_CardinalityType
<1>3. IsFiniteSet(1..n) /\ Cardinality(1..n) = n
  <2>1. n \in Int /\ 1 \in Int
    BY <1>1
  <2>2. IsFiniteSet(1..n) /\ Cardinality(1..n) = IF 1 > n THEN 0 ELSE n - 1 + 1
    BY <2>1, FS_Interval
  <2>3. QED
    BY <1>1, <2>2
<1>4. IsFiniteSet(D) /\ IsFiniteSet(S) /\ IsFiniteSet(B)
  <2>1. D \in SUBSET HandleId /\ S \in SUBSET HandleId /\ B \in SUBSET HandleId
    BY <1>1
  <2> HIDE DEF D, S, B
  <2>2. QED
    BY <1>2, <2>1, FS_Subset
<1>5. Cardinality(S) <= n /\ Cardinality(S) \in Nat
  <2>1. \A h \in S : f[h] \in 1..n /\ c.order[f[h]] = h
    BY <1>1 DEF ToSet
  <2>2. f \in [S -> 1..n]
    BY <2>1
  <2> HIDE DEF f, S
  <2>3. \A x, y \in S : f[x] = f[y] => x = y
    BY <2>1
  <2>4. QED
    BY <1>3, <1>4, <2>2, <2>3, NotLarger
<1>6. Cardinality(B) <= Cardinality(IoCall) /\ Cardinality(B) \in Nat
  <2>1. \A h \in B : g[h] \in UsersOf(a, h)
    OBVIOUS
  <2>2. g \in [B -> IoCall]
    BY <2>1 DEF UsersOf
  <2> HIDE DEF g, B
  <2>3. \A x, y \in B : g[x] = g[y] => x = y
    BY <2>1 DEF UsersOf
  <2>4. QED
    BY <1>2, <1>4, <2>2, <2>3, NotLarger
<1>7. D \subseteq S \cup B
  <2> SUFFICES ASSUME NEW h \in D, h \notin S PROVE UsersOf(a, h) # {}
    OBVIOUS
  <2>1. h \in HandleId /\ Uses(a)[h] > 0
    BY <1>1 DEF CountedBy
  <2>2. QED
    BY <2>1, UsesAreNumbers
<1> HIDE DEF D, S, B, f, g, n
<1>8. Cardinality(D) <= n + Cardinality(IoCall) /\ Cardinality(D) \in Nat
  <2>1. /\ IsFiniteSet(S \cup B) /\ Cardinality(S \cap B) \in Nat
        /\ Cardinality(S \cup B) = Cardinality(S) + Cardinality(B) - Cardinality(S \cap B)
    <3>1. IsFiniteSet(S \cap B)
      BY <1>4, FS_Intersection
    <3>2. QED
      BY <1>4, <3>1, FS_Union, FS_CardinalityType
  <2>2. Cardinality(D) <= Cardinality(S \cup B) /\ Cardinality(D) \in Nat
    BY <1>4, <1>7, <2>1, FS_Subset, FS_CardinalityType
  <2>3. QED
    BY <1>1, <1>2, <1>5, <1>6, <2>1, <2>2
<1>9. D # HandleId
  <2>1. n <= MaxOpenFiles + Cardinality(IoCall) - 1
    BY DEF n
  <2>2. Cardinality(D) < Cardinality(HandleId)
    <3>1. Cardinality(HandleId) \in Nat
      BY <1>2, FS_CardinalityType
    <3>2. QED
      BY <1>1, <1>2, <1>8, <2>1, <3>1
  <2>3. QED
    BY <1>8, <2>2
<1>10. \E h \in HandleId : h \notin DOMAIN c.tab
  BY <1>1, <1>9 DEF D
<1>11. QED
  BY <1>10 DEF FreeId

\* What an acquire must do: the file in front is the one that was asked for, what
\* is in use stays, and the cache keeps its bound.
MostOpen == MaxOpenFiles + Cardinality(IoCall) - 1
Fits(a, k, c, d, f, w) ==
    LET h == d.order[1] IN
    /\ h \in HandleId /\ CountedBy(d, Uses([a EXCEPT ![k].holds = h]))
    /\ h \in DOMAIN d.tab /\ d.tab[h].file = f
    /\ w => d.tab[h].writable
    /\ \A x \in DOMAIN c.tab : Uses(a)[x] > 0 =>
           x \in DOMAIN d.tab /\ d.tab[x].file = c.tab[x].file /\ d.tab[x].writable = c.tab[x].writable
    /\ Len(d.order) <= MostOpen
Writables(c) == \A x \in DOMAIN c.tab : c.tab[x].writable

LEMMA RoomIs ==
    ASSUME NEW k \in IoCall
    PROVE  MostOpen \in Nat /\ MaxOpenFiles <= MostOpen /\ Cardinality(IoCall) <= MostOpen
<1>1. MaxOpenFiles \in Nat \ {0} /\ IsFiniteSet(IoCall)
  BY FilesAssumption
<1>2. Cardinality(IoCall) \in Nat /\ Cardinality(IoCall) # 0
  BY <1>1, FS_CardinalityType, FS_EmptySet
<1>3. QED
  BY <1>1, <1>2 DEF MostOpen

LEMMA UsesAfter ==
    ASSUME NEW a, DOMAIN a = IoCall, NEW k \in IoCall, a[k] \in IoCalls, a[k].holds = 0,
           NEW h \in HandleId
    PROVE  Uses([a EXCEPT ![k].holds = h]) = More(Uses(a), h)
<1> DEFINE b == [a EXCEPT ![k].holds = h]
<1>1. \A c \in IoCall : c # k => a[c] = b[c]
  OBVIOUS
<1>2. b[k] = [a[k] EXCEPT !.holds = h]
  OBVIOUS
<1>3. b[k].kind = a[k].kind /\ b[k].holds = h /\ a[k].kind # "none"
  BY <1>2 DEF IoCalls
<1>4. 0 \notin HandleId
  BY FilesAssumption
<1>5. \A g \in HandleId : k \notin UsersOf(a, g)
  BY <1>4 DEF UsersOf
<1> HIDE DEF b
<1>6. QED
  BY <1>1, <1>3, <1>5, UsesMore DEF b

Suits(c, h, w) == w => c.tab[h].writable

LEMMA HeldServes ==
    ASSUME NEW a, DOMAIN a = IoCall, NEW k \in IoCall, a[k] \in IoCalls, a[k].holds = 0,
           NEW c, CountedBy(c, Uses(a)), Len(c.order) <= MostOpen,
           NEW f \in DOMAIN FileLength, NEW w \in BOOLEAN,
           NEW h \in ToSet(c.order), c.tab[h].file = f, Suits(c, h, w)
    PROVE  Fits(a, k, c, Held(c, h), f, w) /\ (Writables(c) => Writables(Held(c, h)))
<1> DEFINE d == Held(c, h)
<1>1. Uses(a) \in [HandleId -> Nat]
  BY UsesAreNumbers
<1>2. /\ CountedBy(d, More(Uses(a), h))
      /\ Len(d.order) = Len(c.order) /\ d.order[1] = h
      /\ DOMAIN d.tab = DOMAIN c.tab /\ h \in DOMAIN c.tab
      /\ \A x \in DOMAIN d.tab : d.tab[x].file = c.tab[x].file /\ d.tab[x].writable = c.tab[x].writable
  BY <1>1, HeldKeeps
<1>3. h \in HandleId
  <2>1. c \in Caches
    BY DEF CountedBy
  <2>2. QED
    BY <1>2, <2>1, CachesAre
<1>4. Uses([a EXCEPT ![k].holds = h]) = More(Uses(a), h)
  BY <1>3, UsesAfter
<1> HIDE DEF d
<1>5. CountedBy(d, Uses([a EXCEPT ![k].holds = d.order[1]]))
  BY <1>2, <1>4
<1>6. Fits(a, k, c, d, f, w)
  BY <1>2, <1>3, <1>5 DEF Fits, Suits
<1>7. Writables(c) => Writables(d)
  BY <1>2 DEF Writables
<1>8. QED
  BY <1>6, <1>7 DEF d

LEMMA OpenServes ==
    ASSUME NEW a, DOMAIN a = IoCall, NEW k \in IoCall, a[k] \in IoCalls, a[k].holds = 0,
           NEW c, CountedBy(c, Uses(a)), Len(c.order) <= MostOpen,
           NEW f \in DOMAIN FileLength, NEW w \in BOOLEAN, Cached(c, f) = {}
    PROVE  Fits(a, k, c, Trim(Opened(c, f, w)), f, w) /\ (Writables(c) /\ w => Writables(Trim(Opened(c, f, w))))
<1> DEFINE h == FreeId(c)
           o == Opened(c, f, w)
           d == Trim(o)
           v == Uses([a EXCEPT ![k].holds = h])
<1>1. Uses(a) \in [HandleId -> Nat]
  BY UsesAreNumbers
<1>2. h \in HandleId /\ h \notin DOMAIN c.tab
  BY NameIsFree DEF MostOpen
<1>3. /\ CountedBy(o, More(Uses(a), h))
      /\ Len(o.order) = Len(c.order) + 1 /\ o.order[1] = h
      /\ h \in DOMAIN o.tab /\ o.tab[h].file = f /\ o.tab[h].writable = w
      /\ \A x \in DOMAIN o.tab : x # h => /\ x \in DOMAIN c.tab /\ o.tab[x].file = c.tab[x].file
                                          /\ o.tab[x].writable = c.tab[x].writable
  BY <1>1, <1>2, OpenedKeeps
<1>4. v = More(Uses(a), h)
  BY <1>2, UsesAfter
<1>5. v[h] > 0 /\ \A x \in HandleId : Uses(a)[x] > 0 => v[x] > 0
  BY <1>1, <1>2, <1>4, MoreIs
<1>6. MostOpen \in Nat /\ MaxOpenFiles <= MostOpen /\ Cardinality(IoCall) <= MostOpen
  BY RoomIs
<1>7. /\ Len(c.order) \in Nat /\ Len(o.order) \in Nat
      /\ c \in Caches /\ o \in Caches
  <2>1. c \in Caches /\ o \in Caches
    BY <1>3 DEF CountedBy
  <2>2. c.order \in Seq(HandleId) /\ o.order \in Seq(HandleId)
    BY <2>1, CachesAre
  <2>3. QED
    BY <2>1, <2>2
<1> HIDE DEF h, o, d
<1>8. /\ CountedBy(d, v) /\ Descends(o, d)
      /\ Len(d.order) > 0 /\ d.order[1] = h
      /\ Len(d.order) <= Len(o.order)
      /\ Idlers(o) # {} => Len(d.order) <= MostOpen
  <2>1. CountedBy(o, v) /\ Len(o.order) > 0 /\ Len(o.order) <= MostOpen + 1
    BY <1>3, <1>4, <1>6, <1>7
  <2> HIDE DEF v
  <2>2. Trimmed(v, o, Trim(o), h, MostOpen)
    BY <1>2, <1>3, <1>5, <1>6, <2>1, TrimKeeps
  <2>3. QED
    BY <2>2 DEF Trimmed, d
<1>9. Len(d.order) <= MostOpen
  <2>1. CASE Idlers(o) # {}
    BY <1>8, <2>1
  <2>2. CASE Idlers(o) = {}
    <3>1. Len(o.order) <= Cardinality(IoCall)
      BY <1>3, <1>4, <2>2, AllBusy
    <3>2. Len(d.order) \in Nat
      <4>1. d \in Caches
        BY <1>8 DEF CountedBy
      <4>2. QED
        BY <4>1, CachesAre
    <3>3. Cardinality(IoCall) \in Nat
      BY FilesAssumption, FS_CardinalityType
    <3>4. QED
      BY <1>6, <1>7, <1>8, <3>1, <3>2, <3>3
  <2>3. QED
    BY <2>1, <2>2
<1>10. h \in DOMAIN d.tab /\ d.tab[h].file = f /\ d.tab[h].writable = w
  <2>1. h \in DOMAIN d.tab
    BY <1>2, <1>5, <1>8 DEF CountedBy
  <2>2. QED
    BY <1>3, <1>8, <2>1 DEF Descends
<1>11. ASSUME NEW x \in DOMAIN c.tab, Uses(a)[x] > 0
       PROVE  x \in DOMAIN d.tab /\ d.tab[x].file = c.tab[x].file /\ d.tab[x].writable = c.tab[x].writable
  <2>1. x \in HandleId /\ x # h
    BY <1>2, <1>7, CachesAre
  <2>2. x \in DOMAIN d.tab
    BY <1>5, <1>8, <1>11, <2>1 DEF CountedBy
  <2>3. x \in DOMAIN o.tab /\ d.tab[x].file = o.tab[x].file /\ d.tab[x].writable = o.tab[x].writable
    BY <1>8, <2>2 DEF Descends
  <2>4. QED
    BY <1>3, <2>1, <2>2, <2>3
<1>12. Fits(a, k, c, d, f, w)
  BY <1>2, <1>8, <1>9, <1>10, <1>11 DEF Fits, v
<1>13. Writables(c) /\ w => Writables(d)
  <2> SUFFICES ASSUME Writables(c), w, NEW x \in DOMAIN d.tab PROVE d.tab[x].writable
    BY DEF Writables
  <2>1. x \in DOMAIN o.tab /\ d.tab[x].writable = o.tab[x].writable
    BY <1>8 DEF Descends
  <2>2. CASE x = h
    BY <1>3, <2>1, <2>2
  <2>3. CASE x # h
    BY <1>3, <2>1, <2>3 DEF Writables
  <2>4. QED
    BY <2>2, <2>3
<1>14. QED
  BY <1>12, <1>13 DEF d, o

\* acquire, of handles and of mappings.
LEMMA AcquireServes ==
    ASSUME NEW a, DOMAIN a = IoCall, NEW k \in IoCall, a[k] \in IoCalls, a[k].holds = 0,
           NEW c, CountedBy(c, Uses(a)), Len(c.order) <= MostOpen,
           NEW f \in DOMAIN FileLength, NEW w \in BOOLEAN
    PROVE  Fits(a, k, c, Acquired(c, f, w), f, w)
<1>1. CASE \E h \in Cached(c, f) : ~w \/ c.tab[h].writable
  <2> DEFINE h == CHOOSE h \in {g \in Cached(c, f) : ~w \/ c.tab[g].writable} : TRUE
  <2>1. h \in {g \in Cached(c, f) : ~w \/ c.tab[g].writable}
    BY <1>1
  <2>2. Acquired(c, f, w) = Held(c, h)
    BY <1>1 DEF Acquired
  <2> HIDE DEF h
  <2>3. h \in ToSet(c.order) /\ c.tab[h].file = f /\ Suits(c, h, w)
    BY <2>1 DEF Cached, Suits
  <2>4. Fits(a, k, c, Held(c, h), f, w)
    BY <2>3, HeldServes
  <2>5. QED
    BY <2>2, <2>4
<1>2. CASE ~(\E h \in Cached(c, f) : ~w \/ c.tab[h].writable) /\ Cached(c, f) = {}
  <2>1. Acquired(c, f, w) = Trim(Opened(c, f, w))
    BY <1>2 DEF Acquired
  <2>2. QED
    BY <1>2, <2>1, OpenServes
<1>3. CASE ~(\E h \in Cached(c, f) : ~w \/ c.tab[h].writable) /\ Cached(c, f) # {}
  <2> DEFINE h == CHOOSE h \in Cached(c, f) : TRUE
             e == Evict(c, h)
  <2>1. h \in Cached(c, f)
    BY <1>3
  <2>2. Acquired(c, f, w) = Trim(Opened(e, f, w))
    BY <1>3 DEF Acquired
  <2> HIDE DEF h
  <2>3. h \in ToSet(c.order) /\ c.tab[h].file = f
    BY <2>1 DEF Cached
  <2>4. /\ CountedBy(e, Uses(a)) /\ Descends(c, e)
        /\ Len(e.order) = Len(c.order) - 1 /\ ToSet(e.order) = ToSet(c.order) \ {h}
    BY <2>3, EvictKeeps
  <2>5. Len(c.order) \in Nat /\ MostOpen \in Nat /\ DOMAIN c.tab \subseteq HandleId
    <3>1. c \in Caches
      BY DEF CountedBy
    <3>2. c.order \in Seq(HandleId) /\ DOMAIN c.tab \subseteq HandleId
      BY <3>1, CachesAre
    <3>3. QED
      BY <3>2, RoomIs
  <2> HIDE DEF e
  <2>6. Len(e.order) <= MostOpen
    BY <2>4, <2>5
  <2>7. Cached(e, f) = {}
    <3> SUFFICES ASSUME NEW g \in ToSet(e.order), e.tab[g].file = f PROVE FALSE
      BY DEF Cached
    <3>1. g \in ToSet(c.order) /\ g # h /\ g \in DOMAIN e.tab
      BY <2>4 DEF CountedBy
    <3>2. c.tab[g].file = f
      BY <2>4, <3>1 DEF Descends
    <3>3. QED
      BY <2>3, <3>1, <3>2 DEF CountedBy
  <2> DEFINE d == Trim(Opened(e, f, w))
  <2>8. Fits(a, k, e, d, f, w)
    BY <2>4, <2>6, <2>7, OpenServes
  <2> HIDE DEF d
  <2>9. ASSUME NEW x \in DOMAIN c.tab, Uses(a)[x] > 0
        PROVE  x \in DOMAIN d.tab /\ d.tab[x].file = c.tab[x].file /\ d.tab[x].writable = c.tab[x].writable
    <3>1. x \in DOMAIN e.tab
      BY <2>4, <2>5, <2>9 DEF CountedBy
    <3>2. e.tab[x].file = c.tab[x].file /\ e.tab[x].writable = c.tab[x].writable
      BY <2>4, <3>1 DEF Descends
    <3>3. x \in DOMAIN d.tab /\ d.tab[x].file = e.tab[x].file /\ d.tab[x].writable = e.tab[x].writable
      BY <2>8, <2>9, <3>1 DEF Fits
    <3>4. QED
      BY <3>2, <3>3
  <2>10. Fits(a, k, c, d, f, w)
    BY <2>8, <2>9 DEF Fits
  <2>11. QED
    BY <2>2, <2>10 DEF d
<1>4. QED
  BY <1>1, <1>2, <1>3

LEMMA AcquireMappingServes ==
    ASSUME NEW a, DOMAIN a = IoCall, NEW k \in IoCall, a[k] \in IoCalls, a[k].holds = 0,
           NEW c, CountedBy(c, Uses(a)), Len(c.order) <= MostOpen, Writables(c),
           NEW f \in DOMAIN FileLength
    PROVE  Fits(a, k, c, AcquiredMapping(c, f), f, TRUE) /\ Writables(AcquiredMapping(c, f))
<1>1. CASE Cached(c, f) # {}
  <2> DEFINE h == CHOOSE h \in Cached(c, f) : TRUE
  <2>1. h \in Cached(c, f)
    BY <1>1
  <2>2. AcquiredMapping(c, f) = Held(c, h)
    BY <1>1 DEF AcquiredMapping
  <2> HIDE DEF h
  <2>3. h \in ToSet(c.order) /\ c.tab[h].file = f
    BY <2>1 DEF Cached
  <2>4. Suits(c, h, TRUE)
    BY <2>3 DEF CountedBy, Writables, Suits
  <2>5. QED
    BY <2>2, <2>3, <2>4, HeldServes
<1>2. CASE Cached(c, f) = {}
  <2>1. AcquiredMapping(c, f) = Trim(Opened(c, f, TRUE))
    BY <1>2 DEF AcquiredMapping
  <2>2. QED
    BY <1>2, <2>1, OpenServes
<1>3. QED
  BY <1>1, <1>2

LEMMA UsesSame ==
    ASSUME NEW a, NEW b, NEW k \in IoCall, \A c \in IoCall : c # k => a[c] = b[c],
           \A g \in HandleId : k \notin UsersOf(a, g) /\ k \notin UsersOf(b, g)
    PROVE  Uses(b) = Uses(a)
<1>1. \A g \in HandleId : UsersOf(b, g) = UsersOf(a, g)
  BY DEF UsersOf
<1>2. QED
  BY <1>1 DEF Uses

LEMMA LessMore ==
    ASSUME NEW u \in [HandleId -> Nat], NEW h \in HandleId
    PROVE  Less(More(u, h), h) = u /\ More(u, h)[h] > 0
<1> DEFINE m == More(u, h)
<1>1. m \in [HandleId -> Nat] /\ m[h] = u[h] + 1 /\ \A x \in HandleId : x # h => m[x] = u[x]
  BY DEF More
<1> HIDE DEF m
<1>2. Less(m, h) \in [HandleId -> Int] /\ u \in [HandleId -> Int]
  BY <1>1 DEF Less
<1>3. ASSUME NEW x \in HandleId PROVE Less(m, h)[x] = u[x]
  <2>1. CASE x = h
    <3>1. Less(m, h)[h] = m[h] - 1
      BY <1>1 DEF Less
    <3>2. QED
      BY <1>1, <2>1, <3>1
  <2>2. CASE x # h
    BY <1>1, <2>2 DEF Less
  <2>3. QED
    BY <2>1, <2>2
<1>4. Less(m, h) = u
  BY <1>2, <1>3
<1>5. m[h] > 0
  BY <1>1
<1>6. QED
  BY <1>4, <1>5 DEF m

\* A call ceases to use a handle.
LEMMA UsesLess ==
    ASSUME NEW a, NEW b, NEW k \in IoCall, NEW h \in HandleId,
           \A c \in IoCall : c # k => a[c] = b[c],
           \A g \in HandleId : k \notin UsersOf(b, g),
           a[k].kind # "none", a[k].holds = h
    PROVE  Uses(b) = Less(Uses(a), h) /\ Uses(a)[h] > 0
<1>1. \A c \in IoCall : c # k => b[c] = a[c]
  OBVIOUS
<1>2. Uses(a) = More(Uses(b), h)
  BY <1>1, UsesMore
<1>3. Uses(b) \in [HandleId -> Nat]
  BY UsesAreNumbers
<1>4. Less(More(Uses(b), h), h) = Uses(b) /\ More(Uses(b), h)[h] > 0
  BY <1>3, LessMore
<1>5. QED
  BY <1>2, <1>4

\* What a call uses is as it was when something else leaves the cache.
LEMMA UsedStays ==
    ASSUME NEW b, NEW c, NEW d, CountedBy(d, Uses(b)), Descends(c, d),
           NEW x \in IoCall, b[x].kind # "none", b[x].holds \in HandleId
    PROVE  /\ b[x].holds \in DOMAIN d.tab
           /\ d.tab[b[x].holds].file = c.tab[b[x].holds].file
           /\ d.tab[b[x].holds].writable = c.tab[b[x].holds].writable
<1>1. x \in UsersOf(b, b[x].holds)
  BY DEF UsersOf
<1>2. Uses(b)[b[x].holds] > 0
  BY <1>1, UsesAreNumbers
<1>3. b[x].holds \in DOMAIN d.tab
  BY <1>2 DEF CountedBy
<1>4. QED
  BY <1>3 DEF Descends

LEMMA CacheFields ==
    ASSUME NEW t, NEW o
    PROVE  Cache(t, o).tab = t /\ Cache(t, o).order = o
BY DEF Cache

LEMMA FilesInitially == FilesInit => FilesIInv
<1> SUFFICES ASSUME FilesInit PROVE FilesIInv
  OBVIOUS
<1>1. /\ useMmap \in BOOLEAN /\ exists \subseteq DOMAIN FileLength
      /\ handles = <<>> /\ lru = <<>> /\ io = [c \in IoCall |-> NotIo]
  BY FilesAssumption DEF FilesInit
<1>2. DOMAIN io = IoCall /\ \A c \in IoCall : io[c] = NotIo /\ io[c].kind = "none"
  BY <1>1 DEF NotIo
<1>3. \A h \in HandleId : UsersOf(io, h) = {}
  BY <1>2 DEF UsersOf
<1>4. \A h \in HandleId : ~(Uses(io)[h] > 0)
  BY <1>3, UsesAreNumbers
<1>5. <<>> \in [{} -> CacheEntry] /\ <<>> \in Seq(HandleId) /\ DOMAIN <<>> = {} /\ ToSet(<<>>) = {}
  BY DEF ToSet
<1>6. Cache(<<>>, <<>>) \in Caches
  <2>1. {} \in SUBSET HandleId
    OBVIOUS
  <2>2. QED
    BY <1>5, <2>1, MakesCache
<1>7. CountedBy(Cache(handles, lru), Uses(io))
  BY <1>1, <1>4, <1>5, <1>6, CacheFields DEF CountedBy, OnceEach
<1>8. CacheIsBounded
  <2>1. Len(lru) = 0 /\ MaxOpenFiles \in Nat \ {0} /\ Cardinality(IoCall) \in Nat
    BY <1>1, FilesAssumption, FS_CardinalityType
  <2>2. QED
    BY <2>1 DEF CacheIsBounded
<1>9. WritesLand
  BY <1>2 DEF WritesLand
<1>10. \A h \in DOMAIN handles : FALSE
  BY <1>1, <1>5
<1>11. QED
  BY <1>1, <1>2, <1>7, <1>8, <1>9, <1>10 DEF FilesIInv

\* Where a write has come to, its bytes are in their place.
LEMMA LandedStay ==
    ASSUME WritesLand, filled \subseteq filled', NEW k \in IoCall,
           \A x \in IoCall : x # k => io'[x] = io[x],
           io'[k].kind = "write" => \A off \in io'[k].from..io'[k].at - 1 : BytesOf(off) \in filled'
    PROVE  WritesLand'
<1>1. ASSUME NEW x \in IoCall, io'[x].kind = "write", NEW off \in io'[x].from..io'[x].at - 1
      PROVE  BytesOf(off) \in filled'
  <2>1. CASE x = k
    BY <1>1, <2>1
  <2>2. CASE x # k
    <3>1. io'[x] = io[x]
      BY <2>2
    <3>2. BytesOf(off) \in filled
      BY <1>1, <3>1 DEF WritesLand
    <3>3. QED
      BY <3>2
  <2>3. QED
    BY <2>1, <2>2
<1>2. QED
  BY <1>1 DEF WritesLand

LEMMA BeginIoKeeps ==
    ASSUME FilesIInv, NEW c \in IoCall, NEW kind \in {"read", "write"},
           NEW from \in 0..TotalLength, NEW to \in 0..TotalLength, from < to, BeginIo(c, kind, from, to)
    PROVE  FilesIInv'
<1> DEFINE r == [kind |-> kind, at |-> from, from |-> from, to |-> to, holds |-> 0]
<1>1. /\ io[c] = NotIo /\ io' = [io EXCEPT ![c] = r]
      /\ UNCHANGED <<useMmap, exists, handles, lru, filled>>
  BY DEF BeginIo
<1>2. DOMAIN io = IoCall
  BY DEF FilesIInv
<1>3. DOMAIN io' = IoCall /\ io'[c] = r /\ \A x \in IoCall : x # c => io'[x] = io[x]
  BY <1>1, <1>2
<1>4. TotalLength \in Nat /\ 0 \notin HandleId
  BY FilesAssumption, OffsetsAre DEF TotalLength
<1>5. r \in IoCalls /\ InRange(r) /\ \A t : HoldsItsFile(r, t)
  BY <1>4 DEF IoCalls, InRange, HoldsItsFile
<1>6. \A g \in HandleId : c \notin UsersOf(io, g) /\ c \notin UsersOf(io', g)
  BY <1>1, <1>3, <1>4 DEF UsersOf, NotIo
<1>7. Uses(io') = Uses(io)
  BY <1>3, <1>6, UsesSame
<1>8. \A x \in IoCall : io'[x] # NotIo => io'[x] \in IoCalls /\ InRange(io'[x]) /\ HoldsItsFile(io'[x], handles')
  BY <1>1, <1>3, <1>5 DEF FilesIInv
<1>9. WritesLand'
  <2>1. io'[c].from..io'[c].at - 1 = {}
    BY <1>3, <1>4
  <2>2. WritesLand /\ filled \subseteq filled'
    BY <1>1 DEF FilesIInv
  <2>3. QED
    BY <1>3, <2>1, <2>2, LandedStay
<1> HIDE DEF r
<1>10. QED
  BY <1>1, <1>3, <1>7, <1>8, <1>9 DEF FilesIInv, CacheIsBounded

LEMMA AcquireFileKeeps ==
    ASSUME FilesIInv, NEW c \in IoCall, AcquireFile(c)
    PROVE  FilesIInv'
<1> DEFINE f == RegionAt(io[c].at)
           cache == Cache(handles, lru)
           next == IF useMmap THEN AcquiredMapping(cache, f) ELSE Acquired(cache, f, io[c].kind = "write")
           w == io[c].kind = "write"
<1>1. /\ io[c].kind \in {"read", "write"} /\ io[c].holds = 0 /\ io[c].at < io[c].to
      /\ \/ io' = [io EXCEPT ![c] = NotIo] /\ UNCHANGED <<handles, lru>>
         \/ Becomes(next) /\ io' = [io EXCEPT ![c].holds = next.order[1]]
      /\ UNCHANGED <<useMmap, exists, filled>>
  BY DEF AcquireFile
<1>2. /\ DOMAIN io = IoCall
      /\ io[c] # NotIo
      /\ \A x \in IoCall : io[x] # NotIo => io[x] \in IoCalls /\ InRange(io[x]) /\ HoldsItsFile(io[x], handles)
      /\ useMmap \in BOOLEAN /\ CountedBy(cache, Uses(io)) /\ WritesLand
  BY <1>1 DEF FilesIInv, NotIo
<1>3. io[c] \in IoCalls /\ InRange(io[c])
  BY <1>2
<1>4. TotalLength \in Nat /\ 0 \notin HandleId
  BY FilesAssumption, OffsetsAre DEF TotalLength
<1>5. f \in DOMAIN FileLength
  <2>1. io[c].at \in Nat /\ io[c].at < TotalLength
    BY <1>1, <1>3, <1>4 DEF IoCalls
  <2>2. QED
    BY <2>1, RegionHolds
<1>6. cache.tab = handles /\ cache.order = lru
  BY CacheFields
<1> HIDE DEF f, next, cache
<1>7. CASE io' = [io EXCEPT ![c] = NotIo] /\ UNCHANGED <<handles, lru>>
  <2>1. DOMAIN io' = IoCall /\ io'[c] = NotIo /\ \A x \in IoCall : x # c => io'[x] = io[x]
    BY <1>2, <1>7
  <2>2. \A g \in HandleId : c \notin UsersOf(io, g) /\ c \notin UsersOf(io', g)
    BY <1>1, <1>4, <2>1 DEF UsersOf, NotIo
  <2>3. Uses(io') = Uses(io)
    BY <2>1, <2>2, UsesSame
  <2>4. WritesLand'
    <3>1. io'[c].kind # "write" /\ filled \subseteq filled'
      BY <1>1, <2>1 DEF NotIo
    <3>2. QED
      BY <1>2, <2>1, <3>1, LandedStay
  <2>5. \A x \in IoCall : io'[x] # NotIo => io'[x] \in IoCalls /\ InRange(io'[x]) /\ HoldsItsFile(io'[x], handles')
    BY <1>2, <1>7, <2>1
  <2>6. QED
    BY <1>1, <1>7, <2>1, <2>3, <2>4, <2>5 DEF FilesIInv, CacheIsBounded
<1>8. CASE Becomes(next) /\ io' = [io EXCEPT ![c].holds = next.order[1]]
  <2> DEFINE h == next.order[1]
  <2>1. Len(cache.order) <= MostOpen
    BY <1>6 DEF FilesIInv, CacheIsBounded, MostOpen
  <2>2. /\ Fits(io, c, cache, next, f, w)
        /\ useMmap => Writables(next)
    <3>1. CASE useMmap
      <4>1. Writables(cache)
        BY <1>6, <3>1 DEF Writables, FilesIInv
      <4>2. next = AcquiredMapping(cache, f)
        BY <3>1 DEF next
      <4>3. Fits(io, c, cache, AcquiredMapping(cache, f), f, TRUE) /\ Writables(AcquiredMapping(cache, f))
        BY <1>1, <1>2, <1>3, <1>5, <2>1, <4>1, AcquireMappingServes
      <4>4. QED
        BY <4>2, <4>3 DEF Fits
    <3>2. CASE ~useMmap
      <4>1. next = Acquired(cache, f, w)
        BY <3>2 DEF next
      <4>2. w \in BOOLEAN
        OBVIOUS
      <4> HIDE DEF w
      <4>3. Fits(io, c, cache, Acquired(cache, f, w), f, w)
        BY <1>1, <1>2, <1>3, <1>5, <2>1, <4>2, AcquireServes
      <4>4. QED
        BY <3>2, <4>1, <4>3
    <3>3. QED
      BY <1>2, <3>1, <3>2
  <2>3. /\ h \in HandleId /\ CountedBy(next, Uses([io EXCEPT ![c].holds = h]))
        /\ h \in DOMAIN next.tab /\ next.tab[h].file = f
        /\ w => next.tab[h].writable
        /\ \A x \in DOMAIN handles : Uses(io)[x] > 0 =>
               x \in DOMAIN next.tab /\ next.tab[x].file = handles[x].file /\ next.tab[x].writable = handles[x].writable
        /\ Len(next.order) <= MostOpen
    BY <1>6, <2>2 DEF Fits
  <2>4. handles' = next.tab /\ lru' = next.order /\ io' = [io EXCEPT ![c].holds = h]
    BY <1>8 DEF Becomes
  <2> HIDE DEF h
  <2>5. /\ DOMAIN io' = IoCall /\ io'[c] = [io[c] EXCEPT !.holds = h]
        /\ \A x \in IoCall : x # c => io'[x] = io[x]
    BY <1>2, <2>4
  <2>6. CountedBy(Cache(handles', lru'), Uses(io'))
    <3>1. next \in Caches
      BY <2>3 DEF CountedBy
    <3>2. next = Cache(handles', lru')
      BY <2>4, <3>1, CachesAre
    <3>3. QED
      BY <2>3, <2>4, <3>2
  <2>7. /\ io'[c] \in IoCalls /\ io'[c].kind = io[c].kind /\ io'[c].at = io[c].at
        /\ io'[c].from = io[c].from /\ io'[c].to = io[c].to /\ io'[c].holds = h
    BY <1>3, <2>3, <2>5 DEF IoCalls
  <2>8. InRange(io'[c]) /\ HoldsItsFile(io'[c], handles')
    <3>1. InRange(io'[c])
      BY <1>3, <2>7 DEF InRange
    <3>2. io'[c].at < io'[c].to /\ handles'[h].file = RegionAt(io'[c].at)
      BY <1>1, <2>3, <2>4, <2>7 DEF f
    <3>3. io'[c].kind = "write" => handles'[h].writable
      BY <2>3, <2>4, <2>7
    <3>4. QED
      BY <2>7, <3>1, <3>2, <3>3 DEF HoldsItsFile
  <2>9. ASSUME NEW x \in IoCall, x # c, io'[x] # NotIo
        PROVE  io'[x] \in IoCalls /\ InRange(io'[x]) /\ HoldsItsFile(io'[x], handles')
    <3>1. io'[x] = io[x] /\ io[x] \in IoCalls /\ InRange(io[x]) /\ HoldsItsFile(io[x], handles)
      BY <1>2, <2>5, <2>9
    <3>2. CASE io[x].holds = 0
      BY <3>1, <3>2 DEF HoldsItsFile
    <3>3. CASE io[x].holds # 0
      <4>1. io[x].holds \in HandleId /\ io[x].kind # "none"
        BY <3>1, <3>3 DEF IoCalls
      <4>2. x \in UsersOf(io, io[x].holds)
        BY <4>1 DEF UsersOf
      <4>3. Uses(io)[io[x].holds] > 0
        BY <4>1, <4>2, UsesAreNumbers
      <4>4. io[x].holds \in DOMAIN handles
        BY <1>2, <1>6, <4>1, <4>3 DEF CountedBy
      <4>5. /\ handles'[io[x].holds].file = handles[io[x].holds].file
            /\ handles'[io[x].holds].writable = handles[io[x].holds].writable
        BY <2>3, <2>4, <4>3, <4>4
      <4>6. QED
        BY <3>1, <4>5 DEF HoldsItsFile
    <3>4. QED
      BY <3>2, <3>3
  <2>10. WritesLand'
    <3>1. io'[c].kind = "write" => \A off \in io'[c].from..io'[c].at - 1 : BytesOf(off) \in filled'
      BY <1>1, <1>2, <2>7 DEF WritesLand
    <3>2. filled \subseteq filled'
      BY <1>1
    <3>3. QED
      BY <1>2, <2>5, <3>1, <3>2, LandedStay
  <2>11. CacheIsBounded'
    BY <2>3, <2>4 DEF CacheIsBounded, MostOpen
  <2>12. useMmap' => \A x \in DOMAIN handles' : handles'[x].writable
    BY <1>1, <2>2, <2>4 DEF Writables
  <2>13. useMmap' \in BOOLEAN /\ exists' \subseteq DOMAIN FileLength
    BY <1>1 DEF FilesIInv
  <2>14. \A x \in IoCall : io'[x] # NotIo => io'[x] \in IoCalls /\ InRange(io'[x]) /\ HoldsItsFile(io'[x], handles')
    BY <2>7, <2>8, <2>9
  <2>15. QED
    BY <2>5, <2>6, <2>10, <2>11, <2>12, <2>13, <2>14 DEF FilesIInv
<1>9. QED
  BY <1>1, <1>7, <1>8

LEMMA TransferKeeps ==
    ASSUME FilesIInv, NEW c \in IoCall, Transfer(c)
    PROVE  FilesIInv'
<1> DEFINE k == io[c]
           f == RegionAt(k.at)
           want == AtMostOf(k.to, End(f)) - k.at
           first == k.at - Offset[f]
           cache == Cache(handles, lru)
           next == Release(cache, k.holds)
<1>1. /\ k.kind \in {"read", "write"} /\ k.holds # 0
      /\ filled' = IF k.kind = "write" THEN filled \cup {<<f, p>> : p \in first..first + want - 1} ELSE filled
      /\ io' = [io EXCEPT ![c].at = @ + want, ![c].holds = 0]
      /\ Becomes(next)
      /\ UNCHANGED <<useMmap, exists>>
  BY DEF Transfer
<1>2. /\ DOMAIN io = IoCall
      /\ k # NotIo
      /\ \A x \in IoCall : io[x] # NotIo => io[x] \in IoCalls /\ InRange(io[x]) /\ HoldsItsFile(io[x], handles)
      /\ CountedBy(cache, Uses(io)) /\ WritesLand
  BY <1>1 DEF FilesIInv, NotIo
<1>3. k \in IoCalls /\ InRange(k) /\ HoldsItsFile(k, handles)
  BY <1>2
<1>4. TotalLength \in Nat /\ 0 \notin HandleId
  BY FilesAssumption, OffsetsAre DEF TotalLength
<1>5. /\ k.at \in Nat /\ k.from \in Nat /\ k.to \in Nat /\ k.to <= TotalLength /\ k.holds \in HandleId
      /\ k.from <= k.at /\ k.at < k.to
  BY <1>1, <1>3, <1>4 DEF IoCalls, InRange, HoldsItsFile
<1>6. f \in DOMAIN FileLength /\ Offset[f] <= k.at /\ k.at < End(f)
  BY <1>4, <1>5, RegionHolds
<1>7. Offset[f] \in Nat /\ FileLength[f] \in Nat /\ End(f) \in Nat /\ End(f) = Offset[f] + FileLength[f]
  BY <1>6, OffsetsAre DEF End
<1> HIDE DEF f
<1>8. want \in Nat /\ k.at + want <= k.to /\ k.at + want <= End(f)
  BY <1>5, <1>6, <1>7 DEF AtMostOf
<1> HIDE DEF want, next, cache
<1>9. /\ DOMAIN io' = IoCall /\ io'[c] = [k EXCEPT !.at = @ + want, !.holds = 0]
      /\ \A x \in IoCall : x # c => io'[x] = io[x]
  BY <1>1, <1>2
<1>10. /\ io'[c] \in IoCalls /\ io'[c].kind = k.kind /\ io'[c].from = k.from /\ io'[c].to = k.to
       /\ io'[c].at = k.at + want /\ io'[c].holds = 0
  <2>1. k.at + want \in Nat
    BY <1>5, <1>8
  <2>2. QED
    BY <1>3, <1>9, <2>1 DEF IoCalls
<1>11. InRange(io'[c]) /\ HoldsItsFile(io'[c], handles')
  BY <1>5, <1>8, <1>10 DEF InRange, HoldsItsFile
<1>12. Uses(io') = Less(Uses(io), k.holds) /\ Uses(io)[k.holds] > 0
  <2>1. \A g \in HandleId : c \notin UsersOf(io', g)
    BY <1>4, <1>10 DEF UsersOf
  <2>2. \A x \in IoCall : x # c => io[x] = io'[x]
    BY <1>9
  <2>3. k.kind # "none"
    BY <1>1
  <2>4. QED
    BY <1>5, <2>1, <2>2, <2>3, UsesLess
<1>13. /\ CountedBy(next, Uses(io')) /\ Descends(cache, next) /\ next.order = cache.order
  <2>1. Uses(io) \in [HandleId -> Nat]
    BY UsesAreNumbers
  <2>2. /\ CountedBy(next, Less(Uses(io), k.holds)) /\ Descends(cache, next) /\ next.order = cache.order
    BY <1>2, <1>5, <1>12, <2>1, ReleaseKeeps DEF next
  <2>3. QED
    BY <1>12, <2>2
<1>14. cache.tab = handles /\ cache.order = lru
  BY CacheFields DEF cache
<1>15. handles' = next.tab /\ lru' = next.order
  BY <1>1 DEF Becomes
<1>16. CountedBy(Cache(handles', lru'), Uses(io')) /\ lru' = lru
  <2>1. next \in Caches
    BY <1>13 DEF CountedBy
  <2>2. next = Cache(handles', lru')
    BY <1>15, <2>1, CachesAre
  <2>3. QED
    BY <1>13, <1>14, <1>15, <2>2
<1>17. ASSUME NEW x \in IoCall, x # c, io'[x] # NotIo
       PROVE  io'[x] \in IoCalls /\ InRange(io'[x]) /\ HoldsItsFile(io'[x], handles')
  <2>1. io'[x] = io[x] /\ io[x] \in IoCalls /\ InRange(io[x]) /\ HoldsItsFile(io[x], handles)
    BY <1>2, <1>9, <1>17
  <2>2. CASE io[x].holds = 0
    BY <2>1, <2>2 DEF HoldsItsFile
  <2>3. CASE io[x].holds # 0
    <3>1. io'[x].holds \in HandleId /\ io'[x].kind # "none" /\ io'[x].holds = io[x].holds
      BY <2>1, <2>3 DEF IoCalls
    <3>2. /\ next.tab[io'[x].holds].file = cache.tab[io'[x].holds].file
          /\ next.tab[io'[x].holds].writable = cache.tab[io'[x].holds].writable
      BY <1>13, <3>1, UsedStays
    <3>3. QED
      BY <1>14, <1>15, <2>1, <3>1, <3>2 DEF HoldsItsFile
  <2>4. QED
    BY <2>2, <2>3
<1>18. WritesLand'
  <2>1. filled \subseteq filled'
    BY <1>1
  <2>2. ASSUME io'[c].kind = "write", NEW off \in io'[c].from..io'[c].at - 1
        PROVE  BytesOf(off) \in filled'
    <3>1. off \in k.from..k.at + want - 1 /\ off \in Nat /\ k.kind = "write"
      BY <1>5, <1>8, <1>10, <2>2
    <3>2. CASE off < k.at
      <4>1. off \in k.from..k.at - 1
        BY <1>5, <3>1, <3>2
      <4>2. BytesOf(off) \in filled
        BY <1>2, <3>1, <4>1 DEF WritesLand
      <4>3. QED
        BY <2>1, <4>2
    <3>3. CASE off >= k.at
      <4> DEFINE p == off - Offset[f]
      <4>1. p \in Nat /\ p < FileLength[f] /\ Offset[f] + p = off
        BY <1>5, <1>6, <1>7, <1>8, <3>1, <3>3
      <4>2. p \in first..first + want - 1
        BY <1>5, <1>6, <1>7, <1>8, <3>1, <3>3
      <4> HIDE DEF p, first
      <4>3. BytesOf(Offset[f] + p) = <<f, p>>
        BY <1>6, <4>1, BytesHavePlaces
      <4>4. <<f, p>> \in filled'
        BY <1>1, <3>1, <4>2
      <4>5. QED
        BY <4>1, <4>3, <4>4
    <3>4. QED
      BY <1>5, <3>1, <3>2, <3>3
  <2>3. QED
    BY <1>2, <1>9, <2>1, <2>2, LandedStay
<1>19. useMmap' => \A x \in DOMAIN handles' : handles'[x].writable
  BY <1>1, <1>13, <1>14, <1>15 DEF FilesIInv, Descends
<1>20. useMmap' \in BOOLEAN /\ exists' \subseteq DOMAIN FileLength
  BY <1>1 DEF FilesIInv
<1>21. CacheIsBounded'
  BY <1>16 DEF FilesIInv, CacheIsBounded
<1>22. \A x \in IoCall : io'[x] # NotIo => io'[x] \in IoCalls /\ InRange(io'[x]) /\ HoldsItsFile(io'[x], handles')
  BY <1>10, <1>11, <1>17
<1>23. QED
  BY <1>9, <1>16, <1>18, <1>19, <1>20, <1>21, <1>22 DEF FilesIInv

LEMMA IoReturnsKeeps ==
    ASSUME FilesIInv, NEW c \in IoCall, IoReturns(c)
    PROVE  FilesIInv'
<1>1. /\ io[c].kind \in {"read", "write"} /\ io[c].at = io[c].to /\ io' = [io EXCEPT ![c] = NotIo]
      /\ UNCHANGED <<useMmap, exists, handles, lru, filled>>
  BY DEF IoReturns
<1>2. /\ DOMAIN io = IoCall
      /\ io[c] # NotIo
      /\ \A x \in IoCall : io[x] # NotIo => io[x] \in IoCalls /\ InRange(io[x]) /\ HoldsItsFile(io[x], handles)
      /\ WritesLand
  BY <1>1 DEF FilesIInv, NotIo
<1>3. TotalLength \in Nat /\ 0 \notin HandleId
  BY FilesAssumption, OffsetsAre DEF TotalLength
<1>4. io[c].holds = 0
  <2>1. io[c].at \in Nat /\ HoldsItsFile(io[c], handles)
    BY <1>2 DEF IoCalls
  <2>2. ~(io[c].at < io[c].to)
    BY <1>1, <2>1
  <2>3. QED
    BY <2>1, <2>2 DEF HoldsItsFile
<1>5. DOMAIN io' = IoCall /\ io'[c] = NotIo /\ \A x \in IoCall : x # c => io'[x] = io[x]
  BY <1>1, <1>2
<1>6. \A g \in HandleId : c \notin UsersOf(io, g) /\ c \notin UsersOf(io', g)
  BY <1>3, <1>4, <1>5 DEF UsersOf, NotIo
<1>7. Uses(io') = Uses(io)
  BY <1>5, <1>6, UsesSame
<1>8. WritesLand'
  <2>1. io'[c].kind # "write" /\ filled \subseteq filled'
    BY <1>1, <1>5 DEF NotIo
  <2>2. QED
    BY <1>2, <1>5, <2>1, LandedStay
<1>9. \A x \in IoCall : io'[x] # NotIo => io'[x] \in IoCalls /\ InRange(io'[x]) /\ HoldsItsFile(io'[x], handles')
  BY <1>1, <1>2, <1>5
<1>10. QED
  BY <1>1, <1>5, <1>7, <1>8, <1>9 DEF FilesIInv, CacheIsBounded

LEMMA CloseStorageKeeps ==
    ASSUME FilesIInv, CloseStorage
    PROVE  FilesIInv'
<1> DEFINE cache == Cache(handles, lru)
           next == CloseAll(cache)
<1>1. Becomes(next) /\ UNCHANGED <<useMmap, exists, io, filled>>
  BY DEF CloseStorage
<1>2. /\ \A x \in IoCall : io[x] # NotIo => io[x] \in IoCalls /\ InRange(io[x]) /\ HoldsItsFile(io[x], handles)
      /\ CountedBy(cache, Uses(io))
  BY DEF FilesIInv
<1>3. CountedBy(next, Uses(io)) /\ Descends(cache, next) /\ next.order = <<>>
  BY <1>2, CloseAllKeeps
<1> HIDE DEF next, cache
<1>4. cache.tab = handles /\ cache.order = lru
  BY CacheFields DEF cache
<1>5. handles' = next.tab /\ lru' = <<>>
  BY <1>1, <1>3 DEF Becomes
<1>6. CountedBy(Cache(handles', lru'), Uses(io'))
  <2>1. next \in Caches
    BY <1>3 DEF CountedBy
  <2>2. next = Cache(handles', lru')
    BY <1>3, <1>5, <2>1, CachesAre
  <2>3. QED
    BY <1>1, <1>3, <2>2
<1>7. ASSUME NEW x \in IoCall, io[x] # NotIo
      PROVE  HoldsItsFile(io[x], handles')
  <2>1. io[x] \in IoCalls /\ HoldsItsFile(io[x], handles)
    BY <1>2, <1>7
  <2>2. CASE io[x].holds = 0
    BY <2>1, <2>2 DEF HoldsItsFile
  <2>3. CASE io[x].holds # 0
    <3>1. io[x].holds \in HandleId /\ io[x].kind # "none"
      BY <2>1, <2>3 DEF IoCalls
    <3>2. /\ next.tab[io[x].holds].file = cache.tab[io[x].holds].file
          /\ next.tab[io[x].holds].writable = cache.tab[io[x].holds].writable
      BY <1>3, <3>1, UsedStays
    <3>3. QED
      BY <1>4, <1>5, <2>1, <3>2 DEF HoldsItsFile
  <2>4. QED
    BY <2>2, <2>3
<1>8. CacheIsBounded'
  <2>1. Len(lru') = 0 /\ MaxOpenFiles \in Nat \ {0} /\ Cardinality(IoCall) \in Nat
    BY <1>5, FilesAssumption, FS_CardinalityType
  <2>2. QED
    BY <2>1 DEF CacheIsBounded
<1>9. useMmap => \A x \in DOMAIN handles' : handles'[x].writable
  BY <1>3, <1>4, <1>5 DEF FilesIInv, Descends
<1>10. WritesLand'
  BY <1>1 DEF FilesIInv, WritesLand
<1>11. QED
  BY <1>1, <1>2, <1>6, <1>7, <1>8, <1>9, <1>10 DEF FilesIInv

LEMMA FilesStep == FilesIInv /\ [FilesNext]_filesVars => FilesIInv'
<1> SUFFICES ASSUME FilesIInv, [FilesNext]_filesVars PROVE FilesIInv'
  OBVIOUS
<1>1. ASSUME NEW c \in IoCall, NEW kind \in {"read", "write"}, NEW from \in 0..TotalLength, NEW to \in 0..TotalLength,
             from < to, BeginIo(c, kind, from, to)
      PROVE  FilesIInv'
  BY <1>1, BeginIoKeeps
<1>2. ASSUME NEW c \in IoCall, AcquireFile(c) PROVE FilesIInv'
  BY <1>2, AcquireFileKeeps
<1>3. ASSUME NEW c \in IoCall, Transfer(c) PROVE FilesIInv'
  BY <1>3, TransferKeeps
<1>4. ASSUME NEW c \in IoCall, IoReturns(c) PROVE FilesIInv'
  BY <1>4, IoReturnsKeeps
<1>5. ASSUME NEW f \in DOMAIN FileLength, EnsureFileAllocated(f) PROVE FilesIInv'
  <2>1. exists' = exists \cup {f} /\ UNCHANGED <<useMmap, handles, lru, io, filled>>
    BY <1>5 DEF EnsureFileAllocated
  <2>2. WritesLand' /\ CacheIsBounded'
    BY <2>1 DEF FilesIInv, WritesLand, CacheIsBounded
  <2>3. QED
    BY <2>1, <2>2 DEF FilesIInv
<1>6. CASE CloseStorage
  BY <1>6, CloseStorageKeeps
<1>7. CASE UNCHANGED filesVars
  <2>1. UNCHANGED <<exists, useMmap, handles, lru, io, filled>>
    BY <1>7 DEF filesVars
  <2>2. WritesLand' /\ CacheIsBounded'
    BY <2>1 DEF FilesIInv, WritesLand, CacheIsBounded
  <2>3. QED
    BY <2>1, <2>2 DEF FilesIInv
<1>8. QED
  BY <1>1, <1>2, <1>3, <1>4, <1>5, <1>6, <1>7 DEF FilesNext

LEMMA FilesFollows == FilesIInv => FilesInv
<1> SUFFICES ASSUME FilesIInv PROVE FilesInv
  OBVIOUS
<1> DEFINE cache == Cache(handles, lru)
<1>1. cache.tab = handles /\ cache.order = lru
  BY CacheFields
<1>2. /\ CountedBy(cache, Uses(io))
      /\ \A x \in IoCall : io[x] # NotIo => io[x] \in IoCalls /\ HoldsItsFile(io[x], handles)
  BY DEF FilesIInv
<1> HIDE DEF cache
<1>3. /\ DOMAIN handles \subseteq HandleId /\ \A h \in DOMAIN handles : handles[h] \in CacheEntry
      /\ lru \in Seq(HandleId)
  <2>1. cache \in Caches
    BY <1>2 DEF CountedBy
  <2>2. QED
    BY <1>1, <2>1, CachesAre
<1>4. InUseIsOpen
  <2> SUFFICES ASSUME NEW c \in IoCall, io[c].kind # "none", io[c].holds # 0
               PROVE  /\ io[c].holds \in DOMAIN handles /\ handles[io[c].holds].open
                      /\ io[c].kind = "write" => handles[io[c].holds].writable
                      /\ handles[io[c].holds].file = RegionAt(io[c].at)
    BY DEF InUseIsOpen
  <2>1. io[c] \in IoCalls /\ HoldsItsFile(io[c], handles)
    BY <1>2 DEF NotIo
  <2>2. io[c].holds \in HandleId /\ c \in UsersOf(io, io[c].holds)
    BY <2>1 DEF IoCalls, UsersOf
  <2>3. Uses(io)[io[c].holds] > 0
    BY <2>2, UsesAreNumbers
  <2>4. io[c].holds \in DOMAIN handles
    BY <1>1, <1>2, <2>2, <2>3 DEF CountedBy
  <2>5. handles[io[c].holds].open
    <3>1. \A r \in CacheEntry : r.open
      BY DEF CacheEntry
    <3>2. QED
      BY <1>3, <2>4, <3>1
  <2>6. QED
    BY <2>1, <2>4, <2>5 DEF HoldsItsFile
<1>5. HandlesAreOwned
  <2>1. ASSUME NEW h \in DOMAIN handles
        PROVE  /\ h \in ToSet(lru) <=> ~handles[h].evicted
               /\ handles[h].evicted => handles[h].refs > 0
               /\ handles[h].refs = Cardinality({c \in IoCall : io[c].kind # "none" /\ io[c].holds = h})
    <3>1. /\ h \in ToSet(lru) <=> ~handles[h].evicted
          /\ handles[h].evicted => handles[h].refs > 0
          /\ handles[h].refs = Uses(io)[h]
      BY <1>1, <1>2 DEF CountedBy
    <3>2. Uses(io)[h] = Cardinality({c \in IoCall : io[c].kind # "none" /\ io[c].holds = h})
      BY <1>3 DEF Uses, UsersOf
    <3>3. QED
      BY <3>1, <3>2
  <2>2. \A i, j \in DOMAIN lru : i # j => handles[lru[i]].file # handles[lru[j]].file
    <3>1. \A i \in DOMAIN lru : lru[i] \in ToSet(lru)
      BY DEF ToSet
    <3>2. QED
      BY <1>1, <1>2, <3>1 DEF CountedBy, OnceEach
  <2>3. QED
    BY <2>1, <2>2 DEF HandlesAreOwned
<1>6. QED
  BY <1>4, <1>5 DEF FilesIInv, FilesInv

\* ReadAt and WriteAt go through the files a range overlaps, with a handle that is
\* acquired and released for each, while others open, evict and close: every byte is
\* read or written in the one place that is its own, the handle in use is of that
\* file, open, and fit to write, and no file is open that nobody counts.
THEOREM RangesLandInTheirFiles == FilesSpec => []FilesInv
<1>1. FilesSpec => []FilesIInv
  BY FilesInitially, FilesStep, PTL DEF FilesSpec
<1>2. QED
  BY <1>1, FilesFollows, PTL

-----------------------------------------------------------------------------
(* The numbers of a uTP connection *)

\* The numbers do not come round: what a connection can send, with its FIN, is
\* less than half of the numbers.  seqLess can tell no more apart, and a packet
\* may be under way for any time.
NumbersLast == \A c \in ConnIds : 2 * (Chunks[c] + 1) < SeqSpace

\* The number of the i-th packet, counted from 0, of a sender whose first is f.
Num(f, i) == (f + i) % SeqSpace

Numbers == 0..SeqSpace - 1

LEMMA NumIs ==
    ASSUME NEW f \in 0..SeqSpace - 1, NEW i \in -1..SeqSpace
    PROVE  /\ Num(f, i) \in 0..SeqSpace - 1
           /\ Num(f, i) = IF f + i < 0 THEN f + i + SeqSpace ELSE IF f + i < SeqSpace THEN f + i ELSE f + i - SeqSpace
<1>1. SeqSpace \in Nat \ {0}
  BY UtpAssumption
<1>2. CASE f + i < 0
  BY <1>1, <1>2 DEF Num
<1>3. CASE f + i >= 0 /\ f + i < SeqSpace
  BY <1>1, <1>3 DEF Num
<1>4. CASE f + i >= SeqSpace
  BY <1>1, <1>4 DEF Num
<1>5. QED
  BY <1>1, <1>2, <1>3, <1>4

\* Numbers of packets that are not half of the numbers apart.
LEMMA NumbersTell ==
    ASSUME NEW f \in 0..SeqSpace - 1, NEW n \in Nat, 2 * n < SeqSpace, NEW i \in -1..n, NEW j \in -1..n
    PROVE  /\ Num(f, i) \in 0..SeqSpace - 1
           /\ Num(f, i) = Num(f, j) <=> i = j
           /\ i < n /\ j < n => (SeqLessEq(Num(f, i), Num(f, j)) <=> i <= j)
           /\ SeqNext(Num(f, i)) = Num(f, i + 1)
<1> DEFINE S == SeqSpace  H == S \div 2  a == Num(f, i)  b == Num(f, j)
<1>1. S \in Nat \ {0} /\ S = 2 * H /\ H \in Nat /\ n < H
  <2>1. SeqSpace \in Nat \ {0} /\ SeqSpace % 2 = 0
    BY UtpAssumption
  <2>2. SeqSpace = 2 * (SeqSpace \div 2) /\ SeqSpace \div 2 \in Nat
    BY <2>1
  <2> HIDE DEF H
  <2>3. H \in Nat /\ S = 2 * H
    BY <2>2 DEF H
  <2>4. QED
    BY <2>1, <2>3
<1> HIDE DEF H
<1>2. /\ a \in 0..S - 1 /\ b \in 0..S - 1
      /\ a = IF f + i < 0 THEN f + i + S ELSE IF f + i < S THEN f + i ELSE f + i - S
      /\ b = IF f + j < 0 THEN f + j + S ELSE IF f + j < S THEN f + j ELSE f + j - S
  <2>1. i \in -1..SeqSpace /\ j \in -1..SeqSpace
    BY <1>1
  <2>2. a \in 0..S - 1 /\ a = IF f + i < 0 THEN f + i + S ELSE IF f + i < S THEN f + i ELSE f + i - S
    BY <2>1, NumIs
  <2>3. b \in 0..S - 1 /\ b = IF f + j < 0 THEN f + j + S ELSE IF f + j < S THEN f + j ELSE f + j - S
    BY <2>1, NumIs
  <2>4. QED
    BY <2>2, <2>3
<1>3. Num(f, i + 1) = IF f + i + 1 < 0 THEN f + i + 1 + S ELSE IF f + i + 1 < S THEN f + i + 1 ELSE f + i + 1 - S
  <2> DEFINE e == i + 1
  <2>1. e \in -1..SeqSpace /\ e = i + 1
    BY <1>1
  <2> HIDE DEF e
  <2>2. Num(f, e) = IF f + e < 0 THEN f + e + SeqSpace ELSE IF f + e < SeqSpace THEN f + e ELSE f + e - SeqSpace
    BY <2>1, NumIs
  <2>3. f + e = f + i + 1
    BY <2>1
  <2>4. Num(f, i + 1) = Num(f, e)
    BY <2>1
  <2>5. QED
    BY <1>1, <2>1, <2>2, <2>4
<1>4. SeqNext(a) = Num(f, i + 1)
  <2>1. SeqNext(a) = IF a + 1 < S THEN a + 1 ELSE a + 1 - S
    <3> HIDE DEF a
    <3>1. CASE a + 1 < S
      BY <1>1, <1>2, <3>1 DEF SeqNext
    <3>2. CASE a + 1 = S
      BY <1>1, <1>2, <3>2 DEF SeqNext
    <3>3. QED
      BY <1>1, <1>2, <3>1, <3>2
  <2> HIDE DEF a, b
  <2>2. QED
    BY <1>1, <1>2, <1>3, <2>1
<1> HIDE DEF a, b
<1>5. a = b <=> i = j
  BY <1>1, <1>2
<1>6. ASSUME i < n, j < n PROVE SeqLessEq(a, b) <=> i <= j
  <2>1. a - b \in -S..S /\ (a - b) % S = IF a - b < 0 THEN a - b + S ELSE a - b
    <3>1. CASE a - b < 0
      BY <1>1, <1>2, <3>1
    <3>2. CASE a - b >= 0
      BY <1>1, <1>2, <3>2
    <3>3. QED
      BY <1>1, <1>2, <3>1, <3>2
  <2>2. SeqLess(a, b) <=> (IF a - b < 0 THEN a - b + S ELSE a - b) >= H
    BY <2>1 DEF SeqLess, H
  <2>3. SeqLess(a, b) <=> i < j
    BY <1>1, <1>2, <1>6, <2>2
  <2>4. QED
    BY <1>5, <2>3 DEF SeqLessEq
<1>7. QED
  BY <1>2, <1>4, <1>5, <1>6 DEF a, b

LEMMA RoundOnce ==
    ASSUME NEW y \in 0..2 * SeqSpace - 1
    PROVE  y % SeqSpace = IF y < SeqSpace THEN y ELSE y - SeqSpace
<1>1. SeqSpace \in Nat \ {0}
  BY UtpAssumption
<1>2. CASE y < SeqSpace
  BY <1>1, <1>2
<1>3. CASE y >= SeqSpace
  BY <1>1, <1>3
<1>4. QED
  BY <1>1, <1>2, <1>3

LEMMA NumAdds ==
    ASSUME NEW f \in Numbers, NEW i \in Int, i >= -1, NEW j \in Nat, i + j < SeqSpace
    PROVE  (Num(f, i) + j) % SeqSpace = Num(f, i + j) /\ Num(f, i + j) \in Numbers
<1>1. SeqSpace \in Nat \ {0} /\ i \in -1..SeqSpace /\ i + j \in -1..SeqSpace /\ f \in 0..SeqSpace - 1
  BY UtpAssumption DEF Numbers
<1> DEFINE e == i + j  x == Num(f, i)
<1>2. Num(f, e) \in 0..SeqSpace - 1 /\ Num(f, e) = IF f + e < 0 THEN f + e + SeqSpace ELSE IF f + e < SeqSpace THEN f + e ELSE f + e - SeqSpace
  BY <1>1, NumIs
<1>3. x \in 0..SeqSpace - 1 /\ x = IF f + i < 0 THEN f + i + SeqSpace ELSE IF f + i < SeqSpace THEN f + i ELSE f + i - SeqSpace
  BY <1>1, NumIs
<1> HIDE DEF x
<1>4. (x + j) % SeqSpace = IF x + j < SeqSpace THEN x + j ELSE x + j - SeqSpace
  <2>1. x + j \in 0..2 * SeqSpace - 1
    BY <1>1, <1>3
  <2> DEFINE y == x + j
  <2>2. y \in 0..2 * SeqSpace - 1 /\ y = x + j
    BY <2>1
  <2> HIDE DEF y
  <2>3. y % SeqSpace = IF y < SeqSpace THEN y ELSE y - SeqSpace
    BY <2>2, RoundOnce
  <2>4. (x + j) % SeqSpace = y % SeqSpace
    BY <2>2
  <2>5. QED
    BY <1>1, <1>3, <2>2, <2>3, <2>4
<1>5. e \in Int /\ e = i + j
  OBVIOUS
<1> HIDE DEF e
<1>6. Num(f, e) = (x + j) % SeqSpace
  BY <1>1, <1>2, <1>3, <1>4, <1>5
<1>7. QED
  BY <1>1, <1>2, <1>6 DEF e, x, Numbers

-----------------------------------------------------------------------------
(* What a connection sends and what it has read *)

\* The packets of a sender are its chunks in order, with its FIN at the place a;
\* a is -1 while no FIN has been sent.
LoadAt(a, j) == IF a < 0 \/ j < a THEN j + 1 ELSE IF j = a THEN Absent ELSE j
ChunksIn(a, n) == IF a < 0 \/ n <= a THEN n ELSE n - 1
IsUnit(f, n, a, seq, load) == \E j \in 0..n - 1 : seq = Num(f, j) /\ load = LoadAt(a, j)

Loads == Nat \cup {Absent}
Received == [seq : Numbers, load : Loads]
Sendable == [type : {"data", "fin"}, seq : Numbers, load : Loads]
UtpConns == [st : {"connecting", "connected", "closing", "closed", "gone"}, seq : Numbers, ack : Numbers, buf : SUBSET Sendable,
             reorder : SUBSET Received, pend : Seq(Nat), window : 0..Window, fin : Numbers \cup {Absent},
             peerFin : Numbers \cup {Absent}, readClosed : BOOLEAN, closing : BOOLEAN, eof : BOOLEAN, late : BOOLEAN,
             early : BOOLEAN, got : Seq(Nat), wrote : Nat]

SentBy(k) == k.wrote - Len(k.pend)
Units(k, a) == SentBy(k) + IF a < 0 THEN 0 ELSE 1

\* A packet that stands for one of these.
Carries(f, n, a, q) == (q.type = "fin" <=> q.load = Absent) /\ IsUnit(f, n, a, q.seq, q.load)

Sender(c, k, f, a) ==
    /\ k \in UtpConns /\ k.wrote <= Chunks[c] /\ IsFiniteSet(k.buf) /\ IsFiniteSet(k.reorder)
    /\ Len(k.pend) <= k.wrote /\ \A i \in 1..Len(k.pend) : k.pend[i] = SentBy(k) + i
    /\ a \in -1..SentBy(k)
    /\ IF a < 0 THEN k.fin = Absent /\ ~k.early ELSE k.fin = Num(f, a) /\ (~k.early => k.pend = <<>> /\ a = SentBy(k))
    /\ k.st # "gone" => (a < 0 <=> k.st \in {"connecting", "connected"})
    /\ k.st = "connecting" => c = Dialer /\ k.wrote = 0 /\ k.seq = Num(f, -1)
    /\ k.st \notin {"connecting", "gone"} => k.seq = Num(f, Units(k, a))
    /\ \A q \in k.buf : Carries(f, Units(k, a), a, q)
    /\ Flight(k) <= Window

\* What c has read of the first n packets of another, with the loads that its FIN
\* at a makes, is r of them.  The other wrote `wrote`; it was early if it closed
\* before it had sent that.
Receiver(k, f, n, a, wrote, early, r) ==
    /\ r \in 0..n
    /\ k.st \notin {"connecting", "gone"} => k.ack = Num(f, r - 1)
    /\ k.st = "connecting" => r = 0
    /\ \A i \in 1..Len(k.got) : k.got[i] = i
    /\ Len(k.got) <= ChunksIn(a, r) /\ (~k.closing => Len(k.got) = ChunksIn(a, r))
    /\ \A e \in k.reorder : IsUnit(f, n, a, e.seq, e.load)
    /\ k.peerFin # Absent => a >= 0 /\ k.peerFin = Num(f, a)
    /\ k.readClosed /\ k.st # "gone" => a >= 0 /\ r > a
    /\ k.eof => a >= 0 /\ (~early => Len(k.got) = wrote)
    /\ (k.late => early) /\ (k.eof => k.readClosed)

\* What a sender that has closed has sent.
Closes(n, a, wrote, early) == a >= 0 => a < n /\ (~early => n = a + 1 /\ wrote = a)

Packets(n, a, f, p) ==
    /\ \E j \in 0..n : p.seq = Num(f, j)
    /\ p.type \in {"data", "fin"} => Carries(f, n, a, p)

\* What a packet is like.
IsPacket(p) == p.to \in {"socket", "dialer"} /\ p.type \in {"syn", "state", "data", "fin"} /\ p.seq \in Numbers /\ p.load \in Loads
Outgoing(c, f, n, a, p) == IsPacket(p) /\ p.to = To(c) /\ p.type # "syn" /\ Packets(n, a, f, p)

\* A sender that goes on.
GoesOn(k, a, l, b) ==
    /\ Units(k, a) <= Units(l, b) /\ k.wrote <= l.wrote
    /\ IF a >= 0 THEN b = a /\ l.early = k.early /\ l.wrote = k.wrote ELSE b < 0 \/ b >= SentBy(k)

LEMMA UnitAt ==
    ASSUME NEW f, NEW n \in Nat, NEW a, NEW j \in 0..n - 1
    PROVE  IsUnit(f, n, a, Num(f, j), LoadAt(a, j))
  BY DEF IsUnit

LEMMA UtpConstants ==
    /\ SeqSpace \in Nat \ {0} /\ Window \in Nat \ {0} /\ Chunks \in [ConnIds -> Nat] /\ Reads \in [ConnIds -> Nat]
    /\ FirstSeqs \subseteq Numbers /\ Absent \notin Nat /\ Dialer \in ConnIds /\ Accepted \in Seq(ConnIds)
    /\ \A i \in DOMAIN Accepted : Accepted[i] \in ConnIds /\ Accepted[i] # Dialer
<1>1. Accepted \in Seq(ToSet(Accepted)) /\ Dialer \notin ToSet(Accepted)
  BY UtpAssumption
<1>2. ToSet(Accepted) \subseteq ConnIds /\ Dialer \in ConnIds
  BY DEF ConnIds
<1>3. \A i \in DOMAIN Accepted : Accepted[i] \in ToSet(Accepted)
  BY DEF ToSet
<1>4. Accepted \in Seq(ConnIds)
  BY <1>1, <1>2
<1>5. QED
  BY <1>1, <1>2, <1>3, <1>4, UtpAssumption DEF Numbers

\* A number of packets fits.
LEMMA UnitsFit ==
    ASSUME NumbersLast, NEW c \in ConnIds, NEW k, NEW f, NEW a, Sender(c, k, f, a)
    PROVE  /\ SentBy(k) \in Nat /\ Units(k, a) \in Nat /\ a \in Int /\ SentBy(k) <= Units(k, a)
           /\ Units(k, a) <= Chunks[c] + 1 /\ 2 * Units(k, a) < SeqSpace /\ Len(k.pend) \in Nat
<1>1. k.wrote \in Nat /\ k.pend \in Seq(Nat) /\ k.wrote <= Chunks[c] /\ Len(k.pend) <= k.wrote
  BY DEF Sender, UtpConns
<1>2. Chunks[c] \in Nat /\ 2 * (Chunks[c] + 1) < SeqSpace /\ SeqSpace \in Nat
  BY UtpConstants DEF NumbersLast
<1>3. Len(k.pend) \in Nat
  BY <1>1
<1>4. a \in -1..SentBy(k)
  BY DEF Sender
<1>5. SentBy(k) \in Nat /\ SentBy(k) <= Chunks[c]
  BY <1>1, <1>2, <1>3 DEF SentBy
<1>6. QED
  BY <1>2, <1>3, <1>4, <1>5 DEF Units

LEMMA GoesOnTwice ==
    ASSUME NumbersLast, NEW c \in ConnIds, NEW f, NEW k, NEW a, NEW l, NEW b, NEW m, NEW d,
           Sender(c, k, f, a), Sender(c, l, f, b), Sender(c, m, f, d), GoesOn(k, a, l, b), GoesOn(l, b, m, d)
    PROVE  GoesOn(k, a, m, d)
<1>1. /\ SentBy(k) \in Nat /\ Units(k, a) \in Nat /\ a \in Int /\ k.wrote \in Nat
      /\ SentBy(l) \in Nat /\ Units(l, b) \in Nat /\ b \in Int /\ l.wrote \in Nat
      /\ SentBy(m) \in Nat /\ Units(m, d) \in Nat /\ d \in Int /\ m.wrote \in Nat
  BY UnitsFit DEF Sender, UtpConns
<1>2. a < 0 => Units(k, a) = SentBy(k)
  BY <1>1 DEF Units
<1>3. b < 0 => Units(l, b) = SentBy(l)
  BY <1>1 DEF Units
<1>4. QED
  BY <1>1, <1>2, <1>3 DEF GoesOn

\* What stood for a packet does still.
LEMMA UnitsStay ==
    ASSUME NumbersLast, NEW c \in ConnIds, NEW f, NEW k, NEW a, NEW l, NEW b,
           Sender(c, k, f, a), Sender(c, l, f, b), GoesOn(k, a, l, b)
    PROVE  /\ \A j \in 0..Units(k, a) - 1 : LoadAt(a, j) = LoadAt(b, j)
           /\ \A j \in 0..Units(k, a) : ChunksIn(a, j) = ChunksIn(b, j)
           /\ \A seq, load : IsUnit(f, Units(k, a), a, seq, load) => IsUnit(f, Units(l, b), b, seq, load)
           /\ \A p : Packets(Units(k, a), a, f, p) => Packets(Units(l, b), b, f, p)
           /\ \A x, p : Outgoing(x, f, Units(k, a), a, p) => Outgoing(x, f, Units(l, b), b, p)
<1>1. /\ SentBy(k) \in Nat /\ Units(k, a) \in Nat /\ a \in Int
      /\ SentBy(l) \in Nat /\ Units(l, b) \in Nat /\ b \in Int
  BY UnitsFit
<1>2. Units(k, a) <= Units(l, b) /\ (a >= 0 => b = a) /\ (a < 0 => Units(k, a) = SentBy(k) /\ (b < 0 \/ b >= SentBy(k)))
  BY <1>1 DEF GoesOn, Units
<1>3. \A j \in 0..Units(k, a) - 1 : LoadAt(a, j) = LoadAt(b, j) /\ j \in 0..Units(l, b) - 1
  BY <1>1, <1>2 DEF LoadAt
<1>4. \A j \in 0..Units(k, a) : ChunksIn(a, j) = ChunksIn(b, j) /\ j \in 0..Units(l, b)
  BY <1>1, <1>2 DEF ChunksIn
<1>5. \A seq, load : IsUnit(f, Units(k, a), a, seq, load) => IsUnit(f, Units(l, b), b, seq, load)
  BY <1>3 DEF IsUnit
<1>6. \A p : Packets(Units(k, a), a, f, p) => Packets(Units(l, b), b, f, p)
  BY <1>4, <1>5 DEF Packets, Carries
<1>7. QED
  BY <1>3, <1>4, <1>5, <1>6 DEF Outgoing

\* A reader is as it was when the other goes on.
LEMMA ReaderStays ==
    ASSUME NumbersLast, NEW c \in ConnIds, NEW f, NEW k, NEW a, NEW l, NEW b, NEW r, NEW g \in UtpConns,
           Sender(c, k, f, a), Sender(c, l, f, b), GoesOn(k, a, l, b),
           Receiver(g, f, Units(k, a), a, k.wrote, k.early, r)
    PROVE  Receiver(g, f, Units(l, b), b, l.wrote, l.early, r)
<1>1. /\ SentBy(k) \in Nat /\ Units(k, a) \in Nat /\ a \in Int
      /\ SentBy(l) \in Nat /\ Units(l, b) \in Nat /\ b \in Int
  BY UnitsFit
<1>2. r \in 0..Units(k, a) /\ r \in 0..Units(l, b) /\ ChunksIn(a, r) = ChunksIn(b, r)
  <2>1. r \in 0..Units(k, a)
    BY DEF Receiver
  <2>2. Units(k, a) <= Units(l, b)
    BY DEF GoesOn
  <2>3. QED
    BY <1>1, <2>1, <2>2, UnitsStay
<1>3. \A e \in g.reorder : IsUnit(f, Units(l, b), b, e.seq, e.load)
  BY UnitsStay DEF Receiver
<1>4. a >= 0 => b = a /\ l.early = k.early /\ l.wrote = k.wrote
  BY DEF GoesOn
<1>5. k.early => a >= 0
  BY <1>1 DEF Sender
<1>6. QED
  BY <1>1, <1>2, <1>3, <1>4, <1>5 DEF Receiver

-----------------------------------------------------------------------------
(* The steps of a connection *)

\* What a reader's record has to do with.
SameReader(k, l) ==
    /\ l.got = k.got /\ l.ack = k.ack /\ l.reorder = k.reorder /\ l.peerFin = k.peerFin /\ l.readClosed = k.readClosed
    /\ l.eof = k.eof /\ l.late = k.late /\ l.closing = k.closing
    /\ l.st = k.st \/ {k.st, l.st} \cap {"connecting", "gone"} = {}
LEMMA ReaderSame ==
    ASSUME NEW k, NEW l, NEW f, NEW n, NEW a, NEW wrote, NEW early, NEW r, SameReader(k, l), Receiver(k, f, n, a, wrote, early, r)
    PROVE  Receiver(l, f, n, a, wrote, early, r)
<1>1. /\ l.got = k.got /\ l.ack = k.ack /\ l.reorder = k.reorder /\ l.peerFin = k.peerFin /\ l.readClosed = k.readClosed
      /\ l.eof = k.eof /\ l.late = k.late /\ l.closing = k.closing
  BY DEF SameReader
<1>2. (l.st = "connecting" <=> k.st = "connecting") /\ (l.st = "gone" <=> k.st = "gone")
  <2>1. l.st = k.st \/ {k.st, l.st} \cap {"connecting", "gone"} = {}
    BY DEF SameReader
  <2>2. QED
    BY <2>1
<1>3. l.st \notin {"connecting", "gone"} <=> k.st \notin {"connecting", "gone"}
  BY <1>2
<1>4. QED
  BY <1>1, <1>2, <1>3 DEF Receiver

InUse(k) == k.st \notin {"connecting", "gone"}

\* A turn of c so far: from k with its FIN at a to r.k with its FIN at b.
Turn(c, f, k, a, r, b) ==
    /\ r = [k |-> r.k, out |-> r.out]
    /\ Sender(c, r.k, f, b) /\ InUse(r.k) /\ GoesOn(k, a, r.k, b)
    /\ \A p \in r.out : Outgoing(c, f, Units(r.k, b), b, p)

LEMMA DataAreFew ==
    ASSUME NEW c, NEW k, NEW f, NEW a, Sender(c, k, f, a)
    PROVE  IsFiniteSet({p \in k.buf : p.type = "data"}) /\ Flight(k) \in Nat /\ Flight(k) <= Window
<1>1. IsFiniteSet(k.buf) /\ Flight(k) <= Window
  BY DEF Sender
<1>2. IsFiniteSet({p \in k.buf : p.type = "data"})
  BY <1>1, FS_Subset
<1>3. QED
  BY <1>1, <1>2, FS_CardinalityType DEF Flight

\* handleAck.
LEMMA HandleAckKeeps ==
    ASSUME NumbersLast, NEW c \in ConnIds, NEW k, NEW f \in Numbers, NEW a, NEW p, Sender(c, k, f, a)
    PROVE  Sender(c, HandleAck(k, p), f, a) /\ SameReader(k, HandleAck(k, p)) /\ GoesOn(k, a, HandleAck(k, p), a)
           /\ HandleAck(k, p).st = k.st /\ HandleAck(k, p).fin = k.fin /\ HandleAck(k, p).wrote = k.wrote
           /\ HandleAck(k, p).early = k.early
<1> DEFINE l == HandleAck(k, p)
<1>1. k \in UtpConns /\ Window \in 0..Window
  BY UtpConstants DEF Sender
<1>2. k.buf \ Acked(k, p) \in SUBSET Sendable
  BY <1>1 DEF UtpConns
<1>3. /\ l \in UtpConns /\ l.buf = k.buf \ Acked(k, p) /\ l.st = k.st /\ l.seq = k.seq /\ l.ack = k.ack /\ l.reorder = k.reorder
      /\ l.pend = k.pend /\ l.fin = k.fin /\ l.early = k.early /\ l.wrote = k.wrote /\ SameReader(k, l)
  <2> DEFINE B == k.buf \ Acked(k, p)  W == IF \E q \in Acked(k, p) : q.type = "data" THEN Window ELSE k.window
  <2>1. B \in SUBSET Sendable /\ W \in 0..Window
    BY <1>1, <1>2 DEF UtpConns
  <2>2. l = [k EXCEPT !.buf = B, !.window = W]
    BY <1>1 DEF HandleAck, UtpConns
  <2> HIDE DEF B, W, l
  <2>3. QED
    BY <1>1, <2>1, <2>2 DEF UtpConns, SameReader, B
<1> HIDE DEF l
<1>4. IsFiniteSet(l.buf) /\ l.buf \subseteq k.buf
  BY <1>3, FS_Subset DEF Sender
<1>5. Flight(l) <= Window
  <2>1. {q \in l.buf : q.type = "data"} \subseteq {q \in k.buf : q.type = "data"}
    BY <1>4
  <2>2. IsFiniteSet({q \in k.buf : q.type = "data"}) /\ Flight(k) \in Nat /\ Flight(k) <= Window
    BY DataAreFew
  <2>3. Flight(l) <= Flight(k) /\ Flight(l) \in Nat
    BY <2>1, <2>2, FS_Subset, FS_CardinalityType DEF Flight
  <2>4. QED
    BY <2>2, <2>3, UtpConstants
<1>6. SentBy(l) = SentBy(k) /\ Units(l, a) = Units(k, a)
  BY <1>3 DEF SentBy, Units
<1>7. Sender(c, l, f, a)
  BY <1>3, <1>4, <1>5, <1>6 DEF Sender
<1>8. GoesOn(k, a, l, a)
  <2>1. Units(k, a) \in Nat /\ k.wrote \in Nat /\ a \in Int
    BY <1>1, UnitsFit DEF UtpConns
  <2>2. QED
    BY <1>3, <1>6, <2>1 DEF GoesOn
<1>9. QED
  BY <1>3, <1>7, <1>8 DEF l

LEMMA LoadsAgree ==
    ASSUME NEW n \in Nat, NEW b \in Int, b < 0, NEW x \in 0..n - 1
    PROVE  LoadAt(b, x) = LoadAt(n, x)
<1>1. LoadAt(b, x) = x + 1
  BY DEF LoadAt
<1>2. LoadAt(n, x) = x + 1
  <2>1. x < n
    OBVIOUS
  <2>2. QED
    BY <2>1 DEF LoadAt
<1>3. QED
  BY <1>1, <1>2

\* sendFin.
LEMMA SendFinKeeps ==
    ASSUME NumbersLast, NEW c \in ConnIds, NEW f \in Numbers, NEW k, NEW a, NEW r, NEW b, Sender(c, k, f, a), Turn(c, f, k, a, r, b)
    PROVE  \E d : Turn(c, f, k, a, SendFin(c, r), d) /\ SameReader(r.k, SendFin(c, r).k)
<1> DEFINE g == r.k  s == SendFin(c, r)  l == s.k  d == SentBy(g)
<1>1. CASE g.fin # Absent
  <2>1. s = r
    BY <1>1 DEF SendFin
  <2>2. SameReader(r.k, s.k)
    BY <2>1 DEF SameReader
  <2>3. QED
    BY <2>1, <2>2
<1>2. CASE g.fin = Absent
  <2>1. /\ g \in UtpConns /\ b \in Int /\ SentBy(g) \in Nat /\ b < 0 /\ Units(g, b) = SentBy(g) /\ g.seq = Num(f, SentBy(g))
        /\ 2 * SentBy(g) < SeqSpace /\ Sender(c, g, f, b) /\ g.st = "connected"
    <3>1. g \in UtpConns /\ b \in Int /\ Sender(c, g, f, b) /\ SentBy(g) \in Nat /\ 2 * Units(g, b) < SeqSpace /\ InUse(g)
      BY UnitsFit DEF Turn, Sender
    <3>2. b < 0
      <4>1. b >= 0 => g.fin = Num(f, b)
        BY <3>1 DEF Sender
      <4>2. g.fin \in Numbers \/ g.fin = Absent
        BY <3>1 DEF UtpConns
      <4>3. b >= 0 => b \in -1..SeqSpace
        <5>1. b <= SentBy(g) /\ SentBy(g) <= Units(g, b) /\ Units(g, b) \in Nat
          <6>1. b \in -1..SentBy(g) /\ SentBy(g) \in Nat
            BY <3>1 DEF Sender
          <6>2. SentBy(g) <= Units(g, b) /\ Units(g, b) \in Nat
            BY <3>1, UnitsFit
          <6>3. QED
            BY <6>1, <6>2
        <5>2. SeqSpace \in Nat
          BY UtpConstants
        <5>3. QED
          BY <3>1, <5>1, <5>2
      <4>4. b >= 0 => Num(f, b) \in Numbers
        BY <4>3, NumIs DEF Numbers
      <4>5. Absent \notin Numbers
        BY UtpConstants DEF Numbers
      <4>6. QED
        BY <1>2, <3>1, <4>1, <4>4, <4>5
    <3>3. Units(g, b) = SentBy(g)
      BY <3>1, <3>2 DEF Units
    <3>4. QED
      BY <3>1, <3>2, <3>3 DEF Sender, InUse, UtpConns
  <2> DEFINE q == [type |-> "fin", seq |-> g.seq, load |-> Absent]
  <2>2. s = [k |-> [g EXCEPT !.seq = SeqNext(@), !.fin = g.seq, !.st = "closing", !.early = g.pend # <<>>, !.buf = @ \cup {q}],
             out |-> r.out \cup {Packet(c, g, "fin", g.seq, Absent)}]
    BY <1>2 DEF SendFin
  <2>3. q \in Sendable /\ g.seq \in Numbers
    BY <2>1 DEF Sendable, Loads, UtpConns
  <2>4. SeqNext(g.seq) = Num(f, SentBy(g) + 1) /\ SeqNext(g.seq) \in Numbers
    <3>1. SentBy(g) \in -1..SentBy(g)
      BY <2>1
    <3>2. SeqNext(Num(f, SentBy(g))) = Num(f, SentBy(g) + 1)
      BY <2>1, <3>1, NumbersTell DEF Numbers
    <3>3. SeqNext(g.seq) \in Numbers
      BY SMTT(20), <2>3, UtpConstants DEF SeqNext, Numbers
    <3>4. QED
      BY <2>1, <3>2, <3>3
  <2>5. /\ l \in UtpConns /\ l.seq = SeqNext(g.seq) /\ l.fin = g.seq /\ l.st = "closing" /\ l.early = (g.pend # <<>>)
        /\ l.buf = g.buf \cup {q} /\ l.pend = g.pend /\ l.wrote = g.wrote /\ SameReader(g, l) /\ l.reorder = g.reorder
        /\ s.out = r.out \cup {Packet(c, g, "fin", g.seq, Absent)}
    <3>1. l = [g EXCEPT !.seq = SeqNext(@), !.fin = g.seq, !.st = "closing", !.early = g.pend # <<>>, !.buf = @ \cup {q}]
      BY <2>2
    <3> DEFINE B == g.buf \cup {q}  N == SeqNext(g.seq)  E == g.pend # <<>>
    <3>2. g \in UtpConns /\ B \in SUBSET Sendable /\ N \in Numbers /\ E \in BOOLEAN /\ g.st = "connected" /\ g.seq \in Numbers
      BY <2>1, <2>3, <2>4 DEF UtpConns
    <3>3. l = [g EXCEPT !.seq = N, !.fin = g.seq, !.st = "closing", !.early = E, !.buf = B]
      BY <3>1, <3>2 DEF UtpConns
    <3>4. s.out = r.out \cup {Packet(c, g, "fin", g.seq, Absent)}
      BY <2>2
    <3> HIDE DEF q, g, l, s, B, N, E
    <3>5. l \in UtpConns /\ l.seq = N /\ l.fin = g.seq /\ l.st = "closing" /\ l.early = E /\ l.buf = B
          /\ l.pend = g.pend /\ l.wrote = g.wrote /\ SameReader(g, l) /\ l.reorder = g.reorder
      BY <3>2, <3>3 DEF UtpConns, SameReader
    <3>6. QED
      BY <3>4, <3>5 DEF B, N, E
  <2> HIDE DEF g, l, s
  <2>6. SentBy(l) = SentBy(g) /\ Units(l, d) = SentBy(g) + 1 /\ d \in Nat /\ d \in -1..SentBy(l)
    <3>1. SentBy(l) = SentBy(g)
      BY <2>5 DEF SentBy
    <3>2. QED
      BY <2>1, <3>1 DEF Units
  <2>7. GoesOn(g, b, l, d)
    <3>1. g.wrote \in Nat
      BY <2>1 DEF UtpConns
    <3>2. QED
      BY <2>1, <2>5, <2>6, <3>1 DEF GoesOn
  <2>8. \A x \in 0..SentBy(g) - 1 : LoadAt(b, x) = LoadAt(d, x)
    BY <2>1, LoadsAgree
  <2>9. \A seq, load : IsUnit(f, Units(g, b), b, seq, load) => IsUnit(f, Units(l, d), d, seq, load)
    <3>1. \A x \in 0..SentBy(g) - 1 : x \in 0..SentBy(g)
      BY <2>1
    <3>2. QED
      BY <2>1, <2>6, <2>8, <3>1 DEF IsUnit
  <2>10. IsUnit(f, Units(l, d), d, g.seq, Absent)
    <3>1. d \in 0..Units(l, d) - 1 /\ LoadAt(d, d) = Absent
      BY <2>6 DEF LoadAt
    <3>2. QED
      BY <2>1, <3>1 DEF IsUnit
  <2>11. \A x \in l.buf : Carries(f, Units(l, d), d, x)
    <3>1. \A x \in g.buf : Carries(f, Units(l, d), d, x)
      BY <2>1, <2>9 DEF Sender, Carries
    <3>2. Carries(f, Units(l, d), d, q)
      BY <2>10 DEF Carries
    <3>3. QED
      BY <2>5, <3>1, <3>2
  <2>12. IsFiniteSet(l.buf) /\ Flight(l) <= Window
    <3>1. IsFiniteSet(g.buf) /\ Flight(g) <= Window
      BY <2>1 DEF Sender
    <3>2. IsFiniteSet(l.buf)
      <4>1. IsFiniteSet(g.buf \cup {q})
        BY <3>1, FS_AddElement
      <4>2. QED
        BY <2>5, <4>1
    <3>3. {x \in l.buf : x.type = "data"} = {x \in g.buf : x.type = "data"}
      BY <2>5
    <3>4. QED
      BY <3>1, <3>2, <3>3 DEF Flight
  <2>13. Sender(c, l, f, d)
    <3>1. g.wrote <= Chunks[c] /\ IsFiniteSet(g.reorder) /\ Len(g.pend) <= g.wrote
          /\ \A i \in 1..Len(g.pend) : g.pend[i] = SentBy(g) + i
      BY <2>1 DEF Sender
    <3>2. l.fin = Num(f, d) /\ (~l.early => l.pend = <<>> /\ d = SentBy(l))
      BY <2>1, <2>5, <2>6
    <3>3. l.seq = Num(f, Units(l, d))
      BY <2>4, <2>5, <2>6
    <3>4. QED
      BY <2>5, <2>6, <2>11, <2>12, <3>1, <3>2, <3>3 DEF Sender
  <2>14. \A p \in s.out : Outgoing(c, f, Units(l, d), d, p)
    <3>1. \A p \in r.out : Outgoing(c, f, Units(l, d), d, p)
      BY <2>1, <2>7, <2>13, UnitsStay DEF Turn, g
    <3> DEFINE p == Packet(c, g, "fin", g.seq, Absent)
    <3>2. p.to = To(c) /\ p.type = "fin" /\ p.seq = g.seq /\ p.load = Absent
      BY DEF Packet
    <3>3. Packets(Units(l, d), d, f, p)
      <4>1. SentBy(g) \in 0..Units(l, d)
        BY <2>6
      <4>2. QED
        BY <2>1, <2>10, <3>2, <4>1 DEF Packets, Carries
    <3>4. IsPacket(p)
      BY <2>3, <3>2 DEF IsPacket, To, Loads
    <3> HIDE DEF p
    <3>5. Outgoing(c, f, Units(l, d), d, p)
      BY <3>2, <3>3, <3>4 DEF Outgoing
    <3>6. QED
      BY <2>5, <3>1, <3>5 DEF p
  <2>15. GoesOn(k, a, l, d)
    BY <2>1, <2>7, <2>13, GoesOnTwice DEF Turn, g
  <2>16. Turn(c, f, k, a, s, d)
    <3>1. s = [k |-> s.k, out |-> s.out]
      BY <2>2 DEF s
    <3>2. InUse(l)
      BY <2>5 DEF InUse
    <3>3. QED
      BY <2>13, <2>14, <2>15, <3>1, <3>2 DEF Turn, l
  <2>17. QED
    BY <2>5, <2>16 DEF s, l, g
<1>3. QED
  BY <1>1, <1>2

\* trySend.
LEMMA TrySendKeeps ==
    ASSUME NumbersLast, NEW c \in ConnIds, NEW f \in Numbers, NEW k, NEW a, NEW r, NEW b, Sender(c, k, f, a), Turn(c, f, k, a, r, b)
    PROVE  Turn(c, f, k, a, TrySend(c, r), b) /\ SameReader(r.k, TrySend(c, r).k)
<1> DEFINE g == r.k
           s == TrySend(c, r)
           l == s.k
           room == IF g.window > Flight(g) THEN g.window - Flight(g) ELSE 0
           n == IF Len(g.pend) < room THEN Len(g.pend) ELSE room
           Item(i) == [type |-> "data", seq |-> (g.seq + i - 1) % SeqSpace, load |-> g.pend[i]]
           sent == {[type |-> "data", seq |-> (g.seq + i - 1) % SeqSpace, load |-> g.pend[i]] : i \in 1..n}
           rest == SubSeq(g.pend, n + 1, Len(g.pend))
           next == (g.seq + n) % SeqSpace
           u == Units(g, b)
<1>1. /\ g \in UtpConns /\ Sender(c, g, f, b) /\ InUse(g) /\ b \in Int /\ SentBy(g) \in Nat /\ u \in Nat /\ 2 * u < SeqSpace
      /\ SentBy(g) <= u /\ Len(g.pend) \in Nat /\ g.pend \in Seq(Nat) /\ g.wrote \in Nat /\ g.seq = Num(f, u)
  <2>1. g \in UtpConns /\ Sender(c, g, f, b) /\ InUse(g)
    BY DEF Turn, Sender
  <2>2. /\ b \in Int /\ SentBy(g) \in Nat /\ u \in Nat /\ 2 * u < SeqSpace /\ SentBy(g) <= u /\ Len(g.pend) \in Nat
    BY <2>1, UnitsFit
  <2>3. g.seq = Num(f, u) /\ g.pend \in Seq(Nat) /\ g.wrote \in Nat
    BY <2>1 DEF Sender, InUse, UtpConns
  <2>4. QED
    BY <2>1, <2>2, <2>3
<1>2. IsFiniteSet({p \in g.buf : p.type = "data"}) /\ Flight(g) \in Nat /\ Flight(g) <= Window /\ g.window \in 0..Window /\ Window \in Nat
  <2>1. IsFiniteSet({p \in g.buf : p.type = "data"}) /\ Flight(g) \in Nat /\ Flight(g) <= Window
    BY <1>1, DataAreFew
  <2>2. QED
    BY <1>1, <2>1, UtpConstants DEF UtpConns
<1>3. n \in 0..Len(g.pend) /\ n \in Nat /\ Flight(g) + n <= Window
  <2> HIDE DEF g
  <2>1. room \in Nat /\ (Flight(g) + room <= Window \/ room = 0)
    BY <1>2
  <2> HIDE DEF room
  <2>2. n \in 0..Len(g.pend) /\ n <= room /\ n \in Nat
    BY SMTT(20), <1>1, <1>2, <2>1
  <2> HIDE DEF n
  <2>3. QED
    BY <1>2, <2>1, <2>2
<1>4. Chunks[c] \in Nat /\ 2 * (Chunks[c] + 1) < SeqSpace /\ u + n <= Chunks[c] + 1 /\ SeqSpace \in Nat \ {0}
  <2>1. Chunks[c] \in Nat /\ 2 * (Chunks[c] + 1) < SeqSpace /\ SeqSpace \in Nat \ {0}
    BY UtpConstants DEF NumbersLast
  <2>2. g.wrote <= Chunks[c] /\ u = g.wrote - Len(g.pend) + IF b < 0 THEN 0 ELSE 1
    BY <1>1 DEF Sender, Units, SentBy
  <2> DEFINE w == g.wrote  m == Len(g.pend)
  <2>3. w \in Nat /\ m \in Nat /\ n \in 0..m /\ u \in Nat /\ w <= Chunks[c] /\ u <= w - m + 1
    <3>1. w \in Nat /\ m \in Nat /\ n \in 0..m /\ u \in Nat /\ w <= Chunks[c]
      BY <1>1, <1>3, <2>2
    <3>2. u = w - m + IF b < 0 THEN 0 ELSE 1
      BY <2>2
    <3> HIDE DEF w, m, n, u
    <3>3. QED
      BY <1>1, <3>1, <3>2
  <2> HIDE DEF w, m, n, u
  <2>3a. u + n <= Chunks[c] + 1
    BY <2>1, <2>3
  <2>4. QED
    BY <2>1, <2>3a
<1> HIDE DEF room, n
\* Each number and each chunk that is sent.
<1>5. ASSUME NEW i \in 1..n
      PROVE  /\ (g.seq + i - 1) % SeqSpace = Num(f, u + i - 1) /\ (g.seq + i - 1) % SeqSpace \in Numbers
             /\ g.pend[i] = LoadAt(b, u + i - 1) /\ g.pend[i] \in Nat /\ u + i - 1 \in 0..u + n - 1
  <2>1. u + i - 1 \in 0..u + n - 1 /\ u + i - 1 \in Nat /\ i - 1 \in Nat
    BY SMTT(20), <1>1, <1>3
  <2>2. (Num(f, u) + (i - 1)) % SeqSpace = Num(f, u + (i - 1)) /\ Num(f, u + (i - 1)) \in Numbers
    <3>1. u \in Nat /\ i - 1 \in Nat /\ u + (i - 1) <= Chunks[c] + 1 /\ u + (i - 1) < SeqSpace
      <4>1. u \in Nat /\ n \in Nat /\ Chunks[c] \in Nat /\ 2 * (Chunks[c] + 1) < SeqSpace /\ u + n <= Chunks[c] + 1 /\ SeqSpace \in Nat
        BY <1>1, <1>3, <1>4
      <4> HIDE DEF u
      <4>2. QED
        BY <4>1
    <3> HIDE DEF u
    <3>2. QED
      BY <3>1, NumAdds
  <2>3. g.seq + i - 1 = Num(f, u) + (i - 1) /\ u + i - 1 = u + (i - 1)
    <3>1. g.seq \in Int
      BY <1>1 DEF UtpConns, Numbers
    <3> HIDE DEF g, u
    <3>2. QED
      BY <1>1, <3>1
  <2>4. g.pend[i] = SentBy(g) + i /\ g.pend[i] \in Nat
    <3>1. i \in 1..Len(g.pend)
      BY <1>1, <1>3
    <3>2. \A x \in 1..Len(g.pend) : g.pend[x] = SentBy(g) + x
      BY <1>1 DEF Sender
    <3> HIDE DEF g
    <3>3. g.pend[i] \in Nat
      BY SMTT(20), <1>1, <3>1
    <3>4. QED
      BY <3>1, <3>2, <3>3
  <2>5. LoadAt(b, u + i - 1) = SentBy(g) + i
    <3>1. u = SentBy(g) + IF b < 0 THEN 0 ELSE 1
      BY DEF Units
    <3>2. b <= SentBy(g)
      BY <1>1 DEF Sender
    <3> HIDE DEF u, g
    <3>3. QED
      BY SMTT(20), <1>1, <2>1, <3>1, <3>2 DEF LoadAt
  <2>6. QED
    BY <2>1, <2>2, <2>3, <2>4, <2>5
<1>6. sent \in SUBSET Sendable /\ \A q \in sent : q.type = "data" /\ \E i \in 1..n : q.seq = (g.seq + i - 1) % SeqSpace /\ q.load = g.pend[i]
  BY <1>5 DEF Sendable, Loads
<1>7. next = Num(f, u + n) /\ next \in Numbers
  <2>1. u + n < SeqSpace
    BY <1>1, <1>3, <1>4
  <2>2. (Num(f, u) + n) % SeqSpace = Num(f, u + n) /\ Num(f, u + n) \in Numbers
    BY <1>1, <1>3, <2>1, NumAdds
  <2>3. QED
    BY <1>1, <2>2
<1>8. /\ rest \in Seq(Nat) /\ Len(rest) = Len(g.pend) - n /\ \A i \in 1..Len(rest) : rest[i] = g.pend[n + i]
      /\ g.pend = <<>> => rest = <<>> /\ n = 0
  <2> DEFINE m == Len(g.pend)  x == n + 1
  <2>1. m \in Nat /\ x \in Int /\ n \in 0..m /\ \A i \in x..m : g.pend[i] \in Nat
    <3>1. m \in Nat /\ n \in 0..m /\ g.pend \in Seq(Nat)
      BY <1>1, <1>3
    <3>2. \A i \in x..m : i \in 1..m
      BY <3>1
    <3>3. QED
      BY <3>1, <3>2
  <2>2. /\ rest \in Seq(Nat) /\ Len(rest) = Len(g.pend) - n /\ \A i \in 1..Len(rest) : rest[i] = g.pend[n + i]
    <3>1. /\ SubSeq(g.pend, x, m) \in Seq(Nat) /\ Len(SubSeq(g.pend, x, m)) = IF x <= m THEN m - x + 1 ELSE 0
          /\ \A i \in 1..m - x + 1 : SubSeq(g.pend, x, m)[i] = g.pend[x + i - 1]
      <4>1. m \in Int /\ x \in Int
        BY <2>1
      <4> HIDE DEF m, x
      <4>2. QED
        BY <2>1, <4>1, SubSeqProperties
    <3>2. rest = SubSeq(g.pend, x, m)
      OBVIOUS
    <3>3. Len(rest) = m - n
      BY <2>1, <3>1, <3>2
    <3>4. ASSUME NEW i \in 1..Len(rest) PROVE rest[i] = g.pend[n + i]
      <4>1. i \in 1..m - x + 1 /\ x + i - 1 = n + i
        <5>1. i \in 1..m - n /\ m \in Nat /\ n \in Nat /\ x = n + 1
          BY <2>1, <3>3
        <5> HIDE DEF m, n, x, rest
        <5>2. m - x + 1 = m - n /\ x + i - 1 = n + i
          BY <5>1
        <5>3. QED
          BY <5>1, <5>2
      <4>2. QED
        BY <3>1, <3>2, <4>1
    <3>5. QED
      BY <3>1, <3>2, <3>3, <3>4
  <2>3. g.pend = <<>> => rest = <<>> /\ n = 0
    BY <1>3, <2>2, EmptySeq
  <2>4. QED
    BY <2>2, <2>3
<1>9. s = [k |-> [g EXCEPT !.pend = rest, !.seq = next, !.buf = g.buf \cup sent],
           out |-> r.out \cup {Packet(c, g, "data", p.seq, p.load) : p \in sent}]
  BY <1>1 DEF TrySend, UtpConns, n, room
<1> HIDE DEF rest, next, sent, u
<1>10. /\ l \in UtpConns /\ l.pend = rest /\ l.seq = next /\ l.buf = g.buf \cup sent /\ SameReader(g, l) /\ l.wrote = g.wrote
       /\ l.st = g.st /\ l.fin = g.fin /\ l.early = g.early /\ l.window = g.window /\ l.reorder = g.reorder
       /\ s.out = r.out \cup {Packet(c, g, "data", p.seq, p.load) : p \in sent}
  <2> DEFINE B == g.buf \cup sent
  <2>1. B \in SUBSET Sendable
    BY <1>1, <1>6 DEF UtpConns
  <2>2. l = [g EXCEPT !.pend = rest, !.seq = next, !.buf = B] /\ s.out = r.out \cup {Packet(c, g, "data", p.seq, p.load) : p \in sent}
    BY <1>9
  <2> HIDE DEF B, l, g, s
  <2>3. l \in UtpConns /\ l.pend = rest /\ l.seq = next /\ l.buf = B /\ SameReader(g, l) /\ l.wrote = g.wrote
       /\ l.st = g.st /\ l.fin = g.fin /\ l.early = g.early /\ l.window = g.window /\ l.reorder = g.reorder
    BY <1>1, <1>7, <1>8, <2>1, <2>2 DEF UtpConns, SameReader
  <2>4. QED
    BY <2>2, <2>3 DEF B
<1>11. SentBy(l) = SentBy(g) + n /\ Units(l, b) = u + n
  <2>1. SentBy(l) = g.wrote - (Len(g.pend) - n) /\ SentBy(g) = g.wrote - Len(g.pend)
    BY <1>8, <1>10 DEF SentBy
  <2> HIDE DEF l, g
  <2>2. SentBy(l) = SentBy(g) + n
    BY <1>1, <1>3, <2>1
  <2>3. QED
    BY <1>1, <1>3, <2>2 DEF Units, u
<1>12. GoesOn(g, b, l, b)
  <2> HIDE DEF l, g
  <2>1. QED
    BY <1>1, <1>3, <1>10, <1>11 DEF GoesOn, u
<1>13. IsFiniteSet(sent) /\ Cardinality(sent) <= n /\ Cardinality(sent) \in Nat
  <2> DEFINE h == [i \in 1..n |-> Item(i)]
  <2>1. IsFiniteSet(1..n) /\ Cardinality(1..n) = n
    BY <1>3, FS_Interval
  <2>2. h \in Surjection(1..n, sent)
    BY DEF Surjection, sent
  <2>3. QED
    BY <2>1, <2>2, FS_Surjection, FS_CardinalityType
<1>14. IsFiniteSet(l.buf) /\ Flight(l) <= Window
  <2> DEFINE D == {p \in g.buf : p.type = "data"}
  <2>1. IsFiniteSet(g.buf) /\ IsFiniteSet(D) /\ Cardinality(D) = Flight(g)
    <3>1. IsFiniteSet(g.buf)
      BY <1>1 DEF Sender
    <3>2. QED
      BY <1>2, <3>1 DEF Flight
  <2>2. IsFiniteSet(l.buf)
    <3>1. IsFiniteSet(g.buf \cup sent)
      BY <1>13, <2>1, FS_Union
    <3>2. QED
      BY <1>10, <3>1
  <2>3. {p \in l.buf : p.type = "data"} = D \cup sent
    BY <1>6, <1>10
  <2>4. Cardinality(D \cup sent) = Cardinality(D) + Cardinality(sent) - Cardinality(D \cap sent)
    BY <1>13, <2>1, FS_Union
  <2>5. Cardinality(D \cap sent) \in Nat
    BY <2>1, FS_Subset, FS_CardinalityType
  <2>6. Flight(l) = Cardinality(D \cup sent)
    BY <2>3 DEF Flight
  <2> HIDE DEF D, l, g
  <2>7. QED
    BY <1>2, <1>3, <1>13, <2>1, <2>2, <2>4, <2>5, <2>6
<1>15. ASSUME NEW q \in sent
       PROVE  Carries(f, Units(l, b), b, q) /\ q.seq \in Numbers /\ q.load \in Loads
  <2>1. PICK i \in 1..n : q.seq = (g.seq + i - 1) % SeqSpace /\ q.load = g.pend[i]
    BY <1>6
  <2>2. q.type = "data" /\ q.load \in Nat /\ q.seq \in Numbers
    BY <1>5, <1>6, <2>1
  <2>3. IsUnit(f, u + n, b, q.seq, q.load)
    <3> DEFINE j == u + i - 1  m == u + n
    <3>1. m \in Nat /\ j \in 0..m - 1 /\ q.seq = Num(f, j) /\ q.load = LoadAt(b, j)
      BY <1>1, <1>3, <1>5, <2>1
    <3>2. \A x \in Nat : \A y \in 0..x - 1 : IsUnit(f, x, b, Num(f, y), LoadAt(b, y))
      BY UnitAt
    <3> HIDE DEF m, j
    <3>3. IsUnit(f, m, b, Num(f, j), LoadAt(b, j))
      BY <3>1, <3>2
    <3>4. QED
      BY <3>1, <3>3 DEF m
  <2>4. q.load # Absent
    BY <2>2, UtpConstants
  <2>5. QED
    BY <1>11, <2>2, <2>3, <2>4 DEF Carries, Loads
<1>16. Sender(c, l, f, b)
  <2>1. /\ g.wrote <= Chunks[c] /\ IsFiniteSet(g.reorder) /\ Len(g.pend) <= g.wrote /\ b \in -1..SentBy(g)
        /\ IF b < 0 THEN g.fin = Absent /\ ~g.early ELSE g.fin = Num(f, b) /\ (~g.early => g.pend = <<>> /\ b = SentBy(g))
        /\ g.st # "gone" => (b < 0 <=> g.st \in {"connecting", "connected"})
        /\ \A i \in 1..Len(g.pend) : g.pend[i] = SentBy(g) + i
        /\ g.st \notin {"connecting", "gone"}
    BY <1>1 DEF Sender, InUse
  <2>2. \A i \in 1..Len(l.pend) : l.pend[i] = SentBy(l) + i
    <3> SUFFICES ASSUME NEW i \in 1..Len(rest) PROVE rest[i] = SentBy(g) + n + i
      BY <1>10, <1>11
    <3>1. rest[i] = g.pend[n + i] /\ n + i \in 1..Len(g.pend)
      BY <1>1, <1>3, <1>8
    <3>2. g.pend[n + i] = SentBy(g) + (n + i)
      BY <2>1, <3>1
    <3> HIDE DEF g
    <3>3. QED
      BY <1>1, <1>3, <3>1, <3>2
  <2>3. Len(l.pend) <= l.wrote /\ b \in -1..SentBy(l)
    <3>1. Len(l.pend) = Len(g.pend) - n /\ l.wrote = g.wrote /\ SentBy(l) = SentBy(g) + n
      BY <1>8, <1>10, <1>11
    <3>2. Len(g.pend) \in Nat /\ SentBy(g) \in Nat /\ g.wrote \in Nat /\ n \in Nat /\ b \in -1..SentBy(g) /\ Len(g.pend) <= g.wrote
      BY <1>1, <1>3, <2>1
    <3> HIDE DEF g, l
    <3>3. QED
      BY <3>1, <3>2
  <2>4. IF b < 0 THEN l.fin = Absent /\ ~l.early ELSE l.fin = Num(f, b) /\ (~l.early => l.pend = <<>> /\ b = SentBy(l))
    <3> HIDE DEF g, l
    <3>1. g.pend = <<>> => l.pend = <<>> /\ SentBy(l) = SentBy(g)
      BY <1>1, <1>8, <1>10, <1>11
    <3>2. QED
      BY <1>10, <2>1, <3>1
  <2>5. \A q \in l.buf : Carries(f, Units(l, b), b, q)
    <3>1. \A q \in g.buf : Carries(f, Units(l, b), b, q)
      <4>1. u \in Nat /\ u + n \in Nat /\ u <= u + n
        BY <1>1, <1>3 DEF u
      <4>2. \A seq, load : IsUnit(f, u, b, seq, load) => IsUnit(f, u + n, b, seq, load)
        BY <1>3, <4>1 DEF IsUnit
      <4>3. \A q \in g.buf : Carries(f, u, b, q)
        BY <1>1 DEF Sender, u
      <4>4. QED
        BY <1>11, <4>2, <4>3 DEF Carries
    <3>2. QED
      BY <1>10, <1>15, <3>1
  <2>6. l.seq = Num(f, Units(l, b)) /\ l.st \notin {"connecting", "gone"}
    BY <1>7, <1>10, <1>11, <2>1
  <2> HIDE DEF g, l
  <2>7. QED
    BY <1>10, <1>14, <2>1, <2>2, <2>3, <2>4, <2>5, <2>6 DEF Sender
<1>17. \A p \in s.out : Outgoing(c, f, Units(l, b), b, p)
  <2>1. \A p \in r.out : Outgoing(c, f, Units(l, b), b, p)
    BY <1>1, <1>12, <1>16, UnitsStay DEF Turn, g
  <2>2. ASSUME NEW q \in sent PROVE Outgoing(c, f, Units(l, b), b, Packet(c, g, "data", q.seq, q.load))
    <3> DEFINE p == Packet(c, g, "data", q.seq, q.load)
    <3>1. p.to = To(c) /\ p.type = "data" /\ p.seq = q.seq /\ p.load = q.load
      BY DEF Packet
    <3>2. q.type = "data" /\ Carries(f, Units(l, b), b, q) /\ q.seq \in Numbers /\ q.load \in Loads
      BY <1>6, <1>15
    <3> HIDE DEF p
    <3>3. Carries(f, Units(l, b), b, p)
      BY <3>1, <3>2 DEF Carries
    <3>4. Packets(Units(l, b), b, f, p)
      <4>1. Units(l, b) \in Nat
        BY <1>16, UnitsFit
      <4>2. \A j \in 0..Units(l, b) - 1 : j \in 0..Units(l, b)
        BY <4>1
      <4>3. QED
        BY <3>3, <4>2 DEF Packets, Carries, IsUnit
    <3>5. IsPacket(p)
      BY <3>1, <3>2 DEF IsPacket, To
    <3>6. QED
      BY <3>1, <3>4, <3>5 DEF Outgoing, p
  <2>3. QED
    BY <1>10, <2>1, <2>2
<1>18. GoesOn(k, a, l, b)
  BY <1>1, <1>12, <1>16, GoesOnTwice DEF Turn, g
<1>19. s = [k |-> s.k, out |-> s.out]
  BY <1>9 DEF s
<1>20. InUse(l)
  BY <1>1, <1>10 DEF InUse
<1>21. QED
  BY <1>10, <1>16, <1>17, <1>18, <1>19, <1>20 DEF Turn, l, g, s

-----------------------------------------------------------------------------
(* What a connection receives *)

\* What follows a packet in the reorder buffer: each with the next number.
LEMMA FollowingIs ==
    ASSUME NEW k, k.reorder \in SUBSET Received, IsFiniteSet(k.reorder), NEW seq \in Numbers
    PROVE  /\ Following(k, seq) \in Seq(Received)
           /\ \A i \in 1..Len(Following(k, seq)) :
                  Following(k, seq)[i] \in k.reorder /\ Following(k, seq)[i].seq = (seq + i) % SeqSpace
<1> DEFINE In(i) == {p \in k.reorder : p.seq = (seq + i) % SeqSpace}
           C == Cardinality(k.reorder)
           M == {m \in 0..C : \A i \in 1..m : In(i) # {}}
           n == Max(M)
           F == [i \in 1..n |-> CHOOSE p \in In(i) : TRUE]
<1>1. C \in Nat
  BY FS_CardinalityType
<1>2. \E x \in M : \A y \in M : x >= y
  <2>1. 0 \in M
    BY <1>1
  <2> DEFINE I == M \cap (1..C)
  <2>2. CASE I = {}
    <3>1. \A y \in M : y = 0
      BY <1>1, <2>2
    <3>2. QED
      BY <2>1, <3>1
  <2>3. CASE I # {}
    <3>1. I \in SUBSET (1..C)
      OBVIOUS
    <3> HIDE DEF I
    <3>2. PICK x \in I : \A y \in I : y <= x
      BY <1>1, <2>3, <3>1, GreatestOf
    <3>3. x \in M /\ x \in 1..C
      BY <3>2 DEF I
    <3>4. \A y \in M : y \in I \/ y = 0
      BY <1>1 DEF I
    <3>5. \A y \in M : x >= y
      <4>1. \A y \in I : y \in 1..C
        BY DEF I
      <4>2. QED
        BY <1>1, <3>2, <3>3, <3>4, <4>1
    <3>6. QED
      BY <3>3, <3>5
  <2>4. QED
    BY <2>2, <2>3
<1>3. n \in M
  BY <1>2 DEF Max
<1>4. n \in Nat /\ \A i \in 1..n : In(i) # {}
  BY <1>1, <1>3
<1>5. Following(k, seq) = F
  BY DEF Following
<1> HIDE DEF n
<1>6. \A i \in 1..n : F[i] \in In(i)
  BY <1>4
<1>7. F \in Seq(Received) /\ Len(F) = n
  BY <1>4, <1>6
<1>8. QED
  BY <1>5, <1>6, <1>7

UnitsOnly(R, f, n, a) == \A e \in R : IsUnit(f, n, a, e.seq, e.load)
FollowsIn(s, n, a, j) == j + Len(s) < n /\ \A i \in 1..Len(s) : s[i].load = LoadAt(a, j + i)

\* The numbers of what follows are those of the packets that come next, which have
\* been sent.
LEMMA FollowingFollows ==
    ASSUME NumbersLast, NEW k, k.reorder \in SUBSET Received, IsFiniteSet(k.reorder),
           NEW f \in Numbers, NEW n \in Nat, 2 * n < SeqSpace, NEW a, NEW j \in 0..n - 1,
           UnitsOnly(k.reorder, f, n, a)
    PROVE  FollowsIn(Following(k, Num(f, j)), n, a, j)
<1> DEFINE q == Num(f, j)  s == Following(k, q)  L == Len(s)
<1>1. f \in 0..SeqSpace - 1 /\ SeqSpace \in Nat \ {0}
  BY UtpConstants DEF Numbers
<1>2. q \in Numbers
  <2>1. j \in -1..n
    OBVIOUS
  <2>2. QED
    BY <1>1, <2>1, NumbersTell DEF Numbers
<1>3. s \in Seq(Received) /\ L \in Nat /\ \A i \in 1..L : s[i] \in k.reorder /\ s[i].seq = (q + i) % SeqSpace
  <2>1. s \in Seq(Received) /\ \A i \in 1..Len(s) : s[i] \in k.reorder /\ s[i].seq = (q + i) % SeqSpace
    BY <1>2, FollowingIs
  <2> HIDE DEF s
  <2>2. QED
    BY <2>1
<1> HIDE DEF s, q
<1>4. ASSUME NEW i \in 1..L, j + i <= n
      PROVE  j + i < n /\ s[i].load = LoadAt(a, j + i)
  <2>1. i \in Nat /\ j \in Nat /\ j + i < SeqSpace
    BY <1>1, <1>3, <1>4
  <2>2. s[i].seq = Num(f, j + i)
    BY <1>1, <1>3, <2>1, NumAdds DEF q, Numbers
  <2>3. PICK x \in 0..n - 1 : s[i].seq = Num(f, x) /\ s[i].load = LoadAt(a, x)
    BY <1>3 DEF IsUnit, UnitsOnly
  <2> DEFINE y == j + i
  <2>4. y \in -1..n /\ x \in -1..n /\ Num(f, y) = Num(f, x)
    BY <1>4, <2>1, <2>2, <2>3
  <2> HIDE DEF y
  <2>5. y = x
    BY <1>1, <2>4, NumbersTell
  <2>6. QED
    BY <2>3, <2>5 DEF y
<1>5. j + L < n
  <2> SUFFICES ASSUME j + L >= n PROVE FALSE
    BY <1>3
  <2> DEFINE i == n - j
  <2>1. i \in 1..L /\ j + i = n
    BY <1>3
  <2> HIDE DEF i
  <2>2. QED
    BY <1>4, <2>1
<1>6. \A i \in 1..L : s[i].load = LoadAt(a, j + i)
  BY <1>3, <1>4, <1>5
<1>7. QED
  BY <1>5, <1>6 DEF s, q, FollowsIn

\* A packet holds the chunk after those before it, or is the FIN.
LEMMA LoadCounts ==
    ASSUME NEW a \in Int, a >= -1, NEW j \in Nat
    PROVE  /\ ChunksIn(a, j) \in Nat
           /\ IF LoadAt(a, j) = Absent THEN j = a /\ ChunksIn(a, j + 1) = ChunksIn(a, j)
              ELSE LoadAt(a, j) = ChunksIn(a, j) + 1 /\ ChunksIn(a, j + 1) = ChunksIn(a, j) + 1 /\ j # a
<1>1. Absent \notin Nat
  BY UtpConstants
<1>2. CASE a < 0 \/ j < a
  <2>0. a < 0 \/ (j <= a /\ j + 1 <= a)
    BY <1>2
  <2>1. LoadAt(a, j) = j + 1 /\ ChunksIn(a, j) = j /\ ChunksIn(a, j + 1) = j + 1
    BY <1>2, <2>0 DEF LoadAt, ChunksIn
  <2>2. j + 1 \in Nat
    OBVIOUS
  <2>3. LoadAt(a, j) # Absent
    BY <1>1, <2>1, <2>2
  <2>4. QED
    BY <1>2, <2>1, <2>3
<1>3. CASE a >= 0 /\ j = a
  BY <1>3 DEF LoadAt, ChunksIn
<1>4. CASE a >= 0 /\ j > a
  <2>1. LoadAt(a, j) = j /\ ChunksIn(a, j) = j - 1 /\ ChunksIn(a, j + 1) = j
    BY <1>4 DEF LoadAt, ChunksIn
  <2>2. LoadAt(a, j) # Absent /\ j # a /\ j - 1 \in Nat
    BY <1>1, <1>4, <2>1
  <2>3. QED
    BY <2>1, <2>2
<1>5. QED
  BY <1>2, <1>3, <1>4

\* deliver, packet for packet.
ReadNext(k, ps, g, i) == IF ps[i].load = Absent \/ k.closing THEN g ELSE Append(g, ps[i].load)
ReadsTo(k, ps, g) ==
    \E read \in [0..Len(ps) -> Seq(Nat)] :
        read[0] = k.got /\ read[Len(ps)] = g /\ \A i \in 1..Len(ps) : read[i] = ReadNext(k, ps, read[i - 1], i)
Delivered(k, ps, l) ==
    \E g \in Seq(Nat) :
        /\ ReadsTo(k, ps, g)
        /\ l = [k EXCEPT !.got = g, !.ack = (k.ack + Len(ps)) % SeqSpace,
                         !.late = k.late \/ (k.readClosed /\ \E i \in DOMAIN ps : ps[i].load # Absent)]
LEMMA DeliverIs ==
    ASSUME NEW k \in UtpConns, NEW T, NEW ps \in Seq(T), \A i \in 1..Len(ps) : ps[i].load \in Loads
    PROVE  Delivered(k, ps, DeliverInOrder(k, ps))
<1> DEFINE n == Len(ps)
           V == Seq(Nat)
           step == [x \in Nat \X V |-> IF x[1] \in 1..n THEN ReadNext(k, ps, x[2], x[1]) ELSE x[2]]
           Rec(g) == [i \in 0..n |-> IF i = 0 THEN k.got
                                     ELSE IF ps[i].load = Absent \/ k.closing THEN g[i - 1] ELSE Append(g[i - 1], ps[i].load)]
           read == CHOOSE g : g = Rec(g)
<1>1. n \in Nat
  OBVIOUS
<1>2. k.got \in V
  BY DEF UtpConns
<1>3. \A i \in 1..n : ps[i].load = Absent \/ ps[i].load \in Nat
  BY DEF Loads
<1>4. \A i \in 1..n, g \in V : ReadNext(k, ps, g, i) \in V
  <2> SUFFICES ASSUME NEW i \in 1..n, NEW g \in V PROVE ReadNext(k, ps, g, i) \in V
    OBVIOUS
  <2>1. CASE ps[i].load = Absent \/ k.closing
    BY <2>1 DEF ReadNext
  <2>2. CASE ~(ps[i].load = Absent \/ k.closing)
    <3>1. ps[i].load \in Nat
      BY <1>3, <2>2
    <3>2. Append(g, ps[i].load) \in V
      BY <3>1
    <3>3. QED
      BY <2>2, <3>2 DEF ReadNext
  <2>3. QED
    BY <2>1, <2>2
<1>5. step \in [Nat \X V -> V]
  BY <1>4
<1>6. \A i \in 1..n, g \in V : step[<<i, g>>] = ReadNext(k, ps, g, i)
  BY <1>1
<1> HIDE DEF step, V
<1>7. Recursion(V, k.got, step, n)
  BY <1>1, <1>2, <1>5, RecursionExists, Zenon
<1>8. PICK f \in [0..n -> V] : f[0] = k.got /\ \A i \in 1..n : f[i] = step[<<i, f[i - 1]>>]
  BY <1>7 DEF Recursion
<1>9. \A i \in 1..n : f[i] = ReadNext(k, ps, f[i - 1], i)
  <2> SUFFICES ASSUME NEW i \in 1..n PROVE f[i] = ReadNext(k, ps, f[i - 1], i)
    OBVIOUS
  <2>1. i - 1 \in 0..n
    BY <1>1
  <2>2. f[i - 1] \in V
    BY <1>8, <2>1
  <2>3. QED
    BY <1>6, <1>8, <2>2
<1>10. f = Rec(f)
  <2>1. ASSUME NEW i \in 0..n
        PROVE  f[i] = IF i = 0 THEN k.got ELSE IF ps[i].load = Absent \/ k.closing THEN f[i - 1] ELSE Append(f[i - 1], ps[i].load)
    <3>1. CASE i = 0
      BY <1>8, <3>1
    <3>2. CASE i # 0
      <4>1. i \in 1..n
        BY <1>1, <3>2
      <4>2. QED
        BY <1>9, <3>2, <4>1 DEF ReadNext
    <3>3. QED
      BY <3>1, <3>2
  <2>2. QED
    BY <1>8, <2>1
<1>11. read = Rec(read)
  BY <1>10
<1>12. DeliverInOrder(k, ps) = [k EXCEPT !.got = read[n], !.ack = (k.ack + n) % SeqSpace,
                                         !.late = k.late \/ (k.readClosed /\ \E i \in DOMAIN ps : ps[i].load # Absent)]
  BY DEF DeliverInOrder, UtpConns
<1> HIDE DEF read
<1>13. DOMAIN read = 0..n /\ read[0] = k.got /\ \A i \in 1..n : read[i] = ReadNext(k, ps, read[i - 1], i)
  <2>1. ASSUME NEW g, g = Rec(g)
        PROVE  DOMAIN g = 0..n /\ \A i \in 0..n : g[i] = IF i = 0 THEN k.got
                                     ELSE IF ps[i].load = Absent \/ k.closing THEN g[i - 1] ELSE Append(g[i - 1], ps[i].load)
    BY <2>1
  <2>2. DOMAIN read = 0..n /\ \A i \in 0..n : read[i] = IF i = 0 THEN k.got
                                     ELSE IF ps[i].load = Absent \/ k.closing THEN read[i - 1] ELSE Append(read[i - 1], ps[i].load)
    BY <1>11, <2>1
  <2>3. 0 \in 0..n /\ \A i \in 1..n : i \in 0..n /\ i # 0
    BY <1>1
  <2>4. QED
    BY <2>2, <2>3 DEF ReadNext
<1> DEFINE P == {i \in Nat : i \in 0..n => read[i] \in V}
<1>14. 0 \in P
  BY <1>2, <1>13
<1>15. ASSUME NEW i \in P PROVE i + 1 \in P
  <2>1. i \in Nat /\ (i \in 0..n => read[i] \in V)
    OBVIOUS
  <2>2. ASSUME i + 1 \in 0..n PROVE read[i + 1] \in V
    <3>1. i \in 0..n /\ i + 1 \in 1..n /\ (i + 1) - 1 = i
      BY <1>1, <2>1, <2>2
    <3>2. read[i + 1] = ReadNext(k, ps, read[i], i + 1)
      BY <1>13, <3>1
    <3>3. QED
      BY <1>4, <2>1, <3>1, <3>2
  <2>3. QED
    BY <2>1, <2>2
<1>16. P = Nat
  <2>1. P \in SUBSET Nat
    OBVIOUS
  <2> HIDE DEF P
  <2>2. QED
    BY <1>14, <1>15, <2>1, EveryNumber
<1>17. read \in [0..n -> V]
  <2>1. \A i \in 0..n : read[i] \in V
    BY <1>1, <1>16
  <2>2. read = [i \in 0..n |-> read[i]]
    <3>1. ASSUME NEW g, g = Rec(g) PROVE g = [i \in 0..n |-> g[i]]
      BY <3>1
    <3>2. QED
      BY <1>11, <3>1
  <2>3. QED
    BY <2>1, <2>2
<1>18. read[n] \in Seq(Nat) /\ ReadsTo(k, ps, read[n])
  <2>1. read \in [0..n -> Seq(Nat)] /\ n \in 0..n
    BY <1>1, <1>17 DEF V
  <2>2. QED
    BY <1>13, <2>1 DEF ReadsTo
<1>19. QED
  BY <1>12, <1>18 DEF Delivered

ReadTo(k, g, m) ==
    /\ \A i \in 1..Len(g) : g[i] = i
    /\ Len(g) <= m /\ (~k.closing => Len(g) = m)
LoadsFrom(ps, a, r) == \A i \in 1..Len(ps) : ps[i].load = LoadAt(a, r + (i - 1))

\* What is in order stays so, however much comes.
LEMMA NextIndex ==
    ASSUME NEW n \in Nat, NEW i \in Nat, NEW r \in Nat, i + 1 \in 0..n
    PROVE  i \in 0..n /\ i + 1 \in 1..n /\ (i + 1) - 1 = i /\ r + i \in Nat /\ r + (i + 1) = (r + i) + 1 /\ r + ((i + 1) - 1) = r + i
  OBVIOUS

LEMMA CountsOn ==
    ASSUME NEW x \in Seq(Nat), NEW c \in Nat, Len(x) = c, \A y \in 1..Len(x) : x[y] = y
    PROVE  LET h == Append(x, c + 1) IN h \in Seq(Nat) /\ Len(h) = c + 1 /\ \A y \in 1..Len(h) : h[y] = y
  OBVIOUS

LEMMA ReadsInOrder ==
    ASSUME NEW k \in UtpConns, NEW T, NEW ps \in Seq(T), NEW a \in Int, a >= -1, NEW r \in Nat,
           LoadsFrom(ps, a, r), NEW g, ReadsTo(k, ps, g), ReadTo(k, k.got, ChunksIn(a, r))
    PROVE  ReadTo(k, g, ChunksIn(a, r + Len(ps)))
<1>0. PICK read \in [0..Len(ps) -> Seq(Nat)] :
        read[0] = k.got /\ read[Len(ps)] = g /\ \A i \in 1..Len(ps) : read[i] = ReadNext(k, ps, read[i - 1], i)
  BY DEF ReadsTo
<1> DEFINE n == Len(ps)
           CountsTo(h, m) == ReadTo(k, h, m) /\ (k.closing => h = k.got)
           P == {i \in Nat : i \in 0..n => CountsTo(read[i], ChunksIn(a, r + i))}
<1>1. n \in Nat
  OBVIOUS
<1>2. 0 \in P
  <2>1. read[0] = k.got /\ r + 0 = r /\ ReadTo(k, k.got, ChunksIn(a, r))
    BY <1>0
  <2>2. CountsTo(k.got, ChunksIn(a, r))
    BY <2>1
  <2>3. CountsTo(read[0], ChunksIn(a, r + 0))
    BY <2>1, <2>2
  <2> HIDE DEF CountsTo
  <2>4. QED
    BY <2>3
<1>3. ASSUME NEW i \in P PROVE i + 1 \in P
  <2>1. i \in Nat /\ (i \in 0..n => CountsTo(read[i], ChunksIn(a, r + i)))
    OBVIOUS
  <2>2. ASSUME i + 1 \in 0..n PROVE CountsTo(read[i + 1], ChunksIn(a, r + (i + 1)))
    <3> DEFINE x == read[i]  j == r + i
    <3>1. i \in 0..n /\ i + 1 \in 1..n /\ (i + 1) - 1 = i /\ j \in Nat /\ r + (i + 1) = j + 1
      <4>1. i \in Nat /\ n \in Nat /\ i + 1 \in 0..n
        BY <1>1, <2>1, <2>2
      <4> HIDE DEF n, P, CountsTo
      <4>2. QED
        BY <4>1, NextIndex
    <3>2. read[i + 1] = ReadNext(k, ps, x, i + 1) /\ ps[i + 1].load = LoadAt(a, j) /\ x \in Seq(Nat) /\ CountsTo(x, ChunksIn(a, j))
      BY <1>0, <2>1, <3>1 DEF LoadsFrom
    <3> HIDE DEF x, j
    <3>3. /\ ChunksIn(a, j) \in Nat
          /\ IF LoadAt(a, j) = Absent THEN ChunksIn(a, j + 1) = ChunksIn(a, j)
             ELSE LoadAt(a, j) = ChunksIn(a, j) + 1 /\ ChunksIn(a, j + 1) = ChunksIn(a, j) + 1
      BY <3>1, LoadCounts
    <3>4. CASE k.closing
      <4>1. read[i + 1] = x
        BY <3>2, <3>4 DEF ReadNext
      <4>2. Len(x) <= ChunksIn(a, j + 1)
        BY <3>2, <3>3 DEF ReadTo
      <4>3. CountsTo(x, ChunksIn(a, j + 1))
        BY <3>2, <3>3, <3>4, <4>2 DEF ReadTo
      <4>4. QED
        BY <3>1, <4>1, <4>3
    <3>5. CASE ~k.closing /\ LoadAt(a, j) = Absent
      <4>1. read[i + 1] = x
        BY <3>2, <3>5 DEF ReadNext
      <4>2. CountsTo(x, ChunksIn(a, j + 1))
        BY <3>2, <3>3, <3>5 DEF ReadTo
      <4>3. QED
        BY <3>1, <4>1, <4>2
    <3>6. CASE ~k.closing /\ LoadAt(a, j) # Absent
      <4>0. Len(x) = ChunksIn(a, j) /\ \A y \in 1..Len(x) : x[y] = y
        BY <3>2, <3>6 DEF ReadTo
      <4>a. ps[i + 1].load = ChunksIn(a, j) + 1 /\ ps[i + 1].load # Absent /\ read[i + 1] = ReadNext(k, ps, x, i + 1)
        BY <3>2, <3>3, <3>6
      <4>b. read[i + 1] = Append(x, ChunksIn(a, j) + 1)
        BY <3>6, <4>a DEF ReadNext
      <4>1. read[i + 1] = Append(x, ChunksIn(a, j) + 1) /\ Len(x) = ChunksIn(a, j) /\ \A y \in 1..Len(x) : x[y] = y
        BY <4>0, <4>b
      <4> DEFINE h == Append(x, ChunksIn(a, j) + 1)
      <4>2. Len(h) = ChunksIn(a, j) + 1 /\ \A y \in 1..Len(h) : h[y] = y
        BY <3>2, <3>3, <4>1, CountsOn
      <4>3. h = read[i + 1]
        BY <4>1
      <4> HIDE DEF h
      <4>5. Len(h) = ChunksIn(a, j + 1)
        BY <3>3, <3>6, <4>2
      <4>6. CountsTo(h, ChunksIn(a, j + 1))
        BY <3>3, <3>6, <4>2, <4>5 DEF ReadTo
      <4>4. QED
        BY <3>1, <4>3, <4>6
    <3>7. QED
      BY <3>4, <3>5, <3>6
  <2>3. QED
    BY <2>1, <2>2
<1>4. P = Nat
  <2>1. P \in SUBSET Nat
    OBVIOUS
  <2> HIDE DEF P
  <2>2. QED
    BY <1>2, <1>3, <2>1, EveryNumber
<1>5. n \in 0..n
  BY <1>1
<1>6. CountsTo(read[n], ChunksIn(a, r + n))
  <2>1. \A i \in P : i \in 0..n => CountsTo(read[i], ChunksIn(a, r + i))
    OBVIOUS
  <2> HIDE DEF P, CountsTo, n
  <2>2. QED
    BY <1>1, <1>4, <1>5, <2>1
<1>7. QED
  <2>1. read[n] = g
    BY <1>0
  <2>2. CountsTo(g, ChunksIn(a, r + n))
    BY <1>6, <2>1
  <2>3. QED
    BY <2>2

LEMMA SenderSame ==
    ASSUME NumbersLast, NEW c \in ConnIds, NEW k, NEW l \in UtpConns, NEW f, NEW b, Sender(c, k, f, b), InUse(k), InUse(l),
           l.seq = k.seq, l.buf = k.buf, l.pend = k.pend, l.fin = k.fin, l.early = k.early, l.wrote = k.wrote,
           IsFiniteSet(l.reorder), b < 0 <=> l.st = "connected"
    PROVE  Sender(c, l, f, b) /\ GoesOn(k, b, l, b) /\ Units(l, b) = Units(k, b)
<1>1. SentBy(l) = SentBy(k) /\ Units(l, b) = Units(k, b) /\ Flight(l) = Flight(k)
  BY DEF SentBy, Units, Flight
<1>2. Units(k, b) \in Nat /\ b \in Int /\ k.wrote \in Nat
  BY UnitsFit DEF Sender, UtpConns
<1>3. l.st \notin {"connecting", "gone"} /\ k.st \notin {"connecting", "gone"}
  BY DEF InUse
<1>4. Sender(c, l, f, b)
  BY <1>1, <1>3 DEF Sender
<1>5. GoesOn(k, b, l, b)
  BY <1>1, <1>2 DEF GoesOn
<1>6. QED
  BY <1>1, <1>4, <1>5

\* handleData: what may change, whatever comes.
ReceivedFrom(k, l) ==
    /\ l \in UtpConns /\ IsFiniteSet(l.reorder) /\ l.st = k.st /\ l.seq = k.seq /\ l.buf = k.buf /\ l.pend = k.pend
    /\ l.fin = k.fin /\ l.early = k.early /\ l.wrote = k.wrote /\ l.window = k.window
    /\ l.peerFin = k.peerFin /\ l.readClosed = k.readClosed /\ l.closing = k.closing /\ l.eof = k.eof
InOrder(k, p, ps) == DeliverInOrder([k EXCEPT !.reorder = @ \ ToSet(Following(k, p.seq))], ps)

InOrderTo(k, p, next) ==
    LET ps == <<p>> \o next  l == InOrder(k, p, ps) IN
    /\ ps \in Seq(Received \cup {p}) /\ Len(ps) = Len(next) + 1 /\ Len(next) \in Nat
    /\ ps[1] = p /\ \A i \in 1..Len(next) : ps[i + 1] = next[i]
    /\ l.reorder = k.reorder \ ToSet(next) /\ l.ack = (k.ack + Len(ps)) % SeqSpace
    /\ l.late = (k.late \/ (k.readClosed /\ \E i \in DOMAIN ps : ps[i].load # Absent))
    /\ ReadsTo(k, ps, l.got)
LEMMA InOrderIs ==
    ASSUME NEW k \in UtpConns, IsFiniteSet(k.reorder), NEW p, p.seq \in Numbers, p.load \in Loads
    PROVE  ReceivedFrom(k, InOrder(k, p, <<p>> \o Following(k, p.seq))) /\ InOrderTo(k, p, Following(k, p.seq))
<1> DEFINE next == Following(k, p.seq)  ps == <<p>> \o next  R == k.reorder \ ToSet(next)
           h == [k EXCEPT !.reorder = R]  l == DeliverInOrder(h, ps)  T == Received \cup {p}  n == Len(ps)
<1>1. next \in Seq(Received) /\ k.reorder \in SUBSET Received
  <2>1. k.reorder \in SUBSET Received
    BY DEF UtpConns
  <2>2. QED
    BY <2>1, FollowingIs
<1> HIDE DEF next
<1>2. ps \in Seq(T) /\ Len(ps) = Len(next) + 1 /\ Len(next) \in Nat /\ ps[1] = p /\ \A i \in 1..Len(next) : ps[i + 1] = next[i]
  <2>1. next \in Seq(T) /\ <<p>> \in Seq(T)
    BY <1>1
  <2>2. QED
    BY <2>1
<1>3. \A i \in 1..n : ps[i].load \in Loads
  <2>1. \A e \in T : e.load \in Loads
    BY DEF Received
  <2> HIDE DEF T
  <2>2. QED
    BY <1>2, <2>1
<1>4. h \in UtpConns /\ R \in SUBSET Received /\ IsFiniteSet(R)
  <2>1. R \in SUBSET Received /\ IsFiniteSet(R)
    BY <1>1, FS_Subset
  <2> HIDE DEF R
  <2>2. QED
    BY <2>1 DEF UtpConns
<1>5. h.got = k.got /\ h.closing = k.closing /\ h.ack = k.ack /\ h.late = k.late /\ h.readClosed = k.readClosed
  BY DEF UtpConns
<1>6. InOrder(k, p, ps) = l
  BY DEF InOrder, UtpConns, next
<1> HIDE DEF h, ps, T
<1>7. PICK G \in Seq(Nat) :
        /\ ReadsTo(h, ps, G)
        /\ l = [h EXCEPT !.got = G, !.ack = (h.ack + n) % SeqSpace,
                         !.late = h.late \/ (h.readClosed /\ \E i \in DOMAIN ps : ps[i].load # Absent)]
  <2>1. Delivered(h, ps, l)
    BY <1>2, <1>3, <1>4, DeliverIs
  <2>2. QED
    BY <2>1 DEF Delivered
<1> DEFINE A == (h.ack + n) % SeqSpace  L == h.late \/ (h.readClosed /\ \E i \in DOMAIN ps : ps[i].load # Absent)
<1>8. A \in Numbers /\ L \in BOOLEAN /\ G \in Seq(Nat)
  <2>1. h.ack \in Nat /\ SeqSpace \in Nat \ {0} /\ n \in Nat /\ h.late \in BOOLEAN
    BY <1>2, <1>4, UtpConstants DEF UtpConns, Numbers
  <2>2. A \in Numbers
    BY <2>1 DEF Numbers
  <2>3. QED
    BY <1>7, <2>1, <2>2
<1>9. l = [h EXCEPT !.got = G, !.ack = A, !.late = L]
  BY <1>7
<1> HIDE DEF A, L, l
<1>10. /\ l \in UtpConns /\ l.reorder = R /\ l.ack = A /\ l.late = L /\ l.got = G
       /\ l.st = k.st /\ l.seq = k.seq /\ l.buf = k.buf /\ l.pend = k.pend
       /\ l.fin = k.fin /\ l.early = k.early /\ l.wrote = k.wrote /\ l.window = k.window
       /\ l.peerFin = k.peerFin /\ l.readClosed = k.readClosed /\ l.closing = k.closing /\ l.eof = k.eof
  <2>1. /\ h.reorder = R /\ h.st = k.st /\ h.seq = k.seq /\ h.buf = k.buf /\ h.pend = k.pend
        /\ h.fin = k.fin /\ h.early = k.early /\ h.wrote = k.wrote /\ h.window = k.window
        /\ h.peerFin = k.peerFin /\ h.readClosed = k.readClosed /\ h.closing = k.closing /\ h.eof = k.eof
    BY DEF UtpConns, h
  <2>2. /\ l \in UtpConns /\ l.reorder = h.reorder /\ l.ack = A /\ l.late = L /\ l.got = G
        /\ l.st = h.st /\ l.seq = h.seq /\ l.buf = h.buf /\ l.pend = h.pend
        /\ l.fin = h.fin /\ l.early = h.early /\ l.wrote = h.wrote /\ l.window = h.window
        /\ l.peerFin = h.peerFin /\ l.readClosed = h.readClosed /\ l.closing = h.closing /\ l.eof = h.eof
    BY <1>4, <1>8, <1>9 DEF UtpConns
  <2>3. QED
    BY <2>1, <2>2
<1>11. ReceivedFrom(k, l)
  BY <1>4, <1>10 DEF ReceivedFrom
<1>12. ReadsTo(k, ps, l.got)
  BY <1>5, <1>7, <1>10 DEF ReadNext, ReadsTo
<1>13. l.ack = (k.ack + n) % SeqSpace /\ l.late = (k.late \/ (k.readClosed /\ \E i \in DOMAIN ps : ps[i].load # Absent))
  BY <1>5, <1>10 DEF A, L
<1>14. QED
  BY <1>2, <1>6, <1>10, <1>11, <1>12, <1>13 DEF ps, next, T, InOrderTo

LEMMA ReceiveTypes ==
    ASSUME NEW k \in UtpConns, IsFiniteSet(k.reorder), NEW p, p.seq \in Numbers, p.load \in Loads
    PROVE  ReceivedFrom(k, Receive(k, p))
<1>1. CASE SeqLessEq(p.seq, k.ack)
  BY <1>1 DEF Receive, ReceivedFrom
<1>2. CASE ~SeqLessEq(p.seq, k.ack) /\ p.seq = SeqNext(k.ack)
  <2>1. Receive(k, p) = InOrder(k, p, <<p>> \o Following(k, p.seq))
    BY <1>2 DEF Receive, InOrder
  <2>2. QED
    BY <2>1, InOrderIs
<1>3. CASE ~SeqLessEq(p.seq, k.ack) /\ p.seq # SeqNext(k.ack)
  <2> DEFINE e == [seq |-> p.seq, load |-> p.load]  R == k.reorder \cup {e}
  <2>1. R \in SUBSET Received /\ IsFiniteSet(R)
    <3>1. k.reorder \in SUBSET Received /\ e \in Received
      BY DEF UtpConns, Received
    <3> HIDE DEF e
    <3>2. QED
      BY <3>1, FS_AddElement
  <2>2. Receive(k, p) = [k EXCEPT !.reorder = R]
    BY <1>3 DEF Receive, UtpConns
  <2> HIDE DEF R
  <2>3. QED
    BY <2>1, <2>2 DEF ReceivedFrom, UtpConns
<1>4. QED
  BY <1>1, <1>2, <1>3

\* What is received keeps what has been read the start of what was sent.
LEMMA ReceiveKeeps ==
    ASSUME NumbersLast, NEW k \in UtpConns, IsFiniteSet(k.reorder), InUse(k),
           NEW f \in Numbers, NEW n \in Nat, 2 * n < SeqSpace, NEW a \in Int, a >= -1, NEW wrote, NEW early, NEW r,
           Closes(n, a, wrote, early), Receiver(k, f, n, a, wrote, early, r),
           NEW p, NEW j \in 0..n - 1, p.seq = Num(f, j), p.load = LoadAt(a, j), p.load \in Loads
    PROVE  \E s : Receiver(Receive(k, p), f, n, a, wrote, early, s)
<1> DEFINE l == Receive(k, p)
<1>1. /\ r \in 0..n /\ k.ack = Num(f, r - 1) /\ \A i \in 1..Len(k.got) : k.got[i] = i
      /\ Len(k.got) <= ChunksIn(a, r) /\ (~k.closing => Len(k.got) = ChunksIn(a, r))
      /\ \A e \in k.reorder : IsUnit(f, n, a, e.seq, e.load)
      /\ k.peerFin # Absent => a >= 0 /\ k.peerFin = Num(f, a)
      /\ k.readClosed => a >= 0 /\ r > a
      /\ k.eof => a >= 0 /\ (~early => Len(k.got) = wrote)
      /\ (k.late => early) /\ (k.eof => k.readClosed)
      /\ k.st \notin {"connecting", "gone"}
  BY DEF InUse, Receiver
<1>2. SeqSpace \in Nat \ {0} /\ f \in 0..SeqSpace - 1 /\ p.seq \in Numbers
  <2>1. SeqSpace \in Nat \ {0} /\ f \in 0..SeqSpace - 1 /\ j \in -1..n
    BY UtpConstants DEF Numbers
  <2>2. QED
    BY <2>1, NumbersTell DEF Numbers
<1>3. CASE SeqLessEq(p.seq, k.ack)
  <2>1. l = k
    BY <1>3 DEF Receive
  <2>2. QED
    BY <2>1
<1>4. CASE ~SeqLessEq(p.seq, k.ack) /\ p.seq = SeqNext(k.ack)
  <2> DEFINE next == Following(k, p.seq)  L == Len(next)  s == r + (1 + L)
  <2>1. ReceivedFrom(k, l) /\ InOrderTo(k, p, next)
    BY <1>2, ReceiveTypes, InOrderIs
  <2>2. l = InOrder(k, p, <<p>> \o next)
    BY <1>4 DEF Receive, InOrder
  <2>3. j = r
    <3>1. r - 1 \in -1..n /\ r \in -1..n /\ j \in -1..n /\ (r - 1) + 1 = r
      BY <1>1
    <3>2. SeqNext(Num(f, r - 1)) = Num(f, (r - 1) + 1)
      BY <1>2, <3>1, NumbersTell
    <3>3. Num(f, j) = Num(f, r)
      BY <1>1, <1>4, <3>1, <3>2
    <3>4. QED
      BY <1>2, <3>1, <3>3, NumbersTell
  <2>4. r + L < n /\ \A i \in 1..L : next[i].load = LoadAt(a, r + i)
    <3>1. k.reorder \in SUBSET Received
      BY DEF UtpConns
    <3>2. next = Following(k, Num(f, j))
      OBVIOUS
    <3>3. UnitsOnly(k.reorder, f, n, a)
      BY <1>1 DEF UnitsOnly
    <3> HIDE DEF next
    <3>4. FollowsIn(next, n, a, j)
      BY <3>1, <3>2, <3>3, FollowingFollows
    <3>5. QED
      BY <2>3, <3>4 DEF FollowsIn
  <2> HIDE DEF next, l
  <2> DEFINE ps == <<p>> \o next  T == Received \cup {p}
  <2>5. /\ ps \in Seq(T) /\ Len(ps) = L + 1 /\ L \in Nat
        /\ ps[1] = p /\ \A i \in 1..L : ps[i + 1] = next[i]
        /\ l.reorder = k.reorder \ ToSet(next) /\ l.ack = (k.ack + Len(ps)) % SeqSpace
        /\ l.late = (k.late \/ (k.readClosed /\ \E i \in DOMAIN ps : ps[i].load # Absent))
        /\ ReadsTo(k, ps, l.got)
    BY <2>1, <2>2 DEF InOrderTo
  <2> HIDE DEF ps, T
  <2>6. \A i \in 1..Len(ps) : ps[i].load = LoadAt(a, r + (i - 1))
    <3> SUFFICES ASSUME NEW i \in 1..Len(ps) PROVE ps[i].load = LoadAt(a, r + (i - 1))
      OBVIOUS
    <3>1. CASE i = 1
      BY <1>1, <2>3, <2>5, <3>1
    <3>2. CASE i # 1
      <4>1. i - 1 \in 1..L /\ (i - 1) + 1 = i
        BY <2>5, <3>2
      <4>2. ps[i] = next[i - 1]
        BY <2>5, <4>1
      <4>3. QED
        BY <2>4, <4>1, <4>2
    <3>3. QED
      BY <3>1, <3>2
  <2>7. r \in Nat /\ s \in 0..n /\ r + Len(ps) = s /\ (r - 1) + Len(ps) = s - 1 /\ (r - 1) + Len(ps) < SeqSpace /\ Len(ps) \in Nat
    BY <1>1, <1>2, <2>4, <2>5
  <2>8. /\ \A i \in 1..Len(l.got) : l.got[i] = i
        /\ Len(l.got) <= ChunksIn(a, s) /\ (~k.closing => Len(l.got) = ChunksIn(a, s))
    <3>1. ReadTo(k, l.got, ChunksIn(a, r + Len(ps)))
      <4>1. /\ ReadsTo(k, ps, l.got) /\ ReadTo(k, k.got, ChunksIn(a, r)) /\ LoadsFrom(ps, a, r) /\ r \in Nat /\ ps \in Seq(T)
        BY <1>1, <2>5, <2>6, <2>7 DEF ReadTo, LoadsFrom
      <4>2. QED
        BY <4>1, ReadsInOrder
    <3>2. QED
      BY <2>7, <3>1 DEF ReadTo
  <2>9. l.ack = Num(f, s - 1)
    <3>1. (Num(f, r - 1) + Len(ps)) % SeqSpace = Num(f, (r - 1) + Len(ps))
      BY <1>1, <2>7, NumAdds
    <3>2. QED
      BY <1>1, <2>5, <2>7, <3>1
  <2>10. /\ l.st = k.st /\ l.peerFin = k.peerFin /\ l.readClosed = k.readClosed /\ l.closing = k.closing /\ l.eof = k.eof
    BY <2>1 DEF ReceivedFrom
  <2>11. k.readClosed => early
    BY <1>1, <2>3 DEF Closes
  <2>12. l.late => early
    BY <1>1, <2>5, <2>11
  <2>13. l.eof => a >= 0 /\ early /\ l.readClosed
    BY <1>1, <2>10, <2>11
  <2>14. l.readClosed => a >= 0 /\ s > a
    BY <1>1, <2>5, <2>7, <2>10
  <2>15. \A e \in l.reorder : IsUnit(f, n, a, e.seq, e.load)
    BY <1>1, <2>5
  <2> HIDE DEF s, L
  <2>16. Receiver(l, f, n, a, wrote, early, s)
    BY <1>1, <2>7, <2>8, <2>9, <2>10, <2>12, <2>13, <2>14, <2>15 DEF Receiver
  <2>17. QED
    BY <2>16 DEF l
<1>5. CASE ~SeqLessEq(p.seq, k.ack) /\ p.seq # SeqNext(k.ack)
  <2> DEFINE e == [seq |-> p.seq, load |-> p.load]  R == k.reorder \cup {e}
  <2>1. l = [k EXCEPT !.reorder = R]
    BY <1>5 DEF Receive, UtpConns
  <2>2. IsUnit(f, n, a, e.seq, e.load)
    BY DEF IsUnit
  <2>3. \A x \in R : IsUnit(f, n, a, x.seq, x.load)
    BY <1>1, <2>2
  <2> HIDE DEF R, l
  <2>4. /\ l.reorder = R /\ l.st = k.st /\ l.ack = k.ack /\ l.got = k.got /\ l.closing = k.closing /\ l.peerFin = k.peerFin
        /\ l.readClosed = k.readClosed /\ l.eof = k.eof /\ l.late = k.late
    BY <2>1 DEF UtpConns
  <2>5. Receiver(l, f, n, a, wrote, early, r)
    BY <1>1, <2>3, <2>4 DEF Receiver
  <2>6. QED
    BY <2>5 DEF l
<1>6. QED
  BY <1>3, <1>4, <1>5

\* The number a connection that is in use is at.
LEMMA StateGoesOut ==
    ASSUME NumbersLast, NEW c \in ConnIds, NEW f \in Numbers, NEW k, NEW b, Sender(c, k, f, b), InUse(k)
    PROVE  Outgoing(c, f, Units(k, b), b, StateOf(c, k))
<1>1. Units(k, b) \in Nat /\ k.seq = Num(f, Units(k, b)) /\ k.seq \in Numbers
  BY UnitsFit DEF Sender, UtpConns, InUse
<1> DEFINE p == StateOf(c, k)
<1>2. p.to = To(c) /\ p.type = "state" /\ p.seq = k.seq /\ p.load = Absent
  BY DEF StateOf, Packet
<1> HIDE DEF p
<1>3. p.to \in {"socket", "dialer"}
  BY <1>2 DEF To
<1>4. IsPacket(p)
  BY <1>1, <1>2, <1>3 DEF IsPacket, Loads
<1>5. Packets(Units(k, b), b, f, p)
  <2>1. Units(k, b) \in 0..Units(k, b)
    BY <1>1
  <2>2. p.type \notin {"data", "fin"}
    BY <1>2
  <2>3. QED
    BY <1>1, <1>2, <2>1, <2>2 DEF Packets
<1>6. QED
  BY <1>2, <1>4, <1>5 DEF Outgoing, p

\* A turn goes on with a record that sends as the last did.
LEMMA TurnGoesOn ==
    ASSUME NumbersLast, NEW c \in ConnIds, NEW f \in Numbers, NEW k, NEW a, NEW r, NEW b, Sender(c, k, f, a), Turn(c, f, k, a, r, b),
           NEW l, Sender(c, l, f, b), InUse(l), GoesOn(r.k, b, l, b), NEW out, out \subseteq r.out \cup {StateOf(c, l)}
    PROVE  Turn(c, f, k, a, [k |-> l, out |-> out], b)
<1>1. Sender(c, r.k, f, b) /\ GoesOn(k, a, r.k, b) /\ \A p \in r.out : Outgoing(c, f, Units(r.k, b), b, p)
  BY DEF Turn
<1>2. GoesOn(k, a, l, b)
  BY <1>1, GoesOnTwice
<1>3. Outgoing(c, f, Units(l, b), b, StateOf(c, l))
  BY StateGoesOut
<1>4. \A p \in r.out : Outgoing(c, f, Units(l, b), b, p)
  BY <1>1, UnitsStay
<1>5. \A p \in out : Outgoing(c, f, Units(l, b), b, p)
  BY <1>3, <1>4
<1>6. QED
  BY <1>2, <1>5 DEF Turn

\* handlePacket by type of packet: what is sent.
LEMMA HandledKeeps ==
    ASSUME NumbersLast, NEW c \in ConnIds, NEW f \in Numbers, NEW k, NEW a, NEW r, NEW b, Sender(c, k, f, a), Turn(c, f, k, a, r, b),
           NEW p, IsPacket(p)
    PROVE  Turn(c, f, k, a, Handled(c, r, p), b)
<1>1. /\ r = [k |-> r.k, out |-> r.out] /\ Sender(c, r.k, f, b) /\ InUse(r.k)
      /\ r.k \in UtpConns /\ IsFiniteSet(r.k.reorder) /\ p.seq \in Numbers /\ p.load \in Loads
  BY DEF Turn, Sender, IsPacket
<1>2. b < 0 <=> r.k.st = "connected"
  BY <1>1 DEF Sender, InUse
<1>3. ASSUME NEW h \in UtpConns, IsFiniteSet(h.reorder), h.st = r.k.st, h.seq = r.k.seq, h.buf = r.k.buf, h.pend = r.k.pend,
             h.fin = r.k.fin, h.early = r.k.early, h.wrote = r.k.wrote
      PROVE  LET l == Receive(h, p) IN Turn(c, f, k, a, [k |-> l, out |-> r.out \cup {StateOf(c, l)}], b)
  <2> DEFINE l == Receive(h, p)
  <2>1. ReceivedFrom(h, l)
    BY <1>1, <1>3, ReceiveTypes
  <2> HIDE DEF l
  <2>2. InUse(l)
    BY <1>1, <1>3, <2>1 DEF InUse, ReceivedFrom
  <2>3. Sender(c, l, f, b) /\ GoesOn(r.k, b, l, b)
    <3>1. /\ l \in UtpConns /\ IsFiniteSet(l.reorder) /\ l.st = r.k.st /\ l.seq = r.k.seq /\ l.buf = r.k.buf /\ l.pend = r.k.pend
          /\ l.fin = r.k.fin /\ l.early = r.k.early /\ l.wrote = r.k.wrote
      BY <1>3, <2>1 DEF ReceivedFrom
    <3>2. QED
      BY <1>1, <1>2, <2>2, <3>1, SenderSame
  <2>4. Turn(c, f, k, a, [k |-> l, out |-> r.out \cup {StateOf(c, l)}], b)
    BY <2>2, <2>3, TurnGoesOn
  <2>5. QED
    BY <2>4 DEF l
<1>4. CASE p.type = "syn"
  <2>1. Handled(c, r, p) = [k |-> r.k, out |-> {StateOf(c, r.k)}]
    BY <1>1, <1>4 DEF Handled
  <2>2. GoesOn(r.k, b, r.k, b)
    BY <1>1, <1>2, SenderSame
  <2>3. QED
    BY <1>1, <2>1, <2>2, TurnGoesOn
<1>5. CASE p.type = "data"
  <2>1. Handled(c, r, p) = [k |-> Receive(r.k, p), out |-> r.out \cup {StateOf(c, Receive(r.k, p))}]
    BY <1>5 DEF Handled, HandleData
  <2>2. QED
    BY <1>1, <1>3, <2>1
<1>6. CASE p.type = "fin"
  <2> DEFINE h == [r.k EXCEPT !.peerFin = p.seq]
  <2>1. [r EXCEPT !.k.peerFin = p.seq] = [k |-> h, out |-> r.out]
    BY <1>1
  <2>2. h \in UtpConns /\ h.reorder = r.k.reorder /\ h.st = r.k.st /\ h.seq = r.k.seq /\ h.buf = r.k.buf /\ h.pend = r.k.pend
        /\ h.fin = r.k.fin /\ h.early = r.k.early /\ h.wrote = r.k.wrote
    BY <1>1 DEF UtpConns
  <2> HIDE DEF h
  <2>3. Handled(c, r, p) = [k |-> Receive(h, p), out |-> r.out \cup {StateOf(c, Receive(h, p))}]
    BY <1>6, <2>1 DEF Handled, HandleData
  <2>4. QED
    BY <1>1, <1>3, <2>2, <2>3
<1>7. CASE p.type = "state"
  <2>1. Handled(c, r, p) = r
    BY <1>7 DEF Handled
  <2>2. QED
    BY <2>1
<1>8. QED
  BY <1>4, <1>5, <1>6, <1>7 DEF IsPacket

\* finishIfDone: the end of a turn changes nothing that is sent.
LEMMA FinishedKeeps ==
    ASSUME NumbersLast, NEW c \in ConnIds, NEW f \in Numbers, NEW k, NEW a, NEW r, NEW b, Sender(c, k, f, a), Turn(c, f, k, a, r, b)
    PROVE  Turn(c, f, k, a, Finished(r), b)
<1> DEFINE g == r.k  eof == FinReached(g)
           E == g.eof \/ (eof /\ ~g.closing)  C == g.readClosed \/ eof
           S == IF g.fin # Absent /\ g.peerFin # Absent THEN "closed" ELSE g.st
           l == [g EXCEPT !.eof = E, !.readClosed = C, !.st = S]
<1>1. r = [k |-> g, out |-> r.out] /\ Sender(c, g, f, b) /\ InUse(g) /\ g \in UtpConns /\ IsFiniteSet(g.reorder)
  BY DEF Turn, Sender
<1>2. Finished(r) = [k |-> l, out |-> r.out]
  <2> DEFINE g1 == [g EXCEPT !.eof = E]  g2 == [g1 EXCEPT !.readClosed = C]
             r1 == [r EXCEPT !.k.eof = E]  r2 == [r1 EXCEPT !.k.readClosed = C]
  <2>1. Finished(r) = [r EXCEPT !.k.eof = E, !.k.readClosed = C, !.k.st = S]
    BY DEF Finished, UtpConns
  <2> HIDE DEF E, C, S
  <2>2. r1 = [k |-> g1, out |-> r.out] /\ g1.readClosed = g.readClosed /\ g1.st = g.st
    BY <1>1 DEF UtpConns
  <2>3. Finished(r) = [r2 EXCEPT !.k.st = S]
    BY <2>1
  <2>4. l = [g2 EXCEPT !.st = S]
    OBVIOUS
  <2> HIDE DEF g1, r1
  <2>5. r2 = [k |-> g2, out |-> r.out]
    BY <2>2
  <2> HIDE DEF g2, r2
  <2>6. QED
    BY <2>3, <2>4, <2>5
<1>3. E \in BOOLEAN /\ C \in BOOLEAN /\ S \in {"connected", "closing", "closed"}
  <2>1. eof \in BOOLEAN
    BY DEF FinReached
  <2>2. QED
    BY <1>1, <2>1 DEF UtpConns, InUse
<1>4. b < 0 <=> S = "connected"
  <2>1. b < 0 <=> g.st = "connected"
    BY <1>1 DEF Sender, InUse
  <2>2. b < 0 => g.fin = Absent
    BY <1>1 DEF Sender
  <2>3. QED
    BY <1>3, <2>1, <2>2
<1> HIDE DEF E, C, S
<1>5. /\ l \in UtpConns /\ l.reorder = g.reorder /\ l.st = S /\ l.seq = g.seq /\ l.buf = g.buf /\ l.pend = g.pend
      /\ l.fin = g.fin /\ l.early = g.early /\ l.wrote = g.wrote
  BY <1>1, <1>3 DEF UtpConns
<1> HIDE DEF l
<1>6. InUse(l)
  BY <1>3, <1>5 DEF InUse
<1>7. Sender(c, l, f, b) /\ GoesOn(g, b, l, b)
  BY <1>1, <1>4, <1>5, <1>6, SenderSame
<1>8. QED
  BY <1>2, <1>6, <1>7, TurnGoesOn

\* What one sends: as many packets, with the FIN at a.
Stream(f, n, a, wrote, early) ==
    f \in Numbers /\ n \in Nat /\ 2 * n < SeqSpace /\ a \in Int /\ a >= -1 /\ Closes(n, a, wrote, early)
Reader(k, f, n, a, wrote, early) == \E r : Receiver(k, f, n, a, wrote, early, r)
\* A packet of it, if it carries something.
PacketOf(f, n, a, p) == p.type \in {"data", "fin"} => Carries(f, n, a, p)

\* handlePacket by type of packet: what is read.
LEMMA HandledReads ==
    ASSUME NumbersLast, NEW c \in ConnIds, NEW r, r = [k |-> r.k, out |-> r.out], r.k \in UtpConns, IsFiniteSet(r.k.reorder), InUse(r.k),
           NEW f, NEW n, NEW a, NEW wrote, NEW early, Stream(f, n, a, wrote, early), Reader(r.k, f, n, a, wrote, early),
           NEW p, IsPacket(p), PacketOf(f, n, a, p)
    PROVE  Reader(Handled(c, r, p).k, f, n, a, wrote, early)
<1>1. PICK s : Receiver(r.k, f, n, a, wrote, early, s)
  BY DEF Reader
<1>2. f \in Numbers /\ n \in Nat /\ 2 * n < SeqSpace /\ a \in Int /\ a >= -1 /\ Closes(n, a, wrote, early) /\ p.seq \in Numbers /\ p.load \in Loads
  BY DEF Stream, IsPacket
<1>3. CASE p.type \in {"syn", "state"}
  <2>1. Handled(c, r, p).k = r.k
    BY <1>3 DEF Handled
  <2>2. QED
    BY <2>1
<1>4. CASE p.type \in {"data", "fin"}
  <2>1. PICK j \in 0..n - 1 : p.seq = Num(f, j) /\ p.load = LoadAt(a, j)
    BY <1>4 DEF PacketOf, Carries, IsUnit
  <2>2. ASSUME NEW h \in UtpConns, IsFiniteSet(h.reorder), InUse(h), Receiver(h, f, n, a, wrote, early, s)
        PROVE  Reader(Receive(h, p), f, n, a, wrote, early)
    BY <1>2, <2>1, <2>2, ReceiveKeeps DEF Reader
  <2>3. CASE p.type = "data"
    <3>1. Handled(c, r, p).k = Receive(r.k, p)
      BY <2>3 DEF Handled, HandleData
    <3>2. QED
      BY <1>1, <2>2, <3>1
  <2>4. CASE p.type = "fin"
    <3> DEFINE g == r.k  h == [g EXCEPT !.peerFin = p.seq]
    <3>1. [r EXCEPT !.k.peerFin = p.seq] = [k |-> h, out |-> r.out]
      OBVIOUS
    <3>2. h \in UtpConns /\ h.peerFin = p.seq /\ h.reorder = g.reorder /\ h.st = g.st /\ h.ack = g.ack /\ h.got = g.got /\ h.closing = g.closing
          /\ h.readClosed = g.readClosed /\ h.eof = g.eof /\ h.late = g.late
      BY <1>2 DEF UtpConns
    <3>3. a >= 0 /\ j = a
      <4>1. j \in Nat /\ LoadAt(a, j) = Absent
        BY <1>2, <2>1, <2>4 DEF PacketOf, Carries
      <4>2. j = a
        BY <1>2, <4>1, LoadCounts
      <4>3. QED
        BY <4>1, <4>2
    <3> HIDE DEF h
    <3>4. Receiver(h, f, n, a, wrote, early, s)
      BY <1>1, <2>1, <3>2, <3>3 DEF Receiver
    <3>5. InUse(h)
      BY <3>2 DEF InUse
    <3>6. Handled(c, r, p).k = Receive(h, p)
      BY <2>4, <3>1 DEF Handled, HandleData
    <3>7. QED
      BY <2>2, <3>2, <3>4, <3>5, <3>6
  <2>5. QED
    BY <1>4, <2>3, <2>4
<1>5. QED
  BY <1>3, <1>4 DEF IsPacket

\* finishIfDone: what is read.
LEMMA FinishedReads ==
    ASSUME NumbersLast, NEW r, r = [k |-> r.k, out |-> r.out], r.k \in UtpConns, InUse(r.k),
           NEW f, NEW n, NEW a, NEW wrote, NEW early, Stream(f, n, a, wrote, early), Reader(r.k, f, n, a, wrote, early)
    PROVE  Reader(Finished(r).k, f, n, a, wrote, early)
<1> DEFINE g == r.k  l == Finished(r).k  eof == FinReached(g)
<1>1. PICK s : Receiver(g, f, n, a, wrote, early, s)
  BY DEF Reader
<1>2. f \in Numbers /\ n \in Nat /\ 2 * n < SeqSpace /\ a \in Int /\ a >= -1 /\ Closes(n, a, wrote, early)
  BY DEF Stream
<1>3. /\ l.got = g.got /\ l.ack = g.ack /\ l.reorder = g.reorder /\ l.peerFin = g.peerFin /\ l.late = g.late /\ l.closing = g.closing
      /\ l.eof = (g.eof \/ (eof /\ ~g.closing)) /\ l.readClosed = (g.readClosed \/ eof)
      /\ l.st = IF g.fin # Absent /\ g.peerFin # Absent THEN "closed" ELSE g.st
  BY DEF Finished, UtpConns
<1>4. /\ s \in 0..n /\ g.ack = Num(f, s - 1) /\ Len(g.got) <= ChunksIn(a, s) /\ (~g.closing => Len(g.got) = ChunksIn(a, s))
      /\ g.peerFin # Absent => a >= 0 /\ g.peerFin = Num(f, a)
      /\ g.readClosed => a >= 0 /\ s > a
      /\ g.eof => a >= 0 /\ (~early => Len(g.got) = wrote)
      /\ (g.late => early) /\ (g.eof => g.readClosed) /\ g.st \notin {"connecting", "gone"}
  BY <1>1 DEF Receiver, InUse
<1>5. ASSUME eof PROVE a >= 0 /\ s > a /\ (~early /\ ~g.closing => Len(g.got) = wrote)
  <2>1. a >= 0 /\ g.peerFin = Num(f, a) /\ SeqLessEq(Num(f, a), Num(f, s - 1))
    BY <1>4, <1>5 DEF FinReached
  <2>2. a < n /\ (~early => n = a + 1 /\ wrote = a)
    BY <1>2, <2>1 DEF Closes
  <2>3. f \in 0..SeqSpace - 1 /\ a \in -1..n /\ s - 1 \in -1..n /\ s - 1 < n
    BY <1>2, <1>4, <2>1, <2>2 DEF Numbers
  <2>4. a <= s - 1
    BY <1>2, <2>1, <2>2, <2>3, NumbersTell
  <2>5. ~early => ChunksIn(a, s) = wrote
    BY <1>2, <1>4, <2>1, <2>2, <2>3, <2>4 DEF ChunksIn
  <2>6. QED
    BY <1>2, <1>4, <2>1, <2>3, <2>4, <2>5
<1> HIDE DEF l, eof
<1>6. l.st \notin {"connecting", "gone"}
  BY <1>3, <1>4
<1>7. Receiver(l, f, n, a, wrote, early, s)
  <2>1. /\ l.eof => a >= 0 /\ (~early => Len(l.got) = wrote)
        /\ l.eof => l.readClosed
        /\ l.readClosed => a >= 0 /\ s > a
    BY <1>3, <1>4, <1>5
  <2>2. QED
    BY <1>1, <1>3, <1>4, <1>6, <2>1 DEF Receiver
<1>8. QED
  BY <1>7 DEF Reader, l

LEMMA ReaderSameToo ==
    ASSUME NEW k, NEW l, NEW f, NEW n, NEW a, NEW wrote, NEW early, SameReader(k, l), Reader(k, f, n, a, wrote, early)
    PROVE  Reader(l, f, n, a, wrote, early)
  BY ReaderSame DEF Reader

\* handlePacket.
PacketHandled(c, k0, p) == TrySend(c, Finished(AnsweredUtp(c, Handled(c, [k |-> HandleAck(k0, p), out |-> {}], p), p)))
LEMMA HandlePacketKeeps ==
    ASSUME NumbersLast, NEW c \in ConnIds, NEW f \in Numbers, NEW k, NEW a, Sender(c, k, f, a), InUse(k), NEW p, IsPacket(p)
    PROVE  /\ \E b : Turn(c, f, k, a, PacketHandled(c, k, p), b)
           /\ \A g, n, e, wrote, early :
                Stream(g, n, e, wrote, early) /\ Reader(k, g, n, e, wrote, early) /\ PacketOf(g, n, e, p) =>
                Reader(PacketHandled(c, k, p).k, g, n, e, wrote, early)
<1> DEFINE r1 == [k |-> HandleAck(k, p), out |-> {}]  r2 == Handled(c, r1, p)  r3 == AnsweredUtp(c, r2, p)  r4 == Finished(r3)
           r5 == TrySend(c, r4)
<1>1. Turn(c, f, k, a, r1, a) /\ SameReader(k, r1.k)
  <2>1. Sender(c, HandleAck(k, p), f, a) /\ SameReader(k, HandleAck(k, p)) /\ GoesOn(k, a, HandleAck(k, p), a) /\ HandleAck(k, p).st = k.st
    BY HandleAckKeeps
  <2>2. QED
    BY <2>1 DEF Turn, InUse
<1> HIDE DEF r1
<1>2. Turn(c, f, k, a, r2, a)
  BY <1>1, HandledKeeps
<1> HIDE DEF r2
<1>3. PICK b : Turn(c, f, k, a, r3, b) /\ SameReader(r2.k, r3.k)
  <2>1. \E d : Turn(c, f, k, a, SendFin(c, r2), d) /\ SameReader(r2.k, SendFin(c, r2).k)
    BY <1>2, SendFinKeeps
  <2>2. SameReader(r2.k, r2.k)
    BY DEF SameReader
  <2>3. QED
    BY <1>2, <2>1, <2>2 DEF AnsweredUtp
<1> HIDE DEF r3
<1>4. Turn(c, f, k, a, r4, b)
  BY <1>3, FinishedKeeps
<1> HIDE DEF r4
<1>5. Turn(c, f, k, a, r5, b) /\ SameReader(r4.k, r5.k)
  BY <1>4, TrySendKeeps
<1> HIDE DEF r5
<1>6. PacketHandled(c, k, p) = r5
  BY DEF PacketHandled, r1, r2, r3, r4, r5
<1>7. ASSUME NEW g, NEW n, NEW e, NEW wrote, NEW early,
             Stream(g, n, e, wrote, early), Reader(k, g, n, e, wrote, early), PacketOf(g, n, e, p)
      PROVE  Reader(r5.k, g, n, e, wrote, early)
  <2>1. Reader(r1.k, g, n, e, wrote, early)
    BY <1>1, <1>7, ReaderSameToo
  <2>2. r1 = [k |-> r1.k, out |-> r1.out] /\ r1.k \in UtpConns /\ IsFiniteSet(r1.k.reorder) /\ InUse(r1.k)
    BY <1>1 DEF Turn, Sender
  <2>3. Reader(r2.k, g, n, e, wrote, early)
    BY <1>7, <2>1, <2>2, HandledReads DEF r2
  <2>4. Reader(r3.k, g, n, e, wrote, early)
    BY <1>3, <2>3, ReaderSameToo
  <2>5. r3 = [k |-> r3.k, out |-> r3.out] /\ r3.k \in UtpConns /\ InUse(r3.k)
    BY <1>3 DEF Turn, Sender
  <2>6. Reader(r4.k, g, n, e, wrote, early)
    BY <1>7, <2>4, <2>5, FinishedReads DEF r4
  <2>7. QED
    BY <1>5, <2>6, ReaderSameToo
<1>8. QED
  BY <1>5, <1>6, <1>7

-----------------------------------------------------------------------------
(* The two connections and the network *)

LEMMA SenderStreams ==
    ASSUME NumbersLast, NEW c \in ConnIds, NEW k, NEW f \in Numbers, NEW a, Sender(c, k, f, a)
    PROVE  Stream(f, Units(k, a), a, k.wrote, k.early)
<1>1. /\ SentBy(k) \in Nat /\ Units(k, a) \in Nat /\ a \in Int /\ SentBy(k) <= Units(k, a) /\ 2 * Units(k, a) < SeqSpace
      /\ a \in -1..SentBy(k) /\ k.wrote \in Nat
  BY UnitsFit DEF Sender, UtpConns
<1>2. a >= 0 => Units(k, a) = SentBy(k) + 1 /\ (~k.early => k.pend = <<>> /\ a = SentBy(k))
  BY <1>1 DEF Sender, Units
<1>3. k.pend = <<>> => SentBy(k) = k.wrote
  BY <1>1 DEF SentBy
<1>4. Closes(Units(k, a), a, k.wrote, k.early)
  BY <1>1, <1>2, <1>3 DEF Closes
<1>5. QED
  BY <1>1, <1>4 DEF Stream

MadeBy(n) == {Dialer} \cup {Accepted[i] : i \in 1..n}
\* What d has read of what e sends.
ReadOf(f, a, cn, d, e) == Reader(cn[d], f[e], Units(cn[e], a[e]), a[e], cn[e].wrote, cn[e].early)
SentOf(f, a, cn, c, p) == Outgoing(c, f[c], Units(cn[c], a[c]), a[c], p)
\* A dialer that has seen nothing.
Fresh(k) == /\ k.st \in {"connecting", "gone"} /\ k.got = <<>> /\ k.reorder = {} /\ k.peerFin = Absent /\ ~k.eof /\ ~k.late
            /\ (k.readClosed => k.st = "gone")
IsSyn(f, p) == p.type = "syn" /\ p.to = "socket" /\ p.seq = Num(f[Dialer], -1)

\* The first is the dialer, and a the place of each FIN.
UtpAt(f, a, cn, n, nt) ==
    /\ f \in [ConnIds -> Numbers] /\ a \in [ConnIds -> Int] /\ n \in 0..Len(Accepted) /\ DOMAIN cn = ConnIds
    /\ \A c \in ConnIds : IF c \in MadeBy(n) THEN Sender(c, cn[c], f[c], a[c]) ELSE cn[c] = Absent
    /\ \A p \in nt : IsPacket(p)
    /\ n = 0 => Fresh(cn[Dialer]) /\ \A p \in nt : IsSyn(f, p)
    /\ n = 1 => LET e == Accepted[1] IN
                /\ \A p \in nt : IsSyn(f, p) \/ SentOf(f, a, cn, Dialer, p) \/ SentOf(f, a, cn, e, p)
                /\ ReadOf(f, a, cn, Dialer, e) /\ ReadOf(f, a, cn, e, Dialer)
                /\ cn[Dialer].st = "connecting" => cn[e].wrote = 0 /\ \A p \in nt : p.to = "socket" => p.type = "syn"

LEMMA MadeAre ==
    ASSUME NEW n \in 0..Len(Accepted)
    PROVE  MadeBy(n) \subseteq ConnIds /\ Dialer \in MadeBy(n)
           /\ (n = 1 => Accepted[1] \in ConnIds /\ Accepted[1] # Dialer /\ MadeBy(n) = {Dialer, Accepted[1]})
           /\ (n >= 1 => Accepted[n] \in MadeBy(n))
<1>1. Accepted \in Seq(ConnIds) /\ Dialer \in ConnIds /\ Len(Accepted) \in Nat /\ \A i \in 1..Len(Accepted) : Accepted[i] \in ConnIds /\ Accepted[i] # Dialer
  BY UtpConstants
<1>2. \A i \in 1..n : i \in 1..Len(Accepted)
  BY <1>1
<1>3. n = 1 => 1 \in 1..Len(Accepted) /\ \A i \in 1..n : i = 1
  BY <1>1
<1>4. n >= 1 => n \in 1..n
  BY <1>1
<1>5. QED
  BY <1>1, <1>2, <1>3, <1>4 DEF MadeBy

\* What a connection does leaves the invariant as it was.
LEMMA TurnKeeps ==
    ASSUME NumbersLast, NEW f, NEW a, NEW cn, NEW n, NEW nt, UtpAt(f, a, cn, n, nt), n >= 1, NEW c \in MadeBy(n),
           NEW k, NEW b, Sender(c, k, f[c], b), GoesOn(cn[c], a[c], k, b),
           NEW out, \A p \in out : Outgoing(c, f[c], Units(k, b), b, p),
           n = 1 => \A d \in MadeBy(n) \ {c} : Reader(k, f[d], Units(cn[d], a[d]), a[d], cn[d].wrote, cn[d].early),
           c = Dialer => k.st # "connecting",
           n = 1 /\ c # Dialer /\ cn[Dialer].st = "connecting" => k.wrote = 0,
           NEW nt2, nt2 \subseteq nt \cup out
    PROVE  UtpAt(f, [a EXCEPT ![c] = b], [cn EXCEPT ![c] = k], n, nt2)
<1> DEFINE a2 == [a EXCEPT ![c] = b]  cn2 == [cn EXCEPT ![c] = k]
<1>1. /\ f \in [ConnIds -> Numbers] /\ a \in [ConnIds -> Int] /\ n \in 0..Len(Accepted) /\ DOMAIN cn = ConnIds
      /\ \A d \in ConnIds : IF d \in MadeBy(n) THEN Sender(d, cn[d], f[d], a[d]) ELSE cn[d] = Absent
      /\ \A p \in nt : IsPacket(p)
  BY DEF UtpAt
<1>2. c \in ConnIds /\ MadeBy(n) \subseteq ConnIds /\ n # 0 /\ f[c] \in Numbers
  BY <1>1, MadeAre
<1>3. b \in Int
  BY <1>2, UnitsFit
<1>4. a2 \in [ConnIds -> Int] /\ DOMAIN cn2 = ConnIds
  BY <1>1, <1>3
<1>5. a2[c] = b /\ cn2[c] = k /\ \A d \in ConnIds : d # c => a2[d] = a[d] /\ cn2[d] = cn[d]
  BY <1>1, <1>2
<1> HIDE DEF a2, cn2
<1>6. \A d \in ConnIds : IF d \in MadeBy(n) THEN Sender(d, cn2[d], f[d], a2[d]) ELSE cn2[d] = Absent
  BY <1>1, <1>2, <1>5
<1>7. \A p \in nt2 : IsPacket(p)
  BY <1>1 DEF Outgoing
<1>8. ASSUME n = 1
      PROVE  LET e == Accepted[1] IN
                /\ \A p \in nt2 : IsSyn(f, p) \/ SentOf(f, a2, cn2, Dialer, p) \/ SentOf(f, a2, cn2, e, p)
                /\ ReadOf(f, a2, cn2, Dialer, e) /\ ReadOf(f, a2, cn2, e, Dialer)
                /\ cn2[Dialer].st = "connecting" => cn2[e].wrote = 0 /\ \A p \in nt2 : p.to = "socket" => p.type = "syn"
  <2> DEFINE e == Accepted[1]
  <2>1. e \in ConnIds /\ e # Dialer /\ MadeBy(n) = {Dialer, e} /\ Dialer \in ConnIds
    BY <1>1, <1>8, MadeAre, UtpConstants
  <2>2. /\ \A p \in nt : IsSyn(f, p) \/ SentOf(f, a, cn, Dialer, p) \/ SentOf(f, a, cn, e, p)
        /\ ReadOf(f, a, cn, Dialer, e) /\ ReadOf(f, a, cn, e, Dialer)
        /\ cn[Dialer].st = "connecting" => cn[e].wrote = 0 /\ \A p \in nt : p.to = "socket" => p.type = "syn"
    BY <1>8 DEF UtpAt
  <2> HIDE DEF e
  <2>3. Sender(c, cn[c], f[c], a[c])
    BY <1>1, <1>2
  <2>4. \A x, p : Outgoing(x, f[c], Units(cn[c], a[c]), a[c], p) => Outgoing(x, f[c], Units(k, b), b, p)
    BY <1>2, <2>3, UnitsStay
  <2>5. \A d \in {Dialer, e} : \A p : SentOf(f, a, cn, d, p) => SentOf(f, a2, cn2, d, p)
    BY <1>5, <2>1, <2>4 DEF SentOf
  <2>6. \A p \in out : SentOf(f, a2, cn2, c, p)
    BY <1>5 DEF SentOf
  <2>7. \A p \in nt2 : IsSyn(f, p) \/ SentOf(f, a2, cn2, Dialer, p) \/ SentOf(f, a2, cn2, e, p)
    BY <2>1, <2>2, <2>5, <2>6
  <2>8. ASSUME NEW d \in {Dialer, e}, d # c PROVE ReadOf(f, a2, cn2, d, c) /\ ReadOf(f, a2, cn2, c, d)
    <3>1. cn[d] \in UtpConns
      BY <1>1, <2>1 DEF Sender
    <3>2. Reader(cn[d], f[c], Units(cn[c], a[c]), a[c], cn[c].wrote, cn[c].early)
      BY <2>1, <2>2, <2>8 DEF ReadOf
    <3>3. Reader(cn[d], f[c], Units(k, b), b, k.wrote, k.early)
      <4>1. PICK s : Receiver(cn[d], f[c], Units(cn[c], a[c]), a[c], cn[c].wrote, cn[c].early, s)
        BY <3>2 DEF Reader
      <4>2. Receiver(cn[d], f[c], Units(k, b), b, k.wrote, k.early, s)
        BY <1>2, <2>3, <3>1, <4>1, ReaderStays
      <4>3. QED
        BY <4>2 DEF Reader
    <3>4. ReadOf(f, a2, cn2, d, c)
      BY <1>5, <2>1, <2>8, <3>3 DEF ReadOf
    <3>5. Reader(k, f[d], Units(cn[d], a[d]), a[d], cn[d].wrote, cn[d].early)
      BY <1>8, <2>1, <2>8
    <3>6. ReadOf(f, a2, cn2, c, d)
      BY <1>5, <2>1, <2>8, <3>5 DEF ReadOf
    <3>7. QED
      BY <3>4, <3>6
  <2>9. ReadOf(f, a2, cn2, Dialer, e) /\ ReadOf(f, a2, cn2, e, Dialer)
    BY <2>1, <2>8
  <2>10. cn2[Dialer].st = "connecting" => cn2[e].wrote = 0 /\ \A p \in nt2 : p.to = "socket" => p.type = "syn"
    <3> SUFFICES ASSUME cn2[Dialer].st = "connecting" PROVE cn2[e].wrote = 0 /\ \A p \in nt2 : p.to = "socket" => p.type = "syn"
      OBVIOUS
    <3>1. c = e /\ cn[Dialer].st = "connecting"
      BY <1>5, <2>1
    <3>2. k.wrote = 0
      BY <1>8, <2>1, <3>1
    <3>3. \A p \in out : p.to = "dialer"
      BY <2>1, <3>1 DEF Outgoing, To
    <3>4. QED
      BY <1>5, <2>2, <3>1, <3>2, <3>3
  <2>11. QED
    BY <2>7, <2>9, <2>10 DEF e
<1>9. QED
  BY <1>1, <1>2, <1>4, <1>6, <1>7, <1>8 DEF UtpAt, a2, cn2

\* The network loses what it likes, and a SYN is sent only while nothing is heard.
LEMMA NetShrinks ==
    ASSUME NEW f, NEW a, NEW cn, NEW n, NEW nt, UtpAt(f, a, cn, n, nt), NEW nt2, nt2 \subseteq nt
    PROVE  UtpAt(f, a, cn, n, nt2)
  BY DEF UtpAt

\* Which packets may come to whom.
LEMMA PacketComes ==
    ASSUME NEW f, NEW a, NEW cn, NEW n, NEW nt, UtpAt(f, a, cn, n, nt), n = 1, NEW p \in nt, p.type # "syn"
    PROVE  LET e == Accepted[1] IN
           /\ p.to = "dialer" => SentOf(f, a, cn, e, p)
           /\ p.to # "dialer" => SentOf(f, a, cn, Dialer, p)
<1>1. IsSyn(f, p) \/ SentOf(f, a, cn, Dialer, p) \/ SentOf(f, a, cn, Accepted[1], p)
  BY DEF UtpAt
<1>2. ~IsSyn(f, p)
  BY DEF IsSyn
<1>3. Accepted[1] # Dialer
  BY MadeAre DEF UtpAt
<1>4. To(Dialer) = "socket" /\ To(Accepted[1]) = "dialer"
  BY <1>3 DEF To
<1>5. QED
  BY <1>1, <1>2, <1>4 DEF SentOf, Outgoing

LEMMA SentIsOf ==
    ASSUME NEW f, NEW a, NEW cn, NEW c, NEW p, SentOf(f, a, cn, c, p)
    PROVE  PacketOf(f[c], Units(cn[c], a[c]), a[c], p) /\ \E j \in 0..Units(cn[c], a[c]) : p.seq = Num(f[c], j)
  BY DEF SentOf, Outgoing, Packets, PacketOf

\* The one that did not make a turn.
TheOther(c) == IF c = Dialer THEN Accepted[1] ELSE Dialer

\* A packet comes to a connection that has seen one, or to the dialer that begins.
LEMMA PacketTurn ==
    ASSUME NumbersLast, NEW f, NEW a, NEW cn, NEW n, NEW nt, UtpAt(f, a, cn, n, nt), n >= 1, NEW c \in MadeBy(n),
           NEW k, Sender(c, k, f[c], a[c]), GoesOn(cn[c], a[c], k, a[c]), InUse(k), NEW p, IsPacket(p),
           n = 1 => LET d == TheOther(c) IN
                    /\ Reader(k, f[d], Units(cn[d], a[d]), a[d], cn[d].wrote, cn[d].early)
                    /\ SentOf(f, a, cn, d, p),
           n = 1 /\ c # Dialer => cn[Dialer].st # "connecting",
           NEW nt2, nt2 \subseteq nt \cup PacketHandled(c, k, p).out
    PROVE  \E b : UtpAt(f, b, [cn EXCEPT ![c] = PacketHandled(c, k, p).k], n, nt2)
<1>1. /\ f \in [ConnIds -> Numbers] /\ n \in 0..Len(Accepted) /\ c \in ConnIds /\ Sender(c, cn[c], f[c], a[c])
  BY MadeAre DEF UtpAt
<1>2. f[c] \in Numbers
  BY <1>1
<1> DEFINE R == PacketHandled(c, k, p)
<1>3. PICK b : Turn(c, f[c], k, a[c], R, b)
  BY <1>1, <1>2, HandlePacketKeeps
<1>4. n = 1 => LET d == TheOther(c) IN Reader(R.k, f[d], Units(cn[d], a[d]), a[d], cn[d].wrote, cn[d].early)
  <2> SUFFICES ASSUME n = 1 PROVE LET d == TheOther(c) IN Reader(R.k, f[d], Units(cn[d], a[d]), a[d], cn[d].wrote, cn[d].early)
    OBVIOUS
  <2> DEFINE d == TheOther(c)
  <2>1. d \in MadeBy(n) /\ d \in ConnIds
    BY <1>1, MadeAre DEF TheOther
  <2>2. Sender(d, cn[d], f[d], a[d]) /\ f[d] \in Numbers
    BY <1>1, <2>1 DEF UtpAt
  <2> HIDE DEF d
  <2>3. Stream(f[d], Units(cn[d], a[d]), a[d], cn[d].wrote, cn[d].early)
    BY <2>1, <2>2, SenderStreams
  <2>4. Reader(k, f[d], Units(cn[d], a[d]), a[d], cn[d].wrote, cn[d].early) /\ PacketOf(f[d], Units(cn[d], a[d]), a[d], p)
    BY SentIsOf DEF d
  <2>5. Reader(R.k, f[d], Units(cn[d], a[d]), a[d], cn[d].wrote, cn[d].early)
    BY <1>1, <1>2, <2>3, <2>4, HandlePacketKeeps
  <2>6. QED
    BY <2>5 DEF d
<1> HIDE DEF R
<1>5. /\ Sender(c, R.k, f[c], b) /\ InUse(R.k) /\ GoesOn(k, a[c], R.k, b)
      /\ \A q \in R.out : Outgoing(c, f[c], Units(R.k, b), b, q)
  BY <1>3 DEF Turn
<1>6. GoesOn(cn[c], a[c], R.k, b)
  BY <1>1, <1>5, GoesOnTwice
<1>7. n = 1 => \A d \in MadeBy(n) \ {c} : d = TheOther(c)
  BY <1>1, MadeAre DEF TheOther
<1>8. n = 1 => \A d \in MadeBy(n) \ {c} : Reader(R.k, f[d], Units(cn[d], a[d]), a[d], cn[d].wrote, cn[d].early)
  BY <1>4, <1>7
<1>9. R.k.st # "connecting"
  BY <1>5 DEF InUse
<1>10. nt2 \subseteq nt \cup R.out
  BY DEF R
<1>11. UtpAt(f, [a EXCEPT ![c] = b], [cn EXCEPT ![c] = R.k], n, nt2)
  BY <1>5, <1>6, <1>8, <1>9, <1>10, TurnKeeps
<1>12. QED
  BY <1>11 DEF R

UtpIInv == \E f, a : UtpAt(f, a, conn, accepted, net)

LEMMA LiveAreMade ==
    ASSUME NEW f, NEW a, UtpAt(f, a, conn, accepted, net), NEW c \in ConnIds, LiveConn(c)
    PROVE  c \in MadeBy(accepted) /\ Sender(c, conn[c], f[c], a[c]) /\ f[c] \in Numbers /\ c \in DOMAIN conn
  BY DEF UtpAt, LiveConn, Made

\* A connection that was made and is not that of a dialer that waits.
LEMMA ActiveMeets ==
    ASSUME NEW f, NEW a, UtpAt(f, a, conn, accepted, net), NEW c \in MadeBy(accepted), InUse(conn[c])
    PROVE  accepted \in Nat /\ accepted >= 1
<1>1. accepted \in 0..Len(Accepted) /\ Len(Accepted) \in Nat
  BY UtpConstants DEF UtpAt
<1>2. CASE accepted = 0
  <2>1. c = Dialer
    BY <1>2 DEF MadeBy
  <2>2. Fresh(conn[Dialer])
    BY <1>2 DEF UtpAt
  <2>3. QED
    BY <2>1, <2>2 DEF Fresh, InUse
<1>3. QED
  BY <1>1, <1>2

\* Whatever one has read, the other has.
ReadsOn(k, l) == \A g, n, e, wrote, early : Reader(k, g, n, e, wrote, early) => Reader(l, g, n, e, wrote, early)

\* A turn of a connection in use that reads as before.
LEMMA TurnTaken ==
    ASSUME NumbersLast, NEW f, NEW a, UtpAt(f, a, conn, accepted, net), NEW c \in MadeBy(accepted), InUse(conn[c]),
           NEW k, NEW b, Sender(c, k, f[c], b), GoesOn(conn[c], a[c], k, b), k.st # "connecting",
           NEW out, \A p \in out : Outgoing(c, f[c], Units(k, b), b, p),
           ReadsOn(conn[c], k),
           k.wrote = conn[c].wrote \/ (accepted = 1 /\ c # Dialer => conn[Dialer].st # "connecting"),
           conn' = [conn EXCEPT ![c] = k], net' \subseteq net \cup out, accepted' = accepted
    PROVE  UtpIInv'
<1>1. accepted >= 1 /\ accepted \in 0..Len(Accepted)
  BY ActiveMeets DEF UtpAt
<1>2. accepted = 1 => \A d \in MadeBy(accepted) \ {c} : Reader(k, f[d], Units(conn[d], a[d]), a[d], conn[d].wrote, conn[d].early)
  <2> SUFFICES ASSUME accepted = 1, NEW d \in MadeBy(accepted) \ {c}
               PROVE  Reader(k, f[d], Units(conn[d], a[d]), a[d], conn[d].wrote, conn[d].early)
    OBVIOUS
  <2>1. Reader(conn[c], f[d], Units(conn[d], a[d]), a[d], conn[d].wrote, conn[d].early)
    BY <1>1, MadeAre DEF UtpAt, ReadOf
  <2>2. QED
    BY <2>1 DEF ReadsOn
<1>3. accepted = 1 /\ c # Dialer /\ conn[Dialer].st = "connecting" => k.wrote = 0
  BY <1>1, MadeAre DEF UtpAt
<1>4. UtpAt(f, [a EXCEPT ![c] = b], [conn EXCEPT ![c] = k], accepted, net')
  BY <1>1, <1>2, <1>3, TurnKeeps
<1>5. QED
  BY <1>4 DEF UtpIInv

LEMMA SameReads ==
    ASSUME NEW k, NEW l, SameReader(k, l)
    PROVE  ReadsOn(k, l)
  BY ReaderSameToo DEF ReadsOn

-----------------------------------------------------------------------------
(* The applications and the timers *)

\* Write.
LEMMA WriteKeeps ==
    ASSUME NumbersLast, NEW c \in ConnIds, NEW f \in Numbers, NEW k, NEW a, Sender(c, k, f, a), k.st = "connected", k.wrote < Chunks[c],
           NEW l, l = [k EXCEPT !.wrote = k.wrote + 1, !.pend = Append(k.pend, k.wrote + 1)]
    PROVE  Turn(c, f, k, a, [k |-> l, out |-> {}], a) /\ SameReader(k, l)
<1> DEFINE w == k.wrote + 1  q == Append(k.pend, w)
<1>1. /\ k \in UtpConns /\ k.wrote \in Nat /\ k.pend \in Seq(Nat) /\ SentBy(k) \in Nat /\ a \in Int /\ a < 0 /\ Chunks[c] \in Nat
      /\ Len(k.pend) \in Nat /\ Len(k.pend) <= k.wrote /\ \A i \in 1..Len(k.pend) : k.pend[i] = SentBy(k) + i
      /\ SentBy(k) = k.wrote - Len(k.pend) /\ Units(k, a) \in Nat
  BY UnitsFit, UtpConstants DEF Sender, UtpConns, SentBy
<1>2. w \in Nat /\ q \in Seq(Nat) /\ Len(q) = Len(k.pend) + 1 /\ w <= Chunks[c]
  BY <1>1
<1>3. \A i \in 1..Len(q) : q[i] = SentBy(k) + i
  <2> SUFFICES ASSUME NEW i \in 1..Len(q) PROVE q[i] = SentBy(k) + i
    OBVIOUS
  <2>1. CASE i = Len(k.pend) + 1
    BY <1>1, <2>1
  <2>2. CASE i # Len(k.pend) + 1
    <3>1. i \in 1..Len(k.pend)
      BY SMTT(20), <1>1, <1>2, <2>2
    <3>2. q[i] = k.pend[i]
      BY <1>1, <3>1
    <3>3. QED
      BY <1>1, <3>1, <3>2
  <2>3. QED
    BY <2>1, <2>2
<1> HIDE DEF w, q
<1>4. l = [k EXCEPT !.wrote = w, !.pend = q]
  BY DEF w, q
<1>5. /\ l \in UtpConns /\ l.wrote = w /\ l.pend = q /\ l.st = k.st /\ l.seq = k.seq /\ l.buf = k.buf /\ l.fin = k.fin /\ l.early = k.early
      /\ l.reorder = k.reorder /\ SameReader(k, l)
  BY <1>1, <1>2, <1>4 DEF UtpConns, SameReader
<1>6. SentBy(l) = SentBy(k) /\ Units(l, a) = Units(k, a) /\ Flight(l) = Flight(k)
  <2>1. SentBy(l) = w - Len(q)
    BY <1>5 DEF SentBy
  <2>2. w - Len(q) = SentBy(k)
    <3>1. /\ w = k.wrote + 1 /\ Len(q) = Len(k.pend) + 1 /\ SentBy(k) = k.wrote - Len(k.pend)
          /\ k.wrote \in Nat /\ Len(k.pend) \in Nat
      BY <1>1, <1>2 DEF w
    <3>2. \A x, y \in Nat : (x + 1) - (y + 1) = x - y
      OBVIOUS
    <3>3. QED
      BY <3>1, <3>2
  <2>3. QED
    BY <1>5, <2>1, <2>2 DEF Units, Flight
<1>7. Len(q) <= w
  BY <1>1, <1>2 DEF w
<1>8. Sender(c, l, f, a)
  BY <1>1, <1>2, <1>3, <1>5, <1>6, <1>7 DEF Sender
<1>9. GoesOn(k, a, l, a)
  <2>1. k.wrote <= l.wrote
    BY <1>1, <1>5 DEF w
  <2>2. QED
    BY <1>1, <1>6, <2>1 DEF GoesOn
<1>10. QED
  BY <1>5, <1>8, <1>9 DEF Turn, InUse

LEMMA WriteChunkUtp ==
    ASSUME NumbersLast, Accepted # <<>> => Reads[Accepted[1]] >= 1, UtpIInv, NEW c \in ConnIds, WriteChunk(c)
    PROVE  UtpIInv'
<1>1. PICK f, a : UtpAt(f, a, conn, accepted, net)
  BY DEF UtpIInv
<1> DEFINE k == conn[c]  l == [k EXCEPT !.wrote = k.wrote + 1, !.pend = Append(k.pend, k.wrote + 1)]  r == [k |-> l, out |-> {}]
           R == TrySend(c, r)
<1>2. LiveConn(c) /\ k.st = "connected" /\ k.wrote < Chunks[c] /\ Len(k.got) >= Reads[c] /\ accepted' = accepted
      /\ conn' = [conn EXCEPT ![c] = R.k] /\ net' = net \cup R.out
  BY DEF WriteChunk, ConnTurns
<1>3. c \in MadeBy(accepted) /\ Sender(c, k, f[c], a[c]) /\ f[c] \in Numbers
  BY <1>1, <1>2, LiveAreMade
<1>4. Turn(c, f[c], k, a[c], r, a[c]) /\ SameReader(k, l)
  BY <1>2, <1>3, WriteKeeps
<1> HIDE DEF l
<1>5. Turn(c, f[c], k, a[c], R, a[c]) /\ SameReader(l, R.k)
  BY <1>3, <1>4, TrySendKeeps
<1> HIDE DEF R
<1>6. /\ Sender(c, R.k, f[c], a[c]) /\ InUse(R.k) /\ GoesOn(k, a[c], R.k, a[c])
      /\ \A p \in R.out : Outgoing(c, f[c], Units(R.k, a[c]), a[c], p)
  BY <1>5 DEF Turn
<1>7. ReadsOn(k, R.k)
  BY <1>4, <1>5, ReaderSameToo DEF ReadsOn
<1>8. ASSUME accepted = 1, c # Dialer PROVE conn[Dialer].st # "connecting"
  <2> SUFFICES ASSUME conn[Dialer].st = "connecting" PROVE FALSE
    OBVIOUS
  <2>1. c = Accepted[1] /\ 1 \in 1..Len(Accepted) /\ Dialer \in MadeBy(accepted) /\ Dialer \in ConnIds
    BY <1>1, <1>3, <1>8, MadeAre, UtpConstants DEF UtpAt
  <2>2. Reads[c] >= 1 /\ Reads[c] \in Nat
    BY <2>1, UtpConstants
  <2>3. Sender(Dialer, conn[Dialer], f[Dialer], a[Dialer]) /\ ReadOf(f, a, conn, c, Dialer)
    BY <1>1, <1>8, <2>1 DEF UtpAt
  <2> DEFINE D == conn[Dialer]  n == Units(D, a[Dialer])
  <2>4. a[Dialer] \in Int /\ a[Dialer] < 0 /\ n = 0
    <3>1. a[Dialer] \in Int /\ SentBy(D) \in Nat /\ D.wrote \in Nat /\ Len(D.pend) \in Nat
      BY ZenonT(40), <2>1, <2>3, UnitsFit DEF Sender, UtpConns
    <3>2. a[Dialer] < 0 /\ D.wrote = 0
      BY <2>3 DEF Sender
    <3>3. SentBy(D) = 0
      BY <3>1, <3>2 DEF SentBy
    <3>4. QED
      BY <3>1, <3>2, <3>3 DEF Units
  <2>5. PICK s : Receiver(k, f[Dialer], n, a[Dialer], D.wrote, D.early, s)
    BY <2>3 DEF ReadOf, Reader
  <2>6. s = 0 /\ Len(k.got) <= 0
    BY <2>4, <2>5 DEF Receiver, ChunksIn
  <2>7. Len(k.got) \in Nat
    BY <1>3 DEF Sender, UtpConns
  <2>8. QED
    BY <1>2, <2>2, <2>6, <2>7
<1>9. InUse(k) /\ R.k.st # "connecting"
  BY <1>2, <1>6 DEF InUse
<1>10. QED
  BY <1>1, <1>2, <1>3, <1>6, <1>7, <1>8, <1>9, TurnTaken

LEMMA NothingOut ==
    ASSUME NumbersLast, NEW c \in ConnIds, NEW f \in Numbers, NEW k, NEW a, Sender(c, k, f, a),
           NEW l, Sender(c, l, f, a), InUse(l), Units(l, a) = Units(k, a), l.wrote = k.wrote, l.early = k.early
    PROVE  Turn(c, f, k, a, [k |-> l, out |-> {}], a)
<1>1. Units(k, a) \in Nat /\ a \in Int /\ k.wrote \in Nat
  BY UnitsFit DEF Sender, UtpConns
<1>2. GoesOn(k, a, l, a)
  BY <1>1 DEF GoesOn
<1>3. QED
  BY <1>2 DEF Turn

\* Close: the reader of a connection that is closing stops where it is.
LEMMA CloseConnUtp ==
    ASSUME NumbersLast, UtpIInv, NEW c \in ConnIds, CloseConn(c)
    PROVE  UtpIInv'
<1>1. PICK f, a : UtpAt(f, a, conn, accepted, net)
  BY DEF UtpIInv
<1> DEFINE k == conn[c]  l == [k EXCEPT !.closing = TRUE]  r == [k |-> l, out |-> {}]
           R == IF k.st = "connected" THEN SendFin(c, r) ELSE r
<1>2. LiveConn(c) /\ k.st # "connecting" /\ k.st # "gone" /\ accepted' = accepted /\ conn' = [conn EXCEPT ![c] = R.k] /\ net' = net \cup R.out
  BY DEF CloseConn, ConnTurns, LiveConn
<1>3. c \in MadeBy(accepted) /\ Sender(c, k, f[c], a[c]) /\ f[c] \in Numbers
  BY <1>1, <1>2, LiveAreMade
<1>4. /\ k \in UtpConns /\ l \in UtpConns /\ l.st = k.st /\ l.seq = k.seq /\ l.buf = k.buf /\ l.pend = k.pend /\ l.fin = k.fin
      /\ l.early = k.early /\ l.wrote = k.wrote /\ l.reorder = k.reorder /\ l.got = k.got /\ l.ack = k.ack /\ l.peerFin = k.peerFin
      /\ l.readClosed = k.readClosed /\ l.eof = k.eof /\ l.late = k.late /\ l.closing
  BY <1>3 DEF Sender, UtpConns
<1> HIDE DEF l
<1>5. Turn(c, f[c], k, a[c], r, a[c])
  <2>1. InUse(k) /\ InUse(l) /\ (a[c] < 0 <=> l.st = "connected") /\ IsFiniteSet(l.reorder)
    BY <1>2, <1>3, <1>4 DEF InUse, Sender
  <2>2. Sender(c, l, f[c], a[c]) /\ GoesOn(k, a[c], l, a[c])
    BY <1>3, <1>4, <2>1, SenderSame
  <2>3. QED
    BY <2>1, <2>2 DEF Turn
<1>6. PICK b : Turn(c, f[c], k, a[c], R, b) /\ SameReader(l, R.k)
  <2>1. \E d : Turn(c, f[c], k, a[c], SendFin(c, r), d) /\ SameReader(r.k, SendFin(c, r).k)
    BY <1>3, <1>5, SendFinKeeps
  <2>2. SameReader(l, l)
    BY DEF SameReader
  <2>3. CASE k.st = "connected"
    BY <2>1, <2>3
  <2>4. CASE k.st # "connected"
    BY <1>5, <2>2, <2>4
  <2>5. QED
    BY <2>3, <2>4
<1> HIDE DEF R
<1>7. /\ Sender(c, R.k, f[c], b) /\ InUse(R.k) /\ GoesOn(k, a[c], R.k, b)
      /\ \A p \in R.out : Outgoing(c, f[c], Units(R.k, b), b, p)
  BY <1>6 DEF Turn
<1>8. ReadsOn(k, R.k)
  <2> SUFFICES ASSUME NEW g, NEW n, NEW e, NEW wrote, NEW early, Reader(k, g, n, e, wrote, early) PROVE Reader(R.k, g, n, e, wrote, early)
    BY DEF ReadsOn
  <2>1. PICK s : Receiver(k, g, n, e, wrote, early, s)
    BY DEF Reader
  <2>2. Receiver(l, g, n, e, wrote, early, s)
    BY <1>4, <2>1 DEF Receiver
  <2>3. Reader(l, g, n, e, wrote, early)
    BY <2>2 DEF Reader
  <2>4. QED
    BY <1>6, <2>3, ReaderSameToo
<1>9. R.k.wrote = k.wrote
  <2>1. R.k.wrote = l.wrote
    BY <1>4 DEF R, SendFin, UtpConns
  <2>2. QED
    BY <1>4, <2>1
<1>10. InUse(k) /\ R.k.st # "connecting"
  BY <1>2, <1>7 DEF InUse
<1>11. QED
  BY <1>1, <1>2, <1>3, <1>7, <1>8, <1>9, <1>10, TurnTaken

Gone(k, l) == \E x \in {TRUE, k.readClosed} : l = [k EXCEPT !.st = "gone", !.readClosed = x]

\* A connection that is torn down sends no more.
LEMMA GoneKeeps ==
    ASSUME NumbersLast, NEW c \in ConnIds, NEW f \in Numbers, NEW k, NEW a, Sender(c, k, f, a), NEW l, Gone(k, l)
    PROVE  /\ Sender(c, l, f, a) /\ GoesOn(k, a, l, a) /\ l.st = "gone" /\ l.wrote = k.wrote
           /\ ReadsOn(k, l)
<1>0. PICK x \in {TRUE, k.readClosed} : l = [k EXCEPT !.st = "gone", !.readClosed = x]
  BY DEF Gone
<1>1. k \in UtpConns /\ Units(k, a) \in Nat /\ a \in Int /\ k.wrote \in Nat /\ x \in BOOLEAN
  BY UnitsFit DEF Sender, UtpConns
<1>2. /\ l \in UtpConns /\ l.st = "gone" /\ l.seq = k.seq /\ l.buf = k.buf /\ l.pend = k.pend /\ l.fin = k.fin
      /\ l.early = k.early /\ l.wrote = k.wrote /\ l.reorder = k.reorder /\ l.got = k.got /\ l.peerFin = k.peerFin
      /\ l.readClosed = x /\ l.eof = k.eof /\ l.late = k.late /\ l.closing = k.closing
  BY <1>0, <1>1 DEF UtpConns
<1>3. SentBy(l) = SentBy(k) /\ Units(l, a) = Units(k, a) /\ Flight(l) = Flight(k)
  BY <1>2 DEF SentBy, Units, Flight
<1>4. Sender(c, l, f, a)
  BY <1>2, <1>3 DEF Sender
<1>5. GoesOn(k, a, l, a)
  BY <1>1, <1>2, <1>3 DEF GoesOn
<1>6. ASSUME NEW g, NEW n, NEW e, NEW wrote, NEW early, Reader(k, g, n, e, wrote, early)
      PROVE  Reader(l, g, n, e, wrote, early)
  <2>1. PICK s : Receiver(k, g, n, e, wrote, early, s)
    BY <1>6 DEF Reader
  <2>2. Receiver(l, g, n, e, wrote, early, s)
    BY <1>2, <1>6, <2>1 DEF Receiver
  <2>3. QED
    BY <2>2 DEF Reader
<1>7. QED
  BY <1>2, <1>4, <1>5, <1>6 DEF ReadsOn

LEMMA LingerEndsUtp ==
    ASSUME NumbersLast, UtpIInv, NEW c \in ConnIds, LingerEnds(c)
    PROVE  UtpIInv'
<1>1. PICK f, a : UtpAt(f, a, conn, accepted, net)
  BY DEF UtpIInv
<1> DEFINE k == conn[c]  l == [k EXCEPT !.st = "gone", !.readClosed = TRUE]
<1>2. LiveConn(c) /\ InUse(k) /\ accepted' = accepted /\ net' = net /\ conn' = [conn EXCEPT ![c] = [@ EXCEPT !.st = "gone", !.readClosed = TRUE]]
  BY DEF LingerEnds, LiveConn, InUse
<1>3. c \in MadeBy(accepted) /\ Sender(c, k, f[c], a[c]) /\ f[c] \in Numbers /\ c \in DOMAIN conn
  BY <1>1, <1>2, LiveAreMade
<1>4. conn' = [conn EXCEPT ![c] = l]
  BY <1>2, <1>3
<1>5. Gone(k, l)
  BY Zenon DEF Gone
<1> HIDE DEF l
<1>6. /\ Sender(c, l, f[c], a[c]) /\ GoesOn(k, a[c], l, a[c]) /\ l.st = "gone" /\ l.wrote = k.wrote
      /\ ReadsOn(k, l)
  BY <1>3, <1>5, GoneKeeps
<1> DEFINE out == {}
<1>7. net' \subseteq net \cup out /\ \A p \in out : Outgoing(c, f[c], Units(l, a[c]), a[c], p)
  BY <1>2
<1> HIDE DEF out
<1>8. l.st # "connecting"
  BY <1>6
<1>9. accepted' = accepted /\ InUse(k) /\ k = conn[c] /\ l.wrote = conn[c].wrote
  BY <1>2, <1>6
<1> HIDE DEF k
<1>10. QED
  BY <1>1, <1>3, <1>4, <1>6, <1>7, <1>8, <1>9, TurnTaken

LEMMA SynFailsUtp ==
    ASSUME NumbersLast, UtpIInv, SynFails
    PROVE  UtpIInv'
<1>1. PICK f, a : UtpAt(f, a, conn, accepted, net)
  BY DEF UtpIInv
<1> DEFINE c == Dialer  k == conn[c]  x == k.readClosed  l == [k EXCEPT !.st = "gone", !.readClosed = x]
<1>2. k.st = "connecting" /\ accepted' = accepted /\ net' = net /\ conn' = [conn EXCEPT ![c].st = "gone"]
  BY DEF SynFails
<1>3. /\ accepted \in 0..Len(Accepted) /\ c \in MadeBy(accepted) /\ c \in ConnIds /\ Sender(c, k, f[c], a[c]) /\ f[c] \in Numbers
      /\ DOMAIN conn = ConnIds /\ k \in UtpConns
  BY <1>1, MadeAre DEF UtpAt, Sender
<1>4. conn' = [conn EXCEPT ![c] = l]
  <2>1. l = [k EXCEPT !.st = "gone"]
    BY <1>3 DEF UtpConns
  <2> HIDE DEF l
  <2>2. QED
    BY <1>2, <1>3, <2>1
<1>5. Gone(k, l)
  BY Zenon DEF Gone
<1> HIDE DEF x, l
<1>6. /\ Sender(c, l, f[c], a[c]) /\ GoesOn(k, a[c], l, a[c]) /\ l.st = "gone" /\ l.wrote = k.wrote
      /\ ReadsOn(k, l)
  BY <1>3, <1>5, GoneKeeps
<1>7. CASE accepted = 0
  <2>1. Fresh(k) /\ \A p \in net : IsSyn(f, p)
    BY <1>1, <1>7 DEF UtpAt
  <2>2. Fresh(l)
    BY <1>3, <2>1 DEF Fresh, UtpConns, l, x
  <2> DEFINE cn == [conn EXCEPT ![c] = l]
  <2> HIDE DEF l
  <2>3. cn[c] = l /\ DOMAIN cn = ConnIds /\ \A d \in ConnIds \ {c} : cn[d] = conn[d]
    BY <1>3
  <2> HIDE DEF l, cn
  <2>4. \A d \in ConnIds : IF d \in MadeBy(accepted) THEN Sender(d, cn[d], f[d], a[d]) ELSE cn[d] = Absent
    BY <1>1, <1>3, <1>6, <2>3 DEF UtpAt
  <2>5. UtpAt(f, a, cn, accepted, net)
    BY <1>1, <1>7, <2>1, <2>2, <2>3, <2>4 DEF UtpAt
  <2>6. cn = conn'
    BY <1>4 DEF cn
  <2>7. QED
    BY <1>2, <2>5, <2>6 DEF UtpIInv
<1>8. CASE accepted # 0
  <2>0. accepted >= 1 /\ accepted \in 0..Len(Accepted)
    BY <1>3, <1>8, UtpConstants
  <2>1. accepted = 1 => \A d \in MadeBy(accepted) \ {c} : Reader(l, f[d], Units(conn[d], a[d]), a[d], conn[d].wrote, conn[d].early)
    <3> SUFFICES ASSUME accepted = 1, NEW d \in MadeBy(accepted) \ {c}
                 PROVE  Reader(l, f[d], Units(conn[d], a[d]), a[d], conn[d].wrote, conn[d].early)
      OBVIOUS
    <3>1. Reader(k, f[d], Units(conn[d], a[d]), a[d], conn[d].wrote, conn[d].early)
      BY <1>1, <1>3, MadeAre DEF UtpAt, ReadOf
    <3>2. QED
      BY <1>6, <3>1 DEF ReadsOn
  <2> HIDE DEF l
  <2> DEFINE out == {}
  <2>2. \A p \in out : Outgoing(c, f[c], Units(l, a[c]), a[c], p)
    OBVIOUS
  <2>3. net \subseteq net \cup out
    OBVIOUS
  <2> HIDE DEF out
  <2>4. l.st # "connecting"
    BY <1>6
  <2>5. UtpAt(f, [a EXCEPT ![c] = a[c]], [conn EXCEPT ![c] = l], accepted, net)
    BY <1>1, <1>3, <1>6, <2>0, <2>1, <2>2, <2>3, <2>4, TurnKeeps
  <2>6. QED
    BY <1>2, <1>4, <2>5 DEF UtpIInv
<1>9. QED
  BY <1>7, <1>8

\* The oldest packet in flight: there is one.
LEMMA OldestSent ==
    ASSUME NumbersLast, NEW c \in ConnIds, NEW k, NEW f \in Numbers, NEW a, Sender(c, k, f, a), k.buf # {}
    PROVE  \E q \in k.buf : \A o \in k.buf : SeqLessEq(q.seq, o.seq)
<1> DEFINE n == Units(k, a)  I == {x \in 1..n : \E q \in k.buf : q.seq = Num(f, n - x)}
<1>1. n \in Nat /\ 2 * n < SeqSpace /\ f \in 0..SeqSpace - 1
  BY UnitsFit DEF Numbers
<1>2. \A q \in k.buf : \E j \in 0..n - 1 : q.seq = Num(f, j)
  BY DEF Sender, Carries, IsUnit
<1> HIDE DEF n
<1>3. \A q \in k.buf : \E x \in I : q.seq = Num(f, n - x)
  <2> SUFFICES ASSUME NEW q \in k.buf PROVE \E x \in I : q.seq = Num(f, n - x)
    OBVIOUS
  <2>1. PICK j \in 0..n - 1 : q.seq = Num(f, j)
    BY <1>2
  <2> DEFINE x == n - j
  <2>2. x \in 1..n /\ n - x = j
    BY <1>1
  <2> HIDE DEF x
  <2>3. QED
    BY <2>1, <2>2
<1>4. I \in SUBSET (1..n) /\ I # {}
  BY <1>3
<1>5. \A x \in I : \E q \in k.buf : q.seq = Num(f, n - x)
  OBVIOUS
<1> HIDE DEF I
<1>6. PICK m \in I : \A y \in I : y <= m
  BY <1>1, <1>4, GreatestOf
<1>7. PICK q \in k.buf : q.seq = Num(f, n - m)
  BY <1>5
<1>8. ASSUME NEW o \in k.buf PROVE SeqLessEq(q.seq, o.seq)
  <2>1. PICK y \in I : o.seq = Num(f, n - y)
    BY <1>3
  <2> DEFINE i == n - m  j == n - y
  <2>2. i \in -1..n /\ j \in -1..n /\ i < n /\ j < n /\ i <= j
    <3>1. m \in 1..n /\ y \in 1..n /\ y <= m
      BY <1>4, <1>6
    <3>2. QED
      BY <1>1, <3>1
  <2>3. q.seq = Num(f, i) /\ o.seq = Num(f, j)
    BY <1>7, <2>1
  <2> HIDE DEF i, j
  <2>4. SeqLessEq(Num(f, i), Num(f, j))
    BY <1>1, <2>2, NumbersTell
  <2>5. QED
    BY <2>3, <2>4
<1>9. QED
  BY <1>8

LEMMA HandleRTOUtp ==
    ASSUME NumbersLast, UtpIInv, NEW c \in ConnIds, HandleRTO(c)
    PROVE  UtpIInv'
<1>1. PICK f, a : UtpAt(f, a, conn, accepted, net)
  BY DEF UtpIInv
<1> DEFINE k == conn[c]  l == [k EXCEPT !.window = 1]
           q == CHOOSE q \in k.buf : \A o \in k.buf : SeqLessEq(q.seq, o.seq)  out == {Resent(c, q)}
<1>2. LiveConn(c) /\ InUse(k) /\ k.buf # {} /\ accepted' = accepted /\ net' = net \cup out /\ conn' = [conn EXCEPT ![c].window = 1]
  BY DEF HandleRTO, LiveConn, InUse
<1>3. c \in MadeBy(accepted) /\ Sender(c, k, f[c], a[c]) /\ f[c] \in Numbers /\ c \in DOMAIN conn
  BY <1>1, <1>2, LiveAreMade
<1>4. q \in k.buf
  BY <1>2, <1>3, OldestSent
<1> HIDE DEF q
<1>5. /\ l \in UtpConns /\ l.st = k.st /\ l.seq = k.seq /\ l.buf = k.buf /\ l.pend = k.pend /\ l.fin = k.fin
      /\ l.early = k.early /\ l.wrote = k.wrote /\ l.reorder = k.reorder /\ SameReader(k, l)
  <2>1. k \in UtpConns /\ Window \in Nat \ {0}
    BY <1>3, UtpConstants DEF Sender
  <2>2. 1 \in 0..Window
    BY <2>1
  <2> HIDE DEF k
  <2>3. /\ l \in UtpConns /\ l.st = k.st /\ l.seq = k.seq /\ l.buf = k.buf /\ l.pend = k.pend /\ l.fin = k.fin
        /\ l.early = k.early /\ l.wrote = k.wrote /\ l.reorder = k.reorder
    BY <2>1, <2>2 DEF UtpConns
  <2>4. SameReader(k, l)
    BY <2>1 DEF UtpConns, SameReader
  <2>5. QED
    BY <2>3, <2>4
<1>6. conn' = [conn EXCEPT ![c] = l]
  BY <1>2
<1> HIDE DEF l
<1>7. Sender(c, l, f[c], a[c]) /\ GoesOn(k, a[c], l, a[c]) /\ Units(l, a[c]) = Units(k, a[c]) /\ l.st # "connecting"
  <2>1. InUse(l) /\ (a[c] < 0 <=> l.st = "connected") /\ IsFiniteSet(l.reorder)
    BY <1>2, <1>3, <1>5 DEF InUse, Sender
  <2>2. QED
    BY <1>2, <1>3, <1>5, <2>1, SenderSame DEF InUse
<1>8. Outgoing(c, f[c], Units(l, a[c]), a[c], Resent(c, q))
  <2> DEFINE p == Resent(c, q)
  <2>1. q \in Sendable /\ Carries(f[c], Units(k, a[c]), a[c], q)
    BY <1>3, <1>4 DEF Sender, UtpConns
  <2>2. p.to = To(c) /\ p.type = q.type /\ p.seq = q.seq /\ p.load = q.load
    BY DEF Resent, Packet
  <2> HIDE DEF p
  <2>3. IsPacket(p) /\ p.type # "syn"
    BY <2>1, <2>2 DEF IsPacket, Sendable, To
  <2>4. Carries(f[c], Units(k, a[c]), a[c], p)
    BY <2>1, <2>2 DEF Carries
  <2>5. \E j \in 0..Units(k, a[c]) : p.seq = Num(f[c], j)
    <3>1. PICK j \in 0..Units(k, a[c]) - 1 : p.seq = Num(f[c], j)
      BY <2>4 DEF Carries, IsUnit
    <3>2. Units(k, a[c]) \in Nat
      BY <1>3, UnitsFit
    <3>3. QED
      BY <3>1, <3>2
  <2>6. QED
    BY <1>7, <2>2, <2>3, <2>4, <2>5 DEF Outgoing, Packets, p
<1>9. \A p \in out : Outgoing(c, f[c], Units(l, a[c]), a[c], p)
  BY <1>8
<1>10. ReadsOn(k, l)
  BY <1>5, SameReads
<1>11. accepted' = accepted /\ InUse(k) /\ l.wrote = k.wrote /\ net' \subseteq net \cup out
  BY <1>2, <1>5
<1> HIDE DEF out
<1>12. QED
  BY <1>1, <1>3, <1>6, <1>7, <1>9, <1>10, <1>11, TurnTaken

-----------------------------------------------------------------------------
(* What comes *)

LEMMA HandlesIs ==
    ASSUME NEW c, NEW k, NEW p, NEW rest, HandlePacket(c, k, p, rest)
    PROVE  conn' = [conn EXCEPT ![c] = PacketHandled(c, k, p).k] /\ net' = rest \cup PacketHandled(c, k, p).out
  BY DEF HandlePacket, PacketHandled, ConnTurns

LEMMA NumBack ==
    ASSUME NEW f \in Numbers, NEW j \in Nat, j < SeqSpace
    PROVE  (Num(f, j) - 1) % SeqSpace = Num(f, j - 1)
<1>1. SeqSpace \in Nat \ {0} /\ f \in 0..SeqSpace - 1 /\ j \in -1..SeqSpace /\ j - 1 \in -1..SeqSpace
  BY UtpConstants DEF Numbers
<1> DEFINE i == j - 1  x == Num(f, j)
<1>2. x \in 0..SeqSpace - 1 /\ x = IF f + j < 0 THEN f + j + SeqSpace ELSE IF f + j < SeqSpace THEN f + j ELSE f + j - SeqSpace
  BY <1>1, NumIs
<1>3. Num(f, i) = IF f + i < 0 THEN f + i + SeqSpace ELSE IF f + i < SeqSpace THEN f + i ELSE f + i - SeqSpace
  BY <1>1, NumIs
<1>4. i = j - 1
  OBVIOUS
<1> HIDE DEF x, i
<1>5. (x - 1) % SeqSpace = IF x = 0 THEN SeqSpace - 1 ELSE x - 1
  <2>1. CASE x = 0
    <3>1. (-1) % SeqSpace = SeqSpace - 1
      BY <1>1
    <3>2. x - 1 = -1
      BY <2>1
    <3>3. QED
      BY <2>1, <3>1, <3>2
  <2>2. CASE x # 0
    <3>1. x - 1 \in 0..SeqSpace - 1
      BY <1>1, <1>2, <2>2
    <3>2. QED
      BY <1>1, <2>2, <3>1
  <2>3. QED
    BY <2>1, <2>2
<1>6. QED
  BY <1>1, <1>2, <1>3, <1>4, <1>5 DEF x, i

\* The reader of a dialer that gets its first packet: whatever its number, the other
\* had written nothing.
LEMMA DialerBegins ==
    ASSUME NumbersLast, NEW k \in UtpConns, k.st = "connecting", NEW l,
           NEW e \in ConnIds, NEW h, NEW f \in Numbers, NEW a, Sender(e, h, f, a), h.wrote = 0,
           Reader(k, f, Units(h, a), a, h.wrote, h.early), NEW p, NEW j \in 0..Units(h, a), p.seq = Num(f, j),
           l = [k EXCEPT !.ack = (p.seq - 1) % SeqSpace, !.st = "connected", !.seq = SeqNext(k.seq)]
    PROVE  Reader(l, f, Units(h, a), a, h.wrote, h.early)
<1> DEFINE n == Units(h, a)
<1>1. /\ n \in Nat /\ 2 * n < SeqSpace /\ SeqSpace \in Nat /\ a \in Int /\ a >= -1 /\ SentBy(h) = 0 /\ a \in -1..0
      /\ n = IF a < 0 THEN 0 ELSE 1
  <2>1. SentBy(h) \in Nat /\ Len(h.pend) \in Nat /\ a \in -1..SentBy(h) /\ n \in Nat /\ 2 * n < SeqSpace /\ SeqSpace \in Nat
    BY UnitsFit, UtpConstants DEF Sender
  <2>2. SentBy(h) = 0
    BY <2>1 DEF SentBy
  <2>3. n = IF a < 0 THEN 0 ELSE 1
    BY <2>1, <2>2 DEF Units
  <2> HIDE DEF n
  <2>4. QED
    BY <2>1, <2>2, <2>3
<1> HIDE DEF n
<1>2. PICK r : Receiver(k, f, n, a, h.wrote, h.early, r)
  BY DEF Reader, n
<1>3. /\ Len(k.got) \in Nat /\ Len(k.got) <= 0 /\ ~k.readClosed /\ ~k.eof /\ (k.late => h.early)
      /\ \A x \in k.reorder : IsUnit(f, n, a, x.seq, x.load)
      /\ k.peerFin # Absent => a >= 0 /\ k.peerFin = Num(f, a)
  <2>1. r = 0 /\ Len(k.got) <= ChunksIn(a, r) /\ (k.readClosed => a >= 0 /\ r > a) /\ (k.eof => k.readClosed)
    BY <1>2 DEF Receiver
  <2>2. ChunksIn(a, 0) = 0
    BY <1>1 DEF ChunksIn
  <2>3. QED
    BY <1>1, <1>2, <2>1, <2>2 DEF Receiver, UtpConns
<1>4. j \in 0..n /\ j \in Nat /\ j < SeqSpace /\ ChunksIn(a, j) = 0
  <2>1. j \in 0..n
    BY DEF n
  <2>2. QED
    BY <1>1, <2>1 DEF ChunksIn
<1>5. (p.seq - 1) % SeqSpace = Num(f, j - 1)
  BY <1>4, NumBack
<1>6. /\ l.got = k.got /\ l.ack = Num(f, j - 1) /\ l.st = "connected" /\ l.reorder = k.reorder /\ l.peerFin = k.peerFin
      /\ l.readClosed = k.readClosed /\ l.eof = k.eof /\ l.late = k.late /\ l.closing = k.closing
  BY <1>5 DEF UtpConns
<1>7. Receiver(l, f, n, a, h.wrote, h.early, j)
  <2>1. Len(l.got) = 0 /\ \A i \in 1..Len(l.got) : l.got[i] = i
    BY <1>3, <1>6
  <2>2. QED
    BY <1>3, <1>4, <1>6, <2>1 DEF Receiver
<1>8. QED
  BY <1>7 DEF Reader, n

\* performHandshake got a reply.
LEMMA DialerConnects ==
    ASSUME NumbersLast, NEW f \in Numbers, NEW k, NEW a, Sender(Dialer, k, f, a), k.st = "connecting", NEW ack \in Numbers,
           NEW l, l = [k EXCEPT !.ack = ack, !.st = "connected", !.seq = SeqNext(k.seq)]
    PROVE  Sender(Dialer, l, f, a) /\ GoesOn(k, a, l, a) /\ InUse(l)
<1>1. /\ k \in UtpConns /\ a \in Int /\ a < 0 /\ k.seq = Num(f, -1) /\ Units(k, a) \in Nat /\ SentBy(k) \in Nat /\ Len(k.pend) \in Nat
      /\ k.wrote = 0 /\ Dialer \in ConnIds
  BY UnitsFit, UtpConstants DEF Sender
<1>2. SentBy(k) = 0 /\ Units(k, a) = 0
  <2>1. SentBy(k) = 0
    BY <1>1 DEF SentBy
  <2>2. QED
    BY <1>1, <2>1 DEF Units
<1>3. SeqNext(k.seq) = Num(f, 0) /\ Num(f, 0) \in Numbers
  <2>1. f \in 0..SeqSpace - 1 /\ SeqSpace \in Nat \ {0} /\ 2 * 0 < SeqSpace
    BY UtpConstants DEF Numbers
  <2> DEFINE i == -1
  <2>2. i \in -1..0 /\ i + 1 = 0
    OBVIOUS
  <2> HIDE DEF i
  <2>3. SeqNext(Num(f, i)) = Num(f, i + 1)
    BY <2>1, <2>2, NumbersTell
  <2>4. 0 \in -1..0
    OBVIOUS
  <2>5. Num(f, 0) \in 0..SeqSpace - 1
    BY <2>1, <2>4, NumbersTell
  <2>6. QED
    BY <1>1, <2>2, <2>3, <2>5 DEF Numbers, i
<1>4. /\ l \in UtpConns /\ l.st = "connected" /\ l.seq = Num(f, 0) /\ l.buf = k.buf /\ l.pend = k.pend /\ l.fin = k.fin
      /\ l.early = k.early /\ l.wrote = k.wrote /\ l.reorder = k.reorder
  <2> DEFINE m == SeqNext(k.seq)
  <2>1. m \in Numbers /\ l = [k EXCEPT !.ack = ack, !.st = "connected", !.seq = m] /\ m = Num(f, 0)
    BY <1>3
  <2> HIDE DEF m
  <2>2. QED
    BY <1>1, <2>1 DEF UtpConns
<1>5. SentBy(l) = SentBy(k) /\ Units(l, a) = Units(k, a) /\ Flight(l) = Flight(k)
  BY <1>4 DEF SentBy, Units, Flight
<1>6. Sender(Dialer, l, f, a)
  BY <1>1, <1>2, <1>4, <1>5 DEF Sender
<1>7. GoesOn(k, a, l, a) /\ InUse(l)
  BY <1>1, <1>4, <1>5 DEF GoesOn, InUse
<1>8. QED
  BY <1>6, <1>7

LEMMA RestIs ==
    ASSUME NEW p, NEW twice
    PROVE  Rest(p, twice) \subseteq net
  BY DEF Rest

LEMMA UtpReplyUtp ==
    ASSUME NumbersLast, UtpIInv, NEW p \in net, NEW twice, UtpReply(p, twice)
    PROVE  UtpIInv'
<1>1. PICK f, a : UtpAt(f, a, conn, accepted, net)
  BY DEF UtpIInv
<1> DEFINE c == Dialer  k == conn[Dialer]  ack == (p.seq - 1) % SeqSpace
           l == [k EXCEPT !.ack = ack, !.st = "connected", !.seq = SeqNext(k.seq)]
           R == PacketHandled(c, l, p)
<1>2. p.to = "dialer" /\ k.st = "connecting" /\ accepted' = accepted /\ HandlePacket(Dialer, l, p, Rest(p, twice))
  <2>1. HandlePacket(Dialer, [conn[Dialer] EXCEPT !.ack = (p.seq - 1) % SeqSpace, !.st = "connected", !.seq = SeqNext(@)], p, Rest(p, twice))
    BY DEF UtpReply
  <2>2. [conn[Dialer] EXCEPT !.ack = (p.seq - 1) % SeqSpace, !.st = "connected", !.seq = SeqNext(@)] = l
    OBVIOUS
  <2> HIDE DEF l
  <2>3. HandlePacket(Dialer, l, p, Rest(p, twice))
    BY <2>1, <2>2
  <2>4. QED
    BY <2>3 DEF UtpReply
<1>3. /\ accepted \in 0..Len(Accepted) /\ c \in MadeBy(accepted) /\ c \in ConnIds /\ Sender(c, k, f[c], a[c]) /\ f[c] \in Numbers
      /\ IsPacket(p) /\ p.seq \in Numbers
  BY <1>1, MadeAre DEF UtpAt, IsPacket
<1>4. accepted >= 1
  <2>1. accepted # 0
    BY <1>1, <1>2 DEF UtpAt, IsSyn
  <2>2. QED
    BY <1>3, <2>1, UtpConstants
<1>5. ack \in Numbers
  BY SMTT(20), <1>3, UtpConstants DEF Numbers
<1>6. l = [k EXCEPT !.ack = ack, !.st = "connected", !.seq = SeqNext(k.seq)]
  OBVIOUS
<1> HIDE DEF l
<1>7. Sender(c, l, f[c], a[c]) /\ GoesOn(k, a[c], l, a[c]) /\ InUse(l)
  <2>1. k.st = "connecting" /\ Sender(Dialer, k, f[Dialer], a[Dialer]) /\ f[Dialer] \in Numbers
    BY <1>2, <1>3
  <2> HIDE DEF k, ack
  <2>2. QED
    BY <1>5, <1>6, <2>1, DialerConnects
<1>8. accepted = 1 => LET d == TheOther(c) IN
                    /\ Reader(l, f[d], Units(conn[d], a[d]), a[d], conn[d].wrote, conn[d].early)
                    /\ SentOf(f, a, conn, d, p)
  <2> SUFFICES ASSUME accepted = 1
               PROVE  LET d == TheOther(c) IN
                    /\ Reader(l, f[d], Units(conn[d], a[d]), a[d], conn[d].wrote, conn[d].early)
                    /\ SentOf(f, a, conn, d, p)
    OBVIOUS
  <2> DEFINE d == TheOther(c)  h == conn[d]  n == Units(h, a[d])
  <2>1. d = Accepted[1] /\ d \in ConnIds /\ d \in MadeBy(accepted)
    BY <1>3, MadeAre DEF TheOther
  <2>2. /\ Sender(d, h, f[d], a[d]) /\ f[d] \in Numbers /\ h.wrote = 0 /\ p.type # "syn"
        /\ Reader(k, f[d], n, a[d], h.wrote, h.early)
    <3>1. ReadOf(f, a, conn, Dialer, d) /\ h.wrote = 0 /\ Sender(d, h, f[d], a[d]) /\ f[d] \in Numbers
      BY <1>1, <1>2, <2>1 DEF UtpAt
    <3>2. p.type # "syn"
      BY <1>1, <1>2 DEF UtpAt, IsSyn, SentOf, Outgoing
    <3>3. QED
      BY <3>1, <3>2 DEF ReadOf
  <2>3. SentOf(f, a, conn, d, p)
    BY <1>1, <1>2, <2>1, <2>2, PacketComes
  <2>4. PICK j \in 0..n : p.seq = Num(f[d], j)
    BY <2>3, SentIsOf
  <2>5. k \in UtpConns
    BY <1>3 DEF Sender
  <2> HIDE DEF d, h, n
  <2>6. Reader(l, f[d], n, a[d], h.wrote, h.early)
    <3>1. j \in 0..Units(h, a[d]) /\ Reader(k, f[d], Units(h, a[d]), a[d], h.wrote, h.early)
      BY <2>2 DEF n
    <3>2. Reader(l, f[d], Units(h, a[d]), a[d], h.wrote, h.early)
      BY ZenonT(40), <1>2, <1>6, <2>1, <2>2, <2>4, <2>5, <3>1, DialerBegins
    <3>3. QED
      BY <3>2 DEF n
  <2>7. QED
    BY <2>3, <2>6 DEF d, h, n
<1>9. conn' = [conn EXCEPT ![c] = R.k] /\ net' = Rest(p, twice) \cup R.out
  BY <1>2, HandlesIs
<1>10. net' \subseteq net \cup R.out
  BY <1>9, RestIs
<1>11. \E b : UtpAt(f, b, [conn EXCEPT ![c] = R.k], accepted, net')
  BY <1>1, <1>3, <1>4, <1>7, <1>8, <1>10, PacketTurn
<1>12. QED
  BY <1>2, <1>9, <1>11 DEF UtpIInv

LEMMA DispatchUtp ==
    ASSUME NumbersLast, UtpIInv, NEW p \in net, NEW twice, Dispatch(p, twice)
    PROVE  UtpIInv'
<1>1. PICK f, a : UtpAt(f, a, conn, accepted, net)
  BY DEF UtpIInv
<1> DEFINE c == IF p.to = "dialer" THEN Dialer ELSE Table
<1>2. accepted' = accepted /\ p.type # "syn" /\ accepted \in 0..Len(Accepted) /\ IsPacket(p) /\ Len(Accepted) \in Nat
  BY <1>1, UtpConstants DEF Dispatch, UtpAt
<1>3. CASE conn' = conn /\ net' = Rest(p, twice)
  <2>1. UtpAt(f, a, conn, accepted, net')
    BY <1>1, <1>3, RestIs, NetShrinks
  <2>2. QED
    BY <1>2, <1>3, <2>1 DEF UtpIInv
<1>4. CASE c # Absent /\ LiveConn(c) /\ conn[c].st # "connecting" /\ HandlePacket(c, conn[c], p, Rest(p, twice))
  <2> DEFINE k == conn[c]  R == PacketHandled(c, k, p)
  <2>0. accepted # 0
    BY <1>1, <1>2 DEF UtpAt, IsSyn
  <2>1. accepted >= 1
    BY <1>2, <2>0
  <2>2. c \in ConnIds /\ c \in MadeBy(accepted) /\ (accepted = 1 /\ p.to # "dialer" => c = Accepted[1]) /\ (p.to = "dialer" => c = Dialer)
    <3>1. Dialer \in MadeBy(accepted) /\ Accepted[accepted] \in MadeBy(accepted) /\ MadeBy(accepted) \subseteq ConnIds
      BY <1>2, <2>1, MadeAre
    <3>2. Table = Accepted[accepted]
      BY <2>0 DEF Table
    <3>3. QED
      BY <3>1, <3>2
  <2> HIDE DEF c
  <2>3. Sender(c, k, f[c], a[c]) /\ f[c] \in Numbers /\ InUse(k)
    BY <1>1, <1>4, <2>2, LiveAreMade DEF LiveConn, InUse
  <2>4. GoesOn(k, a[c], k, a[c])
    <3>1. Units(k, a[c]) \in Nat /\ a[c] \in Int /\ k.wrote \in Nat
      BY <2>2, <2>3, UnitsFit DEF Sender, UtpConns
    <3>2. QED
      BY <3>1 DEF GoesOn
  <2>5. accepted = 1 => LET d == TheOther(c) IN
                    /\ Reader(k, f[d], Units(conn[d], a[d]), a[d], conn[d].wrote, conn[d].early)
                    /\ SentOf(f, a, conn, d, p)
    <3> SUFFICES ASSUME accepted = 1
                 PROVE  LET d == TheOther(c) IN
                    /\ Reader(k, f[d], Units(conn[d], a[d]), a[d], conn[d].wrote, conn[d].early)
                    /\ SentOf(f, a, conn, d, p)
      OBVIOUS
    <3>1. /\ p.to = "dialer" => SentOf(f, a, conn, Accepted[1], p)
          /\ p.to # "dialer" => SentOf(f, a, conn, Dialer, p)
      BY <1>1, <1>2, PacketComes
    <3>2. Accepted[1] # Dialer
      BY <1>2, MadeAre
    <3>3. SentOf(f, a, conn, TheOther(c), p)
      BY <2>2, <3>1, <3>2 DEF TheOther
    <3>4. ReadOf(f, a, conn, Dialer, Accepted[1]) /\ ReadOf(f, a, conn, Accepted[1], Dialer)
      BY <1>1 DEF UtpAt
    <3>5. ReadOf(f, a, conn, c, TheOther(c))
      BY <2>2, <3>2, <3>4 DEF TheOther
    <3>6. QED
      BY <3>3, <3>5 DEF ReadOf
  <2>6. accepted = 1 /\ c # Dialer => conn[Dialer].st # "connecting"
    <3> SUFFICES ASSUME accepted = 1, c # Dialer PROVE conn[Dialer].st # "connecting"
      OBVIOUS
    <3>1. p.to = "socket"
      BY <1>2, <2>2 DEF IsPacket
    <3>2. QED
      BY <1>1, <1>2, <3>1 DEF UtpAt
  <2>7. conn' = [conn EXCEPT ![c] = R.k] /\ net' = Rest(p, twice) \cup R.out
    BY <1>4, HandlesIs
  <2>8. net' \subseteq net \cup R.out
    BY <2>7, RestIs
  <2>9. \E b : UtpAt(f, b, [conn EXCEPT ![c] = R.k], accepted, net')
    BY <1>1, <1>2, <2>1, <2>2, <2>3, <2>4, <2>5, <2>6, <2>8, PacketTurn
  <2>10. QED
    BY <1>2, <2>7, <2>9 DEF UtpIInv
<1>5. QED
  BY <1>3, <1>4 DEF Dispatch

\* A connection that has sent nothing.
LEMMA NewSends ==
    ASSUME NEW c \in ConnIds, NEW s \in Numbers, NEW ack \in Numbers, NEW st \in {"connecting", "connected"}, NEW f \in Numbers,
           st = "connected" => f = s, st = "connecting" => c = Dialer /\ s = Num(f, -1)
    PROVE  Sender(c, NewConn(s, ack, st), f, -1) /\ Units(NewConn(s, ack, st), -1) = 0
<1> DEFINE k == NewConn(s, ack, st)
<1>1. /\ k.st = st /\ k.seq = s /\ k.ack = ack /\ k.buf = {} /\ k.reorder = {} /\ k.pend = <<>> /\ k.fin = Absent /\ ~k.early /\ k.wrote = 0
      /\ k.window = Window
  BY DEF NewConn
<1>2. k \in UtpConns
  <2>1. Window \in 0..Window /\ <<>> \in Seq(Nat) /\ 0 \in Nat
    BY UtpConstants
  <2>2. QED
    BY <2>1 DEF UtpConns, NewConn
<1> HIDE DEF k
<1>3. SentBy(k) = 0 /\ Units(k, -1) = 0
  <2>1. Len(k.pend) = 0
    BY <1>1
  <2>2. SentBy(k) = 0
    <3>1. SentBy(k) = k.wrote - Len(k.pend) /\ k.wrote = 0
      BY <1>1 DEF SentBy
    <3>2. QED
      BY <2>1, <3>1
  <2>3. QED
    BY <2>2 DEF Units
<1>4. IsFiniteSet(k.buf) /\ IsFiniteSet(k.reorder) /\ Flight(k) = 0
  <2>1. {p \in k.buf : p.type = "data"} = {}
    BY <1>1
  <2>2. QED
    BY <1>1, <2>1, FS_EmptySet DEF Flight
<1>5. Num(s, 0) = s
  <2>1. s \in 0..SeqSpace - 1 /\ 0 \in -1..SeqSpace /\ SeqSpace \in Nat \ {0}
    BY UtpConstants DEF Numbers
  <2>2. QED
    BY <2>1 DEF Num
<1>6. Chunks[c] \in Nat /\ Window \in Nat
  BY UtpConstants
<1>7. Sender(c, k, f, -1)
  BY <1>1, <1>2, <1>3, <1>4, <1>5, <1>6 DEF Sender
<1>8. QED
  BY <1>3, <1>7 DEF k

LEMMA UtpStarts ==
    ASSUME UtpInit
    PROVE  UtpIInv
<1>1. PICK s \in FirstSeqs : conn = [c \in ConnIds |-> IF c = Dialer THEN NewConn(s, 0, "connecting") ELSE Absent]
  BY DEF UtpInit
<1> DEFINE n == SeqNext(s)  f == [c \in ConnIds |-> n]  a == [c \in ConnIds |-> -1]
<1>2. s \in Numbers /\ n \in Numbers /\ 0 \in Numbers /\ SeqSpace \in Nat \ {0} /\ Dialer \in ConnIds
  BY UtpConstants DEF SeqNext, Numbers
<1>3. s = Num(n, -1)
  <2>1. n = IF s + 1 < SeqSpace THEN s + 1 ELSE 0
    <3>1. CASE s + 1 < SeqSpace
      BY <1>2, <3>1 DEF SeqNext, Numbers
    <3>2. CASE s + 1 = SeqSpace
      BY <1>2, <3>2 DEF SeqNext, Numbers
    <3>3. QED
      BY <1>2, <3>1, <3>2 DEF Numbers
  <2> HIDE DEF n
  <2> DEFINE i == -1
  <2>2. n \in 0..SeqSpace - 1 /\ i \in -1..SeqSpace /\ i = -1
    BY <1>2 DEF Numbers
  <2> HIDE DEF i
  <2>3. Num(n, i) = IF n + i < 0 THEN n + i + SeqSpace ELSE IF n + i < SeqSpace THEN n + i ELSE n + i - SeqSpace
    BY <2>2, NumIs
  <2>4. Num(n, i) = s
    BY <1>2, <2>1, <2>2, <2>3 DEF Numbers
  <2>5. QED
    BY <2>4 DEF i
<1> HIDE DEF n
<1>4. Sender(Dialer, NewConn(s, 0, "connecting"), n, -1)
  BY <1>2, <1>3, NewSends
<1>5. accepted = 0 /\ net = {} /\ 0 \in 0..Len(Accepted) /\ MadeBy(accepted) = {Dialer}
  BY UtpConstants DEF UtpInit, MadeBy
<1>6. conn[Dialer] = NewConn(s, 0, "connecting") /\ DOMAIN conn = ConnIds /\ \A c \in ConnIds : c # Dialer => conn[c] = Absent
  BY <1>1, <1>2
<1>7. Fresh(conn[Dialer])
  BY <1>6 DEF Fresh, NewConn
<1>8. f \in [ConnIds -> Numbers] /\ a \in [ConnIds -> Int] /\ f[Dialer] = n /\ a[Dialer] = -1
  BY <1>2
<1> HIDE DEF f, a
<1>9. UtpAt(f, a, conn, accepted, net)
  BY <1>4, <1>5, <1>6, <1>7, <1>8 DEF UtpAt
<1>10. QED
  BY <1>9 DEF UtpIInv

LEMMA SendSynUtp ==
    ASSUME NumbersLast, UtpIInv, SendSyn
    PROVE  UtpIInv'
<1>1. PICK f, a : UtpAt(f, a, conn, accepted, net)
  BY DEF UtpIInv
<1> DEFINE p == [to |-> "socket", type |-> "syn", seq |-> conn[Dialer].seq, ack |-> 0, sack |-> {}, load |-> Absent]
<1>2. conn[Dialer].st = "connecting" /\ net' = net \cup {p} /\ conn' = conn /\ accepted' = accepted
  BY DEF SendSyn
<1>3. Sender(Dialer, conn[Dialer], f[Dialer], a[Dialer])
  BY <1>1, MadeAre DEF UtpAt
<1>4. conn[Dialer].seq = Num(f[Dialer], -1) /\ conn[Dialer].seq \in Numbers
  BY <1>2, <1>3 DEF Sender, UtpConns
<1>5. IsPacket(p) /\ IsSyn(f, p) /\ p.type = "syn"
  BY <1>4 DEF IsPacket, IsSyn, Loads
<1> HIDE DEF p
<1>6. UtpAt(f, a, conn, accepted, net')
  BY <1>1, <1>2, <1>5 DEF UtpAt
<1>7. QED
  BY <1>2, <1>6 DEF UtpIInv

LEMMA AcceptSynUtp ==
    ASSUME NumbersLast, UtpIInv, NEW p \in net, NEW s \in FirstSeqs, NEW twice, AcceptSyn(p, s, twice)
    PROVE  UtpIInv'
<1>1. PICK f, a : UtpAt(f, a, conn, accepted, net)
  BY DEF UtpIInv
<1>2. accepted \in 0..Len(Accepted) /\ Len(Accepted) \in Nat /\ p.type = "syn" /\ Rest(p, twice) \subseteq net
  BY <1>1, UtpConstants, RestIs DEF UtpAt, AcceptSyn
<1>3. CASE accepted = Len(Accepted)
  <2>1. net' = Rest(p, twice) /\ conn' = conn /\ accepted' = accepted
    BY <1>3 DEF AcceptSyn
  <2>2. UtpAt(f, a, conn, accepted, net')
    BY <1>1, <1>2, <2>1, NetShrinks
  <2>3. QED
    BY <2>1, <2>2 DEF UtpIInv
<1>4. CASE accepted # Len(Accepted)
  <2> DEFINE m == accepted + 1  c == Accepted[m]  k == NewConn(s, p.seq, "connected")
             g == [f EXCEPT ![c] = s]  b == [a EXCEPT ![c] = -1]  cn == [conn EXCEPT ![c] = k]
  <2>1. accepted' = m /\ conn' = cn /\ net' = Rest(p, twice) \cup {StateOf(c, k)}
    BY <1>4 DEF AcceptSyn, ConnTurns
  <2>2. m \in 0..Len(Accepted) /\ m \in 1..Len(Accepted) /\ 1..m = (1..accepted) \cup {m} /\ accepted \in Nat
    BY <1>2, <1>4
  <2>3. c \in ConnIds /\ c # Dialer /\ Dialer \in ConnIds
    BY <2>2, UtpConstants
  <2>4. MadeBy(m) = MadeBy(accepted) \cup {c}
    BY <2>2 DEF MadeBy
  <2>5. s \in Numbers /\ p.seq \in Numbers /\ IsPacket(p)
    BY <1>1, UtpConstants DEF UtpAt, IsPacket
  <2>6. Sender(c, k, s, -1) /\ Units(k, -1) = 0
    BY <2>3, <2>5, NewSends
  <2>7. k.st = "connected" /\ k.wrote = 0 /\ ~k.early
    BY DEF NewConn
  <2>8. /\ g \in [ConnIds -> Numbers] /\ b \in [ConnIds -> Int] /\ DOMAIN cn = ConnIds /\ g[c] = s /\ b[c] = -1 /\ cn[c] = k
        /\ \A d \in ConnIds : d # c => g[d] = f[d] /\ b[d] = a[d] /\ cn[d] = conn[d]
    <3>1. f \in [ConnIds -> Numbers] /\ a \in [ConnIds -> Int] /\ DOMAIN conn = ConnIds
      BY <1>1 DEF UtpAt
    <3> HIDE DEF k, c
    <3>2. QED
      BY <2>3, <2>5, <3>1
  <2>9. Outgoing(c, s, 0, -1, StateOf(c, k))
    <3>1. InUse(k)
      BY <2>7 DEF InUse
    <3>2. QED
      BY <2>3, <2>5, <2>6, <3>1, StateGoesOut
  <2> DEFINE o == StateOf(c, k)
  <2> HIDE DEF m, c, k, g, b, cn, o
  <2>10. \A d \in ConnIds : IF d \in MadeBy(m) THEN Sender(d, cn[d], g[d], b[d]) ELSE cn[d] = Absent
    BY <1>1, <2>3, <2>4, <2>6, <2>8 DEF UtpAt
  <2>11. net' \subseteq net \cup {o} /\ IsPacket(o) /\ Outgoing(c, s, 0, -1, o)
    BY <1>2, <2>1, <2>9 DEF Outgoing, o
  <2>12. \A q \in net' : IsPacket(q)
    BY <1>1, <2>11 DEF UtpAt
  <2>13. CASE m = 1
    <3> DEFINE D == conn[Dialer]
    <3>1. accepted = 0 /\ c = Accepted[1]
      BY <2>2, <2>13 DEF m, c
    <3>2. Fresh(D) /\ (\A q \in net : IsSyn(f, q)) /\ Sender(Dialer, D, f[Dialer], a[Dialer]) /\ cn[Dialer] = D
          /\ g[Dialer] = f[Dialer] /\ b[Dialer] = a[Dialer] /\ f[Dialer] \in Numbers
      BY <1>1, <2>3, <2>8, <3>1, MadeAre DEF UtpAt
    <3>3. \A q \in net' : IsSyn(g, q) \/ SentOf(g, b, cn, c, q)
      BY <2>6, <2>8, <2>11, <3>2 DEF IsSyn, SentOf
    <3>4. ReadOf(g, b, cn, Dialer, c)
      <4>1. D \in UtpConns
        BY <3>2 DEF Sender
      <4>2. Receiver(D, s, 0, -1, 0, FALSE, 0)
        <5>1. ChunksIn(-1, 0) = 0
          BY DEF ChunksIn
        <5>2. Len(D.got) = 0 /\ D.reorder = {} /\ D.st \in {"connecting", "gone"}
          BY <3>2 DEF Fresh
        <5>3. QED
          BY <3>2, <5>1, <5>2 DEF Receiver, Fresh
      <4>3. k.early = FALSE
        BY <2>6, <2>7 DEF Sender, UtpConns
      <4>4. QED
        BY <2>6, <2>7, <2>8, <3>2, <4>2, <4>3 DEF ReadOf, Reader
    <3>5. ReadOf(g, b, cn, c, Dialer)
      <4> DEFINE n == Units(D, a[Dialer])  x == a[Dialer]
      <4>1. n \in Nat /\ x \in Int /\ x >= -1
        <5>1. SentBy(D) \in Nat /\ x \in -1..SentBy(D)
          BY <2>3, <3>2, UnitsFit DEF Sender
        <5>2. QED
          BY <2>3, <3>2, <5>1, UnitsFit
      <4>2. p.seq = Num(f[Dialer], -1)
        BY <3>2 DEF IsSyn
      <4> HIDE DEF n, x, D
      <4>3. k.ack = Num(f[Dialer], 0 - 1) /\ k.got = <<>> /\ k.reorder = {} /\ k.peerFin = Absent /\ ~k.readClosed /\ ~k.eof /\ ~k.late /\ k.st = "connected"
        BY <4>2 DEF k, NewConn
      <4>4. ChunksIn(x, 0) = 0
        BY <4>1 DEF ChunksIn
      <4>5. Len(k.got) = 0 /\ 0 \in 0..n
        BY <4>1, <4>3
      <4>6. Receiver(k, f[Dialer], n, x, D.wrote, D.early, 0)
        BY <4>1, <4>3, <4>4, <4>5 DEF Receiver
      <4>7. QED
        BY <2>8, <3>2, <4>6 DEF ReadOf, Reader, n, x
    <3>6. \A q \in net' : q.to = "socket" => q.type = "syn"
      <4>1. o.to = "dialer"
        BY <2>3, <2>11 DEF Outgoing, To
      <4>2. QED
        BY <2>11, <3>2, <4>1 DEF IsSyn
    <3>7. cn[c].wrote = 0
      BY <2>7, <2>8
    <3>8. UtpAt(g, b, cn, m, net')
      BY <2>2, <2>8, <2>10, <2>12, <2>13, <3>1, <3>3, <3>4, <3>5, <3>6, <3>7 DEF UtpAt
    <3>9. QED
      BY <2>1, <3>8 DEF UtpIInv
  <2>14. CASE m # 1
    <3>1. m # 0
      BY <2>2
    <3>2. UtpAt(g, b, cn, m, net')
      BY <2>2, <2>8, <2>10, <2>12, <2>14, <3>1 DEF UtpAt
    <3>3. QED
      BY <2>1, <3>2 DEF UtpIInv
  <2>15. QED
    BY <2>13, <2>14
<1>5. QED
  BY <1>3, <1>4

\* What holds of two connections of which one dialed the other.
LEMMA WhatIsReadIsWritten ==
    ASSUME NumbersLast, NEW k, NEW c \in ConnIds, NEW l, NEW f \in Numbers, NEW a, Sender(c, l, f, a), k.got \in Seq(Nat),
           Reader(k, f, Units(l, a), a, l.wrote, l.early)
    PROVE  /\ k.got = [i \in 1..Len(k.got) |-> i] /\ Len(k.got) <= l.wrote
           /\ ~l.early => ~k.late /\ (k.eof => Len(k.got) = l.wrote)
<1>1. PICK r : Receiver(k, f, Units(l, a), a, l.wrote, l.early, r)
  BY DEF Reader
<1>2. /\ SentBy(l) \in Nat /\ Units(l, a) \in Nat /\ a \in Int /\ a \in -1..SentBy(l) /\ l.wrote \in Nat /\ Len(l.pend) \in Nat
      /\ l.pend \in Seq(Nat)
  BY UnitsFit DEF Sender, UtpConns
<1>3. SentBy(l) <= l.wrote
  BY <1>2 DEF SentBy
<1>4. r \in 0..Units(l, a) /\ Len(k.got) <= ChunksIn(a, r) /\ \A i \in 1..Len(k.got) : k.got[i] = i
  BY <1>1 DEF Receiver
<1>5. ChunksIn(a, r) \in Nat /\ ChunksIn(a, r) <= SentBy(l)
  <2>1. Units(l, a) = SentBy(l) + IF a < 0 THEN 0 ELSE 1
    BY DEF Units
  <2>2. QED
    BY <1>2, <1>4, <2>1 DEF ChunksIn
<1>6. Len(k.got) \in Nat /\ Len(k.got) <= l.wrote
  BY <1>2, <1>3, <1>4, <1>5
<1>7. k.got = [i \in 1..Len(k.got) |-> i]
  BY <1>4
<1>8. ~l.early => ~k.late /\ (k.eof => Len(k.got) = l.wrote)
  BY <1>1 DEF Receiver
<1>9. QED
  BY <1>6, <1>7, <1>8

LEMMA UtpIInvSays ==
    ASSUME NumbersLast, UtpIInv
    PROVE  UtpInv
<1>1. PICK f, a : UtpAt(f, a, conn, accepted, net)
  BY DEF UtpIInv
<1>2. f \in [ConnIds -> Numbers] /\ accepted \in 0..Len(Accepted)
  BY <1>1 DEF UtpAt
<1>3. ASSUME NEW c \in ConnIds, Made(c)
      PROVE  /\ conn[c].st \in {"connecting", "connected", "closing", "closed", "gone"}
             /\ {conn[c].seq, conn[c].ack} \subseteq 0..SeqSpace - 1
             /\ Flight(conn[c]) <= Window /\ conn[c].wrote \in 0..Chunks[c]
             /\ (conn[c].fin = Absent) = (conn[c].st \in {"connecting", "connected"}) \/ conn[c].st = "gone"
  <2> DEFINE k == conn[c]
  <2>1. Sender(c, k, f[c], a[c])
    BY <1>1, <1>3 DEF UtpAt, Made
  <2>2. /\ k \in UtpConns /\ a[c] \in Int /\ k.wrote <= Chunks[c] /\ Chunks[c] \in Nat /\ Flight(k) <= Window
        /\ IF a[c] < 0 THEN k.fin = Absent ELSE k.fin = Num(f[c], a[c])
        /\ k.st # "gone" => (a[c] < 0 <=> k.st \in {"connecting", "connected"})
    BY <2>1, UnitsFit, UtpConstants DEF Sender
  <2>3. a[c] >= 0 => k.fin # Absent
    <3>1. a[c] \in -1..SentBy(k) /\ SentBy(k) <= Units(k, a[c]) /\ 2 * Units(k, a[c]) < SeqSpace /\ Units(k, a[c]) \in Nat /\ SentBy(k) \in Nat
      BY <2>1, UnitsFit DEF Sender
    <3>2. a[c] \in -1..Units(k, a[c]) /\ f[c] \in 0..SeqSpace - 1
      BY <1>2, <3>1 DEF Numbers
    <3>3. Num(f[c], a[c]) \in 0..SeqSpace - 1
      BY <3>1, <3>2, NumbersTell
    <3>4. Absent \notin 0..SeqSpace - 1
      BY UtpConstants
    <3>5. QED
      BY <2>2, <3>3, <3>4
  <2>4. (k.fin = Absent) = (k.st \in {"connecting", "connected"}) \/ k.st = "gone"
    BY <2>2, <2>3
  <2>5. k.st \in {"connecting", "connected", "closing", "closed", "gone"} /\ k.seq \in Numbers /\ k.ack \in Numbers /\ k.wrote \in 0..Chunks[c]
    BY <2>2 DEF UtpConns
  <2>6. QED
    BY <2>2, <2>4, <2>5 DEF Numbers
<1>4. UtpTypeOK
  BY <1>3 DEF UtpTypeOK
<1>5. ASSUME NEW c \in Pair
      PROVE  /\ conn[c].got = [i \in 1..Len(conn[c].got) |-> i] /\ Len(conn[c].got) <= conn[Other(c)].wrote
             /\ ~conn[Other(c)].early => ~conn[c].late /\ (conn[c].eof => Len(conn[c].got) = conn[Other(c)].wrote)
  <2> DEFINE d == Other(c)
  <2>1. accepted = 1 /\ c \in {Dialer, Accepted[1]}
    BY <1>5 DEF Pair
  <2>2. Accepted[1] # Dialer /\ {Dialer, Accepted[1]} \subseteq ConnIds /\ MadeBy(accepted) = {Dialer, Accepted[1]}
    BY <1>2, <2>1, MadeAre
  <2>3. d \in ConnIds /\ {c, d} = {Dialer, Accepted[1]}
    BY <2>1, <2>2 DEF Other
  <2>4. ReadOf(f, a, conn, c, d)
    <3>1. ReadOf(f, a, conn, Dialer, Accepted[1]) /\ ReadOf(f, a, conn, Accepted[1], Dialer)
      BY <1>1, <2>1 DEF UtpAt
    <3>2. QED
      BY <2>1, <2>2, <3>1 DEF Other
  <2> HIDE DEF d
  <2>5. Sender(d, conn[d], f[d], a[d]) /\ Sender(c, conn[c], f[c], a[c]) /\ f[d] \in Numbers
    BY <1>1, <1>2, <2>2, <2>3 DEF UtpAt
  <2>6. conn[c].got \in Seq(Nat)
    BY <2>5 DEF Sender, UtpConns
  <2>7. QED
    BY <2>3, <2>4, <2>5, <2>6, WhatIsReadIsWritten DEF ReadOf, d
<1>6. StreamIsPrefix
  BY <1>5 DEF StreamIsPrefix
<1>7. EndIsTheEnd
  BY <1>5 DEF EndIsTheEnd
<1>8. QED
  BY <1>4, <1>6, <1>7 DEF UtpInv

LEMMA UtpStep ==
    ASSUME NumbersLast, Accepted # <<>> => Reads[Accepted[1]] >= 1, UtpIInv, [UtpNext]_utpVars
    PROVE  UtpIInv'
<1>1. CASE SendSyn
  BY <1>1, SendSynUtp
<1>2. CASE SynFails
  BY <1>2, SynFailsUtp
<1>3. ASSUME NEW p \in net, Lose(p) PROVE UtpIInv'
  <2>1. net' \subseteq net /\ conn' = conn /\ accepted' = accepted
    BY <1>3 DEF Lose
  <2>2. PICK f, a : UtpAt(f, a, conn, accepted, net)
    BY DEF UtpIInv
  <2>3. UtpAt(f, a, conn, accepted, net')
    BY <2>1, <2>2, NetShrinks
  <2>4. QED
    BY <2>1, <2>3 DEF UtpIInv
<1>4. ASSUME NEW p \in net, NEW twice \in BOOLEAN, Arrives(p, twice) PROVE UtpIInv'
  BY <1>4, UtpReplyUtp, DispatchUtp, AcceptSynUtp DEF Arrives
<1>5. ASSUME NEW c \in ConnIds, ConnNext(c) PROVE UtpIInv'
  BY <1>5, WriteChunkUtp, CloseConnUtp, LingerEndsUtp, HandleRTOUtp DEF ConnNext
<1>6. CASE UNCHANGED utpVars
  BY <1>6 DEF utpVars, UtpIInv
<1>7. QED
  BY <1>1, <1>2, <1>3, <1>4, <1>5, <1>6 DEF UtpNext

\* Whatever the network does, and wherever the numbers wrap, an application reads
\* what the other wrote, in order and once, and its end after all of it.
THEOREM UtpReadsWhatIsWritten ==
    ASSUME NumbersLast, Accepted # <<>> => Reads[Accepted[1]] >= 1
    PROVE  UtpSpec => []UtpInv
<1>1. UtpInit => UtpIInv
  BY UtpStarts
<1>2. UtpIInv /\ [UtpNext]_utpVars => UtpIInv'
  BY UtpStep
<1>3. UtpIInv => UtpInv
  BY UtpIInvSays
<1>4. QED
  BY <1>1, <1>2, <1>3, PTL DEF UtpSpec
=============================================================================
