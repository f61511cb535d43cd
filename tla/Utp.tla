--------------------------------- MODULE Utp ---------------------------------
(***************************************************************************)
(* One connection of the transport over UDP (utp/conn.go, conn_actor.go,   *)
(* socket.go, seq.go): a dialer, the connections the other socket accepts, *)
(* and a network that loses, repeats and reorders packets.  A chunk of     *)
(* data is one segment; time is when a timer may fire; the queue of        *)
(* packets a connection has not yet looked at counts as the network.       *)
(***************************************************************************)
EXTENDS Integers, Sequences, FiniteSets, SequencesExt, FiniteSetsExt

CONSTANTS Dialer, Accepted,  \* connections; Accepted are made in this order
          SeqSpace,            \* 65536 in the code
          FirstSeqs,         \* bound: sequence numbers to start from
          Chunks,            \* bound: what each application writes, a function
          Window,            \* bound: segments the congestion window has room for
          MaxFaults,         \* bound: packets lost or repeated, timers too early
          SynRetries,        \* SynRetries
          MayClose,          \* bound: the connections whose application may close
          Reads,             \* an application writes only after it has read this much: a function
          Absent

ConnIds == {Dialer} \cup ToSet(Accepted)
ASSUME UtpAssumption ==
    /\ SeqSpace \in Nat \ {0} /\ SeqSpace % 2 = 0 /\ {MaxFaults, SynRetries} \subseteq Nat /\ Chunks \in [ConnIds -> Nat]
    /\ FirstSeqs \subseteq 0..SeqSpace - 1 /\ Reads \in [ConnIds -> Nat] /\ Window \in Nat \ {0}
    /\ Accepted \in Seq(ToSet(Accepted)) /\ Dialer \notin ToSet(Accepted) /\ Absent \notin Nat

VARIABLES
    conn,     \* each connection, Absent before it is made
    accepted, \* how many the socket has accepted; the last is in its table
    net,      \* packets under way
    faults, syns  \* counters for the bounds

utpVars == <<conn, accepted, net, faults, syns>>

\* seqLess and seqLessEq: 16-bit numbers, which of two is ahead.  Mutant: numbers
\* that do not wrap.
SeqLess(a, b) == (a - b) % SeqSpace >= SeqSpace \div 2
SeqLessEq(a, b) == a = b \/ SeqLess(a, b)
SeqNext(a) == (a + 1) % SeqSpace

\* newConn.
NewConn(seq, ack, st) ==
    [st |-> st, seq |-> seq, ack |-> ack, buf |-> {}, reorder |-> {}, pend |-> <<>>, window |-> Window,
     fin |-> Absent, peerFin |-> Absent, readClosed |-> FALSE, closing |-> FALSE, eof |-> FALSE, late |-> FALSE, early |-> FALSE,
     got |-> <<>>, wrote |-> 0]

Made(c) == conn[c] # Absent
LiveConn(c) == Made(c) /\ conn[c].st # "gone"
Peers(c) == IF c = Dialer THEN ToSet(Accepted) ELSE {Dialer}
To(c) == IF c = Dialer THEN "socket" ELSE "dialer"
\* sendState, trySend and sendFin: an acknowledgement alone says what was received
\* out of order; what carries data or the end does not.
Packet(c, k, type, seq, load) ==
    [to |-> To(c), type |-> type, seq |-> seq, ack |-> k.ack, load |-> load,
     sack |-> IF type = "state" THEN {p.seq : p \in k.reorder} ELSE {}]
StateOf(c, k) == Packet(c, k, "state", k.seq, Absent)

\* trySend: as many segments as the window allows.
Flight(k) == Cardinality({p \in k.buf : p.type = "data"})
TrySend(c, r) ==
    LET k == r.k
        room == IF k.window > Flight(k) THEN k.window - Flight(k) ELSE 0
        n == IF Len(k.pend) < room THEN Len(k.pend) ELSE room
        sent == {[type |-> "data", seq |-> (k.seq + i - 1) % SeqSpace, load |-> k.pend[i]] : i \in 1..n}
    IN  [k |-> [k EXCEPT !.pend = SubSeq(@, n + 1, Len(@)), !.seq = (@ + n) % SeqSpace, !.buf = @ \cup sent],
         out |-> r.out \cup {Packet(c, k, "data", p.seq, p.load) : p \in sent}]

\* sendFin.
SendFin(c, r) ==
    LET k == r.k
    IN  IF k.fin # Absent THEN r
        ELSE [k |-> [k EXCEPT !.seq = SeqNext(@), !.fin = k.seq, !.st = "closing", !.early = k.pend # <<>>,
                              !.buf = @ \cup {[type |-> "fin", seq |-> k.seq, load |-> Absent]}],
              out |-> r.out \cup {Packet(c, k, "fin", k.seq, Absent)}]

\* handleAck: what is acknowledged leaves sendBuf; the window grows with it.
\* Mutant: what was sent before a packet acknowledged out of order leaves, too.
AckedUpTo(k, p) == {q \in k.buf : SeqLessEq(q.seq, p.ack) \/ \E s \in p.sack : SeqLessEq(q.seq, s)}
Acked(k, p) == {q \in k.buf : SeqLessEq(q.seq, p.ack) \/ q.seq \in p.sack}
HandleAck(k, p) == [k EXCEPT !.buf = @ \ Acked(k, p), !.window = IF \E q \in Acked(k, p) : q.type = "data" THEN Window ELSE @]

\* deliver: packets in a row, of which a FIN carries nothing.  Once the
\* application has closed, nobody reads.
DeliverInOrder(k, ps) ==
    LET read[i \in 0..Len(ps)] ==
            IF i = 0 THEN k.got
            ELSE IF ps[i].load = Absent \/ k.closing THEN read[i - 1] ELSE Append(read[i - 1], ps[i].load)
    IN  [k EXCEPT !.got = read[Len(ps)], !.ack = (@ + Len(ps)) % SeqSpace,
                  !.late = @ \/ (k.readClosed /\ \E i \in DOMAIN ps : ps[i].load # Absent)]

\* What the reorder buffer holds that follows.
Following(k, seq) ==
    LET In(i) == {p \in k.reorder : p.seq = (seq + i) % SeqSpace}
        n == Max({m \in 0..Cardinality(k.reorder) : \A i \in 1..m : In(i) # {}})
    IN  [i \in 1..n |-> CHOOSE p \in In(i) : TRUE]

\* handleData.  Mutant: what arrives is delivered, in whatever order.
ReceiveAnyOrder(k, p) == IF SeqLessEq(p.seq, k.ack) THEN k ELSE DeliverInOrder(k, <<p>>)
Receive(k, p) ==
    IF SeqLessEq(p.seq, k.ack) THEN k
    ELSE IF p.seq = SeqNext(k.ack)
    THEN LET next == Following(k, p.seq) IN DeliverInOrder([k EXCEPT !.reorder = @ \ ToSet(next)], <<p>> \o next)
    ELSE [k EXCEPT !.reorder = @ \cup {[seq |-> p.seq, load |-> p.load]}]
HandleData(c, r, p) == LET k == Receive(r.k, p)
                       IN  [k |-> k, out |-> r.out \cup {StateOf(c, k)}]

\* The read side closes once the other side's FIN is reached in order.
FinReached(k) == k.peerFin # Absent /\ SeqLessEq(k.peerFin, k.ack)
Finished(r) == LET eof == FinReached(r.k)
               IN  [r EXCEPT !.k.eof = @ \/ (eof /\ ~r.k.closing), !.k.readClosed = @ \/ eof,
                             !.k.st = IF r.k.fin # Absent /\ r.k.peerFin # Absent THEN "closed" ELSE @]

\* handlePacket, by type of packet.
Handled(c, r, p) ==
    CASE p.type = "syn" -> [r EXCEPT !.out = {StateOf(c, r.k)}]
      [] p.type = "data" -> HandleData(c, r, p)
      [] p.type = "fin" -> HandleData(c, [r EXCEPT !.k.peerFin = p.seq], p)
      [] OTHER -> r
AnsweredUtp(c, r, p) == IF p.type = "fin" /\ r.k.st = "connected" THEN SendFin(c, r) ELSE r

ConnTurns(c, r, rest) == conn' = [conn EXCEPT ![c] = r.k] /\ net' = rest \cup r.out
HandlePacket(c, k0, p, rest) ==
    \E k \in {HandleAck(k0, p)} : \E r \in {Handled(c, [k |-> k, out |-> {}], p)} :
    \E q \in {Finished(AnsweredUtp(c, r, p))} : ConnTurns(c, TrySend(c, q), rest)

-----------------------------------------------------------------------------
(* The network and the timers *)

Fault == faults < MaxFaults /\ faults' = faults + 1

\* Nothing is under way, or the timer is shorter than the way back.
Overdue == \/ net = {} /\ UNCHANGED faults
           \/ net # {} /\ Fault

Lose(p) == Fault /\ net' = net \ {p} /\ UNCHANGED <<conn, accepted, syns>>
\* A packet that arrives, once or with another copy of it still under way.
Rest(p, twice) == IF twice THEN net ELSE net \ {p}
Once(twice) == IF twice THEN Fault ELSE UNCHANGED faults

\* performHandshake: the SYN, its retransmission, and any reply.
SendSyn ==
    /\ conn[Dialer].st = "connecting" /\ syns < SynRetries /\ syns' = syns + 1
    /\ IF syns = 0 THEN UNCHANGED faults ELSE Overdue
    /\ net' = net \cup {[to |-> "socket", type |-> "syn", seq |-> conn[Dialer].seq, ack |-> 0, sack |-> {}, load |-> Absent]}
    /\ UNCHANGED <<conn, accepted>>
SynFails ==
    /\ conn[Dialer].st = "connecting" /\ syns = SynRetries /\ Overdue
    /\ conn' = [conn EXCEPT ![Dialer].st = "gone"]
    /\ UNCHANGED <<accepted, net, syns>>
UtpReply(p, twice) ==
    /\ p.to = "dialer" /\ conn[Dialer].st = "connecting" /\ Once(twice)
    /\ HandlePacket(Dialer, [conn[Dialer] EXCEPT !.ack = (p.seq - 1) % SeqSpace, !.st = "connected", !.seq = SeqNext(@)],
                    p, Rest(p, twice))
    /\ UNCHANGED <<accepted, syns>>

\* dispatch: to the connection in the table, which a SYN never finds, since it
\* carries the other side's identifier.
Table == IF accepted = 0 THEN Absent ELSE Accepted[accepted]
AcceptSyn(p, seq, twice) ==
    /\ p.to = "socket" /\ p.type = "syn" /\ Once(twice)
    /\ IF accepted = Len(Accepted)
       THEN net' = Rest(p, twice) /\ UNCHANGED <<conn, accepted>>
       ELSE LET c == Accepted[accepted + 1]
                k == NewConn(seq, p.seq, "connected")
            IN  accepted' = accepted + 1 /\ ConnTurns(c, [k |-> k, out |-> {StateOf(c, k)}], Rest(p, twice))
    /\ UNCHANGED syns
Dispatch(p, twice) ==
    /\ p.type # "syn" /\ Once(twice)
    /\ LET c == IF p.to = "dialer" THEN Dialer ELSE Table
       IN  IF c # Absent /\ LiveConn(c) /\ conn[c].st # "connecting"
           THEN HandlePacket(c, conn[c], p, Rest(p, twice))
           ELSE /\ c = Absent \/ ~LiveConn(c)
                /\ net' = Rest(p, twice) /\ UNCHANGED conn
    /\ UNCHANGED <<accepted, syns>>

\* handleRTO: the oldest packet again, with what was received since.
Resent(c, q) == Packet(c, conn[c], q.type, q.seq, q.load)
HandleRTO(c) ==
    /\ LiveConn(c) /\ conn[c].st # "connecting" /\ conn[c].buf # {} /\ Overdue
    /\ LET q == CHOOSE q \in conn[c].buf : \A o \in conn[c].buf : SeqLessEq(q.seq, o.seq)
       IN  net' = net \cup {Resent(c, q)}
    /\ conn' = [conn EXCEPT ![c].window = 1]
    /\ UNCHANGED <<accepted, syns>>

-----------------------------------------------------------------------------
(* The applications *)

\* Write, taken only while connected.
WriteChunk(c) ==
    /\ LiveConn(c) /\ conn[c].st = "connected" /\ ~conn[c].closing
    /\ conn[c].wrote < Chunks[c] /\ Len(conn[c].got) >= Reads[c]
    /\ LET n == conn[c].wrote + 1
       IN  ConnTurns(c, TrySend(c, [k |-> [conn[c] EXCEPT !.wrote = n, !.pend = Append(@, n)], out |-> {}]), net)
    /\ UNCHANGED <<accepted, faults, syns>>

\* Close, and the actor that notices.
CloseConn(c) ==
    /\ c \in MayClose /\ LiveConn(c) /\ conn[c].st # "connecting" /\ ~conn[c].closing
    /\ LET r == [k |-> [conn[c] EXCEPT !.closing = TRUE], out |-> {}]
       IN  ConnTurns(c, IF conn[c].st = "connected" THEN SendFin(c, r) ELSE r, net)
    /\ UNCHANGED <<accepted, faults, syns>>

\* closeLinger is over: teardown.
LingerEnds(c) ==
    /\ LiveConn(c) /\ conn[c].st # "connecting" /\ (conn[c].closing \/ conn[c].st = "closed")
    /\ conn' = [conn EXCEPT ![c] = [@ EXCEPT !.st = "gone", !.readClosed = TRUE]]
    /\ UNCHANGED <<accepted, net, faults, syns>>

-----------------------------------------------------------------------------

UtpInit ==
    /\ \E s \in FirstSeqs : conn = [c \in ConnIds |-> IF c = Dialer THEN NewConn(s, 0, "connecting") ELSE Absent]
    /\ accepted = 0 /\ net = {} /\ faults = 0 /\ syns = 0

Arrives(p, twice) == UtpReply(p, twice) \/ Dispatch(p, twice) \/ \E s \in FirstSeqs : AcceptSyn(p, s, twice)
ConnNext(c) == WriteChunk(c) \/ CloseConn(c) \/ LingerEnds(c) \/ HandleRTO(c)
UtpNext == \/ SendSyn \/ SynFails
           \/ \E p \in net : Lose(p) \/ \E twice \in BOOLEAN : Arrives(p, twice)
           \/ \E c \in ConnIds : ConnNext(c)

UtpFairness == /\ WF_utpVars(SendSyn) /\ WF_utpVars(\E p \in net : Arrives(p, FALSE))
               /\ \A c \in ConnIds : WF_utpVars(HandleRTO(c))
UtpSpec == UtpInit /\ [][UtpNext]_utpVars /\ UtpFairness

-----------------------------------------------------------------------------
(* Properties.  They speak of a dial that made one connection: see           *)
(* OneConnPerDial.                                                           *)

UtpTypeOK ==
    \A c \in ConnIds : Made(c) =>
        /\ conn[c].st \in {"connecting", "connected", "closing", "closed", "gone"}
        /\ {conn[c].seq, conn[c].ack} \subseteq 0..SeqSpace - 1
        /\ Flight(conn[c]) <= Window /\ conn[c].wrote \in 0..Chunks[c]
        /\ (conn[c].fin = Absent) = (conn[c].st \in {"connecting", "connected"}) \/ conn[c].st = "gone"

Other(c) == IF c = Dialer THEN Accepted[1] ELSE Dialer
Pair == IF accepted = 1 THEN {Dialer, Accepted[1]} ELSE {}

\* What an application reads is what the other wrote, from the start, in order,
\* nothing twice, however the network loses, repeats and reorders packets and
\* wherever the numbers wrap.
StreamIsPrefix == \A c \in Pair : conn[c].got = [i \in 1..Len(conn[c].got) |-> i] /\ Len(conn[c].got) <= conn[Other(c)].wrote

\* An end of the stream comes after everything that was written, and nothing
\* comes after it: a packet delivered then is sent on a closed channel.
EndIsTheEnd == \A c \in Pair : ~conn[Other(c)].early =>
                 /\ ~conn[c].late
                 /\ conn[c].eof => Len(conn[c].got) = conn[Other(c)].wrote

\* "STFin finalizes the connection - the last packet either side sends": no data
\* is numbered after it.
FinIsLast == \A c \in ConnIds : Made(c) /\ conn[c].fin # Absent =>
                 \A q \in conn[c].buf : q.type = "data" => SeqLess(q.seq, conn[c].fin)

\* "A duplicate/retransmitted SYN for an already-established connection - just
\* re-send our own current state as an ack."
OneConnPerDial == accepted <= 1

\* What is written arrives, unless one of the two closes.
EverythingArrives == \A c \in ConnIds : \A n \in 1..Chunks[c] :
    (Made(c) /\ conn[c].wrote >= n) ~> \/ accepted # 1 \/ \E d \in Pair : conn[d].closing
                                        \/ \E e \in Pair \ {c} : Len(conn[e].got) >= n

\* What is read is what was written, and the end is its end.
UtpInv == UtpTypeOK /\ StreamIsPrefix /\ EndIsTheEnd
=============================================================================
