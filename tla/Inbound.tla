------------------------------- MODULE Inbound -------------------------------
(***************************************************************************)
(* Connections from outside, from the engine's listeners to the torrent    *)
(* they are for (engine.go handleIncoming, utp.go, torrent.go AcceptPeer): *)
(* a slot for the source address, the encryption the policy asks for, the  *)
(* handshake, and the queue of an actor that may stop meanwhile.           *)
(***************************************************************************)
EXTENDS Naturals, Sequences, FiniteSets

CONSTANTS Inbound,       \* connections
          Source,        \* addresses they come from
          Served,        \* infohashes of the engine's torrents
          Unserved,      \* an infohash of no torrent here
          PerIP,         \* maxInboundPerIP
          MaxInboundQueue,  \* cap(t.events)
          EncryptionPolicies   \* bound: values of Defaults.EncryptionPolicy

ASSUME InboundAssumption ==
    /\ Unserved \notin Served /\ {PerIP, MaxInboundQueue} \subseteq Nat \ {0}
    /\ EncryptionPolicies \subseteq {"disabled", "prefer", "required"}

VARIABLES
    policy,    \* Defaults.EncryptionPolicy
    hello,     \* what each connection sends: address, encryption, infohashes, bytes sent along
    stage,     \* how far each has come
    buffered,  \* connections whose later bytes sit in a reader nobody will read
    skeys,     \* what knownInfoHashes returned to each
    slots,     \* inboundCounts
    serving,   \* each torrent: "managed", "removed", "stopping", "stopped"
    inbox      \* each torrent's t.events

inboundVars == <<policy, hello, stage, buffered, skeys, slots, serving, inbox>>

Ip(c) == hello[c].from
Asks(c) == hello[c].hash
Holders(ip) == {c \in Inbound : Ip(c) = ip /\ stage[c] \notin {"new", "closed"}}

ToStage(c, s) == stage' = [stage EXCEPT ![c] = s]

\* countedConn.Close and releaseInboundSlot.
Released(c) == slots' = [slots EXCEPT ![Ip(c)] = @ - 1]
CloseInbound(c) == ToStage(c, "closed") /\ Released(c)

\* handleIncoming, up to the slot: a blocked address is closed before it has one.
\* Mutant: one too many.
AdmitsOneMore(c) == slots[Ip(c)] <= PerIP
Admits(c) == slots[Ip(c)] < PerIP
HandleIncoming(c) ==
    /\ stage[c] = "new"
    /\ \/ /\ ~hello[c].blocked /\ Admits(c)
          /\ ToStage(c, "slot") /\ slots' = [slots EXCEPT ![Ip(c)] = @ + 1]
       \/ /\ hello[c].blocked \/ ~Admits(c)
          /\ ToStage(c, "closed") /\ UNCHANGED slots
    /\ UNCHANGED <<policy, hello, buffered, skeys, serving, inbox>>

\* What the policy makes of the first bytes.
PlainAllowed == policy # "required"
ReadsPlain(c) ==
    /\ stage[c] = "slot" /\ ~hello[c].mse
    /\ IF PlainAllowed
       THEN /\ ToStage(c, "routing") /\ UNCHANGED slots
            \* the reader that peeked has read on; the connection is handed over without it
            /\ buffered' = IF policy # "disabled" /\ hello[c].along THEN buffered \cup {c} ELSE buffered
       ELSE CloseInbound(c) /\ UNCHANGED buffered
    /\ UNCHANGED <<policy, hello, skeys, serving, inbox>>

\* knownInfoHashes, then ReceiveHandshake without the lock, then the handshake inside.
StartsMSE(c) ==
    /\ stage[c] = "slot" /\ hello[c].mse /\ policy # "disabled"
    /\ skeys' = [skeys EXCEPT ![c] = {h \in Served : serving[h] = "managed"}]
    /\ ToStage(c, "mse")
    /\ UNCHANGED <<policy, hello, buffered, slots, serving, inbox>>
SkeyAgrees(c) == hello[c].skey = Asks(c)
EndsMSE(c) ==
    /\ stage[c] = "mse"
    /\ IF hello[c].skey \in skeys[c] /\ SkeyAgrees(c) THEN ToStage(c, "routing") /\ UNCHANGED slots ELSE CloseInbound(c)
    /\ UNCHANGED <<policy, hello, buffered, skeys, serving, inbox>>

\* Not a handshake, silence until the deadline, or the peer is gone.
HandshakeFails(c) ==
    /\ stage[c] \in {"slot", "mse"} /\ CloseInbound(c)
    /\ UNCHANGED <<policy, hello, buffered, skeys, serving, inbox>>

\* routeAcceptedPeer: the torrent is looked up, and handed the connection later.
Route(c) ==
    /\ stage[c] = "routing"
    /\ IF Asks(c) \in Served /\ serving[Asks(c)] = "managed" THEN ToStage(c, "handed") /\ UNCHANGED slots ELSE CloseInbound(c)
    /\ UNCHANGED <<policy, hello, buffered, skeys, serving, inbox>>

\* AcceptPeer: a queue with room and a torrent that has stopped are both ready.
AcceptPeer(c) ==
    /\ stage[c] = "handed"
    /\ LET h == Asks(c) IN
       \/ /\ Len(inbox[h]) < MaxInboundQueue
          /\ inbox' = [inbox EXCEPT ![h] = Append(@, c)] /\ ToStage(c, "queued") /\ UNCHANGED slots
       \/ serving[h] = "stopped" /\ CloseInbound(c) /\ UNCHANGED inbox
    /\ UNCHANGED <<policy, hello, buffered, skeys, serving>>

\* acceptIncoming, on the actor: at a limit of its own it closes.
AcceptIncoming(h) ==
    /\ serving[h] \in {"managed", "removed"} /\ inbox[h] # <<>>
    /\ inbox' = [inbox EXCEPT ![h] = Tail(@)]
    /\ \/ ToStage(Head(inbox[h]), "served") /\ UNCHANGED slots
       \/ CloseInbound(Head(inbox[h]))
    /\ UNCHANGED <<policy, hello, buffered, skeys, serving>>
InboundEnds(c) ==
    /\ stage[c] = "served" /\ CloseInbound(c)
    /\ UNCHANGED <<policy, hello, buffered, skeys, serving, inbox>>

\* Remove, Stop, and the end of Run, which waits for the connections it serves.
Unmanage(h) ==
    /\ serving[h] = "managed" /\ serving' = [serving EXCEPT ![h] = "removed"]
    /\ UNCHANGED <<policy, hello, stage, buffered, skeys, slots, inbox>>
StopServing(h) ==
    /\ serving[h] = "removed" /\ serving' = [serving EXCEPT ![h] = "stopping"]
    /\ UNCHANGED <<policy, hello, stage, buffered, skeys, slots, inbox>>
RunEnds(h) ==
    /\ serving[h] = "stopping" /\ ~\E c \in Inbound : stage[c] = "served" /\ Asks(c) = h
    /\ serving' = [serving EXCEPT ![h] = "stopped"]
    /\ UNCHANGED <<policy, hello, stage, buffered, skeys, slots, inbox>>

-----------------------------------------------------------------------------

Hello == [from : Source, blocked : BOOLEAN, mse : BOOLEAN, along : BOOLEAN,
          hash : Served \cup {Unserved}, skey : Served \cup {Unserved}]
InboundInit ==
    /\ policy \in EncryptionPolicies
    /\ hello \in [Inbound -> {h \in Hello : (h.mse \/ h.skey = Unserved) /\ (h.blocked => ~h.mse /\ ~h.along)}]
    /\ stage = [c \in Inbound |-> "new"] /\ buffered = {}
    /\ skeys = [c \in Inbound |-> {}] /\ slots = [ip \in Source |-> 0]
    /\ serving = [h \in Served |-> "managed"] /\ inbox = [h \in Served |-> <<>>]

ConnStep(c) == ReadsPlain(c) \/ StartsMSE(c) \/ EndsMSE(c) \/ HandshakeFails(c) \/ Route(c) \/ AcceptPeer(c)
TorrentStep(h) == AcceptIncoming(h) \/ RunEnds(h)
InboundNext ==
    \/ \E c \in Inbound : HandleIncoming(c) \/ ConnStep(c) \/ InboundEnds(c)
    \/ \E h \in Served : TorrentStep(h) \/ Unmanage(h) \/ StopServing(h)

InboundFairness ==
    /\ \A c \in Inbound : WF_inboundVars(ConnStep(c)) /\ WF_inboundVars(stage[c] = "served" /\ serving[Asks(c)] = "stopping" /\ InboundEnds(c))
    /\ \A h \in Served : WF_inboundVars(TorrentStep(h))
InboundSpec == InboundInit /\ [][InboundNext]_inboundVars /\ InboundFairness

-----------------------------------------------------------------------------
(* Properties *)

\* Every slot is a connection that is not closed, whoever closed it and how often,
\* and no address has more than its share.
SlotsAreConnections == \A ip \in Source : slots[ip] = Cardinality(Holders(ip)) /\ slots[ip] <= PerIP

\* With encryption required no torrent meets a connection in the clear, and none a
\* connection that was encrypted for another torrent.
Encrypted == \A c \in Inbound : stage[c] \in {"handed", "queued", "served"} =>
    (policy = "required" => hello[c].mse) /\ (hello[c].mse => hello[c].skey = Asks(c))

\* A connection comes to its torrent, is served, or gives its slot back; or it
\* waits in the queue of an actor that has ended.
InboundSettles == \A c \in Inbound : stage[c] \in {"slot", "mse", "routing", "handed", "queued"} ~>
    \/ stage[c] \in {"served", "closed"}
    \/ stage[c] = "queued" /\ serving[Asks(c)] \in {"stopping", "stopped"}

\* "If the torrent has already stopped, conn is closed instead of leaking."
ClosedNotLeaked == [][\A c \in Inbound : stage[c] = "handed" /\ stage'[c] = "queued" => serving[Asks(c)] # "stopped"]_inboundVars

\* "Reading from it would silently skip those already-buffered bytes": no torrent
\* is handed a connection some of whose bytes are elsewhere.
NothingIsSkipped == \A c \in Inbound : stage[c] \in {"queued", "served"} => c \notin buffered

\* Slots are counted and the policy is kept, whoever closes what.
InboundInv == SlotsAreConnections /\ Encrypted
=============================================================================
