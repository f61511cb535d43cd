------------------------------ MODULE UdpTracker ------------------------------
(***************************************************************************)
(* Announces and scrapes to one UDP tracker (tracker/udp.go): a connection *)
(* identifier that calls share while it is young, and requests sent again, *)
(* each time waiting twice as long, until a reply with their transaction   *)
(* identifier comes.  A unit of time is the first wait, 15 seconds; times  *)
(* are kept as what is left of them, and an identifier as how much longer  *)
(* the tracker will honour it.                                             *)
(***************************************************************************)
EXTENDS Integers, FiniteSets

CONSTANTS UdpCall,      \* announceUDP and scrapeUDP calls
          MaxRetries,   \* udpMaxRetries
          Backoff,      \* how long each try waits: 2^n here, as the first wait is the unit
          ConnIdTTL,    \* udpConnectionIDTTL
          Honoured,     \* how long the tracker honours an identifier
          MaxMislaid       \* bound: datagrams lost or late are counted up to this many

ASSUME UdpAssumption ==
    /\ {MaxRetries, ConnIdTTL, Honoured, MaxMislaid} \subseteq Nat
    /\ Backoff \in [0..MaxMislaid -> Nat \ {0}]
    /\ \A n, k \in 0..MaxMislaid : n < k => 2 * Backoff[n] <= Backoff[k]
    /\ MaxRetries < MaxMislaid /\ Honoured < ConnIdTTL + Backoff[MaxMislaid]

VARIABLES
    cached,    \* udpConns[host]: the identifier, and what is left of its 60 seconds
    udpCall,   \* each call: where it is, tries, identifier, what is left of its wait, which reply it took
    dgram,     \* datagrams under way: the call they belong to, what they are, identifier
    cancelled, \* calls whose context is done, still reading
    mislaid    \* counter for the bound

udpVars == <<cached, udpCall, dgram, cancelled, mislaid>>

NotCalling == [at |-> "idle", tries |-> 0, id |-> 0, wait |-> 0, took |-> "none"]
Mislays == mislaid' = IF mislaid < MaxMislaid THEN mislaid + 1 ELSE mislaid
Calling(c) == udpCall[c].at \in {"connect", "ask"}

\* udpRoundTrip: one more try, which waits twice as long as the one before.
Request(c, k) == [of |-> c, is |-> k.at, id |-> k.id]
Sending(c, k, rest) == /\ udpCall' = [udpCall EXCEPT ![c] = [k EXCEPT !.tries = @ + 1, !.wait = Backoff[k.tries]]]
                       /\ dgram' = rest \cup {Request(c, k)}
\* Its socket is closed: what is still under way is for nobody.
Closes(c, at, took) == /\ udpCall' = [udpCall EXCEPT ![c] = [NotCalling EXCEPT !.at = at, !.took = took]]
                       /\ dgram' = {d \in dgram : d.of # c}
\* After the context is done nothing is sent: the watcher's deadline is for writes too.
SendsOn(c, k, rest) == IF c \in cancelled THEN Closes(c, "cancelled", "none") ELSE Sending(c, k, rest)
Again(c, rest) ==
    IF c \in cancelled \/ udpCall[c].tries <= MaxRetries THEN SendsOn(c, udpCall[c], rest) ELSE Closes(c, "failed", "none")

\* udpConnectionID: what is cached and not expired, or a connect first.  Mutant: it
\* never expires.
FreshForever == cached # NotCalling
Fresh == cached # NotCalling /\ cached.wait > 0
BeginCall(c) ==
    /\ udpCall[c].at = "idle"
    /\ Sending(c, IF Fresh THEN [NotCalling EXCEPT !.at = "ask", !.id = cached.id] ELSE [NotCalling EXCEPT !.at = "connect"], dgram)
    /\ UNCHANGED <<cached, cancelled, mislaid>>

\* A reply: of the call's present transaction, or of the one before it, a
\* connect that was answered twice.
SameTransaction(c, d) == (d.is = "granted") = (udpCall[c].at = "connect")
ReadReply(c, d) ==
    /\ Calling(c) /\ d.of = c /\ d.is \in {"granted", "answer", "refusal"}
    /\ \/ ~SameTransaction(c, d) /\ Again(c, dgram \ {d}) /\ UNCHANGED cached
       \/ /\ SameTransaction(c, d) /\ udpCall[c].at = "connect"
          /\ cached' = [NotCalling EXCEPT !.at = "ask", !.id = d.id, !.wait = ConnIdTTL]
          /\ SendsOn(c, [NotCalling EXCEPT !.at = "ask", !.id = d.id], dgram \ {d})
       \/ /\ SameTransaction(c, d) /\ udpCall[c].at = "ask" /\ UNCHANGED cached
          /\ Closes(c, IF d.is = "refusal" THEN "failed" ELSE "done", d.is)
    /\ UNCHANGED <<cancelled, mislaid>>

\* No reply within this window: again, or no more.
TryAgain(c) == Calling(c) /\ udpCall[c].wait = 0 /\ Again(c, dgram) /\ UNCHANGED <<cached, cancelled, mislaid>>

\* The context is done: the watcher's SetDeadline ends the read at once, unless
\* it comes between the write and SetReadDeadline, which undoes it: then the call
\* reads on until a reply or the end of this window.
FreshlySent(c) == udpCall[c].wait = Backoff[udpCall[c].tries - 1]
CancelCall(c) ==
    /\ Calling(c) /\ c \notin cancelled
    /\ \/ Closes(c, "cancelled", "none") /\ UNCHANGED cancelled
       \/ FreshlySent(c) /\ cancelled' = cancelled \cup {c} /\ UNCHANGED <<udpCall, dgram>>
    /\ UNCHANGED <<cached, mislaid>>

\* The tracker, the network and time.
Replied(d, reply) == dgram' = (dgram \ {d}) \cup {reply} /\ UNCHANGED <<cached, udpCall, cancelled, mislaid>>
Grants(d) == d.is = "connect" /\ Replied(d, [of |-> d.of, is |-> "granted", id |-> Honoured])
Answers(d) == d.is = "ask" /\ Replied(d, [of |-> d.of, is |-> IF d.id > 0 THEN "answer" ELSE "refusal", id |-> 0])
LoseDgram(d) ==
    /\ mislaid < MaxMislaid /\ Mislays
    /\ dgram' = dgram \ {d} /\ UNCHANGED <<cached, udpCall, cancelled>>
Less(n) == IF n = 0 THEN 0 ELSE n - 1
Older(k) == [k EXCEPT !.id = Less(@), !.wait = Less(@)]
TimePasses ==
    /\ \A c \in UdpCall : Calling(c) => udpCall[c].wait > 0
    /\ IF dgram = {} THEN UNCHANGED mislaid ELSE Mislays
    /\ cached' = Older(cached) /\ udpCall' = [c \in UdpCall |-> Older(udpCall[c])]
    /\ dgram' = {[d EXCEPT !.id = Less(@)] : d \in dgram} /\ UNCHANGED cancelled

-----------------------------------------------------------------------------

UdpInit == cached = NotCalling /\ udpCall = [c \in UdpCall |-> NotCalling] /\ dgram = {} /\ cancelled = {} /\ mislaid = 0

ClientStep(c) == TryAgain(c) \/ \E d \in dgram : ReadReply(c, d)
UdpNext == \/ TimePasses
           \/ \E c \in UdpCall : BeginCall(c) \/ ClientStep(c) \/ CancelCall(c)
           \/ \E d \in dgram : Grants(d) \/ Answers(d) \/ LoseDgram(d)
UdpSpec == /\ UdpInit /\ [][UdpNext]_udpVars
           /\ WF_udpVars(TimePasses) /\ \A c \in UdpCall : WF_udpVars(ClientStep(c))

-----------------------------------------------------------------------------
(* Properties *)

\* What a call returns is the reply to what it asked, not to the connect before it.
AnswerIsOwn == \A c \in UdpCall : udpCall[c].at = "done" => udpCall[c].took = "answer"

(***************************************************************************)
(* A call fails only when the network did: it runs out of tries only when  *)
(* more datagrams were mislaid than it has tries, and its identifier is    *)
(* refused only when the waits for those mislaid, together less than the   *)
(* wait that would follow, may have used up what the tracker honours       *)
(* beyond the 60 seconds.                                                  *)
(***************************************************************************)
FailsOnlyByLoss ==
    \A c \in UdpCall : udpCall[c].at = "failed" =>
        IF udpCall[c].took = "refusal" THEN Backoff[mislaid] > Honoured - ConnIdTTL ELSE mislaid > MaxRetries

\* "Beyond n=8 the spec says to give up": a call ends, whatever the network does.
UdpCallsEnd == \A c \in UdpCall : Calling(c) ~> ~Calling(c)

\* "Stale or unrelated reply; keep waiting on this socket."
KeepsWaiting == [][\A c \in UdpCall : Calling(c) /\ udpCall'[c].at = udpCall[c].at /\ udpCall'[c].tries > udpCall[c].tries
                       => udpCall[c].wait = 0]_udpVars

\* A call gets its own answer, and fails only for want of one.
UdpInv == AnswerIsOwn /\ FailsOnlyByLoss
=============================================================================
