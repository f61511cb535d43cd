--------------------------------- MODULE Dht ---------------------------------
(***************************************************************************)
(* The DHT (dht/node.go, table.go, lookup.go, token.go): nodes that run    *)
(* this code answer each other's queries, and some of them look up one     *)
(* infohash and announce themselves.  A datagram may be lost or late; the  *)
(* clock is coarse: one tick is tokenRotateEvery.                          *)
(***************************************************************************)
EXTENDS Integers, Sequences, FiniteSets, SequencesExt, FiniteSetsExt

CONSTANTS Width,       \* 160 in the code: identifiers have this many bits
          NodeId,      \* the nodes, numbers of that width
          Searcher,    \* those of them that look the infohash up
          InfoHash,    \* a number of that width
          Known,       \* each node's routing table at the start, a set
          Storing,     \* nodes that begin with a peer stored
          OldPeer,     \* that peer
          Silent,      \* nodes that have gone
          BucketSize, LookupAlpha, MaxLookupRounds, BadAfterFailures,
          MaxLost, MaxTicks   \* bounds

ASSUME DhtAssumption ==
    /\ {Width, BucketSize, LookupAlpha, BadAfterFailures} \subseteq Nat \ {0}
    /\ {MaxLost, MaxTicks, MaxLookupRounds} \subseteq Nat
    /\ NodeId \cup {InfoHash} \subseteq 0..2^Width - 1 /\ IsFiniteSet(NodeId)
    /\ Searcher \subseteq NodeId \ Silent /\ Storing \subseteq NodeId /\ Known \in [NodeId -> SUBSET NodeId]

VARIABLES
    table,   \* each node's buckets: sequences of [id, fails]
    stored,  \* each node's peers of the infohash
    secrets, \* each node's tokenIssuer: when it last rotated, when the one before began
    search,  \* each searcher's FindPeers
    dgrams,  \* datagrams under way
    ticks, lost \* the clock, and a counter for its bound

dhtVars == <<table, stored, secrets, search, dgrams, ticks, lost>>

\* xor and less: a is closer to t than b when it agrees with t where a and b first differ.
Prefix(a, bits) == a \div 2^bits
CommonPrefixLen == [a \in 0..2^Width - 1, b \in 0..2^Width - 1 |-> Width - Min({n \in 0..Width : Prefix(a, n) = Prefix(b, n)})]
Bit(x, n) == Prefix(x, n) % 2
Closer(t, a, b) == a # b /\ LET n == Width - CommonPrefixLen[a, b] - 1 IN Bit(a, n) = Bit(t, n)
Closest(t, ids) == {a \in ids : Cardinality({b \in ids : Closer(t, b, a)}) < BucketSize}

BucketIndex(self, id) == IF self = id THEN Width - 1 ELSE CommonPrefixLen[self, id]
ContactsIn(t, n) == UNION {{t[n][x][i].id : i \in DOMAIN t[n][x]} : x \in 0..Width - 1}
Contacts(n) == ContactsIn(table, n)

\* bucket.insert, MarkFailed.  Mutant: one failure is enough.
HasFailed(c) == c.fails > 0
Bad(c) == c.fails >= BadAfterFailures
FirstBad(b, i) == Bad(b[i]) /\ \A j \in 1..i - 1 : ~Bad(b[j])
BucketInsert(b, id) ==
    LET new == [id |-> id, fails |-> 0] IN
    IF \E i \in DOMAIN b : b[i].id = id THEN Append(RemoveAt(b, CHOOSE i \in DOMAIN b : b[i].id = id), new)
    ELSE IF Len(b) < BucketSize THEN Append(b, new)
    ELSE IF \E i \in DOMAIN b : FirstBad(b, i) THEN [b EXCEPT ![CHOOSE i \in DOMAIN b : FirstBad(b, i)] = new]
    ELSE b
Insert(t, self, id) == IF id = self THEN t ELSE [t EXCEPT ![self][BucketIndex(self, id)] = BucketInsert(@, id)]
Failed(c) == [c EXCEPT !.fails = IF Bad(c) THEN @ ELSE @ + 1]
MarkFailed(t, self, ids) ==
    [t EXCEPT ![self] = [x \in DOMAIN @ |-> [i \in DOMAIN @[x] |-> IF @[x][i].id \in ids THEN Failed(@[x][i]) ELSE @[x][i]]]]

\* tokenIssuer: a token is the age of the secret it was made with; the sender's
\* address is the asker's.  maybeRotate turns over once, however late it is called.
Rotated(n) == IF ticks > secrets[n].rotated THEN [rotated |-> ticks, current |-> ticks, prev |-> secrets[n].current] ELSE secrets[n]
ValidToken(n, token) == token \in {Rotated(n).current, Rotated(n).prev}

---------------------------------------------------------------------------
Lookup(s) == search[s]
Listed(s) == {n \in NodeId : Lookup(s).list[n] # "unheard"}
Top(s) == Closest(InfoHash, Listed(s))
Query(s, m, kind, token) == [kind |-> kind, from |-> s, to |-> m, token |-> token]
Begin(s) == [Lookup(s) EXCEPT !.phase = "rounds", !.after = {t \in Searcher : Lookup(t).phase = "done"},
                                !.list = [n \in NodeId |-> IF n \in Closest(InfoHash, Contacts(s)) THEN "new" ELSE "unheard"]]

\* FindPeers, and iterativeLookup's first round.
StartLookup(s) ==
    /\ Lookup(s).phase = "idle"
    /\ search' = [search EXCEPT ![s] = Begin(s)]
    /\ UNCHANGED <<table, stored, secrets, dgrams, ticks, lost>>

\* The head of a round: the alpha closest not asked yet; none ends the lookup.
Unasked(s) == {n \in Top(s) : Lookup(s).list[n] = "new"}
NextRound(s) ==
    LET next == {n \in Unasked(s) : Cardinality({m \in Unasked(s) : Closer(InfoHash, m, n)}) < LookupAlpha} IN
    /\ Lookup(s).phase = "rounds" /\ Lookup(s).waiting = {}
    /\ IF next = {} \/ Lookup(s).round = MaxLookupRounds
       THEN search' = [search EXCEPT ![s].phase = "announce"] /\ UNCHANGED dgrams
       ELSE /\ search' = [search EXCEPT ![s].waiting = next, ![s].round = @ + 1,
                                        ![s].list = [n \in NodeId |-> IF n \in next THEN "asked" ELSE @[n]]]
            /\ dgrams' = dgrams \cup {Query(s, n, "get_peers", 0) : n \in next}
    /\ UNCHANGED <<table, stored, secrets, ticks, lost>>

\* readLoop and handleQuery of the node asked.
Reply(q, token, peers, nodes) == [kind |-> "reply", from |-> q.to, to |-> q.from, of |-> q.kind, token |-> token, peers |-> peers, nodes |-> nodes]
Serve(q) ==
    LET n == q.to
        seen == Insert(table, n, q.from)
        nodes == IF stored[n] = {} THEN Closest(InfoHash, ContactsIn(seen, n)) ELSE {}
        answer(r) == dgrams' = (dgrams \ {q}) \cup {r}
    IN
    /\ q \in dgrams /\ q.kind # "reply" /\ n \notin Silent
    /\ secrets' = [secrets EXCEPT ![n] = Rotated(n)]
    /\ \/ q.kind = "get_peers" /\ answer(Reply(q, Rotated(n).current, stored[n], nodes)) /\ table' = seen /\ UNCHANGED stored
       \/ q.kind = "announce_peer" /\ ValidToken(n, q.token)
          /\ answer(Reply(q, 0, {}, {})) /\ table' = seen /\ stored' = [stored EXCEPT ![n] = @ \cup {q.from}]
       \/ q.kind = "announce_peer" /\ ~ValidToken(n, q.token)
          /\ answer([Reply(q, 0, {}, {}) EXCEPT !.of = "error"]) /\ UNCHANGED <<table, stored>>
    /\ UNCHANGED <<search, ticks, lost>>

\* handleMessage and getPeers: an answer nobody waits for any more, by its
\* transaction, still names a contact.
Awaited(s, r) == r.from \in Lookup(s).waiting /\ (r.of = "get_peers" <=> Lookup(s).phase = "rounds")
Merged(l, r) == [n \in NodeId |-> IF l.list[n] = "unheard" /\ n \in r.nodes THEN "new" ELSE l.list[n]]
WithAnswer(l, r) ==
    [l EXCEPT !.waiting = @ \ {r.from}, !.list = Merged(l, r), !.answered = @ \cup {r.from}, !.found = @ \cup r.peers,
              !.targets = IF r.peers = {} THEN @ ELSE Append(@, [node |-> r.from, token |-> r.token])]
Deliver(r) ==
    LET s == r.to IN
    /\ r \in dgrams /\ r.kind = "reply"
    /\ dgrams' = dgrams \ {r}
    /\ table' = IF r.of = "error" THEN table ELSE Insert(table, s, r.from)
    /\ search' = IF ~Awaited(s, r) THEN search
                 ELSE IF r.of = "get_peers" THEN [search EXCEPT ![s] = WithAnswer(@, r)]
                 ELSE [search EXCEPT ![s].waiting = {}, ![s].targets = Tail(@)]
    /\ UNCHANGED <<stored, secrets, ticks, lost>>

\* FindPeers' last loop: one announce_peer at a time.
Announce(s) ==
    LET l == Lookup(s) IN
    /\ l.phase = "announce" /\ l.waiting = {}
    /\ IF l.targets = <<>> THEN search' = [search EXCEPT ![s].phase = "done"] /\ UNCHANGED dgrams
       ELSE LET t == Head(l.targets) IN
            /\ search' = [search EXCEPT ![s].waiting = {t.node}, ![s].told = @ \cup {t.node}]
            /\ dgrams' = dgrams \cup {Query(s, t.node, "announce_peer", t.token)}
    /\ UNCHANGED <<table, stored, secrets, ticks, lost>>

\* sendQuery's queryTimeout: no answer will come, or it is late.  Mutant: no timer.
UnderWay(s, n) == \E d \in dgrams : {d.from, d.to} = {s, n} /\ ~(d.to \in Silent)
AbandonedNever(s, n) == UNCHANGED <<search, table>>
Abandoned(s, n) ==
    IF Lookup(s).phase = "rounds"
    THEN search' = [search EXCEPT ![s].waiting = @ \ {n}] /\ table' = MarkFailed(table, s, {n})
    ELSE search' = [search EXCEPT ![s].waiting = {}, ![s].targets = Tail(@)] /\ UNCHANGED table
Timeout(s, n) ==
    /\ n \in Lookup(s).waiting
    /\ IF UnderWay(s, n) THEN lost < MaxLost /\ lost' = lost + 1 ELSE UNCHANGED lost
    /\ Abandoned(s, n)
    /\ UNCHANGED <<stored, secrets, dgrams, ticks>>
LoseDatagram(d) ==
    /\ d \in dgrams /\ lost < MaxLost
    /\ lost' = lost + 1 /\ dgrams' = dgrams \ {d}
    /\ UNCHANGED <<table, stored, secrets, search, ticks>>

\* The torrent stops: every query under way fails and counts against its contact,
\* and the announces are sent all the same, but not waited for.
CancelLookup(s) ==
    LET l == Lookup(s) IN
    /\ l.phase \in {"rounds", "announce"} /\ ~l.cancelled
    /\ search' = [search EXCEPT ![s].phase = "done", ![s].cancelled = TRUE, ![s].waiting = {}, ![s].targets = <<>>,
                                ![s].told = @ \cup {l.targets[i].node : i \in DOMAIN l.targets}]
    /\ table' = IF l.phase = "rounds" THEN MarkFailed(table, s, l.waiting) ELSE table
    /\ dgrams' = dgrams \cup {Query(s, l.targets[i].node, "announce_peer", l.targets[i].token) : i \in DOMAIN l.targets}
    /\ UNCHANGED <<stored, secrets, ticks, lost>>

\* pingQuestionable: the contact that has failed answers, or fails again.
PingQuestionable(s, x, i) ==
    LET c == table[s][x][i] IN
    /\ c.fails > 0 /\ ~Bad(c)
    /\ table' = IF c.id \in Silent THEN MarkFailed(table, s, {c.id}) ELSE Insert(table, s, c.id)
    /\ UNCHANGED <<stored, secrets, search, dgrams, ticks, lost>>

DhtTick == ticks < MaxTicks /\ ticks' = ticks + 1 /\ UNCHANGED <<table, stored, secrets, search, dgrams, lost>>

---------------------------------------------------------------------------
\* newTable and loadState: as many contacts as a bucket has room for, in the order of the file.
Loads(n, x) ==
    LET ids == SetToSeq({a \in Known[n] \ {n} : BucketIndex(n, a) = x}) IN
    [i \in 1..Min({Len(ids), BucketSize}) |-> [id |-> ids[i], fails |-> 0]]
DhtInit ==
    /\ table = [n \in NodeId |-> [x \in 0..Width - 1 |-> Loads(n, x)]]
    /\ stored = [n \in NodeId |-> IF n \in Storing THEN {OldPeer} ELSE {}]
    /\ secrets = [n \in NodeId |-> [rotated |-> 0, current |-> 0, prev |-> -1]]
    /\ search = [s \in Searcher |-> [phase |-> "idle", list |-> [n \in NodeId |-> "unheard"], waiting |-> {}, round |-> 0, found |-> {},
                                     targets |-> <<>>, answered |-> {}, told |-> {}, after |-> {}, cancelled |-> FALSE]]
    /\ dgrams = {} /\ ticks = 0 /\ lost = 0

SearcherNext(s) ==
    \/ StartLookup(s) \/ NextRound(s) \/ Announce(s) \/ CancelLookup(s)
    \/ \E n \in NodeId : Timeout(s, n)
    \/ \E x \in 0..Width - 1 : \E i \in DOMAIN table[s][x] : PingQuestionable(s, x, i)
DhtNext == (\E s \in Searcher : SearcherNext(s)) \/ (\E d \in dgrams : Serve(d) \/ Deliver(d) \/ LoseDatagram(d)) \/ DhtTick

\* Goroutines run and timers fire; datagrams are handled or lost.
DhtFairness ==
    /\ \A s \in Searcher : WF_dhtVars(NextRound(s)) /\ WF_dhtVars(Announce(s)) /\ \A n \in NodeId : WF_dhtVars(Timeout(s, n))
    /\ WF_dhtVars(\E d \in dgrams : Serve(d)) /\ WF_dhtVars(\E d \in dgrams : Deliver(d))
DhtSpec == DhtInit /\ [][DhtNext]_dhtVars /\ DhtFairness

---------------------------------------------------------------------------
\* Type correctness: a bucket never outgrows its size, holds a node once and
\* only where its distance says, and never the node itself.
DhtTypeOK ==
    /\ \A n \in NodeId : \A x \in 0..Width - 1 :
          LET b == table[n][x] IN
          /\ Len(b) <= BucketSize /\ IsInjective([i \in DOMAIN b |-> b[i].id])
          /\ \A i \in DOMAIN b : b[i].id # n /\ BucketIndex(n, b[i].id) = x /\ b[i].fails \in 0..BadAfterFailures
    /\ \A s \in Searcher : Lookup(s).waiting \subseteq NodeId /\ Lookup(s).round \in 0..MaxLookupRounds

\* Whoever looks the infohash up after another client has announced itself finds
\* that client at every node the two have in common, however the secrets turn over
\* between a token and its announce.
LaterSearchersFindUs ==
    lost = 0 /\ ticks <= 1 =>
        \A s \in Searcher : \A t \in Lookup(s).after :
            Lookup(s).phase = "done" /\ ~Lookup(t).cancelled /\ Lookup(s).answered \cap Lookup(t).told # {} => t \in Lookup(s).found

\* A contact that has not failed its queries is never given up for a newcomer.
KeepsGoodContacts ==
    \A n \in NodeId : \A x \in 0..Width - 1 : \A i \in DOMAIN table[n][x] :
        table[n][x][i].fails = BadAfterFailures \/ table[n][x][i].id \in ContactsIn(table', n)

\* Every lookup comes to an end, whoever answers.
LookupEnds == \A s \in Searcher : (Lookup(s).phase = "rounds") ~> (Lookup(s).phase = "done")

\* FindPeers' comment: it announces to every node whose response carried a valid
\* token.  Only those that already gave peers are told.
RespondersAreTold ==
    \A s \in Searcher : Lookup(s).phase = "done" /\ ~Lookup(s).cancelled => Lookup(s).answered \subseteq Lookup(s).told

\* tokenIssuer's comment: a token is good for at most two turns.
TokensExpire == [][\A q \in dgrams : q.kind = "announce_peer" /\ q \notin dgrams' /\ stored' # stored => ticks - q.token <= 2]_dhtVars

\* The routing tables stay sound and keep good contacts, and what is announced is found.
DhtKeeps == [](DhtTypeOK /\ LaterSearchersFindUs) /\ [][table' # table => KeepsGoodContacts]_table
=============================================================================
