------------------------------ MODULE PeerProofs -------------------------------
(***************************************************************************)
(* What a torrent and its peers do with each other, for every number of    *)
(* peers, connections and pieces: super-seeding (SuperSeed), the fetch of  *)
(* the metadata of a magnet link (Metadata) and the sessions (Session).    *)
(***************************************************************************)
EXTENDS SuperSeed, Metadata, Session, FiniteSetTheorems, SequenceTheorems, TLAPS

-----------------------------------------------------------------------------
(* Super-seeding *)

\* The connections that may still be told of pieces.
Live == {"dialing", "up", "registered"}

\* The types, the queues included.
SeedTypes ==
    /\ SuperSeedTypeOK
    /\ seedReports \in [Peers -> Seq(Pieces \cup {Nothing})] /\ seedQueue \in [Peers -> Seq(Pieces)]
    /\ bitfield \in [Peers -> SUBSET Pieces] /\ unsent \in [Peers -> SUBSET Pieces]

\* An address has one live connection.
OneLive == \A c, d \in Peers : AddrOf(c) = AddrOf(d) /\ link[c] \in Live /\ link[d] \in Live => c = d

\* A connection that has not been registered has neither queue nor reports, and one
\* not yet dialled has no piece to start with.
Fresh ==
    \A c \in Peers :
        /\ link[c] = "none" => baked[c] = Nothing
        /\ link[c] \in {"none", "dialing"} => seedQueue[c] = <<>> /\ seedReports[c] = <<>> /\ bitfield[c] = {}

\* A connection that began without a piece of its own was told of all of them.
Informed ==
    \A c \in Peers : link[c] \in {"up", "registered"} /\ baked[c] = Nothing => Pieces \subseteq knows[c]

\* What a peer says it has, it has.
ReportsAreHeld ==
    \A c \in Peers :
        /\ bitfield[c] \subseteq holds[AddrOf(c)]
        /\ \A i \in DOMAIN seedReports[c] : seedReports[c][i] \in bitfield[c] \cup {Nothing}

\* What the peer was told of, or will be when its queue is sent.
Told(c) == knows[c] \cup SeedQueued(c)

\* With no pause, a peer that began with one piece was told of what it reported and
\* of the piece assigned to its address, nothing else.
OnePieceOut ==
    pauses = 0 =>
        /\ seeding /\ \A c \in Peers : link[c] \notin {"forgotten", "stray"}
        /\ superSeed # Nothing =>
               \A c \in Peers : baked[c] # Nothing =>
                   /\ link[c] = "dialing" => Assigned(c) = baked[c]
                   /\ link[c] \in {"up", "registered"} => Told(c) \ bitfield[c] \subseteq {Assigned(c)}

\* The piece assigned to an address was told to its connection, or the queue had no
\* room for it.
AssignedIsTold ==
    \A c \in Peers : baked[c] # Nothing /\ Assigned(c) # Nothing /\ AddrOf(c) \notin crossed =>
        /\ link[c] = "dialing" => Assigned(c) = baked[c]
        /\ link[c] \in {"up", "registered"} => Assigned(c) \in Told(c) \cup unsent[c]

\* When super-seeding is over, the connections that the sweep reached know of every
\* piece, or the queue had no room.
SweptAreTold ==
    superSeed = Nothing =>
        \A c \in Peers \ caught :
            /\ link[c] = "dialing" => baked[c] = Nothing
            /\ link[c] \in {"up", "registered"} => Pieces \subseteq Told(c) \cup unsent[c]

\* The inductive invariant.
SeedIInv ==
    /\ SeedTypes /\ OneLive /\ Fresh /\ Informed /\ ReportsAreHeld /\ ReleasedIsHeld
    /\ OnePieceOut /\ AssignedIsTold /\ SweptAreTold

-----------------------------------------------------------------------------

\* The number of pieces of S below p.
Rank(S, p) == Cardinality({q \in S : q < p})

\* What the proofs use of the constants.
LEMMA SeedConstants ==
    /\ Pieces \in SUBSET Nat /\ IsFiniteSet(Pieces) /\ Nothing \notin Pieces
    /\ \A s \in SeedState : s # Nothing
    /\ SeedPieces \in Nat \ {0} /\ SeedQueueSize \in Nat \ {0} /\ SeedPauses \in Nat
    /\ \A c \in Peers : AddrOf(c) \in SeedAddr
<1>1. IsFiniteSet(Pieces)
  BY SuperSeedAssumption, FS_Interval DEF Pieces
<1>2. QED
  BY <1>1, SuperSeedAssumption DEF Pieces, AddrOf

\* Ranks are in range and ascend: they stand in for an induction over the set.
LEMMA RankOrders ==
    ASSUME NEW S \in SUBSET Pieces
    PROVE  /\ IsFiniteSet(S) /\ Cardinality(S) \in Nat
           /\ \A p \in S : Rank(S, p) \in 0..(Cardinality(S) - 1)
           /\ \A p \in S, q \in S : p < q => Rank(S, p) < Rank(S, q)
<1>1. IsFiniteSet(S) /\ Cardinality(S) \in Nat
  BY SeedConstants, FS_Subset, FS_CardinalityType
<1>2. ASSUME NEW p \in S PROVE Rank(S, p) \in Nat /\ Rank(S, p) < Cardinality(S)
  <2>1. {q \in S : q < p} \in SUBSET S /\ {q \in S : q < p} # S
    BY SeedConstants
  <2>2. QED
    BY <1>1, <2>1, FS_Subset, FS_CardinalityType DEF Rank
<1>3. ASSUME NEW p \in S, NEW q \in S, p < q PROVE Rank(S, p) < Rank(S, q)
  <2> DEFINE A == {r \in S : r < p}
             B == {r \in S : r < q}
  <2>1. p \in Nat /\ q \in Nat /\ \A r \in S : r \in Nat
    BY SeedConstants
  <2>2. A \in SUBSET B
    <3>1. \A k \in S : k < p => k < q
      BY <2>1, <1>3
    <3>2. QED
      BY <3>1
  <2>3. p \in B /\ p \notin A
    BY <2>1, <1>3
  <2>4. IsFiniteSet(B) /\ Cardinality(B) \in Nat
    <3>1. B \in SUBSET S
      OBVIOUS
    <3>2. QED
      BY <1>1, <3>1, FS_Subset, FS_CardinalityType
  <2> HIDE DEF A, B
  <2>5. Cardinality(A) <= Cardinality(B) /\ Cardinality(A) # Cardinality(B) /\ Cardinality(A) \in Nat
    BY <2>2, <2>3, <2>4, FS_Subset, FS_CardinalityType
  <2>6. Cardinality(A) < Cardinality(B)
    BY <2>4, <2>5
  <2>7. QED
    BY <2>6 DEF A, B, Rank
<1>4. QED
  BY <1>1, <1>2, <1>3

\* There is an ascending list of every set of pieces, and it has them all.
LEMMA AscendingIsASeq ==
    ASSUME NEW S \in SUBSET Pieces
    PROVE  /\ Ascending(S) \in Seq(Pieces) /\ Len(Ascending(S)) = Cardinality(S)
           /\ {Ascending(S)[i] : i \in DOMAIN Ascending(S)} = S
<1> DEFINE n == Cardinality(S)
           r == [p \in S |-> Rank(S, p) + 1]
<1>1. IsFiniteSet(S) /\ n \in Nat
  BY RankOrders
<1>2. \A p \in S : p \in Nat
  BY SeedConstants
<1>3. r \in [S -> 1..n] /\ \A p \in S, q \in S : p < q => r[p] < r[q]
  BY <1>1, RankOrders
<1> HIDE DEF r
<1>4. r \in Injection(S, 1..n)
  BY <1>2, <1>3 DEF Injection, IsInjective
<1>5. IsFiniteSet(1..n) /\ Cardinality(1..n) = n
  BY <1>1, FS_Interval
<1>6. r \in Surjection(S, 1..n)
  BY <1>4, <1>5, FS_Injection
<1> DEFINE t == [i \in 1..n |-> CHOOSE p \in S : r[p] = i]
<1>7. \A i \in 1..n : t[i] \in S /\ r[t[i]] = i
  BY <1>6 DEF Surjection
<1>8. t \in [1..n -> S]
  BY <1>7
<1>9. \A i, j \in DOMAIN t : i < j => t[i] < t[j]
  <2>1. SUFFICES ASSUME NEW i \in 1..n, NEW j \in 1..n, i < j PROVE t[i] < t[j]
    OBVIOUS
  <2>2. t[i] \in S /\ t[j] \in S /\ r[t[i]] = i /\ r[t[j]] = j
    BY <1>7
  <2> HIDE DEF t
  <2>3. t[i] \in Nat /\ t[j] \in Nat
    BY <1>2, <2>2
  <2>4. ~ (t[j] < t[i]) /\ t[i] # t[j]
    BY <2>1, <2>2, <1>3
  <2>5. QED
    BY <2>3, <2>4
<1> HIDE DEF t
<1> DEFINE s == Ascending(S)
<1>10. s \in [1..n -> S] /\ \A i, j \in DOMAIN s : i < j => s[i] < s[j]
  BY <1>8, <1>9 DEF Ascending
<1> HIDE DEF s
<1>11. s \in Injection(1..n, S)
  BY <1>2, <1>10 DEF Injection, IsInjective
<1>12. s \in Surjection(1..n, S)
  BY <1>11, <1>5, <1>1, FS_Injection
<1>13. s \in Seq(Pieces) /\ Len(s) = n
  BY <1>1, <1>10
<1>14. {s[i] : i \in DOMAIN s} = S
  BY <1>10, <1>12 DEF Surjection
<1>15. QED
  BY <1>13, <1>14 DEF s

\* What fits, fits.
LEMMA FittingFits ==
    ASSUME NEW c \in Peers, NEW S \in SUBSET Pieces, Room(c) \in Nat
    PROVE  Fitting(c, S) \in SUBSET S /\ Cardinality(Fitting(c, S)) \in Nat /\ Cardinality(Fitting(c, S)) <= Room(c)
<1> DEFINE F == Fitting(c, S)
           r == [p \in F |-> Rank(S, p) + 1]
<1>1. F \in SUBSET S /\ IsFiniteSet(F) /\ Cardinality(F) \in Nat
  BY RankOrders, FS_Subset, FS_CardinalityType DEF Fitting
<1>2. \A p \in F : Rank(S, p) \in Nat /\ Rank(S, p) < Room(c)
  BY <1>1, RankOrders DEF Fitting, Rank
<1>3. \A p \in F, q \in F : p < q => Rank(S, p) < Rank(S, q)
  BY <1>1, RankOrders
<1>4. \A p \in F : p \in Nat
  BY <1>1, SeedConstants
<1> HIDE DEF F
<1>5. r \in [F -> 1..Room(c)]
  BY <1>2
<1>6. r \in Injection(F, 1..Room(c))
  BY <1>2, <1>3, <1>4, <1>5 DEF Injection, IsInjective
<1>7. IsFiniteSet(1..Room(c)) /\ Cardinality(1..Room(c)) = Room(c)
  BY FS_Interval
<1>8. Cardinality(F) <= Room(c)
  BY <1>6, <1>7, FS_Injection
<1>9. QED
  BY <1>1, <1>8 DEF F

\* What was sent is queued, or noted as dropped, and the queue keeps its size.
LEMMA SendHavesQueues ==
    ASSUME SeedTypes, NEW what \in [Peers -> SUBSET Pieces], SendHaves(what)
    PROVE  /\ seedQueue' \in [Peers -> Seq(Pieces)] /\ unsent' \in [Peers -> SUBSET Pieces]
           /\ \A c \in Peers :
                 /\ Len(seedQueue'[c]) <= SeedQueueSize
                 /\ SeedQueued(c) \subseteq SeedQueued(c)' /\ SeedQueued(c)' \subseteq SeedQueued(c) \cup what[c]
                 /\ unsent[c] \subseteq unsent'[c] /\ what[c] \subseteq SeedQueued(c)' \cup unsent'[c]
                 /\ ~Serving(c) => seedQueue'[c] = seedQueue[c]
<1> SUFFICES ASSUME NEW c \in Peers
    PROVE  /\ seedQueue'[c] \in Seq(Pieces) /\ unsent'[c] \in SUBSET Pieces
           /\ Len(seedQueue'[c]) <= SeedQueueSize
           /\ SeedQueued(c) \subseteq SeedQueued(c)' /\ SeedQueued(c)' \subseteq SeedQueued(c) \cup what[c]
           /\ unsent[c] \subseteq unsent'[c] /\ what[c] \subseteq SeedQueued(c)' \cup unsent'[c]
           /\ ~Serving(c) => seedQueue'[c] = seedQueue[c]
  BY DEF SendHaves
<1> DEFINE F == Fitting(c, what[c])
           q == seedQueue[c]
           t == Ascending(F)
<1>1. q \in Seq(Pieces) /\ Len(q) \in Nat /\ Len(q) <= SeedQueueSize /\ DOMAIN q = 1..Len(q)
  BY LenProperties DEF SeedTypes, SuperSeedTypeOK
<1>2. /\ Room(c) \in Nat /\ (Serving(c) => Room(c) = SeedQueueSize - Len(q))
      /\ (~Serving(c) => Room(c) = 0)
  <2>1. SeedQueueSize \in Nat
    BY SeedConstants
  <2> HIDE DEF q
  <2>2. SeedQueueSize - Len(q) \in Nat
    BY <1>1, <2>1
  <2>3. QED
    BY <2>2 DEF Room, q
<1>3. what[c] \in SUBSET Pieces
  OBVIOUS
<1>4. F \in SUBSET what[c] /\ Cardinality(F) \in Nat /\ Cardinality(F) <= Room(c) /\ IsFiniteSet(F)
  BY <1>2, <1>3, FittingFits, RankOrders
<1>5. t \in Seq(Pieces) /\ Len(t) = Cardinality(F) /\ {t[i] : i \in DOMAIN t} = F /\ DOMAIN t = 1..Len(t)
  BY <1>3, <1>4, AscendingIsASeq, LenProperties
<1>6. seedQueue'[c] = q \o t /\ unsent'[c] = unsent[c] \cup (what[c] \ F)
  BY DEF SendHaves
<1> HIDE DEF F, q, t
<1>7. /\ q \o t \in Seq(Pieces) /\ Len(q \o t) = Len(q) + Len(t)
      /\ \A i \in 1..(Len(q) + Len(t)) : (q \o t)[i] = IF i <= Len(q) THEN q[i] ELSE t[i - Len(q)]
  BY <1>1, <1>5, ConcatProperties
<1>8. DOMAIN (q \o t) = 1..(Len(q) + Len(t))
  BY <1>7, LenProperties
<1>9. {(q \o t)[i] : i \in DOMAIN (q \o t)} = {q[i] : i \in DOMAIN q} \cup {t[i] : i \in DOMAIN t}
  <2>1. ASSUME NEW i \in DOMAIN (q \o t)
        PROVE  (q \o t)[i] \in {q[k] : k \in DOMAIN q} \cup {t[k] : k \in DOMAIN t}
    <3>1. CASE i <= Len(q)
      BY <3>1, <1>1, <1>4, <1>5, <1>7, <1>8
    <3>2. CASE ~(i <= Len(q))
      <4>1. i - Len(q) \in DOMAIN t /\ (q \o t)[i] = t[i - Len(q)]
        BY <3>2, <1>1, <1>4, <1>5, <1>7, <1>8
      <4>2. QED
        BY <4>1
    <3>3. QED
      BY <3>1, <3>2
  <2>2. ASSUME NEW i \in DOMAIN q PROVE q[i] \in {(q \o t)[k] : k \in DOMAIN (q \o t)}
    <3>1. i \in DOMAIN (q \o t) /\ (q \o t)[i] = q[i]
      BY <1>1, <1>4, <1>5, <1>7, <1>8
    <3>2. QED
      BY <3>1
  <2>3. ASSUME NEW i \in DOMAIN t PROVE t[i] \in {(q \o t)[k] : k \in DOMAIN (q \o t)}
    <3>1. i + Len(q) \in DOMAIN (q \o t) /\ (q \o t)[i + Len(q)] = t[i]
      BY <1>1, <1>4, <1>5, <1>7, <1>8
    <3>2. QED
      BY <3>1
  <2>4. QED
    BY <2>1, <2>2, <2>3
<1>10. SeedQueued(c)' = SeedQueued(c) \cup F
  BY <1>5, <1>6, <1>9 DEF SeedQueued, q
<1>11. unsent[c] \in SUBSET Pieces
  BY DEF SeedTypes
<1>12. ~Serving(c) => q \o t = q
  <2>1. ~Serving(c) => Len(t) = 0
    BY <1>2, <1>4, <1>5
  <2>2. Len(t) = 0 => t = <<>>
    BY <1>5, EmptySeq
  <2>3. QED
    BY <1>1, <2>1, <2>2, ConcatEmptySeq
<1>13. Len(q \o t) <= SeedQueueSize
  <2>1. CASE Serving(c)
    BY <2>1, <1>1, <1>2, <1>4, <1>5, <1>7, SeedConstants
  <2>2. CASE ~Serving(c)
    BY <2>2, <1>1, <1>12
  <2>3. QED
    BY <2>1, <2>2
<1>14. QED
  BY <1>3, <1>4, <1>6, <1>7, <1>10, <1>11, <1>12, <1>13 DEF q

\* One goes from the queue to the peer.
LEMMA SendingTells ==
    ASSUME SeedTypes, NEW c \in Peers, seedQueue[c] # <<>>
    PROVE  /\ Head(seedQueue[c]) \in Pieces /\ Tail(seedQueue[c]) \in Seq(Pieces)
           /\ Len(Tail(seedQueue[c])) <= SeedQueueSize
           /\ SeedQueued(c) =
                  {Head(seedQueue[c])} \cup {Tail(seedQueue[c])[i] : i \in DOMAIN Tail(seedQueue[c])}
<1> DEFINE q == seedQueue[c]
           t == Tail(q)
<1>1. q \in Seq(Pieces) /\ Len(q) \in Nat /\ Len(q) <= SeedQueueSize /\ DOMAIN q = 1..Len(q) /\ q # <<>>
  BY LenProperties DEF SeedTypes, SuperSeedTypeOK
<1> HIDE DEF q
<1>2. /\ Head(q) \in Pieces /\ t \in Seq(Pieces) /\ Len(t) = Len(q) - 1
      /\ \A i \in 1..Len(t) : t[i] = q[i + 1]
  BY <1>1, HeadTailProperties
<1>3. DOMAIN t = 1..Len(t)
  BY <1>2, LenProperties
<1>4. Head(q) = q[1] /\ 1 \in DOMAIN q
  BY <1>1, EmptySeq
<1> HIDE DEF t
<1>5. ASSUME NEW i \in DOMAIN q PROVE q[i] \in {Head(q)} \cup {t[k] : k \in DOMAIN t}
  <2>1. CASE i = 1
    BY <2>1, <1>4
  <2>2. CASE i # 1
    <3>1. i - 1 \in DOMAIN t /\ t[i - 1] = q[i]
      BY <2>2, <1>1, <1>2, <1>3
    <3>2. QED
      BY <3>1
  <2>3. QED
    BY <2>1, <2>2
<1>6. ASSUME NEW i \in DOMAIN t PROVE t[i] \in {q[k] : k \in DOMAIN q}
  <2>1. i + 1 \in DOMAIN q /\ t[i] = q[i + 1]
    BY <1>1, <1>2, <1>3
  <2>2. QED
    BY <2>1
<1>7. {q[k] : k \in DOMAIN q} = {Head(q)} \cup {t[k] : k \in DOMAIN t}
  BY <1>4, <1>5, <1>6
<1>8. SeedQueued(c) = {Head(q)} \cup {t[k] : k \in DOMAIN t}
  BY <1>7 DEF q, SeedQueued
<1>9. Len(t) <= SeedQueueSize
  BY <1>1, <1>2, SeedConstants
<1>10. QED
  BY <1>2, <1>8, <1>9 DEF q, t

\* Who is linked, and what is known of whom.
LEMMA SuperSeedInitially == SuperSeedInit => SeedIInv
<1> SUFFICES ASSUME SuperSeedInit PROVE SeedIInv
  OBVIOUS
<1> USE DEF SuperSeedInit
<1>1. NewState \in SeedState /\ 0 \in Pieces
  <2>1. 0 \in Pieces
    BY SeedConstants DEF Pieces
  <2>2. [a \in {} |-> 0] \in [{} -> Pieces] /\ {} \in SUBSET SeedAddr
    OBVIOUS
  <2>3. [a \in {} |-> 0] \in UNION {[D -> Pieces] : D \in SUBSET SeedAddr}
    BY <2>2
  <2>4. QED
    BY <2>1, <2>3 DEF NewState, SeedState
<1>2. superSeed # Nothing /\ \A c \in Peers : Assigned(c) = Nothing
  BY <1>1, SeedConstants DEF NewState, Assigned
<1>3. SeedTypes
  <2>1. seeding \in BOOLEAN
    BY Zenon
  <2>2. <<>> \in Seq(Pieces) /\ <<>> \in Seq(Pieces \cup {Nothing}) /\ Len(<<>>) = 0
    BY EmptySeq
  <2>3. QED
    BY <1>1, <2>1, <2>2, SeedConstants DEF SeedTypes, SuperSeedTypeOK
<1>4. OneLive /\ Fresh /\ Informed /\ ReportsAreHeld /\ ReleasedIsHeld
  BY <1>1, SeedConstants DEF OneLive, Live, Fresh, Informed, ReportsAreHeld, ReleasedIsHeld, NewState
<1>5. OnePieceOut /\ AssignedIsTold /\ SweptAreTold
  BY <1>2 DEF OnePieceOut, AssignedIsTold, SweptAreTold
<1>6. QED
  BY <1>3, <1>4, <1>5 DEF SeedIInv

\* superSeedAssign and maybeSuperSeedAdvance keep the shape of the state.
LEMMA AssigningKeepsState ==
    ASSUME NEW s \in SeedState, NEW a \in SeedAddr, NEW R \in SUBSET Pieces
    PROVE  /\ Following(s.next) \in Pieces /\ s.next \in Pieces
           /\ [s EXCEPT !.next = Following(@),
                        !.assigned = [b \in DOMAIN @ \cup {a} |-> IF b = a THEN s.next ELSE @[b]]] \in SeedState
           /\ a \in DOMAIN s.assigned =>
                  [s EXCEPT !.released = R, !.next = Following(@), !.assigned[a] = s.next] \in SeedState
           /\ [s EXCEPT !.assigned = [b \in DOMAIN @ \ {a} |-> @[b]]] \in SeedState
<1>1. PICK D \in SUBSET SeedAddr : s.assigned \in [D -> Pieces]
  BY DEF SeedState
<1>2. s.next \in Pieces /\ Following(s.next) \in Pieces
  BY SeedConstants DEF SeedState, Following, Pieces
<1>3. /\ D \cup {a} \in SUBSET SeedAddr
      /\ [b \in DOMAIN s.assigned \cup {a} |-> IF b = a THEN s.next ELSE s.assigned[b]] \in [D \cup {a} -> Pieces]
  BY <1>1, <1>2
<1>4. [b \in DOMAIN s.assigned \cup {a} |-> IF b = a THEN s.next ELSE s.assigned[b]]
          \in UNION {[E -> Pieces] : E \in SUBSET SeedAddr}
  BY <1>3
<1>5. D \ {a} \in SUBSET SeedAddr /\ [b \in DOMAIN s.assigned \ {a} |-> s.assigned[b]] \in [D \ {a} -> Pieces]
  BY <1>1
<1>6. [b \in DOMAIN s.assigned \ {a} |-> s.assigned[b]] \in UNION {[E -> Pieces] : E \in SUBSET SeedAddr}
  BY <1>5
<1>7. [s.assigned EXCEPT ![a] = s.next] \in [D -> Pieces]
  BY <1>1, <1>2
<1>8. [s.assigned EXCEPT ![a] = s.next] \in UNION {[E -> Pieces] : E \in SUBSET SeedAddr}
  BY <1>7
<1>9. QED
  BY <1>2, <1>4, <1>6, <1>8 DEF SeedState

\* What a report leads to.
Advances(c) ==
    \E p \in bitfield[c] :
        /\ superSeed # Nothing /\ AddrOf(c) \in DOMAIN superSeed.assigned /\ Assigned(c) = p
        /\ superSeed' = [superSeed EXCEPT !.released = superSeed.released \cup {p}, !.next = Following(@),
                                          !.assigned[AddrOf(c)] = superSeed.next]
        /\ SendHaves(Only(c, superSeed.next))
        /\ UNCHANGED caught

\* What a report of a piece leads to.
ReportOutcome(c) == UNCHANGED <<superSeed, seedQueue, unsent, caught>> \/ Graduate \/ Advances(c)

\* onSuperSeedReport has these three outcomes.
LEMMA ReportLeadsTo ==
    ASSUME SeedTypes, ReportsAreHeld, NEW c \in Peers, SeedReport(c)
    PROVE  ReportOutcome(c)
<1> DEFINE q == seedReports[c]
<1>1. q \in Seq(Pieces \cup {Nothing}) /\ q # <<>>
  BY DEF SeedReport, SeedTypes
<1>2. Head(q) = q[1] /\ 1 \in DOMAIN q
  BY <1>1, EmptySeq, LenProperties
<1>3. Head(q) \in bitfield[c] \cup {Nothing}
  BY <1>2 DEF ReportsAreHeld
<1>4. bitfield[c] \subseteq Pieces
  BY DEF SeedTypes
<1>5. ASSUME NEW p \in bitfield[c], Advance(c, p) PROVE ReportOutcome(c)
  <2>1. p # Nothing
    BY <1>4, SeedConstants
  <2>2. CASE Assigned(c) = p
    BY <1>5, <2>1, <2>2 DEF Advance, ReportOutcome, Advances, Assigned
  <2>3. CASE Assigned(c) # p
    BY <1>5, <2>3 DEF Advance, ReportOutcome
  <2>4. QED
    BY <2>2, <2>3
<1>6. CASE Head(q) = Nothing
  BY <1>5, <1>6 DEF SeedReport, Shown, ReportOutcome
<1>7. CASE Head(q) # Nothing
  BY <1>3, <1>5, <1>7 DEF SeedReport
<1>8. QED
  BY <1>6, <1>7

\* A dial, and what becomes of it.
LEMMA LinkingKeepsSeed ==
    ASSUME SeedIInv, NEW c \in Peers, SeedDial(c) \/ SeedDialFails(c) \/ SeedConnects(c) \/ SeedRegister(c)
    PROVE  SeedIInv'
<1> USE DEF SeedIInv
<1>1. AddrOf(c) \in SeedAddr /\ holds[AddrOf(c)] \subseteq Pieces
  BY SeedConstants DEF SeedTypes, SuperSeedTypeOK
<1>2. CASE SeedDial(c)
  <2>1. baked[c] = Nothing /\ seedQueue[c] = <<>>
    BY <1>2 DEF SeedDial, Fresh
  <2>2. CASE superSeed = Nothing
    <3>1. UNCHANGED <<superSeed, baked>>
      BY <1>2, <2>2 DEF SeedDial, SuperSeeding
    <3>2. SeedTypes'
      BY <1>2, <3>1 DEF SeedDial, SeedTypes, SuperSeedTypeOK
    <3>a. \A d \in Peers : AddrOf(d) = AddrOf(c) /\ d # c => link'[d] \notin Live
      BY <1>2 DEF SeedDial, Live, SeedTypes, SuperSeedTypeOK
    <3>b. OneLive'
      BY <1>2, <3>a DEF SeedDial, OneLive, Live, SeedTypes, SuperSeedTypeOK
    <3>3. OneLive' /\ Fresh' /\ Informed' /\ ReportsAreHeld' /\ ReleasedIsHeld'
      BY <1>2, <3>1, <2>1, <3>b DEF SeedDial, Fresh, Informed, ReportsAreHeld, ReleasedIsHeld, SeedTypes,
         SuperSeedTypeOK
    <3>4. OnePieceOut' /\ AssignedIsTold' /\ SweptAreTold'
      BY <1>2, <2>1, <2>2, <3>1 DEF SeedDial, OnePieceOut, AssignedIsTold, SweptAreTold, Assigned, Told, SeedQueued,
         SeedTypes, SuperSeedTypeOK
    <3>5. QED
      BY <3>2, <3>3, <3>4
  <2>3. CASE superSeed # Nothing
    <3>1. superSeed \in SeedState /\ SuperSeeding
      BY <1>2, <2>3 DEF SeedDial, SuperSeeding, SeedTypes, SuperSeedTypeOK
    <3>2. /\ baked' = [baked EXCEPT ![c] = superSeed.next] /\ superSeed.next \in Pieces
          /\ superSeed' \in SeedState /\ superSeed'.released = superSeed.released
          /\ superSeed'.assigned = [a \in DOMAIN superSeed.assigned \cup {AddrOf(c)} |->
                                        IF a = AddrOf(c) THEN superSeed.next ELSE superSeed.assigned[a]]
      <4>1. /\ baked' = [baked EXCEPT ![c] = superSeed.next]
            /\ superSeed' = [superSeed EXCEPT !.next = Following(@),
                                  !.assigned = [a \in DOMAIN @ \cup {AddrOf(c)} |->
                                                    IF a = AddrOf(c) THEN superSeed.next ELSE @[a]]]
        BY <1>2, <3>1 DEF SeedDial
      <4>2. superSeed.next \in Pieces /\ superSeed' \in SeedState
        BY <1>1, <3>1, <4>1, AssigningKeepsState
      <4>3. QED
        BY <3>1, <4>1, <4>2 DEF SeedState
    <3>3. superSeed' # Nothing /\ Assigned(c)' = superSeed.next
      BY <3>2, SeedConstants DEF Assigned
    <3>4. \A d \in Peers : AddrOf(d) # AddrOf(c) => Assigned(d)' = Assigned(d)
      BY <2>3, <3>2, <3>3 DEF Assigned
    <3>5. \A d \in Peers : AddrOf(d) = AddrOf(c) /\ d # c => link'[d] \notin Live
      BY <1>2 DEF SeedDial, Live, SeedTypes, SuperSeedTypeOK
    <3>6. SeedTypes'
      BY <1>2, <3>2 DEF SeedDial, SeedTypes, SuperSeedTypeOK
    <3>a. OneLive'
      BY <1>2, <3>5 DEF SeedDial, OneLive, Live, SeedTypes, SuperSeedTypeOK
    <3>b. Fresh' /\ Informed'
      BY <1>2, <3>2 DEF SeedDial, Fresh, Informed, SeedTypes, SuperSeedTypeOK
    <3>7. OneLive' /\ Fresh' /\ Informed' /\ ReportsAreHeld' /\ ReleasedIsHeld'
      BY <1>2, <2>3, <3>2, <3>a, <3>b DEF SeedDial, ReportsAreHeld, ReleasedIsHeld
    <3>8. OnePieceOut' /\ AssignedIsTold'
      BY <1>2, <2>3, <3>2, <3>3, <3>4, <3>5 DEF SeedDial, OnePieceOut, AssignedIsTold, Told, SeedQueued, Live,
         SeedTypes, SuperSeedTypeOK
    <3>9. QED
      BY <3>3, <3>6, <3>7, <3>8 DEF SweptAreTold
  <2>4. QED
    BY <2>2, <2>3
<1>3. CASE SeedDialFails(c) \/ SeedRegister(c)
  <2>1. SeedTypes'
    BY <1>3 DEF SeedDialFails, SeedRegister, SeedTypes, SuperSeedTypeOK
  <2>a. OneLive'
    BY <1>3 DEF SeedDialFails, SeedRegister, OneLive, Live, SeedTypes, SuperSeedTypeOK
  <2>b. Fresh' /\ Informed'
    BY <1>3 DEF SeedDialFails, SeedRegister, Fresh, Informed, SeedTypes, SuperSeedTypeOK
  <2>2. OneLive' /\ Fresh' /\ Informed' /\ ReportsAreHeld' /\ ReleasedIsHeld'
    BY <1>3, <2>a, <2>b DEF SeedDialFails, SeedRegister, ReportsAreHeld, ReleasedIsHeld
  <2>3. OnePieceOut' /\ AssignedIsTold' /\ SweptAreTold'
    <3>1. /\ UNCHANGED <<seeding, superSeed, baked, seedQueue, knows, bitfield, pauses, unsent, caught, crossed>>
          /\ \A d \in Peers :
                /\ link'[d] = "dialing" => link[d] = "dialing"
                /\ link'[d] \in {"up", "registered"} => link[d] \in {"up", "registered"}
                /\ link'[d] \in {"forgotten", "stray"} => link[d] \in {"forgotten", "stray"}
      BY <1>3 DEF SeedDialFails, SeedRegister, SeedTypes, SuperSeedTypeOK
    <3>2. \A d \in Peers : Assigned(d)' = Assigned(d) /\ Told(d)' = Told(d)
      BY <3>1 DEF Assigned, Told, SeedQueued
    <3>3. OnePieceOut'
      BY <3>1, <3>2 DEF OnePieceOut
    <3>4. AssignedIsTold'
      BY <3>1, <3>2 DEF AssignedIsTold
    <3>5. SweptAreTold'
      BY <3>1, <3>2 DEF SweptAreTold
    <3>6. QED
      BY <3>3, <3>4, <3>5
  <2>4. QED
    BY <2>1, <2>2, <2>3
<1>4. CASE SeedConnects(c)
  <2>1. seedQueue[c] = <<>> /\ SeedQueued(c) = {}
    BY <1>4, EmptySeq DEF SeedConnects, Fresh, SeedQueued
  <2>2. InitialHaves(c) \subseteq Pieces
    BY DEF InitialHaves, SeedTypes, SuperSeedTypeOK
  <2>3. <<>> \in Seq(Pieces \cup {Nothing}) /\ <<Nothing>> \in Seq(Pieces \cup {Nothing})
    BY EmptySeq
  <2>4. SeedTypes'
    BY <1>1, <1>4, <2>2, <2>3 DEF SeedConnects, SeedTypes, SuperSeedTypeOK
  <2>5. OneLive' /\ Fresh' /\ Informed' /\ ReleasedIsHeld'
    BY <1>4 DEF SeedConnects, OneLive, Live, Fresh, Informed, ReleasedIsHeld, SeedTypes,
       SuperSeedTypeOK, InitialHaves
  <2>6. ReportsAreHeld'
    <3>1. seedReports'[c] \in {<<>>, <<Nothing>>} /\ bitfield'[c] = holds[AddrOf(c)] /\ holds' = holds
      BY <1>4 DEF SeedConnects, SeedTypes, SuperSeedTypeOK
    <3>2. \A i \in DOMAIN seedReports'[c] : seedReports'[c][i] = Nothing
      BY <3>1
    <3>3. \A d \in Peers \ {c} : seedReports'[d] = seedReports[d] /\ bitfield'[d] = bitfield[d]
      BY <1>4 DEF SeedConnects, SeedTypes, SuperSeedTypeOK
    <3>4. QED
      BY <3>1, <3>2, <3>3 DEF ReportsAreHeld
  <2>7. knows'[c] = InitialHaves(c) /\ SeedQueued(c)' = {} /\ link'[c] = "up" /\ Assigned(c)' = Assigned(c)
    BY <1>4, <2>1 DEF SeedConnects, SeedQueued, SeedTypes, SuperSeedTypeOK, Assigned
  <2>8. \A d \in Peers \ {c} : Told(d)' = Told(d) /\ Assigned(d)' = Assigned(d) /\ link'[d] = link[d] /\ bitfield'[d] = bitfield[d]
    BY <1>4 DEF SeedConnects, Told, SeedQueued, SeedTypes, SuperSeedTypeOK, Assigned
  <2>9. OnePieceOut' /\ AssignedIsTold' /\ SweptAreTold'
    BY <1>4, <2>7, <2>8 DEF SeedConnects, OnePieceOut, AssignedIsTold, SweptAreTold, Told, InitialHaves
  <2>10. QED
    BY <2>4, <2>5, <2>6, <2>9
<1>5. QED
  BY <1>2, <1>3, <1>4

\* What a step that leaves links, assignments and haves alone may do to the others.
LEMMA GraduatingKeepsSeed ==
    ASSUME SeedIInv, Graduate, UNCHANGED <<link, baked, knows, holds, bitfield>>,
           seeding' \in BOOLEAN, pauses' \in 0..SeedPauses, pauses' = 0 => UNCHANGED <<seeding, pauses>>,
           seedReports' \in [Peers -> Seq(Pieces \cup {Nothing})], Fresh', ReportsAreHeld'
    PROVE  SeedIInv'
<1> USE DEF SeedIInv, Graduate
<1> DEFINE what == [c \in Peers |-> IF c \in Linked THEN Pieces ELSE {}]
<1>1. what \in [Peers -> SUBSET Pieces] /\ SendHaves(what)
  OBVIOUS
<1>2. /\ seedQueue' \in [Peers -> Seq(Pieces)] /\ unsent' \in [Peers -> SUBSET Pieces]
      /\ \A c \in Peers :
            /\ Len(seedQueue'[c]) <= SeedQueueSize
            /\ SeedQueued(c) \subseteq SeedQueued(c)' /\ SeedQueued(c)' \subseteq SeedQueued(c) \cup what[c]
            /\ unsent[c] \subseteq unsent'[c] /\ what[c] \subseteq SeedQueued(c)' \cup unsent'[c]
            /\ ~Serving(c) => seedQueue'[c] = seedQueue[c]
  BY <1>1, SendHavesQueues
<1>3. superSeed' = Nothing /\ \A c \in Peers : Assigned(c)' = Nothing
  BY DEF Assigned
<1>4. SeedTypes'
  BY <1>2, <1>3 DEF SeedTypes, SuperSeedTypeOK
<1>5. OneLive' /\ Informed' /\ ReleasedIsHeld'
  BY <1>3 DEF OneLive, Informed, ReleasedIsHeld
<1>6. OnePieceOut' /\ AssignedIsTold'
  BY <1>3 DEF OnePieceOut, AssignedIsTold
<1>7. SweptAreTold'
  <2>1. SUFFICES ASSUME NEW c \in Peers \ caught'
        PROVE  /\ link[c] = "dialing" => baked[c] = Nothing
               /\ link[c] \in {"up", "registered"} => Pieces \subseteq (Told(c) \cup unsent[c])'
    BY DEF SweptAreTold
  <2>2. link[c] \in {"dialing", "up"} => baked[c] = Nothing
    OBVIOUS
  <2>3. link[c] = "up" => Pieces \subseteq knows'[c]
    BY <2>2 DEF Informed
  <2>4. link[c] = "registered" => Pieces \subseteq (SeedQueued(c) \cup unsent[c])'
    BY <1>2 DEF Linked
  <2>5. QED
    BY <2>2, <2>3, <2>4 DEF Told
<1>8. QED
  BY <1>4, <1>5, <1>6, <1>7

\* A peer reports a piece.
LEMMA ReportKeepsSeed ==
    ASSUME SeedIInv, NEW c \in Peers, SeedReport(c)
    PROVE  SeedIInv'
<1> USE DEF SeedIInv
<1>1. UNCHANGED <<seeding, link, baked, knows, holds, bitfield, pauses>>
  BY DEF SeedReport
<1>2. ReportOutcome(c)
  BY ReportLeadsTo
<1> DEFINE q == seedReports[c]
<1>3. /\ seedReports' \in [Peers -> Seq(Pieces \cup {Nothing})]
      /\ \A d \in Peers \ {c} : seedReports'[d] = seedReports[d]
      /\ \A i \in DOMAIN seedReports'[c] : \E k \in DOMAIN q : seedReports'[c][i] = q[k]
  <2>1. q \in Seq(Pieces \cup {Nothing}) /\ q # <<>> /\ seedReports' = [seedReports EXCEPT ![c] = Tail(q)]
    BY DEF SeedReport, SeedTypes
  <2>2. /\ Tail(q) \in Seq(Pieces \cup {Nothing}) /\ Len(Tail(q)) = Len(q) - 1
        /\ \A i \in 1..Len(Tail(q)) : Tail(q)[i] = q[i + 1]
    BY <2>1, HeadTailProperties
  <2>3. DOMAIN Tail(q) = 1..Len(Tail(q)) /\ DOMAIN q = 1..Len(q) /\ Len(q) \in Nat
    BY <2>1, <2>2, LenProperties
  <2>4. seedReports'[c] = Tail(q)
    BY <2>1 DEF SeedTypes
  <2> HIDE DEF q
  <2>5. \A i \in DOMAIN Tail(q) : i + 1 \in DOMAIN q /\ Tail(q)[i] = q[i + 1]
    BY <2>2, <2>3
  <2>6. QED
    BY <2>1, <2>2, <2>4, <2>5 DEF SeedTypes
<1>4. ReportsAreHeld'
  BY <1>1, <1>3 DEF ReportsAreHeld
<1>5. link[c] \in {"registered", "forgotten", "stray"}
  BY DEF SeedReport, Serving
<1>6. Fresh' \/ seedQueue' # seedQueue
  BY <1>1, <1>3, <1>5 DEF Fresh
<1>7. CASE UNCHANGED <<superSeed, seedQueue, unsent, caught>>
  <2>1. SeedTypes'
    BY <1>1, <1>3, <1>7 DEF SeedTypes, SuperSeedTypeOK
  <2>2. OneLive' /\ Informed' /\ ReleasedIsHeld'
    BY <1>1, <1>7 DEF OneLive, Informed, ReleasedIsHeld
  <2>3. crossed \subseteq crossed'
    BY DEF SeedReport
  <2>4. OnePieceOut' /\ AssignedIsTold' /\ SweptAreTold'
    BY <1>1, <1>7, <2>3 DEF OnePieceOut, AssignedIsTold, SweptAreTold, Told, SeedQueued, Assigned
  <2>5. QED
    BY <1>4, <1>6, <1>7, <2>1, <2>2, <2>4
<1>8. CASE Graduate
  <2>1. Fresh'
    <3>1. \A d \in Peers : ~Serving(d) => seedQueue'[d] = seedQueue[d]
      BY <1>8, SendHavesQueues DEF Graduate
    <3>2. QED
      BY <1>1, <1>3, <1>5, <3>1 DEF Fresh, Serving
  <2>2. seeding' \in BOOLEAN /\ pauses' \in 0..SeedPauses
    BY <1>1 DEF SeedTypes, SuperSeedTypeOK
  <2>3. QED
    BY <1>1, <1>3, <1>4, <1>8, <2>1, <2>2, GraduatingKeepsSeed
<1>9. CASE Advances(c)
  <2>1. PICK p \in bitfield[c] :
            /\ superSeed # Nothing /\ AddrOf(c) \in DOMAIN superSeed.assigned /\ Assigned(c) = p
            /\ superSeed' = [superSeed EXCEPT !.released = superSeed.released \cup {p}, !.next = Following(@),
                                              !.assigned[AddrOf(c)] = superSeed.next]
            /\ SendHaves(Only(c, superSeed.next))
            /\ UNCHANGED caught
    BY <1>9 DEF Advances
  <2> DEFINE n == superSeed.next
             what == Only(c, n)
  <2>2. superSeed \in SeedState /\ AddrOf(c) \in SeedAddr /\ p \in Pieces
    BY <2>1, SeedConstants DEF SeedTypes, SuperSeedTypeOK
  <2>3. superSeed.released \cup {p} \in SUBSET Pieces
    BY <2>2 DEF SeedState
  <2>4. n \in Pieces /\ superSeed' \in SeedState
    BY <2>1, <2>2, <2>3, AssigningKeepsState
  <2>5. superSeed'.released = superSeed.released \cup {p} /\ superSeed'.assigned = [superSeed.assigned EXCEPT ![AddrOf(c)] = n]
    BY <2>1, <2>2 DEF SeedState
  <2>6. superSeed' # Nothing
    BY <2>4, SeedConstants
  <2>7. Assigned(c)' = n
    BY <2>1, <2>5, <2>6 DEF Assigned
  <2>8. \A d \in Peers : AddrOf(d) # AddrOf(c) => Assigned(d)' = Assigned(d)
    BY <2>1, <2>5, <2>6 DEF Assigned
  <2>9. what \in [Peers -> SUBSET Pieces] /\ what[c] = {n} /\ \A d \in Peers \ {c} : what[d] = {}
    BY <2>4 DEF Only
  <2>10. /\ seedQueue' \in [Peers -> Seq(Pieces)] /\ unsent' \in [Peers -> SUBSET Pieces]
         /\ \A d \in Peers :
               /\ Len(seedQueue'[d]) <= SeedQueueSize
               /\ SeedQueued(d) \subseteq SeedQueued(d)' /\ SeedQueued(d)' \subseteq SeedQueued(d) \cup what[d]
               /\ unsent[d] \subseteq unsent'[d] /\ what[d] \subseteq SeedQueued(d)' \cup unsent'[d]
               /\ ~Serving(d) => seedQueue'[d] = seedQueue[d]
    BY <2>1, <2>9, SendHavesQueues
  <2> HIDE DEF n, what
  <2>11. SeedTypes'
    BY <1>1, <1>3, <2>4, <2>10 DEF SeedTypes, SuperSeedTypeOK
  <2>12. OneLive' /\ Informed' /\ Fresh'
    BY <1>1, <1>3, <1>5, <2>10 DEF OneLive, Informed, Fresh, Serving
  <2>13. ReleasedIsHeld'
    <3>1. p \in holds[AddrOf(c)] /\ AddrOf(c) \in SeedAddr
      BY <2>2 DEF ReportsAreHeld
    <3>2. QED
      BY <1>1, <2>1, <2>5, <3>1 DEF ReleasedIsHeld
  <2>14. \A d \in Peers : d # c /\ link[d] \in Live /\ link[c] = "registered" => AddrOf(d) # AddrOf(c)
    BY DEF OneLive, Live
  <2>15. OnePieceOut'
    <3>1. SUFFICES ASSUME pauses = 0, NEW d \in Peers, baked[d] # Nothing
          PROVE  /\ link[d] = "dialing" => Assigned(d)' = baked[d]
                 /\ link[d] \in {"up", "registered"} => Told(d)' \ bitfield[d] \subseteq {Assigned(d)'}
      BY <1>1 DEF OnePieceOut
    <3>2. link[c] = "registered"
      BY <1>5, <3>1 DEF OnePieceOut
    <3>3. CASE d = c
      <4>1. Told(c) \ bitfield[c] \subseteq {p}
        BY <2>1, <3>1, <3>2, <3>3 DEF OnePieceOut
      <4>2. Told(c)' \subseteq Told(c) \cup {n}
        BY <1>1, <2>9, <2>10 DEF Told
      <4>3. QED
        BY <2>7, <3>2, <3>3, <4>1, <4>2
    <3>4. CASE d # c /\ link[d] \in Live
      <4>1. Assigned(d)' = Assigned(d)
        BY <2>8, <2>14, <3>2, <3>4
      <4>2. Told(d)' = Told(d)
        BY <1>1, <2>9, <2>10, <3>4 DEF Told
      <4>3. QED
        BY <2>1, <3>1, <4>1, <4>2 DEF OnePieceOut
    <3>5. QED
      BY <3>3, <3>4 DEF Live
  <2>16. AssignedIsTold'
    <3>1. SUFFICES ASSUME NEW d \in Peers, baked[d] # Nothing, Assigned(d)' # Nothing, AddrOf(d) \notin crossed'
          PROVE  /\ link[d] = "dialing" => Assigned(d)' = baked[d]
                 /\ link[d] \in {"up", "registered"} => Assigned(d)' \in (Told(d) \cup unsent[d])'
      BY <1>1 DEF AssignedIsTold
    <3>2. AddrOf(d) \notin crossed /\ (link[c] # "registered" => AddrOf(d) # AddrOf(c))
      BY <1>5, <3>1 DEF SeedReport
    <3>3. CASE d = c
      BY <2>7, <2>9, <2>10, <3>2, <3>3 DEF Told
    <3>4. CASE d # c /\ link[d] \in Live
      <4>1. Assigned(d)' = Assigned(d)
        BY <2>8, <2>14, <3>2, <3>4
      <4>2. Told(d) \cup unsent[d] \subseteq (Told(d) \cup unsent[d])'
        BY <1>1, <2>10 DEF Told
      <4>3. QED
        BY <3>1, <3>2, <4>1, <4>2 DEF AssignedIsTold
    <3>5. QED
      BY <3>3, <3>4 DEF Live
  <2>17. QED
    BY <1>4, <2>6, <2>11, <2>12, <2>13, <2>15, <2>16 DEF SweptAreTold
<1>10. QED
  BY <1>2, <1>7, <1>8, <1>9 DEF ReportOutcome

\* A Have that is queued is sent, or a peer obtains a piece.
LEMMA SwarmKeepsSeed ==
    ASSUME SeedIInv, NEW c \in Peers, SeedSends(c) \/ \E p \in Pieces : Obtains(c, p)
    PROVE  SeedIInv'
<1> USE DEF SeedIInv
<1>1. CASE SeedSends(c)
  <2> DEFINE q == seedQueue[c]
  <2>1. /\ seedQueue[c] # <<>> /\ knows' = [knows EXCEPT ![c] = @ \cup {Head(q)}]
        /\ seedQueue' = [seedQueue EXCEPT ![c] = Tail(q)] /\ link[c] \in {"up", "registered", "stray"}
        /\ UNCHANGED <<seeding, superSeed, link, baked, seedReports, holds, bitfield, pauses, unsent, caught, crossed>>
    BY <1>1 DEF SeedSends, Serving
  <2>2. /\ Head(q) \in Pieces /\ Tail(q) \in Seq(Pieces) /\ Len(Tail(q)) <= SeedQueueSize
        /\ SeedQueued(c) = {Head(q)} \cup {Tail(q)[i] : i \in DOMAIN Tail(q)}
    BY <2>1, SendingTells
  <2>3. SeedTypes'
    BY <2>1, <2>2 DEF SeedTypes, SuperSeedTypeOK
  <2>4. knows'[c] = knows[c] \cup {Head(q)} /\ seedQueue'[c] = Tail(q)
    BY <2>1 DEF SeedTypes, SuperSeedTypeOK
  <2>5. \A d \in Peers \ {c} : knows'[d] = knows[d] /\ seedQueue'[d] = seedQueue[d]
    BY <2>1 DEF SeedTypes, SuperSeedTypeOK
  <2> HIDE DEF q
  <2>6. Told(c)' = Told(c)
    BY <2>2, <2>4 DEF Told, SeedQueued
  <2>7. \A d \in Peers : Told(d)' = Told(d) /\ knows[d] \subseteq knows'[d] /\ Assigned(d)' = Assigned(d)
    BY <2>1, <2>4, <2>5, <2>6 DEF Told, SeedQueued, Assigned
  <2>8. OneLive' /\ Fresh' /\ Informed' /\ ReportsAreHeld' /\ ReleasedIsHeld'
    BY <2>1, <2>5, <2>7 DEF OneLive, Fresh, Informed, ReportsAreHeld, ReleasedIsHeld
  <2>9. OnePieceOut' /\ AssignedIsTold' /\ SweptAreTold'
    BY <2>1, <2>7 DEF OnePieceOut, AssignedIsTold, SweptAreTold
  <2>10. QED
    BY <2>3, <2>8, <2>9
<1>2. ASSUME NEW p \in Pieces, Obtains(c, p) PROVE SeedIInv'
  <2> USE <1>2 DEF Obtains, Serving
  <2> DEFINE q == seedReports[c]
  <2>1. AddrOf(c) \in SeedAddr
    BY SeedConstants
  <2>2. q \in Seq(Pieces \cup {Nothing}) /\ p \in Pieces \cup {Nothing}
    BY DEF SeedTypes
  <2>3. /\ Append(q, p) \in Seq(Pieces \cup {Nothing}) /\ Len(Append(q, p)) = Len(q) + 1
        /\ \A i \in 1..Len(q) : Append(q, p)[i] = q[i]
        /\ Append(q, p)[Len(q) + 1] = p
    BY <2>2, AppendProperties
  <2>4. Len(q) \in Nat /\ DOMAIN q = 1..Len(q) /\ DOMAIN Append(q, p) = 1..(Len(q) + 1)
    BY <2>2, <2>3, LenProperties
  <2>5. SeedTypes'
    BY <2>1, <2>3 DEF SeedTypes, SuperSeedTypeOK
  <2>6. seedReports'[c] = Append(q, p) /\ bitfield'[c] = bitfield[c] \cup {p} /\ holds'[AddrOf(c)] = holds[AddrOf(c)] \cup {p}
    BY <2>1 DEF SeedTypes, SuperSeedTypeOK
  <2>7. /\ \A d \in Peers \ {c} : seedReports'[d] = seedReports[d] /\ bitfield'[d] = bitfield[d]
        /\ \A a \in SeedAddr : holds[a] \subseteq holds'[a]
    BY <2>1 DEF SeedTypes, SuperSeedTypeOK
  <2>8. ReportsAreHeld'
    <3>1. \A i \in DOMAIN Append(q, p) : Append(q, p)[i] = p \/ (i \in DOMAIN q /\ Append(q, p)[i] = q[i])
      BY <2>3, <2>4
    <3> HIDE DEF q
    <3>2. \A i \in DOMAIN seedReports'[c] : seedReports'[c][i] \in bitfield'[c] \cup {Nothing}
      BY <2>6, <3>1 DEF ReportsAreHeld, q
    <3>3. bitfield'[c] \subseteq holds'[AddrOf(c)]
      BY <2>6 DEF ReportsAreHeld
    <3>4. \A d \in Peers \ {c} : /\ bitfield'[d] \subseteq holds'[AddrOf(d)]
                                   /\ \A i \in DOMAIN seedReports'[d] : seedReports'[d][i] \in bitfield'[d] \cup {Nothing}
      BY <2>7, SeedConstants DEF ReportsAreHeld
    <3>5. QED
      BY <3>2, <3>3, <3>4 DEF ReportsAreHeld
  <2>9. ReleasedIsHeld'
    BY <2>7 DEF ReleasedIsHeld
  <2>10. Fresh'
    BY <2>7 DEF Fresh
  <2>11. OneLive' /\ Informed'
    BY DEF OneLive, Informed
  <2>12. \A d \in Peers : Told(d)' = Told(d) /\ Assigned(d)' = Assigned(d) /\ bitfield[d] \subseteq bitfield'[d]
    BY <2>6, <2>7 DEF Told, SeedQueued, Assigned
  <2>13. OnePieceOut' /\ AssignedIsTold' /\ SweptAreTold'
    BY <2>12 DEF OnePieceOut, AssignedIsTold, SweptAreTold
  <2>14. QED
    BY <2>5, <2>8, <2>9, <2>10, <2>11, <2>13
<1>3. QED
  BY <1>1, <1>2

\* Pause and resume, and the end of a connection.
LEMMA LeavingKeepsSeed ==
    ASSUME SeedIInv, SeedPause \/ SeedResume \/ \E c \in Peers : SeedPeerGone(c)
    PROVE  SeedIInv'
<1> USE DEF SeedIInv
<1>1. <<>> \in Seq(Pieces) /\ Len(<<>>) = 0 /\ SeedQueueSize \in Nat /\ SeedPauses \in Nat
  BY SeedConstants, EmptySeq
<1>2. CASE SeedResume
  <2>1. pauses # 0
    BY <1>2 DEF SeedResume, OnePieceOut
  <2>2. SeedTypes'
    <3>1. seeding' \in BOOLEAN
      BY <1>2, Zenon DEF SeedResume
    <3>2. QED
      BY <1>2, <3>1 DEF SeedResume, SeedTypes, SuperSeedTypeOK
  <2>3. OneLive' /\ Fresh' /\ Informed' /\ ReportsAreHeld' /\ ReleasedIsHeld'
    BY <1>2 DEF SeedResume, OneLive, Fresh, Informed, ReportsAreHeld, ReleasedIsHeld
  <2>4. OnePieceOut' /\ AssignedIsTold' /\ SweptAreTold'
    BY <1>2, <2>1 DEF SeedResume, OnePieceOut, AssignedIsTold, SweptAreTold, Told, SeedQueued, Assigned
  <2>5. QED
    BY <2>2, <2>3, <2>4
<1>3. CASE SeedPause
  <2>1. /\ pauses' \in 0..SeedPauses /\ pauses' # 0
        /\ UNCHANGED <<superSeed, baked, seedReports, knows, holds, bitfield, unsent, caught, crossed>>
        /\ \A c \in Peers :
              \/ link[c] = "registered" /\ link'[c] = "forgotten" /\ seedQueue'[c] = <<>>
              \/ link[c] # "registered" /\ link'[c] = link[c] /\ seedQueue'[c] = seedQueue[c]
    BY <1>1, <1>3 DEF SeedPause, Linked, SeedTypes, SuperSeedTypeOK
  <2>2. SeedTypes'
    <3>1. seeding' \in BOOLEAN
      BY <1>3, Zenon DEF SeedPause
    <3>2. link' \in [Peers -> {"none", "dialing", "up", "registered", "forgotten", "stray", "gone"}]
      BY <1>3 DEF SeedPause, SeedTypes, SuperSeedTypeOK
    <3>3. seedQueue' \in [Peers -> Seq(Pieces)]
      BY <1>1, <1>3 DEF SeedPause, SeedTypes
    <3>4. QED
      BY <1>1, <2>1, <3>1, <3>2, <3>3 DEF SeedTypes, SuperSeedTypeOK
  <2>3. OneLive' /\ Fresh' /\ Informed' /\ ReportsAreHeld' /\ ReleasedIsHeld'
    <3>1. OneLive'
      BY <2>1 DEF OneLive, Live
    <3>2. QED
      BY <2>1, <3>1 DEF Fresh, Informed, ReportsAreHeld, ReleasedIsHeld
  <2>4. \A c \in Peers : /\ Assigned(c)' = Assigned(c)
                         /\ link'[c] \in Live => Told(c)' = Told(c) /\ link'[c] = link[c]
    BY <2>1 DEF Told, SeedQueued, Assigned, Live
  <2>5. OnePieceOut' /\ AssignedIsTold' /\ SweptAreTold'
    BY <2>1, <2>4 DEF OnePieceOut, AssignedIsTold, SweptAreTold, Live
  <2>6. QED
    BY <2>2, <2>3, <2>5
<1>4. ASSUME NEW c \in Peers, SeedPeerGone(c) PROVE SeedIInv'
  <2> DEFINE removed == {d \in Linked : AddrOf(d) = AddrOf(c)}
  <2>1. /\ link[c] \in {"registered", "forgotten", "stray"}
        /\ link' = [d \in Peers |-> IF d = c THEN "gone" ELSE IF d \in removed THEN "stray" ELSE link[d]]
        /\ seedQueue' = [seedQueue EXCEPT ![c] = <<>>]
        /\ UNCHANGED <<seeding, baked, seedReports, knows, holds, bitfield, pauses, unsent, caught, crossed>>
    BY <1>4 DEF SeedPeerGone, Serving
  <2>2. \/ superSeed' = superSeed
        \/ /\ superSeed # Nothing /\ removed # {}
           /\ superSeed' = [superSeed EXCEPT !.assigned = [a \in DOMAIN @ \ {AddrOf(c)} |-> @[a]]]
    BY <1>4 DEF SeedPeerGone
  <2>0. \A d \in removed : d \in Peers /\ link[d] = "registered" /\ AddrOf(d) = AddrOf(c)
    BY DEF Linked
  <2>b. c \in Peers /\ (link[c] = "registered" => c \in removed)
    BY DEF Linked
  <2> HIDE DEF removed
  <2>3. \A d \in Peers : link'[d] \in Live => d # c /\ d \notin removed /\ link'[d] = link[d] /\ Told(d)' = Told(d)
    BY <2>1 DEF Live, Told, SeedQueued, SeedTypes, SuperSeedTypeOK
  <2>4. /\ superSeed' = Nothing <=> superSeed = Nothing
        /\ superSeed' # Nothing => superSeed' \in SeedState /\ superSeed'.released = superSeed.released
        /\ \A d \in Peers : link'[d] \in Live => Assigned(d)' = Assigned(d)
    <3>1. CASE superSeed' = superSeed
      BY <3>1 DEF SeedTypes, SuperSeedTypeOK, Assigned
    <3>2. CASE /\ superSeed # Nothing /\ removed # {}
               /\ superSeed' = [superSeed EXCEPT !.assigned = [a \in DOMAIN @ \ {AddrOf(c)} |-> @[a]]]
      <4>1. superSeed \in SeedState /\ AddrOf(c) \in SeedAddr
        BY <3>2, SeedConstants DEF SeedTypes, SuperSeedTypeOK
      <4>2. superSeed' \in SeedState
        BY <3>2, <4>1, AssigningKeepsState
      <4>3. /\ superSeed'.released = superSeed.released
            /\ superSeed'.assigned = [a \in DOMAIN superSeed.assigned \ {AddrOf(c)} |-> superSeed.assigned[a]]
        BY <3>2, <4>1 DEF SeedState
      <4>4. \A d \in Peers : link'[d] \in Live => AddrOf(d) # AddrOf(c)
        BY <2>0, <2>3, <3>2 DEF OneLive, Live
      <4>5. superSeed' # Nothing
        BY <4>2, SeedConstants
      <4>6. QED
        BY <3>2, <4>2, <4>3, <4>4, <4>5 DEF Assigned
    <3>3. QED
      BY <2>2, <3>1, <3>2
  <2>5. SeedTypes'
    BY <1>1, <2>1, <2>4 DEF SeedTypes, SuperSeedTypeOK
  <2>6. OneLive'
    BY <2>3 DEF OneLive
  <2>7. Fresh'
    <3>1. link'[c] = "gone" /\ \A d \in Peers \ {c} : link'[d] \in {link[d], "stray"} /\ seedQueue'[d] = seedQueue[d]
      BY <2>1 DEF SeedTypes, SuperSeedTypeOK
    <3>2. QED
      BY <2>1, <3>1 DEF Fresh
  <2>8. Informed' /\ ReportsAreHeld' /\ ReleasedIsHeld'
    BY <2>1, <2>3, <2>4 DEF Informed, Live, ReportsAreHeld, ReleasedIsHeld
  <2>9. pauses = 0 => \A d \in Peers : link'[d] \notin {"forgotten", "stray"}
    <3>1. SUFFICES ASSUME pauses = 0, NEW d \in Peers PROVE link'[d] \notin {"forgotten", "stray"}
      OBVIOUS
    <3>2. link[c] = "registered" /\ link[d] \notin {"forgotten", "stray"}
      BY <2>1, <3>1 DEF OnePieceOut
    <3>3. d \in removed => d = c
      BY <2>0, <3>2 DEF OneLive, Live
    <3>4. QED
      BY <2>1, <3>2, <3>3
  <2>10. OnePieceOut' /\ AssignedIsTold' /\ SweptAreTold'
    BY <2>1, <2>3, <2>4, <2>9 DEF OnePieceOut, AssignedIsTold, SweptAreTold, Live
  <2>11. QED
    BY <2>5, <2>6, <2>7, <2>8, <2>10
<1>5. QED
  BY <1>2, <1>3, <1>4

\* SetSuperSeeding.
LEMMA SwitchingKeepsSeed ==
    ASSUME SeedIInv, NEW on \in BOOLEAN, SetSuperSeeding(on)
    PROVE  SeedIInv'
<1> USE DEF SeedIInv
<1>1. /\ pauses' \in 0..SeedPauses /\ pauses' # 0
      /\ UNCHANGED <<seeding, link, baked, seedReports, knows, holds, bitfield, crossed>>
  BY SeedConstants DEF SetSuperSeeding, SeedTypes, SuperSeedTypeOK
<1>2. CASE UNCHANGED <<superSeed, seedQueue, unsent, caught>>
  <2>1. SeedTypes'
    BY <1>1, <1>2 DEF SeedTypes, SuperSeedTypeOK
  <2>2. OneLive' /\ Fresh' /\ Informed' /\ ReportsAreHeld' /\ ReleasedIsHeld'
    BY <1>1, <1>2 DEF OneLive, Fresh, Informed, ReportsAreHeld, ReleasedIsHeld
  <2>3. OnePieceOut' /\ AssignedIsTold' /\ SweptAreTold'
    BY <1>1, <1>2 DEF OnePieceOut, AssignedIsTold, SweptAreTold, Told, SeedQueued, Assigned
  <2>4. QED
    BY <2>1, <2>2, <2>3
<1>3. CASE superSeed' = NewState /\ UNCHANGED <<seedQueue, unsent, caught>>
  <2>1. superSeed' \in SeedState
    <3>1. 0 \in Pieces /\ [a \in {} |-> 0] \in [{} -> Pieces] /\ {} \in SUBSET SeedAddr
      BY SeedConstants DEF Pieces
    <3>2. [a \in {} |-> 0] \in UNION {[D -> Pieces] : D \in SUBSET SeedAddr}
      BY <3>1
    <3>3. QED
      BY <1>3, <3>1, <3>2 DEF NewState, SeedState
  <2>2. superSeed' # Nothing /\ superSeed'.released = {} /\ \A c \in Peers : Assigned(c)' = Nothing
    BY <1>3, <2>1, SeedConstants DEF NewState, Assigned
  <2>3. SeedTypes'
    BY <1>1, <1>3, <2>1 DEF SeedTypes, SuperSeedTypeOK
  <2>4. OneLive' /\ Fresh' /\ Informed' /\ ReportsAreHeld' /\ ReleasedIsHeld'
    BY <1>1, <1>3, <2>2 DEF OneLive, Fresh, Informed, ReportsAreHeld, ReleasedIsHeld
  <2>5. OnePieceOut' /\ AssignedIsTold' /\ SweptAreTold'
    BY <1>1, <2>2 DEF OnePieceOut, AssignedIsTold, SweptAreTold
  <2>6. QED
    BY <2>3, <2>4, <2>5
<1>4. CASE Graduate
  <2>1. \A d \in Peers : ~Serving(d) => seedQueue'[d] = seedQueue[d]
    BY <1>4, SendHavesQueues DEF Graduate
  <2>2. Fresh' /\ ReportsAreHeld' /\ seeding' \in BOOLEAN /\ seedReports' \in [Peers -> Seq(Pieces \cup {Nothing})]
    BY <1>1, <2>1 DEF Fresh, ReportsAreHeld, SeedTypes, SuperSeedTypeOK, Serving
  <2>3. QED
    BY <1>1, <1>4, <2>2, GraduatingKeepsSeed
<1>5. QED
  BY <1>2, <1>3, <1>4 DEF SetSuperSeeding

\* superseed.go: super-seeding never ends while a piece has not left us; nobody is offered two pieces it
\* lacks; what the actor waits to hear of has been told; and afterwards everybody knows everything.
THEOREM SuperSeedingIsRight == SuperSeedSpec => []SuperSeedInv
<1>1. ASSUME SeedIInv, SuperSeedNext PROVE SeedIInv'
  <2>1. ASSUME NEW c \in Peers, SeedConnNext(c) PROVE SeedIInv'
    <3>1. CASE SeedDial(c) \/ SeedDialFails(c) \/ SeedConnects(c) \/ SeedRegister(c)
      BY <1>1, <3>1, LinkingKeepsSeed
    <3>2. CASE SeedReport(c)
      BY <1>1, <3>2, ReportKeepsSeed
    <3>3. CASE SeedSends(c) \/ \E p \in Pieces : Obtains(c, p)
      BY <1>1, <3>3, SwarmKeepsSeed
    <3>4. CASE SeedPeerGone(c)
      BY <1>1, <3>4, LeavingKeepsSeed
    <3>5. QED
      BY <2>1, <3>1, <3>2, <3>3, <3>4 DEF SeedConnNext
  <2>2. ASSUME NEW on \in BOOLEAN, SetSuperSeeding(on) PROVE SeedIInv'
    BY <1>1, <2>2, SwitchingKeepsSeed
  <2>3. CASE SeedPause \/ SeedResume
    BY <1>1, <2>3, LeavingKeepsSeed
  <2>4. QED
    BY <1>1, <2>1, <2>2, <2>3 DEF SuperSeedNext
<1>2. ASSUME SeedIInv, UNCHANGED superSeedVars PROVE SeedIInv'
  <2> USE <1>2 DEF SeedIInv, superSeedVars
  <2>1. SeedTypes'
    BY DEF SeedTypes, SuperSeedTypeOK
  <2>2. OneLive' /\ Fresh' /\ Informed' /\ ReportsAreHeld' /\ ReleasedIsHeld'
    BY DEF OneLive, Fresh, Informed, ReportsAreHeld, ReleasedIsHeld
  <2>3. OnePieceOut' /\ AssignedIsTold' /\ SweptAreTold'
    BY DEF OnePieceOut, AssignedIsTold, SweptAreTold, Told, SeedQueued, Assigned
  <2>4. QED
    BY <2>1, <2>2, <2>3
<1>3. SeedIInv => SuperSeedInv
  <2> SUFFICES ASSUME SeedIInv PROVE SuperSeedInv
    OBVIOUS
  <2>1. OneAtATime
    <3>1. SUFFICES ASSUME superSeed # Nothing, pauses = 0, NEW c \in Linked, baked[c] # Nothing
          PROVE  Cardinality((knows[c] \cup SeedQueued(c)) \ bitfield[c]) <= 1
      BY DEF OneAtATime
    <3> DEFINE T == (knows[c] \cup SeedQueued(c)) \ bitfield[c]
    <3>2. T \in SUBSET {Assigned(c)}
      BY <3>1 DEF SeedIInv, OnePieceOut, Linked, Told
    <3>3. IsFiniteSet({Assigned(c)}) /\ Cardinality({Assigned(c)}) = 1
      BY FS_Singleton
    <3> HIDE DEF T
    <3>4. Cardinality(T) <= 1
      BY <3>2, <3>3, FS_Subset
    <3>5. QED
      BY <3>4 DEF T
  <2>2. AssignmentReachesPeer /\ EveryoneKnows
    BY DEF SeedIInv, AssignedIsTold, SweptAreTold, AssignmentReachesPeer, EveryoneKnows, Linked, Told
  <2>3. QED
    BY <2>1, <2>2 DEF SeedIInv, SeedTypes, SuperSeedInv
<1>4. QED
  BY SuperSeedInitially, <1>1, <1>2, <1>3, PTL DEF SuperSeedSpec

-----------------------------------------------------------------------------
(* The metadata of a magnet link *)

\* The events of a connection that the fetch reacts to.
Notice == {"handshake", "reject"}

\* The fetch has a shape of its own, and always a piece to wait for.
FetchTypeOK ==
    fetch # NoFetch =>
        /\ fetch \in FetchState
        /\ DOMAIN fetch.arrived \subseteq 0..(fetch.pieces - 1)
        /\ Cardinality(DOMAIN fetch.arrived) < fetch.pieces

\* The types, the queues included.
MetaTypes ==
    /\ MetadataTypeOK
    /\ claims \in [MetaPeer -> 0..InfoPieces] /\ shook \in [MetaPeer -> BOOLEAN]
    /\ notices \in [MetaPeer -> Seq(Notice)] /\ parts \in [MetaPeer -> Seq(Index \X Quality)]

\* No event before the extended handshake, and no handshake before the connection.
SilentAtFirst ==
    \A c \in MetaPeer : (~shook[c] => notices[c] = <<>>) /\ (tie[c] = "new" => ~shook[c])

\* The info dictionary is what ends the fetching.
InfoOpens == info <=> status \in {"open", "error"}

\* NoIdleFetch, whatever the state of the torrent.
NothingIdle == ~info /\ fetch = NoFetch /\ ~wasted => \A c \in MetaRegistered : Offering(c) => Pending(c)

\* The inductive invariant.
MetaIInv == MetaTypes /\ SilentAtFirst /\ InfoOpens /\ FetchIsAliveUnlessPaused /\ NothingIdle

\* A queue of one of the two kinds gains or loses an element.
LEMMA QueueGrows ==
    ASSUME NEW T, NEW q \in Seq(T), NEW x \in T
    PROVE  /\ Append(q, x) \in Seq(T) /\ Len(Append(q, x)) = Len(q) + 1 /\ Len(q) \in Nat
           /\ \E i \in DOMAIN Append(q, x) : Append(q, x)[i] = x
           /\ \A i \in DOMAIN q : i \in DOMAIN Append(q, x) /\ Append(q, x)[i] = q[i]
<1>1. /\ Append(q, x) \in Seq(T) /\ Len(Append(q, x)) = Len(q) + 1
      /\ \A i \in 1..Len(q) : Append(q, x)[i] = q[i]
      /\ Append(q, x)[Len(q) + 1] = x
  BY AppendProperties
<1>2. Len(q) \in Nat /\ DOMAIN q = 1..Len(q) /\ DOMAIN Append(q, x) = 1..(Len(q) + 1)
  BY <1>1, LenProperties
<1>3. Len(q) + 1 \in DOMAIN Append(q, x)
  BY <1>2
<1>4. QED
  BY <1>1, <1>2, <1>3
\* And loses one.
LEMMA QueueShrinks ==
    ASSUME NEW T, NEW q \in Seq(T), q # <<>>
    PROVE  /\ Head(q) \in T /\ Tail(q) \in Seq(T) /\ Len(Tail(q)) <= Len(q) /\ Len(q) \in Nat
           /\ \A i \in DOMAIN q : q[i] = Head(q) \/ \E k \in DOMAIN Tail(q) : Tail(q)[k] = q[i]
           /\ Len(q) # 0
<1>1. /\ Head(q) \in T /\ Tail(q) \in Seq(T) /\ Len(Tail(q)) = Len(q) - 1
      /\ \A i \in 1..Len(Tail(q)) : Tail(q)[i] = q[i + 1]
  BY HeadTailProperties
<1>2. Len(q) \in Nat /\ Len(q) # 0 /\ DOMAIN q = 1..Len(q) /\ DOMAIN Tail(q) = 1..(Len(q) - 1) /\ Head(q) = q[1]
  BY <1>1, LenProperties, EmptySeq
<1>3. ASSUME NEW i \in DOMAIN q, i # 1 PROVE i - 1 \in DOMAIN Tail(q) /\ Tail(q)[i - 1] = q[i]
  BY <1>1, <1>2, <1>3
<1>4. ASSUME NEW i \in DOMAIN q PROVE q[i] = Head(q) \/ \E k \in DOMAIN Tail(q) : Tail(q)[k] = q[i]
  BY <1>2, <1>3
<1>5. QED
  BY <1>1, <1>2, <1>4

\* The inductive invariant holds at first.
LEMMA MetadataInitially == MetadataInit => MetaIInv
<1> SUFFICES ASSUME MetadataInit PROVE MetaIInv
  OBVIOUS
<1> USE DEF MetadataInit
<1>1. info \in BOOLEAN /\ shook \in [MetaPeer -> BOOLEAN]
  <2>1. FALSE \in BOOLEAN
    BY Zenon
  <2>2. QED
    BY <2>1, Zenon
<1>2. <<>> \in Seq(Notice) /\ <<>> \in Seq(Index \X Quality) /\ Len(<<>>) = 0
  BY EmptySeq
<1>3. MetaTypes
  BY <1>1, <1>2, MetadataAssumption DEF MetaTypes, MetadataTypeOK, NoticeRoom
<1>4. SilentAtFirst /\ NothingIdle
  <2>1. \A c \in MetaPeer : shook[c] = FALSE /\ notices[c] = <<>>
    OBVIOUS
  <2>2. QED
    BY <2>1, Zenon DEF SilentAtFirst, NothingIdle, Offering, MetaRegistered
<1>5. InfoOpens /\ FetchIsAliveUnlessPaused
  BY DEF InfoOpens, FetchIsAliveUnlessPaused, FetchIsAlive
<1>6. QED
  BY <1>3, <1>4, <1>5 DEF MetaIInv

\* A fetch begins with somebody that offers, unless nobody does.
LEMMA StartChooses ==
    ASSUME MetaTypes, NEW C \in SUBSET MetaPeer, StartAmong(C)
    PROVE  /\ FetchTypeOK' /\ asked' \in [MetaPeer -> SUBSET Index]
           /\ fetch' # NoFetch => fetch'.peer \in C
           /\ fetch' = NoFetch /\ ~info => \A c \in C : ~Offering(c)
<1>1. CASE info \/ \A c \in C : ~Offering(c)
  BY <1>1 DEF StartAmong, FetchTypeOK, MetaTypes, MetadataTypeOK
<1>2. CASE ~(info \/ \A c \in C : ~Offering(c))
  <2>1. PICK c \in C : Offering(c) /\ FetchFrom(c)
    BY <1>2 DEF StartAmong
  <2>2. claims[c] \in 1..InfoPieces /\ c \in MetaPeer
    BY <2>1, MetadataAssumption DEF Offering, MetaTypes
  <2> DEFINE e == [i \in {} |-> "good"]
  <2>3. e \in [{} -> Quality] /\ {} \in SUBSET Index
    OBVIOUS
  <2>4. e \in UNION {[D -> Quality] : D \in SUBSET Index} /\ DOMAIN e = {}
    BY <2>3
  <2> HIDE DEF e
  <2>5. fetch' = [peer |-> c, pieces |-> claims[c], arrived |-> e]
    BY <2>1 DEF FetchFrom, e
  <2>6. fetch' \in FetchState
    BY <2>2, <2>4, <2>5 DEF FetchState
  <2>7. Cardinality({}) = 0
    BY FS_EmptySet
  <2>8. Cardinality(DOMAIN fetch'.arrived) = 0
    <3>1. DOMAIN fetch'.arrived = {}
      BY <2>4, <2>5
    <3>2. QED
      BY <2>7, <3>1, Zenon
  <2>9. FetchTypeOK'
    BY <2>2, <2>4, <2>5, <2>6, <2>8 DEF FetchTypeOK
  <2>10. asked' \in [MetaPeer -> SUBSET Index]
    <3>1. {i \in 0..(claims[c] - 1) : i < MetaQueueSize} \subseteq Index
      BY <2>2, MetadataAssumption DEF Index
    <3>2. QED
      BY <2>1, <3>1 DEF FetchFrom, MetaTypes, MetadataTypeOK
  <2>11. fetch' # NoFetch /\ fetch'.peer = c
    BY <2>5, <2>6, MetadataAssumption
  <2>12. QED
    BY <2>9, <2>10, <2>11
<1>3. QED
  BY <1>1, <1>2

\* The steps of the peers.
LEMMA PeerKeepsMetadata ==
    ASSUME MetaIInv, NEW c \in MetaPeer,
           MetaConnects(c) \/ Shakes(c) \/ MetaAnswers(c) \/ Unasked(c) \/ MetaCloses(c)
    PROVE  MetaIInv'
<1> USE DEF MetaIInv
<1>1. UNCHANGED <<status, info, fetch, claims, shut, wasted>>
  BY DEF MetaConnects, Shakes, MetaAnswers, Unasked, MetaCloses, DataArrives, RejectArrives
<1>2. notices[c] \in Seq(Notice) /\ parts[c] \in Seq(Index \X Quality) /\ "handshake" \in Notice /\ "reject" \in Notice
  BY DEF MetaTypes, Notice
<1>3. Len(notices[c]) \in Nat /\ Len(parts[c]) \in Nat /\ Len(<<>>) = 0
  BY <1>2, LenProperties, EmptySeq
<1>4. CASE MetaConnects(c) \/ MetaCloses(c)
  <2>1. /\ tie' \in [MetaPeer -> {"new", "registered", "closed", "forgotten", "gone"}]
        /\ asked' \in [MetaPeer -> SUBSET Index] /\ UNCHANGED <<shook, notices, parts, tricks>>
        /\ \A d \in MetaPeer : InPeers(d) => InPeers(d)'
        /\ \A d \in MetaPeer : InPeers(d)' /\ ~InPeers(d) => ~shook[d]
        /\ \A d \in MetaPeer : tie'[d] = "new" => tie[d] = "new"
    BY <1>4 DEF MetaConnects, MetaCloses, MetaTypes, MetadataTypeOK, InPeers, SilentAtFirst
  <2>2. MetaTypes'
    BY <1>1, <2>1 DEF MetaTypes, MetadataTypeOK
  <2>3. SilentAtFirst' /\ InfoOpens'
    BY <1>1, <2>1 DEF SilentAtFirst, InfoOpens
  <2>4. FetchIsAliveUnlessPaused'
    BY <1>1, <2>1 DEF FetchIsAliveUnlessPaused, FetchIsAlive, MetaTypes, MetadataTypeOK, FetchState
  <2>5. NothingIdle'
    BY <1>1, <2>1 DEF NothingIdle, Offering, Pending, MetaRegistered
  <2>6. QED
    BY <2>2, <2>3, <2>4, <2>5
<1>5. CASE Shakes(c)
  <2>1. notices[c] = <<>>
    BY <1>5 DEF Shakes, SilentAtFirst
  <2>2. /\ notices'[c] = Append(notices[c], "handshake") /\ \A d \in MetaPeer \ {c} : notices'[d] = notices[d]
        /\ shook'[c] /\ \A d \in MetaPeer \ {c} : shook'[d] = shook[d]
        /\ UNCHANGED <<tie, parts, asked, tricks>> /\ tie[c] # "new"
    BY <1>5 DEF Shakes, MetaTypes
  <2>3. notices'[c] \in Seq(Notice) /\ Len(notices'[c]) <= NoticeRoom /\ Pending(c)'
    BY <1>2, <1>3, <2>1, <2>2, QueueGrows DEF NoticeRoom, Pending
  <2>4. MetaTypes'
    <3>1. shook' \in [MetaPeer -> BOOLEAN]
      <4>1. TRUE \in BOOLEAN
        BY Zenon
      <4>2. shook' = [shook EXCEPT ![c] = TRUE] /\ shook \in [MetaPeer -> BOOLEAN]
        BY <1>5 DEF Shakes, MetaTypes
      <4>3. QED
        BY <4>1, <4>2, Zenon
    <3>2. notices' \in [MetaPeer -> Seq(Notice)]
      BY <1>5, <2>2, <2>3 DEF Shakes, MetaTypes
    <3>3. QED
      BY <1>1, <2>2, <2>3, <3>1, <3>2 DEF MetaTypes, MetadataTypeOK
  <2>5. SilentAtFirst' /\ InfoOpens'
    BY <1>1, <2>2 DEF SilentAtFirst, InfoOpens
  <2>6. FetchIsAliveUnlessPaused'
    BY <1>1, <2>2 DEF FetchIsAliveUnlessPaused, FetchIsAlive, InPeers
  <2>7. NothingIdle'
    BY <1>1, <2>2, <2>3 DEF NothingIdle, Offering, Pending, MetaRegistered, InPeers
  <2>8. QED
    BY <2>4, <2>5, <2>6, <2>7
<1>6. CASE MetaAnswers(c) \/ Unasked(c)
  <2>1. /\ CanHear(c) /\ UNCHANGED <<tie, shook>>
        /\ RejectArrives(c) \/ \E i \in Index, q \in Quality : DataArrives(c, i, q)
    BY <1>6 DEF MetaAnswers, Unasked, Quality, MetaTypes, MetadataTypeOK
  <2>2. asked' \in [MetaPeer -> SUBSET Index] /\ tricks' \in 0..MaxTricks
    <3>1. CASE MetaAnswers(c)
      BY <3>1 DEF MetaAnswers, MetaTypes, MetadataTypeOK
    <3>2. CASE Unasked(c)
      BY <3>2, MetadataAssumption DEF Unasked, MetaTypes, MetadataTypeOK
    <3>3. QED
      BY <1>6, <3>1, <3>2
  <2>3. /\ notices' \in [MetaPeer -> Seq(Notice)] /\ parts' \in [MetaPeer -> Seq(Index \X Quality)]
        /\ \A d \in MetaPeer : Len(notices'[d]) <= NoticeRoom /\ Len(parts'[d]) <= NoticeRoom
        /\ \A d \in MetaPeer : (Pending(d) => Pending(d)') /\ (d # c => notices'[d] = notices[d])
    <3>1. CASE RejectArrives(c)
      <4>1. notices'[c] \in {notices[c], Append(notices[c], "reject")}
            /\ (notices'[c] # notices[c] => Len(notices[c]) < NoticeRoom)
        BY <3>1 DEF RejectArrives, MetaTypes
      <4>2. notices'[c] \in Seq(Notice) /\ Len(notices'[c]) <= NoticeRoom /\ (Pending(c) => Pending(c)')
        <5>1. CASE notices'[c] = notices[c]
          BY <1>2, <5>1 DEF MetaTypes, MetadataTypeOK, Pending
        <5>2. CASE notices'[c] = Append(notices[c], "reject") /\ Len(notices[c]) < NoticeRoom
          BY <1>2, <1>3, <5>2, QueueGrows DEF Pending, NoticeRoom
        <5>3. QED
          BY <4>1, <5>1, <5>2
      <4>3. QED
        BY <3>1, <4>2 DEF RejectArrives, MetaTypes, MetadataTypeOK, Pending
    <3>2. ASSUME NEW i \in Index, NEW q \in Quality, DataArrives(c, i, q)
          PROVE  /\ UNCHANGED notices /\ parts' \in [MetaPeer -> Seq(Index \X Quality)]
                 /\ \A d \in MetaPeer : Len(parts'[d]) <= NoticeRoom
      <4>1. <<i, q>> \in Index \X Quality
        OBVIOUS
      <4>2. Append(parts[c], <<i, q>>) \in Seq(Index \X Quality) /\ Len(Append(parts[c], <<i, q>>)) <= NoticeRoom
        BY <1>2, <1>3, <2>1, <4>1, QueueGrows DEF CanHear, NoticeRoom
      <4>3. QED
        BY <3>2, <4>2 DEF DataArrives, MetaTypes, MetadataTypeOK
    <3>3. QED
      BY <2>1, <3>1, <3>2 DEF MetaTypes, MetadataTypeOK, Pending
  <2>4. MetaTypes'
    BY <1>1, <2>1, <2>2, <2>3 DEF MetaTypes, MetadataTypeOK
  <2>5. SilentAtFirst' /\ InfoOpens'
    BY <1>1, <2>1, <2>3 DEF SilentAtFirst, InfoOpens, CanHear
  <2>6. FetchIsAliveUnlessPaused'
    BY <1>1, <2>1 DEF FetchIsAliveUnlessPaused, FetchIsAlive, InPeers
  <2>7. NothingIdle'
    BY <1>1, <2>1, <2>3 DEF NothingIdle, Offering, MetaRegistered, InPeers
  <2>8. QED
    BY <2>4, <2>5, <2>6, <2>7
<1>7. QED
  BY <1>4, <1>5, <1>6

\* The fetch as it was, or one that somebody in C gives.
Refetched(C) ==
    \/ UNCHANGED <<fetch, asked>>
    \/ /\ FetchTypeOK' /\ asked' \in [MetaPeer -> SUBSET Index]
       /\ fetch' # NoFetch => fetch'.peer \in C
       /\ fetch' = NoFetch /\ ~info => \A c \in C : ~Offering(c)

\* An event of a connection that leaves the others as they are.
LEMMA EventKeepsMetadata ==
    ASSUME MetaIInv, NEW c \in MetaPeer, notices[c] # <<>>, notices' = [notices EXCEPT ![c] = Tail(@)],
           UNCHANGED <<status, info, tie, claims, shook, parts, tricks, shut, wasted>>, Refetched(MetaRegistered),
           fetch' = NoFetch /\ UNCHANGED <<fetch, asked>> => Head(notices[c]) # "handshake" \/ info
    PROVE  MetaIInv'
<1> USE DEF MetaIInv
<1>1. notices[c] \in Seq(Notice)
  BY DEF MetaTypes
<1>2. /\ Tail(notices[c]) \in Seq(Notice) /\ Len(Tail(notices[c])) <= NoticeRoom
      /\ Head(notices[c]) # "handshake" /\ Pending(c) => Pending(c)'
  <2>1. notices'[c] = Tail(notices[c]) /\ Len(notices[c]) <= NoticeRoom
    BY DEF MetaTypes, MetadataTypeOK
  <2>2. /\ Tail(notices[c]) \in Seq(Notice) /\ Len(Tail(notices[c])) <= Len(notices[c]) /\ Len(notices[c]) \in Nat
        /\ \A i \in DOMAIN notices[c] : \/ notices[c][i] = Head(notices[c])
                                        \/ \E k \in DOMAIN Tail(notices[c]) : Tail(notices[c])[k] = notices[c][i]
    BY <1>1, QueueShrinks
  <2>3. Len(Tail(notices[c])) \in Nat /\ NoticeRoom \in Nat
    BY <2>2, LenProperties DEF NoticeRoom
  <2>4. Len(Tail(notices[c])) <= NoticeRoom
    BY <2>1, <2>2, <2>3
  <2>5. QED
    BY <2>1, <2>2, <2>4 DEF Pending
<1>3. FetchTypeOK' /\ asked' \in [MetaPeer -> SUBSET Index]
  BY DEF Refetched, MetaTypes, MetadataTypeOK, FetchTypeOK
<1>4. MetaTypes'
  BY <1>2, <1>3 DEF MetaTypes, MetadataTypeOK, FetchTypeOK
<1>5. SilentAtFirst' /\ InfoOpens'
  <2>1. \A d \in MetaPeer : notices[d] = <<>> => notices'[d] = <<>>
    BY DEF MetaTypes
  <2>2. QED
    BY <2>1 DEF SilentAtFirst, InfoOpens
<1>6. FetchIsAliveUnlessPaused'
  BY DEF Refetched, FetchIsAliveUnlessPaused, FetchIsAlive, MetaRegistered, InPeers
<1>7. NothingIdle'
  <2>1. SUFFICES ASSUME ~info, fetch' = NoFetch, ~wasted, NEW d \in MetaRegistered, Offering(d) PROVE Pending(d)'
    BY DEF NothingIdle, MetaRegistered, InPeers, Offering
  <2>2. UNCHANGED <<fetch, asked>>
    BY <2>1 DEF Refetched
  <2>3. Pending(d) /\ d \in MetaPeer
    BY <2>1, <2>2 DEF NothingIdle, MetaRegistered
  <2>4. Head(notices[c]) # "handshake"
    BY <2>1, <2>2
  <2>5. QED
    BY <1>2, <2>3, <2>4 DEF Pending, MetaTypes
<1>8. QED
  BY <1>4, <1>5, <1>6, <1>7

\* abandonMetadataFetch.
LEMMA AbandonRefetches ==
    ASSUME MetaTypes, NEW c \in MetaPeer, NEW C \in SUBSET MetaPeer, Abandon(c, C)
    PROVE  Refetched(C) /\ ((fetch = NoFetch \/ fetch.peer # c) => UNCHANGED <<fetch, asked>>)
<1>1. CASE StartAmong(C) /\ fetch # NoFetch /\ fetch.peer = c
  BY <1>1, StartChooses DEF Refetched
<1>2. CASE UNCHANGED <<fetch, asked>>
  BY <1>2 DEF Refetched
<1>3. QED
  BY <1>1, <1>2 DEF Abandon

\* The events that the actor handles.
LEMMA ActorKeepsMetadata ==
    ASSUME MetaIInv, NEW c \in MetaPeer, OnHandshake(c) \/ OnMetadataReject(c) \/ MetaPeerGone(c)
    PROVE  MetaIInv'
<1> USE DEF MetaIInv
<1>1. MetaRegistered \in SUBSET MetaPeer /\ MetaRegistered \ {c} \in SUBSET MetaPeer
  BY DEF MetaRegistered
<1>2. CASE OnHandshake(c)
  <2>1. CASE fetch = NoFetch
    <3>1. StartAmong(MetaRegistered)
      BY <1>2, <2>1 DEF OnHandshake
    <3>2. /\ FetchTypeOK' /\ asked' \in [MetaPeer -> SUBSET Index]
          /\ fetch' # NoFetch => fetch'.peer \in MetaRegistered
          /\ fetch' = NoFetch /\ ~info => \A d \in MetaRegistered : ~Offering(d)
      BY <1>1, <3>1, StartChooses
    <3>3. CASE fetch' = NoFetch /\ ~info
      <4>1. \A d \in MetaRegistered : ~Offering(d)
        BY <3>2, <3>3
      <4>2. MetaTypes' /\ SilentAtFirst' /\ InfoOpens'
        <5>1. Tail(notices[c]) \in Seq(Notice) /\ Len(Tail(notices[c])) <= NoticeRoom
          <6>1. notices[c] \in Seq(Notice) /\ notices[c] # <<>> /\ Len(notices[c]) <= NoticeRoom
            BY <1>2 DEF OnHandshake, MetaTypes, MetadataTypeOK
          <6>2. Tail(notices[c]) \in Seq(Notice) /\ Len(Tail(notices[c])) <= Len(notices[c]) /\ Len(notices[c]) \in Nat
            BY <6>1, QueueShrinks
          <6>3. Len(Tail(notices[c])) \in Nat
            BY <6>2, LenProperties
          <6>4. QED
            BY <6>1, <6>2, <6>3 DEF NoticeRoom
        <5>2. MetaTypes'
          BY <1>2, <3>2, <5>1 DEF OnHandshake, MetaTypes, MetadataTypeOK, FetchTypeOK
        <5>3. \A d \in MetaPeer : notices[d] = <<>> => notices'[d] = <<>>
          BY <1>2 DEF OnHandshake, MetaTypes
        <5>4. QED
          BY <1>2, <5>2, <5>3 DEF OnHandshake, SilentAtFirst, InfoOpens
      <4>3. FetchIsAliveUnlessPaused' /\ NothingIdle'
        BY <1>2, <3>3, <4>1 DEF OnHandshake, FetchIsAliveUnlessPaused, FetchIsAlive, NothingIdle, MetaRegistered, InPeers, Offering
      <4>4. QED
        BY <4>2, <4>3
    <3>4. CASE ~(fetch' = NoFetch /\ ~info)
      BY <1>2, <3>2, <3>4, EventKeepsMetadata DEF OnHandshake, Refetched
    <3>5. QED
      BY <3>3, <3>4
  <2>2. CASE fetch # NoFetch
    BY <1>2, <2>2, EventKeepsMetadata DEF OnHandshake, Refetched
  <2>3. QED
    BY <2>1, <2>2
<1>3. CASE OnMetadataReject(c)
  <2>1. Refetched(MetaRegistered)
    BY <1>1, <1>3, AbandonRefetches DEF OnMetadataReject
  <2>2. QED
    BY <1>3, <2>1, EventKeepsMetadata DEF OnMetadataReject
<1>4. CASE MetaPeerGone(c)
  <2>1. /\ tie' = [tie EXCEPT ![c] = "gone"] /\ UNCHANGED <<status, info, claims, shook, notices, parts, tricks, shut, wasted>>
        /\ tie[c] \in {"closed", "forgotten"}
    BY <1>4 DEF MetaPeerGone
  <2>2. IF InPeers(c) THEN Abandon(c, MetaRegistered \ {c}) ELSE UNCHANGED <<fetch, asked>>
    BY <1>4 DEF MetaPeerGone
  <2>3. /\ Refetched(MetaRegistered \ {c})
        /\ InPeers(c) /\ fetch # NoFetch /\ fetch.peer = c => ~UNCHANGED <<fetch, asked>> \/ StartAmong(MetaRegistered \ {c})
        /\ fetch = NoFetch \/ fetch.peer # c \/ ~InPeers(c) => UNCHANGED <<fetch, asked>>
    BY <1>1, <2>2, AbandonRefetches DEF Refetched, Abandon
  <2>4. MetaRegistered' = MetaRegistered \ {c}
    BY <2>1 DEF MetaRegistered, InPeers, MetaTypes, MetadataTypeOK
  <2>5. FetchTypeOK' /\ asked' \in [MetaPeer -> SUBSET Index]
    BY <2>3 DEF Refetched, MetaTypes, MetadataTypeOK, FetchTypeOK
  <2>6. MetaTypes'
    BY <2>1, <2>5 DEF MetaTypes, MetadataTypeOK, FetchTypeOK
  <2>7. SilentAtFirst' /\ InfoOpens'
    <3>1. \A d \in MetaPeer : tie'[d] = "new" => tie[d] = "new"
      BY <2>1 DEF MetaTypes, MetadataTypeOK
    <3>2. QED
      BY <2>1, <3>1 DEF SilentAtFirst, InfoOpens
  <2>8. FetchIsAliveUnlessPaused'
    <3>1. SUFFICES ASSUME ~shut, fetch' # NoFetch PROVE fetch'.peer \in MetaRegistered'
      BY <2>1 DEF FetchIsAliveUnlessPaused, FetchIsAlive, MetaRegistered
    <3>2. CASE UNCHANGED <<fetch, asked>> /\ fetch.peer # c
      <4>1. fetch.peer \in MetaPeer
        BY <3>1, <3>2 DEF MetaTypes, MetadataTypeOK, FetchState
      <4>2. InPeers(fetch.peer)
        BY <3>1, <3>2 DEF FetchIsAliveUnlessPaused, FetchIsAlive
      <4>3. QED
        BY <2>4, <3>2, <4>1, <4>2 DEF MetaRegistered
    <3>3. CASE UNCHANGED <<fetch, asked>> /\ fetch.peer = c
      <4>1. InPeers(c)
        BY <3>1, <3>3 DEF FetchIsAliveUnlessPaused, FetchIsAlive
      <4>2. StartAmong(MetaRegistered \ {c})
        BY <2>3, <3>1, <3>3, <4>1
      <4>3. fetch'.peer \in MetaRegistered \ {c}
        BY <1>1, <3>1, <4>2, StartChooses
      <4>4. QED
        BY <2>4, <4>3
    <3>4. CASE ~ UNCHANGED <<fetch, asked>>
      BY <2>3, <2>4, <3>1, <3>4 DEF Refetched
    <3>5. QED
      BY <3>2, <3>3, <3>4
  <2>9. NothingIdle'
    <3>1. SUFFICES ASSUME ~info, fetch' = NoFetch, ~wasted, NEW d \in MetaRegistered \ {c}, Offering(d) PROVE Pending(d)
      BY <2>1, <2>4 DEF NothingIdle, Offering, Pending
    <3>2. UNCHANGED <<fetch, asked>>
      BY <2>3, <3>1 DEF Refetched
    <3>3. QED
      BY <3>1, <3>2 DEF NothingIdle
  <2>10. QED
    BY <2>6, <2>7, <2>8, <2>9
<1>5. QED
  BY <1>2, <1>3, <1>4

\* The piece that a peer's queue of metadata pieces begins with.
LEMMA PieceIsTaken ==
    ASSUME MetaTypes, NEW c \in MetaPeer, parts[c] # <<>>, parts' = [parts EXCEPT ![c] = Tail(@)]
    PROVE  /\ Head(parts[c])[1] \in Index /\ Head(parts[c])[2] \in Quality
           /\ parts' \in [MetaPeer -> Seq(Index \X Quality)]
           /\ \A d \in MetaPeer : Len(parts'[d]) <= NoticeRoom
<1>1. parts[c] \in Seq(Index \X Quality) /\ Len(parts[c]) <= NoticeRoom
  BY DEF MetaTypes, MetadataTypeOK
<1>2. /\ Head(parts[c]) \in Index \X Quality /\ Tail(parts[c]) \in Seq(Index \X Quality)
      /\ Len(Tail(parts[c])) <= Len(parts[c]) /\ Len(parts[c]) \in Nat
  BY <1>1, QueueShrinks
<1>3. Len(Tail(parts[c])) \in Nat
  BY <1>2, LenProperties
<1>4. Len(Tail(parts[c])) <= NoticeRoom
  BY <1>1, <1>2, <1>3 DEF NoticeRoom
<1>5. QED
  BY <1>2, <1>4 DEF MetaTypes, MetadataTypeOK

\* A fetch that a further piece belongs to.
LEMMA PieceIsAdded ==
    ASSUME MetaTypes, fetch # NoFetch, NEW i \in Index, NEW q \in Quality, Expected(i),
           NEW arrived, arrived = [j \in DOMAIN fetch.arrived \cup {i} |-> IF j = i THEN q ELSE fetch.arrived[j]],
           Cardinality(DOMAIN arrived) < fetch.pieces, fetch' = [fetch EXCEPT !.arrived = arrived]
    PROVE  fetch' # NoFetch /\ fetch'.peer = fetch.peer /\ FetchTypeOK'
<1>1. /\ fetch \in FetchState /\ DOMAIN fetch.arrived \subseteq 0..(fetch.pieces - 1)
  BY DEF MetaTypes, MetadataTypeOK
<1>2. PICK D \in SUBSET Index : fetch.arrived \in [D -> Quality]
  BY <1>1 DEF FetchState
<1>3. fetch.peer \in MetaPeer /\ fetch.pieces \in 1..InfoPieces
  BY <1>1 DEF FetchState
<1>4. DOMAIN fetch.arrived = D /\ D \cup {i} \in SUBSET Index
  BY <1>2
<1>5. arrived \in [D \cup {i} -> Quality] /\ DOMAIN arrived = D \cup {i}
  BY <1>2, <1>4
<1>6. arrived \in UNION {[E -> Quality] : E \in SUBSET Index}
  BY <1>4, <1>5
<1>7. DOMAIN arrived \subseteq 0..(fetch.pieces - 1)
  <2>1. i \in 0..(fetch.pieces - 1)
    BY <1>3, MetadataAssumption DEF Expected, Index
  <2>2. QED
    BY <1>1, <1>4, <1>5, <2>1
<1>8. fetch' = [peer |-> fetch.peer, pieces |-> fetch.pieces, arrived |-> arrived]
  BY <1>1 DEF FetchState
<1>9. fetch' \in FetchState
  BY <1>3, <1>6, <1>8 DEF FetchState
<1>10. fetch' # NoFetch
  BY <1>9, MetadataAssumption
<1>11. fetch'.peer = fetch.peer /\ fetch'.pieces = fetch.pieces /\ fetch'.arrived = arrived
  BY <1>8
<1>12. QED
  BY <1>7, <1>9, <1>10, <1>11 DEF FetchTypeOK

\* onMetadataPiece.
LEMMA PieceKeepsMetadata ==
    ASSUME MetaIInv, NEW c \in MetaPeer, OnMetadataPiece(c)
    PROVE  MetaIInv'
<1> USE DEF MetaIInv
<1> DEFINE i == Head(parts[c])[1]
           q == Head(parts[c])[2]
           more == [j \in DOMAIN fetch.arrived \cup {i} |-> IF j = i THEN q ELSE fetch.arrived[j]]
<1>1. /\ UNCHANGED <<claims, shook, notices, tricks, shut>>
      /\ parts[c] # <<>> /\ parts' = [parts EXCEPT ![c] = Tail(@)]
  BY DEF OnMetadataPiece
<1>2. /\ i \in Index /\ q \in Quality
      /\ parts' \in [MetaPeer -> Seq(Index \X Quality)]
      /\ \A d \in MetaPeer : Len(parts'[d]) <= NoticeRoom
  BY <1>1, PieceIsTaken
<1>3. \/ UNCHANGED <<fetch, asked, info, status, wasted, tie>>
      \/ /\ fetch # NoFetch /\ fetch.peer = c /\ Expected(i)
         /\ \/ /\ Cardinality(DOMAIN more) < fetch.pieces /\ fetch' = [fetch EXCEPT !.arrived = more]
               /\ UNCHANGED <<asked, info, status, wasted, tie>>
            \/ fetch' = NoFetch /\ DoSetMetadata /\ UNCHANGED <<asked, tie>>
            \/ Discard(c)
  BY Zenon DEF OnMetadataPiece
<1> HIDE DEF i, q
<1>4. CASE UNCHANGED <<fetch, asked, info, status, wasted, tie>>
  <2>1. MetaTypes'
    BY <1>1, <1>2, <1>4 DEF MetaTypes, MetadataTypeOK
  <2>2. SilentAtFirst' /\ InfoOpens' /\ FetchIsAliveUnlessPaused'
    BY <1>1, <1>4 DEF SilentAtFirst, InfoOpens, FetchIsAliveUnlessPaused, FetchIsAlive, InPeers
  <2>3. NothingIdle'
    BY <1>1, <1>4 DEF NothingIdle, Offering, Pending, MetaRegistered, InPeers
  <2>4. QED
    BY <2>1, <2>2, <2>3
<1>5. CASE /\ fetch # NoFetch /\ Expected(i) /\ UNCHANGED <<asked, info, status, wasted, tie>>
           /\ Cardinality(DOMAIN more) < fetch.pieces /\ fetch' = [fetch EXCEPT !.arrived = more]
  <2> HIDE DEF more
  <2>1. more = [j \in DOMAIN fetch.arrived \cup {i} |-> IF j = i THEN q ELSE fetch.arrived[j]]
    BY DEF more
  <2>2. fetch' # NoFetch /\ fetch'.peer = fetch.peer /\ FetchTypeOK'
    BY <1>2, <1>5, <2>1, PieceIsAdded
  <2>3. MetaTypes'
    BY <1>1, <1>2, <1>5, <2>2 DEF MetaTypes, MetadataTypeOK, FetchTypeOK
  <2>4. SilentAtFirst' /\ InfoOpens'
    BY <1>1, <1>5 DEF SilentAtFirst, InfoOpens
  <2>5. FetchIsAliveUnlessPaused' /\ NothingIdle'
    BY <1>1, <1>5, <2>2 DEF FetchIsAliveUnlessPaused, FetchIsAlive, InPeers, NothingIdle
  <2>6. QED
    BY <2>3, <2>4, <2>5
<1>6. CASE fetch' = NoFetch /\ DoSetMetadata /\ UNCHANGED <<asked, tie>>
  <2>1. CASE status = "fetching" /\ info' = TRUE /\ status' \in {"open", "error"} /\ UNCHANGED wasted
    <3>1. info' \in BOOLEAN /\ info'
      BY <2>1, Zenon
    <3>2. MetaTypes'
      BY <1>1, <1>2, <1>6, <2>1, <3>1 DEF MetaTypes, MetadataTypeOK
    <3>3. SilentAtFirst' /\ InfoOpens'
      BY <1>1, <1>6, <2>1, <3>1 DEF SilentAtFirst, InfoOpens
    <3>4. FetchIsAliveUnlessPaused' /\ NothingIdle'
      BY <1>1, <1>6, <3>1 DEF FetchIsAliveUnlessPaused, FetchIsAlive, NothingIdle
    <3>5. QED
      BY <3>2, <3>3, <3>4
  <2>2. CASE wasted' = TRUE /\ UNCHANGED <<info, status>>
    <3>1. wasted'
      BY <2>2
    <3>2. MetaTypes'
      BY <1>1, <1>2, <1>6, <2>2 DEF MetaTypes, MetadataTypeOK
    <3>3. SilentAtFirst' /\ InfoOpens'
      BY <1>1, <1>6, <2>2 DEF SilentAtFirst, InfoOpens
    <3>4. FetchIsAliveUnlessPaused' /\ NothingIdle'
      BY <1>1, <1>6, <3>1 DEF FetchIsAliveUnlessPaused, FetchIsAlive, NothingIdle
    <3>5. QED
      BY <3>2, <3>3, <3>4
  <2>3. QED
    BY <1>6, <2>1, <2>2 DEF DoSetMetadata
<1>7. CASE Discard(c)
  <2>1. /\ StartAmong(MetaRegistered) /\ UNCHANGED <<info, status, wasted>>
        /\ tie' = [tie EXCEPT ![c] = IF @ = "registered" THEN "closed" ELSE @]
    BY <1>7 DEF Discard
  <2>2. MetaRegistered \in SUBSET MetaPeer
    BY DEF MetaRegistered
  <2>3. /\ FetchTypeOK' /\ asked' \in [MetaPeer -> SUBSET Index]
        /\ fetch' # NoFetch => fetch'.peer \in MetaRegistered
        /\ fetch' = NoFetch /\ ~info => \A d \in MetaRegistered : ~Offering(d)
    BY <2>1, <2>2, StartChooses
  <2>4. /\ tie' \in [MetaPeer -> {"new", "registered", "closed", "forgotten", "gone"}]
        /\ \A d \in MetaPeer : (InPeers(d)' <=> InPeers(d)) /\ (tie'[d] = "new" => tie[d] = "new")
    BY <2>1 DEF MetaTypes, MetadataTypeOK, InPeers
  <2>5. MetaRegistered' = MetaRegistered
    BY <2>4 DEF MetaRegistered
  <2>6. MetaTypes'
    BY <1>1, <1>2, <2>1, <2>3, <2>4 DEF MetaTypes, MetadataTypeOK, FetchTypeOK
  <2>7. SilentAtFirst' /\ InfoOpens'
    BY <1>1, <2>1, <2>4 DEF SilentAtFirst, InfoOpens
  <2>8. FetchIsAliveUnlessPaused' /\ NothingIdle'
    BY <1>1, <2>1, <2>2, <2>3, <2>4, <2>5
       DEF FetchIsAliveUnlessPaused, FetchIsAlive, NothingIdle, MetaRegistered, Offering
  <2>9. QED
    BY <2>6, <2>7, <2>8
<1>8. QED
  BY <1>3, <1>4, <1>5, <1>6, <1>7

\* Pause and resume.
LEMMA PauseKeepsMetadata ==
    ASSUME MetaIInv, MetaPause \/ MetaResume
    PROVE  MetaIInv'
<1> USE DEF MetaIInv
<1>1. CASE MetaPause
  <2>1. /\ shut' = TRUE /\ status = "fetching" /\ status' = "paused" /\ tricks' \in 0..MaxTricks
        /\ UNCHANGED <<info, fetch, claims, shook, notices, parts, wasted>>
        /\ tie' = [c \in MetaPeer |-> IF InPeers(c) THEN "forgotten" ELSE tie[c]]
        /\ asked' = [c \in MetaPeer |-> {}]
    BY <1>1, MetadataAssumption DEF MetaPause, MetaTypes, MetadataTypeOK
  <2>2. /\ tie' \in [MetaPeer -> {"new", "registered", "closed", "forgotten", "gone"}]
        /\ \A d \in MetaPeer : ~InPeers(d)' /\ (tie'[d] = "new" => tie[d] = "new")
    BY <2>1 DEF MetaTypes, MetadataTypeOK, InPeers
  <2>3. MetaTypes'
    BY <2>1, <2>2 DEF MetaTypes, MetadataTypeOK
  <2>4. SilentAtFirst' /\ InfoOpens'
    BY <2>1, <2>2 DEF SilentAtFirst, InfoOpens
  <2>5. FetchIsAliveUnlessPaused' /\ NothingIdle'
    <3>1. shut' /\ MetaRegistered' = {}
      BY <2>1, <2>2 DEF MetaRegistered
    <3>2. QED
      BY <3>1 DEF FetchIsAliveUnlessPaused, NothingIdle
  <2>6. QED
    BY <2>3, <2>4, <2>5
<1>2. CASE MetaResume
  <2>1. /\ status = "paused" /\ status' = "fetching"
        /\ UNCHANGED <<info, fetch, tie, claims, shook, notices, parts, asked, tricks, shut, wasted>>
    BY <1>2 DEF MetaResume
  <2>2. MetaTypes' /\ SilentAtFirst' /\ InfoOpens'
    BY <2>1 DEF MetaTypes, MetadataTypeOK, SilentAtFirst, InfoOpens
  <2>3. FetchIsAliveUnlessPaused' /\ NothingIdle'
    BY <2>1 DEF FetchIsAliveUnlessPaused, FetchIsAlive, NothingIdle, MetaRegistered, InPeers, Offering, Pending
  <2>4. QED
    BY <2>2, <2>3
<1>3. QED
  BY <1>1, <1>2

\* A step of nothing.
LEMMA StutterKeepsMetadata == MetaIInv /\ UNCHANGED metadataVars => MetaIInv'
<1> SUFFICES ASSUME MetaIInv, UNCHANGED metadataVars PROVE MetaIInv'
  OBVIOUS
<1> USE DEF MetaIInv, metadataVars
<1>1. MetaTypes' /\ SilentAtFirst' /\ InfoOpens'
  BY DEF MetaTypes, MetadataTypeOK, SilentAtFirst, InfoOpens
<1>2. FetchIsAliveUnlessPaused' /\ NothingIdle'
  BY DEF FetchIsAliveUnlessPaused, FetchIsAlive, NothingIdle, MetaRegistered, InPeers, Offering, Pending
<1>3. QED
  BY <1>1, <1>2

(***************************************************************************)
(* metadata.go: the metadata is fetched from a peer that is connected (save*)
(* after a pause, which forgets the peers and not the fetch), and while    *)
(* there is a connected peer that offers it, it is fetched from one.       *)
(***************************************************************************)
THEOREM MetadataIsSought == MetadataSpec => []MetadataInv
<1>1. MetadataInit => MetaIInv
  BY MetadataInitially
<1>2. MetaIInv /\ [MetadataNext]_metadataVars => MetaIInv'
  <2>1. ASSUME MetaIInv, NEW c \in MetaPeer, MetaPeerNext(c) PROVE MetaIInv'
    BY <2>1, PeerKeepsMetadata, ActorKeepsMetadata, PieceKeepsMetadata DEF MetaPeerNext
  <2>2. QED
    BY <2>1, PauseKeepsMetadata, StutterKeepsMetadata DEF MetadataNext
<1>3. MetaIInv => MetadataInv
  BY DEF MetaIInv, MetaTypes, NothingIdle, InfoOpens, MetadataInv, NoIdleFetch
<1>4. QED
  BY <1>1, <1>2, <1>3, PTL DEF MetadataSpec

-----------------------------------------------------------------------------
(* Sessions *)

\* The types, the queues included.
SessionTypes ==
    /\ SessionTypeOK
    /\ events \in [Conn -> Seq(Event)] /\ outbound \in [Conn -> Seq(Frame)] /\ work \in [Conn -> Seq(Piece)]
    /\ lost \in [Conn -> SUBSET Frame] /\ dropped \subseteq Conn
    /\ gap \in [Conn -> SUBSET Piece] /\ overlapped \subseteq Conn

\* What a connection may have said and heard at each stage.
FirstThings(c) ==
    /\ stage[c] \in {"none", "dialing"} <=> joined[c] = "no"
    /\ stage[c] \in {"none", "dialing", "hello", "look", "greet"} => said[c] = 0
    /\ said[c] = 0 => taken[c] = None /\ announced[c] = {} /\ pending[c] = None
    /\ taken[c] # None /\ taken[c].message.kind \in {"bitfield", "haveall"} => announced[c] = {} /\ pending[c] = None
    /\ c \in registered => joined[c] = "handled"

\* The geometry, and the bitfield that waits for it.
Geometries(c) ==
    /\ ~metadata => geometry[c] = "none"
    /\ geometry[c] = "none" => ~wide[c]
    /\ ~wide[c] => bits[c] = {}
    /\ taken[c] # None /\ taken[c].known => geometry[c] # "none"
    /\ pending[c] # None => pending[c] \subseteq announced[c]
    /\ <<c, FALSE>> \in upgrading => geometry[c] = "none" /\ <<c, TRUE>> \notin upgrading
    /\ <<c, TRUE>> \in upgrading => geometry[c] # "none" /\ (wide[c] => c \in overlapped)
    /\ geometry[c] # "none" /\ ~wide[c] => <<c, TRUE>> \in upgrading
    /\ c \notin overlapped => IF wide[c] THEN bits[c] = announced[c] ELSE announced[c] = Applied(c)
Upgrades == (\A u \in upgrading : u[1] \in registered) /\ (~metadata => have = {} /\ upgrading = {})

Requests(c) == \A i \in DOMAIN outbound[c] : outbound[c][i].kind = "request" => outbound[c][i].of \in announced[c]
Servable(c) == bits[c] \subseteq announced[c] /\ Requests(c)

\* An event on its way will have a connection counted for a piece, or the upgrade will.
CountsFor(e, p) == e.kind = "bitfield" \/ (e.kind = "have" /\ e.of = p)
Counting(q, p) == \E i \in DOMAIN q : CountsFor(q[i], p)
Awaits(c, p) == Counting(events[c], p)
Upgraded(c) == \A s \in BOOLEAN : <<c, s>> \notin upgrading
Credited(p) == {c \in registered : p \in bits[c] /\ ~Awaits(c, p) /\ Upgraded(c)}
Due(p) == counts[p] + stale[p]
Covered == dropped = {} =>
    /\ \A p \in Piece : Due(p) >= Cardinality(Credited(p))
    /\ \A c \in Conn : \A p \in bits[c] : joined[c] # "handled" => Awaits(c, p)

\* What a peer will know of a piece when all that is queued has been sent.
Informs(f, p) == (f.kind = "have" /\ f.of = p) \/ (f.kind = "bitfield" /\ p \in f.of)
Erases(f, p) == f.kind = "bitfield" /\ p \notin f.of
Knows(q, t, p) ==
    \/ p \in t /\ \A i \in DOMAIN q : ~Erases(q[i], p)
    \/ \E i \in DOMAIN q : Informs(q[i], p) /\ \A j \in DOMAIN q : j > i => ~Erases(q[j], p)
Hears(c) ==
    /\ stage[c] = "greet" => have \subseteq snapshot[c] \cup gap[c]
    /\ stage[c] = "reading" => \A p \in have : p \in gap[c] \cup LostPieces(c) \/ Knows(outbound[c], told[c], p)

\* What it will take us for then: choking or not.
ChokeKinds == {"choke", "unchoke"}
Word(b) == IF b THEN "choke" ELSE "unchoke"
SaysLast(q, was, b) ==
    \/ was = b /\ \A i \in DOMAIN q : q[i].kind \notin ChokeKinds
    \/ \E i \in DOMAIN q : q[i].kind = Word(b) /\ \A j \in DOMAIN q : j > i => q[j].kind \notin ChokeKinds
Choked(c) == stage[c] \notin {"closed", "over", "gone"} /\ ~LostChoke(c) => SaysLast(outbound[c], choked[c], amChoking[c])

\* Inductive.
SessionIInv ==
    /\ SessionTypes /\ Upgrades /\ Covered
    /\ \A c \in Conn : FirstThings(c) /\ Geometries(c) /\ Servable(c) /\ Hears(c) /\ Choked(c)

\* What a frame is about is a piece, or a set of them.
LEMMA FramesAre ==
    ASSUME NEW f \in Frame
    PROVE  /\ f.kind \in {"interested", "choke", "unchoke", "have", "request", "piece", "reject", "bitfield"}
           /\ f.kind \in {"have", "request", "piece", "reject"} => f.of \in Piece
           /\ f.kind = "bitfield" => f.of \in SUBSET Piece
<1>1. CASE f \in [kind : {"interested", "choke", "unchoke"}]
  BY <1>1
<1>2. CASE f \in [kind : {"have", "request", "piece", "reject"}, of : Piece]
  BY <1>2
<1>3. CASE f \in [kind : {"bitfield"}, of : SUBSET Piece]
  BY <1>3
<1>4. QED
  BY <1>1, <1>2, <1>3 DEF Frame

LEMMA FramesMade ==
    /\ \A k \in {"interested", "choke", "unchoke"} : [kind |-> k] \in Frame
    /\ \A k \in {"have", "request", "piece", "reject"}, p \in Piece : [kind |-> k, of |-> p] \in Frame
    /\ \A S \in SUBSET Piece : [kind |-> "bitfield", of |-> S] \in Frame
BY DEF Frame

LEMMA MessagesAre ==
    ASSUME NEW m \in Message
    PROVE  /\ m.kind \in {"have", "request", "allowedfast"} => m.of \in Piece
           /\ m.kind \in {"bitfield", "haveall"} => m.of \in SUBSET Piece
<1>1. CASE m \in [kind : {"choke", "unchoke", "interest", "malformed"}]
  BY <1>1
<1>2. CASE m \in [kind : {"have", "request", "allowedfast"}, of : Piece]
  BY <1>2
<1>3. CASE m \in [kind : {"bitfield", "haveall"}, of : SUBSET Piece]
  BY <1>3
<1>4. QED
  BY <1>1, <1>2, <1>3 DEF Message

LEMMA EventsAre ==
    /\ \A e \in Event : e.kind = "have" => e.of \in Piece
    /\ \A k \in {"bitfield", "choke", "other"} : [kind |-> k] \in Event
    /\ \A p \in Piece : [kind |-> "have", of |-> p] \in Event
BY DEF Event

\* A queue that grows by one at its end, or is left without its first.
LEMMA Appending ==
    ASSUME NEW T, NEW q \in Seq(T), NEW f \in T
    PROVE  /\ Append(q, f) \in Seq(T) /\ Len(Append(q, f)) = Len(q) + 1
           /\ DOMAIN q = 1..Len(q) /\ DOMAIN Append(q, f) = 1..Len(q) + 1 /\ Len(q) \in Nat
           /\ \A i \in DOMAIN q : Append(q, f)[i] = q[i]
           /\ Append(q, f)[Len(q) + 1] = f
OBVIOUS

LEMMA Popping ==
    ASSUME NEW T, NEW q \in Seq(T), q # <<>>
    PROVE  /\ Head(q) \in T /\ Head(q) = q[1] /\ Tail(q) \in Seq(T) /\ Len(Tail(q)) = Len(q) - 1
           /\ DOMAIN q = 1..Len(q) /\ DOMAIN Tail(q) = 1..Len(q) - 1 /\ Len(q) \in Nat /\ Len(q) > 0
           /\ \A i \in DOMAIN Tail(q) : Tail(q)[i] = q[i + 1]
OBVIOUS

\* send and notify change one queue, and put at most one more at its end.
LEMMA Broadcasts ==
    ASSUME SessionTypes, NEW C \in SUBSET Conn, NEW f \in Frame, Broadcast(C, f)
    PROVE  /\ outbound' \in [Conn -> Seq(Frame)] /\ lost' \in [Conn -> SUBSET Frame]
           /\ \A x \in Conn : Len(outbound'[x]) <= OutboundSize
           /\ \A x \in Conn : x \notin C \/ ~Open(x) => outbound'[x] = outbound[x] /\ lost'[x] = lost[x]
           /\ \A x \in Conn : x \in C /\ Open(x) =>
                  \/ outbound'[x] = Append(outbound[x], f) /\ lost'[x] = lost[x]
                  \/ outbound'[x] = outbound[x] /\ lost'[x] = lost[x] \cup {f}
<1>1. /\ outbound \in [Conn -> Seq(Frame)] /\ lost \in [Conn -> SUBSET Frame]
      /\ \A x \in Conn : Len(outbound[x]) <= OutboundSize /\ Len(outbound[x]) \in Nat
      /\ OutboundSize \in Nat
  BY SessionAssumption DEF SessionTypes, SessionTypeOK
<1>2. \A x \in Conn : Append(outbound[x], f) \in Seq(Frame) /\ Len(Append(outbound[x], f)) = Len(outbound[x]) + 1
  BY <1>1, Appending
<1>3. /\ outbound' = [x \in Conn |-> IF x \in C /\ Open(x) /\ ~(Len(outbound[x]) >= OutboundSize)
                                     THEN Append(outbound[x], f) ELSE outbound[x]]
      /\ lost' = [x \in Conn |-> IF x \in C /\ Open(x) /\ Len(outbound[x]) >= OutboundSize
                                 THEN lost[x] \cup {f} ELSE lost[x]]
  BY DEF Broadcast
<1>4. outbound' \in [Conn -> Seq(Frame)] /\ lost' \in [Conn -> SUBSET Frame]
  BY <1>1, <1>2, <1>3
<1>5. \A x \in Conn : Len(outbound'[x]) <= OutboundSize
  BY <1>1, <1>2, <1>3
<1>6. QED
  BY <1>1, <1>3, <1>4, <1>5

LEMMA Notifies ==
    ASSUME SessionTypes, NEW c \in Conn, NEW e \in Event, Notify(c, e)
    PROVE  /\ events' \in [Conn -> Seq(Event)] /\ dropped' \subseteq Conn /\ dropped \subseteq dropped'
           /\ \A x \in Conn : Len(events'[x]) <= EventSize
           /\ \A x \in Conn : x # c => events'[x] = events[x]
           /\ events'[c] = Append(events[c], e) \/ (dropped' # {} /\ events' = events)
<1>1. /\ events \in [Conn -> Seq(Event)] /\ dropped \subseteq Conn
      /\ \A x \in Conn : Len(events[x]) <= EventSize /\ Len(events[x]) \in Nat
      /\ EventSize \in Nat
  BY SessionAssumption DEF SessionTypes, SessionTypeOK
<1>2. Append(events[c], e) \in Seq(Event) /\ Len(Append(events[c], e)) = Len(events[c]) + 1
  BY <1>1, Appending
<1>3. CASE Len(events[c]) < EventSize
  <2> DEFINE q == Append(events[c], e)
  <2>1. events' = [events EXCEPT ![c] = q] /\ dropped' = dropped
    BY <1>3 DEF Notify
  <2>2. q \in Seq(Event) /\ Len(q) <= EventSize
    BY <1>1, <1>2, <1>3
  <2>3. events'[c] = q
    BY <1>1, <2>1
  <2> HIDE DEF q
  <2>4. events' \in [Conn -> Seq(Event)] /\ \A x \in Conn : Len(events'[x]) <= EventSize /\ (x # c => events'[x] = events[x])
    BY <1>1, <2>1, <2>2
  <2>5. QED
    BY <1>1, <2>1, <2>3, <2>4 DEF q
<1>4. CASE ~(Len(events[c]) < EventSize)
  BY <1>1, <1>4 DEF Notify
<1>5. QED
  BY <1>3, <1>4

\* The message that is being handled.
LEMMA MessageTaken ==
    ASSUME SessionTypes, NEW c \in Conn, HandleMessage(c)
    PROVE  /\ taken[c] # None /\ taken[c].known \in BOOLEAN /\ taken[c].message \in Message
           /\ taken[c].message.kind \in {"have", "request", "allowedfast"} => taken[c].message.of \in Piece
           /\ taken[c].message.kind \in {"bitfield", "haveall"} => taken[c].message.of \in SUBSET Piece
<1>1. taken[c] # None
  BY DEF HandleMessage, OnChoke, OnInterest, OnHave, OnBitfield, OnHaveAll, OnAllowedFast, OnRequest, OnMalformed, Handles
<1>2. taken[c].known \in BOOLEAN /\ taken[c].message \in Message
  BY <1>1 DEF SessionTypes, SessionTypeOK
<1>3. QED
  BY <1>1, <1>2, MessagesAre

\* The types are kept.
LEMMA StartKeepsTypes ==
    ASSUME SessionTypes, NEW c \in Conn,
           BeginDial(c) \/ Connects(c) \/ SendInterested(c) \/ LookAtHave(c) \/ SendInitialState(c)
    PROVE  SessionTypes'
<1> USE DEF SessionTypes, SessionTypeOK, actorVars, bitVars, flagVars, remoteVars, queueVars, ghostVars
<1>1. CASE BeginDial(c)
  BY <1>1 DEF BeginDial, Stage
<1>2. CASE Connects(c)
  BY <1>2 DEF Connects, Stage
<1>3. CASE SendInterested(c)
  <2>1. [kind |-> "interested"] \in Frame /\ {c} \in SUBSET Conn
    BY FramesMade
  <2>2. /\ outbound' \in [Conn -> Seq(Frame)] /\ lost' \in [Conn -> SUBSET Frame]
        /\ \A x \in Conn : Len(outbound'[x]) <= OutboundSize
    BY <1>3, <2>1, Broadcasts DEF SendInterested, Send
  <2>3. QED
    BY <1>3, <2>2 DEF SendInterested, Stage
<1>4. CASE LookAtHave(c)
  BY <1>4 DEF LookAtHave, Stage
<1>5. CASE SendInitialState(c)
  <2>1. [kind |-> "bitfield", of |-> snapshot[c]] \in Frame /\ {c} \in SUBSET Conn
    BY FramesMade
  <2>2. /\ outbound' \in [Conn -> Seq(Frame)] /\ lost' \in [Conn -> SUBSET Frame]
        /\ \A x \in Conn : Len(outbound'[x]) <= OutboundSize
    <3>1. CASE Send(c, [kind |-> "bitfield", of |-> snapshot[c]])
      BY <2>1, <3>1, Broadcasts DEF Send
    <3>2. CASE UNCHANGED queueVars
      BY <3>2
    <3>3. QED
      BY <1>5, <3>1, <3>2 DEF SendInitialState
  <2>3. QED
    BY <1>5, <2>2 DEF SendInitialState, Stage
<1>6. QED
  BY <1>1, <1>2, <1>3, <1>4, <1>5

LEMMA ReadKeepsTypes ==
    ASSUME SessionTypes, NEW c \in Conn, ReadMessage(c)
    PROVE  SessionTypes'
<1>1. PICK m \in Message : taken' = [taken EXCEPT ![c] = [message |-> m, known |-> geometry[c] # "none"]]
  BY DEF ReadMessage
<1> DEFINE t == [message |-> m, known |-> geometry[c] # "none"]
<1>2. t \in [message : Message, known : BOOLEAN] /\ taken' = [taken EXCEPT ![c] = t]
  BY <1>1
<1> HIDE DEF t
<1>3. taken' \in [Conn -> [message : Message, known : BOOLEAN] \cup {None}]
  BY <1>2 DEF SessionTypes, SessionTypeOK
<1>4. said' \in [Conn -> 0..MaxMessages]
  BY SessionAssumption DEF ReadMessage, SessionTypes, SessionTypeOK
<1>5. QED
  BY <1>3, <1>4 DEF ReadMessage, SessionTypes, SessionTypeOK, actorVars, bitVars, flagVars, queueVars, ghostVars

LEMMA HandlingKeepsTypes ==
    ASSUME SessionTypes, NEW c \in Conn, HandleMessage(c)
    PROVE  SessionTypes'
<1> USE DEF SessionTypes, SessionTypeOK, actorVars, bitVars, flagVars, remoteVars, queueVars, ghostVars
<1> DEFINE m == taken[c].message
<1>1. /\ m \in Message /\ taken[c] # None /\ taken[c].known \in BOOLEAN
      /\ m.kind \in {"have", "request", "allowedfast"} => m.of \in Piece
      /\ m.kind \in {"bitfield", "haveall"} => m.of \in SUBSET Piece
  BY MessageTaken
<1>3. taken' \in [Conn -> [message : Message, known : BOOLEAN] \cup {None}] /\ stage' \in [Conn -> Stage]
  <2>1. Handled(c) \/ Violates(c)
    BY DEF HandleMessage, OnChoke, OnInterest, OnHave, OnBitfield, OnHaveAll, OnAllowedFast, OnRequest, OnMalformed
  <2> DEFINE R == [message : Message, known : BOOLEAN]
  <2>2. taken \in [Conn -> R \cup {None}] /\ stage \in [Conn -> Stage]
    OBVIOUS
  <2> HIDE DEF R
  <2>3. taken' = [taken EXCEPT ![c] = None]
    BY <2>1 DEF Handled, Violates
  <2>4. taken' \in [Conn -> R \cup {None}]
    BY <2>2, <2>3
  <2>5. stage' = stage \/ stage' = [stage EXCEPT ![c] = "closed"] \/ stage' = [stage EXCEPT ![c] = stage[c]]
    BY <2>1 DEF Handled, Violates
  <2>6. stage' \in [Conn -> Stage]
    BY <2>2, <2>5 DEF Stage
  <2>7. QED
    BY <2>4, <2>6 DEF R
<1>4. /\ [kind |-> "choke"] \in Event /\ [kind |-> "other"] \in Event /\ [kind |-> "bitfield"] \in Event
      /\ m.kind = "have" => [kind |-> "have", of |-> m.of] \in Event
  BY <1>1, EventsAre
<1>5. CASE OnChoke(c)
  <2>1. events' \in [Conn -> Seq(Event)] /\ dropped' \subseteq Conn /\ \A x \in Conn : Len(events'[x]) <= EventSize
    BY <1>4, <1>5, Notifies DEF OnChoke
  <2>2. QED
    BY <1>3, <1>5, <2>1 DEF OnChoke, Handles
<1>6. CASE OnInterest(c)
  <2>1. events' \in [Conn -> Seq(Event)] /\ dropped' \subseteq Conn /\ \A x \in Conn : Len(events'[x]) <= EventSize
    BY <1>4, <1>6, Notifies DEF OnInterest
  <2>2. QED
    BY <1>3, <1>6, <2>1 DEF OnInterest
<1>7. CASE OnHave(c)
  <2>1. m.kind = "have" /\ m.of \in Piece /\ Notify(c, [kind |-> "have", of |-> m.of])
    BY <1>1, <1>7 DEF OnHave, Handles
  <2>2. events' \in [Conn -> Seq(Event)] /\ dropped' \subseteq Conn /\ \A x \in Conn : Len(events'[x]) <= EventSize
    BY <1>4, <2>1, Notifies
  <2>3. bits' \in [Conn -> SUBSET Piece] /\ announced' \in [Conn -> SUBSET Piece] /\ overlapped' \subseteq Conn
    BY <1>7, <2>1 DEF OnHave
  <2>4. QED
    BY <1>3, <1>7, <2>2, <2>3 DEF OnHave
<1>8. CASE OnBitfield(c)
  <2>1. m.of \in SUBSET Piece
    BY <1>1, <1>8 DEF OnBitfield, Handles
  <2>2. events' \in [Conn -> Seq(Event)] /\ dropped' \subseteq Conn /\ \A x \in Conn : Len(events'[x]) <= EventSize
    <3>1. CASE Notify(c, [kind |-> "bitfield"])
      BY <1>4, <3>1, Notifies
    <3>2. CASE UNCHANGED <<events, dropped>>
      BY <3>2
    <3>3. QED
      BY <1>8, <3>1, <3>2 DEF OnBitfield
  <2>3. /\ bits' \in [Conn -> SUBSET Piece] /\ announced' \in [Conn -> SUBSET Piece]
        /\ pending' \in [Conn -> {None} \cup (SUBSET Piece)] /\ overlapped' \subseteq Conn
    <3>1. announced' \in [Conn -> SUBSET Piece]
      BY <1>8, <2>1 DEF OnBitfield
    <3>2. bits' = bits \/ bits' = [bits EXCEPT ![c] = m.of] \/ bits' = [bits EXCEPT ![c] = bits[c]]
      BY <1>8 DEF OnBitfield
    <3>3. bits' \in [Conn -> SUBSET Piece]
      BY <2>1, <3>2
    <3>4. pending' = pending \/ pending' = [pending EXCEPT ![c] = m.of]
      BY <1>8 DEF OnBitfield
    <3>5. pending' \in [Conn -> {None} \cup (SUBSET Piece)]
      BY <2>1, <3>4
    <3>6. overlapped' \subseteq Conn
      BY <1>8 DEF OnBitfield, Late
    <3>7. QED
      BY <3>1, <3>3, <3>5, <3>6
  <2>4. QED
    BY <1>3, <1>8, <2>2, <2>3 DEF OnBitfield
<1>9. CASE OnHaveAll(c)
  <2>1. events' \in [Conn -> Seq(Event)] /\ dropped' \subseteq Conn /\ \A x \in Conn : Len(events'[x]) <= EventSize
    BY <1>4, <1>9, Notifies DEF OnHaveAll
  <2>2. /\ bits' \in [Conn -> SUBSET Piece] /\ announced' \in [Conn -> SUBSET Piece] /\ wide' \in [Conn -> BOOLEAN]
        /\ pending' \in [Conn -> {None} \cup (SUBSET Piece)] /\ overlapped' \subseteq Conn
    <3>1. announced' \in [Conn -> SUBSET Piece]
      BY <1>9 DEF OnHaveAll
    <3> DEFINE S == Piece
    <3>2. S \in SUBSET Piece
      OBVIOUS
    <3>4. /\ (bits' = bits /\ wide' = wide) \/ (bits' = [bits EXCEPT ![c] = S] /\ wide' = [wide EXCEPT ![c] = TRUE])
          /\ pending' = pending \/ pending' = [pending EXCEPT ![c] = S]
      BY <1>9 DEF OnHaveAll
    <3> HIDE DEF S
    <3>3. bits' \in [Conn -> SUBSET Piece] /\ wide' \in [Conn -> BOOLEAN]
      BY <3>2, <3>4
    <3>5. pending' \in [Conn -> {None} \cup (SUBSET Piece)]
      <4> DEFINE R == {None} \cup (SUBSET Piece)
      <4>1. pending \in [Conn -> R] /\ S \in R
        BY <3>2
      <4> HIDE DEF R
      <4>2. pending' \in [Conn -> R]
        BY <3>4, <4>1
      <4>3. QED
        BY <4>2 DEF R
    <3>6. overlapped' \subseteq Conn
      BY <1>9 DEF OnHaveAll, Late
    <3>7. QED
      BY <3>1, <3>3, <3>5, <3>6
  <2>3. QED
    BY <1>3, <1>9, <2>1, <2>2 DEF OnHaveAll
<1>10. CASE OnAllowedFast(c)
  <2>1. m.of \in Piece
    BY <1>1, <1>10 DEF OnAllowedFast, Handles
  <2>2. allowedFast' \in [Conn -> SUBSET Piece]
    BY <1>10, <2>1 DEF OnAllowedFast
  <2>3. QED
    BY <1>3, <1>10, <2>2 DEF OnAllowedFast
<1>11. CASE OnRequest(c)
  <2>1. [kind |-> "piece", of |-> m.of] \in Frame /\ [kind |-> "reject", of |-> m.of] \in Frame /\ {c} \in SUBSET Conn
    BY <1>1, <1>11, FramesMade DEF OnRequest, Handles
  <2>2. /\ outbound' \in [Conn -> Seq(Frame)] /\ lost' \in [Conn -> SUBSET Frame]
        /\ \A x \in Conn : Len(outbound'[x]) <= OutboundSize
    <3>1. CASE Send(c, [kind |-> "piece", of |-> m.of])
      BY <2>1, <3>1, Broadcasts DEF Send
    <3>2. CASE Send(c, [kind |-> "reject", of |-> m.of])
      BY <2>1, <3>2, Broadcasts DEF Send
    <3>3. CASE UNCHANGED queueVars
      BY <3>3
    <3>4. QED
      BY <1>11, <3>1, <3>2, <3>3 DEF OnRequest
  <2>3. QED
    BY <1>3, <1>11, <2>2 DEF OnRequest
<1>12. CASE OnMalformed(c)
  BY <1>3, <1>12 DEF OnMalformed
<1>13. QED
  BY <1>5, <1>6, <1>7, <1>8, <1>9, <1>10, <1>11, <1>12 DEF HandleMessage

LEMMA LoopsKeepTypes ==
    ASSUME SessionTypes, NEW c \in Conn, Disconnects(c) \/ RunReturns(c) \/ SendLoop(c) \/ WriteLoop(c)
    PROVE  SessionTypes'
<1> USE DEF SessionTypes, SessionTypeOK, actorVars, bitVars, flagVars, loopVars, remoteVars, queueVars, ghostVars
<1>1. CASE Disconnects(c)
  BY <1>1 DEF Disconnects, Stage
<1>2. CASE RunReturns(c)
  BY <1>2 DEF RunReturns, Stage
<1>3. CASE SendLoop(c)
  <2> DEFINE f == Head(outbound[c])
             q == Tail(outbound[c])
  <2>1. f \in Frame /\ q \in Seq(Frame) /\ Len(q) <= OutboundSize
    <3>1. outbound[c] \in Seq(Frame) /\ outbound[c] # <<>> /\ Len(outbound[c]) <= OutboundSize /\ OutboundSize \in Nat
      BY <1>3, SessionAssumption DEF SendLoop
    <3>2. QED
      BY <3>1, Popping
  <2>2. (f.kind = "have" => f.of \in Piece) /\ (f.kind = "bitfield" => f.of \in SUBSET Piece)
    BY <2>1, FramesAre
  <2>3. told' \in [Conn -> SUBSET Piece] /\ choked' \in [Conn -> BOOLEAN]
    <3>1. \/ f.kind = "have" /\ told' = [told EXCEPT ![c] = @ \cup {f.of}]
          \/ f.kind = "bitfield" /\ told' = [told EXCEPT ![c] = f.of]
          \/ told' = [told EXCEPT ![c] = told[c]]
      BY <1>3 DEF SendLoop
    <3>2. \E b \in BOOLEAN : choked' = [choked EXCEPT ![c] = b]
      BY <1>3 DEF SendLoop
    <3> HIDE DEF f
    <3>3. told' \in [Conn -> SUBSET Piece]
      <4>1. CASE f.kind = "have" /\ told' = [told EXCEPT ![c] = @ \cup {f.of}]
        BY <2>2, <4>1
      <4>2. CASE f.kind = "bitfield" /\ told' = [told EXCEPT ![c] = f.of]
        BY <2>2, <4>2
      <4>3. CASE told' = [told EXCEPT ![c] = told[c]]
        BY <4>3
      <4>4. QED
        BY <3>1, <4>1, <4>2, <4>3
    <3>4. choked' \in [Conn -> BOOLEAN]
      BY <3>2
    <3>5. QED
      BY <3>3, <3>4, Zenon
  <2>4. outbound' = [outbound EXCEPT ![c] = q]
    BY <1>3 DEF SendLoop
  <2> HIDE DEF q
  <2>5. outbound' \in [Conn -> Seq(Frame)] /\ \A x \in Conn : Len(outbound'[x]) <= OutboundSize
    BY <2>1, <2>4
  <2>6. QED
    BY <1>3, <2>3, <2>5 DEF SendLoop
<1>4. CASE WriteLoop(c)
  <2>1. Head(work[c]) \in Piece /\ Tail(work[c]) \in Seq(Piece)
    BY <1>4, Popping DEF WriteLoop
  <2>2. [kind |-> "request", of |-> Head(work[c])] \in Frame /\ {c} \in SUBSET Conn
    BY <2>1, FramesMade
  <2>3. /\ outbound' \in [Conn -> Seq(Frame)] /\ lost' \in [Conn -> SUBSET Frame]
        /\ \A x \in Conn : Len(outbound'[x]) <= OutboundSize
    <3>1. CASE Send(c, [kind |-> "request", of |-> Head(work[c])])
      BY <2>2, <3>1, Broadcasts DEF Send
    <3>2. CASE UNCHANGED queueVars
      BY <3>2
    <3>3. QED
      BY <1>4, <3>1, <3>2 DEF WriteLoop
  <2>4. work' \in [Conn -> Seq(Piece)]
    BY <1>4, <2>1 DEF WriteLoop
  <2>5. QED
    BY <1>4, <2>3, <2>4 DEF WriteLoop
<1>5. QED
  BY <1>1, <1>2, <1>3, <1>4

LEMMA CountsAreNumbers ==
    ASSUME SessionTypes, NEW S \in SUBSET Piece
    PROVE  Counted(S) \in [Piece -> Nat] /\ Discounted(S) \in [Piece -> Nat]
BY DEF SessionTypes, SessionTypeOK, Counted, Discounted

LEMMA ActorKeepsTypes ==
    ASSUME SessionTypes, NEW c \in Conn, ActorNext(c)
    PROVE  SessionTypes'
<1> USE DEF SessionTypes, SessionTypeOK, bitVars, flagVars, loopVars, remoteVars, queueVars, ghostVars
<1>1. CASE RegisterPeer(c)
  BY <1>1 DEF RegisterPeer
<1>2. CASE OnPeerControl(c)
  <2> DEFINE e == Head(events[c])
             q == Tail(events[c])
  <2>1. e \in Event /\ q \in Seq(Event) /\ Len(q) <= EventSize
    <3>1. events[c] \in Seq(Event) /\ events[c] # <<>> /\ Len(events[c]) <= EventSize /\ EventSize \in Nat
      BY <1>2, SessionAssumption DEF OnPeerControl
    <3>2. QED
      BY <3>1, Popping
  <2>2. counts' \in [Piece -> Nat]
    <3>1. (e.kind = "have" => {e.of} \in SUBSET Piece) /\ bits[c] \in SUBSET Piece
      BY <2>1, EventsAre
    <3>2. counts' = Counted(bits[c]) \/ (e.kind = "have" /\ counts' = Counted({e.of})) \/ counts' = counts
      BY <1>2 DEF OnPeerControl
    <3> HIDE DEF e
    <3>3. QED
      BY <3>1, <3>2, CountsAreNumbers
  <2>3. events' = [events EXCEPT ![c] = q]
    BY <1>2 DEF OnPeerControl
  <2> HIDE DEF q
  <2>4. events' \in [Conn -> Seq(Event)] /\ \A x \in Conn : Len(events'[x]) <= EventSize
    BY <2>1, <2>3
  <2>5. QED
    BY <1>2, <2>2, <2>4 DEF OnPeerControl
<1>3. CASE RemovePeer(c)
  <2>1. counts' \in [Piece -> Nat]
    <3>1. bits[c] \in SUBSET Piece
      OBVIOUS
    <3>2. counts' = Discounted(bits[c]) \/ counts' = counts
      BY <1>3 DEF RemovePeer
    <3>3. QED
      BY <3>1, <3>2, CountsAreNumbers
  <2>2. stale' \in [Piece -> Nat]
    <3>1. stale' = [p \in Piece |-> stale[p] + IF p \in bits[c] THEN 1 ELSE 0] \/ stale' = stale
      BY <1>3 DEF RemovePeer
    <3>2. CASE stale' = stale
      BY <3>2
    <3>3. CASE stale' = [p \in Piece |-> stale[p] + IF p \in bits[c] THEN 1 ELSE 0]
      <4>1. \A p \in Piece : stale[p] + (IF p \in bits[c] THEN 1 ELSE 0) \in Nat
        OBVIOUS
      <4>2. QED
        BY <3>3, <4>1
    <3>4. QED
      BY <3>1, <3>2, <3>3
  <2>3. registered' \subseteq Conn /\ stage' \in [Conn -> Stage] /\ joined' \in [Conn -> {"no", "queued", "handled"}]
    BY <1>3 DEF RemovePeer, Stage
  <2>4. QED
    BY <1>3, <2>1, <2>2, <2>3 DEF RemovePeer
<1>4. CASE UpgradeStores(c)
  <2>1. upgrading' \subseteq Conn \X BOOLEAN
    <3>1. <<c, TRUE>> \in Conn \X BOOLEAN
      OBVIOUS
    <3>2. \A u \in upgrading' : u \in upgrading \/ u = <<c, TRUE>>
      BY <1>4 DEF UpgradeStores
    <3>3. QED
      BY <3>1, <3>2
  <2>2. geometry' \in [Conn -> {"none", "born", "upgraded"}]
    BY <1>4 DEF UpgradeStores
  <2>3. QED
    BY <1>4, <2>1, <2>2 DEF UpgradeStores
<1>5. CASE UpgradeApplies(c)
  <2>1. Applied(c) \in SUBSET Piece
    <3>1. pending[c] \in {None} \cup (SUBSET Piece)
      OBVIOUS
    <3>2. QED
      BY <3>1 DEF Applied
  <2>2. counts' \in [Piece -> Nat]
    BY <1>5, <2>1, CountsAreNumbers DEF UpgradeApplies
  <2> DEFINE S == Applied(c)
  <2>3. S \in SUBSET Piece /\ bits' = [bits EXCEPT ![c] = S]
    BY <1>5, <2>1 DEF UpgradeApplies
  <2> HIDE DEF S
  <2>4. bits' \in [Conn -> SUBSET Piece]
    BY <2>3
  <2>5. wide' \in [Conn -> BOOLEAN] /\ pending' \in [Conn -> {None} \cup (SUBSET Piece)]
    BY <1>5 DEF UpgradeApplies
  <2>6. upgrading' \subseteq Conn \X BOOLEAN
    BY <1>5 DEF UpgradeApplies
  <2>7. QED
    BY <1>5, <2>2, <2>4, <2>5, <2>6 DEF UpgradeApplies
<1>6. CASE ChokerFlips(c)
  <2>1. [kind |-> IF amChoking[c] THEN "unchoke" ELSE "choke"] \in Frame /\ {c} \in SUBSET Conn
    BY FramesMade
  <2>2. /\ outbound' \in [Conn -> Seq(Frame)] /\ lost' \in [Conn -> SUBSET Frame]
        /\ \A x \in Conn : Len(outbound'[x]) <= OutboundSize
    BY <1>6, <2>1, Broadcasts DEF ChokerFlips, Send
  <2>3. controls' \in 0..MaxControls
    BY <1>6, SessionAssumption DEF ChokerFlips
  <2>4. QED
    BY <1>6, <2>2, <2>3 DEF ChokerFlips
<1>7. CASE Assign(c)
  <2>1. PICK p \in bits[c] \ have : work' = [work EXCEPT ![c] = Append(@, p)]
    BY <1>7 DEF Assign
  <2> DEFINE q == Append(work[c], p)
  <2>2. q \in Seq(Piece) /\ work' = [work EXCEPT ![c] = q]
    BY <2>1, Appending
  <2> HIDE DEF q
  <2>3. work' \in [Conn -> Seq(Piece)]
    BY <2>2
  <2>4. controls' \in 0..MaxControls
    BY <1>7, SessionAssumption DEF Assign
  <2>5. QED
    BY <1>7, <2>3, <2>4 DEF Assign
<1>8. QED
  BY <1>1, <1>2, <1>3, <1>4, <1>5, <1>6, <1>7 DEF ActorNext

LEMMA TorrentKeepsTypes ==
    ASSUME SessionTypes, PieceVerified \/ SetMetadata \/ ShutdownPeers
    PROVE  SessionTypes'
<1> USE DEF SessionTypes, SessionTypeOK, bitVars, flagVars, loopVars, remoteVars, queueVars, ghostVars
<1>1. CASE PieceVerified
  <2>1. PICK p \in Piece \ have : /\ have' = have \cup {p} /\ Broadcast(registered, [kind |-> "have", of |-> p])
                                  /\ gap' = [x \in Conn |-> IF Misses(x) THEN gap[x] \cup {p} ELSE gap[x]]
    BY <1>1 DEF PieceVerified
  <2>2. [kind |-> "have", of |-> p] \in Frame /\ registered \in SUBSET Conn
    BY FramesMade
  <2>3. /\ outbound' \in [Conn -> Seq(Frame)] /\ lost' \in [Conn -> SUBSET Frame]
        /\ \A x \in Conn : Len(outbound'[x]) <= OutboundSize
    BY <2>1, <2>2, Broadcasts
  <2>4. QED
    BY <1>1, <2>1, <2>3 DEF PieceVerified
<1>2. CASE SetMetadata
  <2>1. PICK found \in SUBSET Piece :
            /\ have' = found
            /\ gap' = [x \in Conn |-> IF stage[x] \in {"greet", "reading"} THEN gap[x] \cup found ELSE gap[x]]
    BY <1>2 DEF SetMetadata
  <2>2. gap' \in [Conn -> SUBSET Piece] /\ have' \subseteq Piece
    BY <2>1
  <2>3. upgrading' \subseteq Conn \X BOOLEAN
    <3>1. ASSUME NEW u \in upgrading'
          PROVE  u \in Conn \X BOOLEAN
      <4>1. PICK x \in registered : u = <<x, FALSE>>
        BY <1>2 DEF SetMetadata
      <4>2. x \in Conn
        OBVIOUS
      <4>3. QED
        BY <4>1, <4>2
    <3>2. QED
      BY <3>1
  <2>4. QED
    BY <1>2, <2>2, <2>3 DEF SetMetadata
<1>3. CASE ShutdownPeers
  <2>1. controls' \in 0..MaxControls
    BY <1>3, SessionAssumption DEF ShutdownPeers
  <2>2. QED
    BY <1>3, <2>1 DEF ShutdownPeers, Stage
<1>4. QED
  BY <1>1, <1>2, <1>3

LEMMA TypesKept ==
    ASSUME SessionIInv, SessionNext
    PROVE  SessionTypes'
<1>1. SessionTypes
  BY DEF SessionIInv
<1>2. ASSUME NEW c \in Conn, ClientNext(c)
      PROVE  SessionTypes'
  BY <1>1, <1>2, StartKeepsTypes, ReadKeepsTypes, HandlingKeepsTypes, LoopsKeepTypes DEF ClientNext
<1>3. QED
  BY <1>1, <1>2, ActorKeepsTypes, TorrentKeepsTypes DEF SessionNext

\* Each part of the invariant is kept, connection by connection.
LEMMA FirstThingsKept ==
    ASSUME SessionIInv, SessionNext, NEW x \in Conn
    PROVE  FirstThings(x)'
<1>1. /\ joined \in [Conn -> {"no", "queued", "handled"}] /\ stage \in [Conn -> Stage] /\ said \in [Conn -> Nat]
      /\ DOMAIN taken = Conn /\ DOMAIN announced = Conn /\ DOMAIN pending = Conn
      /\ FirstThings(x) /\ registered \subseteq Conn
  BY SessionAssumption DEF SessionIInv, SessionTypes, SessionTypeOK
<1> USE DEF FirstThings, actorVars, bitVars, loopVars, remoteVars
<1>2. ASSUME NEW c \in Conn, BeginDial(c) \/ Connects(c)
      PROVE  FirstThings(x)'
  BY <1>1, <1>2 DEF BeginDial, Connects
<1>3. ASSUME NEW c \in Conn, SendInterested(c) \/ LookAtHave(c) \/ SendInitialState(c)
      PROVE  FirstThings(x)'
  BY <1>1, <1>3 DEF SendInterested, LookAtHave, SendInitialState
<1>4. ASSUME NEW c \in Conn, ReadMessage(c)
      PROVE  FirstThings(x)'
  BY <1>1, <1>4 DEF ReadMessage
<1>5. ASSUME NEW c \in Conn, HandleMessage(c)
      PROVE  FirstThings(x)'
  <2>1. taken[c] # None
    BY <1>5 DEF HandleMessage, OnChoke, OnInterest, OnHave, OnBitfield, OnHaveAll, OnAllowedFast, OnRequest, OnMalformed, Handles
  <2>2. Handled(c) \/ Violates(c)
    BY <1>5 DEF HandleMessage, OnChoke, OnInterest, OnHave, OnBitfield, OnHaveAll, OnAllowedFast, OnRequest, OnMalformed
  <2>3. joined' = joined /\ said' = said /\ registered' = registered
    BY <1>5 DEF HandleMessage, OnChoke, OnInterest, OnHave, OnBitfield, OnHaveAll, OnAllowedFast, OnRequest, OnMalformed
  <2>4. \A y \in Conn : y # c => announced'[y] = announced[y] /\ pending'[y] = pending[y]
    BY <1>1, <1>5 DEF HandleMessage, OnChoke, OnInterest, OnHave, OnBitfield, OnHaveAll, OnAllowedFast, OnRequest, OnMalformed
  <2>5. taken' = [taken EXCEPT ![c] = None] /\ \A y \in Conn : stage'[y] = stage[y] \/ (Open(y) /\ stage'[y] = "closed")
    BY <1>1, <2>2 DEF Handled, Violates
  <2>6. CASE x = c
    BY <1>1, <2>1, <2>3, <2>5, <2>6 DEF Open
  <2>7. CASE x # c
    BY <1>1, <2>3, <2>4, <2>5, <2>7 DEF Open
  <2>8. QED
    BY <2>6, <2>7
<1>6. ASSUME NEW c \in Conn, Disconnects(c) \/ RunReturns(c) \/ SendLoop(c) \/ WriteLoop(c)
      PROVE  FirstThings(x)'
  BY <1>1, <1>6 DEF Disconnects, RunReturns, SendLoop, WriteLoop, Open
<1>7. ASSUME NEW c \in Conn, ActorNext(c)
      PROVE  FirstThings(x)'
  BY <1>1, <1>7 DEF ActorNext, RegisterPeer, OnPeerControl, RemovePeer, UpgradeStores, UpgradeApplies, ChokerFlips, Assign
<1>8. ASSUME PieceVerified \/ SetMetadata \/ ShutdownPeers
      PROVE  FirstThings(x)'
  BY <1>1, <1>8 DEF PieceVerified, SetMetadata, ShutdownPeers, Open
<1>9. QED
  BY <1>2, <1>3, <1>4, <1>5, <1>6, <1>7, <1>8 DEF SessionNext, ClientNext

LEMMA UpgradesKept ==
    ASSUME SessionIInv, SessionNext
    PROVE  Upgrades'
<1>1. Upgrades
  BY DEF SessionIInv
<1> USE DEF Upgrades, actorVars, ActorFree
<1>2. ASSUME NEW c \in Conn, ClientNext(c)
      PROVE  Upgrades'
  BY <1>1, <1>2 DEF ClientNext, BeginDial, Connects, SendInterested, LookAtHave, SendInitialState, ReadMessage, HandleMessage,
     OnChoke, OnInterest, OnHave, OnBitfield, OnHaveAll, OnAllowedFast, OnRequest, OnMalformed,
     Disconnects, RunReturns, SendLoop, WriteLoop
<1>3. ASSUME NEW c \in Conn, RegisterPeer(c) \/ OnPeerControl(c) \/ RemovePeer(c) \/ ChokerFlips(c) \/ Assign(c)
      PROVE  Upgrades'
  BY <1>1, <1>3 DEF RegisterPeer, OnPeerControl, RemovePeer, ChokerFlips, Assign
<1>4. ASSUME NEW c \in Conn, UpgradeStores(c)
      PROVE  Upgrades'
  <2>1. /\ <<c, FALSE>> \in upgrading /\ upgrading' = (upgrading \ {<<c, FALSE>>}) \cup {<<c, TRUE>>}
        /\ registered' = registered /\ metadata' = metadata /\ have' = have
    BY <1>4 DEF UpgradeStores
  <2>2. c \in registered
    BY <1>1, <2>1
  <2>3. ASSUME NEW u \in upgrading'
        PROVE  u[1] \in registered'
    <3>1. u \in upgrading \/ u = <<c, TRUE>>
      BY <2>1
    <3>2. <<c, TRUE>>[1] = c
      OBVIOUS
    <3>3. QED
      BY <1>1, <2>1, <2>2, <3>1, <3>2
  <2>4. QED
    BY <1>1, <2>1, <2>3
<1>5. ASSUME NEW c \in Conn, UpgradeApplies(c)
      PROVE  Upgrades'
  BY <1>1, <1>5 DEF UpgradeApplies
<1>6. CASE PieceVerified \/ ShutdownPeers
  BY <1>1, <1>6 DEF PieceVerified, ShutdownPeers
<1>7. CASE SetMetadata
  <2>1. upgrading' = {<<y, FALSE>> : y \in registered} /\ registered' = registered /\ metadata'
    BY <1>7 DEF SetMetadata
  <2>2. ASSUME NEW u \in upgrading'
        PROVE  u[1] \in registered'
    <3>1. PICK y \in registered : u = <<y, FALSE>>
      BY <2>1
    <3>2. QED
      BY <2>1, <3>1
  <2>3. QED
    BY <2>1, <2>2
<1>8. QED
  BY <1>2, <1>3, <1>4, <1>5, <1>6, <1>7 DEF SessionNext, ActorNext

LEMMA GeometriesKept ==
    ASSUME SessionIInv, SessionNext, NEW x \in Conn
    PROVE  Geometries(x)'
<1>1. /\ metadata \in BOOLEAN /\ geometry \in [Conn -> {"none", "born", "upgraded"}] /\ wide \in [Conn -> BOOLEAN]
      /\ bits \in [Conn -> SUBSET Piece] /\ DOMAIN taken = Conn /\ DOMAIN announced = Conn /\ DOMAIN pending = Conn
      /\ upgrading \subseteq Conn \X BOOLEAN
      /\ FirstThings(x) /\ Geometries(x) /\ bits[x] \subseteq announced[x] /\ Upgrades
  BY DEF SessionIInv, SessionTypes, SessionTypeOK, Servable
<1> USE DEF Geometries, actorVars, bitVars, loopVars, remoteVars, ghostVars, Applied
<1>2. ASSUME NEW c \in Conn, BeginDial(c)
      PROVE  Geometries(x)'
  <2>1. CASE x = c
    <3>1. taken[c] = None /\ announced[c] = {} /\ pending[c] = None /\ c \notin registered /\ bits[c] = {}
      BY <1>1, <1>2, <2>1 DEF BeginDial, FirstThings
    <3>2. <<c, FALSE>> \notin upgrading /\ <<c, TRUE>> \notin upgrading
      BY <1>1, <3>1 DEF Upgrades
    <3>3. QED
      BY <1>1, <1>2, <2>1, <3>1, <3>2 DEF BeginDial
  <2>2. CASE x # c
    BY <1>1, <1>2, <2>2 DEF BeginDial
  <2>3. QED
    BY <2>1, <2>2
<1>3. ASSUME NEW c \in Conn, Connects(c) \/ SendInterested(c) \/ LookAtHave(c) \/ SendInitialState(c)
                             \/ Disconnects(c) \/ RunReturns(c) \/ SendLoop(c) \/ WriteLoop(c)
      PROVE  Geometries(x)'
  BY <1>1, <1>3 DEF Connects, SendInterested, LookAtHave, SendInitialState, Disconnects, RunReturns, SendLoop, WriteLoop
<1>4. ASSUME NEW c \in Conn, ReadMessage(c)
      PROVE  Geometries(x)'
  BY <1>1, <1>4 DEF ReadMessage
<1>5. ASSUME NEW c \in Conn, OnChoke(c) \/ OnInterest(c) \/ OnAllowedFast(c) \/ OnRequest(c) \/ OnMalformed(c)
      PROVE  Geometries(x)'
  BY <1>1, <1>5 DEF OnChoke, OnInterest, OnAllowedFast, OnRequest, OnMalformed, Handled, Violates
<1>6. ASSUME NEW c \in Conn, OnHave(c)
      PROVE  Geometries(x)'
  BY <1>1, <1>6 DEF OnHave, Handled, Handles
<1>7. ASSUME NEW c \in Conn, OnBitfield(c)
      PROVE  Geometries(x)'
  <2> DEFINE S == taken[c].message.of
  <2>1. /\ taken[c] # None /\ taken[c].known \in BOOLEAN /\ S \in SUBSET Piece /\ S # None
        /\ announced[c] = {} /\ pending[c] = None
    <3>1. SessionTypes /\ HandleMessage(c) /\ FirstThings(c) /\ taken[c].message.kind = "bitfield"
      BY <1>7 DEF HandleMessage, OnBitfield, Handles, SessionIInv
    <3>2. QED
      BY <3>1, SessionAssumption, MessageTaken DEF FirstThings
  <2>2. /\ announced' = [announced EXCEPT ![c] = S] /\ taken' = [taken EXCEPT ![c] = None]
        /\ UNCHANGED <<metadata, geometry, wide, upgrading>>
        /\ overlapped' = IF taken[c].known # wide[c] THEN overlapped \cup {c} ELSE overlapped
    BY <1>7 DEF OnBitfield, Handled, Violates, Late
  <2>3. IF taken[c].known
        THEN bits' = [bits EXCEPT ![c] = IF wide[c] THEN S ELSE @] /\ pending' = pending
        ELSE pending' = [pending EXCEPT ![c] = S] /\ bits' = bits
    BY <1>7 DEF OnBitfield
  <2> HIDE DEF S
  <2>4. QED
    BY <1>1, <2>1, <2>2, <2>3
<1>8. ASSUME NEW c \in Conn, OnHaveAll(c)
      PROVE  Geometries(x)'
  <2>1. /\ taken[c] # None /\ taken[c].known \in BOOLEAN /\ Piece # None
        /\ announced[c] = {} /\ pending[c] = None
        /\ (taken[c].known => geometry[c] # "none")
    <3>1. SessionTypes /\ HandleMessage(c) /\ FirstThings(c) /\ taken[c].message.kind = "haveall" /\ Geometries(c)
      BY <1>8 DEF HandleMessage, OnHaveAll, Handles, SessionIInv
    <3>2. Piece # None
      BY SessionAssumption
    <3>3. QED
      BY <3>1, <3>2, MessageTaken DEF FirstThings
  <2>2. /\ announced' = [announced EXCEPT ![c] = Piece] /\ taken' = [taken EXCEPT ![c] = None]
        /\ UNCHANGED <<metadata, geometry, upgrading>>
        /\ overlapped' = IF taken[c].known # wide[c] THEN overlapped \cup {c} ELSE overlapped
    BY <1>8 DEF OnHaveAll, Handled, Late
  <2>3. IF taken[c].known
        THEN bits' = [bits EXCEPT ![c] = Piece] /\ wide' = [wide EXCEPT ![c] = TRUE] /\ pending' = pending
        ELSE pending' = [pending EXCEPT ![c] = Piece] /\ bits' = bits /\ wide' = wide
    BY <1>8 DEF OnHaveAll
  <2>4. QED
    BY <1>1, <2>1, <2>2, <2>3
<1>9. ASSUME NEW c \in Conn, RegisterPeer(c) \/ OnPeerControl(c) \/ RemovePeer(c) \/ ChokerFlips(c) \/ Assign(c)
      PROVE  Geometries(x)'
  BY <1>1, <1>9 DEF RegisterPeer, OnPeerControl, RemovePeer, ChokerFlips, Assign
<1>10. ASSUME NEW c \in Conn, UpgradeStores(c)
       PROVE  Geometries(x)'
  <2>1. /\ <<c, FALSE>> \in upgrading /\ upgrading' = (upgrading \ {<<c, FALSE>>}) \cup {<<c, TRUE>>}
        /\ geometry' = [geometry EXCEPT ![c] = IF @ = "none" THEN "upgraded" ELSE @]
        /\ metadata' = metadata /\ UNCHANGED <<bits, wide, pending, taken, announced, overlapped>>
    BY <1>10 DEF UpgradeStores
  <2>2. metadata
    BY <1>1, <2>1 DEF Upgrades
  <2>3. CASE x = c
    <3>1. <<c, FALSE>> \notin upgrading' /\ <<c, TRUE>> \in upgrading'
      <4>1. <<c, FALSE>> # <<c, TRUE>>
        OBVIOUS
      <4>2. QED
        BY <2>1, <4>1
    <3>2. geometry'[c] # "none" /\ ~wide[c]
      BY <1>1, <2>1, <2>3
    <3>3. QED
      BY <1>1, <2>1, <2>2, <2>3, <3>1, <3>2
  <2>4. CASE x # c
    <3>1. \A s \in BOOLEAN : <<x, s>> \in upgrading' <=> <<x, s>> \in upgrading
      BY <2>1, <2>4
    <3>2. geometry'[x] = geometry[x]
      BY <1>1, <2>1, <2>4
    <3>3. QED
      BY <1>1, <2>1, <2>2, <3>1, <3>2
  <2>5. QED
    BY <2>3, <2>4
<1>11. ASSUME NEW c \in Conn, UpgradeApplies(c)
       PROVE  Geometries(x)'
  <2>1. /\ <<c, TRUE>> \in upgrading /\ upgrading' = upgrading \ {<<c, TRUE>>}
        /\ bits' = [bits EXCEPT ![c] = Applied(c)] /\ wide' = [wide EXCEPT ![c] = TRUE]
        /\ pending' = [pending EXCEPT ![c] = None]
        /\ UNCHANGED <<metadata, geometry, taken, announced, overlapped>>
    BY <1>11 DEF UpgradeApplies
  <2>2. metadata
    BY <1>1, <2>1 DEF Upgrades
  <2>3. CASE x = c
    <3>1. <<c, FALSE>> \notin upgrading' /\ <<c, TRUE>> \notin upgrading'
      BY <1>1, <2>1, <2>3
    <3>2. wide'[c] /\ pending'[c] = None /\ bits'[c] = Applied(c)
      BY <1>1, <2>1
    <3>3. c \notin overlapped => announced[c] = Applied(c)
      BY <1>1, <2>1, <2>3
    <3>4. QED
      BY <1>1, <2>1, <2>2, <2>3, <3>1, <3>2, <3>3
  <2>4. CASE x # c
    <3>1. \A s \in BOOLEAN : <<x, s>> \in upgrading' <=> <<x, s>> \in upgrading
      BY <2>1, <2>4
    <3>2. wide'[x] = wide[x] /\ pending'[x] = pending[x] /\ bits'[x] = bits[x]
      BY <1>1, <2>1, <2>4
    <3>3. QED
      BY <1>1, <2>1, <2>2, <3>1, <3>2
  <2>5. QED
    BY <2>3, <2>4
<1>12. CASE PieceVerified \/ ShutdownPeers
  BY <1>1, <1>12 DEF PieceVerified, ShutdownPeers
<1>13. CASE SetMetadata
  <2>1. upgrading' = {<<y, FALSE>> : y \in registered} /\ metadata' /\ ~metadata /\ upgrading = {}
    BY <1>13 DEF SetMetadata, ActorFree
  <2>2. <<x, TRUE>> \notin upgrading'
    BY <2>1
  <2>3. UNCHANGED <<geometry, bits, wide, pending, taken, announced, overlapped>>
    BY <1>13 DEF SetMetadata
  <2>4. geometry[x] = "none" /\ ~wide[x]
    BY <1>1, <2>1
  <2>5. QED
    BY <1>1, <2>1, <2>2, <2>3, <2>4
<1>14. QED
  BY <1>2, <1>3, <1>4, <1>5, <1>6, <1>7, <1>8, <1>9, <1>10, <1>11, <1>12, <1>13 DEF SessionNext, ClientNext, ActorNext, HandleMessage

\* What the queue will have the other side believe, as it grows and is sent.
LEMMA KnowsMore ==
    ASSUME NEW q \in Seq(Frame), NEW f \in Frame, NEW t \in SUBSET Piece, NEW p \in Piece
    PROVE  /\ Knows(q, t, p) /\ ~Erases(f, p) => Knows(Append(q, f), t, p)
           /\ Informs(f, p) => Knows(Append(q, f), t, p)
<1> DEFINE r == Append(q, f)
<1>1. /\ DOMAIN q = 1..Len(q) /\ DOMAIN r = 1..Len(q) + 1 /\ Len(q) \in Nat
      /\ \A i \in DOMAIN q : r[i] = q[i]
      /\ r[Len(q) + 1] = f
  BY Appending
<1> HIDE DEF r
<1>2. ASSUME Informs(f, p)
      PROVE  Knows(r, t, p)
  <2>1. Len(q) + 1 \in DOMAIN r /\ \A j \in DOMAIN r : ~(j > Len(q) + 1)
    BY <1>1
  <2>2. QED
    BY <1>1, <1>2, <2>1 DEF Knows
<1>3. ASSUME Knows(q, t, p), ~Erases(f, p)
      PROVE  Knows(r, t, p)
  <2>1. \A j \in DOMAIN r : j \in DOMAIN q \/ j = Len(q) + 1
    BY <1>1
  <2>2. \A j \in DOMAIN r : (j \in DOMAIN q => ~Erases(q[j], p)) => ~Erases(r[j], p)
    BY <1>1, <1>3, <2>1
  <2>3. CASE p \in t /\ \A i \in DOMAIN q : ~Erases(q[i], p)
    BY <2>2, <2>3 DEF Knows
  <2>4. CASE \E i \in DOMAIN q : Informs(q[i], p) /\ \A j \in DOMAIN q : j > i => ~Erases(q[j], p)
    <3>1. PICK i \in DOMAIN q : Informs(q[i], p) /\ \A j \in DOMAIN q : j > i => ~Erases(q[j], p)
      BY <2>4
    <3>2. i \in DOMAIN r /\ Informs(r[i], p)
      BY <1>1, <3>1
    <3>3. \A j \in DOMAIN r : j > i => ~Erases(r[j], p)
      BY <2>2, <3>1
    <3>4. QED
      BY <3>2, <3>3 DEF Knows
  <2>5. QED
    BY <1>3, <2>3, <2>4 DEF Knows
<1>4. QED
  BY <1>2, <1>3 DEF r

LEMMA KnowsStill ==
    ASSUME NEW q \in Seq(Frame), q # <<>>, NEW t \in SUBSET Piece, NEW p \in Piece, NEW u,
           Knows(q, t, p),
           p \in t /\ ~Erases(Head(q), p) => p \in u,
           Informs(Head(q), p) => p \in u
    PROVE  Knows(Tail(q), u, p)
<1> DEFINE r == Tail(q)
<1>1. /\ Head(q) = q[1] /\ DOMAIN q = 1..Len(q) /\ DOMAIN r = 1..Len(q) - 1 /\ Len(q) \in Nat /\ Len(q) > 0
      /\ \A i \in DOMAIN r : r[i] = q[i + 1]
  BY Popping
<1> HIDE DEF r
<1>2. 1 \in DOMAIN q /\ \A i \in DOMAIN r : i + 1 \in DOMAIN q /\ i + 1 > 1
  BY <1>1
<1>3. CASE p \in t /\ \A i \in DOMAIN q : ~Erases(q[i], p)
  <2>1. p \in u /\ \A i \in DOMAIN r : ~Erases(r[i], p)
    BY <1>1, <1>2, <1>3
  <2>2. QED
    BY <2>1 DEF Knows, r
<1>4. CASE \E i \in DOMAIN q : Informs(q[i], p) /\ \A j \in DOMAIN q : j > i => ~Erases(q[j], p)
  <2>1. PICK i \in DOMAIN q : Informs(q[i], p) /\ \A j \in DOMAIN q : j > i => ~Erases(q[j], p)
    BY <1>4
  <2>2. CASE i = 1
    <3>1. p \in u /\ \A j \in DOMAIN r : ~Erases(r[j], p)
      BY <1>1, <1>2, <2>1, <2>2
    <3>2. QED
      BY <3>1 DEF Knows, r
  <2>3. CASE i # 1
    <3>1. i - 1 \in DOMAIN r /\ r[i - 1] = q[i]
      BY <1>1, <2>3
    <3>2. \A j \in DOMAIN r : j > i - 1 => ~Erases(r[j], p)
      <4>1. ASSUME NEW j \in DOMAIN r, j > i - 1
            PROVE  ~Erases(r[j], p)
        <5>1. j + 1 \in DOMAIN q /\ j + 1 > i /\ r[j] = q[j + 1]
          BY <1>1, <4>1
        <5>2. QED
          BY <2>1, <5>1
      <4>2. QED
        BY <4>1
    <3>3. QED
      BY <2>1, <3>1, <3>2 DEF Knows, r
  <2>4. QED
    BY <2>2, <2>3
<1>5. QED
  BY <1>3, <1>4 DEF Knows

LEMMA SaysMore ==
    ASSUME NEW q \in Seq(Frame), NEW f \in Frame, NEW was \in BOOLEAN, NEW b \in BOOLEAN
    PROVE  /\ SaysLast(q, was, b) /\ f.kind \notin ChokeKinds => SaysLast(Append(q, f), was, b)
           /\ f.kind = Word(b) => SaysLast(Append(q, f), was, b)
<1> DEFINE r == Append(q, f)
<1>1. /\ DOMAIN q = 1..Len(q) /\ DOMAIN r = 1..Len(q) + 1 /\ Len(q) \in Nat
      /\ \A i \in DOMAIN q : r[i] = q[i]
      /\ r[Len(q) + 1] = f
  BY Appending
<1> HIDE DEF r
<1>2. ASSUME f.kind = Word(b)
      PROVE  SaysLast(r, was, b)
  <2>1. Len(q) + 1 \in DOMAIN r /\ \A j \in DOMAIN r : ~(j > Len(q) + 1)
    BY <1>1
  <2>2. QED
    BY <1>1, <1>2, <2>1 DEF SaysLast
<1>3. ASSUME SaysLast(q, was, b), f.kind \notin ChokeKinds
      PROVE  SaysLast(r, was, b)
  <2>1. \A j \in DOMAIN r : j \in DOMAIN q \/ j = Len(q) + 1
    BY <1>1
  <2>2. \A j \in DOMAIN r : (j \in DOMAIN q => q[j].kind \notin ChokeKinds) => r[j].kind \notin ChokeKinds
    BY <1>1, <1>3, <2>1
  <2>3. CASE was = b /\ \A i \in DOMAIN q : q[i].kind \notin ChokeKinds
    BY <2>2, <2>3 DEF SaysLast
  <2>4. CASE \E i \in DOMAIN q : q[i].kind = Word(b) /\ \A j \in DOMAIN q : j > i => q[j].kind \notin ChokeKinds
    <3>1. PICK i \in DOMAIN q : q[i].kind = Word(b) /\ \A j \in DOMAIN q : j > i => q[j].kind \notin ChokeKinds
      BY <2>4
    <3>2. i \in DOMAIN r /\ r[i].kind = Word(b)
      BY <1>1, <3>1
    <3>3. \A j \in DOMAIN r : j > i => r[j].kind \notin ChokeKinds
      BY <2>2, <3>1
    <3>4. QED
      BY <3>2, <3>3 DEF SaysLast
  <2>5. QED
    BY <1>3, <2>3, <2>4 DEF SaysLast
<1>4. QED
  BY <1>2, <1>3 DEF r

LEMMA SaysStill ==
    ASSUME NEW q \in Seq(Frame), q # <<>>, NEW was \in BOOLEAN, NEW now \in BOOLEAN, NEW b \in BOOLEAN,
           SaysLast(q, was, b),
           Head(q).kind \notin ChokeKinds => now = was,
           Head(q).kind = "choke" => now = TRUE,
           Head(q).kind = "unchoke" => now = FALSE
    PROVE  SaysLast(Tail(q), now, b)
<1> DEFINE r == Tail(q)
<1>1. /\ Head(q) = q[1] /\ DOMAIN q = 1..Len(q) /\ DOMAIN r = 1..Len(q) - 1 /\ Len(q) \in Nat /\ Len(q) > 0
      /\ \A i \in DOMAIN r : r[i] = q[i + 1]
  BY Popping
<1> HIDE DEF r
<1>2. 1 \in DOMAIN q /\ \A i \in DOMAIN r : i + 1 \in DOMAIN q /\ i + 1 > 1
  BY <1>1
<1>3. CASE was = b /\ \A i \in DOMAIN q : q[i].kind \notin ChokeKinds
  <2>1. now = b /\ \A i \in DOMAIN r : r[i].kind \notin ChokeKinds
    BY <1>1, <1>2, <1>3
  <2>2. QED
    BY <2>1 DEF SaysLast, r
<1>4. CASE \E i \in DOMAIN q : q[i].kind = Word(b) /\ \A j \in DOMAIN q : j > i => q[j].kind \notin ChokeKinds
  <2>1. PICK i \in DOMAIN q : q[i].kind = Word(b) /\ \A j \in DOMAIN q : j > i => q[j].kind \notin ChokeKinds
    BY <1>4
  <2>2. CASE i = 1
    <3>1. now = b /\ \A j \in DOMAIN r : r[j].kind \notin ChokeKinds
      <4>1. now = b
        BY <1>1, <2>1, <2>2 DEF Word
      <4>2. QED
        BY <1>1, <1>2, <2>1, <2>2, <4>1
    <3>2. QED
      BY <3>1 DEF SaysLast, r
  <2>3. CASE i # 1
    <3>1. i - 1 \in DOMAIN r /\ r[i - 1] = q[i]
      BY <1>1, <2>3
    <3>2. \A j \in DOMAIN r : j > i - 1 => r[j].kind \notin ChokeKinds
      <4>1. ASSUME NEW j \in DOMAIN r, j > i - 1
            PROVE  r[j].kind \notin ChokeKinds
        <5>1. j + 1 \in DOMAIN q /\ j + 1 > i /\ r[j] = q[j + 1]
          BY <1>1, <4>1
        <5>2. QED
          BY <2>1, <5>1
      <4>2. QED
        BY <4>1
    <3>3. QED
      BY <2>1, <3>1, <3>2 DEF SaysLast, r
  <2>4. QED
    BY <2>2, <2>3
<1>5. QED
  BY <1>3, <1>4 DEF SaysLast

\* What a step may do to the queue of a connection: nothing, send its first frame, or add one.
Idles(c) ==
    /\ outbound'[c] = outbound[c] /\ lost'[c] = lost[c] /\ told'[c] = told[c] /\ choked'[c] = choked[c]
    /\ amChoking'[c] = amChoking[c] \/ stage[c] \in {"closed", "over", "gone"}
Posts(c, f) ==
    /\ told'[c] = told[c] /\ choked'[c] = choked[c]
    /\ \/ outbound'[c] = Append(outbound[c], f) /\ lost'[c] = lost[c]
       \/ outbound'[c] = outbound[c] /\ lost'[c] = lost[c] \cup {f}
    /\ f.kind = "request" => f.of \in bits[c]
    /\ IF f.kind \in ChokeKinds THEN f.kind = Word(amChoking'[c]) ELSE amChoking'[c] = amChoking[c]
    /\ f.kind = "bitfield" => stage[c] = "greet"

LEMMA SendReaches ==
    ASSUME SessionTypes, NEW C \in SUBSET Conn, NEW f \in Frame, Broadcast(C, f), NEW x \in Conn,
           told'[x] = told[x], choked'[x] = choked[x],
           x \in C /\ Open(x) /\ f.kind = "request" => f.of \in bits[x],
           x \in C /\ Open(x) /\ f.kind = "bitfield" => stage[x] = "greet",
           IF x \in C /\ f.kind \in ChokeKinds THEN f.kind = Word(amChoking'[x]) ELSE amChoking'[x] = amChoking[x],
           stage[x] \in {"none", "dialing"} => amChoking'[x] = amChoking[x]
    PROVE  Idles(x) \/ Posts(x, f)
<1>1. CASE x \in C /\ Open(x)
  BY <1>1, Broadcasts DEF Posts
<1>2. CASE ~(x \in C /\ Open(x))
  <2>1. outbound'[x] = outbound[x] /\ lost'[x] = lost[x]
    BY <1>2, Broadcasts
  <2>2. amChoking'[x] = amChoking[x] \/ ~Open(x)
    BY <1>2
  <2>3. stage[x] \in Stage
    BY DEF SessionTypes, SessionTypeOK
  <2>4. QED
    BY <2>1, <2>2, <2>3 DEF Idles, Open, Stage
<1>3. QED
  BY <1>1, <1>2

LEMMA QueueSteps ==
    ASSUME SessionIInv, SessionNext, NEW x \in Conn
    PROVE  Idles(x) \/ SendLoop(x) \/ \E f \in Frame : Posts(x, f)
<1>1. /\ SessionTypes /\ DOMAIN outbound = Conn /\ DOMAIN told = Conn /\ DOMAIN choked = Conn
      /\ amChoking \in [Conn -> BOOLEAN]
  BY DEF SessionIInv, SessionTypes, SessionTypeOK
<1> USE DEF flagVars, remoteVars, queueVars
<1>2. ASSUME NEW c \in Conn,
             BeginDial(c) \/ Connects(c) \/ LookAtHave(c) \/ ReadMessage(c) \/ Disconnects(c) \/ RunReturns(c)
             \/ RegisterPeer(c) \/ OnPeerControl(c) \/ RemovePeer(c) \/ UpgradeStores(c) \/ UpgradeApplies(c) \/ Assign(c)
      PROVE  Idles(x)
  BY <1>1, <1>2 DEF Idles, BeginDial, Connects, LookAtHave, ReadMessage, Disconnects, RunReturns,
     RegisterPeer, OnPeerControl, RemovePeer, UpgradeStores, UpgradeApplies, Assign
<1>3. ASSUME NEW c \in Conn, SendInterested(c)
      PROVE  Idles(x) \/ \E f \in Frame : Posts(x, f)
  <2> DEFINE g == [kind |-> "interested"]
  <2>1. g \in Frame /\ g.kind = "interested" /\ {c} \in SUBSET Conn
    BY FramesMade
  <2>2. Broadcast({c}, g) /\ UNCHANGED <<told, choked, amChoking>>
    BY <1>3 DEF SendInterested, Send
  <2> HIDE DEF g
  <2>3. Idles(x) \/ Posts(x, g)
    BY <1>1, <2>1, <2>2, SendReaches DEF ChokeKinds
  <2>4. QED
    BY <2>1, <2>3
<1>4. ASSUME NEW c \in Conn, SendInitialState(c)
      PROVE  Idles(x) \/ \E f \in Frame : Posts(x, f)
  <2> DEFINE g == [kind |-> "bitfield", of |-> snapshot[c]]
  <2>1. g \in Frame /\ g.kind = "bitfield" /\ {c} \in SUBSET Conn
    BY <1>1, FramesMade DEF SessionTypes, SessionTypeOK
  <2>2. (Broadcast({c}, g) \/ UNCHANGED <<outbound, lost>>) /\ UNCHANGED <<told, choked, amChoking>> /\ stage[c] = "greet"
    BY <1>4 DEF SendInitialState, Send
  <2> HIDE DEF g
  <2>3. CASE Broadcast({c}, g)
    BY <1>1, <2>1, <2>2, <2>3, SendReaches DEF ChokeKinds
  <2>4. CASE UNCHANGED <<outbound, lost>>
    BY <2>2, <2>4 DEF Idles
  <2>5. QED
    BY <2>1, <2>2, <2>3, <2>4
<1>5. ASSUME NEW c \in Conn,
             OnChoke(c) \/ OnInterest(c) \/ OnHave(c) \/ OnBitfield(c) \/ OnHaveAll(c) \/ OnAllowedFast(c) \/ OnMalformed(c)
      PROVE  Idles(x)
  BY <1>1, <1>5 DEF Idles, OnChoke, OnInterest, OnHave, OnBitfield, OnHaveAll, OnAllowedFast, OnMalformed
<1>6. ASSUME NEW c \in Conn, OnRequest(c)
      PROVE  Idles(x) \/ \E f \in Frame : Posts(x, f)
  <2> DEFINE a == [kind |-> "piece", of |-> taken[c].message.of]
             b == [kind |-> "reject", of |-> taken[c].message.of]
  <2>1. HandleMessage(c) /\ taken[c].message.kind = "request"
    BY <1>6 DEF HandleMessage, OnRequest, Handles
  <2>2. a \in Frame /\ b \in Frame /\ a.kind = "piece" /\ b.kind = "reject" /\ {c} \in SUBSET Conn
    BY <1>1, <2>1, MessageTaken, FramesMade
  <2>3. /\ Broadcast({c}, a) \/ Broadcast({c}, b) \/ UNCHANGED <<outbound, lost>>
        /\ UNCHANGED <<told, choked, amChoking>>
    BY <1>6 DEF OnRequest, Send
  <2> HIDE DEF a, b
  <2>4. CASE Broadcast({c}, a)
    BY <1>1, <2>2, <2>3, <2>4, SendReaches DEF ChokeKinds
  <2>5. CASE Broadcast({c}, b)
    BY <1>1, <2>2, <2>3, <2>5, SendReaches DEF ChokeKinds
  <2>6. CASE UNCHANGED <<outbound, lost>>
    BY <2>3, <2>6 DEF Idles
  <2>7. QED
    BY <2>2, <2>3, <2>4, <2>5, <2>6
<1>7. ASSUME NEW c \in Conn, SendLoop(c)
      PROVE  Idles(x) \/ SendLoop(x)
  <2>1. CASE x = c
    BY <1>7, <2>1
  <2>2. CASE x # c
    BY <1>1, <1>7, <2>2 DEF SendLoop, Idles
  <2>3. QED
    BY <2>1, <2>2
<1>8. ASSUME NEW c \in Conn, WriteLoop(c)
      PROVE  Idles(x) \/ \E f \in Frame : Posts(x, f)
  <2> DEFINE g == [kind |-> "request", of |-> Head(work[c])]
  <2>1. Head(work[c]) \in Piece
    BY <1>1, <1>8, Popping DEF WriteLoop, SessionTypes
  <2>2. g \in Frame /\ g.kind = "request" /\ g.of = Head(work[c]) /\ {c} \in SUBSET Conn
    BY <2>1, FramesMade
  <2>3. /\ (Broadcast({c}, g) /\ g.of \in bits[c]) \/ UNCHANGED <<outbound, lost>>
        /\ UNCHANGED <<told, choked, amChoking>>
    BY <1>8 DEF WriteLoop, Send, CanAsk
  <2> HIDE DEF g
  <2>4. CASE Broadcast({c}, g) /\ g.of \in bits[c]
    BY <1>1, <2>2, <2>3, <2>4, SendReaches DEF ChokeKinds
  <2>5. CASE UNCHANGED <<outbound, lost>>
    BY <2>3, <2>5 DEF Idles
  <2>6. QED
    BY <2>2, <2>3, <2>4, <2>5
<1>9. ASSUME NEW c \in Conn, ChokerFlips(c)
      PROVE  Idles(x) \/ \E f \in Frame : Posts(x, f)
  <2> DEFINE g == [kind |-> IF amChoking[c] THEN "unchoke" ELSE "choke"]
  <2>1. g \in Frame /\ g.kind = Word(~amChoking[c]) /\ g.kind \in ChokeKinds /\ {c} \in SUBSET Conn
    BY FramesMade DEF Word, ChokeKinds
  <2>2. Broadcast({c}, g) /\ UNCHANGED <<told, choked>> /\ amChoking' = [amChoking EXCEPT ![c] = ~amChoking[c]] /\ c \in registered
    BY <1>9 DEF ChokerFlips, Send
  <2>3. stage[c] \notin {"none", "dialing"}
    BY <2>2 DEF SessionIInv, FirstThings
  <2> HIDE DEF g
  <2>4. Idles(x) \/ Posts(x, g)
    BY <1>1, <2>1, <2>2, <2>3, SendReaches DEF ChokeKinds
  <2>5. QED
    BY <2>1, <2>4
<1>10. CASE PieceVerified
  <2>1. PICK p \in Piece : Broadcast(registered, [kind |-> "have", of |-> p])
    BY <1>10 DEF PieceVerified
  <2> DEFINE g == [kind |-> "have", of |-> p]
  <2>2. g \in Frame /\ g.kind = "have" /\ registered \in SUBSET Conn
    BY <1>1, FramesMade DEF SessionTypes, SessionTypeOK
  <2>3. Broadcast(registered, g) /\ UNCHANGED <<told, choked, amChoking>>
    BY <1>10, <2>1 DEF PieceVerified
  <2> HIDE DEF g
  <2>4. Idles(x) \/ Posts(x, g)
    BY <1>1, <2>2, <2>3, SendReaches DEF ChokeKinds
  <2>5. QED
    BY <2>2, <2>4
<1>11. CASE SetMetadata \/ ShutdownPeers
  BY <1>1, <1>11 DEF Idles, SetMetadata, ShutdownPeers
<1>12. QED
  BY <1>2, <1>3, <1>4, <1>5, <1>6, <1>7, <1>8, <1>9, <1>10, <1>11 DEF SessionNext, ClientNext, ActorNext, HandleMessage

LEMMA ServableKept ==
    ASSUME SessionIInv, SessionNext, NEW x \in Conn
    PROVE  Servable(x)'
<1>1. /\ SessionTypes /\ DOMAIN taken = Conn /\ wide \in [Conn -> BOOLEAN] /\ outbound[x] \in Seq(Frame)
      /\ bits \in [Conn -> SUBSET Piece] /\ announced \in [Conn -> SUBSET Piece]
      /\ \A c \in Conn : Servable(c) /\ Geometries(c) /\ FirstThings(c)
  BY DEF SessionIInv, SessionTypes, SessionTypeOK
<1>2. bits'[x] \subseteq announced'[x] /\ announced[x] \subseteq announced'[x]
  <2> USE DEF Servable, bitVars, remoteVars
  <2>1. ASSUME NEW c \in Conn,
               BeginDial(c) \/ Connects(c) \/ SendInterested(c) \/ LookAtHave(c) \/ SendInitialState(c) \/ ReadMessage(c)
               \/ Disconnects(c) \/ RunReturns(c) \/ SendLoop(c) \/ WriteLoop(c)
        PROVE  UNCHANGED <<bits, announced>>
    BY <2>1 DEF BeginDial, Connects, SendInterested, LookAtHave, SendInitialState, ReadMessage,
       Disconnects, RunReturns, SendLoop, WriteLoop
  <2>2. ASSUME NEW c \in Conn,
               OnChoke(c) \/ OnInterest(c) \/ OnAllowedFast(c) \/ OnRequest(c) \/ OnMalformed(c)
               \/ RegisterPeer(c) \/ OnPeerControl(c) \/ RemovePeer(c) \/ UpgradeStores(c) \/ ChokerFlips(c) \/ Assign(c)
        PROVE  UNCHANGED <<bits, announced>>
    BY <2>2 DEF OnChoke, OnInterest, OnAllowedFast, OnRequest, OnMalformed,
       RegisterPeer, OnPeerControl, RemovePeer, UpgradeStores, ChokerFlips, Assign
  <2>3. CASE PieceVerified \/ SetMetadata \/ ShutdownPeers
    BY <1>1, <2>3 DEF PieceVerified, SetMetadata, ShutdownPeers
  <2>4. ASSUME NEW c \in Conn, OnHave(c)
        PROVE  bits'[x] \subseteq announced'[x] /\ announced[x] \subseteq announced'[x]
    BY <1>1, <2>4 DEF OnHave
  <2>5. ASSUME NEW c \in Conn, OnBitfield(c)
        PROVE  bits'[x] \subseteq announced'[x] /\ announced[x] \subseteq announced'[x]
    <3>1. announced[c] = {} /\ bits[c] = {}
      BY <1>1, <2>5 DEF OnBitfield, Handles, FirstThings
    <3> DEFINE S == taken[c].message.of
    <3>2. announced' = [announced EXCEPT ![c] = S]
      BY <2>5 DEF OnBitfield
    <3>3. bits' = [bits EXCEPT ![c] = S] \/ bits' = [bits EXCEPT ![c] = bits[c]] \/ bits' = bits
      BY <2>5 DEF OnBitfield
    <3> HIDE DEF S
    <3>4. QED
      BY <1>1, <3>1, <3>2, <3>3
  <2>6. ASSUME NEW c \in Conn, OnHaveAll(c)
        PROVE  bits'[x] \subseteq announced'[x] /\ announced[x] \subseteq announced'[x]
    BY <1>1, <2>6 DEF OnHaveAll
  <2>7. ASSUME NEW c \in Conn, UpgradeApplies(c)
        PROVE  bits'[x] \subseteq announced'[x] /\ announced[x] \subseteq announced'[x]
    <3>1. Applied(c) \subseteq announced[c]
      BY <1>1 DEF Applied, Geometries
    <3> DEFINE S == Applied(c)
    <3>2. bits' = [bits EXCEPT ![c] = S] /\ announced' = announced
      BY <2>7 DEF UpgradeApplies
    <3> HIDE DEF S
    <3>3. S \subseteq announced[c]
      BY <3>1 DEF S
    <3>4. QED
      BY <1>1, <3>2, <3>3
  <2>8. QED
    BY <1>1, <2>1, <2>2, <2>3, <2>4, <2>5, <2>6, <2>7 DEF SessionNext, ClientNext, ActorNext, HandleMessage
<1>3. Requests(x)'
  <2>1. Requests(x) /\ bits[x] \subseteq announced[x]
    BY <1>1 DEF Servable
  <2>2. CASE Idles(x)
    BY <1>2, <2>1, <2>2 DEF Requests, Idles
  <2>3. CASE SendLoop(x)
    <3> DEFINE r == Tail(outbound[x])
    <3>1. /\ DOMAIN outbound[x] = 1..Len(outbound[x]) /\ DOMAIN r = 1..Len(outbound[x]) - 1 /\ Len(outbound[x]) \in Nat
          /\ \A i \in DOMAIN r : r[i] = outbound[x][i + 1]
      BY <1>1, <2>3, Popping DEF SendLoop
    <3>2. outbound'[x] = r
      BY <1>1, <2>3 DEF SendLoop, SessionTypes
    <3> HIDE DEF r
    <3>3. ASSUME NEW i \in DOMAIN r
          PROVE  r[i] = outbound[x][i + 1] /\ i + 1 \in DOMAIN outbound[x]
      BY <3>1
    <3>4. QED
      BY <1>2, <2>1, <3>2, <3>3 DEF Requests
  <2>4. ASSUME NEW f \in Frame, Posts(x, f)
        PROVE  Requests(x)'
    <3>1. CASE outbound'[x] = outbound[x]
      BY <1>2, <2>1, <3>1 DEF Requests
    <3>2. CASE outbound'[x] = Append(outbound[x], f)
      <4> DEFINE r == Append(outbound[x], f)
      <4>1. \A i \in DOMAIN r : (i \in DOMAIN outbound[x] /\ r[i] = outbound[x][i]) \/ r[i] = f
        BY <1>1, Appending
      <4>2. outbound'[x] = r /\ (f.kind = "request" => f.of \in announced[x])
        BY <2>1, <2>4, <3>2 DEF Posts
      <4> HIDE DEF r
      <4>3. QED
        BY <1>2, <2>1, <4>1, <4>2 DEF Requests
    <3>3. QED
      BY <2>4, <3>1, <3>2 DEF Posts
  <2>5. QED
    BY <2>2, <2>3, <2>4, QueueSteps
<1>4. QED
  BY <1>2, <1>3 DEF Servable

\* The stages a connection can come from.
LEMMA StagesAdvance ==
    ASSUME SessionIInv, SessionNext, NEW x \in Conn
    PROVE  /\ stage[x] \in {"closed", "over", "gone"} => stage'[x] \in {"closed", "over", "gone"}
           /\ stage'[x] = "greet" => stage[x] \in {"look", "greet"}
           /\ stage'[x] = "reading" => stage[x] \in {"greet", "reading"}
<1>1. stage \in [Conn -> Stage]
  BY DEF SessionIInv, SessionTypes, SessionTypeOK
<1> USE DEF loopVars
<1>2. ASSUME NEW c \in Conn, ClientNext(c) /\ ~HandleMessage(c)
      PROVE  /\ stage[x] \in {"closed", "over", "gone"} => stage'[x] \in {"closed", "over", "gone"}
             /\ stage'[x] = "greet" => stage[x] \in {"look", "greet"}
             /\ stage'[x] = "reading" => stage[x] \in {"greet", "reading"}
  BY <1>1, <1>2 DEF ClientNext, BeginDial, Connects, SendInterested, LookAtHave, SendInitialState, ReadMessage,
     Disconnects, RunReturns, SendLoop, WriteLoop, Open
<1>3. ASSUME NEW c \in Conn, HandleMessage(c)
      PROVE  stage'[x] = stage[x] \/ stage'[x] = "closed"
  <2>1. Handled(c) \/ Violates(c)
    BY <1>3 DEF HandleMessage, OnChoke, OnInterest, OnHave, OnBitfield, OnHaveAll, OnAllowedFast, OnRequest, OnMalformed
  <2>2. QED
    BY <1>1, <2>1 DEF Handled, Violates
<1>4. ASSUME NEW c \in Conn, ActorNext(c)
      PROVE  stage'[x] = stage[x] \/ stage'[x] = "gone"
  BY <1>1, <1>4 DEF ActorNext, RegisterPeer, OnPeerControl, RemovePeer, UpgradeStores, UpgradeApplies, ChokerFlips, Assign
<1>5. CASE PieceVerified \/ SetMetadata \/ ShutdownPeers
  BY <1>1, <1>5 DEF PieceVerified, SetMetadata, ShutdownPeers
<1>6. QED
  BY <1>2, <1>3, <1>4, <1>5 DEF SessionNext

LEMMA ChokedKept ==
    ASSUME SessionIInv, SessionNext, NEW x \in Conn
    PROVE  Choked(x)'
<1>1. /\ SessionTypes /\ SessionTypes' /\ outbound[x] \in Seq(Frame) /\ choked[x] \in BOOLEAN /\ amChoking[x] \in BOOLEAN
      /\ amChoking'[x] \in BOOLEAN /\ choked'[x] \in BOOLEAN
  BY TypesKept DEF SessionIInv, SessionTypes, SessionTypeOK
<1> SUFFICES ASSUME stage'[x] \notin {"closed", "over", "gone"}, ~LostChoke(x)'
             PROVE  SaysLast(outbound'[x], choked'[x], amChoking'[x])
  BY DEF Choked
<1>2. stage[x] \notin {"closed", "over", "gone"}
  BY StagesAdvance
<1>3. lost[x] \subseteq lost'[x]
  BY QueueSteps DEF Idles, Posts, SendLoop
<1>4. ~LostChoke(x)
  BY <1>3 DEF LostChoke
<1>5. SaysLast(outbound[x], choked[x], amChoking[x])
  BY <1>2, <1>4 DEF SessionIInv, Choked
<1>6. CASE Idles(x)
  BY <1>2, <1>5, <1>6 DEF Idles
<1>7. CASE SendLoop(x)
  <2> DEFINE f == Head(outbound[x])
  <2>1. outbound[x] # <<>> /\ outbound'[x] = Tail(outbound[x]) /\ amChoking'[x] = amChoking[x]
    BY <1>1, <1>7 DEF SendLoop, SessionTypes, flagVars
  <2>2. /\ f.kind \notin ChokeKinds => choked'[x] = choked[x]
        /\ f.kind = "choke" => choked'[x] = TRUE
        /\ f.kind = "unchoke" => choked'[x] = FALSE
    <3>1. \/ f.kind = "choke" /\ choked' = [choked EXCEPT ![x] = TRUE]
          \/ f.kind = "unchoke" /\ choked' = [choked EXCEPT ![x] = FALSE]
          \/ f.kind \notin ChokeKinds /\ choked' = [choked EXCEPT ![x] = choked[x]]
      BY <1>7 DEF SendLoop, ChokeKinds
    <3> HIDE DEF f
    <3>2. DOMAIN choked = Conn
      BY <1>1 DEF SessionTypes, SessionTypeOK
    <3>3. QED
      BY <3>1, <3>2 DEF ChokeKinds
  <2>3. QED
    BY <1>1, <1>5, <2>1, <2>2, SaysStill
<1>8. ASSUME NEW f \in Frame, Posts(x, f)
      PROVE  SaysLast(outbound'[x], choked'[x], amChoking'[x])
  <2>1. CASE f.kind \in ChokeKinds
    <3>1. f.kind = Word(amChoking'[x]) /\ choked'[x] = choked[x]
      BY <1>8, <2>1 DEF Posts
    <3>2. f \notin lost'[x]
      BY <2>1 DEF LostChoke, ChokeKinds
    <3>3. outbound'[x] = Append(outbound[x], f)
      BY <1>8, <3>2 DEF Posts
    <3>4. QED
      BY <1>1, <3>1, <3>3, SaysMore
  <2>2. CASE f.kind \notin ChokeKinds
    <3>1. amChoking'[x] = amChoking[x] /\ choked'[x] = choked[x] /\ outbound'[x] \in {outbound[x], Append(outbound[x], f)}
      BY <1>8, <2>2 DEF Posts
    <3>2. QED
      BY <1>1, <1>5, <2>2, <3>1, SaysMore
  <2>3. QED
    BY <2>1, <2>2
<1>9. QED
  BY <1>6, <1>7, <1>8, QueueSteps

\* What a lost frame would have told is among what was lost, for good.
LEMMA LostStays ==
    ASSUME SessionIInv, SessionNext, NEW x \in Conn
    PROVE  lost[x] \subseteq lost'[x] /\ LostPieces(x) \subseteq LostPieces(x)'
<1>1. lost[x] \subseteq lost'[x]
  <2>1. SendLoop(x) => lost'[x] = lost[x]
    BY DEF SendLoop
  <2>2. QED
    BY <2>1, QueueSteps DEF Idles, Posts
<1>2. ASSUME NEW p \in LostPieces(x)
      PROVE  p \in LostPieces(x)'
  BY <1>1, <1>2 DEF LostPieces
<1>3. QED
  BY <1>1, <1>2

\* Nothing but the first message takes back what a peer was told.
LEMMA KnowledgeStays ==
    ASSUME SessionIInv, SessionNext, NEW x \in Conn, NEW p \in Piece, stage[x] # "greet",
           Knows(outbound[x], told[x], p)
    PROVE  Knows(outbound'[x], told'[x], p)
<1>1. /\ outbound \in [Conn -> Seq(Frame)] /\ told \in [Conn -> SUBSET Piece]
  BY DEF SessionIInv, SessionTypes, SessionTypeOK
<1>2. CASE Idles(x)
  BY <1>2 DEF Idles
<1>3. CASE SendLoop(x)
  <2> DEFINE f == Head(outbound[x])
  <2>1. outbound[x] # <<>> /\ outbound'[x] = Tail(outbound[x])
    BY <1>1, <1>3 DEF SendLoop
  <2>2. \/ f.kind = "have" /\ told' = [told EXCEPT ![x] = @ \cup {f.of}]
        \/ f.kind = "bitfield" /\ told' = [told EXCEPT ![x] = f.of]
        \/ f.kind \notin {"have", "bitfield"} /\ told' = [told EXCEPT ![x] = told[x]]
    BY <1>3 DEF SendLoop
  <2> HIDE DEF f
  <2>3. (p \in told[x] /\ ~Erases(f, p) => p \in told'[x]) /\ (Informs(f, p) => p \in told'[x])
    BY <1>1, <2>2 DEF Erases, Informs
  <2>4. QED
    BY <1>1, <2>1, <2>3, KnowsStill DEF f
<1>4. ASSUME NEW f \in Frame, Posts(x, f)
      PROVE  Knows(outbound'[x], told'[x], p)
  <2>1. ~Erases(f, p) /\ told'[x] = told[x] /\ outbound'[x] \in {outbound[x], Append(outbound[x], f)}
    BY <1>4 DEF Posts, Erases
  <2>2. QED
    BY <1>1, <2>1, KnowsMore
<1>5. QED
  BY <1>2, <1>3, <1>4, QueueSteps

LEMMA HearsKept ==
    ASSUME SessionIInv, SessionNext, NEW x \in Conn
    PROVE  Hears(x)'
<1>1. /\ SessionTypes /\ SessionTypes' /\ stage \in [Conn -> Stage] /\ snapshot \in [Conn -> SUBSET Piece]
      /\ outbound \in [Conn -> Seq(Frame)] /\ told \in [Conn -> SUBSET Piece] /\ gap \in [Conn -> SUBSET Piece]
      /\ have \subseteq Piece /\ have' \subseteq Piece /\ Hears(x) /\ Upgrades
      /\ \A c \in Conn : FirstThings(c)
  BY TypesKept DEF SessionIInv, SessionTypes, SessionTypeOK
<1>0. SessionTypes
  BY <1>1
<1>2. LostPieces(x) \subseteq LostPieces(x)'
  BY LostStays
<1>3. ASSUME UNCHANGED <<have, gap[x], snapshot[x]>>, stage'[x] \in {"greet", "reading"} => stage'[x] = stage[x]
      PROVE  Hears(x)'
  <2>1. ASSUME stage'[x] = "reading", NEW p \in have, p \notin gap[x] \cup LostPieces(x)'
        PROVE  Knows(outbound'[x], told'[x], p)
    <3>1. Knows(outbound[x], told[x], p) /\ stage[x] # "greet" /\ p \in Piece
      BY <1>1, <1>2, <1>3, <2>1 DEF Hears
    <3>2. QED
      BY <3>1, KnowledgeStays
  <2>2. QED
    BY <1>1, <1>3, <2>1 DEF Hears
<1>4. ASSUME NEW c \in Conn, LookAtHave(c)
      PROVE  Hears(x)'
  <2>1. CASE x = c
    BY <1>1, <1>4, <2>1 DEF LookAtHave, Hears, actorVars
  <2>2. CASE x # c
    BY <1>1, <1>3, <1>4, <2>2 DEF LookAtHave, actorVars
  <2>3. QED
    BY <2>1, <2>2
<1>5. ASSUME NEW c \in Conn, SendInitialState(c)
      PROVE  Hears(x)'
  <2>1. UNCHANGED <<have, gap, snapshot, told>> /\ stage[c] = "greet" /\ stage' = [stage EXCEPT ![c] = "reading"]
    BY <1>5 DEF SendInitialState, actorVars, remoteVars, ghostVars
  <2>2. CASE x = c
    <3> DEFINE g == [kind |-> "bitfield", of |-> snapshot[c]]
    <3>1. g \in Frame /\ g.kind = "bitfield" /\ g.of = snapshot[c] /\ {c} \in SUBSET Conn
      BY <1>1, FramesMade
    <3>2. snapshot[c] = {} \/ Broadcast({c}, g)
      BY <1>5 DEF SendInitialState, Send
    <3> HIDE DEF g
    <3>3. ASSUME NEW p \in have, p \notin gap[c]
          PROVE  p \in LostPieces(c)' \/ Knows(outbound'[c], told'[c], p)
      <4>1. p \in snapshot[c] /\ p \in Piece
        BY <1>1, <2>1, <2>2, <3>3 DEF Hears
      <4>2. Broadcast({c}, g) /\ Open(c)
        BY <2>1, <3>2, <4>1 DEF Open
      <4>3. outbound'[c] = Append(outbound[c], g) \/ g \in lost'[c]
        <5>1. \A y \in Conn : y \in {c} /\ Open(y) =>
                  \/ outbound'[y] = Append(outbound[y], g) /\ lost'[y] = lost[y]
                  \/ outbound'[y] = outbound[y] /\ lost'[y] = lost[y] \cup {g}
          BY <1>0, <3>1, <4>2, Broadcasts
        <5>2. QED
          BY <4>2, <5>1
      <4>4. CASE outbound'[c] = Append(outbound[c], g)
        BY <1>1, <2>1, <3>1, <4>1, <4>4, KnowsMore DEF Informs
      <4>5. CASE g \in lost'[c]
        BY <3>1, <4>1, <4>5 DEF LostPieces
      <4>6. QED
        BY <4>3, <4>4, <4>5
    <3>4. QED
      BY <1>1, <2>1, <2>2, <3>3 DEF Hears
  <2>3. CASE x # c
    BY <1>1, <1>3, <2>1, <2>3
  <2>4. QED
    BY <2>2, <2>3
<1>6. CASE PieceVerified
  <2>1. PICK q \in Piece \ have :
            /\ have' = have \cup {q} /\ Broadcast(registered, [kind |-> "have", of |-> q])
            /\ gap' = [c \in Conn |-> IF Misses(c) THEN gap[c] \cup {q} ELSE gap[c]]
    BY <1>6 DEF PieceVerified
  <2> DEFINE g == [kind |-> "have", of |-> q]
  <2>2. g \in Frame /\ g.kind = "have" /\ g.of = q /\ registered \in SUBSET Conn
    BY <1>1, FramesMade DEF SessionTypes, SessionTypeOK
  <2>3. Broadcast(registered, g) /\ UNCHANGED <<stage, snapshot, told>>
    BY <1>6, <2>1 DEF PieceVerified, loopVars, remoteVars
  <2>4. g \in lost'[x] => q \in LostPieces(x)'
    BY <2>1 DEF LostPieces
  <2> HIDE DEF g
  <2>5. gap'[x] = IF Misses(x) THEN gap[x] \cup {q} ELSE gap[x]
    BY <2>1
  <2>6. stage[x] = "greet" => have' \subseteq snapshot[x] \cup gap'[x]
    BY <1>1, <2>1, <2>5 DEF Hears, Misses
  <2>7. ASSUME stage[x] = "reading", NEW p \in have', p \notin gap'[x] \cup LostPieces(x)'
        PROVE  Knows(outbound'[x], told'[x], p)
    <3>1. p \in Piece
      BY <1>1
    <3>2. CASE p = q
      <4>1. x \in registered /\ Open(x)
        BY <2>5, <2>7, <3>2 DEF Misses, Open
      <4>2. outbound'[x] = Append(outbound[x], g)
        <5>1. \A y \in Conn : y \in registered /\ Open(y) =>
                  \/ outbound'[y] = Append(outbound[y], g) /\ lost'[y] = lost[y]
                  \/ outbound'[y] = outbound[y] /\ lost'[y] = lost[y] \cup {g}
          BY <1>0, <2>2, <2>3, Broadcasts
        <5>2. g \notin lost'[x]
          BY <2>4, <2>7, <3>2
        <5>3. QED
          BY <4>1, <5>1, <5>2
      <4>3. QED
        BY <1>1, <2>2, <2>3, <3>1, <3>2, <4>2, KnowsMore DEF Informs
    <3>3. CASE p # q
      <4>1. Knows(outbound[x], told[x], p)
        BY <1>1, <1>2, <2>1, <2>5, <2>7, <3>3 DEF Hears
      <4>2. QED
        BY <2>7, <3>1, <4>1, KnowledgeStays
    <3>4. QED
      BY <3>2, <3>3
  <2>8. QED
    BY <2>3, <2>6, <2>7 DEF Hears
<1>7. CASE SetMetadata
  <2>1. have' \subseteq gap'[x] \/ stage[x] \notin {"greet", "reading"}
    BY <1>7 DEF SetMetadata
  <2>2. stage' = stage
    BY <1>7 DEF SetMetadata, loopVars
  <2>3. QED
    BY <2>1, <2>2 DEF Hears
<1>8. CASE ShutdownPeers
  BY <1>1, <1>3, <1>8 DEF ShutdownPeers, ghostVars
<1>9. ASSUME NEW c \in Conn,
             BeginDial(c) \/ Connects(c) \/ SendInterested(c) \/ ReadMessage(c)
             \/ Disconnects(c) \/ RunReturns(c) \/ SendLoop(c) \/ WriteLoop(c)
      PROVE  Hears(x)'
  <2>1. UNCHANGED <<have, gap, snapshot>>
    BY <1>9 DEF BeginDial, Connects, SendInterested, ReadMessage, Disconnects, RunReturns, SendLoop, WriteLoop,
       actorVars, ghostVars, loopVars
  <2>2. stage'[x] \in {"greet", "reading"} => stage'[x] = stage[x]
    BY <1>1, <1>9 DEF BeginDial, Connects, SendInterested, ReadMessage, Disconnects, RunReturns, SendLoop, WriteLoop,
       loopVars
  <2>3. QED
    BY <1>3, <2>1, <2>2
<1>10. ASSUME NEW c \in Conn, HandleMessage(c)
       PROVE  Hears(x)'
  <2>1. UNCHANGED <<have, gap, snapshot>>
    BY <1>10 DEF HandleMessage, OnChoke, OnInterest, OnHave, OnBitfield, OnHaveAll, OnAllowedFast, OnRequest, OnMalformed,
       actorVars, ghostVars
  <2>2. Handled(c) \/ Violates(c)
    BY <1>10 DEF HandleMessage, OnChoke, OnInterest, OnHave, OnBitfield, OnHaveAll, OnAllowedFast, OnRequest, OnMalformed
  <2>3. stage'[x] \in {"greet", "reading"} => stage'[x] = stage[x]
    BY <1>1, <2>2 DEF Handled, Violates
  <2>4. QED
    BY <1>3, <2>1, <2>3
<1>11. ASSUME NEW c \in Conn, ActorNext(c)
       PROVE  Hears(x)'
  <2>1. UNCHANGED <<have, gap, snapshot>>
    BY <1>11 DEF ActorNext, RegisterPeer, OnPeerControl, RemovePeer, UpgradeStores, UpgradeApplies, ChokerFlips, Assign,
       ghostVars, loopVars
  <2>2. stage'[x] \in {"greet", "reading"} => stage'[x] = stage[x]
    BY <1>1, <1>11 DEF ActorNext, RegisterPeer, OnPeerControl, RemovePeer, UpgradeStores, UpgradeApplies, ChokerFlips, Assign,
       loopVars
  <2>3. QED
    BY <1>3, <2>1, <2>2
<1>12. QED
  BY <1>4, <1>5, <1>6, <1>7, <1>8, <1>9, <1>10, <1>11 DEF SessionNext, ClientNext

\* What an events queue has still to count, as it grows and is handled.
LEMMA CountsMore ==
    ASSUME NEW q \in Seq(Event), NEW e \in Event, NEW p \in Piece
    PROVE  Counting(q, p) \/ CountsFor(e, p) => Counting(Append(q, e), p)
<1> DEFINE r == Append(q, e)
<1>1. \A i \in DOMAIN q : i \in DOMAIN r /\ r[i] = q[i]
  BY Appending
<1>2. Len(q) + 1 \in DOMAIN r /\ r[Len(q) + 1] = e
  BY Appending
<1> HIDE DEF r
<1>3. QED
  BY <1>1, <1>2 DEF Counting, r

LEMMA CountsStill ==
    ASSUME NEW q \in Seq(Event), q # <<>>, NEW p \in Piece, Counting(q, p), ~CountsFor(Head(q), p)
    PROVE  Counting(Tail(q), p)
<1> DEFINE r == Tail(q)
<1>1. /\ Head(q) = q[1] /\ DOMAIN q = 1..Len(q) /\ DOMAIN r = 1..Len(q) - 1 /\ Len(q) \in Nat
      /\ \A i \in DOMAIN r : r[i] = q[i + 1]
  BY Popping
<1> HIDE DEF r
<1>2. PICK i \in DOMAIN q : CountsFor(q[i], p)
  BY DEF Counting
<1>3. i # 1
  BY <1>1, <1>2
<1>4. i - 1 \in DOMAIN r /\ r[i - 1] = q[i]
  BY <1>1, <1>3
<1>5. QED
  BY <1>2, <1>4 DEF Counting, r

\* The count of a piece goes with the connections it has to cover.
LEMMA Tallied ==
    ASSUME NEW S, NEW T, IsFiniteSet(S), NEW n \in Nat, NEW m \in Nat, n >= Cardinality(S), NEW c,
           \/ m >= n /\ T \subseteq S
           \/ m = n + 1 /\ T \subseteq S \cup {c}
           \/ m = n - 1 /\ c \in S /\ T \subseteq S \ {c}
    PROVE  m >= Cardinality(T)
<1>1. Cardinality(S) \in Nat
  BY FS_CardinalityType
<1>2. CASE m >= n /\ T \subseteq S
  <2>1. Cardinality(T) \in Nat /\ Cardinality(T) <= Cardinality(S)
    BY <1>2, FS_Subset, FS_CardinalityType
  <2>2. QED
    BY <1>1, <1>2, <2>1
<1>3. CASE m = n + 1 /\ T \subseteq S \cup {c}
  <2>1. IsFiniteSet(S \cup {c}) /\ Cardinality(S \cup {c}) \in Nat /\ Cardinality(S \cup {c}) <= Cardinality(S) + 1
    <3>1. IsFiniteSet(S \cup {c}) /\ Cardinality(S \cup {c}) = IF c \in S THEN Cardinality(S) ELSE Cardinality(S) + 1
      BY FS_AddElement
    <3>2. QED
      BY <1>1, <3>1
  <2>2. Cardinality(T) \in Nat /\ Cardinality(T) <= Cardinality(S \cup {c})
    BY <1>3, <2>1, FS_Subset, FS_CardinalityType
  <2>3. QED
    BY <1>1, <1>3, <2>1, <2>2
<1>4. CASE m = n - 1 /\ c \in S /\ T \subseteq S \ {c}
  <2>1. IsFiniteSet(S \ {c}) /\ Cardinality(S \ {c}) = Cardinality(S) - 1
    BY <1>4, FS_RemoveElement
  <2>2. Cardinality(T) \in Nat /\ Cardinality(T) <= Cardinality(S \ {c})
    BY <1>4, <2>1, FS_Subset, FS_CardinalityType
  <2>3. QED
    BY <1>1, <1>4, <2>1, <2>2
<1>5. QED
  BY <1>2, <1>3, <1>4

\* An event that a message has the client put in its queue.
LEMMA NotifiedAwaits ==
    ASSUME SessionTypes, NEW c \in Conn, NEW e \in Event, Notify(c, e), dropped' = {}
    PROVE  /\ \A x \in Conn, p \in Piece : Awaits(x, p) => Awaits(x, p)'
           /\ \A p \in Piece : CountsFor(e, p) => Awaits(c, p)'
<1>1. /\ \A x \in Conn : x # c => events'[x] = events[x]
      /\ events'[c] = Append(events[c], e)
  BY Notifies
<1>2. events[c] \in Seq(Event)
  BY DEF SessionTypes
<1>3. QED
  BY <1>1, <1>2, CountsMore DEF Awaits

\* A step after which nobody has to be covered that had not, and no count is less.
LEMMA CoveredAsBefore ==
    ASSUME SessionTypes, Covered, dropped = {}, NEW p \in Piece, Due(p)' \in Nat, Due(p)' >= Due(p),
           \A y \in Conn : y \in registered' => y \in registered,
           \A y \in registered' : p \in bits'[y] => p \in bits[y] \/ Awaits(y, p)',
           \A y \in registered' : Awaits(y, p) => Awaits(y, p)',
           \A y \in registered' : Upgraded(y)' => Upgraded(y),
           registered' \subseteq Conn
    PROVE  Due(p)' >= Cardinality(Credited(p)')
<1>1. IsFiniteSet(Credited(p))
  BY SessionAssumption, FS_Subset DEF Credited, SessionTypes, SessionTypeOK
<1>2. Credited(p)' \subseteq Credited(p)
  <2>1. ASSUME NEW y \in Credited(p)'
        PROVE  y \in Credited(p)
    <3>1. y \in registered' /\ p \in bits'[y] /\ ~Awaits(y, p)' /\ Upgraded(y)'
      BY <2>1 DEF Credited
    <3>2. QED
      BY <3>1 DEF Credited
  <2>2. QED
    BY <2>1
<1>3. Due(p) \in Nat /\ Due(p) >= Cardinality(Credited(p))
  <2>1. counts[p] \in Nat /\ stale[p] \in Nat
    BY DEF SessionTypes, SessionTypeOK
  <2>2. QED
    BY <2>1 DEF Covered, Due
<1>4. QED
  BY <1>1, <1>2, <1>3, Tallied

LEMMA CoveredKept ==
    ASSUME SessionIInv, SessionNext
    PROVE  Covered'
<1>1. /\ SessionTypes /\ SessionTypes' /\ Covered /\ Upgrades /\ IsFiniteSet(Conn)
      /\ registered \subseteq Conn /\ registered' \subseteq Conn /\ counts \in [Piece -> Nat] /\ counts' \in [Piece -> Nat]
      /\ stale \in [Piece -> Nat] /\ stale' \in [Piece -> Nat] /\ \A p \in Piece : Due(p) \in Nat /\ Due(p)' \in Nat
      /\ bits \in [Conn -> SUBSET Piece] /\ bits' \in [Conn -> SUBSET Piece] /\ joined \in [Conn -> {"no", "queued", "handled"}]
      /\ DOMAIN events = Conn /\ dropped \subseteq Conn
      /\ upgrading \subseteq Conn \X BOOLEAN
      /\ \A c \in Conn : FirstThings(c) /\ Geometries(c)
  <2>1. SessionTypes /\ SessionTypes'
    BY TypesKept DEF SessionIInv
  <2>2. counts \in [Piece -> Nat] /\ counts' \in [Piece -> Nat] /\ stale \in [Piece -> Nat] /\ stale' \in [Piece -> Nat]
    BY <2>1 DEF SessionTypes, SessionTypeOK
  <2>3. \A p \in Piece : Due(p) \in Nat /\ Due(p)' \in Nat
    BY <2>2 DEF Due
  <2>4. QED
    BY <2>1, <2>2, <2>3, SessionAssumption DEF SessionIInv, SessionTypes, SessionTypeOK
<1> SUFFICES ASSUME dropped' = {}
             PROVE  /\ \A p \in Piece : Due(p)' >= Cardinality(Credited(p)')
                    /\ \A c \in Conn : \A p \in bits'[c] : joined'[c] # "handled" => Awaits(c, p)'
  BY DEF Covered
<1> DEFINE Tallies == \A p \in Piece : Due(p)' >= Cardinality(Credited(p)')
           Early == \A c \in Conn : \A p \in bits'[c] : joined'[c] # "handled" => Awaits(c, p)'
           Same == \A y \in Conn, p \in Piece : Awaits(y, p) => Awaits(y, p)'
\* A step that only adds events, pieces that an event will count and connections to upgrade.
<1>2. ASSUME dropped = {}, Same, UNCHANGED <<registered, counts, stale>>,
             \A y \in Conn : joined'[y] # "handled" => joined[y] # "handled",
             \A y \in Conn, p \in Piece : p \in bits'[y] => p \in bits[y] \/ Awaits(y, p)',
             \A y \in Conn : Upgraded(y)' => Upgraded(y)
      PROVE  Tallies /\ Early
  <2>1. Early
    BY <1>1, <1>2 DEF Covered
  <2>2. ASSUME NEW p \in Piece
        PROVE  Due(p)' >= Cardinality(Credited(p)')
    <3>1. Due(p)' \in Nat /\ Due(p)' >= Due(p)
      BY <1>1, <1>2 DEF Due
    <3> HIDE DEF Tallies, Early
    <3>2. QED
      BY <1>1, <1>2, <3>1, CoveredAsBefore
  <2>3. QED
    BY <2>1, <2>2
<1> HIDE DEF Tallies, Early, Same
<1>3. ASSUME UNCHANGED <<registered, counts, stale, bits, events, dropped, upgrading>>,
             \A y \in Conn : joined'[y] # "handled" => joined[y] # "handled"
      PROVE  Tallies /\ Early
  <2>1. Same /\ \A y \in Conn : Upgraded(y)' => Upgraded(y)
    BY <1>3 DEF Same, Awaits, Upgraded
  <2>2. QED
    BY <1>1, <1>2, <1>3, <2>1
<1>4. ASSUME NEW c \in Conn, ClientNext(c), ~HandleMessage(c)
      PROVE  Tallies /\ Early
  <2>1. UNCHANGED <<registered, counts, stale, bits, events, dropped, upgrading>>
    BY <1>4 DEF ClientNext, BeginDial, Connects, SendInterested, LookAtHave, SendInitialState, ReadMessage,
       Disconnects, RunReturns, SendLoop, WriteLoop, actorVars, bitVars
  <2>2. joined' = joined \/ (joined[c] = "no" /\ joined' = [joined EXCEPT ![c] = "queued"])
    BY <1>1, <1>4 DEF ClientNext, BeginDial, Connects, SendInterested, LookAtHave, SendInitialState, ReadMessage,
       Disconnects, RunReturns, SendLoop, WriteLoop, loopVars, FirstThings
  <2>3. QED
    BY <1>1, <1>3, <2>1, <2>2
<1>5. ASSUME NEW c \in Conn, OnAllowedFast(c) \/ OnRequest(c) \/ OnMalformed(c)
      PROVE  Tallies /\ Early
  BY <1>1, <1>3, <1>5 DEF OnAllowedFast, OnRequest, OnMalformed, actorVars, bitVars
<1>6. ASSUME NEW c \in Conn, NEW e \in Event, Notify(c, e), UNCHANGED <<registered, counts, stale, joined, upgrading>>,
             \A y \in Conn, p \in Piece : p \in bits'[y] => p \in bits[y] \/ (y = c /\ CountsFor(e, p))
      PROVE  Tallies /\ Early
  <2>1. dropped = {}
    BY <1>1, <1>6, Notifies
  <2>2. Same /\ \A p \in Piece : CountsFor(e, p) => Awaits(c, p)'
    BY <1>1, <1>6, NotifiedAwaits DEF Same
  <2>3. \A y \in Conn : Upgraded(y)' => Upgraded(y)
    BY <1>6 DEF Upgraded
  <2>4. QED
    BY <1>1, <1>2, <1>6, <2>1, <2>2, <2>3
<1>7. ASSUME NEW c \in Conn, OnChoke(c) \/ OnInterest(c)
      PROVE  Tallies /\ Early
  <2>1. PICK e \in Event : Notify(c, e)
    BY <1>7, EventsAre DEF OnChoke, OnInterest
  <2>2. UNCHANGED <<registered, counts, stale, joined, upgrading, bits>>
    BY <1>7 DEF OnChoke, OnInterest, actorVars, bitVars
  <2>3. QED
    BY <1>6, <2>1, <2>2
<1>8. ASSUME NEW c \in Conn, OnHave(c)
      PROVE  Tallies /\ Early
  <2> DEFINE q == taken[c].message.of
             e == [kind |-> "have", of |-> q]
  <2>1. HandleMessage(c) /\ taken[c].message.kind = "have"
    BY <1>8 DEF HandleMessage, OnHave, Handles
  <2>2. q \in Piece /\ e \in Event /\ CountsFor(e, q)
    BY <1>1, <2>1, MessageTaken, EventsAre DEF CountsFor
  <2>3. Notify(c, e) /\ UNCHANGED <<registered, counts, stale, joined, upgrading>>
    BY <1>8 DEF OnHave, actorVars
  <2>4. bits' = [bits EXCEPT ![c] = @ \cup {q}] \/ bits' = [bits EXCEPT ![c] = bits[c]]
    BY <1>8 DEF OnHave
  <2> HIDE DEF e, q
  <2>5. \A y \in Conn, p \in Piece : p \in bits'[y] => p \in bits[y] \/ (y = c /\ CountsFor(e, p))
    BY <1>1, <2>2, <2>4
  <2>6. QED
    BY <1>6, <2>2, <2>3, <2>5
<1>9. ASSUME NEW c \in Conn, OnBitfield(c) \/ OnHaveAll(c)
      PROVE  Tallies /\ Early
  <2> DEFINE e == [kind |-> "bitfield"]
  <2>1. e \in Event /\ \A p \in Piece : CountsFor(e, p)
    BY EventsAre DEF CountsFor
  <2>2. UNCHANGED <<registered, counts, stale, joined, upgrading>> /\ \A y \in Conn : y # c => bits'[y] = bits[y]
    BY <1>1, <1>9 DEF OnBitfield, OnHaveAll, actorVars
  <2>3. Notify(c, e) \/ UNCHANGED <<events, dropped, bits>>
    <3>1. CASE OnHaveAll(c)
      BY <3>1 DEF OnHaveAll
    <3>2. CASE OnBitfield(c)
      <4>1. CASE taken[c].known /\ ~wide[c]
        <5>1. bits' = [bits EXCEPT ![c] = bits[c]] /\ UNCHANGED <<events, dropped>>
          BY <3>2, <4>1 DEF OnBitfield
        <5>2. QED
          BY <1>1, <5>1
      <4>2. CASE ~(taken[c].known /\ ~wide[c])
        BY <3>2, <4>2 DEF OnBitfield
      <4>3. QED
        BY <4>1, <4>2
    <3>3. QED
      BY <1>9, <3>1, <3>2
  <2> HIDE DEF e
  <2>4. CASE Notify(c, e)
    BY <1>6, <2>1, <2>2, <2>4
  <2>5. CASE UNCHANGED <<events, dropped, bits>>
    BY <1>1, <1>3, <2>2, <2>5
  <2>6. QED
    BY <2>3, <2>4, <2>5
<1>10. ASSUME NEW c \in Conn, ChokerFlips(c) \/ Assign(c)
       PROVE  Tallies /\ Early
  BY <1>1, <1>3, <1>10 DEF ChokerFlips, Assign, bitVars, loopVars
<1>11. ASSUME PieceVerified
       PROVE  Tallies /\ Early
  BY <1>1, <1>3, <1>11 DEF PieceVerified, bitVars, loopVars
<1>12. ASSUME SetMetadata
       PROVE  Tallies /\ Early
  <2>1. upgrading = {} /\ UNCHANGED <<registered, counts, stale, bits, events, dropped, joined>>
    BY <1>12 DEF SetMetadata, ActorFree, bitVars, loopVars
  <2>2. Same /\ \A y \in Conn : Upgraded(y)' => Upgraded(y)
    BY <2>1 DEF Same, Awaits, Upgraded
  <2>3. QED
    BY <1>1, <1>2, <2>1, <2>2
<1>13. ASSUME NEW c \in Conn, UpgradeStores(c)
       PROVE  Tallies /\ Early
  <2>1. UNCHANGED <<registered, counts, stale, bits, events, dropped, joined>>
    BY <1>13 DEF UpgradeStores, loopVars
  <2>2. /\ <<c, FALSE>> \in upgrading /\ upgrading' = (upgrading \ {<<c, FALSE>>}) \cup {<<c, TRUE>>}
    BY <1>13 DEF UpgradeStores
  <2>3. \A y \in Conn : Upgraded(y)' => Upgraded(y)
    <3>1. ASSUME NEW y \in Conn, NEW s \in BOOLEAN, <<y, s>> \in upgrading
          PROVE  <<y, s>> \in upgrading' \/ <<y, TRUE>> \in upgrading'
      <4>1. CASE y = c
        BY <2>2, <4>1
      <4>2. CASE y # c
        BY <2>2, <3>1, <4>2
      <4>3. QED
        BY <4>1, <4>2
    <3>2. QED
      BY <3>1 DEF Upgraded
  <2>4. Same
    BY <2>1 DEF Same, Awaits
  <2>5. QED
    BY <1>1, <1>2, <2>1, <2>3, <2>4
\* A connection is registered: what it has, an event still to come will count.
<1>14. ASSUME NEW c \in Conn, RegisterPeer(c)
       PROVE  Tallies /\ Early
  <2>1. /\ joined[c] = "queued" /\ registered' \subseteq registered \cup {c} /\ joined' = [joined EXCEPT ![c] = "handled"]
        /\ UNCHANGED <<counts, stale, bits, events, dropped, upgrading>>
    BY <1>14 DEF RegisterPeer, bitVars
  <2>a. \A p \in Piece : Due(p)' = Due(p)
    BY <2>1 DEF Due
  <2>2. \A p \in bits[c] : Awaits(c, p)
    BY <1>1, <2>1 DEF Covered
  <2>3. Early
    BY <1>1, <2>1 DEF Covered, Early, Awaits
  <2>4. ASSUME NEW p \in Piece
        PROVE  Due(p)' >= Cardinality(Credited(p)')
    <3>1. Credited(p)' \subseteq Credited(p)
      <4>1. ASSUME NEW y \in Credited(p)'
            PROVE  y \in Credited(p)
        <5>1. y \in registered' /\ p \in bits[y] /\ ~Awaits(y, p) /\ Upgraded(y)
          BY <2>1, <4>1 DEF Credited, Awaits, Upgraded
        <5>2. QED
          BY <2>1, <2>2, <5>1 DEF Credited
      <4>2. QED
        BY <4>1
    <3>2. IsFiniteSet(Credited(p)) /\ Due(p) \in Nat /\ Due(p) >= Cardinality(Credited(p))
      BY <1>1, <2>1, FS_Subset DEF Credited, Covered
    <3>3. QED
      BY <2>a, <3>1, <3>2, Tallied
  <2>5. QED
    BY <2>3, <2>4 DEF Tallies
\* An event is handled: what it had the connection wait for is counted.
<1>15. ASSUME NEW c \in Conn, OnPeerControl(c)
       PROVE  Tallies /\ Early
  <2> DEFINE e == Head(events[c])
  <2>1. /\ joined[c] = "handled" /\ events[c] \in Seq(Event) /\ events[c] # <<>> /\ e \in Event
        /\ events' = [events EXCEPT ![c] = Tail(@)]
        /\ UNCHANGED <<registered, stale, bits, dropped, upgrading, joined, metadata>>
    BY <1>1, <1>15, Popping DEF OnPeerControl, SessionTypes, bitVars, loopVars
  <2>2. \/ metadata /\ e.kind = "bitfield" /\ counts' = Counted(bits[c])
        \/ metadata /\ e.kind = "have" /\ counts' = Counted({e.of})
        \/ (~metadata \/ e.kind \notin {"bitfield", "have"}) /\ counts' = counts
    BY <1>15 DEF OnPeerControl
  <2> HIDE DEF e
  <2>3. \A y \in Conn : y # c => events'[y] = events[y]
    BY <1>1, <2>1
  <2>4. ASSUME NEW p \in Piece, Awaits(c, p), ~CountsFor(e, p)
        PROVE  Awaits(c, p)'
    <3>1. Counting(events[c], p)
      BY <2>4 DEF Awaits
    <3>2. Counting(Tail(events[c]), p)
      BY <2>1, <2>4, <3>1, CountsStill DEF e
    <3>3. events'[c] = Tail(events[c])
      BY <1>1, <2>1
    <3>4. QED
      BY <3>2, <3>3 DEF Awaits
  <2>5. Early
    BY <1>1, <2>1, <2>3 DEF Covered, Early, Awaits
  <2>6. ASSUME NEW p \in Piece
        PROVE  Due(p)' >= Cardinality(Credited(p)')
    <3>1. IsFiniteSet(Credited(p)) /\ Due(p) \in Nat /\ Due(p) >= Cardinality(Credited(p))
      BY <1>1, <2>1, FS_Subset DEF Credited, Covered
    <3>2. ASSUME NEW y \in Credited(p)'
          PROVE  y \in Credited(p) \/ (y = c /\ metadata /\ CountsFor(e, p) /\ p \in bits[c])
      <4>1. y \in registered /\ y \in Conn /\ p \in bits[y] /\ ~Awaits(y, p)' /\ Upgraded(y)
        BY <1>1, <2>1, <3>2 DEF Credited, Upgraded
      <4>2. CASE y # c
        BY <2>3, <4>1, <4>2 DEF Credited, Awaits
      <4>3. CASE y = c
        <5>1. metadata
          BY <1>1, <4>1 DEF Geometries
        <5>2. QED
          BY <2>4, <4>1, <4>3, <5>1 DEF Credited
      <4>4. QED
        BY <4>2, <4>3
    <3>3. Due(p)' \in Nat /\ (Due(p)' = Due(p) + 1 \/ Due(p)' = Due(p))
      <4>1. counts'[p] = counts[p] + 1 \/ counts'[p] = counts[p]
        BY <1>1, <2>2 DEF Counted
      <4>2. counts[p] \in Nat /\ stale[p] \in Nat /\ stale' = stale /\ Due(p)' \in Nat
        BY <1>1, <2>1
      <4>3. QED
        BY <4>1, <4>2 DEF Due
    <3>4. metadata /\ CountsFor(e, p) /\ p \in bits[c] => Due(p)' = Due(p) + 1
      BY <1>1, <2>1, <2>2 DEF Counted, CountsFor, Due
    <3>5. CASE Due(p)' = Due(p) + 1
      <4>1. Credited(p)' \subseteq Credited(p) \cup {c}
        BY <3>2
      <4>2. QED
        BY <3>1, <3>3, <3>5, <4>1, Tallied
    <3>6. CASE Due(p)' = Due(p)
      <4>1. Credited(p)' \subseteq Credited(p)
        BY <3>1, <3>2, <3>4, <3>6
      <4>2. QED
        BY <3>1, <3>3, <3>6, <4>1, Tallied
    <3>7. QED
      BY <3>3, <3>5, <3>6
  <2>7. QED
    BY <2>5, <2>6 DEF Tallies
\* A connection is over, with nothing left to count it for; what it is discounted
\* for when it was not registered is noted.
<1>16. ASSUME NEW c \in Conn, RemovePeer(c)
       PROVE  Tallies /\ Early
  <2> DEFINE removed == registered \cap (Others(c) \cup {c})
  <2>1. /\ joined[c] = "handled" /\ events[c] = <<>> /\ upgrading = {} /\ registered' = registered \ removed
        /\ counts' = IF removed # {} /\ metadata THEN Discounted(bits[c]) ELSE counts
        /\ stale' = IF (removed # {} /\ metadata) /\ c \notin registered
                    THEN [p \in Piece |-> stale[p] + IF p \in bits[c] THEN 1 ELSE 0] ELSE stale
        /\ UNCHANGED <<bits, events, dropped, upgrading, joined, metadata>>
    BY <1>16 DEF RemovePeer, ActorFree, bitVars
  <2>0. c \in registered => c \in removed
    OBVIOUS
  <2> HIDE DEF removed
  <2>2. Early
    BY <1>1, <2>1 DEF Covered, Early, Awaits
  <2>3. ASSUME NEW p \in Piece
        PROVE  Due(p)' >= Cardinality(Credited(p)')
    <3>1. IsFiniteSet(Credited(p)) /\ Due(p) \in Nat /\ Due(p) >= Cardinality(Credited(p)) /\ Due(p)' \in Nat
      BY <1>1, <2>1, FS_Subset DEF Credited, Covered
    <3>2. Credited(p)' \subseteq Credited(p) /\ (c \in registered => c \notin Credited(p)')
      <4>1. ASSUME NEW y \in Credited(p)'
            PROVE  y \in Credited(p) /\ y \notin removed
        BY <2>1, <4>1 DEF Credited, Awaits, Upgraded
      <4>2. QED
        BY <2>0, <4>1
    <3>3. CASE c \in registered /\ p \in bits[c]
      <4>1. metadata
        BY <1>1, <3>3 DEF Geometries
      <4>2. c \in Credited(p)
        BY <2>1, <3>3 DEF Credited, Awaits, Counting, Upgraded
      <4>3. counts'[p] = (IF counts[p] > 0 THEN counts[p] - 1 ELSE counts[p]) /\ stale' = stale
        BY <2>0, <2>1, <3>3, <4>1 DEF Discounted
      <4>4. Due(p)' = Due(p) - 1 \/ Due(p)' = Due(p)
        BY <1>1, <4>3 DEF Due
      <4>5. Credited(p)' \subseteq Credited(p) \ {c}
        BY <3>2, <3>3
      <4>6. QED
        BY <3>1, <3>2, <4>2, <4>4, <4>5, Tallied
    <3>4. CASE ~(c \in registered /\ p \in bits[c])
      <4>1. counts'[p] = counts[p] \/ (counts'[p] = counts[p] - 1 /\ stale'[p] = stale[p] + 1)
        BY <1>1, <2>1, <3>4 DEF Discounted
      <4>2. stale'[p] = stale[p] \/ stale'[p] = stale[p] + 1
        BY <1>1, <2>1
      <4>3. Due(p)' >= Due(p)
        BY <1>1, <4>1, <4>2 DEF Due
      <4>4. QED
        BY <3>1, <3>2, <4>3, Tallied
    <3>5. QED
      BY <3>3, <3>4
  <2>4. QED
    BY <2>2, <2>3 DEF Tallies
\* The upgrade of a connection is complete, and with it the connection is counted.
<1>17. ASSUME NEW c \in Conn, UpgradeApplies(c)
       PROVE  Tallies /\ Early
  <2> DEFINE S == Applied(c)
  <2>1. /\ <<c, TRUE>> \in upgrading /\ upgrading' = upgrading \ {<<c, TRUE>>}
        /\ bits' = [bits EXCEPT ![c] = S] /\ counts' = Counted(S)
        /\ UNCHANGED <<registered, stale, events, dropped, joined>>
    BY <1>17 DEF UpgradeApplies, loopVars
  <2> HIDE DEF S
  <2>2. c \in registered /\ joined[c] = "handled" /\ ~Upgraded(c)
    <3>1. c \in registered
      BY <1>1, <2>1 DEF Upgrades
    <3>2. QED
      BY <1>1, <2>1, <3>1 DEF FirstThings, Upgraded
  <2>3. \A y \in Conn : y # c => bits'[y] = bits[y]
    BY <1>1, <2>1
  <2>4. Early
    BY <1>1, <2>1, <2>2, <2>3 DEF Covered, Early, Awaits
  <2>5. ASSUME NEW p \in Piece
        PROVE  Due(p)' >= Cardinality(Credited(p)')
    <3>1. IsFiniteSet(Credited(p)) /\ Due(p) \in Nat /\ Due(p) >= Cardinality(Credited(p)) /\ Due(p)' \in Nat
      BY <1>1, <2>1, FS_Subset DEF Credited, Covered
    <3>2. ASSUME NEW y \in Credited(p)'
          PROVE  y \in Credited(p) \/ (y = c /\ p \in S)
      <4>1. y \in registered /\ y \in Conn /\ p \in bits'[y] /\ ~Awaits(y, p) /\ Upgraded(y)'
        BY <1>1, <2>1, <3>2 DEF Credited, Awaits
      <4>2. CASE y # c
        <5>1. Upgraded(y)
          BY <2>1, <4>1, <4>2 DEF Upgraded
        <5>2. QED
          BY <2>3, <4>1, <4>2, <5>1 DEF Credited
      <4>3. CASE y = c
        BY <1>1, <2>1, <4>1, <4>3
      <4>4. QED
        BY <4>2, <4>3
    <3>3. Due(p)' = IF p \in S THEN Due(p) + 1 ELSE Due(p)
      BY <1>1, <2>1 DEF Counted, Due
    <3>4. CASE p \in S
      <4>1. Credited(p)' \subseteq Credited(p) \cup {c}
        BY <3>2
      <4>2. QED
        BY <3>1, <3>3, <3>4, <4>1, Tallied
    <3>5. CASE p \notin S
      <4>1. Credited(p)' \subseteq Credited(p)
        BY <3>2, <3>5
      <4>2. QED
        BY <3>1, <3>3, <3>5, <4>1, Tallied
    <3>6. QED
      BY <3>4, <3>5
  <2>6. QED
    BY <2>4, <2>5 DEF Tallies
\* A pause forgets the connections and the counts together.
<1>18. ASSUME ShutdownPeers
       PROVE  Tallies /\ Early
  <2>1. registered' = {} /\ counts' = [p \in Piece |-> 0] /\ stale' = [p \in Piece |-> 0] /\ UNCHANGED <<bits, events, dropped, joined>>
    BY <1>18 DEF ShutdownPeers, bitVars
  <2>2. Early
    BY <1>1, <2>1 DEF Covered, Early, Awaits
  <2>3. ASSUME NEW p \in Piece
        PROVE  Due(p)' >= Cardinality(Credited(p)')
    <3>1. Credited(p)' = {}
      BY <2>1 DEF Credited
    <3>2. Due(p)' = 0
      BY <2>1 DEF Due
    <3>3. QED
      BY <3>1, <3>2, FS_EmptySet
  <2>4. QED
    BY <2>2, <2>3 DEF Tallies
<1>19. Tallies /\ Early
  BY <1>4, <1>5, <1>7, <1>8, <1>9, <1>10, <1>11, <1>12, <1>13, <1>14, <1>15, <1>16, <1>17, <1>18
     DEF SessionNext, ClientNext, ActorNext, HandleMessage
<1>20. QED
  BY <1>19 DEF Tallies, Early

LEMMA SessionStarts == SessionInit => SessionIInv
<1> SUFFICES ASSUME SessionInit
             PROVE  SessionIInv
  OBVIOUS
<1>1. SessionTypes
  <2>1. /\ [c \in Conn |-> <<>>] \in [Conn -> Seq(Event)] /\ [c \in Conn |-> <<>>] \in [Conn -> Seq(Frame)]
        /\ [c \in Conn |-> <<>>] \in [Conn -> Seq(Piece)] /\ Len(<<>>) = 0
    OBVIOUS
  <2>2. SessionTypeOK
    <3>1. /\ metadata \in BOOLEAN /\ have \subseteq Piece /\ registered \subseteq Conn
          /\ counts \in [Piece -> Nat] /\ upgrading \subseteq Conn \X BOOLEAN /\ controls \in 0..MaxControls
      BY SessionAssumption DEF SessionInit
    <3>2. /\ stage \in [Conn -> Stage] /\ joined \in [Conn -> {"no", "queued", "handled"}]
          /\ geometry \in [Conn -> {"none", "born", "upgraded"}]
          /\ bits \in [Conn -> SUBSET Piece] /\ wide \in [Conn -> BOOLEAN]
          /\ pending \in [Conn -> {None} \cup (SUBSET Piece)]
      BY DEF SessionInit, Stage
    <3>3. /\ amChoking \in [Conn -> BOOLEAN] /\ peerChoking \in [Conn -> BOOLEAN]
          /\ allowedFast \in [Conn -> SUBSET Piece] /\ snapshot \in [Conn -> SUBSET Piece]
          /\ taken \in [Conn -> [message : Message, known : BOOLEAN] \cup {None}]
      BY DEF SessionInit
    <3>4. \A c \in Conn : Len(events[c]) <= EventSize /\ Len(outbound[c]) <= OutboundSize
      <4>1. \A c \in Conn : events[c] = <<>> /\ outbound[c] = <<>>
        BY DEF SessionInit
      <4>2. QED
        BY <2>1, <4>1, SessionAssumption
    <3>5. /\ said \in [Conn -> 0..MaxMessages] /\ announced \in [Conn -> SUBSET Piece]
          /\ told \in [Conn -> SUBSET Piece] /\ choked \in [Conn -> BOOLEAN]
      BY SessionAssumption DEF SessionInit
    <3>6. stale \in [Piece -> Nat]
      BY DEF SessionInit
    <3>7. QED
      BY <3>1, <3>2, <3>3, <3>4, <3>5, <3>6 DEF SessionTypeOK
  <2>3. QED
    <3>1. /\ events = [c \in Conn |-> <<>>] /\ outbound = [c \in Conn |-> <<>>] /\ work = [c \in Conn |-> <<>>]
          /\ lost = [c \in Conn |-> {}] /\ dropped = {} /\ gap = [c \in Conn |-> {}] /\ overlapped = {}
      BY DEF SessionInit
    <3>2. lost \in [Conn -> SUBSET Frame] /\ dropped \subseteq Conn /\ gap \in [Conn -> SUBSET Piece] /\ overlapped \subseteq Conn
      BY <3>1
    <3>3. events \in [Conn -> Seq(Event)] /\ outbound \in [Conn -> Seq(Frame)] /\ work \in [Conn -> Seq(Piece)]
      BY <2>1, <3>1, Zenon
    <3>4. QED
      BY <2>2, <3>2, <3>3 DEF SessionTypes
<1>2. Upgrades
  BY DEF SessionInit, Upgrades
<1>3. Covered
  <2>1. \A p \in Piece : Credited(p) = {}
    BY DEF SessionInit, Credited
  <2>2. (\A p \in Piece : Due(p) = 0) /\ \A c \in Conn : bits[c] = {}
    BY DEF SessionInit, Due
  <2>3. QED
    BY <2>1, <2>2, FS_EmptySet DEF Covered
<1>4. ASSUME NEW c \in Conn
      PROVE  FirstThings(c) /\ Geometries(c) /\ Servable(c) /\ Hears(c) /\ Choked(c)
  <2>1. outbound[c] = <<>> /\ DOMAIN outbound[c] = {} /\ choked[c] = amChoking[c]
    BY <1>4 DEF SessionInit
  <2>2. FirstThings(c) /\ Geometries(c)
    BY <1>4 DEF SessionInit, FirstThings, Geometries, Applied
  <2>3. Servable(c) /\ Hears(c) /\ Choked(c)
    BY <1>4, <2>1 DEF SessionInit, Servable, Requests, Hears, Choked, SaysLast
  <2>4. QED
    BY <2>2, <2>3
<1>5. QED
  BY <1>1, <1>2, <1>3, <1>4 DEF SessionIInv

LEMMA SessionGoesOn == SessionIInv /\ [SessionNext]_sessionVars => SessionIInv'
<1>1. ASSUME SessionIInv, SessionNext
      PROVE  SessionIInv'
  BY <1>1, TypesKept, FirstThingsKept, UpgradesKept, GeometriesKept, ServableKept, ChokedKept, HearsKept, CoveredKept
     DEF SessionIInv
<1>2. ASSUME SessionIInv, UNCHANGED sessionVars
      PROVE  SessionIInv'
  <2> USE <1>2 DEF sessionVars, actorVars, bitVars, flagVars, loopVars, remoteVars, queueVars, ghostVars, SessionIInv
  <2>1. SessionTypes'
    BY DEF SessionTypes, SessionTypeOK
  <2>2. Upgrades'
    BY DEF Upgrades
  <2>3. Covered'
    BY DEF Covered, Credited, Awaits, Upgraded, Due
  <2>4. ASSUME NEW c \in Conn
        PROVE  FirstThings(c)' /\ Geometries(c)' /\ Servable(c)' /\ Hears(c)' /\ Choked(c)'
    <3>1. FirstThings(c)' /\ Geometries(c)'
      BY DEF FirstThings, Geometries, Applied
    <3>2. Servable(c)'
      BY DEF Servable, Requests
    <3>3. Hears(c)'
      BY DEF Hears, LostPieces
    <3>4. Choked(c)'
      BY DEF Choked, LostChoke
    <3>5. QED
      BY <3>1, <3>2, <3>3, <3>4
  <2>5. QED
    BY <2>1, <2>2, <2>3, <2>4
<1>3. QED
  BY <1>1, <1>2

LEMMA SessionsFollow == SessionIInv => SessionInv
<1> SUFFICES ASSUME SessionIInv
             PROVE  SessionInv
  OBVIOUS
<1> USE DEF SessionIInv
<1>1. SessionTypeOK /\ SessionTypes
  BY DEF SessionTypes
<1>2. RequestsAreServable
  BY DEF RequestsAreServable, Servable, Requests
<1>3. HeardIsHeld
  <2>1. ASSUME NEW c \in Conn, Settled(c), geometry[c] # "none", c \notin overlapped
        PROVE  bits[c] = announced[c]
    <3>1. wide[c]
      BY <2>1 DEF Settled, Geometries
    <3>2. QED
      BY <2>1, <3>1 DEF Geometries
  <2>2. QED
    BY <2>1 DEF HeardIsHeld
<1>4. CountsCoverPeers
  <2>1. ASSUME dropped = {}, NEW p \in Piece
        PROVE  counts[p] + stale[p] >= Cardinality({c \in registered : CountedFor(c, p)})
    <3> DEFINE T == {c \in registered : CountedFor(c, p)}
    <3>1. T \subseteq Credited(p)
      BY DEF CountedFor, Credited, Awaits, Counting, Upgraded
    <3>2. IsFiniteSet(Credited(p)) /\ Due(p) \in Nat
      BY <1>1, SessionAssumption, FS_Subset DEF Credited, SessionTypeOK, Due
    <3>3. Due(p) >= Cardinality(Credited(p))
      BY <2>1 DEF Covered
    <3> HIDE DEF T
    <3>4. Due(p) >= Cardinality(T)
      BY <3>1, <3>2, <3>3, Tallied
    <3>5. QED
      BY <3>4 DEF T, Due
  <2>2. QED
    BY <2>1 DEF CountsCoverPeers
<1>5. MissesOnlyTheGap
  <2>1. ASSUME NEW c \in registered, stage[c] = "reading", outbound[c] = <<>>, NEW p \in have, p \notin gap[c] \cup LostPieces(c)
        PROVE  p \in told[c]
    <3>1. c \in Conn
      BY <1>1 DEF SessionTypeOK
    <3>2. Knows(outbound[c], told[c], p)
      BY <2>1, <3>1 DEF Hears
    <3>3. DOMAIN outbound[c] = {}
      BY <2>1
    <3>4. QED
      BY <3>2, <3>3 DEF Knows
  <2>2. QED
    BY <2>1 DEF MissesOnlyTheGap
<1>6. ChokeAgreesUnlessLost
  <2>1. ASSUME NEW c \in Conn, stage[c] = "reading", outbound[c] = <<>>, ~LostChoke(c)
        PROVE  choked[c] = amChoking[c]
    <3>1. SaysLast(outbound[c], choked[c], amChoking[c])
      BY <2>1 DEF Choked
    <3>2. DOMAIN outbound[c] = {}
      BY <2>1
    <3>3. QED
      BY <3>1, <3>2 DEF SaysLast
  <2>2. QED
    BY <2>1 DEF ChokeAgreesUnlessLost
<1>7. QED
  BY <1>1, <1>2, <1>3, <1>4, <1>5, <1>6 DEF SessionInv

(***************************************************************************)
(* The two sides of every connection and the actor agree, however the      *)
(* goroutines of the clients interleave and wherever the metadata arrives: *)
(* a peer is asked only for pieces it announced and what it announced is   *)
(* not forgotten (Client.onHave, onBitfield, UpgradeMetadata), availability *)
(* counts at least the connected peers (onPeerControl, removePeer) but for *)
(* the discounts that removePeer, which goes by address, makes after a     *)
(* pause for a connection already forgotten, a peer is told of every       *)
(* verified piece (sendInitialState, onPieceVerified) and whether it is    *)
(* choked (SendChoke), but for what a full queue dropped.                  *)
(***************************************************************************)
THEOREM SessionsAgree == SessionSpec => []SessionInv
<1>1. SessionSpec => []SessionIInv
  BY SessionStarts, SessionGoesOn, PTL DEF SessionSpec
<1>2. QED
  BY <1>1, SessionsFollow, PTL
=============================================================================
