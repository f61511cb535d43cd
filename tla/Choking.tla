------------------------------- MODULE Choking -------------------------------
(***************************************************************************)
(* Whom to unchoke (choker/choker.go, driven by runChoker of               *)
(* torrent/run.go): the interested peers that sent most since the last     *)
(* round get all slots but one, the last slot goes to one of the others    *)
(* and moves at the pace of the rotation.  What a peer sent is any number. *)
(***************************************************************************)
EXTENDS Naturals, FiniteSets

CONSTANTS Candidate,  \* IDs
          Slots,      \* slots, at least one
          Rotation,   \* rotation, in rounds
          MaxRate,    \* bound: bytes of a round
          Nobody

ASSUME ChokingAssumption ==
    IsFiniteSet(Candidate) /\ Nobody \notin Candidate
    /\ Slots \in Nat \ {0} /\ Rotation \in Nat \ {0} /\ MaxRate \in Nat

VARIABLES
    present,     \* the peers of the torrent
    interested,  \* Interested()
    unchoked,    \* those that are not Choking()
    optimistic,  \* optimistic
    waited,      \* rounds since lastRotation, up to Rotation
    rates,       \* what each sent since the last round
    fresh        \* a round has just ended

chokingVars == <<present, interested, unchoked, optimistic, waited, rates, fresh>>

Least(a, b) == IF a <= b THEN a ELSE b

\* A new connection starts choked, whatever the last one at its address was.
PeerArrives(p) ==
    /\ p \notin present
    /\ present' = present \cup {p}
    /\ fresh' = FALSE
    /\ UNCHANGED <<interested, unchoked, optimistic, waited, rates>>
PeerLeaves(p) ==
    /\ p \in present
    /\ present' = present \ {p} /\ interested' = interested \ {p} /\ unchoked' = unchoked \ {p}
    /\ fresh' = FALSE
    /\ UNCHANGED <<optimistic, waited, rates>>
InterestChanges(p) ==
    /\ p \in present
    /\ interested' = IF p \in interested THEN interested \ {p} ELSE interested \cup {p}
    /\ fresh' = FALSE
    /\ UNCHANGED <<present, unchoked, optimistic, waited, rates>>

\* The slots for measured performance.  Mutant: all of them.
RegularSlotsAll == Slots
RegularSlots == IF interested = {} THEN Slots ELSE Slots - 1

\* The first of the ranking; equals in any order.
Fastest(S) ==
    /\ S \subseteq interested /\ Cardinality(S) = Least(RegularSlots, Cardinality(interested))
    /\ \A p \in S, q \in interested \ S : rates[p] >= rates[q]

\* pickOptimistic.  Mutant: the rotation never comes.
Stays(S) == optimistic \in interested \ S
DueNever == optimistic = Nobody
Due == waited = Rotation
PickOptimistic(S) ==
    IF interested = {} THEN optimistic' = Nobody /\ UNCHANGED waited
    ELSE IF Stays(S) /\ ~Due THEN UNCHANGED <<optimistic, waited>>
    ELSE /\ waited' = 0
         /\ IF interested \ S = {} THEN optimistic' = Nobody ELSE optimistic' \in interested \ S

\* Run: Unchoke and Choke for those whose state is to change.
ChokerRun ==
    /\ \E S \in SUBSET interested :
          Fastest(S) /\ PickOptimistic(S) /\ unchoked' = S \cup ({optimistic'} \ {Nobody})
    /\ fresh' = TRUE
    /\ UNCHANGED <<present, interested, rates>>

\* Until the next round the peers send what they like.
RoundPasses ==
    /\ waited' = Least(waited + 1, Rotation)
    /\ rates' \in [Candidate -> 0..MaxRate]
    /\ fresh' = FALSE
    /\ UNCHANGED <<present, interested, unchoked, optimistic>>

ChokingInit ==
    /\ present = {} /\ interested = {} /\ unchoked = {} /\ optimistic = Nobody
    /\ waited = Rotation /\ rates = [p \in Candidate |-> 0] /\ fresh = FALSE

ChokingNext ==
    \/ \E p \in Candidate : PeerArrives(p) \/ PeerLeaves(p) \/ InterestChanges(p)
    \/ ChokerRun \/ RoundPasses

\* The ticker goes on; rng.Intn gives every candidate its turn.
Favours(p) == ChokerRun /\ optimistic' = p
ChokingFairness ==
    /\ WF_chokingVars(RoundPasses) /\ WF_chokingVars(ChokerRun)
    /\ \A p \in Candidate : SF_chokingVars(Favours(p))

ChokingSpec == ChokingInit /\ [][ChokingNext]_chokingVars /\ ChokingFairness

-----------------------------------------------------------------------------
(* Properties *)

ChokingTypeOK ==
    /\ present \subseteq Candidate /\ interested \subseteq present /\ unchoked \subseteq present
    /\ optimistic \in Candidate \cup {Nobody} /\ waited \in 0..Rotation
    /\ rates \in [Candidate -> 0..MaxRate] /\ fresh \in BOOLEAN

(***************************************************************************)
(* Never more peers are unchoked than there are slots, whatever peers      *)
(* come, go and change their interest between the rounds.                  *)
(***************************************************************************)
WithinSlots == Cardinality(unchoked) <= Slots

(***************************************************************************)
(* After a round no slot is idle while an interested peer is choked, and   *)
(* at most one peer, the optimistic one, is unchoked although a choked one *)
(* sent more.                                                              *)
(***************************************************************************)
SlotsAreEarned ==
    fresh =>
        /\ Cardinality(unchoked) = Least(Slots, Cardinality(interested))
        /\ \A p \in unchoked \ {optimistic}, q \in interested \ unchoked : rates[p] >= rates[q]

(***************************************************************************)
(* A peer that stays interested is unchoked again and again, however       *)
(* little it sends.                                                        *)
(***************************************************************************)
EveryoneHasATurn ==
    \A p \in Candidate : <>[](p \in interested) => []<>(p \in unchoked)

\* The slots are all given, to those who earned them, and no more of them.
ChokingInv == ChokingTypeOK /\ WithinSlots /\ SlotsAreEarned
=============================================================================
