----------------------------- MODULE PickerLoop -----------------------------
(***************************************************************************)
(* The picker under every legal sequence of calls, and Pick's loops written *)
(* out as the source has them, to hold the set formulation of Picker       *)
(* against.  Only TLC uses this module: the loops are recursive operators. *)
(***************************************************************************)
EXTENDS Picker

CONSTANTS MaxCount,     \* bound: availability counts
          Selections    \* piece priorities a file selection may set

-----------------------------------------------------------------------------
(* Pick as loops.  A run carries what the loops update: the request list   *)
(* out, the pieces in progress act and the block states st.                *)

RECURSIVE FillFrom(_, _, _, _, _)
FillFrom(run, p, i, max, endgame) ==
    IF i = NumBlocks[p] \/ Len(run.out) >= max THEN run
    ELSE LET x == <<p, i>>
             skip == run.st[x] = "done" \/ (run.st[x] = "pending" /\ ~endgame)
         IN  FillFrom(IF skip THEN run
                      ELSE [run EXCEPT !.out = Append(@, x), !.st[x] = "pending"],
                      p, i + 1, max, endgame)

RECURSIVE FillActive(_, _, _, _, _)
FillActive(run, p, peerHas, max, endgame) ==
    IF p = NumPieces \/ Len(run.out) >= max THEN run
    ELSE FillActive(IF p \in active /\ p \in peerHas
                    THEN FillFrom(run, p, 0, max, endgame) ELSE run,
                    p + 1, peerHas, max, endgame)

\* rarestWithTieBreak: the reservoir keeps or replaces best at every tie.
RECURSIVE RarestFrom(_, _, _)
RarestFrom(want, i, best) ==
    IF i = NumPieces THEN {best}
    ELSE IF avail[i] = 0 \/ i \notin want THEN RarestFrom(want, i + 1, best)
    ELSE IF best < 0 \/ avail[i] < avail[best] THEN RarestFrom(want, i + 1, i)
    ELSE IF avail[i] = avail[best]
         THEN RarestFrom(want, i + 1, i) \cup RarestFrom(want, i + 1, best)
    ELSE RarestFrom(want, i + 1, best)

RECURSIVE FirstFrom(_, _)
FirstFrom(want, i) ==
    IF i = NumPieces THEN {-1} ELSE IF i \in want THEN {i} ELSE FirstFrom(want, i + 1)

PickByStrategy(want) ==
    IF strategy = "Sequential" THEN FirstFrom(want, 0) ELSE RarestFrom(want, 0, -1)

RECURSIVE NextInTiers(_, _)
NextInTiers(want, tier) ==
    LET choice == PickByStrategy({p \in want : priority[p] = tier})
    IN  IF choice # {-1} \/ tier = Low THEN choice ELSE NextInTiers(want, tier - 1)

RECURSIVE StartLoop(_, _, _, _)
StartLoop(run, peerHas, max, endgame) ==
    IF Len(run.out) >= max \/ Cardinality(run.act) >= MaxActivePieces THEN {run}
    ELSE UNION {IF p < 0 THEN {run}
                ELSE StartLoop(FillFrom([run EXCEPT !.act = @ \cup {p}], p, 0, max, endgame),
                               peerHas, max, endgame) :
                p \in NextInTiers(peerHas \ (have \cup run.act), High)}

PickLoop(peerHas, max) ==
    LET idle == [out |-> <<>>, act |-> active, st |-> states]
    IN  IF max <= 0 \/ Complete THEN {idle}
        ELSE LET filled == FillActive(idle, 0, peerHas, max, InEndgame)
             IN  IF Len(filled.out) >= max THEN {filled}
                 ELSE StartLoop(filled, peerHas, max, InEndgame)

-----------------------------------------------------------------------------
Limit == 0 .. Cardinality(Block) + 1

PickerNext ==
    \/ \E H \in SUBSET Piece, max \in Limit : Pick(H, max)
    \/ \E x \in Block : Received(x)
    \/ \E p \in Piece : MarkVerified(p) \/ MarkFailed(p)
    \/ \E H \in SUBSET Piece : SetHave(H)
    \/ \E X \in SUBSET Outstanding : Expire(X)
    \/ ResetAllPending /\ avail' = NoPeers
    \/ \E f \in Selections : SetPriorities(f)
    \/ \E s \in Strategy : SetStrategy(s)
    \/ \E H \in SUBSET Piece :
          /\ \A p \in H : avail[p] < MaxCount
          /\ AvailabilityChange(PeerAdded(avail, H))
    \/ \E H \in SUBSET Piece : AvailabilityChange(PeerRemoved(avail, H))

PickerSpec == PickerInit /\ [][PickerNext]_pickerVars

-----------------------------------------------------------------------------
(***************************************************************************)
(* The outcomes of Pick are exactly those its loops can reach, requests    *)
(* without repetition and never more than max, whatever state the picker   *)
(* is in and whatever the peer has.                                        *)
(***************************************************************************)
PickIsItsLoops ==
    \A H \in SUBSET Piece, max \in Limit :
        LET runs == PickLoop(H, max)
            listed(run) == {run.out[i] : i \in 1 .. Len(run.out)}
        IN  /\ \A run \in runs : /\ Cardinality(listed(run)) = Len(run.out)
                                 /\ Len(run.out) <= max
            /\ {[act |-> run.act, st |-> run.st, asked |-> listed(run)] : run \in runs}
               = {[act |-> active \cup o.started,
                   st |-> [x \in Block |-> IF x \in o.requests THEN "pending" ELSE states[x]],
                   asked |-> o.requests] : o \in PickOutcomes(H, max)}

(***************************************************************************)
(* Pick is work-conserving: it comes back empty-handed only if the peer    *)
(* has no block to offer of the pieces in progress and no piece may be     *)
(* started, because of the memory bound or because every piece the peer    *)
(* has is there, in progress, skipped or, rarest-first, uncounted.         *)
(***************************************************************************)
PickIsWorkConserving ==
    \A H \in SUBSET Piece, max \in Limit \ {0} :
        \A o \in PickOutcomes(H, max) :
            (o.requests = {} /\ ~Complete) =>
                /\ Offers(H) = {}
                /\ \/ Cardinality(active) >= MaxActivePieces
                   \/ \A p \in H \ (have \cup active) :
                         priority[p] = Skip \/ (strategy = "RarestFirst" /\ avail[p] = 0)

(***************************************************************************)
(* What Pick starts is the best there is to start for this peer: "no new   *)
(* work is ever started on a skip-priority piece" (priority.go), nothing   *)
(* of a lower tier goes ahead of a piece of a higher one, and within a     *)
(* tier nothing goes ahead of a rarer piece, or of an earlier one.         *)
(***************************************************************************)
Ahead(p, q) ==
    \/ priority[p] > priority[q]
    \/ /\ priority[p] = priority[q]
       /\ IF strategy = "Sequential" THEN p < q ELSE avail[p] <= avail[q]

StartsBestFirst ==
    \A H \in SUBSET Piece, max \in Limit :
        \A o \in PickOutcomes(H, max) : \A p \in o.started :
            /\ priority[p] # Skip /\ p \notin have
            /\ \A q \in Pickable(H, active) \ o.started : Ahead(p, q)

(***************************************************************************)
(* A block that arrived stays arrived until its whole piece is settled:    *)
(* expiry, endgame duplicates, pauses and selections never ask for it      *)
(* again one at a time.                                                    *)
(***************************************************************************)
ArrivedIsKept ==
    [][\A x \in Block : states[x] = "done" /\ states'[x] # "done" =>
          \A y \in BlocksOf(x[1]) : states'[y] = "needed"]_pickerVars

\* Pick does what its loops do, and never less than it could.
PickIsRight == PickIsItsLoops /\ PickIsWorkConserving /\ StartsBestFirst
=============================================================================
