----------------------------- MODULE MCDownload -----------------------------
(* Small instances of Download: two pieces, one of them of two blocks. *)
EXTENDS Download, TLC

CONSTANTS p1, p2

MCBlocks == 0 :> 2 @@ 1 :> 1
MCBothSeeds == [pc \in {p1, p2} |-> {0, 1}]
MCOneSeed == [pc \in {p1} |-> {0, 1}]

\* Two peers and one pause, resume or recheck; or, with no trace of the second
\* peer, pieces from outside and two of them.
Second == p2 \in peers \cup chokeNews \/ \E x \in Block : <<p2, x>> \in wire
Alternatives == external' > 0 \/ controls' > 1 => ~Second'
SwarmSpec == Init /\ [][Next /\ Alternatives]_vars

\* One seed, and two disturbances of three kinds: a fault, a piece from outside,
\* a control call.  What fairness asks for is none of them.
Disturbances == faults' + external' + controls' <= 2
SeedSpec == Init /\ [][Next /\ Disturbances]_vars /\ Fairness
=============================================================================
