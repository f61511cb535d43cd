----------------------------- MODULE PieceStore -----------------------------
(***************************************************************************)
(* What a torrent promises of its data when every source of it is honest:  *)
(* pieces become intact on disk and stay so, a piece is counted as         *)
(* verified only while it is intact, and only a rescan of the whole disk   *)
(* changes what is verified otherwise.                                     *)
(***************************************************************************)
CONSTANT Piece

VARIABLES intact,    \* pieces whose bytes on disk are those the metainfo hashes
          verified   \* pieces the torrent counts as there

storeVars == <<intact, verified>>

StoreInit == intact \subseteq Piece /\ verified = intact

Written(p) == intact' = intact \cup {p} /\ UNCHANGED verified
Verified(p) == p \in intact /\ verified' = verified \cup {p} /\ UNCHANGED intact
Rescan == verified' = intact /\ UNCHANGED intact

StoreNext ==
    \/ \E p \in Piece : Written(p) \/ Verified(p)
    \/ Rescan

StoreSpec == StoreInit /\ [][StoreNext]_storeVars
=============================================================================
