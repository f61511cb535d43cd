----------------------------- MODULE MCShutdown -----------------------------
(* Small instances of Shutdown. *)
EXTENDS Shutdown

CONSTANTS c1, c2, v1, a1, a2, k1, k2
=============================================================================
