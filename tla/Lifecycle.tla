----------------------------- MODULE Lifecycle ------------------------------
(***************************************************************************)
(* internal/torrent/state.go: the states of a torrent and the edges        *)
(* setState accepts.  A request for an edge that is not in the table is    *)
(* logged and ignored, and so is a request for the current state.          *)
(***************************************************************************)

State == {"Added", "FetchingMetadata", "CheckingFiles", "Downloading",
          "Seeding", "Paused", "Error"}

transitions ==
    [Added            |-> {"FetchingMetadata", "CheckingFiles"},
     FetchingMetadata |-> {"CheckingFiles", "Paused"},
     CheckingFiles    |-> {"Downloading", "Seeding", "Paused"},
     Downloading      |-> {"Seeding", "Paused", "CheckingFiles"},
     Seeding          |-> {"Paused", "CheckingFiles"},
     Paused           |-> {"FetchingMetadata", "CheckingFiles", "Downloading", "Seeding"},
     Error            |-> {}]

CanTransition(cur, next) ==
    \/ next = "Error" /\ cur # "Error"
    \/ next \in transitions[cur]

Active(s) == s \in {"FetchingMetadata", "CheckingFiles", "Downloading", "Seeding"}

\* The state after setState(next) in state cur.
Moved(cur, next) == IF CanTransition(cur, next) THEN next ELSE cur
=============================================================================
