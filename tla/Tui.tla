-------------------------------- MODULE Tui ---------------------------------
(***************************************************************************)
(* The terminal interface (tui/model.go, update.go, commands.go): a model  *)
(* changed by one message at a time, and commands that run beside it, call *)
(* the daemon and come back as messages in any order.                      *)
(*                                                                         *)
(* commands is what is under way, and Update takes the result of any of    *)
(* them; a list that is ready was taken from the daemon some time ago.     *)
(* The daemon's torrents come and go by themselves; of a torrent only what *)
(* filters ask about matters: the category, a filter that vanishes with    *)
(* its last torrent, and the name.  Every sort column is the order of the  *)
(* hashes.  The session's statistics, the speeds, toasts, themes and tabs  *)
(* change nothing else and are left out; to quit is to stop.               *)
(***************************************************************************)
EXTENDS Integers, Sequences, FiniteSets, Bags, SequencesExt

CONSTANTS Torrent,      \* info hashes: numbers, in the order they were added
          Categorised,  \* those in the category
          Named,        \* those whose name matches what is searched for
          NoTorrent,
          MaxCommands   \* bound: commands under way

ASSUME TuiAssumption ==
    /\ Torrent \subseteq Nat /\ Categorised \cup Named \subseteq Torrent
    /\ NoTorrent \notin Torrent
    /\ MaxCommands \in Nat

VARIABLES daemon,       \* the daemon's torrents
          commands,     \* the commands under way, a bag
          streaming,    \* the event stream, if any, is open
          screen, modal, connecting, connected,
          shown,        \* Model.torrents
          fetching, wsConnected,
          visible, cursor, marked, filter, query, descending,
          confirm,      \* what the delete confirmation will act on
          detailHash, detailOf, detailLoading   \* detailOf: whose data is shown

tuiVars == <<daemon, commands, streaming, screen, modal, connecting, connected, shown, fetching,
             wsConnected, visible, cursor, marked, filter, query, descending, confirm,
             detailHash, detailOf, detailLoading>>
listVars == <<shown, visible, cursor, marked, filter, query, descending>>
linkVars == <<connecting, connected, fetching, wsConnected>>
detailVars == <<detailHash, detailOf, detailLoading>>
worldVars == <<daemon, streaming>>

TuiInit ==
    /\ daemon \in SUBSET Torrent
    /\ commands = EmptyBag /\ streaming = FALSE
    /\ screen = "connect" /\ modal = "none" /\ connecting = FALSE /\ connected = FALSE
    /\ shown = {} /\ fetching = FALSE /\ wsConnected = FALSE
    /\ visible = <<>> /\ cursor = 0 /\ marked = {} /\ filter = "all" /\ query = FALSE /\ descending = TRUE
    /\ confirm = {} /\ detailHash = NoTorrent /\ detailOf = NoTorrent /\ detailLoading = FALSE

-----------------------------------------------------------------------------
(* The commands.                                                           *)

Command(name) == IF name = "list" THEN [cmd |-> name, ready |-> FALSE] ELSE [cmd |-> name]
DetailCommand(t) == [cmd |-> "detail", hash |-> t]
ActionCommand(name, S) == [cmd |-> name, todo |-> S, failed |-> 0, count |-> Cardinality(S)]

\* The bag without c and with what is new.
Less(c) == commands (-) SetToBag({c})
With(rest, new) == rest (+) SetToBag(new)
Issue(rest, new) == BagCardinality(rest) + Cardinality(new) <= MaxCommands /\ commands' = With(rest, new)
Becomes(c, d) == commands' = With(Less(c), {d})

\* The list is the daemon's of the moment the call is answered; when the other
\* answers are made does not matter, and they are chosen when Update gets them.
Answer(c) ==
    /\ c.cmd = "list" /\ ~c.ready
    /\ \/ Becomes(c, [cmd |-> "list", ready |-> TRUE, ok |-> TRUE, list |-> daemon])
       \/ Becomes(c, [cmd |-> "list", ready |-> TRUE, ok |-> FALSE])
    /\ UNCHANGED <<worldVars, screen, modal, confirm, linkVars, listVars, detailVars>>

\* actionsCmd applies an action to one torrent after the other.
Apply(c) ==
    /\ c.cmd \in {"pause", "remove"} /\ c.todo # {}
    /\ \E t \in c.todo, ok \in BOOLEAN :
        /\ ok => t \in daemon
        /\ Becomes(c, [c EXCEPT !.todo = @ \ {t}, !.failed = IF ok THEN @ ELSE @ + 1])
        /\ daemon' = IF ok /\ c.cmd = "remove" THEN daemon \ {t} ELSE daemon
    /\ UNCHANGED <<streaming, screen, modal, confirm, linkVars, listVars, detailVars>>

DaemonChanges ==
    /\ daemon' \in SUBSET Torrent \ {daemon}
    /\ UNCHANGED <<commands, streaming, screen, modal, confirm, linkVars, listVars, detailVars>>

StreamEnds ==
    /\ streaming /\ streaming' = FALSE
    /\ UNCHANGED <<daemon, commands, screen, modal, confirm, linkVars, listVars, detailVars>>

-----------------------------------------------------------------------------
(* The view of the list.                                                   *)

View(list, f, q, down) ==
    LET S == {t \in list : (f = "category" => t \in Categorised) /\ (q => t \in Named)}
    IN SetToSortSeq(S, LAMBDA a, b : IF down THEN a > b ELSE a < b)

\* clampCursor
Clamp(c, n) == IF c >= n THEN (IF n = 0 THEN 0 ELSE n - 1) ELSE IF c < 0 THEN 0 ELSE c

UnderCursor == IF cursor < Len(visible) THEN {visible[cursor + 1]} ELSE {}

StayAtIndex(at, vis) == Clamp(at, Len(vis))
\* The cursor stays on the torrent it was on (at: the index it is looked up at).
Follow(at, vis) ==
    LET same == {i \in 1..Len(vis) : at < Len(visible) /\ vis[i] = visible[at + 1]}
    IN IF same # {} THEN (CHOOSE i \in same : TRUE) - 1 ELSE Clamp(at, Len(vis))

\* applyView, with buildSidebar: a filter that has vanished becomes All.
ApplyView(list, f, q, down, at, marks) ==
    LET kept == IF f = "category" /\ list \cap Categorised = {} THEN "all" ELSE f
        vis == View(list, kept, q, down)
    IN /\ shown' = list /\ filter' = kept /\ query' = q /\ descending' = down
       /\ visible' = vis
       /\ marked' = marks \cap list
       /\ cursor' = Follow(at, vis)

-----------------------------------------------------------------------------
(* Update: the messages.                                                   *)

Refreshed == IF screen = "detail" /\ detailHash # NoTorrent THEN {DetailCommand(detailHash)} ELSE {}

OnConnectResult(c, ok) ==
    /\ c.cmd = "connect"
    /\ connecting' = FALSE
    /\ IF ok
       THEN /\ connected' = TRUE /\ screen' = "list"
            /\ Issue(Less(c), {Command("list"), Command("subscribe"), Command("tick")})
       ELSE UNCHANGED <<connected, screen>> /\ commands' = Less(c)
    /\ UNCHANGED <<streaming, modal, confirm, fetching, wsConnected, listVars, detailVars>>

OnTorrents(c) ==
    /\ c.cmd = "list" /\ c.ready
    /\ fetching' = FALSE
    /\ commands' = Less(c)
    /\ IF c.ok THEN ApplyView(c.list, filter, query, descending, cursor, marked) ELSE UNCHANGED listVars
    /\ UNCHANGED <<streaming, screen, modal, confirm, connecting, connected, wsConnected, detailVars>>

OnSubscribed(c, ok) ==
    /\ c.cmd = "subscribe"
    /\ streaming' = ok /\ wsConnected' = ok
    /\ Issue(Less(c), IF ok THEN {Command("event")} ELSE {})
    /\ UNCHANGED <<screen, modal, confirm, connecting, connected, fetching, listVars, detailVars>>

\* An event asks for the list unless a refresh is under way, and the next event
\* is waited for; the end of the stream leaves the poll timer alone.
OnEvent(c, ok) ==
    /\ c.cmd = "event" /\ streaming
    /\ LET refresh == ok /\ ~fetching
       IN /\ fetching' = (fetching \/ refresh)
          /\ Issue(Less(c), {Command("event")} \cup (IF refresh THEN {Command("list")} ELSE {}))
    /\ UNCHANGED <<streaming, screen, modal, confirm, connecting, connected, wsConnected, listVars, detailVars>>

OnEventsClosed(c) ==
    /\ c.cmd = "event" /\ ~streaming
    /\ wsConnected' = FALSE
    /\ commands' = Less(c)
    /\ UNCHANGED <<streaming, screen, modal, confirm, connecting, connected, fetching, listVars, detailVars>>

OnTick(c) ==
    /\ c.cmd = "tick"
    /\ fetching' = TRUE
    /\ Issue(Less(c), {Command("list"), Command("tick")} \cup Refreshed)
    /\ UNCHANGED <<streaming, screen, modal, confirm, connecting, connected, wsConnected, listVars, detailVars>>

\* A reply for a torrent the user has left is dropped.
IsWanted(hash) == hash = detailHash
IsAny(hash) == TRUE
Wanted(hash) == IsWanted(hash)

OnDetail(c, ok) ==
    /\ c.cmd = "detail"
    /\ commands' = Less(c)
    /\ IF Wanted(c.hash)
       THEN /\ detailLoading' = FALSE
            /\ detailOf' = IF ok THEN c.hash ELSE detailOf
       ELSE UNCHANGED <<detailLoading, detailOf>>
    /\ UNCHANGED <<streaming, screen, modal, confirm, detailHash, linkVars, listVars>>

OnActionResult(c) ==
    /\ c.cmd \in {"pause", "remove"} /\ c.todo = {}
    /\ IF c.failed >= c.count
       THEN marked' = marked /\ commands' = Less(c)
       ELSE /\ marked' = IF c.cmd = "remove" THEN {} ELSE marked
            /\ Issue(Less(c), {Command("list")} \cup Refreshed)
    /\ UNCHANGED <<streaming, screen, modal, confirm, shown, visible, cursor, filter, query, descending, linkVars, detailVars>>

OnAddResult(c, ok) ==
    /\ c.cmd = "add"
    /\ IF ok
       THEN screen' = "list" /\ Issue(Less(c), {Command("list")})
       ELSE screen' = screen /\ commands' = Less(c)
    /\ UNCHANGED <<streaming, modal, confirm, linkVars, listVars, detailVars>>

Receive(c) ==
    /\ \/ \E ok \in BOOLEAN :
             \/ OnConnectResult(c, ok) \/ OnSubscribed(c, ok) \/ OnEvent(c, ok)
             \/ OnDetail(c, ok) \/ OnAddResult(c, ok)
       \/ OnTorrents(c) \/ OnEventsClosed(c) \/ OnTick(c) \/ OnActionResult(c)
    /\ UNCHANGED daemon

-----------------------------------------------------------------------------
(* Update: the keys.                                                       *)

OnScreen(s) == screen = s /\ modal = "none"

KeyConnect ==
    /\ OnScreen("connect") /\ ~connecting
    /\ connecting' = TRUE
    /\ Issue(commands, {Command("connect")})
    /\ UNCHANGED <<screen, modal, confirm, connected, fetching, wsConnected, listVars, detailVars>>

KeyMove ==
    /\ OnScreen("list")
    /\ \E d \in -Len(visible) .. Len(visible) : cursor' = Clamp(cursor + d, Len(visible))
    /\ UNCHANGED <<commands, screen, modal, confirm, shown, visible, marked, filter, query, descending, linkVars, detailVars>>

\* A selection in the sidebar, and a change of the search, put the cursor at
\* the top before they apply the view.
MoveInSidebar(marks) ==
    \E f \in {"all", "category"} \ {filter} :
        /\ f = "category" => shown \cap Categorised # {}
        /\ ApplyView(shown, f, query, descending, 0, marks)

KeyNarrow ==
    /\ OnScreen("list")
    /\ MoveInSidebar(marked) \/ ApplyView(shown, filter, ~query, descending, 0, marked)
    /\ UNCHANGED <<commands, screen, modal, confirm, linkVars, detailVars>>

KeyOrder ==
    /\ OnScreen("list")
    /\ ApplyView(shown, filter, query, ~descending, cursor, marked)
    /\ UNCHANGED <<commands, screen, modal, confirm, linkVars, detailVars>>

\* Space marks and moves on, in the sidebar if that has the focus; ctrl+a marks
\* what is visible; esc drops the marks.
KeyMark ==
    /\ OnScreen("list")
    /\ \/ LET toggled == (marked \ UnderCursor) \cup (UnderCursor \ marked) IN
          /\ UnderCursor # {}
          /\ \/ /\ marked' = toggled /\ cursor' \in {cursor, Clamp(cursor + 1, Len(visible))}
                /\ UNCHANGED <<shown, visible, filter, query, descending>>
             \/ MoveInSidebar(toggled)
       \/ /\ marked' \in {marked \cup {visible[i] : i \in 1..Len(visible)}, {}}
          /\ UNCHANGED <<shown, visible, cursor, filter, query, descending>>
    /\ UNCHANGED <<commands, screen, modal, confirm, linkVars, detailVars>>

\* esc while the search is typed, or with nothing marked.
KeyEscape ==
    /\ OnScreen("list") /\ query
    /\ ApplyView(shown, filter, FALSE, descending, cursor, marked)
    /\ UNCHANGED <<commands, screen, modal, confirm, linkVars, detailVars>>

OpenDetail ==
    /\ OnScreen("list")
    /\ \E t \in UnderCursor :
        /\ detailHash' = t /\ Issue(commands, {DetailCommand(t)})
    /\ screen' = "detail" /\ detailLoading' = TRUE /\ detailOf' = NoTorrent
    /\ UNCHANGED <<modal, confirm, linkVars, listVars>>

\* actionTargets: the marked torrents, or the one under the cursor; on the
\* detail screen, its torrent.
Targets == IF screen = "detail" THEN {detailHash}
           ELSE IF marked # {} THEN marked \cap shown ELSE UnderCursor

KeyAct ==
    /\ screen \in {"list", "detail"} /\ modal = "none" /\ Targets # {}
    /\ Issue(commands, {ActionCommand("pause", Targets)})
    /\ UNCHANGED <<screen, modal, confirm, linkVars, listVars, detailVars>>

AskDelete ==
    /\ screen \in {"list", "detail"} /\ modal = "none" /\ Targets # {}
    /\ modal' = "delete" /\ confirm' = Targets
    /\ UNCHANGED <<commands, screen, linkVars, listVars, detailVars>>

ConfirmDelete ==
    /\ modal = "delete"
    /\ modal' = "none" /\ confirm' = {}
    /\ screen' = IF screen = "detail" THEN "list" ELSE screen
    /\ Issue(commands, {ActionCommand("remove", confirm)})
    /\ UNCHANGED <<linkVars, listVars, detailVars>>

KeyDismiss ==
    /\ modal # "none"
    /\ modal' = "none" /\ confirm' = {}
    /\ UNCHANGED <<commands, screen, linkVars, listVars, detailVars>>

KeyHelp ==
    /\ screen \in {"list", "detail"} /\ modal = "none"
    /\ modal' = "help"
    /\ UNCHANGED <<commands, screen, confirm, linkVars, listVars, detailVars>>

\* To the add screen, and back from it or from the detail screen.
KeyScreen ==
    /\ modal = "none"
    /\ \/ screen = "list" /\ screen' = "add"
       \/ screen \in {"add", "detail"} /\ screen' = "list"
    /\ UNCHANGED <<commands, modal, confirm, linkVars, listVars, detailVars>>

KeyAdd ==
    /\ OnScreen("add")
    /\ Issue(commands, {Command("add")})
    /\ UNCHANGED <<screen, modal, confirm, linkVars, listVars, detailVars>>

Key ==
    /\ \/ KeyConnect \/ KeyMove \/ KeyNarrow \/ KeyOrder \/ KeyMark \/ KeyEscape \/ OpenDetail
       \/ KeyAct \/ AskDelete \/ ConfirmDelete \/ KeyDismiss \/ KeyHelp \/ KeyScreen \/ KeyAdd
    /\ UNCHANGED worldVars

TuiNext ==
    \/ \E c \in BagToSet(commands) : Answer(c) \/ Apply(c) \/ Receive(c)
    \/ DaemonChanges \/ StreamEnds \/ Key

TuiSpec == TuiInit /\ [][TuiNext]_tuiVars

-----------------------------------------------------------------------------
UnderWay(name) == {c \in BagToSet(commands) : c.cmd = name}
Number(name) == FoldSet(LAMBDA c, n : n + CopiesIn(c, commands), 0, UnderWay(name))

TuiTypeOK ==
    /\ daemon \subseteq Torrent /\ shown \subseteq Torrent /\ marked \subseteq Torrent /\ confirm \subseteq Torrent
    /\ screen \in {"connect", "list", "detail", "add"} /\ modal \in {"none", "help", "delete"}
    /\ filter \in {"all", "category"} /\ BagCardinality(commands) <= MaxCommands
    /\ {detailHash, detailOf} \subseteq Torrent \cup {NoTorrent}

\* What is drawn follows from what was fetched; nothing marked is gone.
ViewIsOfTheList ==
    /\ visible = View(shown, filter, query, descending)
    /\ filter = "category" => shown \cap Categorised # {}
    /\ marked \subseteq shown
    /\ cursor = Clamp(cursor, Len(visible))

\* The detail screen shows its own torrent, and waits only while a reply for it
\* is on the way; the question about a deletion always names its torrents.
DetailIsItsOwn ==
    /\ detailOf \in {NoTorrent, detailHash}
    /\ detailLoading => \E c \in UnderWay("detail") : c.hash = detailHash
    /\ modal = "delete" <=> confirm # {}

\* One poll timer and at most one listener, whatever came back in what order;
\* a refresh that live events wait for is really under way.
OneOfEach ==
    /\ Number("tick") = IF connected THEN 1 ELSE 0
    /\ Number("event") = IF wsConnected THEN 1 ELSE 0
    /\ Number("connect") = IF connecting THEN 1 ELSE 0
    /\ fetching => UnderWay("list") # {}

\* tui's Update keeps its picture of the daemon coherent although replies come
\* late and out of order.
TuiInv == TuiTypeOK /\ ViewIsOfTheList /\ DetailIsItsOwn /\ OneOfEach

\* A refresh never moves the cursor to another torrent while the one it was on
\* is still listed (applyView).
CursorStays ==
    [][shown' # shown => \A t \in UnderCursor : t \in {visible'[i] : i \in 1..Len(visible')} => visible'[cursor' + 1] = t]_tuiVars

\* Whatever the order of replies and keys, the picture is coherent and stays put.
TuiKeeps == []TuiInv /\ CursorStays
=============================================================================
