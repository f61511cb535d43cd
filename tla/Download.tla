------------------------------ MODULE Download ------------------------------
(***************************************************************************)
(* The data path of a torrent whose metadata is known (torrent/run.go):    *)
(* the actor hands the picker's requests to peers, writes the blocks that  *)
(* come back, has completed pieces hashed on goroutines of their own, and  *)
(* publishes what verified.                                                *)
(*                                                                         *)
(* Everything but NetworkStep and VerifyPiece runs on the actor goroutine, *)
(* one handler at a time.  A tick serves the peers one by one; ticking is  *)
(* the set of peers it has still to serve, and no other handler runs until *)
(* it is empty, while verifiers and the network go on.                     *)
(*                                                                         *)
(* A block of data is either what the metainfo hashes or something else    *)
(* (good or not); hashing a piece reads its blocks in one step.            *)
(***************************************************************************)
EXTENDS Picker, Lifecycle

CONSTANTS Peer,            \* remote addresses
          BadPeers,        \* peers that may send data the metainfo does not hash
          PeerPieces,      \* what each peer has
          Pipeline,        \* requests kept outstanding at a peer (adaptPipeline's target)
          ExternalData,    \* the quality of the data external sources may bring
          MaxExternal,     \* bound: external pieces applied
          MaxFaults,       \* bound: disk reads and writes that fail
          MaxControls      \* bound: Pause, Resume and Recheck calls

ASSUME DownloadAssumption ==
    /\ BadPeers \subseteq Peer
    /\ PeerPieces \in [Peer -> SUBSET Piece]
    /\ Pipeline \in Nat \ {0}
    /\ ExternalData \subseteq BOOLEAN
    /\ MaxExternal \in Nat
    /\ MaxFaults \in Nat
    /\ MaxControls \in Nat

VARIABLES state,      \* Torrent.state
          peers,      \* connected peers (the keys of Torrent.peers)
          inflight,   \* peerConn.inflight of each peer
          choking,    \* peers choking us
          chokeNews,  \* peers whose EventChokeChanged is queued
          wire,       \* <<peer, block>>: requests the peer may still answer
          disk,       \* the block on disk is the one the metainfo hashes
          verifying,  \* verifyPiece goroutines that have not read the piece yet
          reports,    \* queued eventPieceVerified, by piece and outcome
          snapshot,   \* haveSnapshot, what we tell peers and web seeds we have
          ticking,    \* peers the running tick has still to serve
          external, faults, controls   \* counters for the bounds

torrentVars == <<state, peers, inflight, choking, chokeNews, wire>>
dataVars == <<disk, verifying, reports, snapshot>>
boundVars == <<external, faults, controls>>
vars == <<pickerVars, torrentVars, dataVars, ticking, boundVars>>

Answers(pc) == IF pc \in BadPeers THEN BOOLEAN ELSE {TRUE}
OnDisk(p) == \A x \in BlocksOf(p) : disk[x]
Idle == ticking = {}

\* verifyAndBuildBitfield: the pieces that hash.  Mutant: those begun.
FoundBegun == {p \in Piece : \E x \in BlocksOf(p) : disk[x]}
Found == {p \in Piece : OnDisk(p)}

\* publishHave.
Publish == snapshot' = have'

\* afterVerify and onPieceVerified.
Settled(s) == IF Complete' THEN Moved(s, "Seeding") ELSE s

-----------------------------------------------------------------------------
(* Peers *)

\* registerPeer, with the peer's Bitfield folded into the availability index.
RegisterPeer(pc) ==
    /\ Idle /\ pc \notin peers
    /\ peers' = peers \cup {pc}
    /\ choking' = choking \cup {pc}
    /\ inflight' = [inflight EXCEPT ![pc] = {}]
    /\ AvailabilityChange(PeerAdded(avail, PeerPieces[pc]))
    /\ UNCHANGED <<state, chokeNews, wire, dataVars, ticking, boundVars>>

RemovePeer(pc) ==
    /\ Idle /\ pc \in peers
    /\ peers' = peers \ {pc}
    /\ inflight' = [inflight EXCEPT ![pc] = {}]
    /\ AvailabilityChange(PeerRemoved(avail, PeerPieces[pc]))
    /\ UNCHANGED <<state, choking, chokeNews, wire, dataVars, ticking, boundVars>>

\* The remote side, on the connection's own goroutine: a choke or unchoke
\* flips the flag at once and queues the event; a request may be dropped.
NetworkStep(pc) ==
    /\ \/ /\ choking' = (choking \cup {pc}) \ (choking \cap {pc})
          /\ chokeNews' = chokeNews \cup {pc}
          /\ UNCHANGED wire
       \/ /\ \E x \in Block : <<pc, x>> \in wire /\ wire' = wire \ {<<pc, x>>}
          /\ UNCHANGED <<choking, chokeNews>>
    /\ UNCHANGED <<pickerVars, state, peers, inflight, dataVars, ticking, boundVars>>

\* onPeerControl(EventChokeChanged): reads the flag as it is now.
OnChokeChanged(pc) ==
    /\ Idle /\ pc \in chokeNews
    /\ chokeNews' = chokeNews \ {pc}
    /\ inflight' = IF pc \in choking THEN [inflight EXCEPT ![pc] = {}] ELSE inflight
    /\ UNCHANGED <<pickerVars, state, peers, choking, wire, dataVars, ticking, boundVars>>

\* onPeerControl(EventRejectRequest): the slot is free, the picker still waits.
OnReject(pc, x) ==
    /\ Idle /\ <<pc, x>> \in wire
    /\ wire' = wire \ {<<pc, x>>}
    /\ inflight' = [inflight EXCEPT ![pc] = @ \ {x}]
    /\ UNCHANGED <<pickerVars, state, peers, choking, chokeNews, dataVars, ticking, boundVars>>

-----------------------------------------------------------------------------
(* Blocks and verification *)

Fault == faults < MaxFaults /\ faults' = faults + 1

\* onBlock: the block is written before the picker is asked whether anyone
\* still wants it.  A failed write leaves the block outstanding.
OnBlock(pc, x, good) ==
    /\ Idle /\ <<pc, x>> \in wire
    /\ wire' = wire \ {<<pc, x>>}
    /\ inflight' = [inflight EXCEPT ![pc] = @ \ {x}]
    /\ disk' = [disk EXCEPT ![x] = good]
    /\ verifying' = IF Completes(x) THEN [verifying EXCEPT ![x[1]] = @ + 1] ELSE verifying
    /\ Received(x)
    /\ UNCHANGED <<state, peers, choking, chokeNews, reports, snapshot, ticking, boundVars>>

OnBlockWriteFails(pc, x) ==
    /\ Idle /\ <<pc, x>> \in wire
    /\ Fault
    /\ wire' = wire \ {<<pc, x>>}
    /\ inflight' = [inflight EXCEPT ![pc] = @ \ {x}]
    /\ UNCHANGED <<pickerVars, state, peers, choking, chokeNews, dataVars, ticking, external, controls>>

\* doApplyExternalPiece: dedupe and web seeds write a whole piece, in any
\* state, and have it verified like a downloaded one.
ApplyExternalPiece(p, good) ==
    /\ Idle /\ external < MaxExternal
    /\ external' = external + 1
    /\ p \notin have
    /\ disk' = [x \in Block |-> IF x[1] = p THEN good ELSE disk[x]]
    /\ verifying' = [verifying EXCEPT ![p] = @ + 1]
    /\ UNCHANGED <<pickerVars, torrentVars, reports, snapshot, ticking, faults, controls>>

\* verifyPiece, on its own goroutine: hash what is on disk now, report later.
\* A read error is reported too, and onPieceVerified takes it for a failure.
VerifyPiece(p) ==
    /\ verifying[p] > 0
    /\ verifying' = [verifying EXCEPT ![p] = @ - 1]
    /\ \/ /\ reports' = [reports EXCEPT ![<<p, OnDisk(p)>>] = @ + 1]
          /\ UNCHANGED faults
       \/ /\ Fault
          /\ reports' = [reports EXCEPT ![<<p, FALSE>>] = @ + 1]
    /\ UNCHANGED <<pickerVars, torrentVars, disk, snapshot, ticking, external, controls>>

\* onPieceVerified.  Only success publishes the bitfield and looks at Complete.
PieceVerified(p) ==
    /\ Idle /\ reports[<<p, TRUE>>] > 0
    /\ reports' = [reports EXCEPT ![<<p, TRUE>>] = @ - 1]
    /\ MarkVerified(p)
    /\ Publish
    /\ state' = Settled(state)
    /\ UNCHANGED <<peers, inflight, choking, chokeNews, wire, disk, verifying, ticking, boundVars>>

PieceFailed(p) ==
    /\ Idle /\ reports[<<p, FALSE>>] > 0
    /\ reports' = [reports EXCEPT ![<<p, FALSE>>] = @ - 1]
    /\ MarkFailed(p)
    /\ UNCHANGED <<torrentVars, disk, verifying, snapshot, ticking, boundVars>>

-----------------------------------------------------------------------------
(* The tick *)

\* tick ends by settling a download that completed without a verification.
TickState(left) ==
    state' = IF left = {} /\ Complete /\ state = "Downloading" THEN "Seeding" ELSE state

\* Mutant of TickBegins: the picker expires requests, the peers do not.
TickBeginsHalf ==
    /\ Idle /\ Active(state)
    /\ \E X \in SUBSET Outstanding : Expire(X)
    /\ ticking' = peers
    /\ TickState(peers)
    /\ UNCHANGED <<inflight, peers, choking, chokeNews, wire, dataVars, boundVars>>

\* Requests are dated when handed out, and a block's date is that of its last
\* request: blocks expire with every request for them, at every peer.
TickBegins ==
    /\ Idle /\ Active(state)
    /\ \E X \in SUBSET Outstanding :
          /\ Expire(X)
          /\ inflight' = [pc \in Peer |-> IF pc \in peers THEN inflight[pc] \ X ELSE inflight[pc]]
    /\ ticking' = peers
    /\ TickState(peers)
    /\ UNCHANGED <<peers, choking, chokeNews, wire, dataVars, boundVars>>

\* expireInflight: a request older than the block's last one, or of a block that
\* has since come from elsewhere, expires on its own.
TickServes(pc) ==
    /\ pc \in ticking
    /\ ticking' = ticking \ {pc}
    /\ \E late \in SUBSET {x \in inflight[pc] : x \notin Outstanding \/ \E qc \in peers \ {pc} : x \in inflight[qc]} :
          LET kept == inflight[pc] \ late
              peerHas == IF pc \in choking THEN {} ELSE PeerPieces[pc]
          IN  \E o \in PickOutcomes(peerHas, Pipeline - Cardinality(kept)) :
                 /\ Hand(o)
                 /\ inflight' = [inflight EXCEPT ![pc] = kept \cup o.requests]
                 /\ wire' = wire \cup {<<pc, x>> : x \in o.requests}
    /\ TickState(ticking')
    /\ UNCHANGED <<peers, choking, chokeNews, dataVars, boundVars>>

-----------------------------------------------------------------------------
(* Control *)

Control == Idle /\ controls < MaxControls /\ controls' = controls + 1

\* shutdownPeers: every connection is closed.  What had already arrived on
\* them is still queued for the actor (wire).
ShutdownPeers ==
    /\ peers' = {}
    /\ inflight' = [pc \in Peer |-> {}]
    /\ avail' = NoPeers

\* doPause, and checkSeedLimits once a limit is reached.
DoPause ==
    /\ Control /\ Active(state)
    /\ ShutdownPeers
    /\ ResetAllPending
    /\ state' = Moved(state, "Paused")
    /\ UNCHANGED <<choking, chokeNews, wire, dataVars, ticking, external, faults>>

DoResume ==
    /\ Control /\ state = "Paused"
    /\ state' = Moved(state, IF Complete THEN "Seeding" ELSE "Downloading")
    /\ UNCHANGED <<pickerVars, peers, inflight, choking, chokeNews, wire, dataVars, ticking, external, faults>>

\* doRecheck: hash everything on the actor goroutine and start from what is there.
DoRecheck ==
    LET found == Found
        given == Outstanding \cup {x \in Block : x[1] \in active \cap found}
    IN  /\ Control
        /\ ShutdownPeers
        /\ have' = found
        /\ active' = active \ found
        /\ states' = [x \in Block |-> IF x \in given THEN "needed" ELSE states[x]]
        /\ done' = [p \in Piece |-> IF p \in active \cap found THEN 0 ELSE done[p]]
        /\ Publish
        /\ UNCHANGED <<priority, strategy, choking, chokeNews, wire, disk, verifying,
                       reports, ticking, external, faults>>
        /\ state' = Moved(Moved(state, "CheckingFiles"),
                          IF Complete' THEN "Seeding" ELSE "Downloading")

-----------------------------------------------------------------------------
(* afterVerify: a torrent starts with whatever verification found on disk. *)
Init ==
    /\ \E H \in SUBSET Piece :
          /\ have = H
          /\ disk = [x \in Block |-> x[1] \in H]
          /\ snapshot = H
    /\ active = {}
    /\ states = [x \in Block |-> "needed"]
    /\ done = [p \in Piece |-> 0]
    /\ avail = NoPeers
    /\ priority = [p \in Piece |-> Normal]
    /\ strategy = "RarestFirst"
    /\ state = IF Complete THEN "Seeding" ELSE "Downloading"
    /\ peers = {}
    /\ inflight = [pc \in Peer |-> {}]
    /\ choking = Peer
    /\ chokeNews = {}
    /\ wire = {}
    /\ verifying = [p \in Piece |-> 0]
    /\ reports = [r \in Piece \X BOOLEAN |-> 0]
    /\ ticking = {}
    /\ external = 0 /\ faults = 0 /\ controls = 0

Next ==
    \/ \E pc \in Peer :
          \/ RegisterPeer(pc)
          \/ RemovePeer(pc)
          \/ NetworkStep(pc)
          \/ OnChokeChanged(pc)
          \/ TickServes(pc)
          \/ \E x \in Block :
                \/ OnReject(pc, x)
                \/ OnBlockWriteFails(pc, x)
                \/ \E good \in Answers(pc) : OnBlock(pc, x, good)
    \/ \E p \in Piece :
          \/ VerifyPiece(p)
          \/ PieceVerified(p)
          \/ PieceFailed(p)
          \/ \E good \in ExternalData : ApplyExternalPiece(p, good)
    \/ TickBegins
    \/ DoPause
    \/ DoResume
    \/ DoRecheck

Spec == Init /\ [][Next]_vars

(***************************************************************************)
(* The goroutines are scheduled and the ticker fires (WF).  select picks   *)
(* at random among what is ready, so a queued report is handled in the end *)
(* although ticks keep disabling it (SF).  Requests expire: outstanding    *)
(* blocks are given back again and again unless they arrive, and a peer    *)
(* holds no request for long that the picker does not know of.  A peer     *)
(* that is asked for a block again and again sends it once.                *)
(***************************************************************************)
Fairness ==
    /\ WF_vars(TickBegins)
    /\ SF_vars(TickBegins /\ Outstanding' = {})
    /\ \A pc \in Peer :
          /\ WF_vars(TickServes(pc))
          /\ SF_vars(TickServes(pc) /\ inflight'[pc] \subseteq Outstanding')
          /\ \A x \in Block : SF_vars(OnBlock(pc, x, TRUE))
    /\ \A p \in Piece :
          /\ WF_vars(VerifyPiece(p))
          /\ SF_vars(PieceVerified(p))
          /\ SF_vars(PieceFailed(p))

LiveSpec == Spec /\ Fairness

-----------------------------------------------------------------------------
DownloadTypeOK ==
    /\ state \in State
    /\ peers \subseteq Peer
    /\ inflight \in [Peer -> SUBSET Block]
    /\ choking \subseteq Peer
    /\ chokeNews \subseteq Peer
    /\ wire \subseteq Peer \X Block
    /\ disk \in [Block -> BOOLEAN]
    /\ verifying \in [Piece -> Nat]
    /\ reports \in [Piece \X BOOLEAN -> Nat]
    /\ snapshot \subseteq Piece
    /\ ticking \subseteq peers
    /\ external \in Nat /\ faults \in Nat /\ controls \in Nat

(***************************************************************************)
(* A piece all of whose blocks have arrived is being hashed, or its        *)
(* outcome is on its way.  Nothing else would ever move it: Received       *)
(* ignores its blocks, Pick has none of it left to ask for, and it holds   *)
(* one of MaxActivePieces for good.  (onBlock, verifyPiece, MarkFailed)    *)
(***************************************************************************)
Resolving(p) == verifying[p] > 0 \/ reports[<<p, TRUE>>] > 0 \/ reports[<<p, FALSE>>] > 0
CompletedIsResolving == \A p \in active : done[p] = NumBlocks[p] => Resolving(p)

(***************************************************************************)
(* "StateSeeding means every piece is verified and on disk" (state.go):    *)
(* what the picker counts as verified is what the disk holds.  (onBlock    *)
(* writes, MarkVerified, SetHave)                                          *)
(***************************************************************************)
HaveIsOnDisk == \A p \in have : OnDisk(p)

(***************************************************************************)
(* haveSnapshot "is a read-only copy of the verified-pieces bitfield"      *)
(* (torrent.go): peers and web seeds are told exactly what the picker has. *)
(***************************************************************************)
SnapshotIsHave == snapshot = have

(***************************************************************************)
(* "Seeding is exactly pick.Complete() is true" (uploadOnlySafe): what     *)
(* peers are told of BEP 21 is right whenever the torrent is running.      *)
(***************************************************************************)
SeedingIsComplete == Active(state) => (state = "Seeding" <=> Complete)

(***************************************************************************)
(* Short of the endgame no block is asked of two connected peers at once,  *)
(* through expiry, chokes, reconnections, pauses and rechecks: the picker  *)
(* and the peers' own records of what is in flight expire together.        *)
(* (tick, Expire, expireInflight, onPeerControl)                           *)
(***************************************************************************)
AskedOnce ==
    Remaining > EndgameThreshold =>
        \A pc, qc \in Peer : pc # qc => inflight[pc] \cap inflight[qc] = {}

(***************************************************************************)
(* A torrent left running with an honest seed that stays connected and     *)
(* does not choke it gets everything, whatever was lost, rejected,         *)
(* expired, paused or failed to hash before.  (Expire, MarkFailed,         *)
(* expireInflight: nothing is held for an answer that does not come)       *)
(***************************************************************************)
Served(pc) == pc \in peers /\ pc \notin choking /\ PeerPieces[pc] = Piece
DownloadCompletes ==
    \A pc \in Peer \ BadPeers : <>[](Served(pc) /\ Active(state)) => <>Complete

(***************************************************************************)
(* With honest sources the torrent implements PieceStore.                  *)
(***************************************************************************)
Store == INSTANCE PieceStore WITH intact <- {p \in Piece : OnDisk(p)}, verified <- have
ImplementsPieceStore == Store!StoreSpec
=============================================================================
