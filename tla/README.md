# GoTorrent: models and proofs

TLA+ models of GoTorrent, the configurations that check them with TLC, and
proofs that TLAPS checks. The models are written from the Go code under
`src/internal`; every definition that stands for code has its file and lines in
`PROJECT.json` under `map`, and every claim checked here names the code it is
about in the comment above it.

## 1. The system

GoTorrent is a BitTorrent daemon in Go (`cmd/gottrentd`) with command line,
terminal, web and desktop clients over a REST and WebSocket API, and a C# hub.
The program's own logic is in `internal/`:

| Part | State it keeps | Operations | Talks to |
|---|---|---|---|
| `picker` | verified pieces, pieces in progress, the state of each block, availability, priorities | Pick, Received, MarkVerified, MarkFailed, SetHave, Expire, ResetAllPending, SetPriorities, SetStrategy | owned by one torrent's actor |
| `torrent` (`run.go`, `torrent.go`, `state.go`) | lifecycle state, connected peers, dials under way, requests in flight, published bitfield, two channels `t.control` and `t.events` | one actor goroutine that handles calls, peer events and four tickers | picker, storage, peers, trackers, engine callbacks |
| `torrent` loops (`announce`, `dht`, `lan`, `pex`, `webseed`, `metadata`, `holepunch`, `scrape`) | timers, tiers of trackers, the metadata being assembled, rendezvous under way | find addresses, fetch pieces or metadata, call the actor | actor, network |
| `priority.go`, `stream.go`, `stream` | priorities of files, the first-and-last option, the window of a stream; a request that reads a file | recompute the priority of each piece, allocate what that needs, serve reads as pieces arrive | picker, storage, actor |
| `superseed.go`, `choker` | assignment of pieces, byte counts, the optimistic slot | which piece to show to whom, whom to unchoke | actor, peers |
| `resume.go` | a resume file per torrent | checkpoint (temporary file and rename), load, remove | storage, actor |
| `v2hash.go`, `merkle` | piece layers and the requests for them | ask, serve, check | peers, storage |
| `peer` | choke and interest flags, bitfield, request queue, outbound queue, six result channels | read loop, write loop, send loop, Close | actor through a pump goroutine |
| `storage` | open files or mappings (`handles.go`, `mmap.go`), the write cache (`piececache.go`) | ReadAt, WriteAt, Verify, VerifyOne, WriteBlock, TryVerify | called by the actor, verifiers and uploads at once |
| `engine` | the fleet under a mutex, manifest, queue positions, inbound counts, subscribers, the index of shared pieces, the alternative speed | Add, Remove, MoveData, queue passes, accept loop, events, Shutdown | torrents, API |
| `utp`, `udpmux`, `mse`, `dht`, `tracker`, `lsd`, `portmap`, `ratelimit` | per connection or per service | transports and discovery | peers, engine |
| `bencode`, `metainfo`, `bitfield` | none | codecs | everybody |
| `api`, `ws`, `tui`, `tuiclient`, `cmd`, `web`, `src/Hub`, `src/Desktop` | presentation; queues per viewer; the terminal's model | handlers that call the engine | engine |

What makes it hard is around the actor. It alone touches a torrent's maps, so
there are no locks; instead every fact it acts on was sent some time ago: blocks
arrive for requests that have expired, a verification reports on a piece that
has changed since, a connection reports its end after a pause and a
reconnection. Goroutines that call the actor must give up when it goes, on the
right one of two signals. Uploads, verifications and web seeds read what it
publishes while it goes on. The engine, for its part, takes a snapshot under its
lock and acts on it after the unlock, and its services end in an order that
nobody awaits as a whole. The hazards found while reading the code are listed
in `PROJECT.json`, each at its line, with the property that covers it or the
reason why none does.

What makes each part correct:

* picker: blocks are neither lost nor handed out twice before the endgame, a
  complete piece is hashed and verified or started over, work is handed out
  whenever there is any and the best piece starts first;
* data path: what counts as verified is on disk, what is published is what
  counts, and a torrent with a source completes;
* write cache: its memory bound, and no piece verified that is not on disk;
* selection: a piece is skipped exactly when its files are, what may arrive has
  its files, a stream is never left waiting for what nobody fetches;
* connections: the cap, every end noticed; sessions: a peer hears what it
  should, and the counts of the picker cover what peers have;
* shutdown: Stop returns, calls return, nothing reads a closed storage;
* resume: a file never vouches for what is not intact on disk;
* choker and super-seeding: no more slots than there are, everybody has a turn,
  one piece at a time to each address, everybody told everything in the end;
* metadata: it is fetched whenever somebody connected offers it, and arrives
  unless a peer that keeps silent holds the fetch;
* queue: the limits in the long run, nobody resumed against the user;
* fleet: the manifest, the files and the running torrents agree through moves,
  removals and crashes; the lock is always released;
* services: the process ends, and nothing writes after it;
* streams and terminal: order, no loss unseen, no selection of the wrong row;
* network: tokens, lookups and contacts of the DHT; whole tiers and one
  announcer; slots of source addresses returned; a uTP stream that is a prefix
  of what was written; a port mapped without a gap; a rate that is held.

## 2. The modules

Each part is a module of its own with its state, one action per operation or
handler, its specification and its properties. Data are abstract: a block is
good or not, a hash is a model value, a message is its type and what the
properties tell apart.

| Module | Models | Code |
|---|---|---|
| `Picker` | the picker, one operator per method | `picker/*.go` |
| `PickerLoop` | the loops of Pick, fill, nextPiece as the code runs them (RECURSIVE, for TLC only) | `picker/picker.go` |
| `Priorities` | the four priorities | `picker/priority.go` |
| `Selection` | file priorities, the pieces and files that follow from them, streams; extends Lifecycle | `torrent/priority.go`, `stream.go`, `run.go`, `stream/*.go` |
| `Lifecycle` | the state table and setState | `torrent/state.go` |
| `Download` | the actor's data path; extends Picker and Lifecycle | `torrent/run.go`, `torrent.go`, `externalpiece.go` |
| `PieceStore` | what a torrent promises of its data (abstract) | none |
| `WriteCache` | PieceCache with onBlock and verifyPiece; extends Picker | `storage/piececache.go`, `run.go` |
| `Connections` | peers, dials, inbound connections and the event queue; extends Lifecycle | `torrent/run.go`, `peers.go` |
| `Shutdown` | Run, Stop and all that they wait for | `torrent.go`, `run.go`, `webseed.go`, `externalpiece.go`, `peer/peer.go` |
| `Session` | one side of a wire connection and the actor on the other side of its queues | `peer/*.go`, `run.go`, `picker/availability.go` |
| `SuperSeed` | assignment, release, the end of super-seeding | `torrent/superseed.go` |
| `Choking` | the rounds and the optimistic slot | `choker/choker.go` |
| `Metadata` | the info dictionary of a magnet link | `torrent/metadata.go`, `peer/extension.go` |
| `Resume` | checkpoints, stops, crashes and starts | `torrent/resume.go`, `torrent.go` |
| `Announce` | the announce loops, tiers, the goodbye | `torrent/announce.go`, `trackers.go` |
| `Holepunch` | BEP 55 among torrents that run this code | `torrent/holepunch.go`, `peer/holepunch.go` |
| `V2Hash` | piece layers: asked, served, checked | `torrent/v2hash.go`, `merkle`, `storage/verify.go` |
| `Files` | reads and writes across files through a cache of handles | `storage/storage.go`, `handles.go`, `mmap.go` |
| `Queue` | the passes that pause and resume torrents | `engine/queue.go` |
| `Fleet` | add, remove, move, completion, the manifest, crashes | `engine/engine.go`, `manifest.go`, `movedata.go`, `incompletedir.go`, `completion.go` |
| `Dedupe` | pieces that another torrent has, and the locks around them | `engine/dedupe.go` |
| `AltSpeed` | the weekly window and the rate in force | `engine/altspeed.go`, `ratelimit.go` |
| `Services` | the DHT node, the mux, local discovery, the watch folder, and how the process ends | `engine/engine.go`, `dht/node.go`, `lsd/lsd.go`, `udpmux/mux.go`, `cmd/gottrentd` |
| `Inbound` | connections from outside, from the listener to the torrent | `engine/engine.go`, `utp.go`, `torrent.go` |
| `Dht` | routing tables, lookups, tokens, contacts that fail | `dht/*.go` |
| `UdpTracker` | calls that share a connection identifier | `tracker/udp.go` |
| `Utp` | one connection over a network that loses, repeats and reorders | `utp/*.go` |
| `Portmap` | the mapping on the gateway and its renewal | `portmap/*.go` |
| `Limiter` | the token bucket | `ratelimit/ratelimit.go` |
| `Stream` | a live stream from the publisher to one viewer | `engine/events.go`, `logger`, `api`, `ws`, `tuiclient` |
| `Tui` | the terminal's model and its commands | `tui/*.go` |
| `*Proofs` | theorems (section 4) | |
| `MC*` | the instances TLC checks | |

### How the instances are composed

`Download`, with Picker and Lifecycle, is checked by itself (`MCDownload`), and
so is the finding about Shutdown (`MCShutdown`). The other parts have no state
in common: they meet through the actor or through the engine, whose calls each
module has as its own actions. `MCTorrent`, `MCEngine`, `MCNetwork` and `MCPeers`
therefore extend several parts at once; a variable `part`, chosen at the start,
says which of them moves, and the others stay where they start. A property of
one part is stated as it is for an invariant that holds in the initial states of
all, and as `part = "..." => ...` where it must be kept apart. This checks the
disjoint sum of the parts, not their product; where two parts do share state they
are one module, as Download with Picker, or Session with the counts of the
picker.

### Picker

`have`, `active`, `states`, `done` are the fields of Picker and pieceProgress;
`done` is the counter the code keeps, not derived from the states. Time is left
out: Expire gives back any set of outstanding blocks. Pick is a relation,
`PickOutcomes`: which pieces it fills and starts and which blocks it hands out
for a number of free requests and the pieces of one peer. `PickerLoop` runs the
code's nested loops on the same state, and PickIsItsLoops says both give the same
outcomes; the other modules use the relation, which the provers can reason about.
Ties between equally rare pieces are broken at random in the code and are a
choice here. The availability counts move freely in `PickerLoop`, as the code
does not promise that they are exact.

### Download

One action per handler of the actor: OnBlock, OnBlockWriteFails,
ApplyExternalPiece, PieceVerified, PieceFailed, OnChokeChanged, OnReject,
RegisterPeer, RemovePeer, DoPause, DoResume, DoRecheck. `tick` serves the peers
one after another; TickBegins expires requests and `ticking` holds the peers
still to serve. While it is not empty only the steps that other goroutines make
can happen: NetworkStep (a choke flag flips, a request is lost) and VerifyPiece.
`wire` holds requests a peer may still answer, expired or not; an answer carries
good or bad data. A block on disk is good or not, and hashing reads all its
blocks. `verifying` and `reports` count, for each piece, the goroutines that
have not read it yet and the outcomes queued, since one piece may have several.
Allowed-fast requests while choked, seed limits, statistics and the per-peer
adaptation of the pipeline are left out; a peer's pipeline is the constant
Pipeline. A pause by a seed limit is the pause of DoPause.

### Selection

Files are ranges of bytes, given by `FileOffset`; which pieces they overlap, which
they begin and end in, and which files a piece needs are computed from it as the
code does, so that a layout is a constant. Each setter is one step of the actor and
recomputes every priority from the files (`Recomputed`); only
doSetStreamPosition adds the window of a stream, and a later setter drops it.
AllocationFails and OpenFails stop part of the way, with the files made so far. A
piece that was asked for may arrive at any time after, also when its files have
been skipped since. A reader is a request of stream.Content: it seeks, tells the
picker where it is, waits for the piece and reads to the end of it.

### WriteCache, Connections, Shutdown

The cache has the same handlers of the actor with a buffer in between, and begins
with any content of the disk that its verified pieces allow. A buffer
holds, for each block, nothing, good or bad data. TryVerify takes the buffer
under the lock (TakeBuffer) and hashes and flushes it outside (HashBuffer), so
that blocks can arrive in between.

An attempt of Connections is one dial or one inbound connection, with its
goroutine, its client and the peerConn it may become. All report to the actor
over `events`, a bounded first-in-first-out queue whose senders block when it is
full. Pause closes what is registered and leaves what is under way, as
shutdownPeers does.

`stage` of Shutdown is where Run is: fresh (opening metadata), running, exited
(the loop saw the context done), waiting (peers closed, in wg.Wait), closing
(storage closed), done (`t.done` is closed). Go's select is a choice: after Stop
the loop may handle any number of ready messages before it sees the context
done, a sender may still find room in the queue. A web seed loop looks at its context,
fetches (SeedFetches), and calls the actor with what it has fetched, which may be
after the context was done.

### Session

`bits` is the bitfield a client keeps of its peer, `counts` the availability the
actor keeps for the picker, `told` what the peer has heard of ours. The outbound
queue and the events queue are bounded and drop as the code does. A
peer may say anything in any order while the metadata arrives (UpgradeMetadata)
and the choker works. Connections have addresses (`ConnAddress`), an address has
one connection at a time as far as the actor knows, and removePeer goes by the
address: the report of a connection that a pause has forgotten takes a newer one
off `registered`, and its bits off counts that the pause had set to zero. `stale`
counts, for each piece, the reports of that kind; it is for the property only.
SuperSeed has the same: a connection whose address is taken off the map while it
is alive is "stray" there, served and never closed by a pause.

### The engine's parts

A pass of `Queue` is a record: the snapshot of flags taken under the lock, the
torrents it has not looked at yet, the candidates, those it found paused, and the
mark (setQueueHeld) it still has to make after a Pause or Resume. State and Stats
of a torrent are read in one step here. `Fleet` splits each call where the lock
is released; every save may fail, and a crash may come between any two steps.
`Dedupe` has the three locks: the engine's, which List holds while it asks the
actors, the index's and each actor. `Services` has two callers of each Close,
the watcher of the context and Shutdown, and the loops Close waits for.

### The network

`Utp` counts sequence numbers modulo SeqSpace, starts just before the wrap, and
has a network that loses, repeats and reorders within MaxFaults. `UdpTracker`
keeps time as what is left of each wait, in units of the first wait; a request
doubles its wait each time. A call that is cancelled ends at once, or, when its
next deadline is set over the one that should wake it, at the end of the window it
waits in; until then it is in `cancelled`. `Dht` keeps one table per node; the
distance of two nodes is the XOR of their small identifiers. In `Portmap` a tick is ten minutes. `Holepunch` has a queue for
each direction of each connection, and queues end with the connection.

## 3. The runs

| Run | What it asks | Bounds | Expected |
|---|---|---|---|
| `download` | Do picker, per-peer records, disk, published bitfield and state stay in step, is no block asked twice, and is PieceStore implemented? | 2 pieces (2 and 1 blocks); 2 seeds with 1 control call, or 1 seed with 2 pieces from outside and 2 control calls | holds |
| `download_live` | Does a torrent with a source complete? | 1 seed, two disturbances out of a fault, an external piece and control calls | holds |
| `late_block` | HaveIsOnDisk with a peer that sends other data | 2 seeds, one of them bad | fails |
| `shutdown_web_seed` | Does Stop return? | 1 web seed loop | fails |
| `torrent` | The invariants of eight parts of a torrent | a cache for one of 2 pieces; 4 attempts at 2 addresses for 1 slot; 1 connection, 1 verification, 2 callers (1 a web seed loop), 1 Stop; 3 connections of 2 addresses to a super-seed of 2 pieces; 3 peers for 2 slots; a genuine peer and a liar; 2 starts and 3 writes | holds |
| `torrent_live` | What those parts bring to an end | as above, 3 attempts, metadata of 1 piece | holds |
| `engine` | The invariants of seven parts of the engine and its control | 2 torrents and 2 overlapping passes; 2 hashes, 2 goroutines, a failing save and a crash; a week of 2 days of 3 hours; queues of 1 slot, 2 messages; 2 torrents and 3 commands in the terminal, which must also keep its cursor (TuiKeeps) | holds |
| `engine_live` | What those parts bring to an end | one pass at a time, 1 hash | holds |
| `network` | The invariants of seven parts that talk to the network | 6 DHT nodes, one silent; 3 tiers, 2 announce loops; 2 calls with 2 datagrams lost; 2 inbound connections; numbers modulo 16 and one fault; 20 ticks; 2 callers of the bucket | holds |
| `network_live` | What those parts bring to an end | as above, smaller; 2 datagrams lost, 2 faults | holds |
| `peer_links` | The invariants of sessions, layers, rendezvous, files and the selection of files | 1 connection, 2 messages of the peer or one and a control; 3 connections, two of one address, each with a bitfield, around a pause; a genuine peer and one that sends any level of the tree; 4 files; 2 torrents and a relay, 2 rendezvous, 1 connection lost; 1 open file, 2 calls; 2 pieces over 4 files (one for padding, one empty), 2 changes of what is wanted or one and a reader | holds |
| `v2_padding` | Is a layer this code serves accepted by this code? | a layer of 3 pieces of 2 blocks | fails |

The runs expected to fail show code that does not do what the repository says of
it; each is a finding in `PROJECT.json` with the sentence it contradicts:

* A block is written before anybody asks whether it is wanted (`run.go:925`), so
  a late block can replace verified data.
* A web seed loop that has fetched a piece as the torrent stops waits for
  `t.done`, which waits for the loop (`webseed.go:88`): Stop never returns.
* serveHashesSafe pads a piece layer with zero hashes, onHashMessage checks it
  against padding of another kind (`v2hash.go:101`): such a layer is refused.

Some of the properties that hold name what the code does not keep:

* A magnet link asks one peer at a time and has no timeout for it: a peer that
  offers a size and then says nothing keeps the fetch for as long as it stays,
  though metadata.go:60-63 says "one bad or vanished peer costs at most one
  attempt". MetadataArrives has that exemption (`SilentLiar`).
* A report of a connection's end that is still queued when its address has
  connected again, after a pause, counts the availability down once too often and
  leaves the new connection off the map (`run.go:787-799`): CountsCoverPeers
  adds `stale`, and SuperSeedInv says nothing of who is assigned to a stray.
* onHashMessage compares neither the level nor the number of hashes
  (`v2hash.go:224-247`): a deeper level of the tree combines to the same root, and
  its first hashes are installed as the piece layer, after which no piece of the
  file is accepted. LayersAreOfTheTree and VerdictsAreRight say so.
* MoveData on a torrent that never ran, after a move whose save failed, blocks in
  Stop for ever (`torrent.go:1232`): such a call never returns in `Fleet`;
  StagedLeaves exempts what has met a failure.

`download` and the theorems about honest torrents assume honest data and a sound
disk for the first reason; `torrent_live` says that only a web seed loop can hold
up Stop, in place of saying that nothing can.

### Further claims the code does not keep

While modelling, other sentences of comments and tests turned out not to hold of
the code. They are kept as definitions beside the properties that do hold, and no
run lists them:

* `Connections!OneConnectionPerAddress`: removePeer goes by address
  (`run.go:787`), so the end of an old connection removes the new one.
* `WriteCache!HashedBufferIsWhole`: buffering is decided again at every block
  (`piececache.go:85`).
* `Download!SeedingIsComplete` with a bad external piece: a failed verification
  clears a piece that a later one had verified (`run.go:1019`).
* `Dedupe!NothingIsFatal`: both passes index the list of v1 hashes, which a pure
  v2 torrent does not have (`dedupe.go:76`, `:108`).
* `Inbound!NothingIsSkipped`: the reader that peeked at the first bytes may have
  read more, and the connection is handed on without it (`engine.go:962`).
* `SuperSeed!NobodyIsLeftOut`: a full queue drops a Have of the final sweep.
* `Queue!PausedIsLeftAlone`: a pass that looks at a torrent the user is pausing
  resumes it; what holds is FreelyPausedIsLeftAlone.
* `Fleet!KnownIsSaved`, `Resume!StartKeepsData` (full allocation writes zeroes
  over data), `AltSpeed!AltReportsEffect`, `Services!EveryTorrentStops`,
  `Portmap!OneMissLeavesMargin`, `Dht!RespondersAreTold` and `TokensExpire`,
  `UdpTracker!KeepsWaiting`, `Utp!OneConnPerDial` and `FinIsLast`,
  `Session!ChokeAgrees` and `PeersAreUpgraded`.

### Why the bounds are enough

Two pieces, one of them of two blocks, are the least with a piece that is half
done while another is complete, and with a bound on started pieces that matters.
Two peers are the least for a block asked twice. Four attempts at two addresses
for one slot have a duplicate, a turned-down attempt and a reconnection, and two
controls a pause and a resume. Two passes of the queue are the least that
overlap, two torrents the least that compete for one place. Two goroutines and a
crash meet every pair of steps of the fleet. A queue of one or two slots is full
as often as it can be. Numbers modulo 16 with a window of 2 wrap within the run.
Two lost datagrams are one more than MaxRetries, so that a call can fail by loss
and by an identifier that grew too old. Faults, external pieces, calls and
messages are counted because each of them can otherwise happen for ever; the
counters are guards of the actions that are disturbances, and one or two are
enough for each to meet every step of the rest once. The theorems of section 4
have no such bounds: their constants are arbitrary.

`CHECK_DEADLOCK FALSE` stands where everything really ends: all attempts made,
the torrent stopped, the process exited.

### Fairness

Goroutines are scheduled (weak fairness of their steps). The actor's select
picks at random among the ready cases, so that a case that is ready again and
again is taken (strong fairness of its handlers). A sender that blocks on a full
channel gets its turn, as Go queues them (strong fairness). Handshakes and socket
reads have timeouts; a timer that is set fires. In `download_live` a peer that is
asked for a block again and again sends it some time, and requests expire again
and again unless answered; the property itself has the premise that the source
stays connected and does not choke us. A lock that is free again and again is
obtained (strong fairness of Dedupe's callers, Go's mutex is starvation free). In
`Utp` a packet that is sent again and again arrives (the faults are bounded). In
`Choking` the random choice of the optimistic peer favours everybody some time.
In `Metadata` a genuine peer that is asked for a piece answers; nothing is assumed
of the others, who may close, lie or keep silent at any point.
Nothing is assumed of users, the network or remote peers elsewhere: no call,
connection, block or Stop is obliged to happen. Each fairness condition is
confined to its part, as the others do not move.

## 4. The proofs

All are checked by TLAPS, for every value of the constants that the ASSUMEs of
the modules allow: any number of pieces, peers, torrents, calls and messages, any
sizes, any queue length, any times. The bounds of the counters (MaxFaults,
MaxControls, MaxOrders and the like) are arbitrary naturals, so that a theorem
holds of any finite number of disturbances. Hardly any property below is
inductive as it stands; each proof names the strengthening (`...IInv` or
`...Inv`), has one lemma or step per action, and ends in one temporal step.

| Theorem | States | Rests on |
|---|---|---|
| `DownloadProofs!DataInvariant`, `TypeCorrect`, `CompletedPiecesResolve` | PickerInv, types, CompletedIsResolving, with corrupt peers and failing disks | DataInv: the three together. PickerInv is kept by each operation of the picker (`PickerProofs`, one lemma per operation: the counter `done` is the number of arrived blocks); a piece is complete when that counter says so |
| `HonestInvariant`, `HonestTorrent` | HaveIsOnDisk, SnapshotIsHave, SeedingIsComplete | HonestInv: a verification is only started for a piece whose blocks are all good, and no failure is reported |
| `NoBlockAskedTwice` | AskedOnce | HonestInv and AskedInv: what a connected peer has been asked is outstanding in the picker, unless it has expired, and only in the endgame is it asked of two |
| `StoreImplemented` | Download implements PieceStore | HonestInv; each action is a Written, a Verified, a Rescan or a stutter |
| `ConnectionsProofs!ConnectionsInvariant`, `WithinCap`, `DialingHasOneAttempt` | the cap; no outcome of a dial is lost and none clears another's entry | every queued outcome has its dialing entry and no address has two attempts under way |
| `LayersAreKept` | LayersOnlyGrow, an action property of V2Hash | each action publishes or leaves the layers |
| `RateIsKept` | LimiterInv | LimiterIInv: what was granted, can be granted and is owed, with the `h` that callers of before a SetLimit were granted beyond what they paid, was all earned; and at any later time the tokens, with `h`, cover those who will still owe then. What all owe is a sum over a set: `EveryNumber` and `EverySubset` are induction for sets, from the pigeonhole theorem, and give its laws (`OwedAfter`, `OwedInPart`, `OwedAtMost`) |
| `RangesLandInTheirFiles` | FilesInv | FilesIInv: the cache is counted by its uses (`CountedBy`: every open file is in the order or in use, each by as many calls as its count says, and the order has a file once), the handle a call is about to use is of its file, and a write has its bytes in place up to where it is. Lemmas: the offsets grow, so `RegionAt` finds the file and a byte has one place; each operation of the cache keeps the counting; the order is longer than the bound only by files in use. `Offset` and the rounds of trim are recursive functions, reached with `EveryNumber` |
| `UtpReadsWhatIsWritten` | UtpInv | UtpIInv: a place in the stream of its sender for each packet under way, each packet kept for sending and each kept for delivery, the FIN at one of its own (`UtpAt`). A reader has read the first r places, and its acknowledgement is the number of the last of them (`Receiver`); what a connection does keeps its packets and only adds to them (`GoesOn`). `NumbersTell`: comparing numbers compares places. `FollowingFollows` and `ReadsInOrder`: what the reorder buffer gives up is the places that come next, and reading them reads the chunks in order, by `EveryNumber` |
| `ShutdownProofs!ShutdownInvariant`, `ClosedStorageIsUnused`, `ShutdownTypes` | StorageOutlivesUse, types | none is left when the storage is closed, a loop that has ended starts no more, and the pump, which Run waits for, outlives the client, which it does not |
| `TorrentProofs!ResumeIsJustified` | ResumeInv | what is verified in memory, in the file and at the last stop is intact as long as the recorded time is the file's |
| `CacheKeepsItsBound`, `CachedPiecesReachDisk` | CacheBounded; CacheInv with good data | the buffers account for `used`; every block counted as arrived is in a buffer, under a verification or on disk |
| `SelectionIsRight` | SelectionInv | SelectionIInv, and lemmas about the layout (`DivisionBounds`, `ProductsAreOrdered`, `PiecesOverlap`: the pieces of a file are those it overlaps) and about priorities (`RecomputedFacts`, `BoostedFacts`: a boost raises no skipped piece and skips none) |
| `SlotsAreKept` | ChokingInv | the unchoked after a round are the best and one more |
| `PeerProofs!SuperSeedingIsRight` | SuperSeedInv | what is assigned, queued and known of each connection, and which connections a sweep has still to meet |
| `SessionsAgree` | SessionInv | SessionIInv: an event still in the queue stands for every piece a connection is not counted for, and `stale` for what reports of another connection of the address took away; what is queued tells of every verified piece, and ends in the choke flag; the bitfield, or what waits for the upgrade, is what was announced |
| `MetadataIsSought` | MetadataInv | the peer of a fetch is connected, or its end is on its way; the requests and answers of a fetch are accounted for |
| `EngineProofs!NothingWritesAfterShutdown` | QuietAfterShutdown | a Close that has returned has seen its loops end and the table saved |
| `PauseIsRespected` | QueueInv | QueueIInv: a torrent paused freely is in no pass's hands, and a pass has only to do with torrents of its snapshot; the order stays a list without repetition through moves and removals |
| `FleetIsKept` | FleetHolds | FleetIInv: the calls on one torrent that is not tangled met the same record, at most one of them moves it, one that removes it took it off the fleet, and one past its Stop has stopped it; until the hook ran, the content is whole where the torrent has it or where a call is about to give it; nothing happens to what Load has not added yet |
| `StreamKeepsOrder` | OpenWhileRegistered, OverIsReleased, EventsInOrder, TailIsWhole of StreamInv | StreamIInv: a channel is closed only after it was taken off the map; every entry of the tail is sent, in hand or still to come; what is queued is in the order of publication |
| `NetworkProofs!MappingIsKept` | PortmapInv | the next renewal comes before the lease ends, and only the mapping of the one mapper is renewed |
| `SlotsAreReturned` | InboundInv | a slot is held from where it is taken to the close, whoever closes, and a connection is queued once |
| `TiersStayWhole` | AnnounceInv | a promotion permutes; what cancels a loop forgets it, so that one loop is current |
| `DialsAreSolicited` | HolepunchInv | dials and answers on their way together are no more than what was asked for |
| `UdpCallsFailByLoss` | UdpInv | UdpIInv: the tries of a call, and the answers to its connect that will cost it one more, are paid for by mislaid datagrams, but for the try just made; an identifier is no older than the waits for those allow, `Backoff[mislaid]` |
| `TablesAndPeersAreKept` | DhtKeeps | DhtIInv: every contact is in its own bucket, never the owner, and no bucket is over its size, which insert and MarkFailed keep; while no datagram is lost, a lookup waits for a living node exactly while one datagram of the two is under way, and whoever has been told has the peer stored or is being told; answers are matched to the lookup and the phase that asked |

### What the theorems assume

* `Honest` (`DownloadProofs`): no bad peer, good external data, no faults; and
  `FALSE \notin Data` for `CachedPiecesReachDisk`. Without them the run
  `late_block` shows the same properties violated: the code writes a block before
  it asks whether it is wanted.
* `~FullAllocation` for `ResumeIsJustified`: with full allocation a start writes
  zeroes over data (`storage.go`, `StartKeepsData`), and what a resume file
  vouches for is not there.
* `NumbersLast` for `UtpReadsWhatIsWritten`: a connection sends, with its FIN,
  fewer packets than half of the numbers (32768 in the code). The network of the
  model may keep a packet for any time, and `seqLess` cannot tell a packet that
  old from one to come: for a longer connection the code relies on a network
  that forgets. And the accepting application reads something before it first
  writes, as the one in the code does, which waits for the dialer's BitTorrent
  or encryption handshake: before it is connected a dialer takes whatever comes
  for the answer to its SYN (`performHandshake`). The run meets both, with 16
  numbers. Neither can be dropped: with 4 numbers and 4 chunks, or with an
  acceptor that writes first, TLC finds UtpInv violated.
* The ASSUMEs of the modules, which TLC evaluates in every run: sets and counts
  that are finite or positive where the code's are; a value for "none" (`None`,
  `Nothing`, `NoFetch`, `NoFile`, `Idle`, `Absent`) that is not one of the things it stands
  beside; `0 < RenewBefore < LeaseDuration`, the constants of `portmap/client.go`;
  tiers that are not empty, as buildTiers drops empty ones; links of a rendezvous
  between two different torrents; in `UdpTracker` waits of which each is at least
  twice the one before, as `udpRoundTrip` makes them, and a bound on mislaid
  datagrams beyond the retries, so that failure is possible at all; in `Dht`
  finitely many nodes, identifiers below `2^Width`, and searchers that answer
  others (`Silent` nodes are those that never do); in `Files` more names for open
  files than can be open at one time, `MaxOpenFiles` and two for each call: an
  operating system that runs out of descriptors is not modelled.

### What is only model-checked, and why

* Liveness: DownloadCompletes, GoroutinesEnd, ChokedHaveATurn,
  MagnetGetsMetadata, QueueIsConverging, ScheduleHolds, EverythingEnds,
  EverythingSettles, EveryChunkArrives. It needs fairness and ENABLED, which is
  out of this prover's reach.
* PickIsItsLoops (RECURSIVE operators), LayersAreOfTheTree and VerdictsAreRight of
  V2Hash (hash trees are recursive data), AcceptedIsDelivered of Stream (a
  filtered sequence), ViewIsOfTheList and CursorStays of Tui (sorted and filtered
  sequences): they need induction over sequences and trees. The library's
  induction theorems take an operator, which none of the provers can instantiate;
  `EveryNumber` and `EverySubset` stand in for them where what is to be shown is
  a set of numbers or of subsets, as the sum of what callers owe is.

## 5. What is not modelled

`PROJECT.json` lists every component with its status. Left out for good, being
pure functions, pure I/O or presentation: the codecs and parsers, cryptography
and encryption handshakes, HTTP trackers and ranges, scrapes, proxies, the filter
table, mappings and allocation of files, congestion control on real time, seed
limits and statistics, the organiser, drawing, argument parsing, the web page,
the simulator of the repository (a test tool), the C# hub and desktop client, the
HTTP side of a stream. A recheck of a torrent whose opening failed before it had a
picker is not modelled either: doRecheck asks only for the metadata. Nor are
Storage.Sync and mmapCache.syncAll (`storage.go:504-526`, `mmap.go:191-206`),
which use handles they hold no reference to and may find them closed: nothing but
tests calls them. ReadAt and WriteAt do not look whether the storage is closed, and
do not in `Files`.

Hazards without a property are those whose step needs one of these, or whose
actions are in the modules while no property states what is wanted; their notes
in `PROJECT.json` say which.
