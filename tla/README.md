# MotteSeed: a specification in TLA+

MotteSeed is a BitTorrent client written in Rust on tokio. This directory holds TLA+
modules that model it, the TLC configurations that check them on small instances, and
proofs of the properties that matter most, checked by TLAPS. Paths below are relative to
the repository.

## The system

| component | state | operations | correct when |
|---|---|---|---|
| blocks, pieces, piece table (`core/peer/piece/`) | per piece: state, a map from offset to block | request a block, receive a block (store, check the hash when nothing is missing), mark written, choose the next piece | state and blocks agree whatever arrives in whatever order; only right content counts as complete |
| download manager (`download_manager.rs`) | the map of peers with command sender and bitfield, the piece table, the event receiver, the disk | one handler per peer event; `run` checks for completion after every turn | what is marked or announced is on disk; the loop ends exactly when it should; slow or dead peers do not stop it |
| disk I/O (`disk_io.rs`) | one locked file handle per file of the torrent | open or create, write a piece, read a piece | a piece lands where the layout puts it and harms nothing else, also when calls overlap, fail or are cut off |
| peer connection (`peer_connection.rs`) | socket, one buffer, peer state, two channel ends | `select!` between the next command and the next message | every message and every command is handled once, in order, undamaged by the other branch |
| wire messages (`message.rs`) | none | serialize, deserialize | the second undoes the first |
| peer manager (`peer_manager.rs`) | a command sender per peer | start a connection with its forwarder | every event reaches the download manager once and in order; tasks end when they are no longer needed |
| UDP and HTTP trackers (`tracker_udp.rs`, `tracker_http.rs`) | last answer and its time, UDP connection id and its time | connect, announce when the interval is over, retry on timeouts | only answers to the current request are used, expired connection ids are refreshed, trackers are not asked too often |
| tracker manager and factory (`tracker_manager.rs`, `tracker_factory.rs`) | the trackers that could be made, the pool of peers | make the trackers of a torrent, poll them in turn | a tracker that fails costs only its own peers |
| torrent file, bencode (`core/torrent/`, `util/`) | none | decode | lengths and hashes are those of the file |
| statistics, handshake, peer id | counters; none | trivial or one exchange | - |
| program (`main.rs`) | none | poll trackers, open the disk, start ten connections, run the manager | all the above are connected as they expect |

How they interact: each connection is a tokio task with a bounded command channel (100) and
a bounded event channel (100). A forwarder task tags its events with the peer's address and
sends them to the bounded event channel of the download manager (1000). The manager is one
task: a handler awaits the disk, then sends commands into the connections' channels and
waits for room there. The three bounded channels form a circle: manager, connection,
forwarder, manager. `DiskIO` is called by the manager; the tracker manager is called by
`main` before anything else and hands it the peers.

What is hard: the manager stops in the middle of a handler, at every await, while
connections take commands, fill channels or die and while the process may crash; payloads
come late, twice, wrong or for the wrong block; a write may fail or be cut off; in a
connection `select!` cancels a read whose bytes are already gone; the two branches share a
buffer; every channel can be full or closed. `PROJECT.json` lists these hazards with
their lines.

## The modules

**Piece** has the operators of `block.rs`, `piece.rs` and `piece_manager.rs`. A payload is
"good" (the torrent's bytes), "bad", or "short" (any other length); SHA-1 is taken to
separate good from bad. A piece is a record `[state, blocks]` like the struct. As in the
code every piece has `PieceLength` bytes, the last one too: `Whole` says whether the torrent
really has that many, and a piece for which it does not can never be verified. `Piece::new`
narrows what is left of a piece to 32 bits, which for a piece of 4 GiB or more makes its loop
endless; `PieceLength` stands for shorter pieces, for which the narrowing changes nothing
(`BlockLength`).

**TorrentStore** is the abstract specification: every piece is wanted, verified or persisted;
`durable` is on disk, `announced` is on its way to peers. Only a verified piece is written,
only a written one is announced, a crash loses everything but the disk.

**PieceDisk** is the other abstract specification, of what lies under the manager: a set of
`durable` pieces and the calls under way. A write that reports success has put its piece there, one
that fails may or may not have, a read that began when its piece was there returns the right bytes,
and neither calls nor crashes take anything out. DiskIO implements it; the manager is one of
its callers, whose disk (`persisted`, and `writing` in phase "writing") behaves like it and nothing
else.

**DownloadManager** is `download_manager.rs`. `phase` is where the task waits: "recv" (next
event), "writing" (`write_piece`), "sending" (the sends left in `outbox`). One action per
handler runs to its first await; `WriteOk`, `WriteErr`, `SendCommand` and `FinishEvent` are
the rest. Iteration over hash maps is a choice (the order of a broadcast, the block picked by
`get_next_missing_block`). `TakeCommand`, `ConnectionEnds`, `CloseChannel`, `WriteLands`
and `Restart` are the surroundings: connections, the last sender dropped, bytes that are in
place before the outcome of a write is known, and a crash with a new start. Events come from
peers that may send anything: any bitfield of a small set, any piece and block index and one
beyond, any payload. `cmds` is the channel of a connection, `live` the connections whose
receiver exists. `failed` is a history variable, the pieces whose last write returned an error.
Two things are assumed of the rest: the disk is a PieceDisk
(what DiskIO is shown to be for writes to single-file torrents, and what most pieces of multi-file
torrents do not get: see below), and the owner registers peers before `run`, as the documentation
says and `main` does not.

**DiskIO** is `disk_io.rs`. A byte is represented by its offset in the torrent. `op` holds
what each calling task is doing; each chunk (one file, under its mutex) is a step. The u32
products wrap at `WordSize`, as in a release build; a debug build panics there instead. `WriteTo`
names the writes of an instance, as pairs of a torrent and a piece: `write_multi_file_piece` seeks every
file to the piece's offset in the torrent, and `SeeksRight` says for which pieces that is their place
(every piece of a single file; of several files those within the first, and the first piece over as
many files as it spans, a chunk each).

**Message** is `message.rs`, on sequences of bytes. Where the parser subtracts a header from a smaller
prefix, a release build wraps to a length no buffer has and a debug build panics; either way no
message is read and the connection ends, which is what `Parse` says. **MessageCodec** states what
`serialize_into` and `deserialize` are to each other on an empty buffer, for a set `Messages` of every
kind; most of these never reach `handle_message` as the program stands (run connection_framing).

**PeerConnection** is the task of one connection. `net` holds bytes the peer has sent;
`ReadPrefix`, `ReadLength`, `ReadBody` and `ReadMessage` are `read_message` in as many
pieces as the network delivers. `TakeCommand` is the other branch: it forgets `prefix`
and `filled` (the dropped future's locals), while the bytes taken are gone and `buf` stays.
`todo` has the events still to be sent by `handle_message`. `log` records what the
properties speak of. The transfer rates and the stored bitfield are left out of the state.

**Swarm** composes the manager with what `peer_manager.rs` and the end of `main` put around
it. It extends DownloadManager: every step of the manager's task, of the disk and of the
command channels is an action of that module, with its events taken from `queue`, the shared
channel. `conn` is where the task of each connection is ("select", writing a command,
reporting an event, ...), `evs` its event channel, `hand` the event its forwarder has taken out
and not yet sent. A connection is seen at the level of whole messages; PeerConnection has what
happens below. `Registering` are the peers passed to `DownloadManager::add_peer`: in `main`
none, in a complete program all. Events carry a number per peer, so that loss, repetition and
overtaking can be told (`reported`, `taken`).

**TrackerUDP** is `tracker_udp.rs`. `stage` is the request the task waits for an answer to
("none" before `new`); `Attempt` is one turn of a retry loop. Transaction ids are numbers
never used before (the code draws random ones). An answer, if the tracker and the network give
one, is put into `net` with the request and can be received at any later time and more than
once. It may also be an error message, of any size. A datagram of the wrong size ends a call
(`UnreadableAnswer`), one of the right size with another action or transaction id costs an attempt
(`WrongAnswer`). Time passes in units, between calls (`Tick`) and during them: `waited` counts it from a
request to its answer (`Wait`), and at `Timeout` the timer fires. `connAge` and `annAge` are the ages
the code computes, `sinceAnswer` and `idAge` what really passed since the last answer and since the
connection id was obtained.

**TrackerHTTP** is `tracker_http.rs`: one request at a time, without a time limit. It fails
before there is a bencoded body (`Fails`) or after (`Undecodable`, which notes the time of the
announce all the same).

**TrackerManager** is `tracker_manager.rs` with `tracker_factory.rs`: it extends TrackerUDP,
instantiates TrackerHTTP and calls them in the order of the announce list, first to make them
and then to poll them. While one tracker is awaited, time passes for the other.

**DownloadManagerProofs** (with the lemmas about Piece), **SwarmProofs**, **DiskIOProofs**,
**MessageProofs**, **MessageCodecProofs**, **PeerConnectionProofs** and **TrackerProofs** hold
the proofs, **DataLemmas** what several of them need of numbers and sequences; the MC modules give
the constants of the runs.

## What is checked

| run | instance | shows |
|---|---|---|
| manager_pieces | 2 symmetric peers, 2 pieces of one block, channels of 1; 6e5 states | `TypeOK`, `WrittenIsPersisted`, `HaveIsPersisted`, `GapsAreFailedWrites`, `DiskIsStable`, `ImplementsStore` and `UsesPieceDisk` |
| manager_blocks | 2 peers, 1 piece of a full and a short block; 4e5 states | `NoLimbo`, `RequestIsMarked` and, with fairness, `DeadPeersDoNotBlock`, `CompletionIsNoticed` |
| disk | 2 callers, six layouts with spanning pieces and empty files, all writes whose seek is right, of one chunk to three; 1e4 states | `OkMeansOnDisk`, `ReadReturnsPiece`, `RightStaysRight`, `TypeOK` and `ImplementsPieceDisk` |
| connection | 2 messages cut at any byte, 2 commands of two kinds in any order, event channel of 1; 1e6 states; for the parser 38 messages of every kind, empty and misleading payloads | `ChokeIsReported`, `CommandsKeepOrder`, `TypeOK`, `ParserInvertsSerializer`, `CutOffIsRejected` |
| swarm | a peer the manager knows and one it does not, every channel of capacity 1, 2 messages each; 7e5 states | `EventsKeepOrder`, `StrangersAreNotAsked`, `TasksTypeOK` and, with fairness, `EventsAreReceived`, `TasksEnd` |
| trackers | a UDP tracker, an HTTP tracker, both in either order; 2 attempts of 2 units of time per request, expiry after 4, 7 UDP and 3 HTTP requests; 1e6 states | `AnswersInOrder`, `IntervalIsKept`, `HTTPIntervalIsKept`, `PollCollects`, the types and, with fairness, `CallsReturn`, `PollsReturn` |

Six runs show where the code does something other than it says.

* manager_closed: with the event channel closed, `run` does not return as its doc says; it
  turns for ever without waiting (`EndsWhenClosed`).
* disk_multi: `write_multi_file_piece` computes the offset in the file and then seeks to the
  offset in the torrent (`OkMeansOnDisk`).
* connection_framing: `read_message` consumes the length prefix, `deserialize` expects it: a
  well-formed unchoke ends the connection (`WellFormedIsUnderstood`).
* connection_buffer: the shared buffer is not cleared before a command, so a second write
  repeats the first (`WritesAreFrames`). After an interrupted read it also holds memory that
  `set_len` exposed.
* connection_sync: a command that interrupts a read loses the bytes read so far; the next
  read takes its prefix from the middle of a message (`ReadsStartAtFrames`).
* tracker_ids: an announce begins with an expired connection id (`IdIsFresh`). `connection_time` is
  documented as the time the id was obtained, but set when `new` has had its first announce
  answered; `refresh_connection`, documented to update it, does not.

Because of connection_framing, most messages never get past the parser as the code stands.
The connection run therefore uses the frames that do, Have(0) and Have(1), whose bodies the
parser takes for a choke and an unchoke: the events, channels and commands behind the parser
are exercised as the code would.

In the swarm run the circle of full channels does close: `EventsAreReceived` says that the
download manager gets every event in the end unless it is done or `HeldUp`, and `HeldUp` names
exactly the states in which it waits for a connection that cannot make room, because it
is still in its handshake, its peer does not read, or it waits through its forwarder for the manager
itself. `TasksEnd` says that dropping both managers ends every connection and forwarder
that no peer holds in a handshake or a write. `StrangersAreNotAsked` is why the program
downloads nothing as `main` stands: it passes no peer to `DownloadManager::add_peer`, so
every event it handles comes from a stranger.

How old an expired id can be at most is the theorem `IdAgesAreBounded`: while an announce is under
way, its id is younger than the expiry and all attempts of two requests together. One of the two is
the announce of `new`, during which the age is not counted yet, the other the one under way. After
the first expiry an id is refreshed before every announce, since the time stays what it was: from
then on refreshes are too frequent and not too rare.

Some behaviours no text of the repository contradicts are part of the
model and worth knowing. A write that fails is not repeated; the piece stays complete and the
loop can end without it on disk. That is the only way a gap is left: `GapsAreFailedWrites` says that
when the loop has ended, and it was given a disk, every piece that is not there had its own last write
fail. A late payload for a written piece is stored and the
piece verified again: if it was right the piece is written and announced a second time, if it
was wrong memory forgets the piece and downloads it again; the disk keeps its bytes either way
(`DiskIsStable`). One unchoke leads to one request, and a received block to none. A
torrent that ends inside a piece is never complete (`TruncatedTorrentNeverCompletes`). The
peers a tracker returned to `new` are not in the pool if its first poll fails.

Where comments and code differ without a property to show it: `PeerManager` keeps the sender
of a peer whose connection has failed or ended (`peer_manager.rs`:113-115, 195-196);
`get_next_block_for_piece` returns a block already requested when none is missing
(`piece_manager.rs`:115 promises None); `build_url` loses a query the announce URL already has
(`tracker_http.rs`:214-232).

### Bounds

Two peers are the fewest for which requests, broadcasts and dead connections differ between
peers; two pieces the fewest for which one is persisted while another fails or is missing; two
blocks, one of them short, the fewest for which a piece is partly there and lengths differ.
Channels of capacity one are full after one command, so that waiting happens at once. No
counter of the manager's model is bounded: its state space is finite. In DiskIO pieces have
two bytes and torrents four or five, with several pieces in the first file, a piece that spans files,
several files in one piece and empty files everywhere. PeerConnection bounds the messages sent (`MaxSent`) and
commands issued (`MaxIssued`): two give every order of two messages and of two
different commands, a command in the middle of either message, and a full event channel. `MaxLength` cuts the length of a body to something
longer than all the peer may send: such a read never completes anyway. Swarm bounds
the messages of each peer (`MaxMessages`): with capacities of one, two messages of each
of two peers fill the circle of channels (an event in the shared channel, one in a forwarder's
hand, one in the connection's channel and a command nobody takes), and a peer the manager
knows beside one it does not shows both kinds of forwarding. In a queue of one place nothing can
change places, so what the run checks of `EventsKeepOrder` is the order across the two channels and the
forwarder's hand; the theorem `EventOrder` has every capacity. The trackers bound the requests
(`MaxTid`, `MaxRequests`; a poll starts only if every call in it can use all its attempts)
and the ages (`MaxAge`, beyond every interval; ages of ids as far as they are compared). Two
attempts per request let the second be met by the late answer to the first; with a timeout of two
units an answer may come at once, after a while and with the timer, and two attempts last as long as
the expiry and longer than every interval. A UDP tracker alone is polled more than once,
so that it can connect and announce anew after the constructor did; in a list of two each is
polled at least once. Runs in which the system may stop do not check for
deadlock: a connection without messages, commands or errors left within the bounds, or ended; a
swarm whose connections have ended; trackers that could not be made.

### Fairness

`FairSpec` of the manager has weak fairness of `Proceed`: the steps the task takes by itself.
tokio polls a task that can run, and a blocking write returns. Nothing is assumed of peers
and connections: they may stay silent, and take no command for ever. That is why the liveness
properties speak of states in which no connection is left: a send to a live connection that
does not read its channel does block the manager.

`FairSwarmSpec` has weak fairness of the owner (`main` goes on to its end), of the manager,
and of each connection's and each forwarder's steps that need nobody else: taking a command,
reporting an event, noticing a closed channel, passing an event on. `select!` polls its branches in
random order, so neither starves the other. Connecting, writing to the socket and receiving
messages have none.

TrackerUDP has weak fairness of `Working`: while a task waits for an answer time passes, until
it gets one or its timer fires. The network may lose everything. TrackerManager has weak fairness of `Polling`,
the same with the steps from one call to the next; an HTTP tracker need never answer, and
`PollsReturn` names that as the one way a poll can hang.

## What is proved

TLAPS proves for every set of peers, number and length of pieces, block size and capacity,
from `PieceAssumption` and `ManagerAssumption` (lengths are positive naturals, peers are
finitely many, bitfields are bitfields):

* `TypeCorrect`, `PiecesAreConsistent`, `WrittenPiecesArePersisted`,
  `AnnouncedPiecesArePersisted`, `RequestsAreMarked`, `GapsHaveFailed`: the invariants of
  the two passing manager runs;
* `DiskStability`: the action property `DiskIsStable`;
* `Refinement`: `Spec => ImplementsStore`, the manager implements TorrentStore;
* `DiskUse`: `Spec => UsesPieceDisk`, it takes no more for granted of the disk than PieceDisk
  promises.

They rest on `Invariance`: `IInv` is the conjunction of the first five and of facts that
none of them implies. `WritingIsVerified`: while `write_piece` is under way its piece is
complete; without it a successful write could put unverified bytes on disk. `IdleOutbox`:
outside phase "sending" no send is pending; without it a handler could start with requests of
an earlier one that its changes invalidate. `CompleteIsAccounted`, `DoneIsComplete` and
`SetupIsFresh` are for `GapsHaveFailed`. The proof has one lemma per action; steps that leave
pieces, disk or queues alone share frame lemmas (`FrameStep`, `EmptyStep`, `QuietStep`,
`DeliverStep`). `NoLimbo` is where the piece operators matter: the first lemmas show that
`ReceiveBlock`, `RequestFromPeer` and `MarkWritten` keep a piece `Consistent`, and so would
`reset_timeout_requests`, which has no caller yet (`ResetIsHarmless`).
`GapsHaveFailed` needs more than the end of the loop: that whenever a disk is set, a piece which is
complete but not marked written is being written or had its write fail (`CompleteIsAccounted`),
through every rewrite after a late duplicate. By `TruncatedTorrentNeverCompletes` a torrent with `Whole` false of a piece never ends the
loop at all.

For Swarm, from `SwarmAssumption` in addition (capacities are positive): every step of the
composition is a step or a stutter of DownloadManager (`ManagerInSwarm`), so its invariant holds
there too (`ManagerInvariantInSwarm`), and so do its refinements (`StoreInSwarm`, `DiskUseInSwarm`). `TasksType`: no channel exceeds its capacity.
`StrangersStayUnasked` needs that strangers are not in the manager's map and that whatever it has
queued or requested is for peers in the map; `UnwiredManagerIsMute` is its case for `main`.
`EventOrder` follows the numbers of the events through the three places where
they can be: at every moment channel, hand and queue hold an unbroken run of them.

For the trackers, from `TrackerAssumption` and `ListsAssumption`: `UDPTypes`, `IdAgesAreBounded`,
`AnswersReplaceInOrder` and `IntervalsAreKept` rest on an invariant that ties the ages the
code computes to those that really passed and to what the attempts made so far, and the wait for the
current one, may have taken; an answer on
its way is never newer than the last request. `UDPInManager` embeds the UDP tracker in
the list, so the same holds there (`UDPInListIsSound`); `TrackersTypes`, `PollsCollect` and
`HTTPIntervalsAreKept` need where the loop stands: the trackers before `at` have been asked,
those from `at` on are idle, and the one at `at` alone may be waiting.

For DiskIO: `DiskTypeCorrect`, `WrittenIsOnDisk`, `ReadsReturnThePiece`, `WritesSpoilNothing` and
`DiskRefinement` (`Spec => ImplementsPieceDisk`), for any number of callers, any piece length and
any torrents, with any number of files of any lengths, empty ones included. `SafeLayouts` is what is
assumed of the instance: its writes are such that `SeeksRight`, and every torrent, plus two pieces, is
within the word size. So the theorems are about every write to a single file, and about the writes of a
multi-file torrent that stay in the first file or put the first piece over several, chunk by chunk with other
calls and failures between. Both halves are needed: for every other multi-file write the seek of
`write_multi_file_piece` is wrong and `OkMeansOnDisk` and PieceDisk with it (run disk_multi), and beyond
the word size offsets wrap. Reads are covered for every piece of every torrent. The argument is in three layers. The layout: `Starts` is a recursive
function, which the proofs show to exist by induction over the files, so that the files cover the torrent
without gaps (`Torrent`), the search for an offset's file finds the one that holds it
(`FileAtFinds`), and the offsets of a piece are those its division by the piece length says (`PieceData`). The
contents: every byte of every file is right or still missing (`DiskOK`); a transfer changes bytes of
its own piece only, to right ones (`Gains`, `OnlyPiece`). The calls: a read stands at the position
that follows the bytes in its buffer, `Before[file] + at = piece * PieceLength + Len(buf)`, and has exactly
the rest of its piece left; `ChunkFits` derives that no part goes beyond the end of its file, and that
bytes are left over only at the end of a file that is not the last. A write in several chunks has
everything before its place right on disk (`RightUpTo`): its seek lands where its data belong (`SeekIsAt`,
`TransferGains`), it goes on at the beginning of the next file (`NextFileWrites`), and for PieceDisk its
last part is what makes the piece durable. No call claims more than
the disk holds (`CallsInv`), which `Gains` preserves.

For Message, for every message of `WireMessage` (its fields any natural numbers, its payloads any
sequences of numbers of any length): `ParserInverts` and `CutOffRejected`, what
the connection run checks for 38 messages, for any set of messages (`CodecAssumption`). MessageProofs shows first that
the bytes of a number are read back as that number, then kind by kind that
`Deserialize(Serialize(m))` is `m` (`RoundTrip`), and that with any proper prefix of the frame
it is no message, whichever check of the parser finds out (`CutOff`). The model does not cut the
top byte of a number to eight bits, so the theorems speak of the code for numbers that fit
their fields (32 bits, 16 for a port), as the types of the source ensure, and for payloads whose
length fits the prefix.

For PeerConnection, from `ConnectionAssumption` (messages and commands consist of numbers,
capacities are positive, the own bitfield is a bitfield and no command is one): `ConnectionTypes`,
`ChokesAreReported` and `CommandsInOrder`. The invariant gives every variable its type (the
bytes of the buffer are those of messages, so that what a command appends keeps it
a buffer) and says, while `handle_message` is under way, which event is still missing if
`peer_choking` and what the manager was told differ. `CommandsKeepOrder` is inductive with it; what
it needs is how `Without` changes when a sequence gains its last or loses its first element. These
lemmas are inductions over the prefixes of a sequence. The library's induction
theorems take operators, so DataLemmas derives a principle about sets of numbers
(`Induction`) from the well-foundedness of `<`.

Only model-checked: the liveness properties `DeadPeersDoNotBlock`, `CompletionIsNoticed`,
`EventsAreReceived`, `TasksEnd`, `CallsReturn` and `PollsReturn`, which are out of the prover's
reach. Every invariant and action property that a passing run checks is proved. The six properties
of the runs that end in a violation are false.

## Not modelled

* Torrent and bencode decoding: one dictionary, decoded by a library, without state,
  concurrency or retries. What follows from its lengths (pieces, blocks, files) is part of Piece
  and DiskIO.
* The bytes of the handshake and the peer id: one exchange with no retry. Swarm has its outcomes,
  failing or waiting for ever.
* Statistics: fields nobody updates.
* Transfer rates in `PeerState`: the event that carries one is modelled; the manager ignores it, and
  nothing else reads the number.
* `Block::mask_written`, `PeerManager::send_to_peer` and `get_peer_sender`: no caller.
  `reset_timeout_requests` has none either but is in Piece.
* Printing, the format of announce URLs and of peer lists.

## What is left

1. PeerConnection in Swarm, byte for byte: today the composition takes whole messages, which is what a
   connection would give it if the framing defects above were repaired.
2. DiskIO called from Swarm: both sides of the call are shown to meet PieceDisk (`DiskRefinement`,
   `DiskUseInSwarm`); a module with the files and the manager's blocks in one state is not written.
3. DiskIO's properties beyond the word size, once the repository says what it supports.
4. An abstract connection task, which PeerConnection implements and Swarm uses, as PieceDisk stands
   between DiskIO and the manager.
