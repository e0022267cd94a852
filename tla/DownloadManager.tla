--------------------------- MODULE DownloadManager ---------------------------
(***************************************************************************)
(* core/peer/download_manager.rs: the event loop that turns what the peers *)
(* send into requests, verified pieces, disk writes and Have broadcasts.   *)
(*                                                                         *)
(* The loop is one task.  It is suspended at three kinds of await, which   *)
(* split a handler into steps: waiting for an event (phase "recv"), writing *)
(* a piece ("writing"), and sending commands one after the other into the  *)
(* bounded channels of the connections ("sending").  While it is suspended *)
(* connections take commands or end, and the process may crash.            *)
(***************************************************************************)
EXTENDS Piece, Sequences, SequencesExt

CONSTANTS
    Bitfields,     \* the bitfield payloads peers send, a set of [len, has]
    ByteBits,      \* bits in a byte of a bitfield (8 in the code)
    CmdCap,        \* capacity of a connection's command channel (100)
    NoBitfield,    \* registered, no bitfield received yet: the code's None
    Unregistered   \* not in the map `peers`

ASSUME ManagerAssumption ==
    /\ IsFiniteSet(Peer)
    /\ ByteBits \in Nat \ {0}
    /\ CmdCap \in Nat \ {0}
    /\ Bitfields \subseteq [len : Nat, has : SUBSET Nat]
    /\ NoBitfield \notin [len : Nat, has : SUBSET Nat]
    /\ Unregistered \notin [len : Nat, has : SUBSET Nat]
    /\ NoBitfield # Unregistered

VARIABLES
    phase,      \* "setup", "recv", "writing", "sending" or "done"
    diskSet,    \* disk_io is Some
    peers,      \* the map `peers`: each peer's bitfield
    pieces,     \* the piece table
    writing,    \* the piece write_piece is busy with (phase "writing")
    outbox,     \* sends the current handler still has to await
    cmds,       \* the command channel of each connection
    live,       \* the connections whose receiver still exists
    chanOpen,   \* some sender of the event channel still exists
    persisted,  \* pieces whose region of the file holds the torrent's bytes
    failed      \* history: pieces whose last write returned an error

vars == <<phase, diskSet, peers, pieces, writing, outbox, cmds, live, chanOpen,
          persisted, failed>>

-----------------------------------------------------------------------------
Bitfield == [len : Nat, has : SUBSET Nat]

Interested == [kind |-> "Interested"]
RequestBlock(p, o) == [kind |-> "RequestBlock", piece |-> p, begin |-> o]
HavePiece(p) == [kind |-> "HavePiece", piece |-> p]

Cmd == {Interested}
       \cup {RequestBlock(p, o) : p \in Piece, o \in Offsets}
       \cup {HavePiece(p) : p \in Piece}

Send(ip, c) == [to |-> ip, cmd |-> c]

Registered == {ip \in Peer : peers[ip] # Unregistered}

\* Mutant: a peer whose bitfield is not known is taken to have everything.
AvailableUnlessKnown(bf) == IF bf \in Bitfield THEN bf.has ELSE Piece

Available(bf) == IF bf \in Bitfield THEN bf.has ELSE {}

\* Indices and offsets a peer may name: the valid ones and one beyond them.
AnyPiece == 0 .. NumPieces
AnyBegin == Offsets \cup {PieceLength}

-----------------------------------------------------------------------------
(* Construction.  run() borrows the manager mutably, so its owner registers  *)
(* peers and the disk before it starts.                                     *)

Init ==
    /\ phase = "setup"
    /\ diskSet = FALSE
    /\ peers = [ip \in Peer |-> Unregistered]
    /\ pieces = NewPieces
    /\ writing = 0
    /\ outbox = <<>>
    /\ cmds = [ip \in Peer |-> <<>>]
    /\ live = Peer
    /\ chanOpen = TRUE
    /\ persisted = {}
    /\ failed = {}

SetDiskIO ==
    /\ phase = "setup"
    /\ diskSet' = TRUE
    /\ UNCHANGED <<phase, peers, pieces, writing, outbox, cmds, live, chanOpen, persisted, failed>>

AddPeer(ip) ==
    /\ phase = "setup"
    /\ peers' = [peers EXCEPT ![ip] = NoBitfield]
    /\ UNCHANGED <<phase, diskSet, pieces, writing, outbox, cmds, live, chanOpen, persisted, failed>>

RemovePeer(ip) ==
    /\ phase = "setup"
    /\ peers' = [peers EXCEPT ![ip] = Unregistered]
    /\ UNCHANGED <<phase, diskSet, pieces, writing, outbox, cmds, live, chanOpen, persisted, failed>>

StartRun ==
    /\ phase = "setup"
    /\ phase' = "recv"
    /\ UNCHANGED <<diskSet, peers, pieces, writing, outbox, cmds, live, chanOpen, persisted, failed>>

-----------------------------------------------------------------------------
(* Event handlers, each started by recv() returning an event.               *)

Receiving == phase = "recv" /\ chanOpen

\* The handler's part before its first send; what is left is in sends.
Handled(sends) ==
    /\ phase' = "sending"
    /\ outbox' = sends

HandleBitfield(ip, bf) ==
    /\ Receiving
    /\ IF ip \in Registered
       THEN /\ peers' = [peers EXCEPT ![ip] = bf]
            /\ Handled(IF NextPiece(pieces, bf.has) = {} THEN <<>>
                       ELSE <<Send(ip, Interested)>>)
       ELSE /\ Handled(<<>>)
            /\ UNCHANGED peers
    /\ UNCHANGED <<diskSet, pieces, writing, cmds, live, chanOpen, persisted, failed>>

\* The bit is set only in a bitfield already received and long enough; no
\* command follows.
HandleHave(ip, p) ==
    /\ Receiving
    /\ IF /\ peers[ip] \in Bitfield
          /\ p < ByteBits * peers[ip].len
       THEN peers' = [peers EXCEPT ![ip].has = @ \cup {p}]
       ELSE UNCHANGED peers
    /\ Handled(<<>>)
    /\ UNCHANGED <<diskSet, pieces, writing, cmds, live, chanOpen, persisted, failed>>

\* One request per unchoke, for any block not received yet: the block map is
\* iterated in hash order and blocks already requested are not skipped.
HandleUnchoke(ip) ==
    /\ Receiving
    /\ LET useful == {p \in NextPiece(pieces, Available(peers[ip])) :
                         MissingBlocks(pieces[p]) # {}}
       IN  IF useful = {}
           THEN Handled(<<>>) /\ UNCHANGED pieces
           ELSE \E p \in useful : \E o \in MissingBlocks(pieces[p]) :
                   /\ pieces' = [pieces EXCEPT ![p] = RequestFromPeer(@, o, ip)]
                   /\ Handled(<<Send(ip, RequestBlock(p, o))>>)
    /\ UNCHANGED <<diskSet, peers, writing, cmds, live, chanOpen, persisted, failed>>

\* The part of handle_recieve_piece before write_piece: nothing ties the block
\* to a request, a peer or the piece's state.
HandleReceivePiece(p, o, d) ==
    /\ Receiving
    /\ IF p \in Piece
       THEN pieces' = [pieces EXCEPT ![p] = ReceiveBlock(p, @, o, d)]
       ELSE UNCHANGED pieces
    /\ IF p \in Piece /\ diskSet /\ HasPieceData(pieces'[p])
       THEN /\ phase' = "writing"
            /\ writing' = p
            /\ UNCHANGED outbox
       ELSE /\ Handled(<<>>)
            /\ UNCHANGED writing
    /\ UNCHANGED <<diskSet, peers, cmds, live, chanOpen, persisted, failed>>

PeerDisconnected(ip) ==
    /\ Receiving
    /\ peers' = [peers EXCEPT ![ip] = Unregistered]
    /\ Handled(<<>>)
    /\ UNCHANGED <<diskSet, pieces, writing, cmds, live, chanOpen, persisted, failed>>

\* Chokes, interest, keep-alives and requests of the peer.
OtherEvent ==
    /\ Receiving
    /\ Handled(<<>>)
    /\ UNCHANGED <<diskSet, peers, pieces, writing, cmds, live, chanOpen, persisted, failed>>

\* recv() returns None at once, as often as it is called.
RecvNone ==
    /\ phase = "recv"
    /\ ~chanOpen
    /\ Handled(<<>>)
    /\ UNCHANGED <<diskSet, peers, pieces, writing, cmds, live, chanOpen, persisted, failed>>

-----------------------------------------------------------------------------
(* The awaits inside a handler. *)

\* What the disk holds at the place of p once a write of the piece's buffer has
\* run to its end.
Stored(p) == IF HashMatches(p, pieces[p]) THEN persisted \cup {p} ELSE persisted \ {p}

\* Every peer in the map, in hash order.
BroadcastHave(p) ==
    {[i \in DOMAIN order |-> Send(order[i], HavePiece(p))] : order \in SetToSeqs(Registered)}

WriteOk ==
    /\ phase = "writing"
    /\ persisted' = Stored(writing)
    /\ failed' = failed \ {writing}
    /\ pieces' = [pieces EXCEPT ![writing] = MarkWritten(@)]
    /\ \E sends \in BroadcastHave(writing) : Handled(sends)
    /\ UNCHANGED <<diskSet, peers, writing, cmds, live, chanOpen>>

\* The bytes are all in place before the outcome is known; a flush that fails
\* or a crash may still follow.
WriteLands ==
    /\ phase = "writing"
    /\ persisted' = Stored(writing)
    /\ UNCHANGED <<phase, diskSet, peers, pieces, writing, outbox, cmds, live, chanOpen, failed>>

\* Mutant: the piece is marked although the write failed.
WriteErrMarks ==
    /\ phase = "writing"
    /\ failed' = failed \cup {writing}
    /\ pieces' = [pieces EXCEPT ![writing] = MarkWritten(@)]
    /\ Handled(<<>>)
    /\ UNCHANGED <<diskSet, peers, writing, cmds, live, chanOpen, persisted>>

\* Mutant: the piece is announced although the write failed.
WriteErrAnnounces ==
    /\ phase = "writing"
    /\ failed' = failed \cup {writing}
    /\ \E sends \in BroadcastHave(writing) : Handled(sends)
    /\ UNCHANGED <<diskSet, peers, pieces, writing, cmds, live, chanOpen, persisted>>

\* The error is dropped and the piece stays Complete.
WriteErr ==
    /\ phase = "writing"
    /\ failed' = failed \cup {writing}
    /\ Handled(<<>>)
    /\ UNCHANGED <<diskSet, peers, pieces, writing, cmds, live, chanOpen, persisted>>

\* Mutant: the command is queued without waiting for room.
SendCommandNoWait ==
    /\ phase = "sending"
    /\ outbox # <<>>
    /\ LET s == Head(outbox)
       IN  cmds' = IF s.to \in live THEN [cmds EXCEPT ![s.to] = Append(@, s.cmd)] ELSE cmds
    /\ outbox' = Tail(outbox)
    /\ UNCHANGED <<phase, diskSet, peers, pieces, writing, live, chanOpen, persisted, failed>>

\* Mutant: a send to a dropped receiver waits too.
SendCommandHangs ==
    /\ phase = "sending"
    /\ outbox # <<>>
    /\ LET s == Head(outbox)
       IN  /\ s.to \in live
           /\ Len(cmds[s.to]) < CmdCap
           /\ cmds' = [cmds EXCEPT ![s.to] = Append(@, s.cmd)]
    /\ outbox' = Tail(outbox)
    /\ UNCHANGED <<phase, diskSet, peers, pieces, writing, live, chanOpen, persisted, failed>>

\* send().await: waits for room, and fails at once (the error is ignored) when
\* the connection has dropped its receiver.
SendCommand ==
    /\ phase = "sending"
    /\ outbox # <<>>
    /\ LET s == Head(outbox)
       IN  IF s.to \in live
           THEN /\ Len(cmds[s.to]) < CmdCap
                /\ cmds' = [cmds EXCEPT ![s.to] = Append(@, s.cmd)]
           ELSE UNCHANGED cmds
    /\ outbox' = Tail(outbox)
    /\ UNCHANGED <<phase, diskSet, peers, pieces, writing, live, chanOpen, persisted, failed>>

\* Mutant: the loop waits for every piece to be written.
FinishEventWritten ==
    /\ phase = "sending"
    /\ outbox = <<>>
    /\ phase' = IF \A p \in Piece : pieces[p].state = "Written" THEN "done" ELSE "recv"
    /\ UNCHANGED <<diskSet, peers, pieces, writing, outbox, cmds, live, chanOpen, persisted, failed>>

\* The check after every turn of the loop.
FinishEvent ==
    /\ phase = "sending"
    /\ outbox = <<>>
    /\ phase' = IF IsDownloadComplete(pieces) THEN "done" ELSE "recv"
    /\ UNCHANGED <<diskSet, peers, pieces, writing, outbox, cmds, live, chanOpen, persisted, failed>>

-----------------------------------------------------------------------------
(* The surroundings: connection tasks, the owner of the senders, crashes.   *)

TakeCommand(ip) ==
    /\ ip \in live
    /\ cmds[ip] # <<>>
    /\ cmds' = [cmds EXCEPT ![ip] = Tail(@)]
    /\ UNCHANGED <<phase, diskSet, peers, pieces, writing, outbox, live, chanOpen, persisted, failed>>

\* run() of a connection returns; nobody sends PeerDisconnected for it, so the
\* manager keeps the peer.
ConnectionEnds(ip) ==
    /\ ip \in live
    /\ live' = live \ {ip}
    /\ cmds' = [cmds EXCEPT ![ip] = <<>>]
    /\ UNCHANGED <<phase, diskSet, peers, pieces, writing, outbox, chanOpen, persisted, failed>>

\* The last sender of the event channel is dropped and its queue is empty.
CloseChannel ==
    /\ chanOpen
    /\ chanOpen' = FALSE
    /\ UNCHANGED <<phase, diskSet, peers, pieces, writing, outbox, cmds, live, persisted, failed>>

\* A crash at any await, also in a write, and a new start: the file is opened
\* without truncation, everything in memory starts over.
Restart ==
    /\ phase' = "setup"
    /\ diskSet' = FALSE
    /\ peers' = [ip \in Peer |-> Unregistered]
    /\ pieces' = NewPieces
    /\ writing' = 0
    /\ outbox' = <<>>
    /\ cmds' = [ip \in Peer |-> <<>>]
    /\ live' = Peer
    /\ chanOpen' = TRUE
    /\ failed' = {}
    /\ UNCHANGED persisted

-----------------------------------------------------------------------------
Setup ==
    \/ SetDiskIO
    \/ \E ip \in Peer : AddPeer(ip) \/ RemovePeer(ip)
    \/ StartRun

HandleEvent ==
    \/ \E ip \in Peer, bf \in Bitfields : HandleBitfield(ip, bf)
    \/ \E ip \in Peer, p \in AnyPiece : HandleHave(ip, p)
    \/ \E ip \in Peer : HandleUnchoke(ip)
    \/ \E p \in AnyPiece, o \in AnyBegin, d \in Payload : HandleReceivePiece(p, o, d)
    \/ \E ip \in Peer : PeerDisconnected(ip)
    \/ OtherEvent

\* The steps the manager's task takes by itself, once it is scheduled.
Proceed == RecvNone \/ WriteOk \/ WriteErr \/ SendCommand \/ FinishEvent

Surroundings ==
    \/ \E ip \in Peer : TakeCommand(ip) \/ ConnectionEnds(ip)
    \/ CloseChannel
    \/ WriteLands
    \/ Restart

Next == Setup \/ HandleEvent \/ Proceed \/ Surroundings

Spec == Init /\ [][Next]_vars

\* A task that can run is polled, and a write returns.
FairSpec == Spec /\ WF_vars(Proceed)

-----------------------------------------------------------------------------
(* Properties. *)

\* The variables stay in their types; a command channel never holds more than
\* its capacity.
TypeOK ==
    /\ phase \in {"setup", "recv", "writing", "sending", "done"}
    /\ diskSet \in BOOLEAN
    /\ peers \in [Peer -> Bitfield \cup {NoBitfield, Unregistered}]
    /\ pieces \in [Piece -> PieceRecord]
    /\ writing \in Nat
    /\ outbox \in Seq([to : Peer, cmd : Cmd])
    /\ cmds \in [Peer -> Seq(Cmd)]
    /\ \A ip \in Peer : Len(cmds[ip]) <= CmdCap
    /\ live \in SUBSET Peer
    /\ chanOpen \in BOOLEAN
    /\ persisted \in SUBSET Piece
    /\ failed \in SUBSET Piece

\* A piece counts as complete exactly when all its blocks are there, and then
\* its content is right.  So bad or late payloads never leave a complete piece
\* with other bytes, and no order of payloads (a duplicate, a bad one in the
\* middle, one that arrives after the write) leaves a piece that is not
\* complete and has no block left to request, which would stop the download.
NoLimbo == \A p \in Piece : Consistent(p, pieces[p])

\* A piece marked Written has its bytes on disk, whatever arrived for it since.
WrittenIsPersisted ==
    \A p \in Piece : pieces[p].state = "Written" => p \in persisted

\* The commands on their way to a connection.
InTransit ==
    {outbox[i].cmd : i \in DOMAIN outbox}
    \cup UNION {{cmds[ip][i] : i \in DOMAIN cmds[ip]} : ip \in Peer}

\* Peers are told of a piece only once its bytes are on disk, and they are
\* still there when the Have leaves, even if memory has lost the piece again.
HaveIsPersisted ==
    \A p \in Piece : HavePiece(p) \in InTransit => p \in persisted

\* While a request waits for room in a channel, its block is marked as
\* requested from that very peer, which announced the piece.
RequestIsMarked ==
    \A i \in DOMAIN outbox : \A p \in Piece : \A o \in Offsets :
        outbox[i].cmd = RequestBlock(p, o) =>
            /\ pieces[p].blocks[o] = Requested(outbox[i].to)
            /\ p \in Available(peers[outbox[i].to])

\* The loop counts the pieces in memory, and a failed write is reported to nobody.
\* So it may end with gaps on disk, but each of them is a piece whose own write
\* failed, the last time it was tried: with a disk set no verified piece is passed
\* over, whatever payloads, crashes and failures came before.
GapsAreFailedWrites ==
    phase = "done" /\ diskSet => \A p \in Piece : p \in persisted \/ p \in failed

\* What is right on disk stays so: neither a rewrite of a piece that came a
\* second time, nor a write that fails or is cut off by a crash, nor a restart
\* with an empty piece table damages it.
DiskIsStable == [][persisted \subseteq persisted']_persisted

\* Dead connections cannot hold up the manager: if no connection is left, it
\* gets through whatever it is doing, sends and writes included.
DeadPeersDoNotBlock ==
    live = {} ~> phase \in {"setup", "recv", "done"}

\* When the last piece has become complete and no connection is left to block
\* the sends, the loop notices and ends.
CompletionIsNoticed ==
    (live = {} /\ phase \notin {"setup", "recv"} /\ IsDownloadComplete(pieces))
        ~> phase \in {"setup", "done"}

\* The doc comment of run(): it runs until the download completes "or the peer
\* event channel is closed".
EndsWhenClosed == (phase = "recv" /\ ~chanOpen) ~> phase \in {"setup", "done"}

-----------------------------------------------------------------------------
(* The manager implements TorrentStore. *)

Status ==
    [p \in Piece |->
        IF pieces[p].state = "Written" THEN "persisted"
        ELSE IF pieces[p].state = "Complete" THEN "verified" ELSE "wanted"]

Store == INSTANCE TorrentStore
             WITH Pieces    <- Piece,
                  status    <- Status,
                  durable   <- persisted,
                  announced <- {p \in Piece : HavePiece(p) \in InTransit},
                  finished  <- phase = "done"

\* Each step of the manager is a step of the abstract store or changes nothing
\* in it.
ImplementsStore == Store!StoreSpec

-----------------------------------------------------------------------------
(* The manager is one caller of a PieceDisk. *)

Disk == INSTANCE PieceDisk
            WITH Caller  <- {"manager"},
                 Pieces  <- Piece,
                 durable <- persisted,
                 call    <- [c \in {"manager"} |->
                               IF phase = "writing"
                               THEN [kind |-> "write", piece |-> writing]
                               ELSE [kind |-> "idle"]]

\* What the manager takes for granted of the disk is what DiskIO implements: it
\* has one write at a time under way, of a piece it has verified, and what it
\* counts as persisted changes by these writes alone.
UsesPieceDisk == Disk!DiskSpec
=============================================================================
