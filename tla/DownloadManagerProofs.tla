----------------------- MODULE DownloadManagerProofs ------------------------
(***************************************************************************)
(* Theorems about DownloadManager for every number of peers and pieces,    *)
(* every layout and every channel capacity, and the lemmas about the       *)
(* operators of Piece they rest on.                                        *)
(***************************************************************************)
EXTENDS DownloadManager, FiniteSetTheorems, SequenceTheorems, TLAPS

-----------------------------------------------------------------------------
(* The operators of Piece, for every size of the torrent. *)

\* Piece::new creates at least the block at offset 0.
LEMMA OffsetZero == 0 \in Offsets
<1>1. 0 % BlockSize = 0
  BY PieceAssumption
<1> QED
  BY <1>1, PieceAssumption DEF Offsets

\* The three kinds of block, and that they are different values.
LEMMA BlockKinds ==
    /\ Missing \in Block
    /\ \A ip \in Peer : Requested(ip) \in Block
    /\ \A d \in Content : Received(d) \in Block
    /\ ~BlockIsComplete(Missing)
    /\ \A ip : ~BlockIsComplete(Requested(ip))
    /\ \A d \in Content : BlockIsComplete(Received(d))
BY DEF Block, BlockIsComplete, Missing, Requested, Received

\* Piece::new: no block is there and the state says so.
LEMMA NewPieceConsistent ==
    ASSUME NEW p
    PROVE  NewPiece \in PieceRecord /\ Consistent(p, NewPiece)
<1>1. NewPiece \in PieceRecord
  BY BlockKinds DEF NewPiece, PieceRecord, PieceStates
<1>2. 0 \in MissingBlocks(NewPiece)
  BY OffsetZero, BlockKinds DEF MissingBlocks, NewPiece
<1>3. ~IsComplete(NewPiece)
  BY DEF IsComplete, NewPiece
<1> QED
  BY <1>1, <1>2, <1>3 DEF Consistent, IsFullyDownloaded

\* Verify returns a well-typed piece, and a consistent one when all blocks are
\* there: either the content is right and the state Complete, or all is reset.
LEMMA VerifyConsistent ==
    ASSUME NEW p, NEW pc \in PieceRecord, IsFullyDownloaded(pc)
    PROVE  /\ Verify(p, pc) \in PieceRecord
           /\ Consistent(p, Verify(p, pc))
           /\ Verify(p, pc).state # "Written"
<1>1. CASE HashMatches(p, pc)
  <2> DEFINE vp == [pc EXCEPT !.state = "Complete"]
  <2>1. Verify(p, pc) = vp
    BY <1>1 DEF Verify
  <2>2. vp \in PieceRecord /\ vp.blocks = pc.blocks /\ vp.state = "Complete"
    BY DEF PieceRecord, PieceStates
  <2>3. IsFullyDownloaded(vp) /\ HashMatches(p, vp) /\ IsComplete(vp)
    BY <1>1, <2>2 DEF IsFullyDownloaded, MissingBlocks, HashMatches, IsComplete
  <2> QED
    BY <2>1, <2>2, <2>3 DEF Consistent
<1>2. CASE ~HashMatches(p, pc)
  <2>1. Verify(p, pc) = NewPiece
    BY <1>2 DEF Verify
  <2>2. NewPiece.state = "Missing"
    BY DEF NewPiece
  <2> QED
    BY <2>1, <2>2, NewPieceConsistent
<1> QED
  BY <1>1, <1>2

\* receive_block: whatever arrives, for whatever offset and in whatever state
\* of the piece, leaves a consistent piece, and never one newly Written.
LEMMA ReceiveBlockConsistent ==
    ASSUME NEW p, NEW pc \in PieceRecord, NEW o, NEW d \in Payload,
           Consistent(p, pc)
    PROVE  /\ ReceiveBlock(p, pc, o, d) \in PieceRecord
           /\ Consistent(p, ReceiveBlock(p, pc, o, d))
           /\ ReceiveBlock(p, pc, o, d).state = "Written" => pc.state = "Written"
<1>1. CASE o \notin Offsets
  BY <1>1 DEF ReceiveBlock
<1>2. CASE o \in Offsets
  <2> DEFINE stored == [pc EXCEPT !.blocks[o] = ReceiveData(@, d)]
  <2>1. pc.blocks \in [Offsets -> Block] /\ pc.state \in PieceStates
    BY DEF PieceRecord
  <2>2. ReceiveData(pc.blocks[o], d) \in Block
    BY <1>2, <2>1, BlockKinds DEF ReceiveData
  <2>3. /\ stored \in PieceRecord
        /\ stored.state = pc.state
        /\ stored.blocks = [pc.blocks EXCEPT ![o] = ReceiveData(@, d)]
    BY <1>2, <2>1, <2>2 DEF PieceRecord
  <2>4. ReceiveBlock(p, pc, o, d) =
           IF IsFullyDownloaded(stored) THEN Verify(p, stored) ELSE stored
    BY <1>2 DEF ReceiveBlock
  <2>5. CASE IsFullyDownloaded(stored)
    BY <2>3, <2>4, <2>5, VerifyConsistent
  <2>6. CASE ~IsFullyDownloaded(stored)
    \* A complete piece has all its blocks, and a payload removes none of them.
    <3>1. \A q \in Offsets : BlockIsComplete(pc.blocks[q])
                                => BlockIsComplete(stored.blocks[q])
      BY <1>2, <2>1, <2>3, BlockKinds DEF ReceiveData
    <3>2. ~IsFullyDownloaded(pc)
      BY <2>6, <3>1 DEF IsFullyDownloaded, MissingBlocks
    <3>3. ~IsComplete(pc)
      BY <3>2 DEF Consistent
    <3>4. ~IsComplete(stored)
      BY <2>3, <3>3 DEF IsComplete
    <3> QED
      BY <2>3, <2>4, <2>6, <3>4 DEF Consistent
  <2> QED
    BY <2>5, <2>6
<1> QED
  BY <1>1, <1>2

\* Marking a block that is still missing as requested leaves the piece
\* consistent and its state alone.
LEMMA RequestConsistent ==
    ASSUME NEW p, NEW pc \in PieceRecord, NEW ip \in Peer,
           NEW o \in MissingBlocks(pc), Consistent(p, pc)
    PROVE  /\ RequestFromPeer(pc, o, ip) \in PieceRecord
           /\ Consistent(p, RequestFromPeer(pc, o, ip))
           /\ RequestFromPeer(pc, o, ip).state = pc.state
           /\ RequestFromPeer(pc, o, ip).blocks[o] = Requested(ip)
<1> DEFINE rp == [pc EXCEPT !.blocks[o] = Requested(ip)]
<1>1. o \in Offsets
  BY DEF MissingBlocks
<1>2. RequestFromPeer(pc, o, ip) = rp
  BY <1>1 DEF RequestFromPeer
<1>3. pc.blocks \in [Offsets -> Block] /\ pc.state \in PieceStates
  BY DEF PieceRecord
<1>4. /\ rp \in PieceRecord
      /\ rp.state = pc.state
      /\ rp.blocks = [pc.blocks EXCEPT ![o] = Requested(ip)]
  BY <1>1, <1>3, BlockKinds DEF PieceRecord
<1>5. rp.blocks[o] = Requested(ip)
  BY <1>1, <1>3, <1>4
<1>6. ~IsFullyDownloaded(pc) /\ ~IsFullyDownloaded(rp)
  BY <1>1, <1>5, BlockKinds DEF IsFullyDownloaded, MissingBlocks
<1>7. ~IsComplete(rp)
  BY <1>4, <1>6 DEF Consistent, IsComplete
<1> QED
  BY <1>2, <1>4, <1>5, <1>6, <1>7 DEF Consistent

\* Piece::reset_timeout_requests, whichever requests have expired and whenever it
\* would be called: it takes no block that is there, leaves the piece's state in
\* agreement with the blocks, and leaves no expired request behind.
THEOREM ResetIsHarmless ==
    ASSUME NEW p, NEW pc \in PieceRecord, NEW expired \in SUBSET Offsets,
           Consistent(p, pc)
    PROVE  /\ ResetTimeoutRequests(pc, expired) \in PieceRecord
           /\ Consistent(p, ResetTimeoutRequests(pc, expired))
           /\ MissingBlocks(ResetTimeoutRequests(pc, expired)) = MissingBlocks(pc)
           /\ \A o \in expired, ip \in Peer :
                 ResetTimeoutRequests(pc, expired).blocks[o] # Requested(ip)
<1> DEFINE rp == ResetTimeoutRequests(pc, expired)
           blocks == [o \in Offsets |->
                        IF o \in expired /\ pc.blocks[o] \in {Requested(ip) : ip \in Peer}
                        THEN Missing ELSE pc.blocks[o]]
<1>1. pc.blocks \in [Offsets -> Block] /\ pc.state \in PieceStates
  BY DEF PieceRecord
<1>2. blocks \in [Offsets -> Block]
  BY <1>1, BlockKinds
<1>3. rp \in PieceRecord /\ rp.state = pc.state /\ rp.blocks = blocks
  BY <1>1, <1>2 DEF ResetTimeoutRequests, PieceRecord
<1>4. \A o \in Offsets : BlockIsComplete(blocks[o]) <=> BlockIsComplete(pc.blocks[o])
  BY BlockKinds
<1>5. MissingBlocks(rp) = MissingBlocks(pc)
  BY <1>3, <1>4 DEF MissingBlocks
<1>6. \A o \in Offsets, d \in Content : pc.blocks[o] = Received(d) => blocks[o] = Received(d)
  BY BlockKinds
<1>7. Consistent(p, rp)
  BY <1>3, <1>5, <1>6 DEF Consistent, IsComplete, IsFullyDownloaded, HashMatches, Content
<1>8. ASSUME NEW o \in expired, NEW ip \in Peer PROVE rp.blocks[o] # Requested(ip)
  <2>1. Missing # Requested(ip)
    BY DEF Missing, Requested
  <2>2. blocks[o] # Requested(ip)
    BY <2>1
  <2> QED
    BY <1>3, <2>2
<1> QED
  BY <1>3, <1>5, <1>7, <1>8

\* mark_piece_written on a Complete piece.
LEMMA MarkWrittenConsistent ==
    ASSUME NEW p, NEW pc \in PieceRecord, Consistent(p, pc), IsComplete(pc)
    PROVE  /\ MarkWritten(pc) \in PieceRecord
           /\ Consistent(p, MarkWritten(pc))
           /\ MarkWritten(pc).state = "Written"
           /\ MarkWritten(pc).blocks = pc.blocks
<1> DEFINE wp == [pc EXCEPT !.state = "Written"]
<1>1. wp \in PieceRecord /\ wp.state = "Written" /\ wp.blocks = pc.blocks
  BY DEF PieceRecord, PieceStates
<1>2. IsFullyDownloaded(wp) /\ HashMatches(p, wp) /\ IsComplete(wp)
  BY <1>1 DEF Consistent, IsFullyDownloaded, MissingBlocks, HashMatches, IsComplete
<1> QED
  BY <1>1, <1>2 DEF Consistent, MarkWritten

-----------------------------------------------------------------------------
(* The inductive invariant: the invariants of the runs and facts about where *)
(* the loop stands.                                                          *)

\* The piece handed to write_piece is verified until the write returns.
WritingIsVerified ==
    phase = "writing" => writing \in Piece /\ pieces[writing].state = "Complete"

\* Only a handler that is sending has sends left.
IdleOutbox == phase # "sending" => outbox = <<>>

\* The loop ends with every piece verified.
DoneIsComplete == phase = "done" => IsDownloadComplete(pieces)

\* With a disk set, a piece that stays Complete is one being written, or one whose
\* write has failed.
CompleteIsAccounted ==
    \A p \in Piece :
        pieces[p].state = "Complete" /\ diskSet =>
            p \in failed \/ (phase = "writing" /\ writing = p)

\* A manager that has not been started yet has no piece.
SetupIsFresh == phase = "setup" => \A p \in Piece : pieces[p].state = "Missing"

IInv ==
    /\ TypeOK
    /\ NoLimbo
    /\ WrittenIsPersisted
    /\ HaveIsPersisted
    /\ RequestIsMarked
    /\ DoneIsComplete
    /\ WritingIsVerified
    /\ IdleOutbox
    /\ CompleteIsAccounted
    /\ SetupIsFresh

-----------------------------------------------------------------------------
(* Commands and queues. *)

\* The kinds of ManagerCommand differ, and a command names its piece and block.
LEMMA CmdKinds ==
    /\ Interested \in Cmd
    /\ \A p \in Piece, o \in Offsets : RequestBlock(p, o) \in Cmd
    /\ \A p \in Piece : HavePiece(p) \in Cmd
    /\ \A p, q, o : HavePiece(p) # RequestBlock(q, o)
    /\ \A p : HavePiece(p) # Interested
    /\ \A p, o : RequestBlock(p, o) # Interested
    /\ \A p, q : HavePiece(p) = HavePiece(q) => p = q
    /\ \A p, q, o, r : RequestBlock(p, o) = RequestBlock(q, r) => p = q /\ o = r
<1>1. /\ Interested \in Cmd
      /\ \A p \in Piece, o \in Offsets : RequestBlock(p, o) \in Cmd
      /\ \A p \in Piece : HavePiece(p) \in Cmd
  BY DEF Cmd
<1>2. /\ \A p, q, o : HavePiece(p) # RequestBlock(q, o)
      /\ \A p : HavePiece(p) # Interested
      /\ \A p, o : RequestBlock(p, o) # Interested
  BY DEF HavePiece, RequestBlock, Interested
<1>3. \A p, q : HavePiece(p) = HavePiece(q) => p = q
  BY DEF HavePiece
<1>4. \A p, q, o, r : RequestBlock(p, o) = RequestBlock(q, r) => p = q /\ o = r
  BY DEF RequestBlock
<1> QED
  BY <1>1, <1>2, <1>3, <1>4

\* A command is on its way if it is in the outbox or in some channel.
LEMMA InTransitIff ==
    ASSUME NEW c
    PROVE  c \in InTransit <=>
              \/ \E i \in DOMAIN outbox : outbox[i].cmd = c
              \/ \E ip \in Peer : \E i \in DOMAIN cmds[ip] : cmds[ip][i] = c
BY DEF InTransit

\* broadcast_have sends one Have of the piece to peers of the map.
LEMMA BroadcastType ==
    ASSUME NEW p \in Piece, NEW sends \in BroadcastHave(p)
    PROVE  /\ sends \in Seq([to : Peer, cmd : Cmd])
           /\ \A i \in DOMAIN sends : sends[i].cmd = HavePiece(p)
<1>1. PICK order \in SetToSeqs(Registered) :
         sends = [i \in DOMAIN order |-> Send(order[i], HavePiece(p))]
  BY DEF BroadcastHave
<1>2. IsFiniteSet(Registered) /\ Registered \subseteq Peer
  BY ManagerAssumption, FS_Subset DEF Registered
<1>3. Cardinality(Registered) \in Nat
  BY <1>2, FS_CardinalityType
<1>4. order \in [1 .. Cardinality(Registered) -> Registered]
  BY <1>1 DEF SetToSeqs
<1>5. sends \in [1 .. Cardinality(Registered) -> [to : Peer, cmd : Cmd]]
  BY <1>1, <1>2, <1>4, CmdKinds DEF Send
<1>6. sends \in Seq([to : Peer, cmd : Cmd])
  <2> DEFINE T == [to : Peer, cmd : Cmd]
  <2>1. sends \in UNION {[1 .. n -> T] : n \in Nat}
    BY <1>3, <1>5
  <2>2. Seq(T) = UNION {[1 .. n -> T] : n \in Nat}
    BY SeqDef
  <2> QED
    BY <2>1, <2>2
<1>7. \A i \in DOMAIN sends : sends[i].cmd = HavePiece(p)
  BY <1>1 DEF Send
<1> QED
  BY <1>6, <1>7

-----------------------------------------------------------------------------
(* The first state, and one lemma for each group of actions. *)

\* DownloadManager::new establishes the inductive invariant.
LEMMA InitIInv == Init => IInv
<1> SUFFICES ASSUME Init PROVE IInv
  OBVIOUS
<1>1. \A p \in Piece : /\ pieces[p] = NewPiece
                       /\ pieces[p] \in PieceRecord
                       /\ Consistent(p, pieces[p])
                       /\ pieces[p].state = "Missing"
  BY NewPieceConsistent DEF Init, NewPieces, NewPiece
<1>2. TypeOK
  <2>1. pieces \in [Piece -> PieceRecord]
    BY <1>1 DEF Init, NewPieces
  <2>2. /\ outbox \in Seq([to : Peer, cmd : Cmd])
        /\ cmds \in [Peer -> Seq(Cmd)]
        /\ \A ip \in Peer : Len(cmds[ip]) <= CmdCap
    BY ManagerAssumption DEF Init
  <2>3. /\ phase \in {"setup", "recv", "writing", "sending", "done"}
        /\ diskSet \in BOOLEAN
        /\ peers \in [Peer -> Bitfield \cup {NoBitfield, Unregistered}]
        /\ writing \in Nat
        /\ live \in SUBSET Peer
        /\ chanOpen \in BOOLEAN
        /\ persisted \in SUBSET Piece
        /\ failed \in SUBSET Piece
    BY DEF Init
  <2> QED
    BY <2>1, <2>2, <2>3 DEF TypeOK
<1>3. NoLimbo /\ WrittenIsPersisted
  BY <1>1 DEF NoLimbo, WrittenIsPersisted
<1>4. InTransit = {}
  BY DEF Init, InTransit
<1>5. HaveIsPersisted /\ RequestIsMarked
  BY <1>4 DEF Init, HaveIsPersisted, RequestIsMarked
<1>6. DoneIsComplete /\ WritingIsVerified /\ IdleOutbox
  BY DEF Init, DoneIsComplete, WritingIsVerified, IdleOutbox
<1>7. CompleteIsAccounted /\ SetupIsFresh
  BY <1>1 DEF CompleteIsAccounted, SetupIsFresh
<1> QED
  BY <1>2, <1>3, <1>5, <1>6, <1>7 DEF IInv

\* Away from a write nothing has to be accounted for anew.
LEMMA AccountStep ==
    ASSUME IInv, phase # "writing", UNCHANGED <<diskSet, pieces, failed>>
    PROVE  CompleteIsAccounted'
BY DEF IInv, CompleteIsAccounted

\* Steps that leave the piece table and the disk alone: what has to be shown is
\* that no Have appears and that pending requests keep their mark.
LEMMA FrameStep ==
    ASSUME IInv, TypeOK', UNCHANGED <<pieces, persisted>>,
           phase' # "writing",
           phase' # "sending" => outbox' = <<>>,
           phase' = "done" => IsDownloadComplete(pieces),
           \A p \in Piece : HavePiece(p) \in InTransit' => HavePiece(p) \in InTransit,
           RequestIsMarked', CompleteIsAccounted',
           phase' = "setup" => phase = "setup"
    PROVE  IInv'
<1>1. NoLimbo' /\ WrittenIsPersisted'
  BY DEF IInv, NoLimbo, WrittenIsPersisted
<1>2. HaveIsPersisted'
  BY DEF IInv, HaveIsPersisted
<1>3. DoneIsComplete' /\ WritingIsVerified' /\ IdleOutbox'
  BY DEF DoneIsComplete, WritingIsVerified, IdleOutbox
<1>4. SetupIsFresh'
  BY DEF IInv, SetupIsFresh
<1> QED
  BY <1>1, <1>2, <1>3, <1>4 DEF IInv

\* A handler that ends with at most Have-free sends and leaves pieces, disk and
\* channels alone.
LEMMA EmptyStep ==
    ASSUME IInv, Handled(<<>>), UNCHANGED <<diskSet, pieces, writing, cmds, live, chanOpen, persisted>>,
           peers' \in [Peer -> Bitfield \cup {NoBitfield, Unregistered}],
           failed' \in SUBSET Piece, CompleteIsAccounted'
    PROVE  IInv'
<1>1. outbox' = <<>> /\ phase' = "sending"
  BY DEF Handled
<1>2. TypeOK'
  BY <1>1 DEF IInv, TypeOK
<1>3. ASSUME NEW c, c \in InTransit' PROVE c \in InTransit
  BY <1>1, <1>3 DEF InTransit
<1>4. RequestIsMarked'
  BY <1>1 DEF RequestIsMarked
<1> QED
  BY <1>1, <1>2, <1>3, <1>4, FrameStep

\* set_disk_io, add_peer, remove_peer and the start of run() preserve it.
LEMMA SetupStep == ASSUME IInv, Setup PROVE IInv'
<1>1. phase = "setup" /\ outbox = <<>> /\ outbox' = outbox /\ phase' \in {"setup", "recv"}
  BY DEF IInv, IdleOutbox, Setup, SetDiskIO, AddPeer, RemovePeer, StartRun
<1>2. UNCHANGED <<pieces, writing, cmds, live, chanOpen, persisted, failed>>
  BY DEF Setup, SetDiskIO, AddPeer, RemovePeer, StartRun
<1>3. /\ diskSet' \in BOOLEAN
      /\ peers' \in [Peer -> Bitfield \cup {NoBitfield, Unregistered}]
  BY DEF IInv, TypeOK, Setup, SetDiskIO, AddPeer, RemovePeer, StartRun
<1>4. TypeOK'
  BY <1>1, <1>2, <1>3 DEF IInv, TypeOK
<1>5. InTransit' = InTransit
  BY <1>1, <1>2 DEF InTransit
<1>6. RequestIsMarked'
  BY <1>1 DEF RequestIsMarked
<1>7. CompleteIsAccounted'
  BY <1>1, <1>2 DEF IInv, SetupIsFresh, CompleteIsAccounted
<1> QED
  BY <1>1, <1>2, <1>4, <1>5, <1>6, <1>7, FrameStep

\* handle_bitfield changes the map of peers and may queue an Interested.
LEMMA HandleBitfieldStep ==
    ASSUME IInv, NEW ip \in Peer, NEW bf \in Bitfields, HandleBitfield(ip, bf)
    PROVE  IInv'
<1>1. /\ UNCHANGED <<diskSet, pieces, writing, cmds, live, chanOpen, persisted, failed>>
      /\ phase # "writing"
  BY DEF HandleBitfield, Receiving
<1>2. /\ phase' = "sending"
      /\ outbox' = <<>> \/ outbox' = <<Send(ip, Interested)>>
  BY DEF HandleBitfield, Handled
<1>3. peers' \in [Peer -> Bitfield \cup {NoBitfield, Unregistered}]
  BY ManagerAssumption DEF IInv, TypeOK, HandleBitfield, Bitfield
<1>4. /\ outbox' \in Seq([to : Peer, cmd : Cmd])
      /\ \A i \in DOMAIN outbox' : outbox'[i].cmd = Interested
  <2>1. Send(ip, Interested) \in [to : Peer, cmd : Cmd] /\ Send(ip, Interested).cmd = Interested
    BY CmdKinds DEF Send
  <2>2. CASE outbox' = <<>>
    BY <2>2
  <2>3. CASE outbox' = <<Send(ip, Interested)>>
    BY <2>1, <2>3
  <2> QED
    BY <1>2, <2>2, <2>3
<1>5. TypeOK'
  BY <1>1, <1>2, <1>3, <1>4 DEF IInv, TypeOK
<1>6. \A p \in Piece : HavePiece(p) \in InTransit' => HavePiece(p) \in InTransit
  BY <1>1, <1>4, CmdKinds DEF InTransit
<1>7. RequestIsMarked'
  BY <1>4, CmdKinds DEF RequestIsMarked
<1> QED
  BY <1>1, <1>2, <1>5, <1>6, <1>7, AccountStep, FrameStep

\* handle_have only enlarges what a peer has, so no request loses its ground.
LEMMA HandleHaveStep ==
    ASSUME IInv, NEW ip \in Peer, NEW p \in AnyPiece, HandleHave(ip, p)
    PROVE  IInv'
<1>1. p \in Nat
  BY PieceAssumption DEF AnyPiece
<1>4. failed' \in SUBSET Piece /\ CompleteIsAccounted'
  BY AccountStep DEF HandleHave, Receiving, IInv, TypeOK
<1>2. CASE peers[ip] \in Bitfield /\ p < ByteBits * peers[ip].len
  <2>1. peers' = [peers EXCEPT ![ip].has = @ \cup {p}]
    BY <1>2 DEF HandleHave
  <2>2. [peers[ip] EXCEPT !.has = @ \cup {p}] \in Bitfield
    BY <1>1, <1>2 DEF Bitfield
  <2>3. peers' \in [Peer -> Bitfield \cup {NoBitfield, Unregistered}]
    BY <2>1, <2>2 DEF IInv, TypeOK
  <2> QED
    BY <1>4, <2>3, EmptyStep DEF HandleHave
<1>3. CASE ~(peers[ip] \in Bitfield /\ p < ByteBits * peers[ip].len)
  <2>1. peers' \in [Peer -> Bitfield \cup {NoBitfield, Unregistered}]
    BY <1>3 DEF HandleHave, IInv, TypeOK
  <2> QED
    BY <1>4, <2>1, EmptyStep DEF HandleHave
<1> QED
  BY <1>2, <1>3

\* handle_unchoke marks the block it requests, in a piece the peer announced.
LEMMA HandleUnchokeStep ==
    ASSUME IInv, NEW ip \in Peer, HandleUnchoke(ip)
    PROVE  IInv'
<1> DEFINE next == NextPiece(pieces, Available(peers[ip]))
           useful == {p \in next : MissingBlocks(pieces[p]) # {}}
<1>1. CASE useful = {}
  <2>1. /\ Handled(<<>>)
        /\ UNCHANGED <<diskSet, peers, pieces, writing, cmds, live, chanOpen, persisted, failed>>
        /\ phase # "writing"
    BY <1>1 DEF HandleUnchoke, Receiving
  <2>2. CompleteIsAccounted'
    BY <2>1, AccountStep
  <2> QED
    BY <2>1, <2>2, EmptyStep DEF IInv, TypeOK
<1>2. CASE useful # {}
  <2>1. PICK p \in useful : \E o \in MissingBlocks(pieces[p]) :
               /\ pieces' = [pieces EXCEPT ![p] = RequestFromPeer(@, o, ip)]
               /\ Handled(<<Send(ip, RequestBlock(p, o))>>)
    BY <1>2 DEF HandleUnchoke
  <2>2. PICK o \in MissingBlocks(pieces[p]) :
               /\ pieces' = [pieces EXCEPT ![p] = RequestFromPeer(@, o, ip)]
               /\ Handled(<<Send(ip, RequestBlock(p, o))>>)
    BY <2>1
  <2>3. /\ p \in Piece
        /\ p \in Available(peers[ip])
        /\ o \in Offsets
        /\ pieces[p] \in PieceRecord
        /\ Consistent(p, pieces[p])
    BY DEF NextPiece, Wanted, MissingBlocks, IInv, TypeOK, NoLimbo
  <2> DEFINE rp == RequestFromPeer(pieces[p], o, ip)
  <2>4. /\ rp \in PieceRecord
        /\ Consistent(p, rp)
        /\ rp.state = pieces[p].state
        /\ rp.blocks[o] = Requested(ip)
    BY <2>3, RequestConsistent
  <2> HIDE DEF rp
  <2>5. /\ pieces' = [pieces EXCEPT ![p] = rp]
        /\ outbox' = <<Send(ip, RequestBlock(p, o))>>
        /\ phase' = "sending"
    BY <2>2 DEF Handled, rp
  <2>6. /\ UNCHANGED <<diskSet, peers, writing, cmds, live, chanOpen, persisted, failed>>
        /\ phase # "writing"
    BY DEF HandleUnchoke, Receiving
  <2>7. /\ \A q \in Piece : pieces'[q].state = pieces[q].state
        /\ \A q \in Piece : pieces'[q] \in PieceRecord /\ Consistent(q, pieces'[q])
        /\ pieces' \in [Piece -> PieceRecord]
        /\ pieces'[p] = rp
    BY <2>3, <2>4, <2>5 DEF IInv, TypeOK, NoLimbo
  <2>8. /\ outbox' \in Seq([to : Peer, cmd : Cmd])
        /\ DOMAIN outbox' = {1}
        /\ outbox'[1] = [to |-> ip, cmd |-> RequestBlock(p, o)]
    BY <2>3, <2>5, CmdKinds DEF Send
  <2>9. TypeOK'
    BY <2>5, <2>6, <2>7, <2>8 DEF IInv, TypeOK
  <2>10. NoLimbo' /\ WrittenIsPersisted'
    BY <2>6, <2>7 DEF IInv, NoLimbo, WrittenIsPersisted
  <2>11. HaveIsPersisted'
    <3>1. \A q \in Piece : HavePiece(q) \in InTransit' => HavePiece(q) \in InTransit
      BY <2>6, <2>8, CmdKinds DEF InTransit
    <3> QED
      BY <2>6, <3>1 DEF IInv, HaveIsPersisted
  <2>12. RequestIsMarked'
    <3> SUFFICES ASSUME NEW q \in Piece, NEW r \in Offsets,
                        RequestBlock(p, o) = RequestBlock(q, r)
                 PROVE  /\ pieces'[q].blocks[r] = Requested(ip)
                        /\ q \in Available(peers'[ip])
      BY <2>8 DEF RequestIsMarked
    <3>1. q = p /\ r = o
      BY CmdKinds
    <3> QED
      BY <3>1, <2>3, <2>4, <2>6, <2>7
  <2>13. DoneIsComplete' /\ WritingIsVerified' /\ IdleOutbox'
    BY <2>5 DEF DoneIsComplete, WritingIsVerified, IdleOutbox
  <2>14. CompleteIsAccounted' /\ SetupIsFresh'
    BY <2>5, <2>6, <2>7 DEF IInv, CompleteIsAccounted, SetupIsFresh
  <2> QED
    BY <2>9, <2>10, <2>11, <2>12, <2>13, <2>14 DEF IInv
<1> QED
  BY <1>1, <1>2

\* Whatever payload arrives: the piece stays consistent, is not newly Written,
\* and goes to the disk only when it is Complete.
LEMMA HandleReceivePieceStep ==
    ASSUME IInv, NEW p \in AnyPiece, NEW o \in AnyBegin, NEW d \in Payload,
           HandleReceivePiece(p, o, d)
    PROVE  IInv'
<1>1. UNCHANGED <<diskSet, peers, cmds, live, chanOpen, persisted, failed>>
  BY DEF HandleReceivePiece
<1>2. outbox = <<>> /\ outbox' = <<>>
  BY DEF HandleReceivePiece, Receiving, Handled, IInv, IdleOutbox
<1>3. /\ pieces' \in [Piece -> PieceRecord]
      /\ \A q \in Piece : Consistent(q, pieces'[q])
      /\ \A q \in Piece : pieces'[q].state = "Written" => pieces[q].state = "Written"
  <2>1. CASE p \in Piece
    <3> DEFINE rp == ReceiveBlock(p, pieces[p], o, d)
    <3>1. pieces' = [pieces EXCEPT ![p] = rp]
      BY <2>1 DEF HandleReceivePiece
    <3>2. /\ rp \in PieceRecord
          /\ Consistent(p, rp)
          /\ rp.state = "Written" => pieces[p].state = "Written"
      BY <2>1, ReceiveBlockConsistent DEF IInv, TypeOK, NoLimbo
    <3> HIDE DEF rp
    <3> QED
      BY <2>1, <3>1, <3>2 DEF IInv, TypeOK, NoLimbo
  <2>2. CASE p \notin Piece
    BY <2>2 DEF HandleReceivePiece, IInv, TypeOK, NoLimbo
  <2> QED
    BY <2>1, <2>2
<1>4. \/ /\ phase' = "writing"
         /\ writing' = p
         /\ p \in Piece
         /\ HasPieceData(pieces'[p])
      \/ phase' = "sending" /\ writing' = writing
  BY DEF HandleReceivePiece, Handled
<1>5. TypeOK'
  BY <1>1, <1>2, <1>3, <1>4, PieceAssumption DEF IInv, TypeOK, Piece
<1>6. NoLimbo' /\ WrittenIsPersisted'
  BY <1>1, <1>3 DEF IInv, NoLimbo, WrittenIsPersisted
<1>7. HaveIsPersisted'
  <2>1. InTransit' = InTransit
    BY <1>1, <1>2 DEF InTransit
  <2> QED
    BY <1>1, <2>1 DEF IInv, HaveIsPersisted
<1>8. RequestIsMarked' /\ DoneIsComplete' /\ IdleOutbox'
  BY <1>2, <1>4 DEF RequestIsMarked, DoneIsComplete, IdleOutbox
<1>9. WritingIsVerified'
  BY <1>4 DEF WritingIsVerified, HasPieceData
<1>10. CompleteIsAccounted'
  <2> SUFFICES ASSUME NEW q \in Piece, pieces'[q].state = "Complete", diskSet
               PROVE  q \in failed \/ (phase' = "writing" /\ writing' = q)
    BY <1>1 DEF CompleteIsAccounted
  <2>1. phase # "writing"
    BY DEF HandleReceivePiece, Receiving
  <2>2. CASE q = p
    <3>1. HasPieceData(pieces'[p])
      BY <1>3, <2>2 DEF HasPieceData, Consistent, IsComplete
    <3> QED
      BY <2>2, <3>1 DEF HandleReceivePiece
  <2>3. CASE q # p
    <3>1. pieces'[q] = pieces[q]
      BY <2>3 DEF HandleReceivePiece, IInv, TypeOK
    <3> QED
      BY <2>1, <3>1 DEF IInv, CompleteIsAccounted
  <2> QED
    BY <2>2, <2>3
<1>11. SetupIsFresh'
  BY <1>4 DEF SetupIsFresh
<1> QED
  BY <1>5, <1>6, <1>7, <1>8, <1>9, <1>10, <1>11 DEF IInv

\* Events without an effect, and recv() on a closed channel, preserve it.
LEMMA OtherEventStep ==
    ASSUME IInv, RecvNone \/ OtherEvent \/ (\E ip \in Peer : PeerDisconnected(ip))
    PROVE  IInv'
<1>1. /\ Handled(<<>>)
      /\ UNCHANGED <<diskSet, pieces, writing, cmds, live, chanOpen, persisted, failed>>
      /\ phase # "writing"
  BY DEF RecvNone, OtherEvent, PeerDisconnected, Receiving
<1>2. peers' \in [Peer -> Bitfield \cup {NoBitfield, Unregistered}]
  BY DEF RecvNone, OtherEvent, PeerDisconnected, IInv, TypeOK
<1>3. failed' \in SUBSET Piece /\ CompleteIsAccounted'
  BY <1>1, AccountStep DEF IInv, TypeOK
<1> QED
  BY <1>1, <1>2, <1>3, EmptyStep

\* The bytes that reach the disk are those of a verified piece.
LEMMA StoredIsAdded ==
    ASSUME IInv, phase = "writing"
    PROVE  Stored(writing) = persisted \cup {writing}
<1>1. writing \in Piece /\ IsComplete(pieces[writing])
  BY DEF IInv, WritingIsVerified, IsComplete
<1>2. HashMatches(writing, pieces[writing])
  BY <1>1 DEF IInv, NoLimbo, Consistent
<1> QED
  BY <1>2 DEF Stored

\* Bytes that land before the outcome of a write is known are verified ones.
LEMMA WriteLandsStep == ASSUME IInv, WriteLands PROVE IInv'
<1>1. /\ persisted' = persisted \cup {writing}
      /\ writing \in Piece
      /\ UNCHANGED <<phase, diskSet, peers, pieces, writing, outbox, cmds, live, chanOpen, failed>>
  BY StoredIsAdded DEF WriteLands, IInv, WritingIsVerified
<1>2. TypeOK'
  BY <1>1 DEF IInv, TypeOK
<1>3. NoLimbo' /\ WrittenIsPersisted'
  BY <1>1 DEF IInv, NoLimbo, WrittenIsPersisted
<1>4. HaveIsPersisted'
  <2>1. InTransit' = InTransit
    BY <1>1 DEF InTransit
  <2> QED
    BY <1>1, <2>1 DEF IInv, HaveIsPersisted
<1>5. RequestIsMarked' /\ DoneIsComplete' /\ WritingIsVerified' /\ IdleOutbox'
  BY <1>1 DEF IInv, RequestIsMarked, DoneIsComplete, WritingIsVerified, IdleOutbox
<1>6. CompleteIsAccounted' /\ SetupIsFresh'
  BY <1>1 DEF IInv, CompleteIsAccounted, SetupIsFresh
<1> QED
  BY <1>2, <1>3, <1>4, <1>5, <1>6 DEF IInv

\* A successful write marks the piece and announces it, with its bytes on disk.
LEMMA WriteOkStep == ASSUME IInv, WriteOk PROVE IInv'
<1> DEFINE wp == MarkWritten(pieces[writing])
<1>1. /\ writing \in Piece
      /\ persisted' = persisted \cup {writing}
      /\ phase' = "sending"
      /\ pieces' = [pieces EXCEPT ![writing] = wp]
      /\ failed' = failed \ {writing}
      /\ phase = "writing"
      /\ UNCHANGED <<diskSet, peers, writing, cmds, live, chanOpen>>
  BY StoredIsAdded DEF WriteOk, Handled, IInv, WritingIsVerified
<1>2. /\ wp \in PieceRecord
      /\ Consistent(writing, wp)
      /\ wp.state = "Written"
  BY <1>1, MarkWrittenConsistent
     DEF WriteOk, IInv, TypeOK, NoLimbo, WritingIsVerified, IsComplete
<1>3. outbox' \in BroadcastHave(writing)
  BY DEF WriteOk, Handled
<1>4. /\ outbox' \in Seq([to : Peer, cmd : Cmd])
      /\ \A i \in DOMAIN outbox' : outbox'[i].cmd = HavePiece(writing)
  BY <1>1, <1>3, BroadcastType
<1> HIDE DEF wp
<1>5. /\ pieces' \in [Piece -> PieceRecord]
      /\ \A q \in Piece : Consistent(q, pieces'[q])
      /\ \A q \in Piece : q # writing => pieces'[q] = pieces[q]
  BY <1>1, <1>2 DEF IInv, TypeOK, NoLimbo
<1>6. TypeOK'
  BY <1>1, <1>4, <1>5 DEF IInv, TypeOK
<1>7. NoLimbo' /\ WrittenIsPersisted'
  BY <1>1, <1>5 DEF IInv, NoLimbo, WrittenIsPersisted
<1>8. HaveIsPersisted'
  <2> SUFFICES ASSUME NEW q \in Piece, HavePiece(q) \in InTransit'
               PROVE  q \in persisted'
    BY DEF HaveIsPersisted
  <2>1. CASE \E i \in DOMAIN outbox' : outbox'[i].cmd = HavePiece(q)
    BY <1>1, <1>4, <2>1, CmdKinds
  <2>2. CASE \E ip \in Peer : \E i \in DOMAIN cmds[ip] : cmds[ip][i] = HavePiece(q)
    BY <1>1, <2>2, InTransitIff DEF IInv, HaveIsPersisted
  <2> QED
    BY <1>1, <2>1, <2>2 DEF InTransit
<1>9. RequestIsMarked'
  BY <1>4, CmdKinds DEF RequestIsMarked
<1>10. DoneIsComplete' /\ WritingIsVerified' /\ IdleOutbox'
  BY <1>1 DEF DoneIsComplete, WritingIsVerified, IdleOutbox
<1>11. CompleteIsAccounted' /\ SetupIsFresh'
  <2>1. pieces'[writing].state = "Written"
    BY <1>1, <1>2 DEF IInv, TypeOK
  <2> QED
    BY <1>1, <1>5, <2>1 DEF IInv, CompleteIsAccounted, SetupIsFresh
<1> QED
  BY <1>6, <1>7, <1>8, <1>9, <1>10, <1>11 DEF IInv

\* A failed write leaves the piece unmarked and announces nothing; the piece is
\* accounted for as failed.
LEMMA WriteErrStep == ASSUME IInv, WriteErr PROVE IInv'
<1>1. /\ Handled(<<>>)
      /\ UNCHANGED <<diskSet, peers, pieces, writing, cmds, live, chanOpen, persisted>>
      /\ phase = "writing" /\ writing \in Piece
      /\ failed' = failed \cup {writing}
  BY DEF WriteErr, IInv, WritingIsVerified
<1>2. CompleteIsAccounted'
  BY <1>1 DEF IInv, CompleteIsAccounted
<1> QED
  BY <1>1, <1>2, EmptyStep DEF IInv, TypeOK

\* A send moves the head of the outbox into one channel, or drops it.
LEMMA SendCommandMoves ==
    ASSUME TypeOK, SendCommand
    PROVE  /\ outbox' \in Seq([to : Peer, cmd : Cmd])
           /\ \A i \in DOMAIN outbox' : i + 1 \in DOMAIN outbox /\ outbox'[i] = outbox[i + 1]
           /\ cmds' \in [Peer -> Seq(Cmd)]
           /\ \A ip \in Peer : Len(cmds'[ip]) <= CmdCap
           /\ \A c : c \in InTransit' => c \in InTransit
<1> DEFINE s == Head(outbox)
<1>1. /\ outbox \in Seq([to : Peer, cmd : Cmd])
      /\ outbox # <<>>
      /\ outbox' = Tail(outbox)
      /\ cmds \in [Peer -> Seq(Cmd)]
      /\ \A ip \in Peer : Len(cmds[ip]) <= CmdCap
  BY DEF TypeOK, SendCommand
<1>2. /\ s = outbox[1] /\ 1 \in DOMAIN outbox
      /\ s.to \in Peer /\ s.cmd \in Cmd
  <2>1. Len(outbox) \in Nat \ {0} /\ DOMAIN outbox = 1 .. Len(outbox)
    BY <1>1, EmptySeq, LenProperties
  <2>2. s \in [to : Peer, cmd : Cmd]
    BY <1>1, HeadTailProperties
  <2>3. s = outbox[1]
    BY <1>1
  <2> QED
    BY <2>1, <2>2, <2>3
<1>3. /\ outbox' \in Seq([to : Peer, cmd : Cmd])
      /\ \A i \in DOMAIN outbox' : i + 1 \in DOMAIN outbox /\ outbox'[i] = outbox[i + 1]
  BY <1>1, HeadTailProperties
<1>4. CASE cmds' = cmds
  BY <1>1, <1>3, <1>4 DEF InTransit
<1>5. CASE /\ Len(cmds[s.to]) < CmdCap
           /\ cmds' = [cmds EXCEPT ![s.to] = Append(@, s.cmd)]
  <2> DEFINE new == Append(cmds[s.to], s.cmd)
  <2>1. /\ new \in Seq(Cmd)
        /\ Len(new) = Len(cmds[s.to]) + 1
        /\ DOMAIN new = 1 .. Len(cmds[s.to]) + 1
        /\ DOMAIN cmds[s.to] = 1 .. Len(cmds[s.to])
        /\ Len(cmds[s.to]) \in Nat
        /\ \A i \in DOMAIN cmds[s.to] : new[i] = cmds[s.to][i]
        /\ new[Len(cmds[s.to]) + 1] = s.cmd
    BY <1>1, <1>2, AppendProperties, LenProperties
  <2> HIDE DEF new
  <2>2. cmds' = [cmds EXCEPT ![s.to] = new]
    BY <1>5 DEF new
  <2>3. cmds' \in [Peer -> Seq(Cmd)] /\ \A ip \in Peer : Len(cmds'[ip]) <= CmdCap
    <3>1. Len(new) <= CmdCap
      BY <1>5, <2>1, ManagerAssumption
    <3> QED
      BY <1>1, <1>2, <2>1, <2>2, <3>1
  <2>4. ASSUME NEW c, c \in InTransit' PROVE c \in InTransit
    <3>1. CASE \E i \in DOMAIN outbox' : outbox'[i].cmd = c
      BY <1>3, <3>1, InTransitIff
    <3>2. ASSUME NEW ip \in Peer, NEW i \in DOMAIN cmds'[ip], cmds'[ip][i] = c
          PROVE  c \in InTransit
      <4>1. CASE ip # s.to
        BY <1>1, <2>2, <3>2, <4>1, InTransitIff
      <4>2. CASE ip = s.to
        <5>1. cmds'[ip] = new
          BY <1>1, <1>2, <2>2, <4>2
        <5>2. CASE i \in DOMAIN cmds[s.to]
          BY <1>2, <2>1, <3>2, <5>1, <5>2, InTransitIff
        <5>3. CASE i = Len(cmds[s.to]) + 1
          BY <1>2, <2>1, <3>2, <5>1, <5>3, InTransitIff
        <5> QED
          BY <2>1, <3>2, <5>1, <5>2, <5>3
      <4> QED
        BY <4>1, <4>2
    <3> QED
      BY <2>4, <3>1, <3>2 DEF InTransit
  <2> QED
    BY <1>3, <2>3, <2>4
<1> QED
  BY <1>4, <1>5 DEF SendCommand

\* An awaited send preserves the invariant: no new command comes to be on its way.
LEMMA SendCommandStep == ASSUME IInv, SendCommand PROVE IInv'
<1>1. /\ UNCHANGED <<phase, diskSet, peers, pieces, writing, live, chanOpen, persisted, failed>>
      /\ phase = "sending"
  BY DEF SendCommand
<1>2. TypeOK'
  BY <1>1, SendCommandMoves DEF IInv, TypeOK
<1>3. RequestIsMarked'
  BY <1>1, SendCommandMoves DEF IInv, RequestIsMarked
<1> QED
  BY <1>1, <1>2, <1>3, SendCommandMoves, AccountStep, FrameStep DEF IInv

\* The loop ends in the check after a turn only when is_download_complete.
LEMMA FinishEventStep == ASSUME IInv, FinishEvent PROVE IInv'
<1>1. /\ UNCHANGED <<diskSet, peers, pieces, writing, outbox, cmds, live, chanOpen, persisted, failed>>
      /\ outbox = <<>>
      /\ phase # "writing"
      /\ phase' \in {"done", "recv"}
      /\ phase' = "done" => IsDownloadComplete(pieces)
  BY DEF FinishEvent
<1>2. TypeOK'
  BY <1>1 DEF IInv, TypeOK
<1>3. RequestIsMarked'
  BY <1>1 DEF RequestIsMarked
<1>4. InTransit' = InTransit
  BY <1>1 DEF InTransit
<1> QED
  BY <1>1, <1>2, <1>3, <1>4, AccountStep, FrameStep

\* Steps of the connections only take commands away.
LEMMA ConnectionMoves ==
    ASSUME TypeOK, NEW ip \in Peer, TakeCommand(ip) \/ ConnectionEnds(ip)
    PROVE  /\ TypeOK'
           /\ \A c : c \in InTransit' => c \in InTransit
           /\ UNCHANGED <<phase, diskSet, peers, pieces, writing, outbox, chanOpen, persisted, failed>>
<1>1. UNCHANGED <<phase, diskSet, peers, pieces, writing, outbox, chanOpen, persisted, failed>>
  BY DEF TakeCommand, ConnectionEnds
<1>2. live' \in SUBSET Peer
  BY DEF TakeCommand, ConnectionEnds, TypeOK
<1>3. PICK q \in Seq(Cmd) :
         /\ cmds' = [cmds EXCEPT ![ip] = q]
         /\ Len(q) <= CmdCap
         /\ \A i \in DOMAIN q : \E j \in DOMAIN cmds[ip] : q[i] = cmds[ip][j]
  <2>1. CASE TakeCommand(ip)
    <3>1. /\ cmds[ip] \in Seq(Cmd) /\ cmds[ip] # <<>>
          /\ Len(cmds[ip]) <= CmdCap
          /\ cmds' = [cmds EXCEPT ![ip] = Tail(cmds[ip])]
      BY <2>1 DEF TakeCommand, TypeOK
    <3>2. /\ Tail(cmds[ip]) \in Seq(Cmd)
          /\ Len(Tail(cmds[ip])) = Len(cmds[ip]) - 1
          /\ \A i \in 1 .. Len(Tail(cmds[ip])) : Tail(cmds[ip])[i] = cmds[ip][i + 1]
      BY <3>1, HeadTailProperties
    <3>3. Len(Tail(cmds[ip])) <= CmdCap
      BY <3>1, <3>2, LenProperties, ManagerAssumption
    <3>4. \A i \in DOMAIN Tail(cmds[ip]) :
             i + 1 \in DOMAIN cmds[ip] /\ Tail(cmds[ip])[i] = cmds[ip][i + 1]
      BY <3>1, <3>2, LenProperties
    <3> QED
      BY <3>1, <3>2, <3>3, <3>4
  <2>2. CASE ConnectionEnds(ip)
    <3> DEFINE e == <<>>
    <3>1. e \in Seq(Cmd) /\ Len(e) <= CmdCap /\ DOMAIN e = {}
      BY ManagerAssumption
    <3>2. cmds' = [cmds EXCEPT ![ip] = e]
      BY <2>2 DEF ConnectionEnds
    <3> HIDE DEF e
    <3> QED
      BY <3>1, <3>2
  <2> QED
    BY <2>1, <2>2
<1>4. TypeOK'
  BY <1>1, <1>2, <1>3 DEF TypeOK
<1>5. ASSUME NEW c, c \in InTransit' PROVE c \in InTransit
  <2>1. CASE \E i \in DOMAIN outbox' : outbox'[i].cmd = c
    BY <1>1, <2>1, InTransitIff
  <2>2. ASSUME NEW jp \in Peer, NEW i \in DOMAIN cmds'[jp], cmds'[jp][i] = c
        PROVE  c \in InTransit
    <3>1. CASE jp = ip
      BY <1>3, <2>2, <3>1, InTransitIff DEF TypeOK
    <3>2. CASE jp # ip
      BY <1>3, <2>2, <3>2, InTransitIff DEF TypeOK
    <3> QED
      BY <3>1, <3>2
  <2> QED
    BY <1>5, <2>1, <2>2 DEF InTransit
<1> QED
  BY <1>1, <1>4, <1>5

\* A step of the surroundings that leaves the manager's own state alone.
LEMMA QuietStep ==
    ASSUME IInv, TypeOK',
           UNCHANGED <<phase, diskSet, peers, pieces, writing, outbox, persisted, failed>>,
           \A p \in Piece : HavePiece(p) \in InTransit' => HavePiece(p) \in InTransit
    PROVE  IInv'
<1>1. NoLimbo' /\ WrittenIsPersisted' /\ HaveIsPersisted'
  BY DEF IInv, NoLimbo, WrittenIsPersisted, HaveIsPersisted
<1>2. RequestIsMarked' /\ DoneIsComplete' /\ WritingIsVerified' /\ IdleOutbox'
  BY DEF IInv, RequestIsMarked, DoneIsComplete, WritingIsVerified, IdleOutbox
<1>3. CompleteIsAccounted' /\ SetupIsFresh'
  BY DEF IInv, CompleteIsAccounted, SetupIsFresh
<1> QED
  BY <1>1, <1>2, <1>3 DEF IInv

\* Closing the event channel touches nothing the invariant speaks of.
LEMMA CloseChannelStep == ASSUME IInv, CloseChannel PROVE IInv'
<1>1. UNCHANGED <<phase, diskSet, peers, pieces, writing, outbox, cmds, live, persisted, failed>>
      /\ chanOpen' = FALSE
  BY DEF CloseChannel
<1>2. TypeOK'
  BY <1>1 DEF IInv, TypeOK
<1>3. InTransit' = InTransit
  BY <1>1 DEF InTransit
<1> QED
  BY <1>1, <1>2, <1>3, QuietStep

\* A crash and restart keep the disk and forget everything that relied on it.
LEMMA RestartStep == ASSUME IInv, Restart PROVE IInv'
<1>1. /\ phase' = "setup" /\ diskSet' = FALSE /\ writing' = 0 /\ outbox' = <<>>
      /\ peers' = [ip \in Peer |-> Unregistered]
      /\ pieces' = NewPieces
      /\ cmds' = [ip \in Peer |-> <<>>]
      /\ live' = Peer /\ chanOpen' = TRUE /\ persisted' = persisted /\ failed' = {}
  BY DEF Restart
<1>2. /\ pieces' \in [Piece -> PieceRecord]
      /\ \A p \in Piece : Consistent(p, pieces'[p]) /\ pieces'[p].state = "Missing"
  BY <1>1, NewPieceConsistent DEF NewPieces, NewPiece
<1>3. /\ outbox' \in Seq([to : Peer, cmd : Cmd])
      /\ cmds' \in [Peer -> Seq(Cmd)]
      /\ \A ip \in Peer : Len(cmds'[ip]) <= CmdCap
  BY <1>1, ManagerAssumption
<1>4. peers' \in [Peer -> Bitfield \cup {NoBitfield, Unregistered}]
  BY <1>1
<1>5. TypeOK'
  BY <1>1, <1>2, <1>3, <1>4 DEF IInv, TypeOK
<1>6. NoLimbo' /\ WrittenIsPersisted'
  BY <1>2 DEF NoLimbo, WrittenIsPersisted
<1>7. InTransit' = {}
  BY <1>1 DEF InTransit
<1>8. HaveIsPersisted' /\ RequestIsMarked'
  BY <1>1, <1>7 DEF HaveIsPersisted, RequestIsMarked
<1>9. DoneIsComplete' /\ WritingIsVerified' /\ IdleOutbox'
  BY <1>1 DEF DoneIsComplete, WritingIsVerified, IdleOutbox
<1>10. CompleteIsAccounted' /\ SetupIsFresh'
  BY <1>2 DEF CompleteIsAccounted, SetupIsFresh
<1> QED
  BY <1>5, <1>6, <1>8, <1>9, <1>10 DEF IInv

-----------------------------------------------------------------------------
(* Theorems. *)

\* Every step of the specification preserves the inductive invariant.
LEMMA NextIInv == ASSUME IInv, [Next]_vars PROVE IInv'
<1>1. CASE Setup
  BY <1>1, SetupStep
<1>2. CASE HandleEvent
  BY <1>2, HandleBitfieldStep, HandleHaveStep, HandleUnchokeStep,
     HandleReceivePieceStep, OtherEventStep DEF HandleEvent
<1>3. CASE Proceed
  BY <1>3, OtherEventStep, WriteOkStep, WriteErrStep, SendCommandStep,
     FinishEventStep DEF Proceed
<1>4. CASE Surroundings
  <2>1. ASSUME NEW ip \in Peer, TakeCommand(ip) \/ ConnectionEnds(ip) PROVE IInv'
    BY <2>1, ConnectionMoves, QuietStep DEF IInv
  <2> QED
    BY <1>4, <2>1, CloseChannelStep, WriteLandsStep, RestartStep DEF Surroundings
<1>5. CASE UNCHANGED vars
  <2>1. TypeOK'
    BY <1>5 DEF vars, IInv, TypeOK
  <2>2. InTransit' = InTransit
    BY <1>5 DEF vars, InTransit
  <2> QED
    BY <1>5, <2>1, <2>2, QuietStep DEF vars
<1> QED
  BY <1>1, <1>2, <1>3, <1>4, <1>5 DEF Next

\* In every reachable state, for all peers, pieces, block sizes and channel
\* capacities, the handlers of the event loop keep the inductive invariant.
THEOREM Invariance == Spec => []IInv
<1>1. Init => IInv
  BY InitIInv
<1>2. IInv /\ [Next]_vars => IInv'
  BY NextIInv
<1> QED
  BY <1>1, <1>2, PTL DEF Spec

\* The types, and the bound on every command channel.
THEOREM TypeCorrect == Spec => []TypeOK
BY Invariance, PTL DEF IInv

\* No sequence of payloads leaves a piece with all its blocks and no verdict, or
\* complete with other bytes than the torrent's.
THEOREM PiecesAreConsistent == Spec => []NoLimbo
BY Invariance, PTL DEF IInv

\* A piece marked Written has its bytes on disk.
THEOREM WrittenPiecesArePersisted == Spec => []WrittenIsPersisted
BY Invariance, PTL DEF IInv

\* A Have leaves only for a piece whose bytes are, and stay, on disk.
THEOREM AnnouncedPiecesArePersisted == Spec => []HaveIsPersisted
BY Invariance, PTL DEF IInv

\* A request waiting to be sent is recorded for the peer it goes to.
THEOREM RequestsAreMarked == Spec => []RequestIsMarked
BY Invariance, PTL DEF IInv

\* When the loop ends with a disk set, what the disk lacks are pieces whose own
\* write failed when it was last tried: nothing verified is passed over.
THEOREM GapsHaveFailed == Spec => []GapsAreFailedWrites
<1>1. IInv => GapsAreFailedWrites
  <2> SUFFICES ASSUME IInv, phase = "done", diskSet, NEW p \in Piece
               PROVE  p \in persisted \/ p \in failed
    BY DEF GapsAreFailedWrites
  <2>1. pieces[p].state \in {"Complete", "Written"}
    BY DEF IInv, DoneIsComplete, IsDownloadComplete, IsComplete
  <2> QED
    BY <2>1 DEF IInv, CompleteIsAccounted, WrittenIsPersisted
<1> QED
  BY <1>1, Invariance, PTL

\* Only write_piece touches the disk, and what it writes is verified.
LEMMA DiskStep == ASSUME IInv, [Next]_vars PROVE persisted \subseteq persisted'
<1>1. CASE WriteOk \/ WriteLands
  BY <1>1, StoredIsAdded DEF WriteOk, WriteLands
<1>2. CASE ~(WriteOk \/ WriteLands)
  BY <1>2 DEF Next, vars, Setup, SetDiskIO, AddPeer, RemovePeer, StartRun,
     HandleEvent, HandleBitfield, HandleHave, HandleUnchoke, HandleReceivePiece,
     PeerDisconnected, OtherEvent, Proceed, RecvNone, WriteErr, SendCommand,
     FinishEvent, Surroundings, TakeCommand, ConnectionEnds, CloseChannel, Restart
<1> QED
  BY <1>1, <1>2

\* What is right on disk stays right, through rewrites, failed writes, crashes
\* and restarts.
THEOREM DiskStability == Spec => DiskIsStable
<1>1. IInv /\ [Next]_vars => [persisted \subseteq persisted']_persisted
  BY DiskStep
<1> QED
  BY <1>1, Invariance, PTL DEF Spec, DiskIsStable

\* PieceManager::new gives the last piece the length of all the others: a torrent
\* whose length is not a multiple of it has a piece no payload completes, and
\* run() never gets to its end.
THEOREM TruncatedTorrentNeverCompletes ==
    ASSUME NEW p \in Piece, ~Whole(p)
    PROVE  Spec => [](~IsComplete(pieces[p]) /\ phase # "done")
<1>1. IInv => ~IsComplete(pieces[p])
  BY DEF IInv, NoLimbo, Consistent, HashMatches
<1>2. IInv => phase # "done"
  BY <1>1 DEF IInv, DoneIsComplete, IsDownloadComplete
<1> QED
  BY <1>1, <1>2, Invariance, PTL

-----------------------------------------------------------------------------
(* Refinement of TorrentStore. *)

Announced == {p \in Piece : HavePiece(p) \in InTransit}

\* Steps that change nothing in the abstract store but the announcements on
\* their way, of which they lose some at most.
LEMMA DeliverStep ==
    ASSUME Announced' \in SUBSET Announced,
           UNCHANGED <<pieces, persisted>>, (phase' = "done") = (phase = "done")
    PROVE  Store!StoreNext
BY DEF Announced, Store!StoreNext, Store!Deliver, Status

\* A new manager is a new store.
LEMMA InitRefines == Init => Store!StoreInit
<1> SUFFICES ASSUME Init PROVE Store!StoreInit
  OBVIOUS
<1>1. \A p \in Piece : pieces[p].state = "Missing"
  BY DEF Init, NewPieces, NewPiece
<1>2. InTransit = {}
  BY DEF Init, InTransit
<1> QED
  BY <1>1, <1>2 DEF Init, Store!StoreInit, Status

\* A payload obtains its piece, loses it, or changes nothing the store knows.
LEMMA ReceivePieceRefines ==
    ASSUME IInv, NEW p \in AnyPiece, NEW o \in AnyBegin, NEW d \in Payload,
           HandleReceivePiece(p, o, d)
    PROVE  Store!StoreNext
<1>1. /\ outbox' = outbox
      /\ UNCHANGED <<cmds, persisted>>
      /\ phase # "done" /\ phase' # "done"
  BY DEF HandleReceivePiece, Receiving, Handled, IInv, IdleOutbox
<1>2. Announced' = Announced
  BY <1>1 DEF Announced, InTransit
<1>3. CASE pieces' = pieces
  BY <1>1, <1>2, <1>3, DeliverStep
<1>4. CASE pieces' # pieces
  <2> DEFINE rp == ReceiveBlock(p, pieces[p], o, d)
  <2>1. p \in Piece /\ pieces' = [pieces EXCEPT ![p] = rp]
    BY <1>4 DEF HandleReceivePiece
  <2>2. /\ rp.state \in {"Missing", "Complete"} \/ rp.state = pieces[p].state
    BY DEF ReceiveBlock, Verify, NewPiece
  <2>3. pieces \in [Piece -> PieceRecord]
    BY DEF IInv, TypeOK
  <2>4. rp \in PieceRecord
    BY <2>1, ReceiveBlockConsistent DEF IInv, TypeOK, NoLimbo
  <2> HIDE DEF rp
  <2>5. pieces'[p] = rp /\ \A q \in Piece : q # p => pieces'[q] = pieces[q]
    BY <2>1, <2>3
  <2>6. CASE rp.state = pieces[p].state
    <3>1. Status' = Status
      BY <2>5, <2>6 DEF Status
    <3> QED
      BY <1>1, <1>2, <3>1 DEF Announced, Store!StoreNext, Store!Deliver
  <2>7. CASE rp.state = "Complete"
    <3>1. Status' = [Status EXCEPT ![p] = "verified"]
      BY <2>1, <2>5, <2>7 DEF Status
    <3>2. Store!Obtain(p)
      BY <1>1, <1>2, <3>1 DEF Announced, Store!Obtain
    <3> QED
      BY <2>1, <3>2 DEF Store!StoreNext
  <2>8. CASE rp.state = "Missing"
    <3>1. Status' = [Status EXCEPT ![p] = "wanted"]
      BY <2>1, <2>5, <2>8 DEF Status
    <3>2. Store!Lose(p)
      BY <1>1, <1>2, <3>1 DEF Announced, Store!Lose
    <3> QED
      BY <2>1, <3>2 DEF Store!StoreNext
  <2> QED
    BY <2>2, <2>6, <2>7, <2>8
<1> QED
  BY <1>3, <1>4

\* A request marks a block of a piece that stays wanted.
LEMMA UnchokeRefines ==
    ASSUME IInv, NEW ip \in Peer, HandleUnchoke(ip)
    PROVE  Store!StoreNext
<1>1. \/ outbox' = <<>>
      \/ \E p \in Piece, o \in Offsets : outbox' = <<Send(ip, RequestBlock(p, o))>>
  BY DEF HandleUnchoke, Handled, NextPiece, Wanted, MissingBlocks
<1>2. UNCHANGED <<cmds, persisted>> /\ phase # "done" /\ phase' # "done"
  BY DEF HandleUnchoke, Handled, Receiving
<1>3. \A q \in Piece : pieces'[q].state = pieces[q].state
  <2>1. \A pc : \A o \in Offsets : RequestFromPeer(pc, o, ip).state = pc.state
    BY DEF RequestFromPeer
  <2>2. \/ pieces' = pieces
        \/ \E p \in Piece, o \in Offsets :
              pieces' = [pieces EXCEPT ![p] = RequestFromPeer(pieces[p], o, ip)]
    BY DEF HandleUnchoke, NextPiece, Wanted, MissingBlocks
  <2>3. pieces \in [Piece -> PieceRecord]
    BY DEF IInv, TypeOK
  <2>4. ASSUME NEW p \in Piece, NEW o \in Offsets, NEW q \in Piece,
               pieces' = [pieces EXCEPT ![p] = RequestFromPeer(pieces[p], o, ip)]
        PROVE  pieces'[q].state = pieces[q].state
    <3>1. pieces'[q] = IF q = p THEN RequestFromPeer(pieces[p], o, ip) ELSE pieces[q]
      BY <2>3, <2>4
    <3> QED
      BY <2>1, <3>1
  <2> QED
    BY <2>2, <2>4
<1>4. Status' = Status
  BY <1>3 DEF Status
<1>5. \A i \in DOMAIN outbox' : \A q : outbox'[i].cmd # HavePiece(q)
  BY <1>1, CmdKinds DEF Send
<1>6. Announced' \in SUBSET Announced
  BY <1>2, <1>5 DEF Announced, InTransit
<1> QED
  BY <1>2, <1>4, <1>6 DEF Announced, Store!StoreNext, Store!Deliver

\* A successful write persists its piece and may announce it.
LEMMA WriteOkRefines == ASSUME IInv, WriteOk PROVE Store!StoreNext
<1>1. /\ writing \in Piece
      /\ pieces[writing].state = "Complete"
      /\ pieces \in [Piece -> PieceRecord]
      /\ persisted' = persisted \cup {writing}
      /\ phase # "done" /\ phase' # "done"
      /\ pieces' = [pieces EXCEPT ![writing] = MarkWritten(@)]
      /\ UNCHANGED cmds
      /\ outbox' \in BroadcastHave(writing)
  BY StoredIsAdded DEF WriteOk, Handled, IInv, TypeOK, WritingIsVerified
<1>2. Status' = [Status EXCEPT ![writing] = "persisted"]
  <2>1. \A q \in Piece : pieces'[q].state =
           IF q = writing THEN "Written" ELSE pieces[q].state
    BY <1>1 DEF MarkWritten, PieceRecord
  <2> QED
    BY <1>1, <2>1 DEF Status
<1>3. Status[writing] = "verified"
  BY <1>1 DEF Status
<1>4. \A i \in DOMAIN outbox' : outbox'[i].cmd = HavePiece(writing)
  BY <1>1, BroadcastType
<1>5. outbox = <<>>
  BY DEF WriteOk, IInv, IdleOutbox
<1>6. /\ \A q \in Piece : q # writing => (q \in Announced' <=> q \in Announced)
      /\ writing \in Announced => writing \in Announced'
  BY <1>1, <1>4, <1>5, CmdKinds DEF Announced, InTransit
<1>7. Announced' \in {Announced, Announced \cup {writing}}
  <2>1. Announced \subseteq Piece /\ Announced' \subseteq Piece
    BY DEF Announced
  <2> QED
    BY <1>1, <1>6, <2>1
<1>8. Store!Persist(writing)
  BY <1>1, <1>2, <1>3, <1>7 DEF Announced, Store!Persist
<1> QED
  BY <1>1, <1>8 DEF Store!StoreNext

\* A write that lands unreported makes its verified piece durable.
LEMMA WriteLandsRefines == ASSUME IInv, WriteLands PROVE Store!StoreNext
<1>1. /\ writing \in Piece
      /\ pieces[writing].state = "Complete"
      /\ persisted' = persisted \cup {writing}
      /\ phase # "done"
      /\ UNCHANGED <<phase, pieces, outbox, cmds>>
  BY StoredIsAdded DEF WriteLands, IInv, WritingIsVerified
<1>2. Status' = Status /\ Status[writing] = "verified"
  BY <1>1 DEF Status
<1>3. Announced' = Announced
  BY <1>1 DEF Announced, InTransit
<1>4. Store!PersistUnreported(writing)
  BY <1>1, <1>2, <1>3 DEF Announced, Store!PersistUnreported
<1> QED
  BY <1>1, <1>4 DEF Store!StoreNext

\* The loop finishes, or goes on, as the store allows.
LEMMA FinishEventRefines == ASSUME IInv, FinishEvent PROVE Store!StoreNext
<1>1. /\ phase # "done"
      /\ UNCHANGED <<pieces, outbox, cmds, persisted>>
      /\ phase' = "done" => IsDownloadComplete(pieces)
  BY DEF FinishEvent
<1>2. Status' = Status /\ Announced' = Announced
  BY <1>1 DEF Status, Announced, InTransit
<1>3. CASE phase' = "done"
  <2>1. \A p \in Piece : Status[p] # "wanted"
    BY <1>1, <1>3 DEF IsDownloadComplete, IsComplete, Status
  <2>2. Store!Finish
    BY <1>1, <1>2, <1>3, <2>1 DEF Announced, Store!Finish
  <2> QED
    BY <2>2 DEF Store!StoreNext
<1>4. CASE phase' # "done"
  BY <1>1, <1>2, <1>4, DeliverStep
<1> QED
  BY <1>3, <1>4

\* A crash of the process is a crash of the store.
LEMMA RestartRefines == ASSUME Restart PROVE Store!StoreNext
<1>1. /\ phase' = "setup" /\ outbox' = <<>> /\ persisted' = persisted
      /\ cmds' = [ip \in Peer |-> <<>>] /\ pieces' = NewPieces
  BY DEF Restart
<1>2. \A p \in Piece : pieces'[p].state = "Missing"
  BY <1>1 DEF NewPieces, NewPiece
<1>3. Status' = [p \in Piece |-> "wanted"]
  BY <1>2 DEF Status
<1>4. Announced' = {}
  BY <1>1 DEF Announced, InTransit
<1>5. Store!Crash
  BY <1>1, <1>3, <1>4 DEF Announced, Store!Crash
<1> QED
  BY <1>5 DEF Store!StoreNext

\* Every other step touches neither the pieces nor the disk, does not start or
\* end the loop, and adds no Have.
LEMMA QuietRefines ==
    ASSUME IInv,
           \/ Setup
           \/ \E ip \in Peer, bf \in Bitfields : HandleBitfield(ip, bf)
           \/ \E ip \in Peer, p \in AnyPiece : HandleHave(ip, p)
           \/ \E ip \in Peer : PeerDisconnected(ip)
           \/ OtherEvent \/ RecvNone \/ WriteErr \/ SendCommand
           \/ \E ip \in Peer : TakeCommand(ip) \/ ConnectionEnds(ip)
           \/ CloseChannel
    PROVE  Store!StoreNext
<1>1. CASE Setup \/ CloseChannel
  <2>1. UNCHANGED <<pieces, persisted, outbox, cmds>> /\ (phase' = "done") = (phase = "done")
    BY <1>1 DEF Setup, SetDiskIO, AddPeer, RemovePeer, StartRun, CloseChannel
  <2>2. Announced' = Announced
    BY <2>1 DEF Announced, InTransit
  <2> QED
    BY <2>1, <2>2, DeliverStep
<1>2. ASSUME NEW ip,
             \/ \E bf \in Bitfields : HandleBitfield(ip, bf)
             \/ \E p \in AnyPiece : HandleHave(ip, p)
             \/ PeerDisconnected(ip) \/ OtherEvent \/ RecvNone \/ WriteErr
      PROVE  Store!StoreNext
  <2>1. /\ UNCHANGED <<pieces, persisted, cmds>>
        /\ phase # "done" /\ phase' # "done"
        /\ outbox' = <<>> \/ outbox' = <<Send(ip, Interested)>>
    BY <1>2 DEF HandleBitfield, HandleHave, PeerDisconnected, OtherEvent, RecvNone,
       WriteErr, Handled, Receiving
  <2>2. \A i \in DOMAIN outbox' : \A q : outbox'[i].cmd # HavePiece(q)
    BY <2>1, CmdKinds DEF Send
  <2>3. Announced' \in SUBSET Announced
    BY <2>1, <2>2 DEF Announced, InTransit
  <2> QED
    BY <2>1, <2>3, DeliverStep
<1>3. CASE SendCommand
  <2>1. Announced' \in SUBSET Announced
    BY <1>3, SendCommandMoves DEF IInv, Announced
  <2> QED
    BY <1>3, <2>1, DeliverStep DEF SendCommand
<1>4. ASSUME NEW ip \in Peer, TakeCommand(ip) \/ ConnectionEnds(ip)
      PROVE  Store!StoreNext
  <2>1. Announced' \in SUBSET Announced
    BY <1>4, ConnectionMoves DEF IInv, Announced
  <2> QED
    BY <1>4, <2>1, ConnectionMoves, DeliverStep DEF IInv
<1> QED
  BY <1>1, <1>2, <1>3, <1>4

\* Every step of the manager is a step of the store or a stutter.
LEMMA NextRefines ==
    ASSUME IInv, [Next]_vars
    PROVE  [Store!StoreNext]_(Store!storeVars)
<1>1. CASE UNCHANGED vars
  BY <1>1 DEF vars, Store!storeVars, Status, InTransit
<1>2. CASE Setup
  BY <1>2, QuietRefines
<1>3. CASE HandleEvent
  BY <1>3, QuietRefines, UnchokeRefines, ReceivePieceRefines DEF HandleEvent
<1>4. CASE Proceed
  BY <1>4, QuietRefines, WriteOkRefines, FinishEventRefines DEF Proceed
<1>5. CASE Surroundings
  BY <1>5, QuietRefines, WriteLandsRefines, RestartRefines DEF Surroundings
<1> QED
  BY <1>1, <1>2, <1>3, <1>4, <1>5 DEF Next

\* The event loop, with its blocks, queues, awaits, write errors and crashes,
\* keeps the promises of the abstract store.
THEOREM Refinement == Spec => ImplementsStore
<1>1. Init => Store!StoreInit
  BY InitRefines
<1>2. IInv /\ [Next]_vars => [Store!StoreNext]_(Store!storeVars)
  BY NextRefines
<1> QED
  BY <1>1, <1>2, Invariance, PTL DEF Spec, ImplementsStore, Store!StoreSpec

-----------------------------------------------------------------------------
(* The manager as a caller of PieceDisk. *)

\* Steps that neither begin nor end a write and leave the disk alone.
LEMMA NoDiskStep ==
    ASSUME persisted' = persisted,
           \/ phase # "writing" /\ phase' # "writing"
           \/ UNCHANGED <<phase, writing>>
    PROVE  UNCHANGED Disk!diskVars
BY DEF Disk!diskVars

\* A payload that completes its piece begins the write of a piece of the torrent.
LEMMA ReceivePieceWrites ==
    ASSUME IInv, NEW p \in AnyPiece, NEW o \in AnyBegin, NEW d \in Payload,
           HandleReceivePiece(p, o, d)
    PROVE  [Disk!DiskNext]_(Disk!diskVars)
<1>1. phase # "writing" /\ persisted' = persisted
  BY DEF HandleReceivePiece, Receiving
<1>2. CASE phase' = "writing"
  <2>1. p \in Piece /\ writing' = p
    BY <1>2 DEF HandleReceivePiece, Handled
  <2>2. Disk!BeginWrite("manager", p)
    BY <1>1, <1>2, <2>1 DEF Disk!BeginWrite, Disk!Becomes, Disk!Idle, Disk!Write
  <2> QED
    BY <2>1, <2>2 DEF Disk!DiskNext
<1>3. CASE phase' # "writing"
  BY <1>1, <1>3, NoDiskStep
<1> QED
  BY <1>2, <1>3

\* The outcome of a write, before it is known and when it is.
LEMMA WritesEnd ==
    ASSUME IInv, WriteLands \/ WriteOk \/ WriteErr
    PROVE  Disk!DiskNext
<1>1. phase = "writing" /\ writing \in Piece
  BY DEF WriteLands, WriteOk, WriteErr, IInv, WritingIsVerified
<1>2. CASE WriteLands
  <2>1. persisted' = persisted \cup {writing} /\ UNCHANGED <<phase, writing>>
    BY <1>2, StoredIsAdded DEF WriteLands
  <2>2. Disk!WriteLands("manager", writing)
    BY <1>1, <2>1 DEF Disk!WriteLands, Disk!Write
  <2> QED
    BY <1>1, <2>2 DEF Disk!DiskNext
<1>3. CASE WriteOk
  <2>1. persisted' = persisted \cup {writing} /\ phase' # "writing"
    BY <1>3, StoredIsAdded DEF WriteOk, Handled
  <2>2. Disk!WriteSucceeds("manager", writing)
    BY <1>1, <2>1
       DEF Disk!WriteSucceeds, Disk!Ends, Disk!Becomes, Disk!Write, Disk!Idle
  <2> QED
    BY <1>1, <2>2 DEF Disk!DiskNext
<1>4. CASE WriteErr
  <2>1. persisted' = persisted /\ phase' # "writing"
    BY <1>4 DEF WriteErr, Handled
  <2>2. Disk!WriteFails("manager", writing)
    BY <1>1, <2>1
       DEF Disk!WriteFails, Disk!Ends, Disk!Becomes, Disk!Write, Disk!Idle
  <2> QED
    BY <1>1, <2>2 DEF Disk!DiskNext
<1> QED
  BY <1>2, <1>3, <1>4

\* Every step of the manager is a step of its disk or nothing to it.
LEMMA NextUsesDisk ==
    ASSUME IInv, [Next]_vars
    PROVE  [Disk!DiskNext]_(Disk!diskVars)
<1>1. CASE UNCHANGED vars
  BY <1>1, NoDiskStep DEF vars
<1>2. CASE Setup
  BY <1>2, NoDiskStep DEF Setup, SetDiskIO, AddPeer, RemovePeer, StartRun
<1>3. CASE HandleEvent
  <2>1. CASE \E p \in AnyPiece, o \in AnyBegin, d \in Payload : HandleReceivePiece(p, o, d)
    BY <2>1, ReceivePieceWrites
  <2>2. CASE \/ \E ip \in Peer, bf \in Bitfields : HandleBitfield(ip, bf)
             \/ \E ip \in Peer, p \in AnyPiece : HandleHave(ip, p)
             \/ \E ip \in Peer : HandleUnchoke(ip)
             \/ \E ip \in Peer : PeerDisconnected(ip)
             \/ OtherEvent
    <3>1. persisted' = persisted /\ phase # "writing" /\ phase' # "writing"
      BY <2>2 DEF HandleBitfield, HandleHave, HandleUnchoke, PeerDisconnected, OtherEvent,
         Receiving, Handled
    <3> QED
      BY <3>1, NoDiskStep
  <2> QED
    BY <1>3, <2>1, <2>2 DEF HandleEvent
<1>4. CASE WriteOk \/ WriteErr \/ WriteLands
  BY <1>4, WritesEnd
<1>5. CASE RecvNone \/ SendCommand \/ FinishEvent
  <2>1. persisted' = persisted /\ phase # "writing" /\ phase' # "writing"
    BY <1>5 DEF RecvNone, SendCommand, FinishEvent, Handled
  <2> QED
    BY <2>1, NoDiskStep
<1>6. CASE CloseChannel \/ \E ip \in Peer : TakeCommand(ip) \/ ConnectionEnds(ip)
  <2>1. UNCHANGED <<persisted, phase, writing>>
    BY <1>6 DEF CloseChannel, TakeCommand, ConnectionEnds
  <2> QED
    BY <2>1, NoDiskStep
<1>7. CASE Restart
  <2>1. persisted' = persisted /\ phase' # "writing"
    BY <1>7 DEF Restart
  <2>2. Disk!Restart
    BY <2>1 DEF Disk!Restart, Disk!Idle
  <2> QED
    BY <2>2 DEF Disk!DiskNext
<1> QED
  BY <1>1, <1>2, <1>3, <1>4, <1>5, <1>6, <1>7 DEF Next, Proceed, Surroundings

\* What the manager relies on when it marks and announces a piece is no more than
\* PieceDisk promises.
THEOREM DiskUse == Spec => UsesPieceDisk
<1>1. Init => Disk!DiskInit
  BY DEF Init, Disk!DiskInit, Disk!Idle
<1>2. IInv /\ [Next]_vars => [Disk!DiskNext]_(Disk!diskVars)
  BY NextUsesDisk
<1> QED
  BY <1>1, <1>2, Invariance, PTL DEF Spec, UsesPieceDisk, Disk!DiskSpec
=============================================================================
