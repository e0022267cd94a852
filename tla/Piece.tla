-------------------------------- MODULE Piece --------------------------------
(***************************************************************************)
(* Blocks, pieces and the piece table of one torrent: the operators of     *)
(* core/peer/piece/block.rs, piece.rs and piece_manager.rs.                *)
(*                                                                         *)
(* A payload is abstracted to what the code can tell apart: the bytes the  *)
(* torrent has at that place ("good"), other bytes of the right length     *)
(* ("bad"), or a payload of another length ("short").  SHA-1 is taken to   *)
(* separate the right content of a piece from every other one.             *)
(***************************************************************************)
EXTENDS Integers

CONSTANTS
    Peer,         \* the peers, keyed in the code by IPv4 address and port
    NumPieces,    \* number of piece hashes in the torrent
    PieceLength,  \* "piece length" of the torrent, in bytes
    BlockSize,    \* transfer unit, in bytes
    TotalSize     \* sum of the lengths of the torrent's files, in bytes

ASSUME PieceAssumption ==
    /\ NumPieces \in Nat
    /\ PieceLength \in Nat \ {0}
    /\ BlockSize \in Nat \ {0}
    /\ TotalSize \in Nat

-----------------------------------------------------------------------------
(* Layout. *)

Piece == 0 .. NumPieces - 1

\* Every piece gets the same blocks: the constructor is given PieceLength for
\* each of them, the last one included.
Offsets == {o \in 0 .. PieceLength - 1 : o % BlockSize = 0}

\* The code narrows what is left of the piece to 32 bits.  That changes nothing for
\* a piece the constructor ever returns: from 2^32 bytes on the narrowed rest is
\* what each turn of its loop advances by at most, so that the rest stays at 2^32
\* or above and the loop never ends.  PieceLength stands for the shorter ones.
BlockLength(o) ==
    IF PieceLength - o < BlockSize THEN PieceLength - o ELSE BlockSize

\* The torrent has PieceLength bytes for this piece, so that a buffer of
\* PieceLength bytes can have the piece's hash.
Whole(p) == (p + 1) * PieceLength <= TotalSize

-----------------------------------------------------------------------------
(* Blocks. *)

Content == {"good", "bad"}
Payload == Content \cup {"short"}

Missing == [st |-> "Missing"]
Requested(ip) == [st |-> "Requested", peer |-> ip]
Received(d) == [st |-> "Received", data |-> d]

Block ==
    {Missing} \cup {Requested(ip) : ip \in Peer} \cup {Received(d) : d \in Content}

\* Data of the wrong length is ignored; data of the right length is stored
\* whatever the block held before.
ReceiveData(b, d) == IF d \in Content THEN Received(d) ELSE b

BlockIsComplete(b) == b \in {Received(d) : d \in Content}

-----------------------------------------------------------------------------
(* Pieces: [state, blocks].  "Incomplete" is in the code's enumeration; no   *)
(* step of the program assigns it.                                          *)

PieceStates == {"Missing", "Incomplete", "Complete", "Written"}
PieceRecord == [state : PieceStates, blocks : [Offsets -> Block]]

NewPiece == [state |-> "Missing", blocks |-> [o \in Offsets |-> Missing]]

\* Mutant: a block already requested from someone keeps its first peer.
RequestFromPeerOnce(pc, o, ip) ==
    IF o \in Offsets /\ pc.blocks[o] = Missing
    THEN [pc EXCEPT !.blocks[o] = Requested(ip)] ELSE pc

RequestFromPeer(pc, o, ip) ==
    IF o \in Offsets THEN [pc EXCEPT !.blocks[o] = Requested(ip)] ELSE pc

MissingBlocks(pc) == {o \in Offsets : ~BlockIsComplete(pc.blocks[o])}

IsFullyDownloaded(pc) == MissingBlocks(pc) = {}

\* What a timeout would do: requests older than Block::TIMEOUT, at the offsets
\* expired, become missing again.  No step of the program calls it.
ResetTimeoutRequests(pc, expired) ==
    [pc EXCEPT !.blocks =
        [o \in Offsets |->
            IF o \in expired /\ pc.blocks[o] \in {Requested(ip) : ip \in Peer}
            THEN Missing ELSE pc.blocks[o]]]

HashMatches(p, pc) ==
    Whole(p) /\ \A o \in Offsets : pc.blocks[o] = Received("good")

\* Mutant: the hash is not compared.
VerifyUnchecked(p, pc) == [pc EXCEPT !.state = "Complete"]

\* Mutant: a failed check leaves the blocks as they are.
VerifyKeepsBlocks(p, pc) ==
    IF HashMatches(p, pc) THEN [pc EXCEPT !.state = "Complete"]
    ELSE [pc EXCEPT !.state = "Missing"]

\* A piece that fails the check is reset: state and every block.
Verify(p, pc) ==
    IF HashMatches(p, pc) THEN [pc EXCEPT !.state = "Complete"] ELSE NewPiece

\* Mutant: a piece that was complete before is not checked again.
ReceiveBlockTrusting(p, pc, o, d) ==
    IF o \notin Offsets THEN pc
    ELSE LET stored == [pc EXCEPT !.blocks[o] = ReceiveData(@, d)]
         IN  IF IsFullyDownloaded(stored) /\ pc.state = "Missing"
             THEN Verify(p, stored) ELSE stored

\* The check runs whenever the last missing block arrives, and again for every
\* payload that reaches a piece which already has all its blocks.
ReceiveBlock(p, pc, o, d) ==
    IF o \notin Offsets THEN pc
    ELSE LET stored == [pc EXCEPT !.blocks[o] = ReceiveData(@, d)]
         IN  IF IsFullyDownloaded(stored) THEN Verify(p, stored) ELSE stored

IsComplete(pc) == pc.state \in {"Complete", "Written"}

\* State and blocks agree, and a complete piece has the right content.
Consistent(p, pc) ==
    /\ IsComplete(pc) <=> IsFullyDownloaded(pc)
    /\ IsComplete(pc) => HashMatches(p, pc)

\* Mutant: the piece is asked for its data as if the check were still to come.
HasPieceDataUnverified(pc) == pc.state # "Complete" /\ IsFullyDownloaded(pc)

\* The buffer handed to the disk exists in state Complete only.
HasPieceData(pc) == pc.state = "Complete" /\ IsFullyDownloaded(pc)

MarkWritten(pc) == [pc EXCEPT !.state = "Written"]

-----------------------------------------------------------------------------
(* The piece table, a function from Piece to piece records. *)

NewPieces == [p \in Piece |-> NewPiece]

Wanted(pieces) == {p \in Piece : pieces[p].state \in {"Missing", "Incomplete"}}

\* get_next_piece_to_download scans the indices in increasing order: the set
\* holds the first wanted one, and is empty where the code returns None.
NextPiece(pieces, available) ==
    LET wanted == available \cap Wanted(pieces)
    IN  {p \in wanted : \A q \in wanted : p <= q}

IsDownloadComplete(pieces) == \A p \in Piece : IsComplete(pieces[p])
=============================================================================
