-------------------------------- MODULE DiskIO --------------------------------
(***************************************************************************)
(* core/disk_io.rs: writing and reading pieces of a torrent that is stored *)
(* in one file or spread over several.                                     *)
(*                                                                         *)
(* A byte is represented by its offset in the torrent, so "the right byte" *)
(* of every position of every file is known; NoByte is what set_len fills  *)
(* a new file with.  Several tasks may use the same DiskIO: a call holds a  *)
(* file's mutex for one seek and one transfer, and gives way between files. *)
(***************************************************************************)
EXTENDS Integers, Sequences

CONSTANTS
    Task,         \* callers of write_piece and read_piece
    Layouts,      \* torrents: [single : BOOLEAN, files : Seq(Nat)], files by length
    WriteTo,      \* the writes of the instance: pairs of a layout and a piece
    PieceLength,  \* the u32 piece length given to DiskIO::new
    WordSize      \* 2^32 in the code: u32 products wrap around at it

ASSUME DiskAssumption ==
    /\ PieceLength \in Nat \ {0}
    /\ WordSize \in Nat \ {0}
    /\ \A l \in Layouts : /\ l.single \in BOOLEAN
                          /\ l.files \in Seq(Nat)
                          /\ l.single => Len(l.files) = 1
    /\ WriteTo \subseteq Layouts \X Nat

VARIABLES
    layout,  \* the torrent's file_details
    disk,    \* contents of each file, a sequence of bytes
    op       \* what each task is doing

vars == <<layout, disk, op>>

-----------------------------------------------------------------------------
(* Layout arithmetic. *)

NoByte == -1

\* Offset in the torrent at which each of the files begins; the one behind the
\* last file is the length of the torrent.
Starts(files) ==
    LET sum[i \in 1 .. Len(files) + 1] ==
            IF i = 1 THEN 0 ELSE sum[i - 1] + files[i - 1]
    IN  sum

Before == Starts(layout.files)

Total == Before[Len(layout.files) + 1]

U32(n) == n % WordSize

PieceOffset(p) == U32(p * PieceLength)

\* The file the code finds for an offset: the only one, or the first that ends
\* beyond it.  Files of length zero are passed over.
FileAt(offset) ==
    IF layout.single THEN 1
    ELSE CHOOSE i \in DOMAIN layout.files :
            /\ Before[i] + layout.files[i] > offset
            /\ \A j \in 1 .. i - 1 : Before[j] + layout.files[j] <= offset

\* Where the seek of the multi-file path is right: a piece at offset 0, whose parts
\* go to the beginnings of their files, or one whose bytes are all in files that
\* begin with the torrent.  In a single file that is every piece.
SeeksRight(l, p) ==
    p = 0 \/ \A i \in DOMAIN l.files : \A q \in 1 .. l.files[i] :
                 (Starts(l.files)[i] + q - 1) \div PieceLength = p => Starts(l.files)[i] = 0

\* Mutant: the first offset beyond the torrent is accepted.
InBoundsClosed(p) == PieceOffset(p) <= Total

InBounds(p) == PieceOffset(p) < Total

\* The bytes a piece has, and their number.
PieceBytes(p) ==
    IF p * PieceLength < Total /\ Total < (p + 1) * PieceLength
    THEN Total - p * PieceLength ELSE PieceLength

DataOf(p) == [k \in 1 .. PieceBytes(p) |-> p * PieceLength + k - 1]

\* The size of the buffer of read_piece, with its own wrap-around.
ReadSize(p) ==
    IF U32((p + 1) * PieceLength) > Total THEN Total - PieceOffset(p) ELSE PieceLength

RightByte(i, q) == Before[i] + q - 1

RightFiles == [i \in DOMAIN layout.files |-> [q \in 1 .. layout.files[i] |-> RightByte(i, q)]]
EmptyFiles == [i \in DOMAIN layout.files |-> [q \in 1 .. layout.files[i] |-> NoByte]]

\* One piece more than the torrent has, so that the bounds check matters.
AnyPiece == 0 .. (Total + PieceLength - 1) \div PieceLength

\* The pieces the torrent has.
Inside == {p \in AnyPiece : p * PieceLength < Total}

\* The file holds the right bytes of every position of piece p.
OnDisk(p) ==
    \A i \in DOMAIN layout.files : \A q \in 1 .. layout.files[i] :
        RightByte(i, q) \div PieceLength = p => disk[i][q] = RightByte(i, q)

-----------------------------------------------------------------------------
(* Calls. *)

Idle == [kind |-> "idle"]
Failed == [kind |-> "err"]

\* set_len: cut, or filled up with NoByte.
SetLen(file, n) == [q \in 1 .. n |-> IF q <= Len(file) THEN file[q] ELSE NoByte]

\* Bytes written at a position; a gap before it reads as NoByte.
Overwrite(file, position, bytes) ==
    LET end == position + Len(bytes)
        size == IF Len(file) < end THEN end ELSE Len(file)
    IN  [q \in 1 .. size |->
            IF q > position /\ q <= end THEN bytes[q - position]
            ELSE IF q <= Len(file) THEN file[q] ELSE NoByte]

\* The files may be new, or left complete by an earlier run.
Init ==
    /\ layout \in Layouts
    /\ disk \in {EmptyFiles, RightFiles}
    /\ op = [t \in Task |-> Idle]

WriteStart(t, p) ==
    /\ op[t] = Idle
    /\ <<layout, p>> \in WriteTo
    /\ LET offset == PieceOffset(p)
           i == FileAt(offset)
       IN  op' = [op EXCEPT ![t] =
                    IF InBounds(p)
                    THEN [kind |-> "write", piece |-> p, file |-> i,
                          at |-> offset - Before[i], data |-> DataOf(p)]
                    ELSE Failed]
    /\ UNCHANGED <<layout, disk>>

\* `expect` remembers whether the piece was on disk when the call began.
ReadStart(t, p) ==
    /\ op[t] = Idle
    /\ LET offset == PieceOffset(p)
           i == FileAt(offset)
       IN  op' = [op EXCEPT ![t] =
                    IF InBounds(p)
                    THEN [kind |-> "read", piece |-> p, file |-> i,
                          at |-> offset - Before[i], left |-> ReadSize(p),
                          buf |-> <<>>, expect |-> OnDisk(p)]
                    ELSE Failed]
    /\ UNCHANGED <<layout, disk>>

\* How much of n bytes goes to or comes from file i at offset at: all of them
\* in a single-file torrent, what the file has room for otherwise.
ChunkSize(n, i, at) ==
    IF layout.single \/ n < layout.files[i] - at THEN n ELSE layout.files[i] - at

\* Mutant: pieces counted from one.
WritePositionFromOne(o) == U32((o.piece + 1) * PieceLength)

\* The seek of both write paths: the piece's offset in the torrent, also in the
\* multi-file path, where the offset in the file was computed as o.at.
WritePosition(o) == PieceOffset(o.piece)

\* One turn of the loop over the files; bytes left over behind the last file
\* are dropped.
WriteChunk(t) ==
    /\ op[t].kind = "write"
    /\ LET o == op[t]
           n == ChunkSize(Len(o.data), o.file, o.at)
           rest == SubSeq(o.data, n + 1, Len(o.data))
       IN  /\ disk' = IF n = 0 THEN disk
                      ELSE [disk EXCEPT ![o.file] =
                              Overwrite(@, WritePosition(o), SubSeq(o.data, 1, n))]
           /\ op' = [op EXCEPT ![t] =
                       IF rest = <<>> \/ o.file = Len(layout.files)
                       THEN [kind |-> "written", piece |-> o.piece]
                       ELSE [o EXCEPT !.file = @ + 1, !.at = 0, !.data = rest]]
    /\ UNCHANGED layout

\* Mutant: the offset in the file is not reset for the next file.
ReadChunkKeepsOffset(t) ==
    /\ op[t].kind = "read"
    /\ LET o == op[t]
           n == ChunkSize(o.left, o.file, o.at)
           read == o.buf \o SubSeq(disk[o.file], o.at + 1, o.at + n)
       IN  op' = [op EXCEPT ![t] =
                    IF o.at + n > Len(disk[o.file]) THEN Failed
                    ELSE IF o.left = n \/ o.file = Len(layout.files)
                    THEN [kind |-> "returned", piece |-> o.piece, buf |-> read,
                          expect |-> o.expect]
                    ELSE [o EXCEPT !.file = @ + 1, !.left = @ - n, !.buf = read]]
    /\ UNCHANGED <<layout, disk>>

\* read_exact fails at the end of the file.
ReadChunk(t) ==
    /\ op[t].kind = "read"
    /\ LET o == op[t]
           n == ChunkSize(o.left, o.file, o.at)
           read == o.buf \o SubSeq(disk[o.file], o.at + 1, o.at + n)
       IN  op' = [op EXCEPT ![t] =
                    IF o.at + n > Len(disk[o.file]) THEN Failed
                    ELSE IF o.left = n \/ o.file = Len(layout.files)
                    THEN [kind |-> "returned", piece |-> o.piece, buf |-> read,
                          expect |-> o.expect]
                    ELSE [o EXCEPT !.file = @ + 1, !.at = 0, !.left = @ - n, !.buf = read]]
    /\ UNCHANGED <<layout, disk>>

\* Mutant: the error of a write is dropped.
IoErrorDropped(t) ==
    /\ op[t].kind \in {"read", "write"}
    /\ op' = [op EXCEPT ![t] = IF @.kind = "read" THEN Failed
                               ELSE [kind |-> "written", piece |-> @.piece]]
    /\ UNCHANGED <<layout, disk>>

\* The system refuses a transfer; a write may have put part of it in place.
IoError(t) ==
    /\ op[t].kind \in {"read", "write"}
    /\ IF op[t].kind = "read" THEN UNCHANGED disk
       ELSE LET o == op[t]
            IN  \E k \in 0 .. ChunkSize(Len(o.data), o.file, o.at) :
                   disk' = IF k = 0 THEN disk
                           ELSE [disk EXCEPT ![o.file] =
                                   Overwrite(@, WritePosition(o), SubSeq(o.data, 1, k))]
    /\ op' = [op EXCEPT ![t] = Failed]
    /\ UNCHANGED layout

Return(t) ==
    /\ op[t].kind \in {"written", "returned", "err"}
    /\ op' = [op EXCEPT ![t] = Idle]
    /\ UNCHANGED <<layout, disk>>

\* Mutant: the files are opened with truncate(true).
ReopenTruncates ==
    /\ op' = [t \in Task |-> Idle]
    /\ disk' = EmptyFiles
    /\ UNCHANGED layout

\* The process ends at any await; DiskIO::new opens the files again without
\* truncating them and sets their lengths.
Reopen ==
    /\ op' = [t \in Task |-> Idle]
    /\ disk' = [i \in DOMAIN layout.files |-> SetLen(disk[i], layout.files[i])]
    /\ UNCHANGED layout

Next ==
    \/ \E t \in Task, p \in AnyPiece : WriteStart(t, p) \/ ReadStart(t, p)
    \/ \E t \in Task : WriteChunk(t) \/ ReadChunk(t) \/ IoError(t) \/ Return(t)
    \/ Reopen

Spec == Init /\ [][Next]_vars

-----------------------------------------------------------------------------
(* Properties. *)

\* Files keep the lengths of the torrent and hold bytes of the torrent only.
TypeOK ==
    /\ layout \in Layouts
    /\ DOMAIN disk = DOMAIN layout.files
    /\ \A i \in DOMAIN disk :
          /\ Len(disk[i]) = layout.files[i]
          /\ \A q \in DOMAIN disk[i] : disk[i][q] \in -1 .. Total - 1
    /\ \A t \in Task :
          op[t].kind \in {"idle", "err", "write", "read", "written", "returned"}

\* A byte that is right on disk stays right: writes of other pieces, writes
\* that fail half way and concurrent calls leave it alone.
RightStaysRight ==
    [][\A i \in DOMAIN disk : \A q \in 1 .. layout.files[i] :
          disk[i][q] = RightByte(i, q) => disk'[i][q] = RightByte(i, q)]_disk

\* write_piece returned Ok: every byte of the piece is where the file layout
\* puts it.  This is what the download manager relies on.
OkMeansOnDisk ==
    \A t \in Task : op[t].kind = "written" => OnDisk(op[t].piece)

\* A read of a piece that was on disk when the call began returns exactly its
\* bytes, across file borders and beside concurrent calls.
ReadReturnsPiece ==
    \A t \in Task :
        op[t].kind = "returned" /\ op[t].expect => op[t].buf = DataOf(op[t].piece)

-----------------------------------------------------------------------------
(* DiskIO implements PieceDisk. *)

\* The pieces on disk, of all that some torrent has.
Durable == {p \in Inside : OnDisk(p)}
AllPieces == UNION {0 .. Starts(l.files)[Len(l.files) + 1] : l \in Layouts}

\* What is left of a call without file, position and bytes.
PieceCall(c) ==
    CASE c.kind \in {"write", "written"} -> [kind |-> c.kind, piece |-> c.piece]
      [] c.kind = "read" -> [kind |-> "read", piece |-> c.piece, sure |-> c.expect]
      [] c.kind = "returned" ->
            [kind |-> "returned", piece |-> c.piece, right |-> c.buf = DataOf(c.piece)]
      [] OTHER -> c

PieceStore == INSTANCE PieceDisk
                  WITH Caller  <- Task,
                       Pieces  <- AllPieces,
                       durable <- Durable,
                       call    <- [t \in Task |-> PieceCall(op[t])]

\* Each transfer, refusal and restart is a step on whole pieces: a write that
\* is reported has put its piece on disk, a read that goes through several
\* files returns what was there, and nothing ever leaves the disk.
ImplementsPieceDisk == PieceStore!DiskSpec
=============================================================================
