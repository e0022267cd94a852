------------------------------- MODULE MCDiskIO -------------------------------
(* Instances of DiskIO for TLC. *)
EXTENDS DiskIO

\* The last piece shorter than the others, and of the same length.
SingleFiles == {[single |-> TRUE, files |-> <<5>>], [single |-> TRUE, files |-> <<4>>]}

\* Several pieces in the first file, a piece that spans files, several files in a
\* piece, files of length zero at the start, in a piece, between two and at the end.
MultiFiles ==
    {[single |-> FALSE, files |-> <<4, 1>>],
     [single |-> FALSE, files |-> <<3, 2>>],
     [single |-> FALSE, files |-> <<1, 0, 1, 3>>],
     [single |-> FALSE, files |-> <<0, 2, 0, 3, 0>>]}

AllLayouts == SingleFiles \cup MultiFiles

\* Every piece and the one beyond the torrent, also where the seek is wrong.
AllWrites == MultiFiles \X (0 .. 3)

\* The writes of which write_piece keeps its promise: of every piece of a single
\* file, of those in the first file, and of a first piece spread over several.
SafeWrites == {w \in AllLayouts \X (0 .. 3) : SeeksRight(w[1], w[2])}
=============================================================================
