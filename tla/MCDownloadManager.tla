-------------------------- MODULE MCDownloadManager --------------------------
(* Instances of DownloadManager for TLC. *)
EXTENDS DownloadManager

\* No byte at all; the first piece only, in one byte; everything.
MCBitfields ==
    {[len |-> 0, has |-> {}],
     [len |-> 1, has |-> {0}],
     [len |-> 2, has |-> 0 .. NumPieces - 1]}

PeerSymmetry == Permutations(Peer)
=============================================================================
