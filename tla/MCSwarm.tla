------------------------------- MODULE MCSwarm -------------------------------
(* An instance of Swarm for TLC: a peer the manager knows and a stranger. *)
EXTENDS Swarm

CONSTANTS a, b

MCBitfields == {[len |-> 1, has |-> {0}]}

PieceMessage(p) == [type |-> "Piece", piece |-> p, begin |-> 0, data |-> "good"]

\* The known peer announces the first piece and has the second.  The stranger has
\* the first and may send it again, which makes the manager announce it twice.
MCMessages ==
    a :> {[type |-> "Bitfield", bitfield |-> [len |-> 1, has |-> {0}]],
          [type |-> "UnChoke"], PieceMessage(1)}
    @@ b :> {[type |-> "UnChoke"], [type |-> "Have", piece |-> 0], PieceMessage(0)}

\* Enough to fill every channel of the circle.
MCMaxMessages == a :> 2 @@ b :> 2
=============================================================================
