--------------------------- MODULE MCPeerConnection ---------------------------
(***************************************************************************)
(* Small instances of PeerConnection, and of MessageCodec, for TLC.        *)
(***************************************************************************)
EXTENDS MessageCodec

MCOwnBitfield == Bitfield(<<96>>)

MCCommands == {Bare("Interested"), Have(1)}

\* Without their prefix Have(0) and Have(1) are taken for a choke and an unchoke.
MCHaves == {Have(0), Have(1)}

\* A keep-alive is the shortest frame.
MCShort == MCHaves \cup {Bare("KeepAlive")}

\* Frames a usual session begins with.
MCSession ==
    {Bitfield(<<64>>), Bare("UnChoke"), Have(1), PieceMsg(0, 0, <<7>>)}

\* Every kind of message, with numbers of one and more bytes, empty payloads and
\* payloads that look like other messages.
MCMessages ==
    UNION {{Bare(t) : t \in BareTypes \cup {"KeepAlive"}},
           {Have(i) : i \in {0, 1, 300}},
           {Bitfield(bs) : bs \in {<<>>, <<64>>, <<1, 2, 3, 4>>}},
           {Ranged(t, i, 2, n) : t \in RangedTypes, i \in {0, 6, 65536}, n \in {1, 16384}},
           {PieceMsg(i, b, bs) : i \in {0, 7}, b \in {0, 256}, bs \in {<<>>, <<7>>, <<1, 2, 3>>}},
           {Port(n) : n \in {0, 80, 6881}}}
=============================================================================
