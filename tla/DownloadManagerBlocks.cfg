SPECIFICATION FairSpec
CONSTANTS
    Peer = {a, b}
    NumPieces = 1
    PieceLength = 3
    BlockSize = 2
    TotalSize = 3
    ByteBits = 1
    CmdCap = 1
    Bitfields <- MCBitfields
    NoBitfield = NoBitfield
    Unregistered = Unregistered
INVARIANTS
    NoLimbo
    RequestIsMarked
PROPERTIES
    DeadPeersDoNotBlock
    CompletionIsNoticed
