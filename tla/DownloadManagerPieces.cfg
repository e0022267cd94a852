SPECIFICATION Spec
CONSTANTS
    Peer = {a, b}
    NumPieces = 2
    PieceLength = 1
    BlockSize = 1
    TotalSize = 2
    ByteBits = 1
    CmdCap = 1
    Bitfields <- MCBitfields
    NoBitfield = NoBitfield
    Unregistered = Unregistered
SYMMETRY PeerSymmetry
INVARIANTS
    TypeOK
    WrittenIsPersisted
    HaveIsPersisted
    GapsAreFailedWrites
PROPERTIES
    DiskIsStable
    ImplementsStore
    UsesPieceDisk
