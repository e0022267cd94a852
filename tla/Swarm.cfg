SPECIFICATION FairSwarmSpec
CONSTANTS
    a = a
    b = b
    Peer = {a, b}
    Registering = {a}
    NumPieces = 2
    PieceLength = 1
    BlockSize = 1
    TotalSize = 2
    ByteBits = 1
    CmdCap = 1
    Bitfields <- MCBitfields
    NoBitfield = NoBitfield
    Unregistered = Unregistered
    PeerMessages <- MCMessages
    EventCap = 1
    QueueCap = 1
    MaxMessages <- MCMaxMessages
CHECK_DEADLOCK FALSE
INVARIANTS
    TasksTypeOK
    EventsKeepOrder
    StrangersAreNotAsked
PROPERTIES
    EventsAreReceived
    TasksEnd
