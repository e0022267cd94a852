SPECIFICATION Spec
CONSTANTS
    PeerMessages <- MCShort
    Commands <- MCCommands
    OwnBitfield <- MCOwnBitfield
    Messages <- MCMessages
    CmdCap = 1
    EventCap = 1
    MaxSent = 1
    MaxIssued = 1
    MaxLength = 60
CHECK_DEADLOCK FALSE
INVARIANTS
    ReadsStartAtFrames
