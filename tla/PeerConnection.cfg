SPECIFICATION Spec
CONSTANTS
    PeerMessages <- MCHaves
    Commands <- MCCommands
    OwnBitfield <- MCOwnBitfield
    Messages <- MCMessages
    CmdCap = 2
    EventCap = 1
    MaxSent = 2
    MaxIssued = 2
    MaxLength = 60
CHECK_DEADLOCK FALSE
INVARIANTS
    TypeOK
    ChokeIsReported
    CommandsKeepOrder
    ParserInvertsSerializer
    CutOffIsRejected
