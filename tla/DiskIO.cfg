SPECIFICATION Spec
CONSTANTS
    Task = {t1, t2}
    Layouts <- AllLayouts
    WriteTo <- SafeWrites
    PieceLength = 2
    WordSize = 64
INVARIANTS
    TypeOK
    OkMeansOnDisk
    ReadReturnsPiece
PROPERTIES
    RightStaysRight
    ImplementsPieceDisk
