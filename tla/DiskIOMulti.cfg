SPECIFICATION Spec
CONSTANTS
    Task = {t1}
    Layouts <- MultiFiles
    WriteTo <- AllWrites
    PieceLength = 2
    WordSize = 64
INVARIANT
    OkMeansOnDisk
