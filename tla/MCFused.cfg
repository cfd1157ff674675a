SPECIFICATION Spec
CONSTANTS
    MAX_INODES = 4
    MAX_CHILDREN = 2
    Name = {a, b, c}
    Byte = {0, 1}
    Data <- OneByte
    DirSize = 1
    NoFile = NoFile
    Dir = Dir
    FaultyDisk = FALSE
    MaxSize = 2
SYMMETRY Symmetry
VIEW StateView
INVARIANTS
    TypeOK FsInv EntriesSound OneName MountReachable ReadBack
PROPERTIES
    FailuresLeaveNoTrace OnlyCrashesLeak ImplementsServer
