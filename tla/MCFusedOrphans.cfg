SPECIFICATION Spec
CONSTANTS
    MAX_INODES = 4
    MAX_CHILDREN = 2
    Name = {a, b, c}
    Byte = {0, 1}
    Data <- AllData
    DirSize = 1
    NoFile = NoFile
    Dir = Dir
    FaultyDisk = FALSE
    MaxSize = 1
SYMMETRY Symmetry
INVARIANTS
    AllReachable
