SPECIFICATION Spec
CONSTANTS
    MAX_INODES = 2
    MAX_CHILDREN = 2
    Name = {a, b, c}
    Byte = {0, 1}
    Data <- AllData
    DirSize = 1
    NoFile = NoFile
    Dir = Dir
    FaultyDisk = TRUE
    MaxSize = 2
SYMMETRY Symmetry
PROPERTIES
    AppendsAtEnd
