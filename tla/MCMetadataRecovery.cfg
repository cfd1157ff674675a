SPECIFICATION LocalSpec
CONSTANTS
    FileId = {f1}
    Thread = {t1}
    FileSize = {1}
    MaxLsn = 3
    MaxNodes = 1
    Modulus = 8
SYMMETRY Symmetry
PROPERTIES
    Recovered
