SPECIFICATION Spec
CONSTANTS
    FileId = {f1}
    Thread = {t1, t2}
    FileSize = {1}
    MaxLsn = 2
    MaxNodes = 2
    Modulus = 8
SYMMETRY Symmetry
INVARIANTS
    TypeOK LsnGrowsInALife CallsInv AckedInLog TotalsExact
