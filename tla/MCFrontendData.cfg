SPECIFICATION CreatedSpec
CONSTANTS
    Byte = {0, 1, 2}
    NoFile = NoFile
    Node = {1, 2}
    Active = {1, 2}
    Thread = {t1}
    Storage <- ThreeNodes
    MAX_REPLICAS = 3
    FileId = {1}
    Path <- OneFile
    Payload <- Data
    Offset = {0}
    Op = {"Write", "Get"}
    NULL = NULL
    MaxCalls = 3
    MaxFaults = 1
INVARIANTS
    AckedOnQuorum AckedDisjoint GetSound FrontInv
CHECK_DEADLOCK FALSE
