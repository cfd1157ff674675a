SPECIFICATION FairSpec
CONSTANTS
    Byte = {0, 1}
    NoFile = NoFile
    Node = {1, 2}
    Active = {1}
    Thread = {t1, t2}
    Storage <- ThreeNodes
    MAX_REPLICAS = 3
    FileId = {1, 2}
    Path <- Tree
    Payload <- OneByte
    Offset = {0}
    Op = {"Create", "Mkdir", "Remove", "Rmdir", "Write", "Get"}
    NULL = NULL
    MaxCalls = 3
    MaxFaults = 1
INVARIANTS
    NameInv RollbackSafe
PROPERTIES
    RmdirStrandsNothing VersionsGrow RequestReturns
CHECK_DEADLOCK FALSE
