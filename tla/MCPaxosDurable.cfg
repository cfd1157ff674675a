SPECIFICATION Spec
CONSTANTS
    Node = {1, 2, 3}
    Proposers = {1, 2}
    Thread = {t1}
    MaxProposals = 1
    Value = {v1}
    NULL = NULL
    MaxCalls = 2
INVARIANTS
    CommittedDurable
CHECK_DEADLOCK FALSE
