SPECIFICATION FairSpec
CONSTANTS
    Node = {1, 2, 3}
    Proposers = {1}
    Thread = {t1}
    MaxProposals = 1
    Value = {v1}
    NULL = NULL
    MaxCalls = 2
INVARIANTS
    IInv LogInv DurableInv CommittedDurable
PROPERTIES
    ProposeReturns
CHECK_DEADLOCK FALSE
