SPECIFICATION Spec
CONSTANTS
    Node = {1, 2, 3}
    Proposers = {1, 2}
    Thread = {t1, t2}
    MaxProposals = 1
    Value = {v1}
    NULL = NULL
    MaxCalls = 2
SYMMETRY Symmetry
INVARIANTS
    FailedNeverApplied SuccessApplied CommitHasQuorum AppliedOnce ProposerAgreement
PROPERTIES
    ImplementsLog
CHECK_DEADLOCK FALSE
