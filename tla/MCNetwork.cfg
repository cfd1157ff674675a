SPECIFICATION Spec
CONSTANTS
    Peer = {1, 2}
    Thread = {t1}
    Fd = {5, 6, 7}
    MAX_PENDING_CONNECTIONS = 1
INVARIANTS
    SentToPeer
