\* Two connections, queues of two, two messages: what becomes of a message.
SPECIFICATION Spec
CONSTANTS
    alice = alice
    bob = bob
    Fds <- MCFds2
    Users <- MCUsers
    ReLogin = FALSE
    Broadcasts = FALSE
    Timeouts = TRUE
    Restarts = TRUE
    MaxId = 2
    MaxQueue = 2
    MaxBurst = 1
SYMMETRY UserSymmetry
INVARIANTS
    TypeOK
    OneCopy
    QueueOrder
    StoredNewest
