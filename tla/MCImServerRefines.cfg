\* The server against its two abstract specifications.
SPECIFICATION Spec
CONSTANTS
    alice = alice
    bob = bob
    Fds <- MCFds2
    Users <- MCUsers
    ReLogin = FALSE
    Broadcasts = TRUE
    Timeouts = TRUE
    Restarts = TRUE
    MaxId = 1
    MaxQueue = 1
    MaxBurst = 2
SYMMETRY UserSymmetry
PROPERTIES
    LossExplained
    CMOnce
    MailboxSpec
