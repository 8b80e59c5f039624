\* Three connections, so that a user may have two besides the sender.
SPECIFICATION Spec
CONSTANTS
    alice = alice
    bob = bob
    Fds <- MCFds3
    Users <- MCUsers
    ReLogin = FALSE
    Broadcasts = FALSE
    Timeouts = TRUE
    Restarts = FALSE
    MaxId = 1
    MaxQueue = 1
    MaxBurst = 1
SYMMETRY UserSymmetry
INVARIANTS
    TablesAgree
    RouteSound
    ReachableDrained
PROPERTIES
    OnlyToAddressee
    NoSilentDrop
