\* Two connections at a time: one of each client, or a new and a former one of
\* the same client. Each connects once, and one of them again.
SPECIFICATION Spec
CONSTANTS
    alice = alice
    bob = bob
    Fds <- MCFds
    Users <- MCUsers
    MaxGroups = 1
    MaxMessages = 2
    MaxFlight = 2
    MaxConnects = 3
SYMMETRY UserSymmetry
INVARIANTS
    TypeOK
    MembersOnly
    SameOrder
    GroupsShown
