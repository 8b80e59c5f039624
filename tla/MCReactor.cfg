\* Two connections that send two packets in all.
SPECIFICATION Spec
CONSTANTS
    Conns <- MCConns2
    Size = 2
    Cap = 1
    MaxSay = 2
INVARIANTS
    TypeOK
    StreamIntact
    InterestFollowsQueue
PROPERTIES
    RoomSpec
    EventuallyHeard
CHECK_DEADLOCK FALSE
