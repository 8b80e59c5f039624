\* Three packets and two bytes of garbage, in pieces of every size.
SPECIFICATION Spec
CONSTANTS
    Magic <- MCMagic
    MaxBody = 4
    Packets <- MCPackets
    Garbage <- MCGarbage
    MaxSent = 3
    MaxGarbage = 2
    ReadSize = 9
CHECK_DEADLOCK FALSE
INVARIANTS
    TypeOK
PROPERTIES
    InOrder
    EventuallyHandled
