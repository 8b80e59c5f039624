\* The clocks of the server in units of 30 s.
SPECIFICATION PresenceSpec
CONSTANTS
    Fds <- MCFds
    Users <- MCUsers
    QtUsers <- MCQtUsers
    Beat = 1
    Period = 1
    UserTimeout = 2
    ConnTimeout = 10
INVARIANTS
    PresenceTypeOK
    SilentGone
    SoleUsersRouted
PROPERTY
    BeatersStay
