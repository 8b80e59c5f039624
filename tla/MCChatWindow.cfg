SPECIFICATION Spec
CONSTANTS
    Accounts <- MCAccounts
    Contacts <- MCContacts
    Peers <- MCPeers
    GroupBase = 10
    MaxGroups = 1
    MaxMessages = 2
    MaxConnects = 2
    MaxLife = 2
CHECK_DEADLOCK FALSE
INVARIANTS
    WindowTypeOK
    LoginReflected
    ShownIsHistory
    FiledOnce
PROPERTIES
    NothingVanishes
    ClickAnswered
