\* A text without '|' or line break.
SPECIFICATION Spec
CONSTANTS
    Users <- MCUsers
    Texts <- PlainTexts
    MaxSaved = 3
INVARIANT
    TypeOK
PROPERTIES
    TotalCounts
    InboxSpec
