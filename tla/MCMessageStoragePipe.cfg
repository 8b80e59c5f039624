\* A text with a '|' in it.
SPECIFICATION Spec
CONSTANTS
    Users <- MCUsers
    Texts <- PipedTexts
    MaxSaved = 3
CHECK_DEADLOCK FALSE
INVARIANT
    FieldsReadBack
