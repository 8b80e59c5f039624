\* Registrations, restarts, saves that fail or are cut off, and mail for ids.
SPECIFICATION Spec
CONSTANTS
    Names <- MCNames
    FirstWord <- MCFirstWord
    Seeds <- MCSeeds
    Passwords = {"p", "q"}
    SeedPassword = "p"
    Junk = "junk"
    MaxId = 3
    MaxAccounts = 3
    MaxMail = 1
INVARIANTS
    TypeOK
    AccountsKept
    MailToMeant
CHECK_DEADLOCK FALSE
