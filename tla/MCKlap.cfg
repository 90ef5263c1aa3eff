SPECIFICATION Spec
CONSTANTS
    Logins = {own, default, other}
    Candidates = {own, default}
    LoginVersion = 2
    SeqBits = 2
    MaxQueries = 3
INVARIANTS
    TypeOK
    KeysAgree
PROPERTIES
    NonceFresh
    FailureExplained
