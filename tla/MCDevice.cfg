SPECIFICATION LiveSpec
CONSTANTS
    Names = {"lamp", "desk"}
    Timeout = 8
    MaxFaults = 2
INVARIANTS
    TypeOK
    SeriesKept
    FewRejectedLogins
PROPERTIES
    Recovers
