SPECIFICATION Spec
CONSTANTS
    MaxQueries = 3
    MaxFaults = 3
INVARIANTS
    TypeOK
    SessionWhole
PROPERTIES
    FailureExplained
