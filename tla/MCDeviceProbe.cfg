SPECIFICATION Spec
CONSTANTS
    Names = {"lamp", "desk"}
    Timeout = 8
    MaxFaults = 0
INVARIANTS
    ProbedUntilFound
