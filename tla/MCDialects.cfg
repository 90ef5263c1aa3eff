SPECIFICATION Spec
CONSTANTS
    NOutlets = 2
    MaxFaults = 3
    MaxCount = 2
INVARIANTS
    TypeOK
    NoDeadQuestions
PROPERTIES
    TotalNeverFalls
    CompleteReading
    SettledCost
