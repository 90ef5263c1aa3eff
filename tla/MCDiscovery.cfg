SPECIFICATION LiveSpec
CONSTANTS
    Bits = {0}
    xorKey = {0}
    xorMaxPayload = 3
    Hosts = {h1, h2}
    Everyone = Everyone
    Packets = 2
    Timeout = 2
    Answers <- MCAnswers
INVARIANTS
    TypeOK
    MostSpecificWins
    MissedOnlyIfLost
    AnswerWhole
PROPERTIES
    SweepOver
