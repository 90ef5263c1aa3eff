SPECIFICATION LiveSpec
CONSTANTS
    Callers = {c1, c2}
    Sweepers = {s1}
    Closers = {}
    Hosts = {h1, h2}
    Manual = {h1}
    Discovery = TRUE
    KeepMissing = {TRUE, FALSE}
    CacheTTL = 1
    DiscoveryInterval = 1
    Concurrency = 1
    MaxTime = 2
    Nobody = Nobody
PROPERTIES
    SnapshotReturns
    SweepEnds
    NeverVanishes
INVARIANTS
    SessionKept
