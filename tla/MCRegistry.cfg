SPECIFICATION Spec
CONSTANTS
    Callers = {c1, c2}
    Sweepers = {s1, s2}
    Closers = {k1}
    Hosts = {h1, h2}
    Manual = {h1}
    Discovery = TRUE
    KeepMissing = {FALSE}
    CacheTTL = 1
    DiscoveryInterval = 1
    Concurrency = 1
    MaxTime = 3
    Nobody = Nobody
SYMMETRY ThreadSymmetry
INVARIANTS
    TypeOK
    OneSweep
    ReadsBounded
    ScrapeNeverWaitsOnRead
    OnlyFirstRoundSweepsInline
    FirstSnapshotSwept
    ManualReported
PROPERTIES
    ImplementsFleetView
