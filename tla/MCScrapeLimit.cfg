SPECIFICATION ScrapeSpec
CONSTANTS
    Requests = {r1, r2}
    Names = {plug, bulb, hub}
    Enabled = {plug, bulb}
    MaxRequests = 1
    Callers <- MCCallers
    Sweepers = {}
    Closers = {}
    Hosts = {h1}
    Manual = {h1}
    Discovery = FALSE
    KeepMissing = {FALSE}
    CacheTTL = 1
    DiscoveryInterval = 1
    Concurrency = 1
    MaxTime = 2
    Nobody = Nobody
SYMMETRY ScrapeSymmetry
INVARIANTS
    ParallelScrapesLimited
