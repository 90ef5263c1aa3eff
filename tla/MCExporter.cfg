SPECIFICATION Spec
CONSTANTS
    Names = {"device", "plug", "strip"}
    Defaults = {"device", "plug", "strip"}
    Hosts = {"h1"}
    Aliases = {"", "lamp", "desk"}
    Hardware <- MCHardware
    Settings <- MCSettings
    Paths <- MCPaths
    MaxArgs = 2
    MaxRounds = 2
INVARIANTS
    TypeOK
    StartsAsAsked
    OneRegistry
    OneCollectorPerDevice
PROPERTIES
    SeriesStable
CHECK_DEADLOCK FALSE
