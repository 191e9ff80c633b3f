SPECIFICATION Spec
CONSTANTS
    MAX_TIMEOUT_MS = 3
    DEFAULT_TIMEOUT_MS = 2
    DEFAULT_CACHE_TTL_MS = 2
    Users = {a, b}
    MaxFaults = 1
    MAX_LIST_PAGES = 2
    TableTtls = {0}
    ToolListed = {0, 2}
    MaxVersion = 1
    MaxClock = 1
    MaxStatements = 2
    MaxAlters = 1
    FirstServers <- MCFirst
    ServerChoices <- MCServers
    MappingChoices <- MCMappings
SYMMETRY MCSymmetry
INVARIANTS
    CallsOnce
    OwnSession
    InitializedOnce
    ClearOnlyToLoopback
PROPERTIES
    NoticeHonoured
    FreshEnough
CHECK_DEADLOCK FALSE
