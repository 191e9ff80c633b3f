SPECIFICATION FairSpec
CONSTANTS
    MAX_TIMEOUT_MS = 3
    DEFAULT_TIMEOUT_MS = 2
    DEFAULT_CACHE_TTL_MS = 2
    Users = {a}
    MaxFaults = 1
    MAX_LIST_PAGES = 2
    TableTtls = {0}
    ToolListed = {0, 2}
    MaxVersion = 1
    MaxClock = 1
    MaxStatements = 2
    MaxAlters = 0
    FirstServers <- MCFirst
    ServerChoices <- MCServers
    MappingChoices <- MCMappings
PROPERTIES
    StatementEnds
CHECK_DEADLOCK FALSE
