SPECIFICATION Spec
CONSTANTS
    MAX_BYTES = 7
    TRUNCATE_BYTES = 4
    F64_EXACT = 4
    INT4_BITS = 4
    Render <- MCRender
    Digits <- MCDigits
    Servers = {"s1", "s2"}
    ServerNames = {"s1", "s2", "s3"}
    Target <- MCTarget
    CallOptions <- MCCallOptions
    Filters <- MCFilters
    Published <- MCPublished
    SymbolOrder <- MCSymbolOrder
    MaxCalls = 2
    MaxUser = 2

INVARIANTS
    Idempotent
    PlanUnique
PROPERTIES
    RegenerateExact
    
CHECK_DEADLOCK FALSE
