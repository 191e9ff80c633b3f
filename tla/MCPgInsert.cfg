\* Three statements in one, two or three transactions, up to two changes by the
\* DBA or the server, a call log of two.
CONSTANTS
    Render <- MCRender
    F64_EXACT = 4
    INT4_BITS = 4
    LOG_CAP = 2
    Statements <- MCStatements
    ToolDefs <- MCToolDefs
    CallResults <- MCCallResults
    MaxStatements = 3
    MaxDba = 2
SPECIFICATION Spec
INVARIANTS
    LogIsRecent
    AuditExact
    CallPerRow
