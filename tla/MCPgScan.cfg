\* One statement at a time over a small server: every clause shape, every
\* handler, parameters bound to values and to NULL, one rescan, a tool whose
\* definition changes under a prepared statement.
CONSTANTS
    Render <- MCRender
    F64_EXACT = 4
    INT4_BITS = 4
    Queries <- MCQueries
    Lists <- MCLists
    Contents <- MCContents
    Prompts <- MCPrompts
    Completion <- MCCompletion
    ServerInfo <- MCServerInfo
    Log <- MCLog
    ToolDefs <- MCToolDefs
    Result <- MCResult
    Scoped <- MCScoped
    Bytes <- MCBytes
    MaxPasses = 2
SPECIFICATION Spec
INVARIANTS
    
    
    RequestsJustified
    ValuesFaithful
