\* The constants of MCPgScan.cfg, for the one promise the code does not keep.
CONSTANTS
    Render <- MCRender
    F64_EXACT = 4
    INT4_BITS = 4
    Queries <- MCQueries
    Lists <- MCLists
    Contents <- MCContents
    Prompts <- MCPrompts
    Completion <- MCCompletion
    ServerInfo <- MCServerInfo
    Log <- MCLog
    ToolDefs <- MCToolDefs
    Result <- MCResult
    Scoped <- MCScoped
    Bytes <- MCBytes
    MaxPasses = 2
SPECIFICATION Spec
INVARIANT PushdownSound
