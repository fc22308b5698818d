SPECIFICATION Spec
CONSTANTS
    Requests = {r1, r2}
    Blocks = {b1, b2, b3}
    NullBlock = NullBlock
    FullGroups = {}
    SWGroups = {"sw"}
    Prompt <- TwoPrompts
    PromptLen = 2
    MaxLen = 4
    OffloadLimit = 2
    BlockSizeFactor = 1
    Window = 1
    MaxChunk = 1
    NumWorkers = 1
    Capacity = 2
    BlockLevel = TRUE
    PrefixCaching = TRUE
    Async = FALSE
    MaxJobs = 3
    MaxResets = 0
SYMMETRY BlockSymmetry
INVARIANTS
    NoException
    StoresReadTheirData
    PendingTableExact
    LoadsOwnTheirBlocks
