SPECIFICATION Spec
CONSTANTS
    Requests = {r1, r2}
    Blocks = {b1, b2, b3, b4}
    NullBlock = NullBlock
    FullGroups = {"full"}
    SWGroups = {"sw"}
    Prompt <- TwoPrompts
    PromptLen = 2
    MaxLen = 3
    OffloadLimit = 3
    BlockSizeFactor = 2
    Window = 2
    MaxChunk = 2
    NumWorkers = 1
    Capacity = 3
    BlockLevel = TRUE
    PrefixCaching = TRUE
    Async = TRUE
    MaxJobs = 3
    MaxResets = 1
SYMMETRY BlockSymmetry
INVARIANTS
    TypeOK
    ReportsAreExpected
    Bookkeeping
    LoadsReadStoredData
    DiscardedStoresReadTheirData
