SPECIFICATION CleanSpec
CONSTANTS
    Requests = {r1, r2}
    Blocks = {b1, b2, b3, b4, b5}
    NullBlock = NullBlock
    FullGroups = {"full"}
    SWGroups = {}
    Prompt <- SamePrompt
    PromptLen = 3
    MaxLen = 5
    OffloadLimit = 3
    BlockSizeFactor = 2
    Window = 1
    MaxChunk = 2
    NumWorkers = 2
    Capacity = 3
    BlockLevel = TRUE
    PrefixCaching = FALSE
    Async = FALSE
    MaxJobs = 3
    MaxResets = 0
SYMMETRY BlockSymmetry
INVARIANTS
    NoException
    StoresReadTheirData
    LoadsOwnTheirBlocks
    StatusFollowsRequest
PROPERTIES
    ImplementsTransfers
