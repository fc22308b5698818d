SPECIFICATION Spec
CONSTANTS
    Requests = {r1, r2, r3}
    Blocks = {b1, b2, b3, b4}
    NullBlock = NullBlock
    FullGroups = {}
    SWGroups = {"sw"}
    Prompt <- TwoPrompts
    PromptLen = 3
    MaxLen = 4
    OffloadLimit = 3
    BlockSizeFactor = 2
    Window = 2
    MaxChunk = 2
    NumWorkers = 1
    Capacity = 1
    BlockLevel = TRUE
    PrefixCaching = FALSE
    Async = FALSE
    MaxJobs = 3
    MaxResets = 0
SYMMETRY BlockSymmetry
INVARIANTS
    LoadsReadStoredData
