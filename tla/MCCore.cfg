SPECIFICATION Spec
CONSTANTS
    Requests = {r1, r2, r3}
    Blocks = {b1, b2, b3, b4}
    NullBlock = NullBlock
    FullGroups = {"full"}
    SWGroups = {"sw"}
    Prompt <- TwoPrompts
    PromptLen = 1
    MaxLen = 2
    OffloadLimit = 3
    BlockSizeFactor = 1
    Window = 1
    MaxChunk = 1
    NumWorkers = 2
    Capacity = 2
    BlockLevel = TRUE
    PrefixCaching = TRUE
    Async = FALSE
    MaxJobs = 3
    MaxResets = 0
SYMMETRY BlockSymmetry
INVARIANTS
    NoException
    StatusKept
    CountsAgree
    HeldBlocksKnown
    LoadingExact
PROPERTIES
    ImplementsTransfers
