SPECIFICATION Spec
CONSTANTS
    Requests = {r1, r2}
    Blocks = {b1, b2, b3}
    NullBlock = NullBlock
    FullGroups = {"full"}
    SWGroups = {}
    Prompt <- SamePrompt
    PromptLen = 2
    MaxLen = 3
    OffloadLimit = 3
    BlockSizeFactor = 1
    Window = 1
    MaxChunk = 1
    NumWorkers = 1
    Capacity = 2
    BlockLevel = TRUE
    PrefixCaching = TRUE
    Async = TRUE
    MaxJobs = 3
    MaxResets = 0
SYMMETRY BlockSymmetry
INVARIANTS
    LoadsIssuedAlone
