SPECIFICATION FairSpec
CONSTANTS
    Requests = {r1, r2, r3}
    Blocks = {b1, b2}
    NullBlock = NullBlock
    FullGroups = {"full"}
    SWGroups = {}
    Prompt <- TwoPrompts
    PromptLen = 1
    MaxLen = 2
    OffloadLimit = 3
    BlockSizeFactor = 1
    Window = 1
    MaxChunk = 1
    NumWorkers = 1
    Capacity = 1
    BlockLevel = TRUE
    PrefixCaching = TRUE
    Async = FALSE
    MaxJobs = 2
    MaxResets = 0
PROPERTIES
    FinishedAreForgotten
    LoadsEnd
