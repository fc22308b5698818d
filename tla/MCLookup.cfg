SPECIFICATION FairSpec
CONSTANTS
    FullGroups <- OneFull
    SWGroups <- TwoSW
    BlockTokens <- NestedBlocks
    Window <- NestedWindow
    BlockSizeFactor = 1
    NumTokens = {6, 8}
    LocalHits = {0, 4}
    MaxUnsettled = 1
INVARIANTS
    TypeOK
    HitIsServable
    HitIsLongest
    LoadsAreConfirmed
    NoLoadTwice
    LoadsAreTouched
    StoredPrefixIsHit
PROPERTIES
    LookupEnds
