SPECIFICATION Spec
CONSTANTS
    Requests = {r1, r2, r3}
    Prompt <- ForkedPrompts
    Factor = 2
    Capacity = 2
    Async = TRUE
    MaxStores = 5
    MaxResets = 1
INVARIANTS
    TypeOK
    PayloadsBelongToStores
    ResidentChunksAreIndexed
    TailsNotOvercredited
    ParentsAreAnnounced
