SPECIFICATION Spec
CONSTANTS
    Requests = {r1, r2, r3}
    Prompt <- OwnPrompts
    Factor = 1
    Capacity = 2
    Async = FALSE
    MaxStores = 5
    MaxResets = 0
INVARIANTS
    RemovedHashesWereStored
