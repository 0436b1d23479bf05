CONSTANTS
    Chains <- AllChains
    Offsets = {0, 1, 3}
    Limits = {0, 1, 3}
    Workers = 3
    MaxResults = 2
    MaxCount = 4
    Batch = 3
    Firsts = {0, 1}
    OffsetOnOffset = FALSE
    UnlimitedOnEmpty = TRUE
    SharedBatches = FALSE
    TermlessThreads = FALSE
SPECIFICATION Spec
CHECK_DEADLOCK FALSE
INVARIANT FinishedOnce
