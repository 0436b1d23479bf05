CONSTANTS
    Chains <- AllChains
    Offsets = {0, 1, 3}
    Limits = {0, 1, 3}
    Workers = 3
    MaxResults = 3
    MaxCount = 4
    Batch = 3
    Firsts = {0, 1}
    OffsetOnOffset = FALSE
    UnlimitedOnEmpty = FALSE
    SharedBatches = FALSE
    TermlessThreads = FALSE
SPECIFICATION Spec
CHECK_DEADLOCK FALSE
INVARIANTS ChainInv ResultsExact EachOnce
PROPERTIES NextReturns
