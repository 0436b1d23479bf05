SPECIFICATION SpuriousSpec
CONSTANTS
    MaxWorkers = 2
    MaxOps = 1
INVARIANT SignalledOnlyWhenSynced
