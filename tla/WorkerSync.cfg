SPECIFICATION LiveSpec
CONSTANTS
    MaxWorkers = 3
    MaxOps = 2
INVARIANTS SyncInv MainHasWorldAlone CommandsMerged
PROPERTIES ImplementsForkJoin CallsReturn
