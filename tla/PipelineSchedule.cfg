CONSTANTS
    Careless = {}
    Pipelines <- MCPipelines
SPECIFICATION Spec
INVARIANTS ScheduleInv SyncBeforeRead RanAsDeclared RunsOnce
PROPERTIES RunEnds
