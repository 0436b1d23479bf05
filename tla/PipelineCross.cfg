CONSTANTS
    Careless = {}
    Pipelines <- CrossPipelines
SPECIFICATION Spec
INVARIANT SyncBeforeRead
