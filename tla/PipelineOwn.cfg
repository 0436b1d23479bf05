CONSTANTS
    Careless = {}
    Pipelines <- OwnPipelines
SPECIFICATION Spec
INVARIANT AssertionsHold
