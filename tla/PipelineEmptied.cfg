CONSTANTS
    Careless = {"aperiodic"}
    Pipelines <- OneSystem
SPECIFICATION Spec
INVARIANT NonEmptyIsActive
