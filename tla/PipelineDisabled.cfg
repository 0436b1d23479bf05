CONSTANTS
    Careless = {"disable"}
    Pipelines <- ThreeSystems
SPECIFICATION Spec
INVARIANT RunsOnce
