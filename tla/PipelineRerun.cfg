CONSTANTS
    Careless = {"rerun"}
    Pipelines <- ThreeSystems
SPECIFICATION Spec
INVARIANT RunsOnce
