SPECIFICATION Spec
CONSTANTS
    MaxWorkers = 1
    MaxOps = 1
INVARIANT MultiThreadedIsConfigured
