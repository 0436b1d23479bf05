SPECIFICATION Spec
CONSTANTS
    TableSlots = 2
    FastSlots = 2
    VersionLimit = 64
    FastLimit = 64
    Ids = {e1, e2}
    Refs = {r}
    Applications = {{"idle", "dont_fragment"}}
    MaxGen = 1
    MaxChanges = 5
INVARIANTS
    RefGetAlways
CHECK_DEADLOCK FALSE
