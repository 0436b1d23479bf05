SPECIFICATION Spec
CONSTANTS
    TableSlots = 3
    FastSlots = 2
    VersionLimit = 4
    FastLimit = 64
    Ids = {e1, e2}
    Refs = {r}
    Applications = {{"idle"}}
    MaxGen = 1
    MaxChanges = 8
INVARIANTS
    RefGetAlways
CHECK_DEADLOCK FALSE
