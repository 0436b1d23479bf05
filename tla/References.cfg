SPECIFICATION Spec
CONSTANTS
    TableSlots = 3
    FastSlots = 2
    VersionLimit = 7
    FastLimit = 64
    Ids = {e1, e2}
    Refs = {r}
    Applications = {{"idle", "on_move", "cleared"}, {"dont_fragment"}, {"set_version"}}
    MaxGen = 1
    MaxChanges = 5
CHECK_DEADLOCK FALSE
SYMMETRY Perms
INVARIANTS StoreInv RefGetExact
