SPECIFICATION Spec
CONSTANTS
    Entities = {1, 2, 3}
    Tags = {3}
    Rels = {1, 2}
    Targets = {3}
    Actions = {"Delete", "Panic"}
    MaxAdds = 3
    Reactive = TRUE
CHECK_DEADLOCK FALSE
INVARIANTS CleanupInv
PROPERTIES CallHonoursPolicies CleanupEnds
