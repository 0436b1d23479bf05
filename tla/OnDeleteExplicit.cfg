SPECIFICATION Spec
CONSTANTS
    Entities = {1, 2, 3, 4}
    Tags = {2}
    Rels = {1}
    Targets = {3}
    Actions = {"Remove", "Delete"}
    MaxAdds = 5
    Reactive = FALSE
PROPERTY CallHonoursPolicies
