SPECIFICATION Spec
CONSTANTS
    Entities = {1, 2, 3, 4}
    Tags = {3}
    Rels = {1}
    Targets = {3}
    Actions = {"Delete"}
    MaxAdds = 4
    Reactive = FALSE
PROPERTY DeleteHonoursPolicies
