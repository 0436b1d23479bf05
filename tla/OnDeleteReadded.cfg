SPECIFICATION Spec
CONSTANTS
    Entities = {1, 2, 3, 4}
    Tags = {}
    Rels = {1}
    Targets = {3}
    Actions = {"Delete"}
    MaxAdds = 3
    Reactive = TRUE
INVARIANT NoReferenceLeft
