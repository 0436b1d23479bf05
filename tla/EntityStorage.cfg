SPECIFICATION Spec
CONSTANTS
    MaxId = 3
    GenCount = 2
    Comps = {A, B}
    Data = {A}
    Values = {0, 1}
    Default = 0
INVARIANTS StorageInv
PROPERTIES ImplementsStore
