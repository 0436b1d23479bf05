CONSTANTS
    Iters = {i1, i2, i3}
    PageSize = 3
    MaxPages = 4
    Sizes = {2, 4}
    Aligns = {1, 2}
    MaxInit = 1
    MaxLate = 1
    LateAnywhere = FALSE
SPECIFICATION Spec
SYMMETRY Symmetry
INVARIANTS StackInv NothingLeft
PROPERTIES OwnMemory
