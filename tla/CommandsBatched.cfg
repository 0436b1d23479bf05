SPECIFICATION Spec
CONSTANTS
    Ids = {e1}
    MaxGen = 1
    Comps = {A, T}
    Data = {A}
    NonTrivial = {A}
    Values = {0, 1}
    Default = 0
    NoComp = NoComp
    NoValue = NoValue
    stage_count = 1
    MaxDefer = 1
    MaxIssued = 3
    Kinds = {"Add", "DeleteWith"}
    ImmediateKinds = {"Delete"}
    Reactions = {"Add", "Delete"}
    NestedReactions = {"Add"}
INVARIANT SameAsSequential
