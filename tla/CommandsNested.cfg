SPECIFICATION Spec
CONSTANTS
    Ids = {e1}
    MaxGen = 0
    Comps = {A}
    Data = {A}
    NonTrivial = {}
    Values = {0, 1}
    Default = 0
    NoComp = NoComp
    NoValue = NoValue
    stage_count = 2
    MaxDefer = 1
    MaxIssued = 3
    Kinds = {"Add", "Remove"}
    ImmediateKinds = {"Delete"}
    Reactions = {"Add", "Delete"}
    NestedReactions = {"Delete"}
INVARIANT TargetsPresent
