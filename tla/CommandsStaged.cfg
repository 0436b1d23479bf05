SPECIFICATION LiveSpec
CONSTANTS
    Ids = {e1}
    MaxGen = 0
    Comps = {A}
    Data = {A}
    NonTrivial = {}
    Values = {0, 1}
    Default = 0
    NoComp = NoComp
    NoValue = NoValue
    stage_count = 2
    MaxDefer = 2
    MaxIssued = 3
    Kinds = {"Remove", "Set", "Delete"}
    ImmediateKinds = {"Set"}
    Reactions = {"Add", "Delete"}
    NestedReactions = {"Add", "Remove"}
INVARIANTS SameAsSequential
PROPERTIES FlushesEnd
