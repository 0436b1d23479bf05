SPECIFICATION Spec
CONSTANTS
    MaxId = 3
    GenCount = 3
    Careless = {}
CONSTRAINT BeforeOverrun
INVARIANTS RangesInv
PROPERTIES IssuedInRange
