SPECIFICATION Spec
CONSTANTS
    MaxId = 3
    GenCount = 3
INVARIANTS
    TypeOK
    IndexCoherent
    DeletedStaysDead
PROPERTY ImplementsHandles
