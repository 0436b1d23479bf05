SPECIFICATION Spec
CONSTANTS
    MaxId = 3
    GenCount = 2
    Careless = {}
PROPERTY EndRespected
