SPECIFICATION SpecUnbounded
CONSTANTS
    MaxId = 3
    GenCount = 2
INVARIANT NoIdOverflow
