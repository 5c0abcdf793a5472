SPECIFICATION Spec
CONSTANTS
    Requests = {r1, r2}
    Threshold = 1
    MaxFails = 1
    MaxStamps = 5
    Derived = {2}
    MaxSessions = 3
SYMMETRY RequestSymmetry
\* Every bound may be used up with the requests at rest.
CHECK_DEADLOCK FALSE
INVARIANTS
    UnlockProvesFactor
    NoSessionOutlivesReset
