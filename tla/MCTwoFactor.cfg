SPECIFICATION Spec
CONSTANTS
    Requests = {r1, r2}
    MaxNow = 2
    MaxSecrets = 1
    MaxCodes = 2
    MaxSessions = 3
SYMMETRY RequestSymmetry
\* Every bound may be used up with the requests at rest.
CHECK_DEADLOCK FALSE
INVARIANTS
    StepUsedOnce
    BackupCodeOpensOneSession
