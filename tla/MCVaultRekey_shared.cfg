SPECIFICATION Spec
CONSTANTS
    Users = {u1, u2}
    Temps = {u1, u2}
    Teams = {t1}
    Items = {i1}
    GrantRoles = {"manager"}
    MaxVersion = 2
    MaxContent = 2
    MaxRemovals = 0
SYMMETRY Symmetry
\* The bounds on versions and edits end every behaviour.
CHECK_DEADLOCK FALSE
INVARIANTS
    TypeOK
    NoFutureGeneration
PROPERTIES
    RotationIsComplete
