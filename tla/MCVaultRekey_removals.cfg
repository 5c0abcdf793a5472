SPECIFICATION Spec
CONSTANTS
    Users = {u1, u2}
    Temps = {}
    Teams = {}
    Items = {i1}
    GrantRoles = {"manager", "viewer"}
    MaxVersion = 2
    MaxContent = 1
    MaxRemovals = 1
SYMMETRY Symmetry
\* The bounds on versions and edits end every behaviour.
CHECK_DEADLOCK FALSE
INVARIANTS
    TakenBackIsFlagged
PROPERTIES
    RotationIsComplete
    CustodySpec
