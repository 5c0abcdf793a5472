SPECIFICATION Spec
CONSTANTS
    Users = {u1}
    Temps = {}
    Teams = {}
    Items = {i1}
    GrantRoles = {"manager"}
    MaxVersion = 2
    MaxContent = 2
    MaxRemovals = 1
SYMMETRY Symmetry
\* The bounds on versions and edits end every behaviour.
CHECK_DEADLOCK FALSE
INVARIANT LiveItemsOnCurrentKey
