SPECIFICATION Spec
CONSTANTS
    Users = {f, u1, u2, u3}
    Founder = f
    Actors = {u1, u2, u3}
    Invites = {i1, i2}
    Requests = {r1, r2}
    GrantRoles = {"admin", "auditor", "member"}
SYMMETRY Symmetry
\* A deleted workspace stays deleted.
CHECK_DEADLOCK FALSE
PROPERTY AdminsCannotMint
