SPECIFICATION Spec
CONSTANTS
    Users = {f, u1, u2}
    Founder = f
    Actors = {f, u1, u2}
    Invites = {i1}
    Requests = {r1, r2}
    GrantRoles = {"admin", "member"}
SYMMETRY Symmetry
\* A deleted workspace stays deleted.
CHECK_DEADLOCK FALSE
INVARIANTS
    TypeOK
    AtMostOneOwner
PROPERTIES
    TransferNeverVacates
    InviteKeepsRoles
    JoinClosesInvitation
