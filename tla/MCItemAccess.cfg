SPECIFICATION Spec
CONSTANTS
    Users = {m, a, b}
    Teams = {t}
    Sharers = {a, b}
    Creator = a
    Auditors = {b}
    Roles = {2, 3}
    StartRoles = {0, 2}
    MaxShares = 2
INVARIANTS
    BatchAgrees
    RoleOpensItem
    NoRankIsMinted
