SPECIFICATION FairSpec
CONSTANTS
    Users = {u1, u2}
    Asks = {a1}
    Slots = {s1, s2}
    Sweepers = {w1}
    Roles = {"manager"}
\* Once the requests are used up and everybody has left, nothing happens.
CHECK_DEADLOCK FALSE
INVARIANTS
    TypeOK
    TemporaryNeedsDecision
    AutoDenialIsOnce
PROPERTIES
    ExpiredIsSwept
    StaleIsClosed
