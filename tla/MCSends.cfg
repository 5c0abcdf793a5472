SPECIFICATION FairSpec
CONSTANTS
    Requests = {r1, r2, r3, r4}
    Knows = {r1, r2, r3}
    Burns = {b1, b2}
    MaxViews = 2
\* Every request ends and is not repeated.
CHECK_DEADLOCK FALSE
INVARIANTS
    TypeOK
    ViewsWithinBudget
    NoViewInGrace
PROPERTIES
    BurnIsFinal
    NoViewAfterEnd
    PaidViewsDelivered
    PromiseSpec
