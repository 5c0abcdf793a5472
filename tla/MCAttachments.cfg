SPECIFICATION FairSpec
CONSTANTS
    Items = {i1}
    Uploads = {u1, u2, u3}
    Doomed = {u1}
    Desks = {d1, d2, d3}
    Quota = 1
    MaxParallel = 2
\* Every request ends and is not repeated.
CHECK_DEADLOCK FALSE
INVARIANTS
    MissingBlobMeansPurge
    QuotaOvershoot
PROPERTIES
    PurgeSurvivesStorage
