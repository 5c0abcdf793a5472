SPECIFICATION EditSpec
CONSTANTS
    Tabs = {t1, t2}
    Cleanups = {d1}
    Keep = 1
    MaxEdits = 3
SYMMETRY TabSymmetry
\* The item may be gone and every tab at rest.
CHECK_DEADLOCK FALSE
INVARIANTS
    VersionsAreLatest
    NoEditCollides
PROPERTIES
    OnlyChangedFieldsMove
    FreshEditKeepsIndex
