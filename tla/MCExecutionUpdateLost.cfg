SPECIFICATION Spec
CONSTANTS
    m1 = m1
    m2 = m2
    Manifests = {m1, m2}
    Overwrite = FALSE
    Preserve = FALSE
    Warm = TRUE
    Reports = FALSE
    Moves <- OneUpdate
    Absent = Absent
INVARIANTS AlwaysSynced
CHECK_DEADLOCK FALSE
