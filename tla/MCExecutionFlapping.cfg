SPECIFICATION Spec
CONSTANTS
    m1 = m1
    m2 = m2
    Manifests = {m1}
    Overwrite = FALSE
    Preserve = FALSE
    Warm = TRUE
    Reports = TRUE
    Moves <- Flapping
    Absent = Absent
INVARIANTS AlwaysReported
CHECK_DEADLOCK FALSE
