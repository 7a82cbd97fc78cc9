SPECIFICATION Spec
CONSTANTS
    m1 = m1
    m2 = m2
    Manifests = {m1}
    Overwrite = FALSE
    Preserve = FALSE
    Warm = TRUE
    Reports = FALSE
    Moves <- OneRemoval
    Absent = Absent
INVARIANTS GoneLeavesNothing
CHECK_DEADLOCK FALSE
