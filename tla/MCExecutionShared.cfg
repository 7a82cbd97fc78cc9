SPECIFICATION Spec
CONSTANTS
    m1 = m1
    m2 = m2
    Manifests = {m1, m2}
    Overwrite = FALSE
    Preserve = TRUE
    Warm = FALSE
    Reports = FALSE
    Moves <- Shared
    Absent = Absent
SYMMETRY Alike
INVARIANTS QuietMeansSynced GoneLeavesNothing
PROPERTIES UnmanagedNotOverwritten
CHECK_DEADLOCK FALSE
