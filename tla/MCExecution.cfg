SPECIFICATION FairSpec
CONSTANTS
    m1 = m1
    m2 = m2
    Manifests = {m1}
    Overwrite = FALSE
    Preserve = FALSE
    Warm = TRUE
    Reports = TRUE
    Moves <- Removed
    Absent = Absent
INVARIANTS QuietMeansReported
PROPERTIES DeletionEnds
CHECK_DEADLOCK FALSE
