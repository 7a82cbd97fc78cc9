SPECIFICATION Spec
CONSTANTS
    Clusters = {1, 2, 3}
    Replicas = {0, 1, 4}
    Estimators = {"general"}
    Reports <- FewReports
    Placements <- Several
    Descending = FALSE
    MaxInt32 = 127
INVARIANTS UnlimitedIsPlaced
