SPECIFICATION Spec
CONSTANTS
    c1 = c1
    c2 = c2
    Clusters = {c1, c2}
    MaxReplicas = 2
    Placements <- Anywhere
    Duplicated = FALSE
    Rebalance = TRUE
    Taints = {"none"}
    MaxEvents = 2
    MaxReports = 0
    MaxFaults = 0
    NoPlacement = NoPlacement
    Same = Same
INVARIANTS RescheduleIsRemembered
CHECK_DEADLOCK FALSE
