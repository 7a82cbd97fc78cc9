SPECIFICATION Spec
CONSTANTS
    c1 = c1
    c2 = c2
    Clusters = {c1, c2}
    MaxReplicas = 2
    Placements <- Moves
    Duplicated = FALSE
    Rebalance = TRUE
    Taints = {"none", "noSchedule", "noExecute"}
    MaxEvents = 1
    MaxReports = 1
    MaxFaults = 1
    NoPlacement = NoPlacement
    Same = Same
INVARIANTS ObservedIsConfirmed
PROPERTIES TaskEndsForCause
CHECK_DEADLOCK FALSE
