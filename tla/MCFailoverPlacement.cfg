SPECIFICATION Spec
CONSTANTS
    c1 = c1
    c2 = c2
    Clusters = {c1, c2}
    MaxReplicas = 2
    Placements <- Moves
    Duplicated = FALSE
    Rebalance = FALSE
    Taints = {"none"}
    MaxEvents = 4
    MaxReports = 0
    MaxFaults = 0
    NoPlacement = NoPlacement
    Same = Same
INVARIANTS ConfirmedWithinPlacement
CHECK_DEADLOCK FALSE
