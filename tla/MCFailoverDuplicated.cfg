SPECIFICATION Spec
CONSTANTS
    c1 = c1
    c2 = c2
    Clusters = {c1, c2}
    MaxReplicas = 1
    Placements <- Grows
    Duplicated = TRUE
    Rebalance = FALSE
    Taints = {"none", "noExecute"}
    MaxEvents = 1
    MaxReports = 2
    MaxFaults = 1
    NoPlacement = NoPlacement
    Same = Same
INVARIANTS ConfirmedSomewhere
CHECK_DEADLOCK FALSE
