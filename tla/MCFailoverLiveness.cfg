SPECIFICATION FairSpec
CONSTANTS
    c1 = c1
    c2 = c2
    Clusters = {c1, c2}
    MaxReplicas = 1
    Placements <- Anywhere
    Duplicated = FALSE
    Rebalance = FALSE
    Taints = {"none", "noExecute"}
    MaxEvents = 1
    MaxReports = 0
    MaxFaults = 1
    NoPlacement = NoPlacement
    Same = Same
PROPERTIES TaintedClusterIsLeft TasksEnd SchedulerSettles
CHECK_DEADLOCK FALSE
