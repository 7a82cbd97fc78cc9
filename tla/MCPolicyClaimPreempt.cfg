SPECIFICATION FairSpec
CONSTANTS
    Policies = {1, 2}
    Contents <- Priorities
    Preemptors = {2}
    Initial = {1, 2}
    None = None
    MaxEvents = 1
PROPERTIES DeprioritizedIsPreempted
CHECK_DEADLOCK FALSE
