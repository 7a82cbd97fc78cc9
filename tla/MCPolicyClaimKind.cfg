SPECIFICATION Spec
CONSTANTS
    Policies = {1}
    Contents <- OtherKind
    Preemptors = {}
    Initial = {1}
    None = None
    MaxEvents = 2
INVARIANTS DeletionFreesTemplate
CHECK_DEADLOCK FALSE
