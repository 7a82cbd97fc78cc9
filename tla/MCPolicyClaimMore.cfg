SPECIFICATION Spec
CONSTANTS
    Policies = {1, 2}
    Contents <- Anything
    Preemptors = {2}
    Initial = {1}
    None = None
    MaxEvents = 2
INVARIANTS TypeOK NoPolicyMissed ClaimIsAlive ClaimIsCurrent BindingFollowsClaim
CHECK_DEADLOCK FALSE
