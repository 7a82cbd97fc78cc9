SPECIFICATION FairSpec
CONSTANTS
    Policies = {1, 2}
    Contents <- Competing
    Preemptors = {2}
    Initial = {1}
    None = None
    MaxEvents = 2
INVARIANTS TypeOK NoPolicyMissed ClaimIsAlive ClaimIsCurrent BindingFollowsClaim
PROPERTIES Settles
CHECK_DEADLOCK FALSE
