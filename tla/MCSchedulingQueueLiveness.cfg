SPECIFICATION FairSpec
CONSTANTS
    b1 = b1
    b2 = b2
    w1 = w1
    w2 = w2
    Bindings = {b1, b2}
    Workers = {w1, w2}
    Priorities = {1}
    None = None
    MaxChanges = 1
    MayClose = FALSE
PROPERTIES EveryChangeIsTaken
CHECK_DEADLOCK FALSE
