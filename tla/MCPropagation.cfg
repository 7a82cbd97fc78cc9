SPECIFICATION FairSpec
CONSTANTS
    c1 = c1
    c2 = c2
    t1 = t1
    t2 = t2
    Clusters = {c1, c2}
    Templates = {t1, t2}
    Overrides = {0, 1}
    Dependents <- OneDependent
    NoTemplate = NoTemplate
    Gone = Gone
    NoWork = NoWork
    MaxEvents = 2
    MaxFaults = 2
INVARIANTS QuietMeansPropagated GoneLeavesNoWork
PROPERTIES OldBeforeNew Settles TemplateTakesBinding
CHECK_DEADLOCK FALSE
