SPECIFICATION FairSpec
CONSTANTS
    c1 = c1
    c2 = c2
    Clusters = {c1, c2}
    Reports = {"failed", "applied"}
    AppliedReports = {"applied"}
    New = New
    None = None
    Gone = Gone
    MaxEvents = 3
    MaxFaults = 1
INVARIANTS StatusReflectsWorks TemplateReflectsBinding
PROPERTIES Settles
CHECK_DEADLOCK FALSE
