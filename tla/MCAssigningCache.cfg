SPECIFICATION Spec
CONSTANTS
    b1 = b1
    b2 = b2
    c1 = c1
    c2 = c2
    Bindings = {b1, b2}
    Clusters = {c1, c2}
    Gone = Gone
    MaxWrites = 4
    MaxFaults = 1
SYMMETRY Symmetry
INVARIANTS TypeOK Separated ItemsAreReleased
CHECK_DEADLOCK FALSE
