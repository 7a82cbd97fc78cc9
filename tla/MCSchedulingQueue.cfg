SPECIFICATION Spec
CONSTANTS
    b1 = b1
    b2 = b2
    w1 = w1
    w2 = w2
    Bindings = {b1, b2}
    Workers = {w1, w2}
    Priorities = {1, 2}
    None = None
    MaxChanges = 2
    MayClose = TRUE
SYMMETRY Symmetry
INVARIANTS NoBindingForgotten NoLostWakeup
PROPERTIES Implements
CHECK_DEADLOCK FALSE
