CONSTANTS
    Conns = {c1, c2, c3}
    Loops = {l1, l2}
    None = none
    MaxPending = 1
SPECIFICATION Spec
CHECK_DEADLOCK FALSE
INVARIANT ClosedLeavesServer
