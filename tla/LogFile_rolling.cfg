CONSTANTS
    RollSize = 2
    FlushInterval = 1
    CheckEveryN = 2
    Day = 4
    Never = never
    MaxLen = 2
    MaxRecords = 3
    MaxTime = 5
    MaxJumps = 1
SPECIFICATION Spec
CHECK_DEADLOCK FALSE
INVARIANTS TypeOK AcceptedIsWhole OverdueIsNoticed
PROPERTY AppendReturns
