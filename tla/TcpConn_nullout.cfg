CONSTANTS
    Threads = {a}
    Loop = loop
    MsgLen = 2
    MaxSends = 2
    MaxSignals = 2
SPECIFICATION Spec
INVARIANT SendIsSafeAfterComplete
CHECK_DEADLOCK FALSE
