CONSTANTS
    Threads = {a}
    Loop = loop
    MsgLen = 2
    MaxSends = 2
    MaxSignals = 2
SPECIFICATION Spec
INVARIANTS TypeOK UnsentIsWatched SentInOrder NothingVanishes CompleteMeansGone ClosedIsDeaf ClosedOnce FewLateSends
PROPERTY BufferedBytesLeave
CHECK_DEADLOCK FALSE
