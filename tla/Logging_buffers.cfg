CONSTANTS
    Cap = 4057
    Lens = {0, 4057}
    MaxBuffers = 2
    MaxRecords = 3
    MaxFailures = 2
    SmallSize = 4000
    MaxDecLength = 32
    Threads = {t1, t2}
    Statements <- MCStatements
    Levels = {0, 3}
SPECIFICATION LoggingSpec
CHECK_DEADLOCK FALSE
INVARIANTS LoggingTypeOK SparesSuffice KeptInOrder LinesAreAccepted LinesFit ShortLinesAreWhole NumbersReadBack
PROPERTIES RecordsGetOut StopReturns
