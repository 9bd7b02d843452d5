CONSTANTS
    always = always
    counted = counted
    Timers = {always, counted}
    Delay <- MCDelay
    Interval <- MCInterval
    Count <- MCCount
    Forever <- MCForever
    MinDelay = 1
    MaxLate = 1
    Horizon = 3
    MaxJumps = 2
SPECIFICATION Spec
INVARIANT RunsAtMostCount
