SPECIFICATION WaitFairSpec
CONSTANTS
    Scans = {s1}
    Slots = {w1, w2}
    NoScan = NoScan
    Target = s1
    Results <- MCResults
    MaxFaults = 1
    MaxDisturbances = 1
    Interval = 2
    Timeout = 4
INVARIANT VerdictIsFinal
PROPERTY WaitEnds
CHECK_DEADLOCK FALSE
