SPECIFICATION FairSpec
CONSTANTS
    Scans = {s1, s2}
    Slots = {w1, w2}
    NoScan = NoScan
    Results <- MCResults
    MaxFaults = 1
    MaxDisturbances = 0
PROPERTIES
    ImplementsScanJob
    EnqueuedScanEnds
CHECK_DEADLOCK FALSE
