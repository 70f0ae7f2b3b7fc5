SPECIFICATION Spec
CONSTANTS
    Scans = {s1, s2}
    Slots = {w1, w2}
    NoScan = NoScan
    Results <- MCResults
    MaxFaults = 1
    MaxDisturbances = 2
SYMMETRY Symmetry
INVARIANT TypeOK
INVARIANT TaskFindsItsJob
INVARIANT PublishedTogether
INVARIANT OneExecution
INVARIANT NothingSilentlyLost
INVARIANT RaisedIsReported
INVARIANT CountsBackedByRows
PROPERTY StatusAdvances
CHECK_DEADLOCK FALSE
