SPECIFICATION FairSpec
CONSTANTS
    BufLen = 3
    Bins = 1
    Header = 2
    RetryCount = 1
    MaxNet = 2
    Period = 2
    MaxIntervals = 1
    MaxClock = 2
    Initial <- MCInitial
    Smallest <- MCSmallest
    Tests <- MCTests
INVARIANTS NumbersDense LossAccounted HistogramAccounts EvenNow AlphaMeasured ReductionsApart
PROPERTIES DatagramsEnd
CHECK_DEADLOCK FALSE
