SPECIFICATION FairSpec
CONSTANTS
    Buffer = 3
    Header = 2
    Tests <- MCTests
INVARIANTS FramesAligned Accounted Lockstep
PROPERTIES TrafficEnds
CHECK_DEADLOCK FALSE
