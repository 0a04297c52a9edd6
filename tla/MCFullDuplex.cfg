SPECIFICATION FairSpec
CONSTANT
  Seconds = 2
INVARIANTS
  TogetherAtStart
  FreedOnce
  FinalSumOfBoth
PROPERTY
  BarrierEnds
CHECK_DEADLOCK FALSE
