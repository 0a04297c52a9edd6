SPECIFICATION Spec
CONSTANTS
  Flows = {f1, f2}
  Tests <- MCTests
  Interval = 1
  RingSize = 2
  MaxTime = 5
CONSTRAINT LateAlone
SYMMETRY Symmetry
INVARIANTS SumHeld SumAccounts KeepsUp
PROPERTY FinalSumComplete
CHECK_DEADLOCK FALSE
