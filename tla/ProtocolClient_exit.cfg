SPECIFICATION Spec
CONSTANTS
  Enabled <- MCEnabled
  StartOffset <- MCStartOffset
  Period = 2
  RewardLength = 3
  MaxEpoch = 3
  MaxTime = 9
INVARIANTS NoneOpenOnExit
CHECK_DEADLOCK FALSE
