SPECIFICATION MCSpec
CONSTANTS
  Address = {a1, a2, a3}
  Weight = {0, 1, 3}
  BIPS = {5000, 10000}
  MaxVoters = 4
  Leaf = {1, 2, 3, 4}
  MaxLeaves = 6
INVARIANTS SearchFindsHighest
CHECK_DEADLOCK FALSE
