SPECIFICATION TransfersSpec
CONSTANTS
  Group = {a, b}
  Outside = x
  MaxTransfers = 4
  MaxCount = 2
  MaxDate = 3
INVARIANTS NeverThrows
CHECK_DEADLOCK FALSE
