SPECIFICATION HiddenSpec
CONSTANTS
  w1 = w1
  w2 = w2
  w3 = w3
  w4 = w4
  w5 = w5
  Wallet = {w1, w2, w3, w4, w5}
  CONSOLIDATIONS_LIMIT = 3
  MaxDay = 1
  MaxChanges = 3
INVARIANTS NobodyLost
CHECK_DEADLOCK FALSE
