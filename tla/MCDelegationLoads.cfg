CONSTANTS
  Wallet = {a, b}
  MaxBlock = 3
  MaxEvents = 3
  MaxPerBlock = 2
SPECIFICATION LoadSpec
INVARIANTS ExactUnlessBehind LoadRepairs
