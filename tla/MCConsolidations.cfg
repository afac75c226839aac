CONSTANTS
  Wallet = {a, b}
  MaxBlock = 3
  MaxEvents = 4
  MaxPerBlock = 2
SPECIFICATION FairSpec
INVARIANTS OneRowPerPair ExactAtCheckpoint NothingInvented CheckpointBehind
PROPERTIES EventuallyIndexed
