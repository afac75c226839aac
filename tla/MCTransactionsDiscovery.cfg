SPECIFICATION FairSpec
CONSTANTS
  NoBlock = NoBlock
  Run = {r1, r2, r3}
  DirectLoad = r3
  EndOfLoad = 2
  Key = {k1, k2}
  MaxBlock = 3
  MaxEntries = 4
  MaxPerBlock = 3
  PageSize = 2
  StartBlock <- MCStartBlock
  EndBlock <- MCEndBlock
INVARIANTS CompletePrefix
PROPERTIES NeverForgets LedgerSpec EventuallyStored
