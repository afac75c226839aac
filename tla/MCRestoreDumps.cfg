SPECIFICATION RestoreSpec
CONSTANTS
  NoBlock = NoBlock
  Run = {r1}
  Key = {k1, k2, k3}
  MaxBlock = 3
  MaxEntries = 4
  MaxPerBlock = 2
  PageSize = 2
  StartBlock <- MCStartBlock
  EndBlock <- MCEndBlock
  ChunkSize = 2
SYMMETRY Symmetry
INVARIANTS CompleteAfterRestore WholeRows
