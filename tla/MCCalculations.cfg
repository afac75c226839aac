SPECIFICATION MCSpec
CONSTANTS
  averageBlockTime = 2
  MaxBlock = 5
  MaxTime = 12
  Wallet = {w1, w2, w3, w4}
  CONSOLIDATIONS_LIMIT = 3
  Group = {a, b}
  Outside = x
  MaxTransfers = 4
  MaxCount = 2
  MaxDate = 4
  Holder = {v, w}
  MaxMemes = 4
  MaxBalance = 2
  MaxGradients = 2
  MaxRows = 3
  MaxTdh = 2
  MaxDrift = 2
INVARIANTS FindsLastBlock SameView Cliques NewerLinksFirst NobodyLeftOut DatesMatchBalance TokensKeepDates ConsolidatingKeepsDates SeasonSetsAreSeasons ReceivingNeverLowers ConsolidatingNeverLowers RanksWithinDrift FullRunRanks RootCommits
PROPERTIES SearchEnds
CHECK_DEADLOCK FALSE
