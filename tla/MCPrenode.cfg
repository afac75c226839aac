SPECIFICATION FairSpec
CONSTANTS MaxDay = 2 MaxOrphans = 1
INVARIANTS FewRuns
PROPERTIES IngestionUnlessStalled EveryDayCalculated
CHECK_DEADLOCK FALSE
