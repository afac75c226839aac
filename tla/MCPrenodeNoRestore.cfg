SPECIFICATION Spec
CONSTANTS MaxDay = 1 MaxOrphans = 1
INVARIANT RestoreOnlyIfAsked
CHECK_DEADLOCK FALSE
