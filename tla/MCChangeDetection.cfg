CONSTANTS
  MaxPolls = 2
  MaxNoise = 2
  MaxConfigs = 2
  MaxOpRetries = 2
SPECIFICATION FairSpec
INVARIANT NothingOwedIsForgotten
INVARIANT ChangesAreDetected
INVARIANT TornDownIsSilent
PROPERTY DebtsArePaid
CHECK_DEADLOCK FALSE
