CONSTANTS
  MaxRetries = 2
  MaxSubs = 3
  MaxStarts = 2
SPECIFICATION WatcherFairSpec
INVARIANT NothingLeftOpen
INVARIANT NeverDeaf
PROPERTY TransitionsEnd
CHECK_DEADLOCK FALSE
