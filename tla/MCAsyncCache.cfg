CONSTANTS
  k1 = k1
  k2 = k2
  c1 = c1
  c2 = c2
  w1 = w1
  w2 = w2
  None = None
  Keys = {k1, k2}
  Callers = {c1, c2}
  CallerKey <- AllOnFirst
  Writes = {w1, w2}
  WriteKey <- OneWritePerKey
  MaxEntries = 1
  MaxRetries = 1
  Options <- OptionSet
  MaxInvalidations = 2
SPECIFICATION FairSpec
INVARIANT FetchesAreShared
INVARIANT DroppedOnce
PROPERTY SetWins
PROPERTY EveryCallEnds
CHECK_DEADLOCK FALSE
