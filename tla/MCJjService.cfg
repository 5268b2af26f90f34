CONSTANTS
  None = None
  Torn = Torn
  Readers = {"r"}
  Mutations = {"m", "n"}
  MaxRetries = 3
  MaxOps = 1
SPECIFICATION FairSpec
INVARIANT ReadsAreCurrent
PROPERTY LookupsEnd
CHECK_DEADLOCK FALSE
