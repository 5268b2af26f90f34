CONSTANTS
  p = p
  s = s
  q1 = q1
  q2 = q2
  Roots <- MCRoots
  Primary <- MCPrimary
  MainOf <- MCMainOf
  AtFirst <- MCAtFirst
  Cached <- MCCached
  Requests <- MCRequests
  MaxChanges = 1
SPECIFICATION FairSpec
INVARIANT OneInstancePerRoot
INVARIANT InstancesAreAccounted
PROPERTY CalmScanIsRight
PROPERTY EarlySurvive
PROPERTY EveryScanAnswered
CHECK_DEADLOCK FALSE
