CONSTANTS
  r1 = r1
  r2 = r2
  r3 = r3
  r4 = r4
  Requests <- MCRequests
  Bare <- MCBare
  MaxMultiplier = 2
  Undefined = Undefined
SPECIFICATION FairQueueSpec
INVARIANT BatchesMoveOn
INVARIANT AnsweredWereExecuted
PROPERTY EveryPushAnswered
PROPERTY CoalescerSpec
CHECK_DEADLOCK FALSE
