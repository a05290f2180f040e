SPECIFICATION FairSpec
CONSTANTS
  t1 = t1
  t2 = t2
  t3 = t3
  Tokens <- MCTokens
  First = First
  End = End
  MaxAttempts = 3
  RetryBudget = 12
  BackoffBase = 4
  RetryAfters <- MCRetryAfters
  Durations <- MCDurations
  MaxAhead = 2
  Operations <- MCOperations
INVARIANTS
  CompleteListing
  EndsInTime
  LateOnlyIfTaken
PROPERTIES
  EveryCallEnds
