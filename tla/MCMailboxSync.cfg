SPECIFICATION FairSpec
CONSTANTS
  alice = alice
  bob = bob
  Sessions <- MCSessions
  MaxTasks = 4
  MaxVersions = 2
  MaxUid = 4
  MaxCommands = 2
  ListingLags = FALSE
  KeysRevoked = TRUE
  TimeoutsHappen = TRUE
INVARIANTS
  ReturnedIsFresh
PROPERTIES
  RemovedIsGone
  EveryCallerReturns
CHECK_DEADLOCK FALSE
