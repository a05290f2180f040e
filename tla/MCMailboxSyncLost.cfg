SPECIFICATION Spec
CONSTANTS
  alice = alice
  bob = bob
  Sessions <- MCSessions
  MaxTasks = 2
  MaxVersions = 2
  MaxUid = 2
  MaxCommands = 3
  ListingLags = TRUE
  KeysRevoked = FALSE
  TimeoutsHappen = FALSE
INVARIANTS
  AppendedStaysListed
SYMMETRY SessionSymmetry
CHECK_DEADLOCK FALSE
