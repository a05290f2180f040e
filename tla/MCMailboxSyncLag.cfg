SPECIFICATION Spec
CONSTANTS
  alice = alice
  bob = bob
  Sessions <- MCOneSession
  MaxTasks = 2
  MaxVersions = 3
  MaxUid = 4
  MaxCommands = 2
  ListingLags = TRUE
  KeysRevoked = FALSE
  TimeoutsHappen = FALSE
INVARIANTS
  SnapshotIsStore
  PinnedStaysLive
PROPERTIES
  ArrivalsAreNewer
CHECK_DEADLOCK FALSE
