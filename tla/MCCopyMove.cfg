SPECIFICATION Spec
CONSTANTS
  alice = alice
  bob = bob
  STAR = 99
  MaxMessage = 2
  Sessions <- MCSessions
  MaxCommands = 2
  MaxOutside = 1
SYMMETRY SessionSymmetry
INVARIANTS
  CopyUidIsRead
  KeepsItsTrashUid
PROPERTIES
  LeavesTheSource
CHECK_DEADLOCK FALSE
