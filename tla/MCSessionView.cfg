SPECIFICATION Spec
CONSTANTS
  MaxUid = 2
  Flags <- MCInboxFlags
INVARIANTS
  NumbersAgree
PROPERTIES
  SafePointCatchesUp
