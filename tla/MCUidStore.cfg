SPECIFICATION Spec
CONSTANTS
  inbox = inbox
  k1 = k1
  k2 = k2
  Mailboxes <- MCOneMailbox
  Keys <- MCKeys
  MaxValidity = 3
  MaxUid = 2
  MaxClock = 2
  Faults <- MCAllFaults
INVARIANTS TypeOK NeverRedefined AllocationAtomic LiveKeyUnique MarksNameIssuedUids
PROPERTY ImplementsLedger
SYMMETRY KeySymmetry
