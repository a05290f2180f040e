SPECIFICATION FairSpec
CONSTANTS
  Connections = {c1, c2}
  Secrets = {"k"}
  Limits = {1, 2}
  assembly_timeout = 2
  MaxCommands = 2
INVARIANTS
  RedactorIsExact
  WithinLimit
PROPERTIES
  ClosedIsNotServed
  EverySessionEnds
  StopReturns
  TimeoutIsEarned
