SPECIFICATION ParserSpec
CONSTANTS
  Octets <- MCOctets
  max_line = 3
  max_literal = 2
  max_command_bytes = 7
  max_literals = 1
  MaxFeed = 2
  MaxSent = 6
CHECK_DEADLOCK FALSE
INVARIANTS
  CutsDoNotMatter
  HeldIsBounded
  LiteralsAreOpaque
