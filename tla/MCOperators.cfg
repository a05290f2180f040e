SPECIFICATION Spec
CONSTANTS
  STAR = 9
  MaxNumber = 4
  MaxItems = 2
  Letters = {"a", "b"}
  MaxPattern = 4
  MaxName = 5
  MaxAsked = 3
  MaxMessage = 5
INVARIANTS
  PatternsMatch
  SetsAreRead
  FetchIsFaithful
  SearchIsSound
CHECK_DEADLOCK FALSE
