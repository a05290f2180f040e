SPECIFICATION Spec
CONSTANTS
  Keys <- ContentKeys
  MaxBytes = 2
  Readers = {r1, r2}
  Inboxes = {"A", "B"}
  x = x
  y = y
  Contents = {x, y}
  MaxStamp = 2
  Changing = {"A"}
  MessageId = MessageId
  None = None
  Gone = Gone
  MessageLength <- MCMessageLength
  DraftLength <- MCDraftLength
SYMMETRY ReaderSymmetry
INVARIANTS
  AnswersAreTheContent
  ListedContentIsCurrent
  CountIsExact
PROPERTIES
  ReportedSizeIsKept
