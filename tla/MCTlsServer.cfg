CONSTANTS
  Conns = {laptop, phone}
  NULL = NULL
  MaxOwed = 1
SPECIFICATION FairSpec
INVARIANT
  NoStalePointer
PROPERTIES
  AnswersReachSender
  StaysOver
  Dismissed
