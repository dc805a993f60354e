SPECIFICATION Spec
CONSTANTS
  Replies <- MCReplies
  MaxToolIterations = 2
  MaxTurns = 2
  MaxBlank = 1
  MaxMishaps = 1
INVARIANTS
  StreamIsChat
  CutCallsNeverRun
  SignedWithinTurn
  ReloadedIsSame
  OwnKeyFirst
\* After the last turn the conversation stays as it is.
CHECK_DEADLOCK FALSE
