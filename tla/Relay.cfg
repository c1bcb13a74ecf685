SPECIFICATION FairSpec
CONSTANTS
  Connection <- TwoPages
  QueueSize = 2
  MaxEdits <- TwoAndNone
  MaxSessions = 3
  c1 = c1
  c2 = c2
INVARIANTS
  TypeOK
  NoSilentGap
  NoEditForgotten
PROPERTIES
  ImplementsSharedText
  EditsReachPages
  EditsReachRoom
CHECK_DEADLOCK FALSE
