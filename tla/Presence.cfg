SPECIFICATION Spec
CONSTANTS
  Page <- ThreePages
  Socket <- ThreeSockets
  NoSocket = NoSocket
  NoPage = NoPage
  MaxMoves <- OneMoves
  p1 = p1
  p2 = p2
  p3 = p3
  s1 = s1
  s2 = s2
  s3 = s3
SYMMETRY Interchangeable
INVARIANTS
  TypeOK
  DepartedAreGone
  CursorsConverge
CHECK_DEADLOCK FALSE
