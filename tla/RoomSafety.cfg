SPECIFICATION Spec
CONSTANTS
  Document <- OneDocument
  Connection <- ThreeSockets
  DocumentOf <- AllSameDocument
  Editor <- TwoSockets
  Room <- TwoRooms
  Update <- TwoUpdates
  Deletable <- OneDocument
  MaxFailures = 2
  MaxStops = 2
  ServerWaits = FALSE
  FlushLoop = FlushLoop
  Shutdown = Shutdown
  NoRoom = NoRoom
  NoDocument = NoDocument
  d1 = d1
  c1 = c1
  c2 = c2
  c3 = c3
  r1 = r1
  r2 = r2
  u1 = u1
  u2 = u2
SYMMETRY Interchangeable
INVARIANTS
  TypeOK
  SharedRoom
  DeletedIsGone
  NoSilentLoss
  CleanIsDurable
PROPERTIES
  SnapshotGrows
  ImplementsMergedDocument
CHECK_DEADLOCK FALSE
