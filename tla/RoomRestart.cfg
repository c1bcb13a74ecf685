SPECIFICATION Spec
CONSTANTS
  Document <- OneDocument
  Connection <- TwoSockets
  DocumentOf <- AllSameDocument
  Editor <- TwoSockets
  Room <- TwoRooms
  Update <- TwoUpdates
  Deletable <- Nothing
  MaxFailures = 0
  MaxStops = 1
  ServerWaits = TRUE
  FlushLoop = FlushLoop
  Shutdown = Shutdown
  NoRoom = NoRoom
  NoDocument = NoDocument
  d1 = d1
  c1 = c1
  c2 = c2
  c3 = c3
  r1 = r1
  r2 = r2
  u1 = u1
  u2 = u2
PROPERTIES
  RestartLosesNothing
