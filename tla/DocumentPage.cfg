SPECIFICATION FairSpec
CONSTANTS
  Document <- TwoDocuments
  First = d1
  NoDocument = NoDocument
  Fetch <- TwoSlots
  MaxChanges = 2
  MaxVisits = 1
  MaxFailures = 1
  d1 = d1
  d2 = d2
  f1 = f1
  f2 = f2
INVARIANTS
  TypeOK
  OneProvider
  RoleReachesPage
PROPERTIES
  RevocationReachesPage
CHECK_DEADLOCK FALSE
