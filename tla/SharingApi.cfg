SPECIFICATION FairSpec
CONSTANTS
  User <- ThreeUsers
  Creator = u1
  Request <- TwoRequests
  Grantable <- ReadOrWrite
  MaxRequests = 2
  MaxFailures = 1
  Everyone = Everyone
  Deleted = Deleted
  Nobody = Nobody
  u1 = u1
  u2 = u2
  u3 = u3
  q1 = q1
  q2 = q2
INVARIANTS
  TypeOK
  ChangesArePublished
  OwnerRowIsOwners
  RowsGoWithDocument
PROPERTIES
  OwnerKeepsRow
  RequestsFinish
CHECK_DEADLOCK FALSE
