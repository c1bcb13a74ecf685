SPECIFICATION FairSpec
CONSTANTS
  Email <- TwoEmails
  Address <- OneAddress
  lower <- SameAddress
  Request <- ThreeSlots
  Limit = 2
  MaxRequests = 5
  MaxFailures = 1
  e1 = e1
  e2 = e2
  a1 = a1
  q1 = q1
  q2 = q2
  q3 = q3
INVARIANTS
  TypeOK
  OneAccountPerAddress
PROPERTIES
  LockoutEnds
CHECK_DEADLOCK FALSE
