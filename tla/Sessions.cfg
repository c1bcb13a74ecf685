SPECIFICATION FairSpec
CONSTANTS
  Person <- TwoPersons
  Nobody = Nobody
  Call <- OneCall
  InitMe = InitMe
  LoginMe = LoginMe
  MaxLogins = 2
  MaxLogouts = 2
  p1 = p1
  p2 = p2
  k1 = k1
INVARIANTS
  TypeOK
  UserMatchesTokens
PROPERTIES
  SessionEndsForCause
  CallsEnd
