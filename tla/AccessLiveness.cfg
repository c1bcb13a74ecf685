SPECIFICATION FairSpec
CONSTANTS
  User <- OneUser
  Connection <- OneSocket
  UserOf <- AllOfOne
  Grantable <- ReadOrWrite
  MaxChanges = 2
  MaxFailures = 2
  Listener = Listener
  Timer = Timer
  Everyone = Everyone
  Deleted = Deleted
  NoConnection = NoConnection
  u1 = u1
  u2 = u2
  c1 = c1
  c2 = c2
PROPERTIES
  StaleRoleEnds
  EventsAreHandled
