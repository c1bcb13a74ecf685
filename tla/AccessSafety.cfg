SPECIFICATION Spec
CONSTANTS
  User <- TwoUsers
  Connection <- TwoSockets
  UserOf <- EachItsOwn
  Grantable <- ReadOrWrite
  MaxChanges = 2
  MaxFailures = 1
  Listener = Listener
  Timer = Timer
  Everyone = Everyone
  Deleted = Deleted
  NoConnection = NoConnection
  u1 = u1
  u2 = u2
  c1 = c1
  c2 = c2
SYMMETRY Interchangeable
INVARIANTS
  TypeOK
  StaleRoleIsFound
