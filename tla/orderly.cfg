SPECIFICATION Spec
CONSTANTS
  MAX_USERS_CONNECTED = 2
  c1 = c1
  c2 = c2
  c3 = c3
  u1 = u1
  u2 = u2
  f1 = f1
  f2 = f2
  f3 = f3
  NoOne = NoOne
  Clients = {c1, c2, c3}
  Users = {u1, u2}
  Fds = {f1, f2, f3}
  None = NoOne
  MaxUnread = 1
  Hasty = {}
  Killable = {}
  Overlap = FALSE
  ReuseFds = FALSE
SYMMETRY Interchangeable
CHECK_DEADLOCK FALSE
INVARIANTS
  UniqueUsers
  Attribution
  LoginKept
  ReleasedWhenQuiet
PROPERTIES
  NeverOverwritten
  KeepsSessions
