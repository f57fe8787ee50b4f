SPECIFICATION FairSpec
CONSTANTS
  MAX_USERS_CONNECTED = 2
  c1 = c1
  c2 = c2
  c3 = c3
  u1 = u1
  u2 = u2
  f1 = f1
  f2 = f2
  f3 = f3
  NoOne = NoOne
  Clients = {c1, c2}
  Users = {u1, u2}
  Fds = {f1, f2}
  None = NoOne
  MaxUnread = 1
  Hasty = {}
  Killable = {}
  Overlap = FALSE
  ReuseFds = FALSE
CHECK_DEADLOCK FALSE
PROPERTIES
  EndsSessions
  AlwaysAnswered
