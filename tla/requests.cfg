SPECIFICATION FairSpec
CONSTANTS
  c1 = c1
  c2 = c2
  u1 = u1
  u2 = u2
  Nothing = Nothing
  Clients = {c1, c2}
  Users = {u1, u2}
  Registered = {u1, u2}
  None = Nothing
  MAX_USERS_CONNECTED = 2
  MaxCommands <- Limits
  Overlap = FALSE
  MaxLost = 1
CHECK_DEADLOCK FALSE
INVARIANTS
  TypeOK
  ServedAsAsked
  AnsweredAsServed
  SessionIsMine
PROPERTIES
  OnlyOwnLogout
  AnsweredOrLost
