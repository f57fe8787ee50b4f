SPECIFICATION Spec
CONSTANTS
  r1 = r1
  r2 = r2
  r3 = r3
  n1 = n1
  n2 = n2
  w1 = w1
  w2 = w2
  Noise = Noise
  Nothing = Nothing
  Requests = {r1, r2, r3}
  Names = {n1, n2}
  Passwords <- Typed
  Files <- AnyFile
  Junk = Noise
  None = Nothing
SYMMETRY AnyOrder
CHECK_DEADLOCK FALSE
INVARIANTS
  TypeOK
  NoInventedAccount
  OverrunNeedsDeletion
PROPERTIES
  ServesAccounts
