SPECIFICATION Spec
CONSTANTS
  u1 = u1
  u2 = u2
  t1 = t1
  Requests = {r1, r2, r3}
  InitialUsers <- MCUsers
  InitialTokens <- MCTokens
  Calls <- MCCalls
  TTL = 2
  MaxTime = 3
  MaxSkew = 1
  MaxFaults = 1
SYMMETRY Symmetry
INVARIANTS
  TypeOK
  NoTwoAlike
  DiffsBlameOverlaps
  ValuesExplained
  RevokedStaysOut
  LogoutIsIdempotent
  StaleRoleExpires
CHECK_DEADLOCK FALSE
