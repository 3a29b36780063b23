\* Three calls of the auth service and the user routes, with and without a database.
SPECIFICATION AccountsSpec
CONSTANTS
  c1 = c1
  c2 = c2
  c3 = c3
  seed = seed
  root = root
  bob = bob
  p1 = p1
  p2 = p2
  Absent = Absent
  Calls <- ThreeCalls
  Seed <- seed
  Names <- TwoNames
  SeedName <- root
  Passwords <- TwoWords
  Requests <- MCRequests
  MaxFaults = 1
INVARIANTS
  AccountsTypeOK
  AckedChangeStays
  SpentOnce
  GrantedAsHeld
  RevokedForACause
  BootstrapIsFirst
  AckedUserIsKept
SYMMETRY CallSymmetry
CHECK_DEADLOCK FALSE
