SPECIFICATION Spec
CONSTANTS
  r1 = r1
  r2 = r2
  k1 = k1
  k2 = k2
  Requests <- MCRequests
  Keys <- MCKeys
  NoKey = NoKey
  Raising <- MCRaising
  Copies <- MCCopies
  MaxAttempts = 1
  MaxRestarts = 2
INVARIANT
  NothingStranded
CHECK_DEADLOCK FALSE
