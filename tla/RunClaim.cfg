SPECIFICATION FairSpec
CONSTANTS
  c1 = c1
  c2 = c2
  c3 = c3
  Calls = {c1, c2, c3}
  None = None
  StaleAfter = 2
  SingleProcess = TRUE
INVARIANTS Exclusive
PROPERTIES ImplementsLease NotRefusedForever
