SPECIFICATION FairSpec
CONSTANTS
  t1 = t1
  t2 = t2
  m1 = m1
  m2 = m2
  m3 = m3
  Tasks = {t1, t2}
  Keys = {1, 2, 3}
  Mutexes = {m1, m2, m3}
  PruneThreshold = 2
  MaxDepth = 2
  None = None
INVARIANTS OneTaskInside HoldKeeps
PROPERTIES RegistryBounded WaitersServed
