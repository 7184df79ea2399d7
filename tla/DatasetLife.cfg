SPECIFICATION Spec
CONSTANTS
  d1 = d1
  d2 = d2
  d3 = d3
  i1 = i1
  i2 = i2
  doc1 = doc1
  doc2 = doc2
  entity = entity
  Datasets = {d1, d2, d3}
  Items = {i1, i2}
  Slugs = {doc1, doc2, entity}
  Art <- MCArt
  Linked <- MCLinked
  Cognified <- MCCognified
  Calls = {c1, c2, c3}
  Requests <- MCRequests
  MaxFaults = 1
  None = None
SYMMETRY Symmetry
INVARIANTS TypeOK Owned LinkedHasFile MarkerSound AttachedGranted
PROPERTIES DeletedGone
