SPECIFICATION Spec
CONSTANTS
  d1 = d1
  d2 = d2
  i1 = i1
  i2 = i2
  doc1 = doc1
  doc2 = doc2
  alice = alice
  acme = acme
  schema = schema
  worksAt = worksAt
  text = text
  c1 = c1
  c2 = c2
  c3 = c3
  Datasets = {d1}
  Items = {i1, i2}
  NilItem = NilItem
  Nodes <- SlimNodes
  Edges = {}
  Texts = {text}
  Ends <- MCEnds
  TextOf <- MCTextOf
  Spanning = {}
  Indexed <- MCIndexed
  Unsupported = {}
  Points <- MCPoints
  Yields <- SlimYields
  DltRows <- NoDltRows
  Calls = {c1, c2}
  Startup = Startup
  Configs <- CacheCalls
  Faults = {}
  SingleProcess = TRUE
  MaxCrashes = 0
  None = None
SYMMETRY Symmetry
PROPERTIES OutstandingNeverCached
