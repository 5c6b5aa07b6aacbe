CONSTANTS
  Plugins <- MCPlugins
  Metrics <- MCMetrics
  FullNames <- MCFullNames
  FullName <- MCFullName
  Shapes = {"s1", "s2"}
  Manifests <- MCManifests
  None = "none"
  Ids = {p1, p2}
  NoId = NoId
  NoName = NoName
  Workers = {w1, w2, w3}
  MaxBegun = 4
SPECIFICATION Spec
SYMMETRY Symmetry
CHECK_DEADLOCK FALSE
INVARIANTS TypeOK RegistryIsUnion OneHolder HeldAsDeclared ExposedAsRecorded EntriesKeepToNames
