CONSTANTS
  Reports = {r1, r2, r3}
  MetricKeys <- MC_MetricKeys
  Places = {"file", "dir", "link", "outside", "missing"}
  Chunk = 1
  MaxLength = 1
  MaxAnswers = 1
SYMMETRY MC_Symmetry
SPECIFICATION Spec
INVARIANTS
  ListIsWhole
  FetchIsWhole
CHECK_DEADLOCK FALSE
