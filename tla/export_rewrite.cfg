SPECIFICATION WriterAlone
CONSTANTS
  Records = {1, 2, 3, 4, 5}
  PerPage = 2
  MaxMoves = 3
  r1 = r1
  r2 = r2
  r3 = r3
  d0 = d0
  d1 = d1
  d2 = d2
  Runs <- ThreeRuns
  Datasets <- ThreeDatasets
  Short <- OneShort
  Nowhere = Nowhere
INVARIANTS
  ManifestHolds
CHECK_DEADLOCK FALSE
