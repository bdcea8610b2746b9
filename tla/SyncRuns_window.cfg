\* Two processes, the window outlasts a live run.
CONSTANTS
  w1 = w1
  w2 = w2
  Workers = {w1, w2}
  Paths = {1, 2}
  NoEtag = {}
  Batches = 2
  MaxFiles = 2
  MaxRevision = 1
  MaxRuns = 3
  LiveRunsMayAge = FALSE
SPECIFICATION Spec
SYMMETRY Symmetry
INVARIANTS
  WorkersExclude
  CheckpointsAreCovered
PROPERTIES
  NothingIsIngestedTwice
  ImplementsLedger
