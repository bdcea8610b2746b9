\* A run may outlive the reclaim window, and the file is corrected in place: what still holds
\* when two processes overlap.
CONSTANTS
  w1 = w1
  w2 = w2
  Workers = {w1, w2}
  Paths = {1}
  NoEtag = {}
  Batches = 1
  MaxFiles = 1
  MaxRevision = 2
  MaxRuns = 2
  LiveRunsMayAge = TRUE
SPECIFICATION RecyclingSpec
INVARIANTS
  SucceededFilesAreLoaded
  SucceededRunsHaveNoFailure
PROPERTIES
  EveryFileIsIngested
