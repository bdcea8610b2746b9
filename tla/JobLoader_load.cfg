\* One load at a time, beside the retention script and the purge.
CONSTANTS
  a = a
  b = b
  j1 = j1
  j2 = j2
  j3 = j3
  l1 = l1
  l2 = l2
  u1 = u1
  f1 = f1
  f2 = f2
  Null = Null
  Url <- MCUrl
  Fingerprint <- MCFingerprint
  Loaders = {l1}
  ExternalIds = {a, b}
  Contents = {1, 2, 3}
  JobIds = {j1, j2, j3}
  MaxBatch = 2
  Statuses = {"ACTIVE", "EXPIRED"}
  ExpireOnly = TRUE
  Purging = TRUE
SPECIFICATION Spec
SYMMETRY Symmetry
INVARIANTS
  JobsShowAReport
PROPERTIES
  ImplementsBoard
  ReplayOfOwnJobsIsNoOp
  StatusChangesAreRecorded
