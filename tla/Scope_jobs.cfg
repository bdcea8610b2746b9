\* Two jobs, two releases, two settings, one row to a batch.
SPECIFICATION Spec
CONSTANTS
  MaxJob = 2
  BATCH = 1
  Postings <- MCPostings
  Settings <- MCSettings
INVARIANTS
  AllAreReclassified
  OnlyRacesMislabel
  PurgedScopeHolds
