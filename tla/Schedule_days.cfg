\* Three kinds of passes over the files of two days, the first of which no process survives.
CONSTANTS
  Passes = {"daily", "watch", "catch-up"}
  Days = 2
  Heavy = {1}
  Window = 1
  MaxFiles <- MCMaxFiles
  Attempts = 2
  MaxRevision = 2
SPECIFICATION FairSpec
INVARIANTS
  PlansAreFresh
PROPERTIES
  NewestIsIngested
  CorpsesAreReclaimed
  RetentionRunsDaily
