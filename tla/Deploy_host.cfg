\* Four commits, of any content, deployed and rolled back in any order.
CONSTANTS
  MaxRelease = 4
SPECIFICATION DeploySpec
INVARIANTS
  ExitsTellTheTruth
  SchemaCovers
  UnitsHavePassed
VIEW MCView
