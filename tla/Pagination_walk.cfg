\* Walks of pages of one or two over three rows that come, go and change.
CONSTANTS
  Ids = {1, 2, 3}
  Keys = {1, 2}
  Null = Null
  Rows <- MCRows
  Limits = {1, 2}
SPECIFICATION FairSpec
INVARIANTS
  PagesDescend
  SteadyRowsAreShown
PROPERTIES
  MoreExistOfKeyed
  WalksEnd
