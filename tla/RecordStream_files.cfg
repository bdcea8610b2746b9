\* Two files of up to three records, the buffer's limits and the batch's within reach.
CONSTANTS
  j1 = j1
  j2 = j2
  US = US
  CA = CA
  tech = tech
  sales = sales
  Ids = {j1, j2}
  NoId = NoId
  Countries = {US, CA}
  NoCountry = NoCountry
  CountryAllowlist = {US}
  Categories = {tech, sales}
  AllowedCategories = {}
  BlockedCategories = {sales}
  NoDate = NoDate
  Now <- MCNow
  FirstPlausible = 0
  MaxFuture = 24
  MaxAge = 48
  FallBack = TRUE
  Records <- MCRecords
  ChunkSize = 2
  FlushSize = 2
  MaxExamples = 1
  MaxRecords = 3
  MaxFiles = 2
SPECIFICATION Spec
INVARIANTS
  TotalsAreExact
  NothingIsCountedTwice
  BatchesHaveNoTwins
  FinishedFilesAreStored
  RejectedRowsHaveReasons
CHECK_DEADLOCK FALSE
