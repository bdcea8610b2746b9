\* One job over two and a half days, retention and purge windows in every order.
CONSTANTS
  Jobs = {"a"}
  Start = 0
  MaxNow = 5
  Day = 2
  Ages = {0, 2}
  Gate = 1
  Retentions = {0, 1, 2}
  PurgeWindows = {1, 2}
  KeepDays = 1
  Batch = 1
  ByHand = FALSE
  NoDate = NoDate
SPECIFICATION FairSpec
PROPERTIES
  ShownJobsStay
  DeletedIsDumped
  ReadableDumpsRemain
  StaleJobsLeave
\* The clock stops at its bound.
CHECK_DEADLOCK FALSE
