---------------------------- MODULE MCRecordStream ----------------------------
(* Instances of RecordStream for TLC. *)
EXTENDS RecordStream

CONSTANTS j1, j2, US, CA, tech, sales

Good(id, posted) ==
  [id |-> id, titled |-> TRUE, company |-> TRUE, apply |-> "http", model |-> TRUE,
   country |-> US, posted |-> posted, category |-> tech]

\* 1000 is now, 24 hours ahead are tolerated and the window is 48 hours.
MCNow == 1000
MCRecords ==
  { Good(j1, 952),                                             \* the oldest that is not too old
    Good(j2, 1025),                                            \* in the future, kept
    [Good(j1, 951) EXCEPT !.category = sales],                 \* too old, before any scope
    [Good(NoId, 990) EXCEPT !.titled = FALSE],                 \* two reasons
    [Good(j2, NoDate) EXCEPT !.country = NoCountry] }
===============================================================================
