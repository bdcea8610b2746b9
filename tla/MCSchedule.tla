------------------------------ MODULE MCSchedule ------------------------------
(* Instances of Schedule for TLC. *)
EXTENDS Schedule

\* INGEST_MAX_FILES and INGEST_WATCH_MAX_FILES, one less than the code's three: with two
\* dates more than two files are never pending.
MCMaxFiles == [p \in Passes |-> IF p = "watch" THEN 1 ELSE 2]
===============================================================================
