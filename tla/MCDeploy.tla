------------------------------- MODULE MCDeploy -------------------------------
(* States that differ only in what nothing reads again are one. *)
EXTENDS Deploy

\* Between two deploys, what the last one was about counts only for what it said; during one,
\* what the last one said does not count.
MCView ==
  <<repo, host, passed, owed, step,
    IF step # "idle" THEN <<script, agreed>>
    ELSE <<exit, IF exit = "rolled back" THEN <<current, agreed>> ELSE <<>>>>>>
===============================================================================
