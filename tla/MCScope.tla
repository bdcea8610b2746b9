-------------------------------- MODULE MCScope --------------------------------
(* Postings that are classified by title, by two rules, and by the team alone. *)
EXTENDS Scope

MCPosting(title, department, team, seniority, experience) ==
  [title |-> title, department |-> department, team |-> team,
   seniority |-> seniority, experience |-> experience]

\* The department of the first must not count; the second has a title that nothing matches,
\* and so has the third, without a team.
MCPostings ==
  {MCPosting("Big Data Developer", "Nursing", None, None, None),
   MCPosting("Specialist", None, "Nursing", None, "1-3 years"),
   MCPosting("Specialist", None, None, None, None),
   MCPosting("Nurse Manager", None, None, "Not Applicable", None)}

MCSettings ==
  {[allow |-> {}, block |-> {"data-analytics"}], [allow |-> {"healthcare"}, block |-> {}]}
===============================================================================
