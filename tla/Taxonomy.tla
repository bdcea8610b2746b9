------------------------------- MODULE Taxonomy -------------------------------
(***************************************************************************)
(* JobClassifier of classify.py and the categories of the migrations, with *)
(* the taxonomy cut down to two releases, before and after migration 0006  *)
(* split `data', and its patterns to one word of each kind: one that no    *)
(* rule matches, one that matches one, one that matches two, and one that  *)
(* the migration's own patterns file elsewhere than the rules do.          *)
(***************************************************************************)
EXTENDS Fields, Naturals, FiniteSetsExt

Releases == {1, 2}

\* In priority order.
CATEGORIES ==
  <<<<"healthcare", "data", "software", "management">>,
    <<"healthcare", "data-engineering", "data-analytics", "software", "management">>>>

Listed(order) == {order[i] : i \in DOMAIN order}

\* The slugs of the rules whose pattern a word matches.
Rules(v, word) ==
  CASE word = "Big Data Developer" -> {"software", IF v = 1 THEN "data" ELSE "data-engineering"}
    [] word = "Nurse Manager" -> {"healthcare", "management"}
    [] word = "Nursing" -> {"healthcare"}
    [] OTHER -> {}

\* What a migration makes of the rows of a slug that it splits: "only has to be valid".
Split == [s \in {"data"} |-> "data-analytics"]

\* The most senior first.
LevelRules == <<"MANAGER", "ENTRY">>
LevelsIn(title) == IF title = "Nurse Manager" THEN {"MANAGER"} ELSE {}
SourceSeniority == [s \in {"1-3 years"} |-> "MID"]

\* The first rule that matches wins.
FirstOf(order, matched, otherwise) ==
  IF matched = {} THEN otherwise ELSE order[Min({i \in DOMAIN order : order[i] \in matched})]

\* The department is consulted only when the title yields nothing.
classify_category(v, title, department) ==
  FirstOf(CATEGORIES[v], IF Rules(v, title) # {} THEN Rules(v, title) ELSE Rules(v, department), "other")

\* A string that the table does not hold falls through to the title.
classify_level(title, seniority) ==
  IF seniority \in DOMAIN SourceSeniority THEN SourceSeniority[seniority]
  ELSE FirstOf(LevelRules, LevelsIn(title), "UNKNOWN")

classify(v, title, department, seniority) ==
  [category |-> classify_category(v, title, department), level |-> classify_level(title, seniority)]
===============================================================================
