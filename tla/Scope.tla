--------------------------------- MODULE Scope ---------------------------------
(***************************************************************************)
(* The role category of a job, through everything that writes it or acts   *)
(* on it: the ingest that classifies a posting and drops it when it is out *)
(* of scope, migrations that split a category, backfill_categories.py that *)
(* classifies stored rows again, and purge_out_of_scope.py that deletes    *)
(* rows outside the scope.  Nothing keeps these apart: each reads the      *)
(* rules and the settings when it starts, and works in transactions of a   *)
(* batch.                                                                  *)
(*                                                                         *)
(* A row keeps the whole posting, of which the code stores title,          *)
(* department and seniority.                                               *)
(***************************************************************************)
EXTENDS Taxonomy, FiniteSets

CONSTANTS
  Postings,        \* title, department, team, seniority, experience
  Settings,        \* allowlist and blocklist an operator may set
  MaxJob,          \* bound: jobs.id values
  BATCH            \* rows per transaction

ASSUME ScopeAssumption == MaxJob \in Nat \ {0} /\ BATCH \in Nat \ {0}

VARIABLES
  jobs,            \* id -> its row, for the jobs in the table
  issued,          \* ids handed out
  release,         \* the code on the host, its migrations applied
  setting,         \* INGEST_CATEGORY_ALLOWLIST and _BLOCKLIST
  ingest,          \* an ingest, with the release and the setting that it started with
  backfill,        \* backfill_categories.py
  purge,           \* purge_out_of_scope.py --execute
  touched,         \* jobs loaded since a backfill that runs, or ran last, read them (history)
  doubtful,        \* jobs remapped by a migration, or labelled from an older title (history)
  late             \* jobs written since the last purge began by what has a wider scope (history)

history == <<touched, doubtful, late>>
vars == <<jobs, issued, release, setting, ingest, backfill, purge, history>>

-------------------------------------------------------------------------------
(* What a posting is classified by *)

\* An ingest has more to go by than a backfill finds in the columns of the row.
OfPosting(v, p) == classify(v, p.title, Or(p.department, p.team), Or(p.seniority, p.experience))

OfStored(v, p) == classify(v, p.title, p.department, p.seniority)

\* The allowlist, empty for everything, and then the blocklist.
InScope(s, category) == (s.allow = {} \/ category \in s.allow) /\ category \notin s.block

\* jobs.category_slug is a foreign key: a transaction with a slug that is gone fails.
Known(category) == category \in Listed(CATEGORIES[release]) \union {"other"}

-------------------------------------------------------------------------------

Idle == [pc |-> "idle"]

\* Rows that were there before migration 0002 added the column.
Init ==
  /\ \E n \in 0..MaxJob - 1 :
       /\ issued = n
       /\ \E p \in [1..n -> Postings] :
            jobs = [i \in 1..n |-> [posting |-> p[i], class |-> [category |-> None, level |-> "UNKNOWN"]]]
  /\ release = 1
  /\ setting \in Settings
  /\ ingest = Idle /\ backfill = Idle /\ purge = Idle
  /\ touched = {} /\ doubtful = {} /\ late = {}

\* S are classified anew, by f.
Relabel(S, f) == [i \in DOMAIN jobs |-> IF i \in S THEN [jobs[i] EXCEPT !.class = f[i]] ELSE jobs[i]]

-------------------------------------------------------------------------------
(* The operator: settings, and releases with a migration that remaps the rows of a slug it
   splits *)

Configure ==
  /\ setting' \in Settings \ {setting}
  /\ UNCHANGED <<jobs, issued, release, ingest, backfill, purge, history>>

\* Rows that a running process commits between the UPDATE and the DELETE of the old slug keep
\* no slug at all: the foreign key is ON DELETE SET NULL.
Deploy ==
  /\ release + 1 \in Releases
  /\ release' = release + 1
  /\ LET split == {i \in DOMAIN jobs : jobs[i].class.category \in DOMAIN Split}
     IN  /\ \E missed \in SUBSET split :
              /\ missed # {} => ingest # Idle \/ backfill.pc = "writing"
              /\ jobs' = Relabel(split, [i \in split |->
                   [jobs[i].class EXCEPT !.category = IF i \in missed THEN None ELSE Split[@]]])
         /\ doubtful' = doubtful \union split
         /\ late' = IF purge = Idle THEN late ELSE late \union split
  /\ UNCHANGED <<issued, setting, ingest, backfill, purge, touched>>

-------------------------------------------------------------------------------
(* Ingest *)

StartIngest ==
  /\ ingest = Idle
  /\ ingest' = [pc |-> "running", release |-> release, setting |-> setting]
  /\ UNCHANGED <<jobs, issued, release, setting, backfill, purge, history>>

EndIngest ==
  /\ ingest # Idle /\ ingest' = Idle
  /\ UNCHANGED <<jobs, issued, release, setting, backfill, purge, history>>

\* Every role that this ingest lets through is kept by the purge.
WithinKeep == ingest.setting.allow # {} /\ ingest.setting.allow \subseteq purge.keep

Store(i, p) ==
  LET class == OfPosting(ingest.release, p) IN
  /\ InScope(ingest.setting, class.category) /\ Known(class.category)
  /\ jobs' = [j \in DOMAIN jobs \union {i} |->
                IF j = i THEN [posting |-> p, class |-> class] ELSE jobs[j]]
  /\ touched' = IF backfill = Idle THEN touched ELSE touched \union {i}
  /\ doubtful' = doubtful \ {i}
  /\ late' = IF purge = Idle THEN late ELSE IF WithinKeep THEN late \ {i} ELSE late \union {i}
  /\ UNCHANGED <<release, setting, ingest, backfill, purge>>

Insert ==
  /\ ingest # Idle /\ issued < MaxJob
  /\ \E p \in Postings : Store(issued + 1, p)
  /\ issued' = issued + 1

\* Mutant: an edit leaves the class of the row alone.
UpdateWithoutClass ==
  /\ ingest # Idle
  /\ \E i \in DOMAIN jobs, p \in Postings :
       /\ InScope(ingest.setting, OfPosting(ingest.release, p).category)
       /\ jobs' = [jobs EXCEPT ![i].posting = p]
       /\ touched' = touched \union {i}
  /\ UNCHANGED <<issued, release, setting, ingest, backfill, purge, doubtful, late>>

\* content_hash digests the title, and the place, pay, URL and description besides, which
\* are not kept here: any posting that is read again may be stored anew, one that says what
\* the row says included.  An edit that takes the job out of scope is dropped, and the row
\* stays as it was.
Update ==
  /\ ingest # Idle
  /\ \E i \in DOMAIN jobs, p \in Postings : Store(i, p)
  /\ UNCHANGED issued

-------------------------------------------------------------------------------
(* backfill_categories.py [--all] *)

ToClassify(all) == {i \in DOMAIN jobs : all \/ jobs[i].class.category = None}

\* Nothing to classify: it returns.
StartBackfill ==
  /\ backfill.pc \in {"idle", "ended"}
  /\ \E all \in BOOLEAN :
       /\ ToClassify(all) # {}
       /\ backfill' = [pc |-> "reading", all |-> all, release |-> release, last |-> 0]
  /\ touched' = {}
  /\ UNCHANGED <<jobs, issued, release, setting, ingest, purge, doubtful, late>>

\* ORDER BY id LIMIT BATCH.
FirstBatch(S) == {i \in S : Cardinality({j \in S : j < i}) < BATCH}

\* Mutant: the cursor starts the next page behind the first row of this one's successor.
ReadBatchSkipping ==
  /\ backfill.pc = "reading"
  /\ LET S == {i \in ToClassify(backfill.all) : i > backfill.last}
         page == FirstBatch(S)
     IN  IF S = {} THEN backfill' = [backfill EXCEPT !.pc = "ended"] /\ UNCHANGED touched
         ELSE /\ backfill' = [pc |-> "writing", all |-> backfill.all, release |-> backfill.release,
                              last |-> Max(page) + 1,
                              updates |-> [i \in page |-> OfStored(backfill.release, jobs[i].posting)]]
              /\ touched' = touched \ page
  /\ UNCHANGED <<jobs, issued, release, setting, ingest, purge, doubtful, late>>

ReadBatch ==
  /\ backfill.pc = "reading"
  /\ LET S == {i \in ToClassify(backfill.all) : i > backfill.last}
         page == FirstBatch(S)
     IN  IF S = {} THEN backfill' = [backfill EXCEPT !.pc = "ended"] /\ UNCHANGED touched
         ELSE /\ backfill' = [pc |-> "writing", all |-> backfill.all, release |-> backfill.release,
                              last |-> Max(page),
                              updates |-> [i \in page |-> OfStored(backfill.release, jobs[i].posting)]]
              /\ touched' = touched \ page
  /\ UNCHANGED <<jobs, issued, release, setting, ingest, purge, doubtful, late>>

Updates == backfill.updates

\* A job that a load wrote in between is labelled by the title it had before.
WriteBatch ==
  /\ backfill.pc = "writing"
  /\ \A i \in DOMAIN Updates \intersect DOMAIN jobs : Known(Updates[i].category)
  /\ jobs' = Relabel(DOMAIN Updates, Updates)
  /\ backfill' = [pc |-> "reading", all |-> backfill.all, release |-> backfill.release,
                  last |-> backfill.last]
  /\ doubtful' = (doubtful \ DOMAIN Updates) \union (DOMAIN Updates \intersect touched)
  /\ late' = IF purge = Idle THEN late ELSE late \union DOMAIN Updates
  /\ UNCHANGED <<issued, release, setting, ingest, purge, touched>>

\* It dies, of a slug that is gone among other things.
BackfillDies ==
  /\ backfill.pc \in {"reading", "writing"} /\ backfill' = Idle /\ touched' = {}
  /\ UNCHANGED <<jobs, issued, release, setting, ingest, purge, doubtful, late>>

-------------------------------------------------------------------------------
(* purge_out_of_scope.py --execute; the blocklist has no part in it *)

\* Mutant: the arm for NULL is missing, which `NOT (x = ANY(...))' does not cover.
DeletableButNull(keep) == {i \in DOMAIN jobs : jobs[i].class.category \notin keep \union {None}}

Deletable(keep) == {i \in DOMAIN jobs : jobs[i].class.category \notin keep}

\* --keep, or else the allowlist of that moment: it refuses to keep nothing, and returns when
\* there is nothing to delete.
StartPurge ==
  /\ purge.pc \in {"idle", "ended"}
  /\ \E s \in Settings :
       /\ s.allow # {} /\ Deletable(s.allow) # {}
       /\ purge' = [pc |-> "deleting", keep |-> s.allow]
  /\ late' = {}
  /\ UNCHANGED <<jobs, issued, release, setting, ingest, backfill, touched, doubtful>>

DeleteBatch ==
  /\ purge.pc = "deleting"
  /\ LET out == Deletable(purge.keep) IN
     IF out = {} THEN purge' = [purge EXCEPT !.pc = "ended"] /\ UNCHANGED jobs
     ELSE /\ \E S \in SUBSET out :
               /\ Cardinality(S) = Min({BATCH, Cardinality(out)})
               /\ jobs' = [i \in DOMAIN jobs \ S |-> jobs[i]]
          /\ UNCHANGED purge
  /\ UNCHANGED <<issued, release, setting, ingest, backfill, history>>

PurgeDies ==
  /\ purge.pc = "deleting" /\ purge' = Idle /\ late' = {}
  /\ UNCHANGED <<jobs, issued, release, setting, ingest, backfill, touched, doubtful>>

-------------------------------------------------------------------------------

Next ==
  \/ Configure \/ Deploy
  \/ StartIngest \/ Insert \/ Update \/ EndIngest
  \/ StartBackfill \/ ReadBatch \/ WriteBatch \/ BackfillDies
  \/ StartPurge \/ DeleteBatch \/ PurgeDies

Spec == Init /\ [][Next]_vars

-------------------------------------------------------------------------------
(* Properties *)

\* "Every stored job is reclassified in place": when a backfill of all rows has ended, and no
\* release came after it, every row says what the new rules make of it, except those that an
\* ingest wrote after the backfill had read them.
AllAreReclassified ==
  backfill.pc = "ended" /\ backfill.all /\ backfill.release = release =>
    \A i \in DOMAIN jobs \ touched : jobs[i].class = OfStored(release, jobs[i].posting)

\* A label always comes from the posting beside it, by the rules of some release: only the
\* remapping of a migration and a backfill that lost a race to a load leave another one.
OnlyRacesMislabel ==
  \A i \in DOMAIN jobs \ doubtful :
    \/ jobs[i].class.category = None
    \/ \E v \in Releases : jobs[i].class \in {OfPosting(v, jobs[i].posting),
                                             OfStored(v, jobs[i].posting)}

\* "Removes them so the platform matches its new scope": after a purge, whatever ran beside it,
\* a row outside the categories it keeps was written since it began, by a backfill, by a
\* migration or by an ingest that has a wider scope.
PurgedScopeHolds ==
  purge.pc = "ended" => \A i \in DOMAIN jobs \ late : jobs[i].class.category \in purge.keep

-------------------------------------------------------------------------------
(* Strengthenings *)

\* What the foreign key admits.
Slugs(v) == Listed(CATEGORIES[v]) \union {"other", None}
Class(v) == [category : Slugs(v), level : {"MANAGER", "ENTRY", "MID", "UNKNOWN"}]

\* A row's slug exists; who still runs has started with an earlier release, or this one.
ScopeTypes ==
  /\ issued \in 0..MaxJob /\ DOMAIN jobs \subseteq 1..issued
  /\ jobs \in [DOMAIN jobs -> [posting : Postings, class : Class(release)]]
  /\ release \in Releases /\ setting \in Settings
  /\ ingest \in {Idle} \union [pc : {"running"}, release : 1..release, setting : Settings]
  /\ \/ backfill = Idle
     \/ backfill \in [pc : {"reading", "ended"}, all : BOOLEAN, release : 1..release, last : Nat]
     \/ /\ backfill.pc = "writing" /\ backfill.all \in BOOLEAN
        /\ backfill.release \in 1..release /\ backfill.last \in Nat
        /\ Updates \in [DOMAIN Updates -> Class(backfill.release)]
  /\ purge \in {Idle} \union [pc : {"deleting", "ended"}, keep : {s.allow : s \in Settings}]

\* What a backfill is about to write is what the rows of its page say, unless they have changed.
UpdatesAreCurrent ==
  backfill.pc = "writing" =>
    \A i \in (DOMAIN jobs \intersect DOMAIN Updates) \ touched :
      Updates[i] = OfStored(backfill.release, jobs[i].posting)

\* What a backfill of all rows has left behind is classified, but for the page in hand.
BehindTheCursor ==
  backfill # Idle /\ backfill.all /\ backfill.release = release =>
    \A i \in DOMAIN jobs \ touched :
      \/ jobs[i].class = OfStored(release, jobs[i].posting)
      \/ backfill.pc # "ended" /\ i > backfill.last
      \/ backfill.pc = "writing" /\ i \in DOMAIN Updates

ScopeInv ==
  /\ ScopeTypes /\ UpdatesAreCurrent /\ BehindTheCursor
  /\ OnlyRacesMislabel /\ PurgedScopeHolds
===============================================================================
