------------------------------ MODULE Retention ------------------------------
(***************************************************************************)
(* What becomes of stored jobs: enforce_retention.py marks them EXPIRED    *)
(* (the end of the daily run) or deletes them (purge-old-jobs.sh, at       *)
(* 04:30), and backup.sh (at 04:00, and again before a purge) dumps the    *)
(* database, while loads go on inserting and changing jobs.                *)
(*                                                                         *)
(* Time is counted in ticks, Day of them a day.  A script takes less than  *)
(* a tick, so its cutoff is the one of its start.                          *)
(***************************************************************************)
EXTENDS Integers, FiniteSets

CONSTANTS
  Jobs,            \* bound: the jobs ever inserted
  Start,           \* the clock at the beginning
  MaxNow,          \* bound: the clock
  Day,             \* ticks of a day
  Ages,            \* the ages of posted_at, in ticks, that postings have when they are loaded
  Gate,            \* INGEST_MAX_POSTED_AGE_DAYS, 0 for none
  Retentions,      \* values of RETENTION_MAX_POSTED_AGE_DAYS, 0 for none
  PurgeWindows,    \* values of PURGE_AFTER_DAYS
  KeepDays,        \* BACKUP_KEEP_DAYS
  Batch,           \* BATCH
  ByHand,          \* purge-old-jobs.sh is also run by hand, not only by its unit
  NoDate           \* posted_at that is missing or not valid

ASSUME RetentionAssumption ==
  /\ Start \in Nat /\ MaxNow \in Nat /\ Start <= MaxNow
  /\ Day \in Nat \ {0}
  /\ Ages \subseteq Int
  /\ Gate \in Nat
  /\ Retentions \subseteq Nat
  /\ PurgeWindows \subseteq Nat
  /\ KeepDays \in Nat
  /\ Batch \in Nat \ {0}
  /\ ByHand \in BOOLEAN
  /\ NoDate \notin Int

VARIABLES
  now,             \* the clock
  retention,       \* RETENTION_MAX_POSTED_AGE_DAYS
  purgeAfter,      \* PURGE_AFTER_DAYS
  status,          \* job -> jobs.status; "absent" before the insert, "purged" after the delete
  posted,          \* job -> posted_at
  seen,            \* job -> first_seen_at
  events,          \* the jobs with rows in job_events
  dumps,           \* the files of BACKUP_DIR
  pc,              \* "expire", "purge" -> where the script is
  chosen,          \* script -> the rows that its statement has found and not yet written
  overtaken        \* history: those found by the purge that a load has written since

windows == <<retention, purgeAfter>>
jobs == <<status, posted, seen>>
batch == <<chosen, overtaken>>
vars == <<now, windows, jobs, events, dumps, pc, batch>>

Scripts == {"expire", "purge"}
Stored == {j \in Jobs : status[j] \in {"ACTIVE", "EXPIRED"}}
Dump == [at : Start..MaxNow, state : {"writing", "readable", "unreadable"}, jobs : SUBSET Jobs]

TypeOK ==
  /\ now \in Start..MaxNow
  /\ retention \in Retentions
  /\ purgeAfter \in PurgeWindows
  /\ status \in [Jobs -> {"absent", "ACTIVE", "EXPIRED", "purged"}]
  /\ posted \in [Jobs -> Int \cup {NoDate}]
  /\ seen \in [Jobs -> Start..MaxNow]
  /\ events \subseteq Jobs
  /\ dumps \subseteq Dump
  /\ pc \in [Scripts -> {"idle", "working", "writing", "sweeping"}]
  /\ chosen \in [Scripts -> SUBSET Jobs] /\ overtaken \subseteq Jobs

Init ==
  /\ now = Start
  /\ retention \in Retentions
  /\ purgeAfter \in PurgeWindows
  /\ status = [j \in Jobs |-> "absent"]
  /\ posted = [j \in Jobs |-> NoDate]
  /\ seen = [j \in Jobs |-> Start]
  /\ events = {}
  /\ dumps = {}
  /\ pc = [s \in Scripts |-> "idle"]
  /\ chosen = [s \in Scripts |-> {}]
  /\ overtaken = {}

-------------------------------------------------------------------------------
(* Ages *)

\* _AGE_PREDICATE: the employer's date where it is valid, our own otherwise.
Best(j) == IF posted[j] = NoDate THEN seen[j] ELSE posted[j]

OutOf(j, days) == Best(j) < now - days * Day

\* The freshness gate of the pipeline; an undated posting counts as posted now.
PassesGate(at) == Gate > 0 /\ at # NoDate => at >= now - Gate * Day

Dates == {NoDate} \cup {now - age : age \in Ages}

-------------------------------------------------------------------------------
(* The loads, and time *)

Insert(j) ==
  /\ status[j] = "absent"
  /\ \E at \in Dates :
       /\ PassesGate(at)
       /\ posted' = [posted EXCEPT ![j] = at]
  /\ status' = [status EXCEPT ![j] = "ACTIVE"]
  /\ seen' = [seen EXCEPT ![j] = now]
  /\ events' = events \cup {j}
  /\ UNCHANGED <<now, windows, dumps, pc, batch>>

\* A posting that changed takes its job's status and date with it, not first_seen_at.
Update(j) ==
  /\ j \in Stored
  /\ \E at \in Dates :
       /\ PassesGate(at)
       /\ posted' = [posted EXCEPT ![j] = at]
  /\ status' = [status EXCEPT ![j] = "ACTIVE"]
  /\ overtaken' = overtaken \cup ({j} \cap chosen["purge"])
  /\ UNCHANGED <<now, windows, seen, events, dumps, pc, chosen>>

Writing == \E d \in dumps : d.state = "writing"

\* No script of the night takes as long as a tick.
Tick ==
  /\ now < MaxNow
  /\ ~Writing
  /\ \A s \in Scripts : pc[s] = "idle"
  /\ now' = now + 1
  /\ UNCHANGED <<windows, jobs, events, dumps, pc, batch>>

-------------------------------------------------------------------------------
(* backup.sh *)

\* pg_dump's snapshot; the file is in the directory from here on.  Bound: one file a tick.
BackupStart ==
  /\ ~Writing
  /\ \A d \in dumps : d.at # now
  /\ dumps' = dumps \cup {[at |-> now, state |-> "writing", jobs |-> Stored]}
  /\ UNCHANGED <<now, windows, jobs, events, pc, batch>>

Finished == {d \in dumps : d.state # "writing"}
WrittenAs(state) == {[d EXCEPT !.state = state] : d \in dumps \ Finished}

\* find -mtime +KEEP_DAYS: more than that many whole days.
Expired(d) == now - d.at >= (KeepDays + 1) * Day

\* pg_dump fails, or what it wrote is too small: the file is removed.
BackupFails ==
  /\ Writing
  /\ dumps' = Finished
  /\ UNCHANGED <<now, windows, jobs, events, pc, batch>>

\* Mutant: the directory is pruned before the new dump is verified.
BackupUnreadablePruned ==
  /\ Writing
  /\ dumps' = {d \in Finished : ~Expired(d)} \cup WrittenAs("unreadable")
  /\ UNCHANGED <<now, windows, jobs, events, pc, batch>>

\* pg_restore cannot list it, or it holds no table, or the script is killed: the file stays.
BackupUnreadable ==
  /\ Writing
  /\ dumps' = Finished \cup WrittenAs("unreadable")
  /\ UNCHANGED <<now, windows, jobs, events, pc, batch>>

\* Verified, and old files pruned.
BackupDone ==
  /\ Writing
  /\ dumps' = {d \in Finished : ~Expired(d)} \cup WrittenAs("readable")
  /\ UNCHANGED <<now, windows, jobs, events, pc, batch>>

-------------------------------------------------------------------------------
(* enforce_retention.py, and the guards of purge-old-jobs.sh *)

Days(s) == IF s = "expire" THEN retention ELSE purgeAfter

\* Mutant: the guard on the windows left out.
WindowsFitAlways == TRUE
\* "purge window must exceed the retention window"
WindowsFit == retention > 0 => purgeAfter > retention

\* Mutant: -mtime -2.
RecentLonger(d) == now - d.at < 2 * Day
\* find -mtime -1, whatever is in the file.
Recent(d) == now - d.at < Day

ExpireStart ==
  /\ pc["expire"] = "idle"
  /\ retention > 0
  /\ \E j \in Stored : OutOf(j, retention)
  /\ pc' = [pc EXCEPT !["expire"] = "working"]
  /\ UNCHANGED <<now, windows, jobs, events, dumps, batch>>

\* The unit is ordered after the backup's (After=), a shell is not.
PurgeStart ==
  /\ pc["purge"] = "idle"
  /\ ByHand \/ ~Writing
  /\ purgeAfter > 0
  /\ WindowsFit
  /\ \E d \in dumps : Recent(d)
  /\ \E j \in Stored : OutOf(j, purgeAfter)
  /\ pc' = [pc EXCEPT !["purge"] = "working"]
  /\ UNCHANGED <<now, windows, jobs, events, dumps, batch>>

\* Mutant: the predicate compares posted_at alone, which is NULL for a sixth of the jobs.
MatchingDated(s) ==
  {j \in Stored : /\ posted[j] # NoDate /\ OutOf(j, Days(s))
                  /\ s = "expire" => status[j] # "EXPIRED"}

\* What the statement of a script still applies to.
Matching(s) ==
  {j \in Stored : OutOf(j, Days(s)) /\ (s = "expire" => status[j] # "EXPIRED")}

\* One statement and transaction for at most BATCH rows: its sub-select finds them in the
\* statement's snapshot,
PickBatch(s) ==
  /\ pc[s] = "working"
  /\ \E chunk \in SUBSET Matching(s) :
       /\ chunk # {} /\ Cardinality(chunk) <= Batch
       /\ chosen' = [chosen EXCEPT ![s] = chunk]
  /\ pc' = [pc EXCEPT ![s] = "writing"]
  /\ UNCHANGED <<now, windows, jobs, events, dumps, overtaken>>

NextAfter(s) == IF s = "expire" THEN "idle" ELSE "sweeping"

\* and under READ COMMITTED it writes them whatever a load, whose lock it waited for, made of them.
\* Only a deleted row is gone; a batch that writes none is the last.
WriteBatch(s) ==
  /\ pc[s] = "writing"
  /\ LET found == chosen[s] \cap Stored IN
       /\ status' = [j \in Jobs |-> IF j \notin found THEN status[j]
                                    ELSE IF s = "expire" THEN "EXPIRED" ELSE "purged"]
       /\ pc' = [pc EXCEPT ![s] = IF found = {} THEN NextAfter(s) ELSE "working"]
  /\ chosen' = [chosen EXCEPT ![s] = {}]
  /\ overtaken' = IF s = "purge" THEN {} ELSE overtaken
  /\ UNCHANGED <<now, windows, posted, seen, events, dumps>>

WorkDone(s) ==
  /\ pc[s] = "working"
  /\ Matching(s) = {}
  /\ pc' = [pc EXCEPT ![s] = NextAfter(s)]
  /\ UNCHANGED <<now, windows, jobs, events, dumps, batch>>

\* job_events has no foreign key, so its orphans are deleted after the jobs.
Sweep ==
  /\ pc["purge"] = "sweeping"
  /\ events' = events \cap Stored
  /\ pc' = [pc EXCEPT !["purge"] = "idle"]
  /\ UNCHANGED <<now, windows, jobs, dumps, batch>>

\* A script dies; what its transaction has not committed is rolled back.
Die(s) ==
  /\ pc[s] # "idle"
  /\ pc' = [pc EXCEPT ![s] = "idle"]
  /\ chosen' = [chosen EXCEPT ![s] = {}]
  /\ overtaken' = IF s = "purge" THEN {} ELSE overtaken
  /\ UNCHANGED <<now, windows, jobs, events, dumps>>

-------------------------------------------------------------------------------

Backup == BackupStart \/ BackupFails \/ BackupUnreadable \/ BackupDone

Next ==
  \/ Tick \/ Backup
  \/ \E j \in Jobs : Insert(j) \/ Update(j)
  \/ ExpireStart \/ PurgeStart \/ Sweep
  \/ \E s \in Scripts : PickBatch(s) \/ WriteBatch(s) \/ WorkDone(s) \/ Die(s)

Spec == Init /\ [][Next]_vars

\* The daily run reaches retention again and again, and a script that does not die runs on.
Fairness ==
  /\ WF_vars(ExpireStart) /\ WF_vars(PickBatch("expire"))
  /\ WF_vars(WriteBatch("expire")) /\ WF_vars(WorkDone("expire"))

FairSpec == Spec /\ Fairness

-------------------------------------------------------------------------------
(* Strengthenings *)

\* A dump holds what was stored before it.
DumpsHoldTheOlder ==
  \A d \in dumps : d.at <= now /\ \A j \in Stored : seen[j] < d.at => j \in d.jobs

\* The gate bounds how old a job can have been when it was first seen.
GateBounds ==
  \A j \in Stored :
    /\ seen[j] <= now
    /\ Gate > 0 /\ posted[j] # NoDate => posted[j] >= seen[j] - Gate * Day

\* What the guards found still holds while the purge works.
GuardsHold ==
  pc["purge"] \in {"working", "writing"} =>
    /\ purgeAfter > 0
    /\ WindowsFit
    /\ ~ByHand => \E d \in dumps : Recent(d) /\ d.state # "writing"

\* What the purge's statement has found is out of its window, unless a load has written it since;
\* and in any case, if the gate is the smaller window, it was first seen before the last day.
ChosenAreOld ==
  \A j \in chosen["purge"] :
    /\ pc["purge"] = "writing" /\ j \in Stored
    /\ j \notin overtaken => OutOf(j, purgeAfter)
    /\ 0 < Gate /\ Gate < purgeAfter => seen[j] < now - Day

RetentionInv == TypeOK /\ DumpsHoldTheOlder /\ GateBounds /\ GuardsHold /\ ChosenAreOld

-------------------------------------------------------------------------------
(* What a purge may do *)

Purged(j) == status[j] \in {"ACTIVE", "EXPIRED"} /\ status'[j] = "purged"

\* purge-old-jobs.sh: "refuses if the window is small enough to delete jobs the board is
\* still showing".  With retention on, what is deleted was due to leave the board before, unless a
\* load brought it back after the statement that deletes it had found it.
ShownJobsStay ==
  [][\A j \in Jobs : Purged(j) /\ retention > 0 /\ j \notin overtaken => OutOf(j, retention)]_vars

\* Whatever is deleted is in the snapshot of a dump of the last day, although jobs are loaded
\* after the dump: the freshness gate keeps out what the purge would take at once, as long as
\* its window is the smaller one.  The dump is complete, though not always readable: backup.sh
\* leaves one that it rejects in place.  A purge by hand may rely on a dump that is being
\* written, and lose it.
DeletedIsDumped ==
  [][\A j \in Jobs : Purged(j) /\ 0 < Gate /\ Gate < purgeAfter /\ ~ByHand =>
       \E d \in dumps : now - d.at < Day /\ d.state # "writing" /\ j \in d.jobs]_vars

Readable == {d \in dumps : d.state = "readable"}

\* backup.sh: "make sure pruning never empties the directory".  A night of failing backups
\* does not cost the last readable dump, however old it is.
ReadableDumpsRemain == [][Readable # {} => Readable' # {}]_vars

-------------------------------------------------------------------------------
(* What retention must do *)

Stale(j) == status[j] = "ACTIVE" /\ retention > 0 /\ OutOf(j, retention)

DiesEarly == Die("expire") /\ Matching("expire") # {}

\* A job past the window leaves the board, one without a date as well, although a load may put
\* it back there; unless the script always dies early, or loads put other jobs back without a pause.
StaleJobsLeave ==
  \A j \in Jobs :
    \/ []<><<DiesEarly \/ \E k \in Jobs \ {j} : Update(k)>>_vars
    \/ Stale(j) ~> ~Stale(j)
===============================================================================
