------------------------------- MODULE SyncRuns -------------------------------
(***************************************************************************)
(* Sync runs and file checkpoints: IngestionPipeline.run and _process_file *)
(* over SyncRepository, one source.  Several pipeline processes (the timer *)
(* passes, the admin console's runner, an operator's shell) share the      *)
(* tables sync_runs and sync_files; each database call below is one        *)
(* transaction and one action.  A process may die between any two of them. *)
(*                                                                         *)
(* A file revision is read in Batches write-sized batches; `loaded' is     *)
(* what the jobs table holds of them.  A row of sync_files is identified   *)
(* by its run and its path, because a run inserts one row per path.        *)
(***************************************************************************)
EXTENDS Integers, FiniteSets

CONSTANTS
  Workers,         \* slots for pipeline processes
  Paths,           \* the source's delta files; the number orders them by file_date
  NoEtag,          \* the paths whose listing carries no xet_hash
  Batches,         \* batches per file (rows / ingest_upsert_chunk_size)
  MaxFiles,        \* --max-files
  MaxRevision,     \* bound: revisions the publisher gives a file
  MaxRuns,         \* bound: sync_runs rows, the invocations that open a run
  LiveRunsMayAge   \* FALSE: the reclaim window outlasts every live run

ASSUME SyncRunsAssumption ==
  /\ Paths \subseteq Nat
  /\ NoEtag \subseteq Paths
  /\ Batches \in Nat
  /\ MaxFiles \in Nat
  /\ MaxRevision \in Nat
  /\ MaxRuns \in Nat
  /\ LiveRunsMayAge \in BOOLEAN

VARIABLES
  remote,          \* path -> revision published, 0 before the first
  syncRuns,        \* run id -> status of the sync_runs row
  old,             \* runs started longer ago than the reclaim window
  syncFiles,       \* run id -> path -> the sync_files row
  loaded,          \* <<path, revision, batch>> written to the jobs table
  pc,              \* worker -> what the process does next
  run,             \* worker -> id of its run, 0 when it has none
  listing,         \* worker -> path -> revision discover() saw, 0 for none
  todo,            \* worker -> paths still to process
  file,            \* worker -> the path being processed
  rev,             \* worker -> the revision fetch() opened
  committed,       \* worker -> batches _process_file has counted
  filesFailed,     \* worker -> counters.files_failed > 0
  outcome          \* worker -> report.status

database == <<syncRuns, old, syncFiles, loaded>>
local == <<run, listing, todo, file, rev, committed, filesFailed, outcome>>
vars == <<remote, database, pc, local>>

RunId == 1..MaxRuns
Revision == 1..MaxRevision
Active == {"PENDING", "RUNNING"}
Terminal == {"SUCCEEDED", "FAILED", "PARTIAL"}
FileRow == [status : {"NONE", "RUNNING", "SUCCEEDED", "FAILED"},
            etag : 0..MaxRevision, claimed : Nat]
NoFileRow == [status |-> "NONE", etag |-> 0, claimed |-> 0]
Content == Paths \X Revision \X (1..Batches)
Nothing == [p \in Paths |-> 0]

\* Between start_run and finish_run.
InRun == {"discovering", "planning", "next", "opening", "loading", "failing", "closing"}
Live(w) == pc[w] \in InRun

TypeOK ==
  /\ remote \in [Paths -> 0..MaxRevision]
  /\ syncRuns \in [RunId -> {"NONE"} \cup Active \cup Terminal]
  /\ old \subseteq RunId
  /\ syncFiles \in [RunId -> [Paths -> FileRow]]
  /\ loaded \subseteq Content
  /\ pc \in [Workers -> {"idle", "starting"} \cup InRun]
  /\ run \in [Workers -> RunId \cup {0}]
  /\ listing \in [Workers -> [Paths -> 0..MaxRevision]]
  /\ todo \in [Workers -> SUBSET Paths]
  /\ file \in [Workers -> Paths \cup {0}]
  /\ rev \in [Workers -> 0..MaxRevision]
  /\ committed \in [Workers -> Nat]
  /\ filesFailed \in [Workers -> BOOLEAN]
  /\ outcome \in [Workers -> {"PENDING", "SUCCEEDED", "FAILED", "PARTIAL"}]

Init ==
  /\ remote = Nothing
  /\ syncRuns = [r \in RunId |-> "NONE"]
  /\ old = {}
  /\ syncFiles = [r \in RunId |-> [p \in Paths |-> NoFileRow]]
  /\ loaded = {}
  /\ pc = [w \in Workers |-> "idle"]
  /\ run = [w \in Workers |-> 0]
  /\ listing = [w \in Workers |-> Nothing]
  /\ todo = [w \in Workers |-> {}]
  /\ file = [w \in Workers |-> 0]
  /\ rev = [w \in Workers |-> 0]
  /\ committed = [w \in Workers |-> 0]
  /\ filesFailed = [w \in Workers |-> FALSE]
  /\ outcome = [w \in Workers |-> "PENDING"]

-------------------------------------------------------------------------------
(* Queries *)

\* Mutant: an index that covers RUNNING rows only.
RunningRuns == {r \in RunId : syncRuns[r] = "RUNNING"}

ActiveRuns == {r \in RunId : syncRuns[r] \in Active}

\* The versions filter_unprocessed finds done, and sync_files_completed_uq guards.
Completed(p, e) ==
  \E r \in RunId : syncFiles[r][p].status = "SUCCEEDED" /\ syncFiles[r][p].etag = e

\* Mutants: a filter that forgets what is done, and one that matches on the path alone.
PendingForgetsDone(seen) == {p \in Paths \ NoEtag : seen[p] > 0}
PendingIgnoresVersion(seen) ==
  {p \in Paths \ NoEtag : seen[p] > 0 /\ \A e \in Revision : ~Completed(p, e)}

\* _filter_pending: a path listed without an etag is looked up as (path, "") among
\* the (path, None) pairs filter_unprocessed returned, so it is never pending.
Pending(seen) == {p \in Paths \ NoEtag : seen[p] > 0 /\ ~Completed(p, seen[p])}

\* pending[-max_files:], the newest of a list sorted by file_date.
Newest(ps) == {p \in ps : Cardinality({q \in ps : q > p}) < MaxFiles}

\* Mutant: reclaiming without the age condition.
ReclaimedYoung == [r \in RunId |-> IF r \in ActiveRuns THEN "FAILED" ELSE syncRuns[r]]

\* reclaim_stale_runs.
Reclaimed == [r \in RunId |-> IF r \in ActiveRuns \cap old THEN "FAILED" ELSE syncRuns[r]]

-------------------------------------------------------------------------------
(* Outside the pipeline *)

\* The publisher adds a file or corrects one in place.
Publish(p) ==
  /\ remote[p] < MaxRevision
  /\ remote' = [remote EXCEPT ![p] = @ + 1]
  /\ UNCHANGED <<database, pc, local>>

\* started_at falls behind now() - ingest_stale_run_reclaim_minutes.
Age(r) ==
  /\ r \in ActiveRuns \ old
  /\ LiveRunsMayAge \/ \A w \in Workers : Live(w) => run[w] # r
  /\ old' = old \cup {r}
  /\ UNCHANGED <<remote, syncRuns, syncFiles, loaded, pc, local>>

\* ingest.py --reclaim-only, which every daily.sh pass runs before its guards.
ReclaimOnly ==
  /\ syncRuns' = Reclaimed
  /\ UNCHANGED <<remote, old, syncFiles, loaded, pc, local>>

-------------------------------------------------------------------------------
(* One pipeline process *)

\* run() begins by reclaiming.
Invoke(w) ==
  /\ pc[w] = "idle"
  /\ \E r \in RunId : syncRuns[r] = "NONE"
  /\ syncRuns' = Reclaimed
  /\ pc' = [pc EXCEPT ![w] = "starting"]
  /\ UNCHANGED <<remote, old, syncFiles, loaded, local>>

\* start_run inserts the RUNNING row that sync_runs_one_active_per_source admits.
StartRun(w) ==
  /\ pc[w] = "starting"
  /\ ActiveRuns = {}
  /\ \E r \in RunId :
       /\ syncRuns[r] = "NONE"
       /\ \A q \in RunId : q < r => syncRuns[q] # "NONE"
       /\ syncRuns' = [syncRuns EXCEPT ![r] = "RUNNING"]
       /\ run' = [run EXCEPT ![w] = r]
  /\ filesFailed' = [filesFailed EXCEPT ![w] = FALSE]
  /\ outcome' = [outcome EXCEPT ![w] = "PENDING"]
  /\ pc' = [pc EXCEPT ![w] = "discovering"]
  /\ UNCHANGED <<remote, old, syncFiles, loaded, listing, todo, file, rev, committed>>

\* SyncRunActiveError: report CANCELLED and return.  A process that finds every run id
\* of the bound taken gives up here too.
StartRefused(w) ==
  /\ pc[w] = "starting"
  /\ ActiveRuns # {} \/ \A r \in RunId : syncRuns[r] # "NONE"
  /\ pc' = [pc EXCEPT ![w] = "idle"]
  /\ UNCHANGED <<remote, database, local>>

Discover(w) ==
  /\ pc[w] = "discovering"
  /\ listing' = [listing EXCEPT ![w] = remote]
  /\ pc' = [pc EXCEPT ![w] = "planning"]
  /\ UNCHANGED <<remote, database, run, todo, file, rev, committed, filesFailed, outcome>>

Plan(w) ==
  /\ pc[w] = "planning"
  /\ todo' = [todo EXCEPT ![w] = Newest(Pending(listing[w]))]
  /\ pc' = [pc EXCEPT ![w] = "next"]
  /\ UNCHANGED <<remote, database, run, listing, file, rev, committed, filesFailed, outcome>>

\* start_file for the oldest remaining path.
StartFile(w) ==
  /\ pc[w] = "next"
  /\ \E p \in todo[w] :
       /\ \A q \in todo[w] : p <= q
       /\ file' = [file EXCEPT ![w] = p]
       /\ todo' = [todo EXCEPT ![w] = @ \ {p}]
       /\ syncFiles' = [syncFiles EXCEPT ![run[w]][p] =
            [status |-> "RUNNING", etag |-> listing[w][p], claimed |-> 0]]
  /\ committed' = [committed EXCEPT ![w] = 0]
  /\ pc' = [pc EXCEPT ![w] = "opening"]
  /\ UNCHANGED <<remote, syncRuns, old, loaded, run, listing, rev, filesFailed, outcome>>

\* fetch() opens the path as it is now, not as it was listed.
OpenFile(w) ==
  /\ pc[w] = "opening"
  /\ rev' = [rev EXCEPT ![w] = remote[file[w]]]
  /\ pc' = [pc EXCEPT ![w] = "loading"]
  /\ UNCHANGED <<remote, database, run, listing, todo, file, committed, filesFailed, outcome>>

\* One JobLoader.load: the batch and its checkpoint in one transaction.
LoadBatch(w) ==
  /\ pc[w] = "loading"
  /\ committed[w] < Batches
  /\ committed' = [committed EXCEPT ![w] = @ + 1]
  /\ loaded' = loaded \cup {<<file[w], rev[w], committed[w] + 1>>}
  /\ syncFiles' = [syncFiles EXCEPT ![run[w]][file[w]].claimed = committed[w] + 1]
  /\ UNCHANGED <<remote, syncRuns, old, pc, run, listing, todo, file, rev, filesFailed, outcome>>

\* Mutants: the error is swallowed, or the checkpoint is written outside the transaction.
LoadFailsSilently(w) ==
  /\ pc[w] = "loading"
  /\ committed[w] < Batches
  /\ committed' = [committed EXCEPT ![w] = @ + 1]
  /\ UNCHANGED <<remote, database, pc, run, listing, todo, file, rev, filesFailed, outcome>>
LoadFailsCheckpointed(w) ==
  /\ pc[w] = "loading"
  /\ committed[w] < Batches
  /\ committed' = [committed EXCEPT ![w] = @ + 1]
  /\ pc' = [pc EXCEPT ![w] = "failing"]
  /\ syncFiles' = [syncFiles EXCEPT ![run[w]][file[w]].claimed = committed[w] + 1]
  /\ UNCHANGED <<remote, syncRuns, old, loaded, run, listing, todo, file, rev, filesFailed, outcome>>

\* The transaction rolls back, after `committed += len(batch)'.
LoadFails(w) ==
  /\ pc[w] = "loading"
  /\ committed[w] < Batches
  /\ committed' = [committed EXCEPT ![w] = @ + 1]
  /\ pc' = [pc EXCEPT ![w] = "failing"]
  /\ UNCHANGED <<remote, database, run, listing, todo, file, rev, filesFailed, outcome>>

\* fetch() raises, at the opening or between two batches, or the closing finish_file does.
FetchFails(w) ==
  /\ pc[w] \in {"opening", "loading"}
  /\ pc' = [pc EXCEPT ![w] = "failing"]
  /\ UNCHANGED <<remote, database, local>>

FinishFile(w) ==
  /\ pc[w] = "loading"
  /\ committed[w] = Batches
  /\ ~Completed(file[w], listing[w][file[w]])
  /\ syncFiles' = [syncFiles EXCEPT ![run[w]][file[w]] =
       [@ EXCEPT !.status = "SUCCEEDED", !.claimed = committed[w]]]
  /\ pc' = [pc EXCEPT ![w] = "next"]
  /\ UNCHANGED <<remote, syncRuns, old, loaded, local>>

\* sync_files_completed_uq rejects a second SUCCEEDED row of a version.
FinishFileConflict(w) ==
  /\ pc[w] = "loading"
  /\ committed[w] = Batches
  /\ Completed(file[w], listing[w][file[w]])
  /\ pc' = [pc EXCEPT ![w] = "failing"]
  /\ UNCHANGED <<remote, database, local>>

\* Mutant: the failure is neither counted nor raised.
FailFileQuietly(w) ==
  /\ pc[w] = "failing"
  /\ syncFiles' = [syncFiles EXCEPT ![run[w]][file[w]].status = "FAILED"]
  /\ pc' = [pc EXCEPT ![w] = "next"]
  /\ UNCHANGED <<remote, syncRuns, old, loaded, local>>

\* The except clause of _process_file re-raises, so run() reports FAILED.
FailFile(w) ==
  /\ pc[w] = "failing"
  /\ filesFailed' = [filesFailed EXCEPT ![w] = TRUE]
  /\ syncFiles' = [syncFiles EXCEPT ![run[w]][file[w]] =
       [@ EXCEPT !.status = "FAILED", !.claimed = committed[w]]]
  /\ outcome' = [outcome EXCEPT ![w] = "FAILED"]
  /\ pc' = [pc EXCEPT ![w] = "closing"]
  /\ UNCHANGED <<remote, syncRuns, old, loaded, run, listing, todo, file, rev, committed>>

\* Any other exception of the body: the listing, the filter or start_file fails, or
\* finish_file does inside the except clause and leaves the row RUNNING.
RunFails(w) ==
  /\ pc[w] \in {"discovering", "planning", "next", "failing"}
  /\ outcome' = [outcome EXCEPT ![w] = "FAILED"]
  /\ pc' = [pc EXCEPT ![w] = "closing"]
  /\ UNCHANGED <<remote, database, run, listing, todo, file, rev, committed, filesFailed>>

RunDone(w) ==
  /\ pc[w] = "next"
  /\ todo[w] = {}
  /\ outcome' = [outcome EXCEPT ![w] = IF filesFailed[w] THEN "PARTIAL" ELSE "SUCCEEDED"]
  /\ pc' = [pc EXCEPT ![w] = "closing"]
  /\ UNCHANGED <<remote, database, run, listing, todo, file, rev, committed, filesFailed>>

\* KeyboardInterrupt is no Exception: only the finally clause runs, with report.status
\* as it was initialised.
Interrupt(w) ==
  /\ pc[w] \in InRun \ {"closing"}
  /\ outcome' = [outcome EXCEPT ![w] = "PENDING"]
  /\ pc' = [pc EXCEPT ![w] = "closing"]
  /\ UNCHANGED <<remote, database, run, listing, todo, file, rev, committed, filesFailed>>

\* The process is gone and with it everything it kept in memory.
Exit(w) ==
  /\ pc' = [pc EXCEPT ![w] = "idle"]
  /\ run' = [run EXCEPT ![w] = 0]
  /\ listing' = [listing EXCEPT ![w] = Nothing]
  /\ todo' = [todo EXCEPT ![w] = {}]
  /\ file' = [file EXCEPT ![w] = 0]
  /\ rev' = [rev EXCEPT ![w] = 0]
  /\ committed' = [committed EXCEPT ![w] = 0]
  /\ filesFailed' = [filesFailed EXCEPT ![w] = FALSE]
  /\ outcome' = [outcome EXCEPT ![w] = "PENDING"]

\* finish_run: UPDATE ... WHERE id = run_id, whatever the row says now.
FinishRun(w) ==
  /\ pc[w] = "closing"
  /\ outcome[w] \in Active => ActiveRuns \subseteq {run[w]}
  /\ syncRuns' = [syncRuns EXCEPT ![run[w]] = outcome[w]]
  /\ Exit(w)
  /\ UNCHANGED <<remote, old, syncFiles, loaded>>

\* An interrupted run that was reclaimed meanwhile writes PENDING back and meets
\* sync_runs_one_active_per_source: the update is refused.
FinishRunConflict(w) ==
  /\ pc[w] = "closing"
  /\ outcome[w] \in Active
  /\ ~(ActiveRuns \subseteq {run[w]})
  /\ Exit(w)
  /\ UNCHANGED <<remote, database>>

\* OOM kill, SIGTERM, power loss, or a database that is gone when finish_run runs.
\* Before start_run there is nothing to lose.
Crash(w) ==
  /\ Live(w)
  /\ Exit(w)
  /\ UNCHANGED <<remote, database>>

-------------------------------------------------------------------------------

Work(w) ==
  \/ StartRun(w) \/ StartRefused(w) \/ Discover(w) \/ Plan(w)
  \/ StartFile(w) \/ OpenFile(w) \/ LoadBatch(w)
  \/ FinishFile(w) \/ FinishFileConflict(w) \/ FailFile(w)
  \/ RunDone(w) \/ FinishRun(w) \/ FinishRunConflict(w)

Fault(w) == LoadFails(w) \/ FetchFails(w) \/ RunFails(w) \/ Interrupt(w) \/ Crash(w)

Next ==
  \/ \E p \in Paths : Publish(p)
  \/ \E r \in RunId : Age(r)
  \/ ReclaimOnly
  \/ \E w \in Workers : Invoke(w) \/ Work(w) \/ Fault(w)

Spec == Init /\ [][Next]_vars

\* A process that is not killed keeps running, time passes, and the timers keep firing:
\* systemd starts a daily.sh pass every ten minutes, which reclaims and invokes.
Fairness ==
  /\ \A w \in Workers : WF_vars(Work(w)) /\ WF_vars(Invoke(w))
  /\ \A r \in RunId : WF_vars(Age(r))
  /\ WF_vars(ReclaimOnly)

FairSpec == Spec /\ Fairness

-------------------------------------------------------------------------------
(* Safety *)

\* Two processes are never inside a run at once (sync.py: "two schedulers cannot
\* double-ingest the same file"), although the lock is only a row that any process may
\* reclaim, provided the window outlasts every live run.
WorkersExclude == \A v, w \in Workers : Live(v) /\ Live(w) => v = w

\* A live process still owns the row it inserted: reclaiming spares it.
LiveRunsHoldTheLock == \A w \in Workers : Live(w) => syncRuns[run[w]] = "RUNNING"

\* The index: at most one row is PENDING or RUNNING, whatever reclaiming, interrupted
\* and late processes write to it.
OneActiveRun ==
  \A r, s \in RunId : syncRuns[r] \in Active /\ syncRuns[s] \in Active => r = s

\* A SUCCEEDED file is wholly in the jobs table, in the version it was listed with or in
\* a later one, whatever crashed, failed or overlapped on the way: this is what makes
\* skipping it safe.
SucceededFilesAreLoaded ==
  \A r \in RunId, p \in Paths :
    syncFiles[r][p].status = "SUCCEEDED" =>
      \E v \in Revision : /\ v >= syncFiles[r][p].etag
                          /\ \A b \in 1..Batches : <<p, v, b>> \in loaded

\* A checkpoint never claims a batch that the jobs table does not hold (process.py: "never
\* claim rows that were not written").  FAILED rows are left out: theirs counts the batch
\* that was rolled back too.
CheckpointsAreCovered ==
  \A r \in RunId, p \in Paths :
    syncFiles[r][p].status \in {"RUNNING", "SUCCEEDED"} =>
      \E v \in Revision \cup {0} : \A b \in 1..syncFiles[r][p].claimed : <<p, v, b>> \in loaded

\* A run reports SUCCEEDED only if every file it started did.
SucceededRunsHaveNoFailure ==
  \A r \in RunId :
    syncRuns[r] = "SUCCEEDED" => \A p \in Paths : syncFiles[r][p].status \in {"NONE", "SUCCEEDED"}

-------------------------------------------------------------------------------
(* Strengthenings: what makes the properties above inductive *)

\* The locals of a process fit what it does next.
ProcessOK(w) ==
  /\ Live(w) => run[w] \in RunId
  /\ \A p \in Paths : listing[w][p] <= remote[p]
  /\ pc[w] \in {"next", "opening", "loading", "failing"} =>
       \A p \in todo[w] : listing[w][p] > 0
  /\ pc[w] \in {"opening", "loading", "failing"} => file[w] \in Paths /\ listing[w][file[w]] > 0
  /\ pc[w] = "opening" => committed[w] = 0
  /\ pc[w] = "loading" => listing[w][file[w]] <= rev[w] /\ committed[w] <= Batches
ProcessesOK == \A w \in Workers : ProcessOK(w)

\* A run id is used by one process; the rows of the run are its own.
RunsAreOwned ==
  /\ \A w \in Workers : Live(w) => syncRuns[run[w]] # "NONE"
  /\ \A v, w \in Workers : Live(v) /\ Live(w) /\ run[v] = run[w] => v = w

\* What a process counted as committed is in the jobs table, and its row says which
\* version that is.
CountedIsLoaded ==
  \A w \in Workers :
    /\ pc[w] \in {"opening", "loading", "failing"} =>
         /\ syncFiles[run[w]][file[w]].status = "RUNNING"
         /\ syncFiles[run[w]][file[w]].etag = listing[w][file[w]]
    /\ pc[w] = "loading" => \A b \in 1..committed[w] : <<file[w], rev[w], b>> \in loaded

\* A run has no row for what it did not start.
UnstartedHaveNoRow ==
  /\ \A r \in RunId : syncRuns[r] = "NONE" =>
       \A p \in Paths : syncFiles[r][p].status = "NONE"
  /\ \A w \in Workers :
       /\ pc[w] \in {"discovering", "planning"} =>
            \A p \in Paths : syncFiles[run[w]][p].status = "NONE"
       /\ pc[w] \in {"next", "opening", "loading"} =>
            \A p \in todo[w] : syncFiles[run[w]][p].status = "NONE"
       /\ pc[w] \in {"opening", "loading"} => file[w] \notin todo[w]

\* The files of a run but those of S have not failed, nor been left halfway.
NoneFailed(r, S) == \A p \in Paths \ S : syncFiles[r][p].status \in {"NONE", "SUCCEEDED"}

\* A process that goes on to the next file, or reports success, has failed on none.
FailuresStopTheRun ==
  \A w \in Workers :
    /\ Live(w) => syncRuns[run[w]] # "SUCCEEDED"
    /\ pc[w] \in {"discovering", "planning", "next"} => NoneFailed(run[w], {})
    /\ pc[w] \in {"opening", "loading"} => NoneFailed(run[w], {file[w]})
    /\ pc[w] = "closing" /\ outcome[w] = "SUCCEEDED" => NoneFailed(run[w], {})

\* The lock, under the window assumption.
LockIsHeld ==
  /\ \A w \in Workers : Live(w) => run[w] \notin old
  /\ \A r \in old : syncRuns[r] # "NONE"

\* What a process has still to do is not done.
NothingLeftIsDone ==
  \A w \in Workers :
    /\ pc[w] \in {"next", "opening", "loading"} =>
         \A p \in todo[w] : ~Completed(p, listing[w][p])
    /\ pc[w] \in {"opening", "loading"} =>
         ~Completed(file[w], listing[w][file[w]])

\* The inductive invariant: its first part holds whatever overlaps, the second one under
\* the window assumption.
TablesInv ==
  /\ TypeOK /\ ProcessesOK /\ RunsAreOwned /\ CountedIsLoaded /\ UnstartedHaveNoRow
  /\ SucceededFilesAreLoaded
LockInv ==
  /\ TablesInv /\ LockIsHeld /\ LiveRunsHoldTheLock /\ WorkersExclude /\ OneActiveRun
  /\ NothingLeftIsDone

-------------------------------------------------------------------------------
(* What no step may do *)

\* A run that ended keeps its status: in particular one reclaimed as FAILED stays visible.
EndedRunsStay ==
  [][\A r \in RunId : syncRuns[r] \in Terminal => syncRuns'[r] = syncRuns[r]]_vars

\* No process starts a version of a file that is already SUCCEEDED, although the filter
\* was read before the files ahead of it were processed.
NothingIsIngestedTwice ==
  [][\A w \in Workers :
       pc[w] = "next" /\ pc'[w] = "opening" => ~Completed(file'[w], listing[w][file'[w]])]_vars

-------------------------------------------------------------------------------
(* The promise *)

Certified == {pe \in Paths \X Revision : Completed(pe[1], pe[2])}

Ledger == INSTANCE IngestLedger WITH
  Holders <- RunId, holder <- ActiveRuns, store <- loaded, certified <- Certified

\* The tables, read as a ledger, only ever take the ledger's steps: every write and every
\* SUCCEEDED happens under the lock, once per version, over content already stored.
ImplementsLedger == Ledger!LedgerSpec

-------------------------------------------------------------------------------
(* What must happen *)

\* Every revision the publisher offers is ingested or superseded, unless faults recur for
\* ever: no pass of the timers leaves a file behind for good.  A step that the process's own
\* work explains, such as a conflict at finish_file, is no fault.
EveryFileIsIngested ==
  \A p \in Paths, v \in Revision :
    \/ []<><<\E w \in Workers : Fault(w) /\ ~Work(w)>>_vars
    \/ remote[p] = v ~> remote[p] # v \/ Completed(p, v)
===============================================================================
