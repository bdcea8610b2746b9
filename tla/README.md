# Verification of US-Fresh-Jobs

TLA+ models of the parts of this repository that decide whether the job board's data is
right: how files of postings are ingested, what a batch does to the tables, and the
schedules, locks and queues around them. Each module is translated from the code (the
`map` of `PROJECT.json` names the lines), model-checked with TLC on small instances, and,
where it matters most, proved with TLAPS for every value of the constants.

- [The system](#the-system)
- [Modules](#modules)
- [What the runs check](#what-the-runs-check)
- [What is proved](#what-is-proved)
- [What the code does not do as documented](#what-the-code-does-not-do-as-documented)
- [Not modelled](#not-modelled)
- [Plan](#plan)
- [Running the checks](#running-the-checks)

## The system

A source publishes Parquet files of job postings. A timer runs an ingestion pipeline, one
short-lived process per pass, which lists the files, filters those already done, and loads
them in batches into PostgreSQL. A FastAPI service reads the same tables, a Next.js site
reads the API, and other timers expire, purge, back up and deploy.

```
 publisher ──list/fetch──> connector ──postings──> pipeline ──batches──> JobLoader ─┐
                              │                       │                             v
                              └─archive─> storage     └─runs, files, rejections─> PostgreSQL
 daily.sh / watch timers ──invoke, reclaim──^                                       │  ^
 run-ingest-requests.sh ──invoke──^   ^── ingest_requests ──────────────────────────┘  │
                                       API (queue a request, search, paginate) <─── web │
 enforce_retention.py, purge-old-jobs.sh ──expire, delete───────────────────────────────┘
```

| part | state it keeps | operations | hard because | correct when |
|---|---|---|---|---|
| Sync runs and file checkpoints (`repositories/sync.py`, `pipeline/process.py`) | `sync_runs`, `sync_files` | reclaim, start_run, filter, start/checkpoint/finish file, finish_run | the lock is a row that any process may reclaim; a process can die between any two transactions; the filter is read once and used for minutes | runs exclude one another; SUCCEEDED means stored; a dead lock is released; every file is ingested |
| Job loader (`repositories/jobs.py`, `services/dedupe.py`) | `jobs`, `job_sources`, `job_events` | load a batch: known, merge, insert, update | reads precede the writes; merging by URL and fingerprint; ON CONFLICT; a purge in between | one job per posting, newest content shown, every change recorded |
| Rejections (`sync.py`, `process.py`) | a buffer in memory, `rejections`, `rejection_counts` | add, flush, finalize | sampling limits, a flush on the failing path | totals match what was dropped |
| Connector (`connectors/openjobdata`) | nothing (a listing) | discover, fetch, validate, normalize, archive | the remote changes between listing and fetching | oldest-first order; archived content is the fetched content |
| Location (`services/location.py`, `us_states.py`, `india_states.py`) | nothing | resolve country, state, city | six fields that contradict one another, codes and names that mean two places, five early returns | no job is placed in a country on a city's word or against better evidence |
| Classification and scope (`services/classify.py`, `backfill_categories.py`, `purge_out_of_scope.py`, migrations) | `jobs.category_slug`, `experience_level` | classify, relabel, remap, delete | four writers in batches, none of which excludes another; releases change the rules | a label fits its posting; what is deleted is out of scope |
| Freshness, dedupe (`services/freshness.py`, `dedupe.py`) | nothing | pure functions | boundaries of windows | as their tables say |
| Raw storage (`storage/local.py`, `s3.py`) | objects | put, get, exists | a crash while writing | a key never shows a partial object |
| Scheduling (`scripts/daily.sh`, `infra/systemd`) | a day's stamp, logs | guards, retries, reclaim, retention | three kinds of passes share one lock; a file that no run survives | the newest file is ingested, corpses are reclaimed, retention runs daily |
| On-demand ingest (`routers/jobs.py`, `run-ingest-requests.sh`) | `ingest_requests` | queue, cooldown, claim, run, finish, reclaim | API handlers and the runner race on rows without locks | one request at a time, each run once, its status true |
| Retention and purge (`enforce_retention.py`, `purge-old-jobs.sh`, `backup.sh`) | `jobs.status`, dumps | expire, dump, delete | runs beside a load, in batches; three windows set apart from one another | nothing is deleted that is shown or that no dump holds; stale jobs leave the board |
| API search and pagination (`repositories/jobs.py`, `pagination.py`) | cursor in the client | keyset pages, filters | NULL sort keys, rows that change between pages | no row skipped or repeated |
| API health, metrics, meta | none | probes | - | - |
| Web (`apps/web`) | applied jobs in local storage, cookies | pages, applied toggles | tabs share local storage | - |
| Deploy and rollback (`infra/deploy`) | tree, images, schema, containers, units | deploy, gate, roll back | a failed step half-way, releases in any order, two kinds of hosts | what it reports is so; the schema covers the code |
| Provisioning, alerts (`infra/oracle`, `check-freshness.sh`) | none | one-time set-up, a report | - | - |
| Schema (`database/migrations`) | constraints | - | partial unique indexes carry the invariants | modelled inside the modules that rely on them |

Retention, purge, the watch passes and the on-demand runner all act on the tables while a
load is in progress; the only mutual exclusion in the system is the `RUNNING` row of
`sync_runs`, which keeps two *loads* apart and nothing else.

## Modules

| module | models | checked through | proofs |
|---|---|---|---|
| `SyncRuns` | runs, their lock, file checkpoints, processes that crash | `MCSyncRuns` | `SyncRuns_proofs` |
| `IngestLedger` | what the checkpoints promise: writes and certificates under a lock | `SyncRuns` (`ImplementsLedger`) | `SyncRuns_proofs` |
| `Schedule` | the passes of `daily.sh`: guards, stamp, attempts, kills, retention | `MCSchedule` | `Schedule_proofs` |
| `JobLoader` | one load's reads and writes beside retention and purge | `MCJobLoader` | `JobLoader_proofs` |
| `JobBoard` | what a load promises: one step that edits, joins or creates jobs, beside retention and the purge | `JobLoader` (`ImplementsBoard`) | `JobLoader_proofs` |
| `Retention` | expiry, dumps and the purge, by their windows and guards | itself | `Host_proofs` |
| `Intake` | what the gates decide of one record: a set of reasons, a job or nothing | `MCRecordStream` | `RecordStream_proofs` |
| `RecordStream` | the records of a run's files: batches, duplicates, the rejection buffer | `MCRecordStream` | `RecordStream_proofs` |
| `IngestRequests` | the queue of on-demand fetches | `MCIngestRequests` | `IngestRequests_proofs` |
| `Pagination` | a walk through a list whose rows change between pages | `MCPagination` | `Pagination_proofs` |
| `Geography`, `Location` | the tables of places, and what a record's fields resolve to | `MCLocation` | `Posting_proofs` |
| `Taxonomy`, `Scope` | the classifier of two releases, and everything that writes a job's category or deletes by it | `MCScope` | `Posting_proofs` |
| `Deploy` | `deploy.sh` on one host, with rollback | `MCDeploy` | `Host_proofs` |
| `Fields` | a missing field, and Python's `or` over fields | `Location`, `Scope` | - |

The modules compose through what they assume of one another. `RecordStream` shows that a batch
has distinct ids and that a finished file has all its acceptable records in some batch, which
`JobLoader` and `SyncRuns` start from. `JobLoader`'s theorems for one
load at a time rest on `SyncRuns`' `WorkersExclude`; `IngestRequests` sees the pipeline as
the lock that `SyncRuns` describes, and uses that it is released in the end. `Schedule` sees an
ingest as what `SyncRuns` proves of one: under the lock, the newest pending files, until one
fails. `JobLoader` lets any job expire or vanish at any moment, which covers what `Retention`
and `Scope` let happen; these in turn take a load as an insert or an update, which is what
`JobLoader`'s `Commit` does to one job.

### SyncRuns

One process is `IngestionPipeline.run` from its first statement to its exit. `pc` names the
next transaction or remote call; its other variables are the locals that live across those
(`listing`, `todo`, `file`, `committed`, ...). `syncRuns` and `syncFiles` are the tables,
`loaded` stands for the `jobs` table: which batch of which version of which file is in it.
`old` is the set of runs whose `started_at` is behind the reclaim window.

| action | code |
|---|---|
| `ReclaimOnly`, `Invoke` | `ingest.py --reclaim-only`; `run()` up to `reclaim_stale_runs` |
| `StartRun`, `StartRefused` | `start_run` and the partial unique index; `SyncRunActiveError` |
| `Discover`, `Plan` | `discover`, `filter_unprocessed` with `_filter_pending` and `--max-files` |
| `StartFile`, `OpenFile`, `LoadBatch`, `FinishFile` | the loop of `_process_file`, the batch and its checkpoint being one transaction |
| `LoadFails`, `FetchFails`, `FailFile`, `RunFails`, `RunDone` | its except clauses, in their order |
| `FinishFileConflict`, `FinishRunConflict` | the partial unique indexes refuse an UPDATE |
| `Interrupt`, `Crash` | KeyboardInterrupt, which skips `except Exception`; a kill at any point |
| `Publish`, `Age` | the publisher adds or corrects a file; the clock |

A version (`etag`) is a number that grows with every correction; a path without `xet_hash`
is in `NoEtag`. Rows are abstracted to batches.

### JobLoader

`load` is one READ COMMITTED transaction, so each of its three reads is an action
(`FindExisting`, `MatchUrls`, `MatchFingerprints`) that sees what is committed at that moment,
and its writes are one action (`Commit`). A posting is an external id, a content and a
status; `content_hash` tells contents apart, the canonical URL and the fingerprint are
functions of the content (`Url`, `Fingerprint`). Where a query may return several jobs for a
key, the one returned last wins, so `Match` chooses any. Row ids come from a sequence that
never hands one out twice (`issued`). `Expire` and `Purge` are the two modes of
`enforce_retention.py`; they touch any job, which covers every age.

`JobBoard` is the same tables as a reader sees them change: `Load` of a batch, given by its ids in
the order of the file, is one step. At that step a known posting edits its job if it says
something else, an unknown one joins a job with its URL or text, or becomes a job of its own when
no job is like it; of unknown postings like one another only the last is held to that, since the
code looks up only that one. A posting may end up nowhere only if it was loaded before and a purge
is at work, which is the one way in which an interleaved load differs from an atomic one.

### Schedule

One pass is one process of `daily.sh`: the primary run of a day (`jobplatform-daily.timer`), the
watch pass of every ten minutes and a catch-up by hand. systemd starts a unit once at a time. The
sync lock is reduced to whose process opened the RUNNING row, "abandoned" once it is older
than the reclaim window.

| action | code |
|---|---|
| `Begin`, `BeginWithoutReclaim` | `daily.sh` up to `--reclaim-only`, which comes before the guards and may fail |
| `GuardSkips`, `GuardPasses` | `have_todays_file.py` for a catch-up, `has_new_file.py` for the watch pass |
| `Start`, `Refused` | the ingest takes the lock and its newest `--max-files` pending files; exit 3 |
| `Load`, `Loaded` | one file, oldest first; exit 0 |
| `Fails`, `Exhausted`, `Killed`, `Retry` | exit codes other than 0 and 3, a file too big for the host's memory, other kills, and the loop over attempts |
| `Retain`, `RetainFails` | `enforce_retention.py --expire-only` after the primary run |
| `Publish`, `NextDay`, `Age` | the publisher, the clock |

`Heavy` are the dates whose file no process survives: the code's comments tell of an OOM kill
at one, and the order of the steps in `daily.sh` is built around it.

### Retention

Time is counted in ticks, a few of which are a day. `Insert` and `Update` are the loader's,
`posted_at` being any age that the gate lets through, or missing. `dumps` holds each file of the
backup directory with the jobs it contains and whether it is complete or readable: a dump that
`backup.sh` rejects stays where it is. A transaction of `enforce_retention.py`, to expire or to
delete, is two actions: `PickBatch` is its sub-select, which sees one snapshot, `WriteBatch` writes
what was `chosen`, whatever a load, whose lock it waited for, has made of it (`overtaken`);
`WorkDone` is a statement that finds nothing. `Sweep` removes the events of deleted jobs; `Die`
ends a script at any point. `OutOf` is the predicate that the scripts share. `ByHand` allows a purge from a
shell, which nothing orders after the backup.

### Intake and RecordStream

`Intake` is a module of operators: `Faults` is `validate`, `Future` and `Implausible` are
`FreshnessService.assess`, `Rejections` and `Accepted` are `_prepare`, whose order of gates they
keep. A record is reduced to what a gate looks at; instants are hours.

`RecordStream` is one process in the body of `_process_file`, with the generator `_batches` and
the `_RejectionBuffer`. `pc` is "judging" while the reasons of a record (`todo`) are added to the
buffer, "loading" while a full batch is with the loader, then "closing" and "counting" for the
two INSERTs of `finalize`, which runs however the body ends. `samples` and `counted` are the two
kinds of rows of `sync_errors`, whose sum is what `rejection_summary` reports. The ghost `dropped`
counts what was rejected, `wanted` the ids that should be stored, `lost` says that a buffer died
with its process or with its last write.

| action | code |
|---|---|
| `StartFile`, `Fetch`, `EndOfFile`, `Load`, `FinishFile` | `_process_file`, `_batches` |
| `Refuse`, `Repeat`, `Accept` | what `_batches` does with the result of `_prepare` |
| `AddExample`, `AddCounted`, `AddFlushFails` | `_RejectionBuffer.add`, below the limit, past it, and with a failing flush |
| `Flush`, `WriteCounts`, `FinalizeFails` | `finalize` and its two writes |
| `BodyFails`, `Kill` | an exception of `fetch`, `_prepare` or the loader; a kill |

A write whose acknowledgement is lost after the commit is not modelled: a failed write was not
applied.

### IngestRequests

Each SQL statement of `request_ingest` and of `run-ingest-requests.sh` is an action. A
runner may be killed between any two, and a second one may be started by hand while the
timer's is at work, as the script's usage allows. The pipeline is reduced to its exit code
and to who holds its lock; a killed container leaves the lock to nobody ("other").

### Pagination

One walk of one client. `Answer` is `search` with `_page`: the candidates are the rows of the
WHERE clause, `First` is the LIMIT, `HasMore` the extra row, `NextCursor` the token. `Before` is
ORDER BY with its NULLS LAST, `Behind` the keyset condition with SQL's rule that a comparison
with NULL is never true; the two differ exactly on rows without a key. A page is a set of
entries, an id with the key it was listed under, since the order inside a page follows from
these. Filters decide which rows are in `table`; `Appear`, `Vanish` and `Change` are the other
writers, and filters that move with the clock. The four routes that list jobs differ in
filters and sort only, so one action covers them. Sorting by rank has no cursor, and its walk is
one page.

### Geography and Location

`Location` is `LocationNormalizer.normalize`, one operator per step of the code, over a record of
six fields. What a word does depends only on the tables that hold it, so `Geography` keeps one
word of every combination of tables that exists, found by enumerating the overlaps of the real
ones: codes that are states of both the United States and India, Indian states that are also
listed as foreign subdivisions, cities that are foreign, ambiguous, Indian or an alias. Of a free
text the model keeps what its patterns find. Step 5 of the code cannot be reached (a text that
says "US Remote" contains an alias of the country, which step 1 finds) and has no counterpart. The
remote type is left out: it decides nothing else.

### Taxonomy and Scope

`Taxonomy` is the classifier with its rules in priority order, for the releases before and after
migration 0006, cut down to a word of each kind: matched by no rule, by one, by two, and one that
the migration's own patterns file elsewhere than the rules do. `Scope` has every writer of a
category: `Insert` and `Update` of an ingest, `Deploy` with its remapping, `ReadBatch` and
`WriteBatch` of `backfill_categories.py`, `DeleteBatch` of `purge_out_of_scope.py`, and an operator
who changes the settings at any time. A process keeps the release and the setting it started with.
Three history variables name the races: `touched` are jobs loaded after a backfill read
them, `doubtful` those that carry a label from such a race or from a migration, `late` those
written during a purge by something with a wider scope.

### Deploy

A release is a commit of a linear history; `last` names, for each commit and each of its three
parts, the commit that last changed the part, so that two commits may share an image, a schema or
the units. A host builds its images or pulls them by a pinned tag (`pin`).

There are two kinds of images. Those of `api` and `web` are containers (`image` and `spare` are
their `:latest` and `:rollback`). `ingest` is behind a compose profile, so that `build`, `pull` and
`up` pass over it, and only `run` starts it: for the timers, and for alembic. A pinned host pulls
it when it is run. A host that builds keeps the one it has (`worker`, `workerSpare`) until somebody
builds another (`IngestByHand`). `Composed` is what compose starts, `Ingest` what `run` does.

| action | code |
|---|---|
| `Begin` | the start of `deploy.sh` up to the tags `:rollback` |
| `Checkout`, `MovePin` | git; the tag that follows the commit |
| `GetImages`, `Migrate`, `Up` | build or pull, alembic in the image of `ingest`, `up -d` |
| `Healthy`, `Reinstall` | the health gate, the units |
| `Unhealthy`, `Undo`, `UndoFails` | the way back; whether its checkout works, the script does not look |
| `ImagesFail`, `MigrateFails`, `UpFails`, `Killed` | `die`, or a kill, at each step |
| `Rollback` | `--rollback` |

Whether there are migrations to apply is decided, as in the code, by comparing the commit that was
checked out with the target. `owed` records that a deploy left migrations behind: it stopped before
them, or alembic ran in an image that does not have them. The two files that hold the tag are taken
to be writable, and nobody to work on the host while a deploy runs.

## What the runs check

| run | shows |
|---|---|
| `SyncRuns_window` | Two processes, two files of two batches, three runs, every fault. Runs exclude one another (`WorkersExclude`), nothing is ingested twice, checkpoints are covered by data, and the tables implement `IngestLedger`. |
| `SyncRuns_overlap` | The window may be shorter than a run: two processes overlap on a file that is corrected in place. `SUCCEEDED` still means stored, a run that failed on a file does not succeed, and the last version is still ingested, which needs every dead lock to be released. |
| `JobLoader_load` | One load at a time, with rollbacks, retention and purges between its three reads and its writes: it has the effect of one step of `JobBoard`, each job shows what one of its sources said last, status changes of a load are recorded, a replay is a no-op for jobs with one source. |
| `JobLoader_status` | A disagreement, below. |
| `RecordStream_files` | Two files of up to three records: the totals of rejections are exact however a file ends, nothing is counted twice by a retried flush, a batch has no id twice, a finished file leaves no acceptable record out, and refused rows are matched by as many occurrences of reasons that refuse. |
| `IngestRequests_queue` | Two POST handlers, two runners, deaths and late answers: every request is answered, says SUCCEEDED only if it was fetched, and only overlapping handlers put two in flight. |
| `Pagination_walk` | Pages of one or two over three rows with two dates or none: no page repeats or reorders what was shown, no steady row with a key is missed, `has_more` is right about rows with a key, every walk ends. |
| `Schedule_days` | Three kinds of passes over two days, the first of which has a file that kills its process: no pass reads what another ingested since it planned, the newest file is ingested in spite of the heavy one, a corpse's lock is reclaimed although no pass ever gets to an ingest, and each day's primary run ends in retention unless it failed or was refused. |
| `Retention_nights` | Two and a half days of loads, dumps, expiry and purges under every order of the windows: the purge takes nothing that the dump it relies on does not hold, and nothing that the board still shows, except a job that a load renewed while the purge waited for its row; pruning leaves a readable dump; stale jobs leave the board. |
| `Location_words` | All 77,616 records of one word per class in each field: no country on a city's word alone, foreign evidence beats a claim to the United States, a stored state belongs to the stored country. |
| `Scope_jobs` | Two jobs through ingest, backfill, purge, a release and changed settings, one row to a transaction: a backfill of all rows leaves none with the old rules, a label always comes from the posting beside it, a purged scope holds, each except for the named races. |
| `Deploy_host` | Four commits of any content, deployed in any order, every step failing. What the script says when it ends is true of the containers and of what compose would start: after "deployed" they are of the tree, after "rolled back to" of the commit it names. Neither what runs nor, between deploys, what compose or a timer starts lacks a migration, until a deploy left one behind. The units come from a release that passed the gate. |

### Bounds

- `SyncRuns`: two processes are enough for every race on the lock, since at most one process
  can be inside a run while a second reclaims, starts or is refused; two files make order and
  backlog visible, two batches a partial file, two versions a correction. `MaxRuns` bounds
  the run ids. In the run with liveness it must not end the passes, so `MCSyncRuns` adds
  `Recycle`, which takes back the id of an ended run without a SUCCEEDED file, which no query
  reads and no process writes any more. With two batches that run would take hours: the
  batches of a file that its process leaves halfway are in `SyncRuns_window`, where
  `ImplementsLedger` certifies only what is whole, and in the theorems.
- `JobLoader`: two ids, three contents (two of them with one URL, two with one fingerprint),
  three job ids: a merge by URL, one by fingerprint, a merge that hides another within a
  batch, and a job deleted and inserted again. When the ids of `JobIds` run out, a load can
  only abort; deadlock is not possible since `Abort` remains. The code reads a level in
  statements of 1,000 keys (`repositories/jobs.py:40`), the model in one action: what is claimed of
  a read (`ReadsAreFresh`, `MatchesAreFresh`) is claimed of each posting by itself, and holds
  from the moment of its own statement on.
- `IngestRequests`: two handlers and two runners for each race; two requests for the order
  of the queue and for a request in flight beside an answered one.
- `RecordStream`: a batch of two, a flush of two and one example per reason put every limit
  inside a file of three records; the second file shows what the buffer carries over (nothing)
  and what the tables do. The five records cover a kept job on the edge of the window, a date in
  the future that is kept with a reason, one past the window, one with two faults and one
  without a country; equal ids occur within and across batches. The run ends when its files
  are done, so deadlock is not checked there.
- `Pagination`: three rows are a page, the row past it and one that moves; two keys give ties and
  an order, NULL the rest. The rows a job may have let two sorts disagree.
- `Schedule`: two dates are a heavy file and a newer one behind it; two versions a correction;
  two attempts one retry. The limits of files per pass are 1 and 2 where the code has 1
  and 3: with two dates more than two are never pending.
- `Retention`: one job suffices, since no guard relates two jobs but the size of a batch, which is
  1. Two ticks are a day and five the horizon, so a job can be inserted, outlive every window, be
  dumped, expired and purged. Windows of 0, 1 and 2 days are off, at and past the gate of 1.
- `Location`: the words are chosen per table, not at random; the proofs cover every set of words.
- `Scope`: two jobs with a batch of one put a write between two batches of both scripts; four
  postings are decided by the title against the department, by the team alone, by nothing, and by
  two rules.
- `Deploy`: four commits are the one on the host and three deploys of new code: one that stops
  halfway, one over its remains, and one that is rolled back to what these two left. `MCView`
  identifies states that differ only in what nothing reads again (the last deploy's variables while
  none runs, the last exit while one does); no property or guard depends on these.

Symmetry is used only in runs without liveness or over sets that no property orders
(`JobLoader`'s job ids and loaders, `SyncRuns`' processes).

### Assumptions on time

`LiveRunsMayAge = FALSE` says that no live run is older than the reclaim window.
`config.py:122-130` chooses the window for that: 30 minutes against at most 16 observed.
Nothing enforces it, which is why `SyncRuns_overlap` drops it.

Fairness is what the timers give. A pass is started every ten minutes by
`jobplatform-watch.timer`, which reclaims (`WF` of `ReclaimOnly`) and invokes the pipeline (`WF`
of `Invoke`); a process that is not killed takes its next step; time passes (`WF` of `Age`). The
on-demand runner is fired every minute (`OnUnitActiveSec=1min`); nothing is assumed of the runner
started by hand but that it runs on once started. In `Pagination`, a client follows the link it
was given (`WF` of `NextPage`), whatever the writers do. In `Schedule` the timers keep firing, but
a pass may find the database away and reclaim nothing; that this does not happen at every start
for ever is strong fairness (`SF` of `Begin`), and nobody needs to start a catch-up. In
`Retention` the daily run gets to retention again and again (`WF` of `ExpireStart`, which is what
`RetentionRunsDaily` is about) and its batches run on. Faults are never fair and never excluded:
liveness properties say "unless faults recur for ever".

## What is proved

All theorems hold for every value of the constants, under the assumption each module names.

**`SyncRuns_proofs`.** `TablesInv` is inductive however runs overlap: a process's locals fit its
place (`ProcessesOK`), run ids have one owner (`RunsAreOwned`), and what a process has counted is
in the table (`CountedIsLoaded`). The last is what makes `SucceededFilesAreLoaded` inductive: the
count of a live process is the only witness that the batches of a file not yet finished are
stored, and a crash throws the witness away together with the claim. `SucceededLoaded` and
`CheckpointsCovered` follow without any assumption on time, and so does `SucceededClean`, from
`FailuresStopTheRun`: a process that goes on to the next file, or reports success, has failed on
none, and no live process works for a run that is SUCCEEDED. With `~LiveRunsMayAge`, `LockInv`
adds that a live run is not old, so that reclaiming never hits one, and that what is still to do
is not yet SUCCEEDED; from it follow `Exclusion`, `EndedStay`, `IngestedOnce` and `Refinement`
(initial states map to initial states of `IngestLedger`, every step to a step or a stutter).

**`JobLoader_proofs`.** Whatever overlaps: `TypeCorrect`, `SourcesHeld`, `ProvenanceStaysPut`,
`StatusChangesRecorded`, and without a purge `NothingLost`. With at most one load at a time
(`OneLoad`, which `Exclusion` provides): `NoOrphanJob`, `JobsShowTheirSources`, `ReplayNoOp`.
The strengthening is `ReadsAreFresh`: what level 1 read still describes the tables, except
for jobs deleted or expired since, which is exactly what survives retention and purges in
between. It is the part that two loads would break. `BoardRefinement` says more: the load is one
atomic step of `JobBoard`. For it `MatchesAreFresh` says the same of the two later reads, a target
still being like its posting and a posting without one having no like; the step of `Commit` then
goes posting by posting (`Places`) and job by job (`UpdatesAreEdits`).

**`IngestRequests_proofs`.** `QueueInv` is inductive for any number of handlers, runners and
requests; `StatusSteps` lists the only changes a status can undergo. `SecondNeedsARace` rests
on the order of the ids: without a race, the one request in flight is always the latest, so
that looking at the latest row is enough.

**`RecordStream_proofs`.** `Stream`: `StreamInv` is inductive for every chunk, flush and sample
limit. Its core is `BufferAddsUp`: every rejection is in exactly one of four places, written,
sampled, counted or tabled; `BufferIsWritten` says which of these are empty where the process is
past a write. `Totals`, `NoneTwice` and `FinishedStored` follow from it. `RefusedHaveAReason` is
about `Intake` alone: for every setting of the gates, a record is refused exactly when it has a
reason other than its date. `RejectionsExplained` adds the rows up: there are at least as many
occurrences of reasons that refuse as rejected records. A sum over all reasons would be a fold,
whose value needs an induction the provers cannot do; `Refusals` numbers the occurrences of each
reason instead, and counts the set of pairs, to which a step adds one. Its strengthening is
`ReasonsComeFirst`: between the last refusing reason of a record and the count of that record, the
occurrences are one ahead.

**`Pagination_proofs`.** The lemmas say that ORDER BY is a strict total order, that the keyset
condition is its tail among rows with a key, and that the first rows of a finite set are an
upper part of it, all of it exactly when it is small enough. `WalkInv` is inductive: the cursor
is the last entry shown (`CursorIsLast`), and a steady row with a key is either shown or behind
the cursor (`SteadyRowsAreAhead`). `PagesAreDisjoint`, `SteadyShown` and `MoreOfKeyed` follow, for
every set of rows, page size and change between pages.

**`Schedule_proofs`.** `ScheduleInv` is inductive for any number of days, versions and attempts.
`PlansAreFresh` needs `IngestsHoldTheLock`: a plan stays disjoint from what is done because only
the holder of the lock adds to it, and a reclaim frees only a lock whose pass no longer ingests.

**`Host_proofs`, on `Retention`.** `RetentionInv` says that a dump holds every stored job first
seen before it (`DumpsHoldTheOlder`), that the gate bounds the age a job had when it was first seen
(`GateBounds`), that what the guards found still holds while the purge works (`GuardsHold`), and
that what a batch has chosen is still past the window, unless a load changed it since
(`ChosenAreOld`). Together these give `DeletedDumped`: a job out of the purge's window was, by the gate, first seen
before the last day, hence before the dump. `ShownStay` and `ReadableRemain` need less. The
windows, the gate, the batch and the set of jobs are arbitrary.

**`Host_proofs`, on `Deploy`.** For any number of commits of any content, and both kinds of
host: `ExitsTrue`, `SchemaAhead`, `UnitsPassed`. The invariant is `DeployInv`.
`HistoryIsLinear` is why comparing commits works: migrations only accumulate, and the images
of a commit bring its migrations. `HostFollowsTheTree` says at which step which part of the host
is of the tree's commit, and that an undo still has what it needs. `MigrationsComeFirst` extends
`SchemaCovers` from what runs to whatever may be started next: the pinned and the spare
images, those of `ingest`, the tree and the commit to return to. A rollback reads these long after
the deploy that left them there, so `SchemaCovers` alone is not inductive. What alembic leaves out
on a host that does not rebuild `ingest` is in `owed`; the theorem says that nothing else leaves
the schema behind.

**`Posting_proofs`, on `Location`.** For every choice of words per field. The tables are opened in
one lemma, `TableFacts`, which states how they overlap; the rest argues from these facts and the
order of the steps. `TextsAssumption` says what the free-text patterns can return.

**`Posting_proofs`, on `Scope`.** For any set of jobs, postings and any size of batch:
`Reclassified`, `OnlyRaces`, `PurgedScope`. A backfill reads a page in one transaction and writes
it in another, and does not come back to a page. So the invariant says what holds behind the
cursor (`BehindTheCursor`) and what the page in hand is still good for (`UpdatesAreCurrent`: an
update that was computed fits the job it is for, unless the job was loaded in between, when it is
`touched`). That ids are read in order, so that every job not behind the cursor is read later,
is `PageFacts`, the one place that needs the least element of a finite set.

**What is only model-checked.** The liveness properties (`EveryFileIsIngested`,
`RequestsAreAnswered`, `WalksEnd`, `NewestIsIngested`, `CorpsesAreReclaimed`, `RetentionRunsDaily`,
`StaleJobsLeave`), which TLAPS cannot treat with their fairness. Every safety property of a
passing run is also proved. Type correctness is the other way round: the
modules with proofs prove it (`TypeCorrect`, or inside the inductive invariant), and no run
repeats it. The same holds of `JobsAreSourced` (which `JobBoard` keeps, too), `EndedRunsStay`,
`LiveRunsHoldTheLock`, `SourcesAreHeld`, `ProvenanceStays`, `NothingIsLost`,
`AnsweredStayAnswered` and `RowsAddUp`.

## What the code does not do as documented

`JobLoader_status` shows one by a counterexample, and `PROJECT.json` quotes the lines: a posting
closed or reopened by its source without an edit counts as unchanged, and keeps its old status.

The others were met while modelling. They follow from a definition of the model, and have no
run of their own.

Loading and its queue:

- `finish_file` writes to a FAILED row a count that includes the batch rolled back
  (`process.py:229-248`, `LoadFails` and `FailFile`), against `sync.py:394-395`. This is why
  `CheckpointsAreCovered` leaves FAILED rows out.
- Handlers that overlap each read the latest request before either inserts, and queue two
  fetches, against `jobs.py:562-563`; `SecondOnlyByRace` says that nothing else does.
- Examples are limited per file and reason, since each file has its buffer; `sync.py:49` and
  migration 0005 say per run.
- A file listed without `xet_hash` is discovered by every pass and never pending (`process.py:207`
  looks up `(path, "")` among pairs `(path, None)`): `Pending` leaves `NoEtag` out.
- With one file per pass, a backlog is processed newest-first across passes (`Newest`), although
  `daily.sh:144-147` says that the order has to stay oldest-first.
- `PARTIAL` is never written (`process.py:184`): a failed file ends the run as FAILED.
- Nothing reads `get_file_progress`; a killed file starts from its first batch (`sync.py:7-8`
  says it resumes).
- A `CREATED` event says ACTIVE even for a job first seen closed (`jobs.py:453`), and
  retention expires jobs without an event, against "every transition is recorded".
- Two new postings of one batch with one apply URL become two jobs (`jobs.py:612`).
- Re-running a file after a merge rewrites the merged job with the replayed source's content
  (`docs/01-architecture.md:232-233`).
- Only the run lock stops two loads from inserting a posting twice; `jobs` itself has no key
  for it (`jobs.py:3-8`).
- A job purged between level 1 and the UPDATE is updated nowhere and counted as updated
  (`repositories/jobs.py:584`), against "must never lose one" (`jobs.py:4-5`): `NothingLost` is
  proved without a purge only.
- A runner that was overtaken answers by the id alone (`run-ingest-requests.sh:76`), and its FAILED
  or SKIPPED may overwrite a SUCCEEDED; `SucceededIsFetched` is about the other direction.
- A runner that lost the claim of a request does not notice, because `psql -tA` prints `UPDATE 0`
  (`run-ingest-requests.sh:52` against `:47-48`): `Claim` goes on in both cases.
- Rows without a date are listed by a first page only; after a cursor they match nothing and
  `has_more` denies them (`routers/jobs.py:37`, `:130`, `pagination.py:34`): `MoreExistOfKeyed` and
  `SteadyRowsAreShown` speak of rows with a key. About a sixth of the source's rows have no date.

Schedule, retention and backups:

- After an OOM kill, the pass's own retry is refused with exit 3 by the row of its predecessor and
  ends as "another ingest is already running", exit 0, without retention. This recurs on each
  day on which the heavy file is among the newest pending ones; `RetentionRunsDaily` allows a
  day that was refused.
- `daily.sh`, the documentation and `ingest.py` speak of a reclaim window of 120 minutes; 30 are
  configured.
- `check-freshness.sh` takes the last SUCCEEDED row of `sync_runs` for an ingest, which a run over
  no files also writes; its alert "no successful ingest" cannot fire.
- A dump that is unreadable or still being written satisfies the purge's guard
  (`purge-old-jobs.sh:64` against `:16`, `backup.sh:56-61`). `DeletedIsDumped` therefore speaks of
  complete dumps, and of a purge by its unit.
- A batch of the purge deletes, and one of retention expires, a job that a load has given a new
  date while the statement waited for its row: the sub-select (`enforce_retention.py:136-158`) is
  not evaluated again. `ShownJobsStay` leaves these jobs out (`overtaken`).
- With retention switched off, the purge deletes jobs that the board shows: `ShownJobsStay` has a
  premise. The purge relies on a gate smaller than its window, which no code compares.
- `enforce_retention.py` returns "Nothing to do" before it sweeps orphaned events.
- A job whose source keeps reactivating it is expired and shown by turns; `StaleJobsLeave` leaves
  it out.

Deploy:

- On a host that builds, `build` has no `--profile ingest` (`deploy.sh:204`,
  `docker-compose.prod.yml:209`) and the image of `ingest` stays what it was. The migrations of the
  release are then applied from that image (`deploy.sh:209-211`), which does not have them:
  alembic succeeds without any, `up -d` starts `api` and `web` on the old schema, and after
  "deployed" the timers go on with the old `ingest`. `docs/07-deployment.md:211-217` builds in the
  same way. `ExitsTellTheTruth` is therefore about `api` and `web`, and `SchemaCovers` counts such
  migrations as `owed`.
- The checkout of an undo may fail unnoticed (`deploy.sh:254`). The tree then stays at the release
  that failed, "rolled back to" is logged, and a retry ends at "already at the target":
  `ExitsTellTheTruth` does not speak of the tree after a rollback.
- On a pinned host the tag moves before the migrations are applied, and a timer that fires in
  between runs the new `ingest` on the old schema: `SchemaCovers` speaks of `ingest` between
  deploys only.
- `--ref` with an older commit: `git merge --ff-only` of an ancestor does nothing and succeeds, the
  current commit is rebuilt, and "deployed" is logged with the older name (`deploy.sh:6`,
  `README.md:27`). `ExitsTellTheTruth` says that tree, images and containers agree, not on what.
- A build that fails does not leave images and tree as they were (`deploy.sh:142`, `README.md:25`):
  git and the pinned tag have moved, and the retry ends at "already at the target".
- The migrations of a deploy that stopped before applying them are not applied by the next one,
  which looks from the commit left checked out: `owed` in `SchemaCovers`.
- The images tagged `:rollback` may be those of a release that never served.
- A target older than the schema fails at `alembic`; `--rollback` is refused on a pinned host.

Location:

- A junk country beside a bare code that is also Indian (AR, AS, CT, GA, LA, MN, MP, TN) gives India
  (`location.py:273-275` comes before `:318-320`, "positive evidence"; `india_states.py:167-169`).
- "Albuquerque, New Mexico" with a junk country becomes Mexico; Vienna VA, Naples FL and Rome GA
  are rejected although their state is known.
- A city "LA" alone is promoted to Louisiana before its alias is looked up. Step 5 is unreachable.

Scope:

- A backfill does not recompute what an ingest decided (`backfill_categories.py:5-7`): an ingest
  also goes by `team` and `experience_level`, which are not stored. A backfill of all rows
  undoes such labels, and a purge that follows deletes jobs that the gate accepts.
- Migrations 0004 and 0006 say that the foreign key forbids deleting a slug that rows use; it is ON
  DELETE SET NULL (`0002_role_categories.py:131-138`), so rows committed meanwhile lose theirs.
- `content_hash` leaves department, team and seniority out: an edit of these is never stored. An
  edit that takes a job out of scope is rejected and leaves the old row.
- `purge_out_of_scope.py` ignores the blocklist, and deletes what was written since it counted.

Pure functions:

- `FreshnessService.classify` never answers POSTED_TODAY for a date in the past.
- Deduplication strips `gh_jid` as tracking although it identifies the job on embedded boards.

## Not modelled

- The companies, locations and countries a load upserts: they hang on a job and decide nothing
  about it.
- `sync_run_id` and the messages of an ingest request.
- Decoding and normalising a record: `Intake` starts from the result. The patterns of the
  classifier and the URL and title normalisation of `dedupe.py` are functions of a text character by
  character; the models take what they tell apart.
- `FreshnessService.classify` and `window_start`: a label for display.
- Archiving of source files and the raw storage: no code of the repository reads an archived
  object back, and nothing but tests archives one.
- Facets, statistics and company pages of the API: single reads.
- The web site, health and metrics endpoints, provisioning, alerts, CI: no state that the data's
  correctness depends on, or only that of external tools.
- Indexes, columns and triggers of the migrations that no model keeps.
- Of the hazards in `PROJECT.json` one has no property: which of two records with one id in
  one file wins depends on the batch size, and no document says which should. Where a property
  exempts what the code does (a day of retention refused, an answer that comes late), the hazard
  says so.

## Plan

1. Overlapping loads on the board: what of `JobBoard` survives without `OneLoad`.
2. `SyncRuns` and `JobLoader` composed, so that `OneLoad` is a step of the proof and not a hypothesis
   of the theorems.
3. An abstract specification of the on-demand queue, for `IngestRequests` to implement.
4. `Retention` with two jobs and a batch of two, should its state space allow.

## Running the checks

```
tlc -workers 2 -config SyncRuns_window.cfg MCSyncRuns      # and the other .cfg files
tlapm SyncRuns_proofs.tla                                  # and the other *_proofs modules
```

Each `.cfg` starts with what it instantiates; its name up to the underscore, prefixed with
`MC` except for `Retention`, is the module to check. Every run takes at most a few
minutes. `PROJECT.json` lists, for each property, a mutant of the code's model that the run
refutes.
