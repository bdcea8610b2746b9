------------------------------- MODULE JobLoader -------------------------------
(***************************************************************************)
(* The write path into PostgreSQL: JobLoader.load over jobs, job_sources   *)
(* and job_events for one source, beside the retention script that expires *)
(* jobs and the purge that deletes them.                                   *)
(*                                                                         *)
(* A load is one READ COMMITTED transaction: its three reads each see what *)
(* is committed when they run, and its writes appear together at the end.  *)
(* A posting is its external id, its content (what content_hash digests:   *)
(* the canonical URL and the fingerprint are functions of it) and the      *)
(* status the source gave it.                                              *)
(***************************************************************************)
EXTENDS Integers

CONSTANTS
  Loaders,         \* pipeline processes inside load() at once
  ExternalIds,     \* the source's job ids
  Contents,        \* what a posting can say
  Url,             \* content -> apply_url_hash, or Null
  Fingerprint,     \* content -> dedupe_fingerprint
  JobIds,          \* bound: jobs.id values the sequence can hand out
  Null,
  MaxBatch,        \* ingest_upsert_chunk_size
  Statuses,        \* the statuses _prepare gives a posting
  ExpireOnly,      \* TRUE: enforce_retention.py --expire-only runs beside the loads
  Purging          \* TRUE: purge-old-jobs.sh does

VARIABLES
  jobs,            \* job id -> the jobs row
  issued,          \* job ids the sequence handed out
  sources,         \* external id -> job id of its job_sources row
  recorded,        \* job id -> new_status of its last job_events row that has one
  reported,        \* external id -> the posting committed last (history)
  pc,              \* loader -> the statement of _upsert_jobs that comes next
  batch,           \* loader -> the postings to load
  existing,        \* loader -> index -> what level 1 found
  targets          \* loader -> index -> the job to merge into

tables == <<jobs, issued, sources, recorded>>
vars == <<tables, reported, pc, batch, existing, targets>>

Posting == [id : ExternalIds, content : Contents, status : {"ACTIVE", "EXPIRED"}]
Row == [content : Contents, status : {"ACTIVE", "EXPIRED"}]
Batch == UNION {[1..n -> Posting] : n \in 0..MaxBatch}
\* What level 1 reads of a source row.
Known == [job : JobIds, content : Contents, status : {"ACTIVE", "EXPIRED"}]

ASSUME JobLoaderAssumption ==
  /\ Null \notin JobIds \cup Posting \cup Row \cup Known
  /\ Statuses \subseteq {"ACTIVE", "EXPIRED"}
  /\ MaxBatch \in Nat

Held(j) == jobs[j] # Null

TypeOK ==
  /\ jobs \in [JobIds -> Row \cup {Null}]
  /\ issued \in SUBSET JobIds
  /\ sources \in [ExternalIds -> JobIds \cup {Null}]
  /\ recorded \in [JobIds -> {"ACTIVE", "EXPIRED"}]
  /\ reported \in [ExternalIds -> Posting \cup {Null}]
  /\ pc \in [Loaders -> {"idle", "level2", "level4", "writing"}]
  /\ batch \in [Loaders -> Batch]
  /\ DOMAIN existing = Loaders
  /\ DOMAIN targets = Loaders
  /\ \A w \in Loaders :
       /\ existing[w] \in [DOMAIN batch[w] -> Known \cup {Null}]
       /\ targets[w] \in [DOMAIN batch[w] -> JobIds \cup {Null}]

Init ==
  /\ jobs = [j \in JobIds |-> Null]
  /\ issued = {}
  /\ sources = [i \in ExternalIds |-> Null]
  /\ recorded = [j \in JobIds |-> "ACTIVE"]
  /\ reported = [i \in ExternalIds |-> Null]
  /\ pc = [w \in Loaders |-> "idle"]
  /\ batch = [w \in Loaders |-> <<>>]
  /\ existing = [w \in Loaders |-> <<>>]
  /\ targets = [w \in Loaders |-> <<>>]

-------------------------------------------------------------------------------
(* What the reads find *)

\* Level 1: the job of a source row, as it is now.
Existing(i) ==
  IF sources[i] = Null THEN Null
  ELSE [job |-> sources[i], content |-> jobs[sources[i]].content, status |-> jobs[sources[i]].status]

\* Indexes of a batch whose key nobody after them shares: a dict built from a list.
LastOfKey(K, key) == {k \in K : \A l \in K : l > k => key[l] # key[k]}

\* Mutant: level 2 looks at open jobs only.
ByUrlOpen(b, K) ==
  LET key == [k \in K |-> Url[b[k].content]]
  IN  [k \in LastOfKey({k \in K : key[k] # Null}, key) |->
        {j \in JobIds : Held(j) /\ jobs[j].status = "ACTIVE" /\ Url[jobs[j].content] = key[k]}]

\* Level 2 among the indexes K that level 1 did not find.
ByUrl(b, K) ==
  LET key == [k \in K |-> Url[b[k].content]]
  IN  [k \in LastOfKey({k \in K : key[k] # Null}, key) |->
        {j \in JobIds : Held(j) /\ Url[jobs[j].content] = key[k]}]

\* Level 4 among those that level 2 did not find either.
ByFingerprint(b, K) ==
  LET key == [k \in K |-> Fingerprint[b[k].content]]
  IN  [k \in LastOfKey(K, key) |->
        {j \in JobIds : Held(j) /\ Fingerprint[jobs[j].content] = key[k]}]

\* Several jobs can match; the row the query returns last is the target.
Match(w, K, candidates) ==
  \E t \in [DOMAIN batch[w] -> JobIds \cup {Null}] :
    /\ \A k \in DOMAIN batch[w] :
         t[k] \in IF k \in K /\ k \in DOMAIN candidates /\ candidates[k] # {}
                  THEN candidates[k] ELSE {targets[w][k]}
    /\ targets' = [targets EXCEPT ![w] = t]

ToInsert(w) == {k \in DOMAIN batch[w] : existing[w][k] = Null}
Fresh(w) == {k \in ToInsert(w) : targets[w][k] = Null}
Merges(w) == {k \in ToInsert(w) : targets[w][k] # Null}

\* Mutants: change is measured on the fingerprint, or not at all.
ChangedFingerprint(w) ==
  {k \in DOMAIN batch[w] \ ToInsert(w) :
     Fingerprint[existing[w][k].content] # Fingerprint[batch[w][k].content]}

ChangedAlways(w) == DOMAIN batch[w] \ ToInsert(w)

\* The known postings whose content_hash differs from the one level 1 read.
Changed(w) ==
  {k \in DOMAIN batch[w] \ ToInsert(w) : existing[w][k].content # batch[w][k].content}

\* The changed postings that update a job that is still there.
Updates(w, j) == {k \in Changed(w) : existing[w][k].job = j /\ Held(j)}

-------------------------------------------------------------------------------
(* A load *)

\* _batches yields distinct ids (DUPLICATE_IN_BATCH drops the later ones); level 1 reads
\* what is known of them.
FindExisting(w) ==
  /\ pc[w] = "idle"
  /\ \E n \in 1..MaxBatch : \E b \in [1..n -> Posting] :
       /\ \A k, l \in 1..n : b[k].id = b[l].id => k = l
       /\ \A k \in 1..n : b[k].status \in Statuses
       /\ batch' = [batch EXCEPT ![w] = b]
       /\ existing' = [existing EXCEPT ![w] = [k \in 1..n |-> Existing(b[k].id)]]
       /\ targets' = [targets EXCEPT ![w] = [k \in 1..n |-> Null]]
  /\ pc' = [pc EXCEPT ![w] = "level2"]
  /\ UNCHANGED <<tables, reported>>

MatchUrls(w) ==
  /\ pc[w] = "level2"
  /\ Match(w, ToInsert(w), ByUrl(batch[w], ToInsert(w)))
  /\ pc' = [pc EXCEPT ![w] = "level4"]
  /\ UNCHANGED <<tables, reported, batch, existing>>

MatchFingerprints(w) ==
  /\ pc[w] = "level4"
  /\ Match(w, Fresh(w), ByFingerprint(batch[w], Fresh(w)))
  /\ pc' = [pc EXCEPT ![w] = "writing"]
  /\ UNCHANGED <<tables, reported, batch, existing>>

Done(w) ==
  /\ pc' = [pc EXCEPT ![w] = "idle"]
  /\ batch' = [batch EXCEPT ![w] = <<>>]
  /\ existing' = [existing EXCEPT ![w] = <<>>]
  /\ targets' = [targets EXCEPT ![w] = <<>>]

\* The job that a posting of the batch is bound to.
Target(w, new, k) == IF k \in Fresh(w) THEN new[k] ELSE targets[w][k]

\* INSERT INTO job_sources ... ON CONFLICT DO NOTHING, for the inserts and the merges.
Bind(w, new) ==
  [i \in ExternalIds |->
     IF sources[i] = Null /\ \E k \in ToInsert(w) : batch[w][k].id = i
     THEN Target(w, new, CHOOSE k \in ToInsert(w) : batch[w][k].id = i)
     ELSE sources[i]]

Created(w, new, j) == \E k \in Fresh(w) : new[k] = j
Shown(w, k) == [content |-> batch[w][k].content, status |-> batch[w][k].status]

\* Mutant: the event names the statuses in the wrong order.
EventStatusSwapped(w, k) == existing[w][k].status
EventStatus(w, k) == batch[w][k].status

\* The writes: new jobs with fresh ids, provenance, the updates in batch order, the events
\* (MERGED ones carry no status), committed together.
Write(w, new, last) ==
  /\ jobs' = [j \in JobIds |->
       IF Created(w, new, j) THEN Shown(w, CHOOSE k \in Fresh(w) : new[k] = j)
       ELSE IF Updates(w, j) # {} THEN Shown(w, last[j])
       ELSE jobs[j]]
  /\ issued' = issued \cup {new[k] : k \in Fresh(w)}
  /\ sources' = Bind(w, new)
  /\ recorded' = [j \in JobIds |->
       IF Created(w, new, j) THEN "ACTIVE"
       ELSE IF Updates(w, j) # {} THEN EventStatus(w, last[j])
       ELSE recorded[j]]
  /\ reported' = [i \in ExternalIds |->
       IF \E k \in DOMAIN batch[w] : batch[w][k].id = i
       THEN batch[w][CHOOSE k \in DOMAIN batch[w] : batch[w][k].id = i]
       ELSE reported[i]]

\* The foreign key of job_sources rejects a merge into a job that was deleted meanwhile.
Commit(w) ==
  /\ pc[w] = "writing"
  /\ \A k \in Merges(w) : sources[batch[w][k].id] = Null => Held(targets[w][k])
  /\ \E new \in [Fresh(w) -> JobIds \ issued], last \in [JobIds -> DOMAIN batch[w]] :
       /\ \A k, l \in Fresh(w) : new[k] = new[l] => k = l
       /\ \A j \in JobIds :
            IF Updates(w, j) = {} THEN last[j] = 1
            ELSE last[j] \in Updates(w, j) /\ \A k \in Updates(w, j) : k <= last[j]
       /\ Write(w, new, last)
  /\ Done(w)

\* The transaction rolls back: an error, that foreign key, or the process dies.
Abort(w) ==
  /\ pc[w] # "idle"
  /\ Done(w)
  /\ UNCHANGED <<tables, reported>>

-------------------------------------------------------------------------------
(* Beside the loads *)

\* enforce_retention.py --expire-only: one UPDATE, and no event.
Expire(j) ==
  /\ ExpireOnly
  /\ Held(j) /\ jobs[j].status # "EXPIRED"
  /\ jobs' = [jobs EXCEPT ![j].status = "EXPIRED"]
  /\ UNCHANGED <<issued, sources, recorded, reported, pc, batch, existing, targets>>

\* purge-old-jobs.sh: DELETE FROM jobs, which cascades to job_sources.  The events of the
\* job are deleted by a later statement, and nothing reads them.
Purge(j) ==
  /\ Purging
  /\ Held(j)
  /\ jobs' = [jobs EXCEPT ![j] = Null]
  /\ sources' = [i \in ExternalIds |-> IF sources[i] = j THEN Null ELSE sources[i]]
  /\ UNCHANGED <<issued, recorded, reported, pc, batch, existing, targets>>

Next ==
  \/ \E w \in Loaders :
       FindExisting(w) \/ MatchUrls(w) \/ MatchFingerprints(w) \/ Commit(w) \/ Abort(w)
  \/ \E j \in JobIds : Expire(j) \/ Purge(j)

Spec == Init /\ [][Next]_vars

-------------------------------------------------------------------------------
(* Safety *)

\* Every row of job_sources points to a row of jobs, whatever overlaps.
SourcesAreHeld == \A i \in ExternalIds : sources[i] # Null => Held(sources[i])

\* Every job has a source row: a job without one is a duplicate that no later observation
\* updates, since level 1 goes through job_sources (jobs.py: "must never create a
\* duplicate job").
JobsAreSourced == \A j \in JobIds : Held(j) => \E i \in ExternalIds : sources[i] = j

\* What a job shows is what one of its sources said last: neither merging, nor two ids of
\* one batch that share a job, nor an aborted load leaves content that nobody stands by.
JobsShowAReport ==
  \A j \in JobIds : Held(j) =>
    \E i \in ExternalIds : sources[i] = j /\ reported[i].content = jobs[j].content

\* enums.py of EXPIRED, "source explicitly reported it closed": without retention, the
\* status of a job is also what one of its sources said last.
JobsShowAStatus ==
  \A j \in JobIds : Held(j) =>
    \E i \in ExternalIds : sources[i] = j /\ reported[i].status = jobs[j].status

-------------------------------------------------------------------------------
(* Strengthenings: what makes the properties above inductive *)

HeldAreIssued == \A j \in JobIds : Held(j) => j \in issued

\* The postings of a batch have distinct ids.
BatchesAreDistinct ==
  \A w \in Loaders : \A k, l \in DOMAIN batch[w] : batch[w][k].id = batch[w][l].id => k = l

\* What a load read still describes the tables, but for what was deleted or expired: an id
\* it did not find is still unbound, and one it found is bound to the same content, or
\* gone with its job.
ReadsAreFresh ==
  \A w \in Loaders : \A k \in DOMAIN batch[w] :
    LET i == batch[w][k].id
        e == existing[w][k]
    IN  /\ e = Null => sources[i] = Null
        /\ e # Null => /\ e.job \in issued
                       /\ sources[i] = IF Held(e.job) THEN e.job ELSE Null
                       /\ Held(e.job) => jobs[e.job].content = e.content

\* Without a purge, an id that level 1 found stays bound, whatever overlaps.
KnownStayBound ==
  ~Purging => \A w \in Loaders : \A k \in DOMAIN batch[w] :
                existing[w][k] # Null => sources[batch[w][k].id] # Null

\* What was bound to a job, now or when a load read it, was loaded before.
BoundWereReported ==
  /\ \A i \in ExternalIds : sources[i] # Null => reported[i] # Null
  /\ \A w \in Loaders : \A k \in DOMAIN batch[w] :
       existing[w][k] # Null => reported[batch[w][k].id] # Null

SameUrl(c, d) == Url[c] # Null /\ Url[c] = Url[d]
SameText(c, d) == Fingerprint[c] = Fingerprint[d]

\* What the later reads found is still so at the commit: a target is like its posting, and
\* a posting without one has no job like it, but for postings like it in the same batch.
MatchesAreFresh ==
  \A w \in Loaders : \A k \in ToInsert(w) :
    LET c == batch[w][k].content
        t == targets[w][k]
        Later == {l \in ToInsert(w) : l > k}
    IN  /\ pc[w] = "level2" => t = Null
        /\ t # Null /\ Held(t) => SameUrl(jobs[t].content, c) \/ SameText(jobs[t].content, c)
        /\ t = Null => \A j \in JobIds : Held(j) =>
             /\ pc[w] \in {"level4", "writing"} /\ SameUrl(jobs[j].content, c) =>
                  \E l \in Later : SameUrl(batch[w][l].content, c)
             /\ pc[w] = "writing" /\ SameText(jobs[j].content, c) =>
                  \E l \in Later : SameText(batch[w][l].content, c)

\* Inductive whatever overlaps, and what one load at a time adds.
TablesInv ==
  TypeOK /\ SourcesAreHeld /\ HeldAreIssued /\ BatchesAreDistinct /\ KnownStayBound
LoadInv == TablesInv /\ ReadsAreFresh /\ JobsAreSourced /\ JobsShowAReport
BoardInv == LoadInv /\ BoundWereReported /\ MatchesAreFresh

-------------------------------------------------------------------------------
(* What no step may do *)

\* A source row never moves to another job ("the same source row can only ever map to one
\* job"): it goes only with its job.
ProvenanceStays ==
  [][\A i \in ExternalIds :
       sources[i] # Null => sources'[i] = sources[i] \/ jobs'[sources[i]] = Null]_vars

\* A load that commits leaves every posting of its batch with a job (jobs.py: "must never
\* lose one").
NothingIsLost ==
  [][\A w \in Loaders :
       Commit(w) => \A k \in DOMAIN batch[w] : sources'[batch[w][k].id] # Null]_vars

\* A load never changes a job's status without an event that names the new one (README: "every
\* transition is recorded in `job_events`"), even when retention changed it since level 1 and
\* two postings of the batch update the job.
StatusChangesAreRecorded ==
  [][\A w \in Loaders, j \in JobIds :
       Held(j) /\ jobs'[j] # Null /\ jobs'[j].status # jobs[j].status /\ Commit(w) =>
         recorded'[j] = jobs'[j].status]_vars

\* A load whose postings are all known, as they were reported last.
Replayed(w) ==
  /\ \A k \in DOMAIN batch[w] :
       LET i == batch[w][k].id IN sources[i] # Null /\ reported[i] = batch[w][k]
  /\ Commit(w)

\* The job of i has no other source.
Alone(i) == \A h \in ExternalIds \ {i} : sources[h] # sources[i]

\* Re-running a file is a no-op (docs/01-architecture.md) for the jobs that have a single
\* source, even when retention expired them or the purge deleted them between the level 1
\* read and the writes.
ReplayOfOwnJobsIsNoOp ==
  [][\A w \in Loaders :
       (\A k \in DOMAIN batch[w] : Alone(batch[w][k].id)) /\ Replayed(w) => UNCHANGED tables]_vars

-------------------------------------------------------------------------------
(* What a load promises *)

Board == INSTANCE JobBoard

\* A load that reads three times and writes once has the effect of one step at its commit,
\* beside the retention and the purge that it does not exclude: "every write in a batch
\* happens in one transaction" (jobs.py), and what the batch read before still holds then,
\* or has no consequence.
ImplementsBoard == Board!BoardSpec
===============================================================================
