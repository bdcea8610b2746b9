----------------------------- MODULE RecordStream -----------------------------
(***************************************************************************)
(* The records of the files of one run: IngestionPipeline._process_file    *)
(* with its generator _batches, and the buffer through which rejected      *)
(* records reach sync_errors.  Every database call may fail, the process   *)
(* may die anywhere.  What a record's reasons are is Intake's business;    *)
(* what a load does with a batch is JobLoader's.                           *)
(***************************************************************************)
EXTENDS Intake, Sequences, FiniteSets

CONSTANTS
  Records,      \* the records a file may hold
  ChunkSize,    \* ingest_upsert_chunk_size
  FlushSize,    \* _ERROR_FLUSH_SIZE
  MaxExamples,  \* _MAX_EXAMPLES_PER_REASON
  MaxRecords,   \* bound: records of a file
  MaxFiles      \* bound: files of the run

ASSUME RecordStreamAssumption ==
  /\ Records \subseteq Record
  /\ ChunkSize \in Nat \ {0} /\ FlushSize \in Nat \ {0} /\ MaxExamples \in Nat
  /\ MaxRecords \in Nat /\ MaxFiles \in Nat

VARIABLES
  pc,         \* what the process does next
  files,      \* files started
  fetched,    \* records read of the file
  rec,        \* the record being judged
  todo,       \* its reasons still to be added to the buffer
  keep,       \* it is still to become a job
  batch,      \* the ids of the batch, in the order of the records
  eof,        \* the file is read to its end
  failed,     \* an exception is on its way out of the buffer
  pending,    \* buffer: samples not yet written
  examples,   \* buffer: reason -> samples taken
  overflow,   \* buffer: reason -> rejections only counted
  samples,    \* sync_errors: reason -> rows with a record
  counted,    \* sync_errors: reason -> occurrences in rows without one
  processed, accepted, rejected,  \* the report's rows_...
  wanted,     \* ids of the file's acceptable records
  stored,     \* ids of the file's records a load has written
  dropped,    \* reason -> rejections there have been
  lost        \* a buffer was discarded before it was written

current == <<files, fetched, rec, keep>>
buffer == <<pending, examples, overflow>>
errors == <<samples, counted>>
report == <<processed, accepted, rejected>>
written == <<wanted, stored>>
vars == <<pc, current, todo, batch, eof, failed, buffer, errors, report, written, dropped, lost>>

Tally == [Reason -> Nat]
Zero == [x \in Reason |-> 0]
InFile == {"reading", "judging", "loading", "closing", "counting", "finishing"}

TypeOK ==
  /\ pc \in {"idle", "ended"} \cup InFile
  /\ files \in Nat /\ fetched \in Nat
  /\ rec \in Records \cup {NoId}
  /\ todo \subseteq Reason
  /\ keep \in BOOLEAN /\ eof \in BOOLEAN /\ failed \in BOOLEAN /\ lost \in BOOLEAN
  /\ batch \in Seq(Ids)
  /\ pending \in Seq(Reason)
  /\ examples \in Tally /\ overflow \in Tally
  /\ samples \in Tally /\ counted \in Tally /\ dropped \in Tally
  /\ processed \in Nat /\ accepted \in Nat /\ rejected \in Nat
  /\ wanted \subseteq Ids /\ stored \subseteq Ids

Init ==
  /\ pc = "idle" /\ files = 0 /\ fetched = 0
  /\ rec = NoId /\ todo = {} /\ keep = FALSE
  /\ batch = <<>> /\ eof = FALSE /\ failed = FALSE
  /\ pending = <<>> /\ examples = Zero /\ overflow = Zero
  /\ samples = Zero /\ counted = Zero
  /\ processed = 0 /\ accepted = 0 /\ rejected = 0
  /\ wanted = {} /\ stored = {}
  /\ dropped = Zero /\ lost = FALSE

-------------------------------------------------------------------------------
(* The sequence of the batch and of the buffer *)

Members(s) == {s[i] : i \in DOMAIN s}
Count(s, x) == Cardinality({i \in DOMAIN s : s[i] = x})

\* Mutant: the set is created anew for every record.
SeenNever(id) == FALSE

\* seen_in_batch: the ids of the batch that is being filled.
Seen(id) == id \in Members(batch)

-------------------------------------------------------------------------------
(* _process_file and _batches *)

StartFile ==
  /\ pc = "idle" /\ files < MaxFiles
  /\ files' = files + 1
  /\ fetched' = 0
  /\ pending' = <<>> /\ examples' = Zero /\ overflow' = Zero
  /\ batch' = <<>> /\ eof' = FALSE
  /\ wanted' = {} /\ stored' = {}
  /\ pc' = "reading"
  /\ UNCHANGED <<rec, keep, todo, failed, errors, report, dropped, lost>>

\* The next record of fetch(): it is counted, and _prepare decides.
Fetch(r) ==
  /\ pc = "reading" /\ fetched < MaxRecords /\ ~eof
  /\ fetched' = fetched + 1
  /\ rec' = r
  /\ todo' = Rejections(r)
  /\ keep' = Accepted(r)
  /\ wanted' = IF Accepted(r) THEN wanted \cup {r.id} ELSE wanted
  /\ processed' = processed + 1
  /\ pc' = "judging"
  /\ UNCHANGED <<files, batch, eof, failed, buffer, errors, accepted, rejected, stored, dropped, lost>>

\* Mutant: the last batch is yielded only when it is full.
EndOfFileDropsRest ==
  /\ pc = "reading" /\ ~eof
  /\ eof' = TRUE
  /\ pc' = "closing"
  /\ UNCHANGED <<current, todo, batch, failed, buffer, errors, report, written, dropped, lost>>

\* The last batch, if there is one, is yielded after the last record.
EndOfFile ==
  /\ pc = "reading" /\ ~eof
  /\ eof' = TRUE
  /\ pc' = IF batch = <<>> THEN "closing" ELSE "loading"
  /\ UNCHANGED <<current, todo, batch, failed, buffer, errors, report, written, dropped, lost>>

\* The record is refused, once its reasons are in the buffer.
Refuse ==
  /\ pc = "judging" /\ todo = {} /\ ~keep
  /\ rejected' = rejected + 1
  /\ pc' = "reading"
  /\ UNCHANGED <<current, todo, batch, eof, failed, buffer, errors, processed, accepted, written,
                 dropped, lost>>

\* A second record of the batch with the same id.
Repeat ==
  /\ pc = "judging" /\ todo = {} /\ keep /\ Seen(rec.id)
  /\ keep' = FALSE
  /\ todo' = {"DUPLICATE_IN_BATCH"}
  /\ UNCHANGED <<pc, files, fetched, rec, batch, eof, failed, buffer, errors, report, written,
                 dropped, lost>>

Accept ==
  /\ pc = "judging" /\ todo = {} /\ keep /\ ~Seen(rec.id)
  /\ batch' = Append(batch, rec.id)
  /\ accepted' = accepted + 1
  /\ pc' = IF Len(batch) + 1 >= ChunkSize THEN "loading" ELSE "reading"
  /\ UNCHANGED <<current, todo, eof, failed, buffer, errors, processed, rejected, written,
                 dropped, lost>>

\* JobLoader.load.  The generator then starts an empty batch and forgets the ids.
Load ==
  /\ pc = "loading"
  /\ stored' = stored \cup Members(batch)
  /\ batch' = <<>>
  /\ pc' = IF eof THEN "closing" ELSE "reading"
  /\ UNCHANGED <<current, todo, eof, failed, buffer, errors, report, wanted, dropped, lost>>

\* fetch(), _prepare or load() raises, or the run is interrupted.
BodyFails ==
  /\ pc \in {"reading", "judging", "loading"}
  /\ failed' = TRUE
  /\ pc' = "closing"
  /\ UNCHANGED <<current, todo, batch, eof, buffer, errors, report, written, dropped, lost>>

-------------------------------------------------------------------------------
(* _RejectionBuffer *)

Flushed(s) == [x \in Reason |-> samples[x] + Count(s, x)]

\* Mutant: a flush that does not empty the buffer.
AddExampleKeeps(x) ==
  /\ pc = "judging" /\ x \in todo
  /\ examples[x] < MaxExamples
  /\ examples' = [examples EXCEPT ![x] = @ + 1]
  /\ dropped' = [dropped EXCEPT ![x] = @ + 1]
  /\ todo' = todo \ {x}
  /\ pending' = Append(pending, x)
  /\ samples' = IF Len(pending) + 1 < FlushSize THEN samples ELSE Flushed(pending')
  /\ UNCHANGED <<pc, current, batch, eof, failed, overflow, counted, report, written, lost>>

\* add() below the limit: the rejection is kept whole, and the buffer written when full.
\* The reasons of a record are added in a fixed order, which decides no more than which of
\* them a failing flush leaves out; here it is any order.
AddExample(x) ==
  /\ pc = "judging" /\ x \in todo
  /\ examples[x] < MaxExamples
  /\ examples' = [examples EXCEPT ![x] = @ + 1]
  /\ dropped' = [dropped EXCEPT ![x] = @ + 1]
  /\ todo' = todo \ {x}
  /\ LET p == Append(pending, x) IN
       IF Len(p) < FlushSize THEN pending' = p /\ UNCHANGED samples
       ELSE pending' = <<>> /\ samples' = Flushed(p)
  /\ UNCHANGED <<pc, current, batch, eof, failed, overflow, counted, report, written, lost>>

\* The flush inside add() raises: the samples stay in the buffer, for finalize() to retry.
AddFlushFails(x) ==
  /\ pc = "judging" /\ x \in todo
  /\ examples[x] < MaxExamples
  /\ Len(pending) + 1 >= FlushSize
  /\ examples' = [examples EXCEPT ![x] = @ + 1]
  /\ dropped' = [dropped EXCEPT ![x] = @ + 1]
  /\ todo' = todo \ {x}
  /\ pending' = Append(pending, x)
  /\ failed' = TRUE
  /\ pc' = "closing"
  /\ UNCHANGED <<current, batch, eof, overflow, errors, report, written, lost>>

\* add() past the limit.
AddCounted(x) ==
  /\ pc = "judging" /\ x \in todo
  /\ examples[x] >= MaxExamples
  /\ overflow' = [overflow EXCEPT ![x] = @ + 1]
  /\ dropped' = [dropped EXCEPT ![x] = @ + 1]
  /\ todo' = todo \ {x}
  /\ UNCHANGED <<pc, current, batch, eof, failed, pending, examples, errors, report, written, lost>>

\* finalize(), first its flush.
Flush ==
  /\ pc = "closing"
  /\ samples' = Flushed(pending)
  /\ pending' = <<>>
  /\ pc' = "counting"
  /\ UNCHANGED <<current, todo, batch, eof, failed, examples, overflow, counted, report, written,
                 dropped, lost>>

\* Mutant: flush() instead of finalize() when the body raised.
WriteCountsUnlessFailed ==
  /\ pc = "counting"
  /\ counted' = IF failed THEN counted ELSE [x \in Reason |-> counted[x] + overflow[x]]
  /\ overflow' = Zero
  /\ pc' = IF failed THEN "ended" ELSE "finishing"
  /\ UNCHANGED <<current, todo, batch, eof, failed, pending, examples, samples, report, written,
                 dropped, lost>>

\* Then the rest, as one row per reason.  The exception that closed the buffer goes on.
WriteCounts ==
  /\ pc = "counting"
  /\ counted' = [x \in Reason |-> counted[x] + overflow[x]]
  /\ overflow' = Zero
  /\ pc' = IF failed THEN "ended" ELSE "finishing"
  /\ UNCHANGED <<current, todo, batch, eof, failed, pending, examples, samples, report, written,
                 dropped, lost>>

\* One of the two INSERTs of finalize() fails: its exception replaces the first one, and
\* the buffer with the rest of its contents is gone.
FinalizeFails ==
  /\ pc \in {"closing", "counting"}
  /\ failed' = TRUE /\ lost' = TRUE
  /\ pc' = "ended"
  /\ UNCHANGED <<current, todo, batch, eof, buffer, errors, report, written, dropped>>

\* finish_file(SUCCEEDED), after which the run goes on with the next file; if that fails
\* the run ends.
FinishFile ==
  /\ pc = "finishing"
  /\ pc' \in {"idle", "ended"}
  /\ UNCHANGED <<current, todo, batch, eof, failed, buffer, errors, report, written, dropped, lost>>

Kill ==
  /\ pc \in InFile
  /\ lost' = TRUE
  /\ pc' = "ended"
  /\ UNCHANGED <<current, todo, batch, eof, failed, buffer, errors, report, written, dropped>>

-------------------------------------------------------------------------------

Next ==
  \/ StartFile \/ EndOfFile \/ Refuse \/ Repeat \/ Accept \/ Load
  \/ \E r \in Records : Fetch(r)
  \/ \E x \in Reason : AddExample(x) \/ AddFlushFails(x) \/ AddCounted(x)
  \/ Flush \/ WriteCounts \/ FinishFile
  \/ BodyFails \/ FinalizeFails \/ Kill

Spec == Init /\ [][Next]_vars

-------------------------------------------------------------------------------
(* Safety *)

\* sync.py: "the totals are exact".  However a file ends, unless its buffer is lost with the
\* process or the database, rejection_summary counts every rejection there was, once.
TotalsAreExact ==
  pc \in {"idle", "ended"} /\ ~lost => \A x \in Reason : samples[x] + counted[x] = dropped[x]

\* Whatever fails, is retried or is killed, no rejection is counted twice.
NothingIsCountedTwice == \A x \in Reason : samples[x] + counted[x] <= dropped[x]

\* A reason that is only counted has its examples: they are written first.
CountsHaveExamples == \A x \in Reason : counted[x] > 0 => samples[x] >= MaxExamples

\* No batch holds an id twice, which job_sources_uq would abort.
BatchesHaveNoTwins ==
  \A i, k \in DOMAIN batch : batch[i] = batch[k] => i = k

\* A file is finished only when a load has written every id it had an acceptable record of:
\* nothing the next pass will skip is left out.
FinishedFilesAreStored == pc \in {"finishing", "idle"} => wanted \subseteq stored

\* The report's rows add up, in whatever state the run ends, save the record being judged.
RowsAddUp ==
  LET open == processed - accepted - rejected IN
    IF failed \/ pc = "ended" THEN open \in {0, 1}
    ELSE open = IF pc = "judging" THEN 1 ELSE 0

\* The reasons that refuse a record; the other two are about its date alone.
Refusing == Reason \ {"FUTURE_POSTED_AT", "IMPLAUSIBLE_POSTED_AT"}

\* The occurrences that a tally counts of them, each by its number.
Refusals(tally) == UNION {{x} \X (1..tally[x]) : x \in Refusing}

\* process.py: "Nothing is silently discarded".  For every row the report counts as rejected
\* sync_errors has an occurrence of a reason that refuses, once the buffer is written.
RejectedRowsHaveReasons ==
  pc \in {"idle", "ended"} /\ ~lost =>
    rejected <= Cardinality(Refusals([x \in Reason |-> samples[x] + counted[x]]))

-------------------------------------------------------------------------------
(* Strengthenings *)

\* Every rejection is in exactly one place: written, sampled or counted.
BufferAddsUp ==
  \A x \in Reason : samples[x] + counted[x] + Count(pending, x) + overflow[x] = dropped[x]

\* Where the process is past a write, the buffer is empty of what was written.
BufferIsWritten ==
  /\ pc = "counting" => pending = <<>>
  /\ pc \in {"finishing", "idle"} \/ (pc = "ended" /\ ~lost) => pending = <<>> /\ overflow = Zero
  /\ lost => pc = "ended"

\* Samples come before counts.
SamplesComeFirst ==
  \A x \in Reason :
    /\ overflow[x] > 0 => examples[x] >= MaxExamples
    /\ pc \in InFile => examples[x] <= samples[x] + Count(pending, x)

\* Where the ids of acceptable records are before they are stored.
WantedAreOnTheirWay ==
  /\ pc \in {"idle", "reading", "judging", "loading", "finishing"} => ~failed
  /\ pc \in {"reading", "judging"} => ~eof
  /\ pc \in InFile \cup {"idle"} /\ ~failed =>
       wanted \subseteq stored \cup Members(batch) \cup (IF pc = "judging" /\ keep THEN {rec.id} ELSE {})
  /\ pc \in {"closing", "counting", "finishing", "idle"} /\ ~failed => batch = <<>>
  /\ pc = "judging" => rec \in Records /\ (keep => Accepted(rec))

\* A refusal is counted no earlier than one of its reasons, which it owes once no more are to
\* be added.
ReasonsComeFirst ==
  rejected + (IF pc = "judging" /\ ~keep /\ todo \cap Refusing = {} THEN 1 ELSE 0)
    <= Cardinality(Refusals(dropped))

StreamInv ==
  /\ TypeOK /\ BufferAddsUp /\ BufferIsWritten /\ SamplesComeFirst /\ CountsHaveExamples
  /\ WantedAreOnTheirWay /\ BatchesHaveNoTwins /\ RowsAddUp /\ ReasonsComeFirst
===============================================================================
