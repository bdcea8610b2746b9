------------------------------- MODULE Schedule -------------------------------
(***************************************************************************)
(* The passes of daily.sh: the primary run of a day, the watch pass of     *)
(* every ten minutes and the catch-up by hand.  Each is one process that   *)
(* reclaims, asks a guard, ingests with retries and, if it is the primary  *)
(* run, enforces retention.  They share the lock of sync_runs and the      *)
(* files that were ingested.                                               *)
(*                                                                         *)
(* An ingest is what module SyncRuns promises of one: under the lock, the  *)
(* newest pending files, oldest first, until one fails.  Reading a heavy   *)
(* file exhausts the host's memory, and the process that holds the lock is *)
(* killed without releasing it.                                            *)
(***************************************************************************)
EXTENDS Integers, FiniteSets

CONSTANTS
  Passes,          \* of {"daily", "watch", "catch-up"}, each a unit systemd runs once at a time
  Days,            \* bound: file dates are 1..Days
  Heavy,           \* the dates whose file is too big for the host
  Window,          \* INGEST_SINCE_DAYS
  MaxFiles,        \* pass -> --max-files
  Attempts,        \* attempts of a pass
  MaxRevision      \* bound: versions of a file

ASSUME ScheduleAssumption ==
  /\ {"daily"} \subseteq Passes /\ Passes \subseteq {"daily", "watch", "catch-up"}
  /\ Days \in Nat \ {0}
  /\ Heavy \subseteq 1..Days
  /\ Window \in Nat
  /\ MaxFiles \in [Passes -> Nat]
  /\ Attempts \in Nat \ {0}
  /\ MaxRevision \in Nat

VARIABLES
  today,           \* the date
  published,       \* date -> version of its file at the source, 0 before the first
  done,            \* <<date, version>> that are SUCCEEDED in sync_files
  due,             \* the primary run of today is still to start
  lock,            \* whose process opened the RUNNING row; "abandoned" past the reclaim window
  pc,              \* pass -> where it is
  attempt,         \* pass -> the attempt it is at
  plan,            \* pass -> <<date, version>> its ingest has still to read
  expired,         \* the last day on which retention ran
  verdict          \* how today's primary run ended

files == <<today, published, done>>
progress == <<pc, attempt, plan>>
vars == <<files, due, lock, progress, expired, verdict>>

Dates == 1..Days
Version == Dates \X (1..MaxRevision)

TypeOK ==
  /\ today \in Dates
  /\ published \in [Dates -> 0..MaxRevision]
  /\ done \subseteq Version
  /\ due \in BOOLEAN
  /\ lock \in Passes \cup {"free", "abandoned"}
  /\ pc \in [Passes -> {"idle", "guarding", "ready", "ingesting", "waiting", "retaining"}]
  /\ attempt \in [Passes -> 1..Attempts]
  /\ plan \in [Passes -> SUBSET Version]
  /\ expired \in 0..Days
  /\ verdict \in {"none", "finished", "skipped", "refused", "failed"}

Init ==
  /\ today = 1
  /\ published = [d \in Dates |-> 0]
  /\ done = {}
  /\ due = TRUE
  /\ lock = "free"
  /\ pc = [p \in Passes |-> "idle"]
  /\ attempt = [p \in Passes |-> 1]
  /\ plan = [p \in Passes |-> {}]
  /\ expired = 0
  /\ verdict = "none"

-------------------------------------------------------------------------------
(* The listing and the tables *)

Listed(d) == published[d] > 0

\* discover() lists every file, and the newest is the last.
IsNewest(d) == Listed(d) /\ \A e \in Dates : Listed(e) => e <= d

Ingested(d) == <<d, published[d]>> \in done

\* --since: the dates the pass asks for.
InWindow(d) == d >= today - Window

Pending == {d \in Dates : Listed(d) /\ InWindow(d) /\ ~Ingested(d)}

\* The newest n of the pending files.
Newest(n) == {d \in Pending : Cardinality({e \in Pending : e > d}) < n}

\* A process that was killed holds the lock of its row without running.
Corpse == lock \in Passes /\ pc[lock] # "ingesting"

-------------------------------------------------------------------------------
(* The world *)

\* The publisher adds a file, of today or of a day it left out, or corrects one.
Publish ==
  \E d \in 1..today :
    /\ published[d] < MaxRevision
    /\ published' = [published EXCEPT ![d] = @ + 1]
    /\ UNCHANGED <<today, done, due, lock, progress, expired, verdict>>

\* The timer of the primary run fires once a day.
NextDay ==
  /\ today < Days
  /\ pc["daily"] = "idle" /\ ~due
  /\ today' = today + 1
  /\ due' = TRUE
  /\ verdict' = "none"
  /\ UNCHANGED <<published, done, lock, progress, expired>>

\* The reclaim window of 30 minutes passes.  The pass whose process was killed retries
\* after at most two.
Age ==
  /\ Corpse
  /\ pc[lock] # "waiting"
  /\ lock' = "abandoned"
  /\ UNCHANGED <<files, due, progress, expired, verdict>>

-------------------------------------------------------------------------------
(* A pass *)

\* Mutant: any RUNNING row is taken for an abandoned one.
ReclaimedAny == "free"
\* reclaim_stale_runs, which only looks at rows past the window.
Reclaimed == IF lock = "abandoned" THEN "free" ELSE lock

\* Mutant: the primary run asks the watch guard first, which saves it a run when nothing is new.
AfterReclaimGuarded(p) == "guarding"
AfterReclaim(p) == IF p = "daily" THEN "ready" ELSE "guarding"

\* Mutant: the lock is released only on the way to an ingest, the state before 2026-08-22.
BeginLate(p) ==
  /\ pc[p] = "idle"
  /\ p = "daily" => due
  /\ due' = (due /\ p # "daily")
  /\ lock' = lock
  /\ pc' = [pc EXCEPT ![p] = AfterReclaim(p)]
  /\ attempt' = [attempt EXCEPT ![p] = 1]
  /\ UNCHANGED <<files, plan, expired, verdict>>

\* The timer fires; ingest.py --reclaim-only comes before any guard.
Begin(p) ==
  /\ pc[p] = "idle"
  /\ p = "daily" => due
  /\ due' = (due /\ p # "daily")
  /\ lock' = Reclaimed
  /\ pc' = [pc EXCEPT ![p] = AfterReclaim(p)]
  /\ attempt' = [attempt EXCEPT ![p] = 1]
  /\ UNCHANGED <<files, plan, expired, verdict>>

\* "reclaim failed (continuing)"
BeginWithoutReclaim(p) ==
  /\ pc[p] = "idle" /\ lock = "abandoned"
  /\ p = "daily" => due
  /\ due' = (due /\ p # "daily")
  /\ pc' = [pc EXCEPT ![p] = AfterReclaim(p)]
  /\ attempt' = [attempt EXCEPT ![p] = 1]
  /\ UNCHANGED <<files, lock, plan, expired, verdict>>

\* have_todays_file.py asks for a date at any version, has_new_file.py for the newest file
\* at the version listed; an empty listing is unknown.
NothingToDo(p) ==
  \/ p = "catch-up" /\ \E v \in 1..MaxRevision : <<today, v>> \in done
  \/ p # "catch-up" /\ \E d \in Dates : IsNewest(d) /\ Ingested(d)

End(p, how) ==
  /\ pc' = [pc EXCEPT ![p] = "idle"]
  /\ plan' = [plan EXCEPT ![p] = {}]
  /\ verdict' = IF p = "daily" THEN how ELSE verdict
  /\ UNCHANGED <<files, due, attempt, expired>>

GuardSkips(p) ==
  /\ pc[p] = "guarding"
  /\ NothingToDo(p)
  /\ End(p, "skipped")
  /\ UNCHANGED lock

\* The guard found work or could not tell, which must not become a skipped day.
GuardPasses(p) ==
  /\ pc[p] = "guarding"
  /\ pc' = [pc EXCEPT ![p] = "ready"]
  /\ UNCHANGED <<files, due, lock, attempt, plan, expired, verdict>>

\* The partial unique index on active runs.
Held == lock \in Passes

\* Mutant: a watch pass takes three files like the primary run, the state before 2026-08-21.
SelectedAlike(p) == Newest(3)
Selected(p) == Newest(MaxFiles[p])

\* ingest.py gets the lock, lists, and selects.
Start(p) ==
  /\ pc[p] = "ready"
  /\ ~Held
  /\ lock' = p
  /\ pc' = [pc EXCEPT ![p] = "ingesting"]
  /\ plan' = [plan EXCEPT ![p] = {<<d, published[d]>> : d \in Selected(p)}]
  /\ UNCHANGED <<files, due, attempt, expired, verdict>>

\* Exit 3: "another ingest is already running".
Refused(p) ==
  /\ pc[p] = "ready"
  /\ Held
  /\ End(p, "refused")
  /\ UNCHANGED lock

\* The next file of a run: the oldest of those left.
IsNext(p, f) == f \in plan[p] /\ \A g \in plan[p] : f[1] <= g[1]

Load(p) ==
  /\ pc[p] = "ingesting"
  /\ \E f \in plan[p] :
       /\ IsNext(p, f)
       /\ f[1] \notin Heavy
       /\ done' = done \cup {f}
       /\ plan' = [plan EXCEPT ![p] = @ \ {f}]
  /\ UNCHANGED <<today, published, due, lock, pc, attempt, expired, verdict>>

\* Exit 0.  Only the primary run goes on to retention.
Loaded(p) ==
  /\ pc[p] = "ingesting" /\ plan[p] = {}
  /\ lock' = "free"
  /\ IF p = "daily"
     THEN /\ pc' = [pc EXCEPT ![p] = "retaining"]
          /\ UNCHANGED <<files, due, attempt, plan, expired, verdict>>
     ELSE End(p, "finished")

\* What the loop over attempts does with an exit code that is neither 0 nor 3.
GoesOn(p) ==
  IF attempt[p] >= Attempts
  THEN End(p, "failed")
  ELSE /\ pc' = [pc EXCEPT ![p] = "waiting"]
       /\ plan' = [plan EXCEPT ![p] = {}]
       /\ UNCHANGED <<files, due, attempt, expired, verdict>>

\* The source resets a connection or the database is away: finish_run releases the lock.
Fails(p) ==
  /\ \/ pc[p] = "ready" /\ UNCHANGED lock
     \/ pc[p] = "ingesting" /\ lock' = "free"
  /\ GoesOn(p)

\* The kernel kills the process at the heavy file; its row stays RUNNING.
Exhausted(p) ==
  /\ pc[p] = "ingesting"
  /\ \E f \in plan[p] : IsNext(p, f) /\ f[1] \in Heavy
  /\ GoesOn(p)
  /\ UNCHANGED lock

\* Any other kill, of the container or, by the unit's timeout, of the whole pass.
Killed(p) ==
  /\ pc[p] = "ingesting"
  /\ \A f \in plan[p] : IsNext(p, f) => f[1] \notin Heavy
  /\ GoesOn(p) \/ End(p, "failed")
  /\ UNCHANGED lock

Retry(p) ==
  /\ pc[p] = "waiting"
  /\ pc' = [pc EXCEPT ![p] = "ready"]
  /\ attempt' = [attempt EXCEPT ![p] = @ + 1]
  /\ UNCHANGED <<files, due, lock, plan, expired, verdict>>

\* enforce_retention.py --expire-only; exit 2 says it is switched off.
Retain(p) ==
  /\ pc[p] = "retaining"
  /\ expired' = today
  /\ pc' = [pc EXCEPT ![p] = "idle"]
  /\ verdict' = "finished"
  /\ UNCHANGED <<files, due, lock, attempt, plan>>

RetainFails(p) ==
  /\ pc[p] = "retaining"
  /\ End(p, "failed")
  /\ UNCHANGED lock

-------------------------------------------------------------------------------

\* What a process does next if nothing goes wrong; a file that is too heavy is no accident.
Work(p) ==
  \/ GuardSkips(p) \/ GuardPasses(p) \/ Start(p) \/ Refused(p)
  \/ Load(p) \/ Loaded(p) \/ Exhausted(p) \/ Retry(p) \/ Retain(p)

Fault(p) == Fails(p) \/ Killed(p) \/ RetainFails(p)

Next ==
  \/ Publish \/ NextDay \/ Age
  \/ \E p \in Passes : Begin(p) \/ BeginWithoutReclaim(p) \/ Work(p) \/ Fault(p)

Spec == Init /\ [][Next]_vars

\* The timers of the primary run and of the watch keep firing, and the database is not away
\* each time a pass wants to reclaim; a process that is not killed runs on, and time passes.
\* Nobody needs to start a catch-up.
Fairness ==
  /\ \A p \in Passes \ {"catch-up"} : SF_vars(Begin(p))
  /\ \A p \in Passes : WF_vars(Work(p))
  /\ WF_vars(Age)

FairSpec == Spec /\ Fairness

-------------------------------------------------------------------------------
(* Safety *)

\* daily.sh: "a second attempt skips what already succeeded".  What an ingest has still to
\* read is nowhere ingested, whichever passes were refused, killed or retried since it chose:
\* no two of them work through the same files.
PlansAreFresh == \A p \in Passes : pc[p] = "ingesting" => plan[p] \cap done = {}

\* Only the holder of the lock ingests, so plans are only ever worked off by their owner.
IngestsHoldTheLock ==
  \A p \in Passes :
    /\ pc[p] = "ingesting" => lock = p
    /\ pc[p] # "ingesting" => plan[p] = {}

\* A pass waits only for an attempt that it has.
WaitersMayRetry == \A p \in Passes : pc[p] = "waiting" => attempt[p] < Attempts

ScheduleInv == TypeOK /\ IngestsHoldTheLock /\ WaitersMayRetry /\ PlansAreFresh

-------------------------------------------------------------------------------
(* What must happen *)

Starts(p) == Begin(p) \/ BeginWithoutReclaim(p)

\* Ingests that fail or are killed without a heavy file, again and again, or an operator's
\* loop of catch-up passes, which may take the lock each time.
FaultsForEver ==
  []<><<\E p \in Passes : Fault(p) \/ (p = "catch-up" /\ Starts(p))>>_vars

\* daily.sh, why a watch pass takes one file: the newest file is ingested although an older
\* one that no run survives is pending behind it and the primary run leaves a corpse.
NewestIsIngested ==
  \A d \in Dates \ Heavy :
    \/ FaultsForEver
    \/ (IsNewest(d) /\ InWindow(d)) ~> (Ingested(d) \/ ~IsNewest(d) \/ ~InWindow(d))

\* daily.sh, why reclaiming comes before the guards: the row of a killed process is released
\* although nothing new is published and no pass ever gets to an ingest.
CorpsesAreReclaimed ==
  \/ FaultsForEver
  \/ Corpse ~> (lock = "free" \/ \E p \in Passes : pc[p] = "ingesting")

\* Retention does not wait for a new file: it runs every day on which the primary run is
\* neither refused nor failing.
RetentionRunsDaily ==
  due ~> (expired = today \/ verdict \in {"refused", "failed"})
===============================================================================
