---------------------------- MODULE IngestRequests ----------------------------
(***************************************************************************)
(* Fetches on demand.  POST /admin/ingest queues a row of ingest_requests; *)
(* run-ingest-requests.sh, fired by a one-minute timer and at times by     *)
(* hand, claims it, runs the pipeline in a container and writes down how   *)
(* that ended.                                                             *)
(*                                                                         *)
(* Each SQL statement is a transaction of its own.  The pipeline is the    *)
(* lock that it holds while it runs, which module SyncRuns describes.      *)
(***************************************************************************)
EXTENDS Naturals

CONSTANTS
  Callers,         \* POST handlers in flight in the API
  Runners,         \* run-ingest-requests.sh processes
  Timer,           \* the one the systemd timer starts; the others are started by hand
  MaxRequests      \* bound: ingest_requests.id values

VARIABLES
  requests,        \* id -> status of the ingest_requests row
  stale,           \* ids whose started_at is more than 90 minutes ago
  cooling,         \* ids whose finished_at is less than _FETCH_COOLDOWN_SECONDS ago
  caller,          \* handler -> what it does next
  raced,           \* two handlers were between their SELECT and INSERT at once (history)
  pc,              \* runner -> its next statement
  req,             \* runner -> REQ_ID
  exit,            \* runner -> exit code of its container
  lock,            \* who holds the source's sync_runs row: a runner, "other" or "free"
  fetched          \* ids for which a pipeline ran to its end (history)

table == <<requests, stale, cooling>>
api == <<caller, raced>>
runner == <<pc, req, exit>>
vars == <<table, api, runner, lock, fetched>>

RequestId == 1..MaxRequests
InFlight == {"QUEUED", "RUNNING"}
Terminal == {"SUCCEEDED", "FAILED", "SKIPPED"}

ASSUME IngestRequestsAssumption ==
  /\ MaxRequests \in Nat
  /\ Timer \in Runners
  /\ {"free", "other"} \cap Runners = {}

TypeOK ==
  /\ requests \in [RequestId -> {"NONE"} \cup InFlight \cup Terminal]
  /\ stale \subseteq RequestId
  /\ cooling \subseteq RequestId
  /\ caller \in [Callers -> {"idle", "inserting"}]
  /\ raced \in BOOLEAN
  /\ pc \in [Runners -> {"idle", "picking", "claiming", "launching", "running", "finishing"}]
  /\ req \in [Runners -> RequestId \cup {0}]
  /\ exit \in [Runners -> {0, 1, 3}]
  /\ lock \in Runners \cup {"free", "other"}
  /\ fetched \subseteq RequestId

Init ==
  /\ requests = [i \in RequestId |-> "NONE"]
  /\ stale = {}
  /\ cooling = {}
  /\ caller = [c \in Callers |-> "idle"]
  /\ raced = FALSE
  /\ pc = [r \in Runners |-> "idle"]
  /\ req = [r \in Runners |-> 0]
  /\ exit = [r \in Runners |-> 0]
  /\ lock = "free"
  /\ fetched = {}

-------------------------------------------------------------------------------
(* The API *)

Latest(i) == requests[i] # "NONE" /\ \A k \in RequestId : requests[k] # "NONE" => k <= i

\* Mutant: a request that still waits does not count.
BusyRunning(i) == requests[i] = "RUNNING"
Busy(i) == requests[i] \in InFlight

\* The SELECT: nothing in flight, and the cooldown is over.  Otherwise the handler answers.
RequestIngest(c) ==
  /\ caller[c] = "idle"
  /\ \E i \in RequestId : requests[i] = "NONE"
  /\ \A i \in RequestId : Latest(i) => ~Busy(i) /\ i \notin cooling
  /\ caller' = [caller EXCEPT ![c] = "inserting"]
  /\ raced' = (raced \/ \E d \in Callers \ {c} : caller[d] = "inserting")
  /\ UNCHANGED <<table, runner, lock, fetched>>

\* The INSERT, without a condition.
Insert(c) ==
  /\ caller[c] = "inserting"
  /\ \E i \in RequestId :
       /\ requests[i] = "NONE"
       /\ \A k \in RequestId : k < i => requests[k] # "NONE"
       /\ requests' = [requests EXCEPT ![i] = "QUEUED"]
  /\ caller' = [caller EXCEPT ![c] = "idle"]
  /\ UNCHANGED <<stale, cooling, raced, runner, lock, fetched>>

\* The request is cancelled, the session is gone, or the ids of the bound are used up.
GiveUp(c) ==
  /\ caller[c] = "inserting"
  /\ caller' = [caller EXCEPT ![c] = "idle"]
  /\ UNCHANGED <<table, raced, runner, lock, fetched>>

-------------------------------------------------------------------------------
(* Time, and the other users of the pipeline's lock *)

\* A fetch of several files may take longer than the 90 minutes.
Age(i) ==
  /\ requests[i] = "RUNNING" /\ i \notin stale
  /\ stale' = stale \cup {i}
  /\ UNCHANGED <<requests, cooling, api, runner, lock, fetched>>

Cool(i) ==
  /\ i \in cooling
  /\ cooling' = cooling \ {i}
  /\ UNCHANGED <<requests, stale, api, runner, lock, fetched>>

\* A pass of the schedule holds the lock; so does a killed container until it is reclaimed.
OtherStarts ==
  /\ lock = "free"
  /\ lock' = "other"
  /\ UNCHANGED <<table, api, runner, fetched>>
OtherEnds ==
  /\ lock = "other"
  /\ lock' = "free"
  /\ UNCHANGED <<table, api, runner, fetched>>

-------------------------------------------------------------------------------
(* run-ingest-requests.sh *)

\* Mutant: the window is applied to rows nobody started.
AbandonedQueued == {i \in stale : requests[i] = "QUEUED"}
Abandoned == {i \in stale : requests[i] = "RUNNING"}

\* A request whose runner seems to have died.
Reclaim(r) ==
  /\ pc[r] = "idle"
  /\ requests' = [i \in RequestId |-> IF i \in Abandoned THEN "FAILED" ELSE requests[i]]
  /\ cooling' = cooling \cup Abandoned
  /\ pc' = [pc EXCEPT ![r] = "picking"]
  /\ UNCHANGED <<stale, api, req, exit, lock, fetched>>

\* PENDING: the oldest queued request.
Pick(r) ==
  /\ pc[r] = "picking"
  /\ \E i \in RequestId :
       /\ requests[i] = "QUEUED"
       /\ \A k \in RequestId : requests[k] = "QUEUED" => i <= k
       /\ req' = [req EXCEPT ![r] = i]
  /\ pc' = [pc EXCEPT ![r] = "claiming"]
  /\ UNCHANGED <<table, api, exit, lock, fetched>>

\* The process is gone.
Exit(r) ==
  /\ pc' = [pc EXCEPT ![r] = "idle"]
  /\ req' = [req EXCEPT ![r] = 0]
  /\ exit' = [exit EXCEPT ![r] = 0]

NothingQueued(r) ==
  /\ pc[r] = "picking"
  /\ \A i \in RequestId : requests[i] # "QUEUED"
  /\ Exit(r)
  /\ UNCHANGED <<table, api, lock, fetched>>

Claimable(i) == requests[i] = "QUEUED"

\* The conditional UPDATE.  psql -tA prints the command tag after the RETURNING rows, so
\* CLAIMED is never empty and the runner goes on whether or not it updated the row.
Claim(r) ==
  /\ pc[r] = "claiming"
  /\ requests' = IF Claimable(req[r]) THEN [requests EXCEPT ![req[r]] = "RUNNING"] ELSE requests
  /\ stale' = IF Claimable(req[r]) THEN stale \ {req[r]} ELSE stale
  /\ pc' = [pc EXCEPT ![r] = "launching"]
  /\ UNCHANGED <<cooling, api, req, exit, lock, fetched>>

\* docker compose run: the pipeline takes the lock, or exits with 3, or fails before that.
Launch(r) ==
  /\ pc[r] = "launching"
  /\ \/ /\ lock = "free"
        /\ lock' = r
        /\ pc' = [pc EXCEPT ![r] = "running"]
        /\ UNCHANGED exit
     \/ /\ lock # "free"
        /\ pc' = [pc EXCEPT ![r] = "finishing"]
        /\ exit' = [exit EXCEPT ![r] = 3]
        /\ UNCHANGED lock
     \/ /\ pc' = [pc EXCEPT ![r] = "finishing"]
        /\ exit' = [exit EXCEPT ![r] = 1]
        /\ UNCHANGED lock
  /\ UNCHANGED <<table, api, req, fetched>>

\* The pipeline ends, well or not, or the container is killed and leaves its lock behind.
RunEnds(r) ==
  /\ pc[r] = "running"
  /\ \/ /\ exit' = [exit EXCEPT ![r] = 0]
        /\ fetched' = fetched \cup {req[r]}
        /\ lock' = "free"
     \/ /\ exit' = [exit EXCEPT ![r] = 1]
        /\ lock' \in {"free", "other"}
        /\ UNCHANGED fetched
  /\ pc' = [pc EXCEPT ![r] = "finishing"]
  /\ UNCHANGED <<table, api, req>>

\* Mutant: 3 reported as done, "the data is being fetched".
StatusLenient(code) == IF code \in {0, 3} THEN "SUCCEEDED" ELSE "FAILED"
Status(code) == CASE code = 0 -> "SUCCEEDED" [] code = 3 -> "SKIPPED" [] OTHER -> "FAILED"

\* The last UPDATE, by id alone.
Finish(r) ==
  /\ pc[r] = "finishing"
  /\ requests' = [requests EXCEPT ![req[r]] = Status(exit[r])]
  /\ cooling' = cooling \cup {req[r]}
  /\ Exit(r)
  /\ UNCHANGED <<stale, api, lock, fetched>>

\* The script is killed, or the database does not answer it; a container it started lives on.
Die(r) ==
  /\ pc[r] # "idle"
  /\ Exit(r)
  /\ lock' = IF lock = r THEN "other" ELSE lock
  /\ UNCHANGED <<table, api, fetched>>

-------------------------------------------------------------------------------

Work(r) == Pick(r) \/ NothingQueued(r) \/ Claim(r) \/ Launch(r) \/ RunEnds(r) \/ Finish(r)

Next ==
  \/ \E c \in Callers : RequestIngest(c) \/ Insert(c) \/ GiveUp(c)
  \/ \E i \in RequestId : Age(i) \/ Cool(i)
  \/ OtherStarts \/ OtherEnds
  \/ \E r \in Runners : Reclaim(r) \/ Work(r) \/ Die(r)

Spec == Init /\ [][Next]_vars

\* The timer keeps firing (OnUnitActiveSec=1min), a script that is not killed runs on,
\* and time passes.
Fairness ==
  /\ WF_vars(Reclaim(Timer))
  /\ \A r \in Runners : WF_vars(Work(r))
  /\ \A i \in RequestId : WF_vars(Age(i))

FairSpec == Spec /\ Fairness

-------------------------------------------------------------------------------
(* Safety *)

\* A request that says SUCCEEDED was fetched, whoever else ran, reclaimed or overwrote it.
SucceededIsFetched == \A i \in RequestId : requests[i] = "SUCCEEDED" => i \in fetched

\* request_ingest: "One at a time".
OneInFlight ==
  \A i, k \in RequestId : requests[i] \in InFlight /\ requests[k] \in InFlight => i = k

\* Only two handlers that overlap can put a second request in flight: looking at the latest
\* row is enough although older rows may be reclaimed, run twice or answered late.
SecondOnlyByRace == OneInFlight \/ raced

-------------------------------------------------------------------------------
(* Strengthenings *)

\* A runner past its claim works on a row that was claimed, and 0 is the code of a
\* pipeline that ran to its end.
RunnersFit ==
  \A r \in Runners :
    /\ pc[r] \in {"claiming", "launching", "running", "finishing"} =>
         req[r] \in RequestId /\ requests[req[r]] # "NONE"
    /\ pc[r] \in {"launching", "running", "finishing"} => requests[req[r]] # "QUEUED"
    /\ pc[r] = "finishing" /\ exit[r] = 0 => req[r] \in fetched

\* Ids are handed out in order, and without a race the only handler about to insert found
\* nothing in flight, and nothing but the latest request is.
QueueFits ==
  /\ \A i, k \in RequestId : k < i /\ requests[i] # "NONE" => requests[k] # "NONE"
  /\ ~raced =>
       /\ \A c, d \in Callers : caller[c] = "inserting" /\ caller[d] = "inserting" => c = d
       /\ \A c \in Callers : caller[c] = "inserting" =>
            \A i \in RequestId : requests[i] \notin InFlight
       /\ \A i, k \in RequestId : requests[i] \in InFlight /\ requests[k] # "NONE" => k <= i

QueueInv == TypeOK /\ RunnersFit /\ QueueFits /\ SucceededIsFetched /\ SecondOnlyByRace

-------------------------------------------------------------------------------
(* What no step may do *)

\* An answered request is never taken up again: late runners may only correct the answer.
AnsweredStayAnswered ==
  [][\A i \in RequestId : requests[i] \in Terminal => requests'[i] \in Terminal]_vars

-------------------------------------------------------------------------------
(* What must happen *)

\* Every request is answered, so the console's button never stays stuck on "in progress",
\* unless its runners are killed for ever (a kill that looks like the script's own end,
\* with nothing queued, does not count).
RequestsAreAnswered ==
  \A i \in RequestId :
    \/ []<><<\E r \in Runners : Die(r) /\ ~Work(r)>>_vars
    \/ requests[i] \in InFlight ~> requests[i] \in Terminal
===============================================================================
