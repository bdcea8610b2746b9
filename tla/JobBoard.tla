------------------------------- MODULE JobBoard -------------------------------
(***************************************************************************)
(* What the write path promises of the board: a load happens at one        *)
(* moment, whatever retention and the purge do meanwhile.  At that moment  *)
(* a posting whose id is known edits its job if it says something else; a  *)
(* posting whose id is not known joins a job that is like it, or becomes   *)
(* a job of its own when there is none.  Only a posting that was loaded    *)
(* before may be lost, and only to a purge.                                *)
(***************************************************************************)
EXTENDS Integers

CONSTANTS ExternalIds, Contents, Url, Fingerprint, JobIds, Null, MaxBatch, ExpireOnly, Purging

VARIABLES
  jobs,            \* job id -> what the board shows of it, or Null
  issued,          \* job ids that were ever used
  sources,         \* external id -> its job, or Null
  reported         \* external id -> the posting that was loaded last, or Null

boardVars == <<jobs, issued, sources, reported>>

Status == {"ACTIVE", "EXPIRED"}
Posting == [id : ExternalIds, content : Contents, status : Status]
Row == [content : Contents, status : Status]

Held(j) == jobs[j] # Null

SameUrl(c, d) == Url[c] # Null /\ Url[c] = Url[d]
SameText(c, d) == Fingerprint[c] = Fingerprint[d]

BoardInit ==
  /\ jobs = [j \in JobIds |-> Null]
  /\ issued = {}
  /\ sources = [i \in ExternalIds |-> Null]
  /\ reported = [i \in ExternalIds |-> Null]

-------------------------------------------------------------------------------
(* A load of the ids o, in the order of their file.  What they say is in   *)
(* reported', where they end up is in sources'.                            *)

Content(o, k) == reported'[o[k]].content
Place(o, k) == sources'[o[k]]

New(o) == {k \in DOMAIN o : sources[o[k]] = Null}
Edits(o, j) == {k \in DOMAIN o : sources[o[k]] = j /\ jobs[j].content # Content(o, k)}

Lost(o, k) == Purging /\ reported[o[k]] # Null /\ Place(o, k) = Null

Joins(o, k) ==
  /\ Place(o, k) \in JobIds /\ Held(Place(o, k))
  /\ LET shown == jobs[Place(o, k)].content
     IN  SameUrl(shown, Content(o, k)) \/ SameText(shown, Content(o, k))

\* No job is like it.  Of new postings that are like one another only the last is looked up.
Becomes(o, k) ==
  /\ Place(o, k) \in JobIds \ issued
  /\ \A l \in New(o) : Place(o, l) = Place(o, k) => l = k
  /\ \A j \in JobIds : Held(j) =>
       /\ SameUrl(jobs[j].content, Content(o, k)) =>
            \E l \in New(o) : l > k /\ SameUrl(Content(o, l), Content(o, k))
       /\ SameText(jobs[j].content, Content(o, k)) =>
            \E l \in New(o) : l > k /\ SameText(Content(o, l), Content(o, k))

\* What speaks for j: of a job that was there the edits, of another what becomes it.
Says(o, j) == IF j \in issued THEN Edits(o, j) ELSE {k \in New(o) : Place(o, k) = j}

\* The job shows the last of the postings ks.
ShowsLast(o, ks, j) ==
  \E k \in ks : /\ \A l \in ks : l <= k
                /\ jobs'[j] = [content |-> Content(o, k), status |-> reported'[o[k]].status]

Load(o) ==
  /\ reported' \in [ExternalIds -> Posting \cup {Null}]
  /\ \A k \in DOMAIN o : reported'[o[k]] # Null /\ reported'[o[k]].id = o[k]
  /\ sources' \in [ExternalIds -> JobIds \cup {Null}]
  /\ \A i \in ExternalIds : (\A k \in DOMAIN o : o[k] # i) => reported'[i] = reported[i]
  /\ \A i \in ExternalIds :
       sources[i] # Null \/ (\A k \in DOMAIN o : o[k] # i) => sources'[i] = sources[i]
  /\ \A k \in New(o) : Lost(o, k) \/ Joins(o, k) \/ Becomes(o, k)
  /\ issued' = issued \cup {Place(o, k) : k \in {k \in New(o) : Place(o, k) # Null}}
  /\ jobs' \in [JobIds -> Row \cup {Null}]
  /\ \A j \in JobIds :
       IF Says(o, j) = {} THEN jobs'[j] = jobs[j] ELSE ShowsLast(o, Says(o, j), j)

-------------------------------------------------------------------------------
(* Beside the loads *)

Expire(j) ==
  /\ ExpireOnly
  /\ Held(j) /\ jobs[j].status # "EXPIRED"
  /\ jobs' = [jobs EXCEPT ![j].status = "EXPIRED"]
  /\ UNCHANGED <<issued, sources, reported>>

Purge(j) ==
  /\ Purging
  /\ Held(j)
  /\ jobs' = [jobs EXCEPT ![j] = Null]
  /\ sources' = [i \in ExternalIds |-> IF sources[i] = j THEN Null ELSE sources[i]]
  /\ UNCHANGED <<issued, reported>>

BoardNext ==
  \/ \E n \in 0..MaxBatch : \E o \in [1..n -> ExternalIds] :
       (\A k, l \in 1..n : o[k] = o[l] => k = l) /\ Load(o)
  \/ \E j \in JobIds : Expire(j) \/ Purge(j)

BoardSpec == BoardInit /\ [][BoardNext]_boardVars
===============================================================================
