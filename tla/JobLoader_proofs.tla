--------------------------- MODULE JobLoader_proofs ---------------------------
(***************************************************************************)
(* Theorems about JobLoader, for every number of postings, contents, jobs  *)
(* and batch sizes.  TablesInv is inductive whatever loads overlap;        *)
(* LoadInv needs OneLoad, which the lock of SyncRuns provides while the    *)
(* reclaim window outlasts live runs (SyncRuns_proofs, Exclusion).         *)
(***************************************************************************)
EXTENDS JobLoader, TLAPS

OneLoad == \A v, w \in Loaders : v = w

-------------------------------------------------------------------------------
(* The operators *)

\* The length of a batch is what its domain says.
LEMMA BatchDomain ==
  ASSUME NEW b \in Batch
  PROVE  \E n \in 0..MaxBatch : b \in [1..n -> Posting] /\ DOMAIN b = 1..n
  BY DEF Batch

\* Level 1 reads a well-formed row, because a source row's job is there.
LEMMA ExistingType ==
  ASSUME TypeOK, SourcesAreHeld, NEW i \in ExternalIds
  PROVE  Existing(i) \in Known \cup {Null}
  BY DEF TypeOK, SourcesAreHeld, Existing, Held, Known, Row

\* A match keeps the targets well-typed and touches one load only.
LEMMA MatchType ==
  ASSUME TypeOK, NEW w \in Loaders, NEW K, NEW c, Match(w, K, c)
  PROVE  /\ DOMAIN targets' = Loaders
         /\ targets'[w] \in [DOMAIN batch[w] -> JobIds \cup {Null}]
         /\ \A v \in Loaders \ {w} : targets'[v] = targets[v]
  BY DEF TypeOK, Match

\* A posting of a batch is one.
LEMMA PostingOfBatch ==
  ASSUME TypeOK, NEW w \in Loaders, NEW k \in DOMAIN batch[w]
  PROVE  batch[w][k] \in Posting
  BY BatchDomain DEF TypeOK

-------------------------------------------------------------------------------
(* Types *)

LEMMA InitType == Init => TypeOK
  <1>1. SUFFICES ASSUME Init PROVE TypeOK
    OBVIOUS
  <1>2. <<>> \in Batch
    <2>1. <<>> \in [1..0 -> Posting]
      OBVIOUS
    <2>2. 0 \in 0..MaxBatch
      BY JobLoaderAssumption
    <2>3. QED
      BY <2>1, <2>2 DEF Batch
  <1>3. <<>> \in [DOMAIN <<>> -> Known \cup {Null}] /\ <<>> \in [DOMAIN <<>> -> JobIds \cup {Null}]
    OBVIOUS
  <1>4. QED
    BY <1>1, <1>2, <1>3 DEF Init, TypeOK

\* After a load its loader keeps nothing.
LEMMA DoneType ==
  ASSUME TypeOK, NEW w \in Loaders, Done(w)
  PROVE  /\ pc' \in [Loaders -> {"idle", "level2", "level4", "writing"}]
         /\ batch' \in [Loaders -> Batch]
         /\ DOMAIN existing' = Loaders
         /\ DOMAIN targets' = Loaders
         /\ \A v \in Loaders :
              /\ existing'[v] \in [DOMAIN batch'[v] -> Known \cup {Null}]
              /\ targets'[v] \in [DOMAIN batch'[v] -> JobIds \cup {Null}]
  <1>1. <<>> \in Batch
    <2>1. <<>> \in [1..0 -> Posting]
      OBVIOUS
    <2>2. 0 \in 0..MaxBatch
      BY JobLoaderAssumption
    <2>3. QED
      BY <2>1, <2>2 DEF Batch
  <1>2. pc' \in [Loaders -> {"idle", "level2", "level4", "writing"}] /\ batch' \in [Loaders -> Batch]
    BY <1>1 DEF TypeOK, Done
  <1>3. DOMAIN existing' = Loaders /\ DOMAIN targets' = Loaders
    BY DEF TypeOK, Done
  <1>4. ASSUME NEW v \in Loaders
        PROVE  /\ existing'[v] \in [DOMAIN batch'[v] -> Known \cup {Null}]
               /\ targets'[v] \in [DOMAIN batch'[v] -> JobIds \cup {Null}]
    <2>1. CASE v = w
      <3>1. batch'[v] = <<>> /\ existing'[v] = <<>> /\ targets'[v] = <<>>
        BY <2>1 DEF TypeOK, Done
      <3>2. QED
        BY <3>1
    <2>2. CASE v # w
      BY <2>2 DEF TypeOK, Done
    <2>3. QED
      BY <2>1, <2>2
  <1>5. QED
    BY <1>2, <1>3, <1>4

\* The tables keep their types when a load is written.
LEMMA WriteType ==
  ASSUME TypeOK, NEW w \in Loaders,
         NEW new \in [Fresh(w) -> JobIds \ issued], NEW last \in [JobIds -> DOMAIN batch[w]],
         Write(w, new, last)
  PROVE  /\ jobs' \in [JobIds -> Row \cup {Null}]
         /\ issued' \in SUBSET JobIds
         /\ sources' \in [ExternalIds -> JobIds \cup {Null}]
         /\ recorded' \in [JobIds -> {"ACTIVE", "EXPIRED"}]
         /\ reported' \in [ExternalIds -> Posting \cup {Null}]
  <1>1. \A k \in DOMAIN batch[w] : batch[w][k] \in Posting /\ Shown(w, k) \in Row
    BY PostingOfBatch DEF Shown, Posting, Row
  <1>2. Fresh(w) \subseteq DOMAIN batch[w] /\ ToInsert(w) \subseteq DOMAIN batch[w]
    BY DEF Fresh, ToInsert
  <1>3. jobs' \in [JobIds -> Row \cup {Null}]
    <2>1. ASSUME NEW j \in JobIds, Created(w, new, j)
          PROVE  (CHOOSE k \in Fresh(w) : new[k] = j) \in DOMAIN batch[w]
      BY <2>1, <1>2 DEF Created
    <2>2. QED
      BY <1>1, <2>1 DEF Write, TypeOK
  <1>4. issued' \in SUBSET JobIds
    BY DEF Write, TypeOK
  <1>5. sources' \in [ExternalIds -> JobIds \cup {Null}]
    <2>1. ASSUME NEW k \in ToInsert(w) PROVE Target(w, new, k) \in JobIds \cup {Null}
      BY <2>1, <1>2 DEF Target, TypeOK
    <2>2. ASSUME NEW i \in ExternalIds, \E k \in ToInsert(w) : batch[w][k].id = i
          PROVE  (CHOOSE k \in ToInsert(w) : batch[w][k].id = i) \in ToInsert(w)
      BY <2>2
    <2>3. QED
      BY <2>1, <2>2 DEF Write, Bind, TypeOK
  <1>6. recorded' \in [JobIds -> {"ACTIVE", "EXPIRED"}]
    BY <1>1 DEF Write, EventStatus, TypeOK, Posting
  <1>7. reported' \in [ExternalIds -> Posting \cup {Null}]
    <2>1. ASSUME NEW i \in ExternalIds, \E k \in DOMAIN batch[w] : batch[w][k].id = i
          PROVE  (CHOOSE k \in DOMAIN batch[w] : batch[w][k].id = i) \in DOMAIN batch[w]
      BY <2>1
    <2>2. QED
      BY <1>1, <2>1 DEF Write, TypeOK
  <1>8. QED
    BY <1>3, <1>4, <1>5, <1>6, <1>7

LEMMA NextType == TypeOK /\ SourcesAreHeld /\ [Next]_vars => TypeOK'
  <1>1. SUFFICES ASSUME TypeOK, SourcesAreHeld, [Next]_vars PROVE TypeOK'
    OBVIOUS
  <1>2. ASSUME NEW w \in Loaders, FindExisting(w) PROVE TypeOK'
    <2>0. PICK n \in 1..MaxBatch : \E b \in [1..n -> Posting] :
            /\ batch' = [batch EXCEPT ![w] = b]
            /\ existing' = [existing EXCEPT ![w] = [k \in 1..n |-> Existing(b[k].id)]]
            /\ targets' = [targets EXCEPT ![w] = [k \in 1..n |-> Null]]
      BY <1>2 DEF FindExisting
    <2>1. PICK b \in [1..n -> Posting] :
            /\ batch' = [batch EXCEPT ![w] = b]
            /\ existing' = [existing EXCEPT ![w] = [k \in 1..n |-> Existing(b[k].id)]]
            /\ targets' = [targets EXCEPT ![w] = [k \in 1..n |-> Null]]
      BY <2>0
    <2>2. b \in Batch
      BY <2>1, JobLoaderAssumption DEF Batch
    <2>3. [k \in 1..n |-> Existing(b[k].id)] \in [1..n -> Known \cup {Null}]
      BY <1>1, ExistingType DEF Posting
    <2>4. ASSUME NEW v \in Loaders
          PROVE  /\ existing'[v] \in [DOMAIN batch'[v] -> Known \cup {Null}]
                 /\ targets'[v] \in [DOMAIN batch'[v] -> JobIds \cup {Null}]
      <3>1. CASE v = w
        <4>1. batch'[v] = b /\ DOMAIN b = 1..n
          BY <3>1, <2>1, <1>1 DEF TypeOK
        <4>2. existing'[v] = [k \in 1..n |-> Existing(b[k].id)] /\ targets'[v] = [k \in 1..n |-> Null]
          BY <3>1, <2>1, <1>1 DEF TypeOK
        <4>3. QED
          BY <4>1, <4>2, <2>3
      <3>2. CASE v # w
        BY <3>2, <2>1, <1>1 DEF TypeOK
      <3>3. QED
        BY <3>1, <3>2
    <2>5. QED
      BY <1>1, <1>2, <2>1, <2>2, <2>4 DEF TypeOK, FindExisting, tables
  <1>3. ASSUME NEW w \in Loaders, MatchUrls(w) \/ MatchFingerprints(w) PROVE TypeOK'
    <2>1. /\ DOMAIN targets' = Loaders
          /\ targets'[w] \in [DOMAIN batch[w] -> JobIds \cup {Null}]
          /\ \A v \in Loaders \ {w} : targets'[v] = targets[v]
      BY <1>1, <1>3, MatchType DEF MatchUrls, MatchFingerprints
    <2>2. QED
      BY <1>1, <1>3, <2>1 DEF TypeOK, MatchUrls, MatchFingerprints, tables
  <1>4. ASSUME NEW w \in Loaders, Commit(w) PROVE TypeOK'
    <2>1. PICK new \in [Fresh(w) -> JobIds \ issued], last \in [JobIds -> DOMAIN batch[w]] :
            Write(w, new, last)
      BY <1>4 DEF Commit
    <2>2. Done(w)
      BY <1>4 DEF Commit
    <2>3. QED
      BY <1>1, <2>1, <2>2, WriteType, DoneType DEF TypeOK
  <1>5. ASSUME NEW w \in Loaders, Abort(w) PROVE TypeOK'
    BY <1>1, <1>5, DoneType DEF Abort, TypeOK, tables
  <1>6. ASSUME NEW j \in JobIds, Expire(j) PROVE TypeOK'
    BY <1>1, <1>6 DEF Expire, TypeOK, Held, Row
  <1>7. ASSUME NEW j \in JobIds, Purge(j) PROVE TypeOK'
    BY <1>1, <1>7 DEF Purge, TypeOK
  <1>8. CASE UNCHANGED vars
    BY <1>1, <1>8 DEF vars, tables, TypeOK
  <1>9. QED
    BY <1>1, <1>2, <1>3, <1>4, <1>5, <1>6, <1>7, <1>8 DEF Next

-------------------------------------------------------------------------------
(* What holds whatever overlaps *)

\* A write keeps every job that is there, and creates the ones it binds.
LEMMA WriteHolds ==
  ASSUME TypeOK, NEW w \in Loaders,
         NEW new \in [Fresh(w) -> JobIds \ issued], NEW last \in [JobIds -> DOMAIN batch[w]],
         Write(w, new, last)
  PROVE  \A j \in JobIds : jobs'[j] # Null <=> Held(j) \/ Created(w, new, j)
  <1>1. ASSUME NEW k \in DOMAIN batch[w] PROVE Shown(w, k) # Null
    <2>1. Shown(w, k) \in Row
      BY PostingOfBatch DEF Shown, Posting, Row
    <2>2. QED
      BY <2>1, JobLoaderAssumption
  <1>2. ASSUME NEW j \in JobIds, Created(w, new, j)
        PROVE  (CHOOSE k \in Fresh(w) : new[k] = j) \in DOMAIN batch[w]
    BY <1>2 DEF Created, Fresh, ToInsert
  <1>3. \A j \in JobIds : Updates(w, j) # {} => Held(j)
    BY DEF Updates
  <1>4. QED
    BY <1>1, <1>2, <1>3 DEF Write, Held, TypeOK

\* The inserts' provenance points to the jobs they create, the merges' to their targets.
LEMMA BindHolds ==
  ASSUME TypeOK, NEW w \in Loaders,
         NEW new \in [Fresh(w) -> JobIds \ issued], NEW last \in [JobIds -> DOMAIN batch[w]],
         Write(w, new, last),
         \A k \in Merges(w) : sources[batch[w][k].id] = Null => Held(targets[w][k]),
         SourcesAreHeld
  PROVE  SourcesAreHeld'
  <1>1. SUFFICES ASSUME NEW i \in ExternalIds, sources'[i] # Null
                 PROVE  jobs'[sources'[i]] # Null
    BY DEF SourcesAreHeld, Held
  <1>0. \A j \in JobIds : jobs'[j] # Null <=> Held(j) \/ Created(w, new, j)
    BY WriteHolds
  <1>2. CASE sources[i] # Null
    <2>1. sources'[i] = sources[i] /\ sources[i] \in JobIds
      BY <1>2 DEF Write, Bind, TypeOK
    <2>2. Held(sources[i])
      BY <1>2 DEF SourcesAreHeld
    <2>3. QED
      BY <2>1, <2>2, <1>0
  <1>3. CASE sources[i] = Null
    <2> DEFINE k == CHOOSE k \in ToInsert(w) : batch[w][k].id = i
    <2>1. k \in ToInsert(w) /\ batch[w][k].id = i /\ sources'[i] = Target(w, new, k)
      BY <1>1, <1>3 DEF Write, Bind, TypeOK
    <2> HIDE DEF k
    <2>2. CASE k \in Fresh(w)
      <3>1. sources'[i] = new[k] /\ new[k] \in JobIds /\ Created(w, new, new[k])
        BY <2>1, <2>2 DEF Target, Created
      <3>2. QED
        BY <3>1, <1>0
    <2>3. CASE k \notin Fresh(w)
      <3>1. k \in Merges(w) /\ sources'[i] = targets[w][k] /\ targets[w][k] \in JobIds
        BY <2>1, <2>3 DEF Target, Merges, Fresh, ToInsert, TypeOK
      <3>2. Held(targets[w][k])
        BY <1>3, <2>1, <3>1
      <3>3. QED
        BY <3>1, <3>2, <1>0
    <2>4. QED
      BY <2>2, <2>3
  <1>4. QED
    BY <1>2, <1>3

LEMMA InitTables == Init => TablesInv
  <1>1. SUFFICES ASSUME Init PROVE TablesInv
    OBVIOUS
  <1>2. \A w \in Loaders : DOMAIN batch[w] = {}
    <2>1. \A w \in Loaders : batch[w] = <<>>
      BY <1>1 DEF Init
    <2>2. <<>> = [k \in 1..0 |-> Null] /\ 1..0 = {}
      OBVIOUS
    <2>3. DOMAIN <<>> = {}
      BY <2>2
    <2>4. QED
      BY <2>1, <2>3
  <1>3. QED
    BY <1>1, <1>2, InitType DEF Init, TablesInv, SourcesAreHeld, HeldAreIssued, Held,
       BatchesAreDistinct, KnownStayBound

LEMMA NextTables == TablesInv /\ [Next]_vars => TablesInv'
  <1>1. SUFFICES ASSUME TablesInv, [Next]_vars PROVE TablesInv'
    OBVIOUS
  <1>2. TypeOK /\ SourcesAreHeld /\ HeldAreIssued /\ BatchesAreDistinct /\ KnownStayBound /\ TypeOK'
    BY <1>1, NextType DEF TablesInv
  <1>3. SourcesAreHeld' /\ HeldAreIssued'
    <2>1. ASSUME NEW w \in Loaders, Commit(w) PROVE SourcesAreHeld' /\ HeldAreIssued'
      <3>1. PICK new \in [Fresh(w) -> JobIds \ issued], last \in [JobIds -> DOMAIN batch[w]] :
              Write(w, new, last)
        BY <2>1 DEF Commit
      <3>2. SourcesAreHeld'
        BY <1>2, <2>1, <3>1, BindHolds DEF Commit
      <3>3. issued' = issued \cup {new[k] : k \in Fresh(w)}
        BY <3>1 DEF Write
      <3>4. HeldAreIssued'
        <4>1. \A j \in JobIds : jobs'[j] # Null <=> Held(j) \/ Created(w, new, j)
          BY <1>2, <3>1, WriteHolds
        <4>2. QED
          BY <1>2, <3>3, <4>1 DEF HeldAreIssued, Held, Created
      <3>5. QED
        BY <3>2, <3>4
    <2>2. ASSUME NEW j \in JobIds, Expire(j) PROVE SourcesAreHeld' /\ HeldAreIssued'
      <3>1. jobs[j] \in Row /\ jobs'[j] \in Row
        BY <1>2, <2>2 DEF Expire, Held, TypeOK, Row
      <3>2. jobs'[j] # Null
        BY <3>1, JobLoaderAssumption
      <3>3. QED
        BY <1>2, <2>2, <3>2 DEF Expire, SourcesAreHeld, HeldAreIssued, Held, TypeOK
    <2>3. ASSUME NEW j \in JobIds, Purge(j) PROVE SourcesAreHeld' /\ HeldAreIssued'
      BY <1>2, <2>3 DEF Purge, SourcesAreHeld, HeldAreIssued, Held, TypeOK
    <2>4. CASE UNCHANGED tables
      BY <1>2, <2>4 DEF tables, SourcesAreHeld, HeldAreIssued, Held
    <2>5. QED
      BY <1>1, <2>1, <2>2, <2>3, <2>4
      DEF Next, FindExisting, MatchUrls, MatchFingerprints, Abort, vars
  <1>4. BatchesAreDistinct'
    <2>1. ASSUME NEW w \in Loaders, FindExisting(w) PROVE BatchesAreDistinct'
      <3>1. PICK n \in 1..MaxBatch : \E b \in [1..n -> Posting] :
              /\ \A k, l \in 1..n : b[k].id = b[l].id => k = l
              /\ batch' = [batch EXCEPT ![w] = b]
        BY <2>1 DEF FindExisting
      <3>2. PICK b \in [1..n -> Posting] :
              /\ \A k, l \in 1..n : b[k].id = b[l].id => k = l
              /\ batch' = [batch EXCEPT ![w] = b]
        BY <3>1
      <3>3. batch'[w] = b /\ \A v \in Loaders \ {w} : batch'[v] = batch[v]
        BY <1>2, <3>2 DEF TypeOK
      <3>4. QED
        BY <1>2, <3>2, <3>3 DEF BatchesAreDistinct
    <2>2. ASSUME NEW w \in Loaders, Done(w) PROVE BatchesAreDistinct'
      <3>1. batch'[w] = <<>> /\ \A v \in Loaders \ {w} : batch'[v] = batch[v]
        BY <1>2, <2>2 DEF Done, TypeOK
      <3>2. DOMAIN batch'[w] = {}
        BY <3>1
      <3>3. QED
        BY <1>2, <3>1, <3>2 DEF BatchesAreDistinct
    <2>3. CASE UNCHANGED batch
      BY <1>2, <2>3 DEF BatchesAreDistinct
    <2>4. QED
      BY <1>1, <2>1, <2>2, <2>3
      DEF Next, MatchUrls, MatchFingerprints, Commit, Abort, Expire, Purge, vars
  <1>5. KnownStayBound'
    <2>1. SUFFICES ASSUME ~Purging PROVE KnownStayBound'
      BY DEF KnownStayBound
    <2>2. ASSUME NEW w \in Loaders, FindExisting(w) PROVE KnownStayBound'
      <3>1. PICK n \in 1..MaxBatch : \E b \in [1..n -> Posting] :
              /\ batch' = [batch EXCEPT ![w] = b]
              /\ existing' = [existing EXCEPT ![w] = [k \in 1..n |-> Existing(b[k].id)]]
        BY <2>2 DEF FindExisting
      <3>2. PICK b \in [1..n -> Posting] :
              /\ batch' = [batch EXCEPT ![w] = b]
              /\ existing' = [existing EXCEPT ![w] = [k \in 1..n |-> Existing(b[k].id)]]
        BY <3>1
      <3>3. /\ batch'[w] = b /\ existing'[w] = [k \in 1..n |-> Existing(b[k].id)]
            /\ \A v \in Loaders \ {w} : batch'[v] = batch[v] /\ existing'[v] = existing[v]
        BY <1>2, <3>2 DEF TypeOK
      <3>4. \A k \in 1..n : Existing(b[k].id) # Null => sources[b[k].id] # Null
        BY DEF Existing
      <3>5. sources' = sources
        BY <2>2 DEF FindExisting, tables
      <3>6. DOMAIN b = 1..n
        OBVIOUS
      <3>7. QED
        BY <1>2, <2>1, <3>3, <3>4, <3>5, <3>6 DEF KnownStayBound
    <2>3. ASSUME NEW w \in Loaders, Done(w), \A i \in ExternalIds : sources[i] # Null => sources'[i] # Null
          PROVE  KnownStayBound'
      <3>1. /\ batch'[w] = <<>>
            /\ \A v \in Loaders \ {w} : batch'[v] = batch[v] /\ existing'[v] = existing[v]
        BY <1>2, <2>3 DEF Done, TypeOK
      <3>2. DOMAIN batch'[w] = {}
        BY <3>1
      <3>3. \A v \in Loaders : \A k \in DOMAIN batch[v] : batch[v][k].id \in ExternalIds
        BY <1>2, PostingOfBatch DEF Posting
      <3>4. QED
        BY <1>2, <2>1, <2>3, <3>1, <3>2, <3>3 DEF KnownStayBound
    <2>4. ASSUME NEW w \in Loaders, Commit(w) PROVE KnownStayBound'
      <3>1. \A i \in ExternalIds : sources[i] # Null => sources'[i] # Null
        BY <2>4 DEF Commit, Write, Bind
      <3>2. QED
        BY <2>3, <2>4, <3>1 DEF Commit
    <2>5. ASSUME NEW w \in Loaders, Abort(w) PROVE KnownStayBound'
      BY <2>3, <2>5 DEF Abort, tables
    <2>6. CASE UNCHANGED <<batch, existing, sources>>
      BY <1>2, <2>6 DEF KnownStayBound
    <2>7. ASSUME NEW j \in JobIds, Purge(j) PROVE KnownStayBound'
      BY <2>1, <2>7 DEF Purge
    <2>8. QED
      BY <1>1, <2>2, <2>4, <2>5, <2>6, <2>7
      DEF Next, MatchUrls, MatchFingerprints, Expire, tables, vars
  <1>6. QED
    BY <1>2, <1>3, <1>4, <1>5 DEF TablesInv

LEMMA TablesAlways == Spec => []TablesInv
  BY InitTables, NextTables, PTL DEF Spec

\* The tables keep their types.
THEOREM TypeCorrect == Spec => []TypeOK
  <1>1. TablesInv => TypeOK
    BY DEF TablesInv
  <1>2. QED
    BY <1>1, TablesAlways, PTL

\* A source row always has its job, whatever loads and deletions overlap.
THEOREM SourcesHeld == Spec => []SourcesAreHeld
  <1>1. TablesInv => SourcesAreHeld
    BY DEF TablesInv
  <1>2. QED
    BY <1>1, TablesAlways, PTL

\* A source row never moves from one job to another, whatever loads overlap: this is the
\* part of idempotency that the UNIQUE constraint carries by itself.
THEOREM ProvenanceStaysPut == Spec => ProvenanceStays
  <1>1. ASSUME TablesInv, [Next]_vars
        PROVE  [\A i \in ExternalIds :
                  sources[i] # Null => sources'[i] = sources[i] \/ jobs'[sources[i]] = Null]_vars
    <2>1. SUFFICES ASSUME NEW i \in ExternalIds, sources[i] # Null
                   PROVE  sources'[i] = sources[i] \/ jobs'[sources[i]] = Null
      OBVIOUS
    <2>2. ASSUME NEW w \in Loaders, Commit(w) PROVE sources'[i] = sources[i]
      BY <2>1, <2>2 DEF Commit, Write, Bind
    <2>3. ASSUME NEW j \in JobIds, Purge(j)
          PROVE  sources'[i] = sources[i] \/ jobs'[sources[i]] = Null
      BY <1>1, <2>3 DEF Purge, TablesInv, TypeOK
    <2>4. CASE UNCHANGED sources
      BY <2>4
    <2>5. QED
      BY <1>1, <2>2, <2>3, <2>4
      DEF Next, FindExisting, MatchUrls, MatchFingerprints, Abort, Expire, tables, vars
  <1>2. QED
    BY <1>1, TablesAlways, PTL DEF Spec, ProvenanceStays

\* A load never changes a job's status without an event, whatever overlaps.
THEOREM StatusChangesRecorded == Spec => StatusChangesAreRecorded
  <1>1. ASSUME TablesInv, NEW w \in Loaders, Commit(w), NEW j \in JobIds, Held(j),
               jobs'[j].status # jobs[j].status
        PROVE  recorded'[j] = jobs'[j].status
    <2>1. PICK new \in [Fresh(w) -> JobIds \ issued], last \in [JobIds -> DOMAIN batch[w]] :
            Write(w, new, last)
      BY <1>1 DEF Commit
    <2>2. j \in issued
      BY <1>1 DEF TablesInv, HeldAreIssued
    <2>3. ~Created(w, new, j)
      BY <2>2 DEF Created
    <2>4. Updates(w, j) # {}
      BY <1>1, <2>1, <2>3 DEF Write
    <2>5. jobs'[j] = Shown(w, last[j]) /\ recorded'[j] = EventStatus(w, last[j])
      BY <1>1, <2>1, <2>3, <2>4 DEF Write
    <2>6. QED
      BY <2>5 DEF Shown, EventStatus
  <1>2. TablesInv => [\A w \in Loaders, j \in JobIds :
          Held(j) /\ jobs'[j] # Null /\ jobs'[j].status # jobs[j].status /\ Commit(w) =>
            recorded'[j] = jobs'[j].status]_vars
    BY <1>1
  <1>3. QED
    BY <1>2, TablesAlways, PTL DEF Spec, StatusChangesAreRecorded

\* Every index of a batch is the one with its id.
LEMMA IndexOfId ==
  ASSUME BatchesAreDistinct, NEW w \in Loaders, NEW K, K \subseteq DOMAIN batch[w], NEW k \in K
  PROVE  (CHOOSE l \in K : batch[w][l].id = batch[w][k].id) = k
  <1>1. \E l \in K : batch[w][l].id = batch[w][k].id
    OBVIOUS
  <1> DEFINE m == CHOOSE l \in K : batch[w][l].id = batch[w][k].id
  <1>2. m \in K /\ batch[w][m].id = batch[w][k].id
    BY <1>1
  <1>3. QED
    BY <1>2 DEF BatchesAreDistinct

\* What a write binds: the inserts to their new jobs, the merges to their targets.
LEMMA Bound ==
  ASSUME TypeOK, BatchesAreDistinct, NEW w \in Loaders, NEW new, NEW last,
         Write(w, new, last),
         NEW k \in ToInsert(w), sources[batch[w][k].id] = Null
  PROVE  sources'[batch[w][k].id] = Target(w, new, k)
  <1>1. ToInsert(w) \subseteq DOMAIN batch[w] /\ batch[w][k].id \in ExternalIds
    BY PostingOfBatch DEF ToInsert, Posting
  <1>2. (CHOOSE l \in ToInsert(w) : batch[w][l].id = batch[w][k].id) = k
    BY <1>1, IndexOfId
  <1>3. QED
    BY <1>1, <1>2 DEF Write, Bind

\* Without a purge, a load that commits leaves every posting of its batch with a job,
\* whatever loads overlap.
THEOREM NothingLost ==
  ASSUME ~Purging
  PROVE  Spec => NothingIsLost
  <1>1. ASSUME TablesInv, [Next]_vars
        PROVE  [\A w \in Loaders :
                  Commit(w) => \A k \in DOMAIN batch[w] : sources'[batch[w][k].id] # Null]_vars
    <2>1. SUFFICES ASSUME NEW w \in Loaders, Commit(w), NEW k \in DOMAIN batch[w]
                   PROVE  sources'[batch[w][k].id] # Null
      OBVIOUS
    <2>2. PICK new \in [Fresh(w) -> JobIds \ issued], last \in [JobIds -> DOMAIN batch[w]] :
            Write(w, new, last)
      BY <2>1 DEF Commit
    <2>3. batch[w][k].id \in ExternalIds
      BY <1>1, PostingOfBatch DEF Posting, TablesInv
    <2>4. CASE sources[batch[w][k].id] # Null
      BY <2>2, <2>3, <2>4 DEF Write, Bind
    <2>5. CASE sources[batch[w][k].id] = Null
      <3>1. k \in ToInsert(w)
        BY <1>1, <2>5 DEF TablesInv, KnownStayBound, ToInsert
      <3>2. sources'[batch[w][k].id] = Target(w, new, k)
        BY <1>1, <2>2, <2>5, <3>1, Bound DEF TablesInv
      <3>3. Target(w, new, k) # Null
        <4>1. CASE k \in Fresh(w)
          BY <4>1, JobLoaderAssumption DEF Target
        <4>2. CASE k \notin Fresh(w)
          BY <3>1, <4>2 DEF Target, Fresh
        <4>3. QED
          BY <4>1, <4>2
      <3>4. QED
        BY <3>2, <3>3
    <2>6. QED
      BY <2>4, <2>5
  <1>2. QED
    BY <1>1, TablesAlways, PTL DEF Spec, NothingIsLost

-------------------------------------------------------------------------------
(* One load at a time *)

\* What a write does to the history: the postings of the batch, and no other.
LEMMA Reported ==
  ASSUME TypeOK, BatchesAreDistinct, NEW w \in Loaders, NEW new, NEW last,
         Write(w, new, last)
  PROVE  /\ \A k \in DOMAIN batch[w] : reported'[batch[w][k].id] = batch[w][k]
         /\ \A i \in ExternalIds :
              (\A k \in DOMAIN batch[w] : batch[w][k].id # i) => reported'[i] = reported[i]
  <1>1. ASSUME NEW k \in DOMAIN batch[w] PROVE reported'[batch[w][k].id] = batch[w][k]
    <2>1. batch[w][k].id \in ExternalIds
      BY PostingOfBatch DEF Posting
    <2>2. (CHOOSE l \in DOMAIN batch[w] : batch[w][l].id = batch[w][k].id) = k
      BY IndexOfId
    <2>3. QED
      BY <2>1, <2>2 DEF Write
  <1>2. QED
    BY <1>1 DEF Write

\* What a write does to a job: created by one insert, updated by a changed posting of one
\* of its sources, or left alone.
LEMMA Shows ==
  ASSUME TypeOK, HeldAreIssued, NEW w \in Loaders,
         NEW new \in [Fresh(w) -> JobIds \ issued], NEW last \in [JobIds -> DOMAIN batch[w]],
         \A k, l \in Fresh(w) : new[k] = new[l] => k = l,
         \A j \in JobIds : Updates(w, j) # {} => last[j] \in Updates(w, j),
         Write(w, new, last), NEW j \in JobIds
  PROVE  \/ \E k \in Fresh(w) : /\ new[k] = j /\ ~Held(j)
                                /\ jobs'[j] = Shown(w, k)
         \/ \E k \in Updates(w, j) : ~Created(w, new, j) /\ jobs'[j] = Shown(w, k)
         \/ /\ ~Created(w, new, j) /\ Updates(w, j) = {}
            /\ jobs'[j] = jobs[j]
  <1>1. CASE Created(w, new, j)
    <2>1. PICK k \in Fresh(w) : new[k] = j
      BY <1>1 DEF Created
    <2>2. (CHOOSE l \in Fresh(w) : new[l] = j) = k
      BY <2>1
    <2>3. ~Held(j)
      BY <2>1 DEF HeldAreIssued
    <2>4. jobs'[j] = Shown(w, k)
      BY <1>1, <2>2 DEF Write
    <2>5. QED
      BY <2>1, <2>3, <2>4
  <1>2. CASE ~Created(w, new, j)
    BY <1>2 DEF Write
  <1>3. QED
    BY <1>1, <1>2

LEMMA InitLoad == Init => LoadInv
  <1>1. SUFFICES ASSUME Init PROVE LoadInv
    OBVIOUS
  <1>2. <<>> = [k \in 1..0 |-> Null] /\ 1..0 = {}
    OBVIOUS
  <1>3. DOMAIN <<>> = {}
    BY <1>2
  <1>4. \A w \in Loaders : DOMAIN batch[w] = {}
    BY <1>1, <1>3 DEF Init
  <1>5. QED
    BY <1>1, <1>4, InitTables DEF Init, LoadInv, ReadsAreFresh, JobsAreSourced, JobsShowAReport, Held

\* The step of a commit, the only one that creates jobs and changes what they show.
LEMMA CommitLoad ==
  ASSUME LoadInv, NEW w \in Loaders, Commit(w)
  PROVE  JobsAreSourced' /\ JobsShowAReport'
  <1>1. PICK new \in [Fresh(w) -> JobIds \ issued], last \in [JobIds -> DOMAIN batch[w]] :
          /\ \A k, l \in Fresh(w) : new[k] = new[l] => k = l
          /\ \A j \in JobIds : Updates(w, j) # {} => last[j] \in Updates(w, j)
          /\ Write(w, new, last)
    BY DEF Commit
  <1>2. /\ TypeOK /\ HeldAreIssued /\ BatchesAreDistinct /\ SourcesAreHeld
        /\ ReadsAreFresh /\ JobsAreSourced /\ JobsShowAReport
    BY DEF LoadInv, TablesInv
  <1>3. \A k \in DOMAIN batch[w] : batch[w][k].id \in ExternalIds
    BY <1>2, PostingOfBatch DEF Posting
  <1>4. /\ \A k \in DOMAIN batch[w] : reported'[batch[w][k].id] = batch[w][k]
        /\ \A i \in ExternalIds :
             (\A k \in DOMAIN batch[w] : batch[w][k].id # i) => reported'[i] = reported[i]
    BY <1>1, <1>2, Reported
  <1>5. \A i \in ExternalIds : sources[i] # Null => sources'[i] = sources[i]
    BY <1>1 DEF Write, Bind
  <1>6. ASSUME NEW j \in JobIds, jobs'[j] # Null
        PROVE  \E i \in ExternalIds : sources'[i] = j /\ reported'[i].content = jobs'[j].content
    <2>1. CASE \E k \in Fresh(w) : new[k] = j /\ ~Held(j) /\ jobs'[j] = Shown(w, k)
      <3>1. PICK k \in Fresh(w) : new[k] = j /\ jobs'[j] = Shown(w, k)
        BY <2>1
      <3>2. k \in ToInsert(w) /\ k \in DOMAIN batch[w] /\ existing[w][k] = Null
        BY DEF Fresh, ToInsert
      <3>3. sources[batch[w][k].id] = Null
        BY <1>2, <3>2 DEF ReadsAreFresh
      <3>4. sources'[batch[w][k].id] = Target(w, new, k)
        BY <1>1, <1>2, <3>2, <3>3, Bound
      <3>5. Target(w, new, k) = j
        BY <3>1 DEF Target
      <3>6. reported'[batch[w][k].id].content = jobs'[j].content
        BY <1>4, <3>1, <3>2 DEF Shown
      <3>7. QED
        BY <1>3, <3>2, <3>4, <3>5, <3>6
    <2>2. CASE \E k \in Updates(w, j) : jobs'[j] = Shown(w, k)
      <3>1. PICK k \in Updates(w, j) : jobs'[j] = Shown(w, k)
        BY <2>2
      <3>2. k \in DOMAIN batch[w] /\ existing[w][k] # Null /\ existing[w][k].job = j /\ Held(j)
        BY DEF Updates, Changed, ToInsert
      <3>3. sources[batch[w][k].id] = j
        BY <1>2, <3>2 DEF ReadsAreFresh
      <3>4. sources'[batch[w][k].id] = j
        BY <1>3, <1>5, <3>2, <3>3, JobLoaderAssumption
      <3>5. reported'[batch[w][k].id].content = jobs'[j].content
        BY <1>4, <3>1, <3>2 DEF Shown
      <3>6. QED
        BY <1>3, <3>2, <3>4, <3>5
    <2>3. CASE ~Created(w, new, j) /\ Updates(w, j) = {} /\ jobs'[j] = jobs[j]
      <3>1. PICK i \in ExternalIds : sources[i] = j /\ reported[i].content = jobs[j].content
        BY <1>2, <1>6, <2>3 DEF JobsShowAReport, Held
      <3>2. sources'[i] = j
        BY <1>5, <3>1, JobLoaderAssumption
      <3>3. CASE \A k \in DOMAIN batch[w] : batch[w][k].id # i
        BY <1>4, <2>3, <3>1, <3>2, <3>3
      <3>4. ASSUME NEW k \in DOMAIN batch[w], batch[w][k].id = i
            PROVE  reported'[i].content = jobs'[j].content
        <4>1. existing[w][k] # Null
          BY <1>2, <3>1, <3>4, JobLoaderAssumption DEF ReadsAreFresh
        <4>2. existing[w][k].job = j /\ existing[w][k].content = jobs[j].content
          <5>1. /\ sources[i] = IF Held(existing[w][k].job) THEN existing[w][k].job ELSE Null
                /\ Held(existing[w][k].job) => jobs[existing[w][k].job].content = existing[w][k].content
            BY <1>2, <3>4, <4>1 DEF ReadsAreFresh
          <5>2. QED
            BY <3>1, <5>1, JobLoaderAssumption
        <4>3. k \notin Changed(w)
          BY <1>6, <2>3, <4>2 DEF Updates, Held
        <4>4. batch[w][k].content = jobs[j].content
          BY <4>1, <4>2, <4>3 DEF Changed, ToInsert
        <4>5. QED
          BY <1>4, <2>3, <3>4, <4>4
      <3>5. QED
        BY <3>2, <3>3, <3>4
    <2>4. QED
      BY <1>1, <1>2, <2>1, <2>2, <2>3, Shows
  <1>7. QED
    BY <1>6 DEF JobsAreSourced, JobsShowAReport, Held

\* A load that is over has read nothing.
LEMMA DoneReads ==
  ASSUME OneLoad, TypeOK, NEW w \in Loaders, Done(w)
  PROVE  ReadsAreFresh'
  <1>1. batch'[w] = <<>>
    BY DEF TypeOK, Done
  <1>2. <<>> = [k \in 1..0 |-> Null] /\ 1..0 = {}
    OBVIOUS
  <1>3. DOMAIN <<>> = {}
    BY <1>2
  <1>4. \A v \in Loaders : DOMAIN batch'[v] = {}
    BY <1>1, <1>3 DEF OneLoad
  <1>5. QED
    BY <1>4 DEF ReadsAreFresh

\* A retired job keeps its sources and its content; a purged one takes its sources along.
LEMMA RetireLoad ==
  ASSUME LoadInv, NEW j \in JobIds, Expire(j) \/ Purge(j)
  PROVE  ReadsAreFresh' /\ JobsAreSourced' /\ JobsShowAReport'
  <1>1. /\ TypeOK /\ SourcesAreHeld /\ ReadsAreFresh /\ JobsAreSourced /\ JobsShowAReport
    BY DEF LoadInv, TablesInv
  <1>2. \A w \in Loaders : \A k \in DOMAIN batch[w] :
          /\ batch[w][k].id \in ExternalIds
          /\ existing[w][k] # Null => existing[w][k].job \in JobIds
    BY <1>1, PostingOfBatch DEF TypeOK, Posting, Known
  <1>3. CASE Expire(j)
    <2>1. jobs[j] \in Row /\ jobs'[j] \in Row
      BY <1>1, <1>3 DEF Expire, Held, TypeOK, Row
    <2>2. jobs'[j] # Null /\ jobs[j] # Null /\ jobs'[j].content = jobs[j].content
      BY <1>1, <1>3, <2>1, JobLoaderAssumption DEF Expire, TypeOK, Row
    <2>3. /\ \A i \in JobIds \ {j} : jobs'[i] = jobs[i]
          /\ UNCHANGED <<issued, sources, reported, batch, existing>>
      BY <1>1, <1>3 DEF Expire, TypeOK
    <2>4. ReadsAreFresh'
      BY <1>1, <1>2, <2>2, <2>3 DEF ReadsAreFresh, Held
    <2>5. QED
      BY <1>1, <2>2, <2>3, <2>4 DEF JobsAreSourced, JobsShowAReport, Held
  <1>4. CASE Purge(j)
    <2>1. /\ jobs'[j] = Null /\ \A i \in JobIds \ {j} : jobs'[i] = jobs[i]
          /\ \A i \in ExternalIds : sources'[i] = IF sources[i] = j THEN Null ELSE sources[i]
          /\ UNCHANGED <<issued, reported, batch, existing>>
      BY <1>1, <1>4 DEF Purge, TypeOK
    <2>2. ReadsAreFresh'
      BY <1>1, <1>2, <2>1, JobLoaderAssumption DEF ReadsAreFresh, Held
    <2>3. QED
      BY <1>1, <2>1, <2>2 DEF JobsAreSourced, JobsShowAReport, Held
  <1>5. QED
    BY <1>3, <1>4

LEMMA NextLoad ==
  ASSUME OneLoad
  PROVE  LoadInv /\ [Next]_vars => LoadInv'
  <1>1. SUFFICES ASSUME LoadInv, [Next]_vars PROVE LoadInv'
    OBVIOUS
  <1>2. TablesInv /\ TypeOK /\ SourcesAreHeld /\ HeldAreIssued /\ TablesInv'
    BY <1>1, NextTables DEF LoadInv, TablesInv
  <1>3. ReadsAreFresh /\ JobsAreSourced /\ JobsShowAReport
    BY <1>1 DEF LoadInv
  <1>4. SUFFICES ReadsAreFresh' /\ JobsAreSourced' /\ JobsShowAReport'
    BY <1>2 DEF LoadInv
  <1>5. ASSUME NEW w \in Loaders, FindExisting(w)
        PROVE  ReadsAreFresh' /\ JobsAreSourced' /\ JobsShowAReport'
    <2>1. PICK n \in 1..MaxBatch : \E b \in [1..n -> Posting] :
            /\ batch' = [batch EXCEPT ![w] = b]
            /\ existing' = [existing EXCEPT ![w] = [k \in 1..n |-> Existing(b[k].id)]]
      BY <1>5 DEF FindExisting
    <2>2. PICK b \in [1..n -> Posting] :
            /\ batch' = [batch EXCEPT ![w] = b]
            /\ existing' = [existing EXCEPT ![w] = [k \in 1..n |-> Existing(b[k].id)]]
      BY <2>1
    <2>3. batch'[w] = b /\ existing'[w] = [k \in 1..n |-> Existing(b[k].id)] /\ DOMAIN b = 1..n
      BY <1>2, <2>2 DEF TypeOK
    <2>4. UNCHANGED <<jobs, issued, sources, reported>>
      BY <1>5 DEF FindExisting, tables
    <2>5. ASSUME NEW k \in 1..n
          PROVE  LET i == b[k].id
                     e == Existing(b[k].id)
                 IN  /\ e = Null => sources[i] = Null
                     /\ e # Null => /\ e.job \in issued
                                    /\ sources[i] = IF Held(e.job) THEN e.job ELSE Null
                                    /\ Held(e.job) => jobs[e.job].content = e.content
      <3>1. b[k].id \in ExternalIds
        BY DEF Posting
      <3>2. CASE sources[b[k].id] = Null
        BY <3>2 DEF Existing
      <3>3. CASE sources[b[k].id] # Null
        <4>1. Held(sources[b[k].id]) /\ sources[b[k].id] \in issued
          BY <1>2, <3>1, <3>3 DEF SourcesAreHeld, HeldAreIssued, TypeOK
        <4>2. Existing(b[k].id) # Null
          <5>1. Existing(b[k].id) \in Known
            BY <1>2, <3>1, <3>3, <4>1 DEF Existing, Known, TypeOK, Row, Held
          <5>2. QED
            BY <5>1, JobLoaderAssumption
        <4>3. QED
          BY <3>3, <4>1, <4>2 DEF Existing
      <3>4. QED
        BY <3>2, <3>3
    <2>6. ReadsAreFresh'
      <3>1. \A v \in Loaders : v = w
        BY DEF OneLoad
      <3>2. QED
        BY <2>3, <2>4, <2>5, <3>1 DEF ReadsAreFresh, Held
    <2>7. QED
      BY <1>3, <2>4, <2>6 DEF JobsAreSourced, JobsShowAReport, Held
  <1>6. ASSUME NEW w \in Loaders, MatchUrls(w) \/ MatchFingerprints(w)
        PROVE  ReadsAreFresh' /\ JobsAreSourced' /\ JobsShowAReport'
    BY <1>3, <1>6
    DEF MatchUrls, MatchFingerprints, tables, ReadsAreFresh, JobsAreSourced, JobsShowAReport, Held
  <1>7. ASSUME NEW w \in Loaders, Commit(w)
        PROVE  ReadsAreFresh' /\ JobsAreSourced' /\ JobsShowAReport'
    <2>1. ReadsAreFresh'
      BY <1>2, <1>7, DoneReads DEF Commit
    <2>2. QED
      BY <1>1, <1>7, <2>1, CommitLoad
  <1>8. ASSUME NEW w \in Loaders, Abort(w)
        PROVE  ReadsAreFresh' /\ JobsAreSourced' /\ JobsShowAReport'
    <2>1. ReadsAreFresh'
      BY <1>2, <1>8, DoneReads DEF Abort
    <2>2. QED
      BY <1>3, <1>8, <2>1 DEF Abort, tables, JobsAreSourced, JobsShowAReport, Held
  <1>9. ASSUME NEW j \in JobIds, Expire(j) \/ Purge(j)
        PROVE  ReadsAreFresh' /\ JobsAreSourced' /\ JobsShowAReport'
    BY <1>1, <1>9, RetireLoad
  <1>10. CASE UNCHANGED vars
    BY <1>3, <1>10 DEF vars, tables, ReadsAreFresh, JobsAreSourced, JobsShowAReport, Held
  <1>11. QED
    BY <1>1, <1>5, <1>6, <1>7, <1>8, <1>9, <1>10 DEF Next

LEMMA LoadAlways ==
  ASSUME OneLoad
  PROVE  Spec => []LoadInv
  BY InitLoad, NextLoad, PTL DEF Spec

\* While loads do not overlap, no job is left without a source row: no load inserts a job
\* that another observation of the same posting would insert again.
THEOREM NoOrphanJob ==
  ASSUME OneLoad
  PROVE  Spec => []JobsAreSourced
  <1>1. LoadInv => JobsAreSourced
    BY DEF LoadInv
  <1>2. QED
    BY <1>1, LoadAlways, PTL

\* While loads do not overlap, every job shows what one of its sources said last, beside
\* retention and purges and whatever was merged into it.
THEOREM JobsShowTheirSources ==
  ASSUME OneLoad
  PROVE  Spec => []JobsShowAReport
  <1>1. LoadInv => JobsShowAReport
    BY DEF LoadInv
  <1>2. QED
    BY <1>1, LoadAlways, PTL

\* Loading again what was loaded last changes nothing, for the jobs with one source.
LEMMA ReplayStep ==
  ASSUME LoadInv, NEW w \in Loaders, Replayed(w),
         \A k \in DOMAIN batch[w] : Alone(batch[w][k].id)
  PROVE  UNCHANGED tables
  <1>1. TypeOK /\ BatchesAreDistinct /\ ReadsAreFresh /\ JobsShowAReport /\ SourcesAreHeld
    BY DEF LoadInv, TablesInv
  <1>2. ASSUME NEW k \in DOMAIN batch[w] PROVE k \notin ToInsert(w) /\ k \notin Changed(w)
    <2> DEFINE i == batch[w][k].id
               e == existing[w][k]
    <2>1. i \in ExternalIds /\ sources[i] # Null /\ reported[i] = batch[w][k]
      BY <1>1, <1>2, PostingOfBatch DEF Replayed, Posting
    <2>2. e # Null
      BY <1>1, <1>2, <2>1 DEF ReadsAreFresh
    <2>3. sources[i] = e.job /\ Held(e.job) /\ jobs[e.job].content = e.content
      BY <1>1, <1>2, <2>1, <2>2 DEF ReadsAreFresh
    <2>4. e.job \in JobIds
      BY <1>1, <2>1, <2>3 DEF TypeOK
    <2>5. PICK h \in ExternalIds : sources[h] = e.job /\ reported[h].content = jobs[e.job].content
      BY <1>1, <2>3, <2>4 DEF JobsShowAReport
    <2>6. h = i
      BY <1>2, <2>3, <2>5 DEF Alone
    <2>7. batch[w][k].content = e.content
      BY <2>1, <2>3, <2>5, <2>6
    <2>8. QED
      BY <2>2, <2>7 DEF ToInsert, Changed
  <1>3. ToInsert(w) = {} /\ Changed(w) = {}
    BY <1>2 DEF ToInsert, Changed
  <1>4. Fresh(w) = {} /\ \A j \in JobIds : Updates(w, j) = {}
    BY <1>3 DEF Fresh, Updates
  <1>5. PICK new \in [Fresh(w) -> JobIds \ issued], last \in [JobIds -> DOMAIN batch[w]] :
          Write(w, new, last)
    BY DEF Replayed, Commit
  <1>6. jobs' = jobs
    BY <1>1, <1>4, <1>5 DEF Write, Created, TypeOK
  <1>7. issued' = issued
    BY <1>4, <1>5 DEF Write
  <1>8. sources' = sources
    BY <1>1, <1>3, <1>5 DEF Write, Bind, TypeOK
  <1>9. recorded' = recorded
    BY <1>1, <1>4, <1>5 DEF Write, Created, TypeOK
  <1>10. QED
    BY <1>6, <1>7, <1>8, <1>9 DEF tables

\* While loads do not overlap, re-running a file is a no-op for the jobs that have a single
\* source, whatever retention or the purge did meanwhile.
THEOREM ReplayNoOp ==
  ASSUME OneLoad
  PROVE  Spec => ReplayOfOwnJobsIsNoOp
  <1>1. ASSUME LoadInv
        PROVE  [\A w \in Loaders :
                  (\A k \in DOMAIN batch[w] : Alone(batch[w][k].id)) /\ Replayed(w) =>
                    UNCHANGED tables]_vars
    BY <1>1, ReplayStep
  <1>2. QED
    BY <1>1, LoadAlways, PTL DEF Spec, ReplayOfOwnJobsIsNoOp

-------------------------------------------------------------------------------
(* One step at the commit *)

\* What level 2 finds of a posting: a job under its URL, or that there is none, unless a later
\* posting has the same URL and was looked up in its place.
LEMMA UrlsFound ==
  ASSUME TypeOK, NEW w \in Loaders, MatchUrls(w), NEW k \in ToInsert(w), targets[w][k] = Null
  PROVE  LET c == batch[w][k].content
             t == targets'[w][k]
         IN  /\ t # Null => t \in JobIds /\ Held(t) /\ SameUrl(jobs[t].content, c)
             /\ t = Null => \A j \in JobIds : Held(j) /\ SameUrl(jobs[j].content, c) =>
                  \E l \in ToInsert(w) : l > k /\ SameUrl(batch[w][l].content, c)
  <1> DEFINE K == ToInsert(w)
             key == [l \in K |-> Url[batch[w][l].content]]
             Keyed == {l \in K : key[l] # Null}
             found == {j \in JobIds : Held(j) /\ Url[jobs[j].content] = key[k]}
  <1>1. PICK t \in [DOMAIN batch[w] -> JobIds \cup {Null}] :
          /\ \A l \in DOMAIN batch[w] :
               t[l] \in IF /\ l \in K /\ l \in DOMAIN ByUrl(batch[w], K)
                           /\ ByUrl(batch[w], K)[l] # {}
                        THEN ByUrl(batch[w], K)[l] ELSE {targets[w][l]}
          /\ targets' = [targets EXCEPT ![w] = t]
    BY DEF MatchUrls, Match
  <1>2. targets'[w] = t /\ k \in DOMAIN batch[w] /\ key[k] = Url[batch[w][k].content]
    BY <1>1 DEF TypeOK, ToInsert
  <1>3. CASE k \in LastOfKey(Keyed, key)
    <2>1. k \in DOMAIN ByUrl(batch[w], K) /\ ByUrl(batch[w], K)[k] = found /\ key[k] # Null
      BY <1>3 DEF ByUrl, LastOfKey
    <2>2. t[k] \in IF found # {} THEN found ELSE {Null}
      BY <1>1, <1>2, <2>1
    <2>3. QED
      BY <1>2, <2>1, <2>2, JobLoaderAssumption DEF SameUrl
  <1>4. CASE k \notin LastOfKey(Keyed, key)
    <2>1. k \notin DOMAIN ByUrl(batch[w], K)
      BY <1>4 DEF ByUrl
    <2>2. t[k] = Null
      BY <1>1, <1>2, <2>1
    <2>3. ASSUME NEW j \in JobIds, SameUrl(jobs[j].content, batch[w][k].content)
          PROVE  \E l \in K : l > k /\ SameUrl(batch[w][l].content, batch[w][k].content)
      <3>1. k \in Keyed
        BY <1>2, <2>3 DEF SameUrl
      <3>2. PICK l \in Keyed : l > k /\ key[l] = key[k]
        BY <1>4, <3>1 DEF LastOfKey
      <3>3. QED
        BY <1>2, <3>1, <3>2 DEF SameUrl
    <2>4. QED
      BY <1>2, <2>2, <2>3
  <1>5. QED
    BY <1>3, <1>4

\* What level 4 finds of a posting that level 2 left over, and that it leaves the others alone.
LEMMA TextsFound ==
  ASSUME TypeOK, NEW w \in Loaders, MatchFingerprints(w), NEW k \in ToInsert(w)
  PROVE  LET c == batch[w][k].content
             t == targets'[w][k]
         IN  /\ targets[w][k] # Null => t = targets[w][k]
             /\ targets[w][k] = Null =>
                  /\ t # Null => t \in JobIds /\ Held(t) /\ SameText(jobs[t].content, c)
                  /\ t = Null => \A j \in JobIds : Held(j) /\ SameText(jobs[j].content, c) =>
                       \E l \in ToInsert(w) : l > k /\ SameText(batch[w][l].content, c)
  <1> DEFINE K == Fresh(w)
             key == [l \in K |-> Fingerprint[batch[w][l].content]]
             found == {j \in JobIds : Held(j) /\ Fingerprint[jobs[j].content] = key[k]}
  <1>1. PICK t \in [DOMAIN batch[w] -> JobIds \cup {Null}] :
          /\ \A l \in DOMAIN batch[w] :
               t[l] \in IF /\ l \in K /\ l \in DOMAIN ByFingerprint(batch[w], K)
                           /\ ByFingerprint(batch[w], K)[l] # {}
                        THEN ByFingerprint(batch[w], K)[l] ELSE {targets[w][l]}
          /\ targets' = [targets EXCEPT ![w] = t]
    BY DEF MatchFingerprints, Match
  <1>2. targets'[w] = t /\ k \in DOMAIN batch[w]
    BY <1>1 DEF TypeOK, ToInsert
  <1>3. CASE targets[w][k] # Null
    <2>1. k \notin K
      BY <1>3 DEF Fresh
    <2>2. QED
      BY <1>1, <1>2, <1>3, <2>1
  <1>4. CASE targets[w][k] = Null /\ k \in LastOfKey(K, key)
    <2>1. /\ k \in DOMAIN ByFingerprint(batch[w], K) /\ ByFingerprint(batch[w], K)[k] = found
          /\ k \in K /\ key[k] = Fingerprint[batch[w][k].content]
      BY <1>4 DEF ByFingerprint, LastOfKey
    <2>2. t[k] \in IF found # {} THEN found ELSE {Null}
      BY <1>1, <1>2, <1>4, <2>1
    <2>3. QED
      BY <1>2, <1>4, <2>1, <2>2, JobLoaderAssumption DEF SameText
  <1>5. CASE targets[w][k] = Null /\ k \notin LastOfKey(K, key)
    <2>1. k \notin DOMAIN ByFingerprint(batch[w], K)
      BY <1>5 DEF ByFingerprint
    <2>2. t[k] = Null
      BY <1>1, <1>2, <1>5, <2>1
    <2>3. PICK l \in K : l > k /\ key[l] = key[k]
      BY <1>5 DEF LastOfKey, Fresh
    <2>4. k \in K /\ l \in ToInsert(w) /\ SameText(batch[w][l].content, batch[w][k].content)
      BY <1>5, <2>3 DEF Fresh, SameText
    <2>5. QED
      BY <1>2, <1>5, <2>2, <2>3, <2>4
  <1>6. QED
    BY <1>3, <1>4, <1>5

\* What was read stays true while jobs only vanish or change their status.
LEMMA MatchesOutlive ==
  ASSUME TypeOK, MatchesAreFresh, UNCHANGED <<pc, batch, existing, targets>>,
         \A j \in JobIds : jobs'[j] # Null => Held(j) /\ jobs'[j].content = jobs[j].content
  PROVE  MatchesAreFresh'
  <1>1. SUFFICES ASSUME NEW w \in Loaders, NEW k \in ToInsert(w)
                 PROVE  LET c == batch[w][k].content
                            t == targets[w][k]
                            Later == {l \in ToInsert(w) : l > k}
                        IN  /\ pc[w] = "level2" => t = Null
                            /\ t # Null /\ jobs'[t] # Null =>
                                 SameUrl(jobs'[t].content, c) \/ SameText(jobs'[t].content, c)
                            /\ t = Null => \A j \in JobIds : jobs'[j] # Null =>
                                 /\ pc[w] \in {"level4", "writing"} /\ SameUrl(jobs'[j].content, c) =>
                                      \E l \in Later : SameUrl(batch[w][l].content, c)
                                 /\ pc[w] = "writing" /\ SameText(jobs'[j].content, c) =>
                                      \E l \in Later : SameText(batch[w][l].content, c)
    BY DEF MatchesAreFresh, Held, ToInsert, SameUrl, SameText
  <1>2. targets[w][k] \in JobIds \cup {Null}
    BY DEF TypeOK, ToInsert
  <1>3. QED
    BY <1>2 DEF MatchesAreFresh

\* A load that is over expects nothing of the tables.
LEMMA DoneMatches ==
  ASSUME OneLoad, TypeOK, NEW w \in Loaders, Done(w)
  PROVE  MatchesAreFresh' /\ \A v \in Loaders : DOMAIN batch'[v] = {}
  <1>1. batch'[w] = <<>>
    BY DEF TypeOK, Done
  <1>2. <<>> = [k \in 1..0 |-> Null] /\ 1..0 = {}
    OBVIOUS
  <1>3. DOMAIN <<>> = {}
    BY <1>2
  <1>4. \A v \in Loaders : DOMAIN batch'[v] = {}
    BY <1>1, <1>3 DEF OneLoad
  <1>5. QED
    BY <1>4 DEF MatchesAreFresh, ToInsert

LEMMA InitBoard == Init => BoardInv
  <1>1. SUFFICES ASSUME Init PROVE BoardInv
    OBVIOUS
  <1>2. <<>> = [k \in 1..0 |-> Null] /\ 1..0 = {}
    OBVIOUS
  <1>3. DOMAIN <<>> = {}
    BY <1>2
  <1>4. \A w \in Loaders : DOMAIN batch[w] = {}
    BY <1>1, <1>3 DEF Init
  <1>5. QED
    BY <1>1, <1>4, InitLoad DEF Init, BoardInv, BoundWereReported, MatchesAreFresh, ToInsert

LEMMA NextReported == LoadInv /\ BoundWereReported /\ [Next]_vars => BoundWereReported'
  <1>1. SUFFICES ASSUME LoadInv, BoundWereReported, [Next]_vars PROVE BoundWereReported'
    OBVIOUS
  <1>2. TypeOK /\ BatchesAreDistinct /\ \A i \in ExternalIds : sources[i] # Null => reported[i] # Null
    BY <1>1 DEF LoadInv, TablesInv, BoundWereReported
  <1>3. \A w \in Loaders : \A k \in DOMAIN batch[w] :
          existing[w][k] # Null => reported[batch[w][k].id] # Null
    BY <1>1 DEF BoundWereReported
  <1>4. ASSUME NEW w \in Loaders, FindExisting(w) PROVE BoundWereReported'
    <2>1. PICK n \in 1..MaxBatch : \E b \in [1..n -> Posting] :
            /\ batch' = [batch EXCEPT ![w] = b]
            /\ existing' = [existing EXCEPT ![w] = [k \in 1..n |-> Existing(b[k].id)]]
      BY <1>4 DEF FindExisting
    <2>2. PICK b \in [1..n -> Posting] :
            /\ batch' = [batch EXCEPT ![w] = b]
            /\ existing' = [existing EXCEPT ![w] = [k \in 1..n |-> Existing(b[k].id)]]
      BY <2>1
    <2>3. /\ batch'[w] = b /\ existing'[w] = [k \in 1..n |-> Existing(b[k].id)] /\ DOMAIN b = 1..n
          /\ \A v \in Loaders \ {w} : batch'[v] = batch[v] /\ existing'[v] = existing[v]
      BY <1>2, <2>2 DEF TypeOK
    <2>4. \A k \in 1..n : b[k].id \in ExternalIds
      BY DEF Posting
    <2>5. \A k \in 1..n : Existing(b[k].id) # Null => reported[b[k].id] # Null
      BY <1>2, <2>4 DEF Existing
    <2>6. UNCHANGED <<sources, reported>>
      BY <1>4 DEF FindExisting, tables
    <2>7. ASSUME NEW v \in Loaders, NEW k \in DOMAIN batch'[v], existing'[v][k] # Null
          PROVE  reported'[batch'[v][k].id] # Null
      <3>1. CASE v = w
        BY <2>3, <2>5, <2>6, <2>7, <3>1
      <3>2. CASE v # w
        BY <1>3, <2>3, <2>6, <2>7, <3>2
      <3>3. QED
        BY <3>1, <3>2
    <2>8. QED
      BY <1>2, <2>6, <2>7 DEF BoundWereReported
  <1>5. ASSUME NEW w \in Loaders, Commit(w) PROVE BoundWereReported'
    <2>1. PICK new \in [Fresh(w) -> JobIds \ issued], last \in [JobIds -> DOMAIN batch[w]] :
            Write(w, new, last)
      BY <1>5 DEF Commit
    <2>2. \A k \in DOMAIN batch[w] : batch[w][k] # Null /\ batch[w][k].id \in ExternalIds
      <3>1. \A k \in DOMAIN batch[w] : batch[w][k] \in Posting
        BY <1>2, PostingOfBatch
      <3>2. QED
        BY <3>1, JobLoaderAssumption DEF Posting
    <2>3. /\ \A k \in DOMAIN batch[w] : reported'[batch[w][k].id] = batch[w][k]
          /\ \A i \in ExternalIds :
               (\A k \in DOMAIN batch[w] : batch[w][k].id # i) => reported'[i] = reported[i]
      BY <1>2, <2>1, Reported
    <2>4. \A i \in ExternalIds : reported[i] # Null => reported'[i] # Null
      BY <2>2, <2>3
    <2>5. \A i \in ExternalIds : sources'[i] # Null => reported'[i] # Null
      <3>1. ASSUME NEW i \in ExternalIds, sources'[i] # Null, sources[i] = Null
            PROVE  \E k \in DOMAIN batch[w] : batch[w][k].id = i
        BY <2>1, <3>1 DEF Write, Bind, ToInsert
      <3>2. QED
        BY <1>2, <2>2, <2>3, <2>4, <3>1
    <2>6. /\ batch'[w] = <<>>
          /\ \A v \in Loaders \ {w} : batch'[v] = batch[v] /\ existing'[v] = existing[v]
      BY <1>2, <1>5 DEF Commit, Done, TypeOK
    <2>7. ASSUME NEW v \in Loaders, NEW k \in DOMAIN batch'[v], existing'[v][k] # Null
          PROVE  reported'[batch'[v][k].id] # Null
      <3>1. v # w
        BY <2>6
      <3>2. batch[v][k].id \in ExternalIds
        BY <1>2, <2>6, <3>1, PostingOfBatch DEF Posting
      <3>3. QED
        BY <1>3, <2>4, <2>6, <2>7, <3>1, <3>2
    <2>8. QED
      BY <2>5, <2>7 DEF BoundWereReported
  <1>6. ASSUME NEW w \in Loaders, Abort(w) PROVE BoundWereReported'
    <2>1. /\ batch'[w] = <<>> /\ UNCHANGED <<sources, reported>>
          /\ \A v \in Loaders \ {w} : batch'[v] = batch[v] /\ existing'[v] = existing[v]
      BY <1>2, <1>6 DEF Abort, Done, TypeOK, tables
    <2>2. ASSUME NEW v \in Loaders, NEW k \in DOMAIN batch'[v], existing'[v][k] # Null
          PROVE  reported'[batch'[v][k].id] # Null
      <3>1. v # w
        BY <2>1
      <3>2. QED
        BY <1>3, <2>1, <2>2, <3>1
    <2>3. QED
      BY <1>2, <2>1, <2>2 DEF BoundWereReported
  <1>7. ASSUME NEW j \in JobIds, Expire(j) \/ Purge(j) PROVE BoundWereReported'
    BY <1>2, <1>3, <1>7 DEF Expire, Purge, BoundWereReported
  <1>8. CASE UNCHANGED <<sources, reported, batch, existing>>
    BY <1>2, <1>3, <1>8 DEF BoundWereReported
  <1>9. QED
    BY <1>1, <1>4, <1>5, <1>6, <1>7, <1>8 DEF Next, MatchUrls, MatchFingerprints, vars, tables

LEMMA NextMatches ==
  ASSUME OneLoad
  PROVE  LoadInv /\ MatchesAreFresh /\ [Next]_vars => MatchesAreFresh'
  <1>1. SUFFICES ASSUME LoadInv, MatchesAreFresh, [Next]_vars PROVE MatchesAreFresh'
    OBVIOUS
  <1>2. TypeOK /\ \A v, w \in Loaders : v = w
    BY <1>1 DEF LoadInv, TablesInv, OneLoad
  <1>3. ASSUME NEW w \in Loaders, FindExisting(w) PROVE MatchesAreFresh'
    <2>1. PICK n \in 1..MaxBatch : \E b \in [1..n -> Posting] :
            /\ batch' = [batch EXCEPT ![w] = b]
            /\ targets' = [targets EXCEPT ![w] = [k \in 1..n |-> Null]]
      BY <1>3 DEF FindExisting
    <2>2. \A k \in DOMAIN batch'[w] : targets'[w][k] = Null
      BY <1>2, <2>1 DEF TypeOK
    <2>3. pc'[w] = "level2"
      BY <1>2, <1>3 DEF FindExisting, TypeOK
    <2>4. QED
      BY <1>2, <2>2, <2>3 DEF MatchesAreFresh, ToInsert
  <1>4. ASSUME NEW w \in Loaders, MatchUrls(w) PROVE MatchesAreFresh'
    <2>1. pc[w] = "level2" /\ pc'[w] = "level4" /\ UNCHANGED <<jobs, batch, existing>>
      BY <1>2, <1>4 DEF MatchUrls, TypeOK, tables
    <2>2. \A k \in ToInsert(w) : targets[w][k] = Null
      BY <1>1, <2>1 DEF MatchesAreFresh
    <2>3. ASSUME NEW k \in ToInsert(w)
          PROVE  LET c == batch[w][k].content
                     t == targets'[w][k]
                 IN  /\ t # Null => t \in JobIds /\ Held(t) /\ SameUrl(jobs[t].content, c)
                     /\ t = Null => \A j \in JobIds : Held(j) /\ SameUrl(jobs[j].content, c) =>
                          \E l \in ToInsert(w) : l > k /\ SameUrl(batch[w][l].content, c)
      BY <1>2, <1>4, <2>2, UrlsFound
    <2>4. ToInsert(w)' = ToInsert(w)
      BY <2>1 DEF ToInsert
    <2>5. QED
      BY <1>2, <2>1, <2>3, <2>4 DEF MatchesAreFresh, Held, SameUrl, SameText
  <1>5. ASSUME NEW w \in Loaders, MatchFingerprints(w) PROVE MatchesAreFresh'
    <2>1. pc[w] = "level4" /\ pc'[w] = "writing" /\ UNCHANGED <<jobs, batch, existing>>
      BY <1>2, <1>5 DEF MatchFingerprints, TypeOK, tables
    <2>2. ASSUME NEW k \in ToInsert(w)
          PROVE  LET c == batch[w][k].content
                     t == targets'[w][k]
                 IN  /\ targets[w][k] # Null => t = targets[w][k]
                     /\ targets[w][k] = Null =>
                          /\ t # Null => t \in JobIds /\ Held(t) /\ SameText(jobs[t].content, c)
                          /\ t = Null => \A j \in JobIds : Held(j) /\ SameText(jobs[j].content, c) =>
                               \E l \in ToInsert(w) : l > k /\ SameText(batch[w][l].content, c)
      BY <1>2, <1>5, <2>2, TextsFound
    <2>3. ASSUME NEW k \in ToInsert(w)
          PROVE  LET c == batch[w][k].content
                     t == targets[w][k]
                 IN  /\ t # Null /\ Held(t) =>
                          SameUrl(jobs[t].content, c) \/ SameText(jobs[t].content, c)
                     /\ t = Null => \A j \in JobIds : Held(j) /\ SameUrl(jobs[j].content, c) =>
                          \E l \in ToInsert(w) : l > k /\ SameUrl(batch[w][l].content, c)
      BY <1>1, <2>1 DEF MatchesAreFresh
    <2>4. ToInsert(w)' = ToInsert(w)
      BY <2>1 DEF ToInsert
    <2>5. QED
      BY <1>2, <2>1, <2>2, <2>3, <2>4 DEF MatchesAreFresh, Held, SameUrl, SameText
  <1>6. ASSUME NEW w \in Loaders, Done(w) PROVE MatchesAreFresh'
    BY <1>2, <1>6, DoneMatches
  <1>7. ASSUME NEW j \in JobIds, Expire(j) \/ Purge(j) PROVE MatchesAreFresh'
    <2>1. \A i \in JobIds : jobs'[i] # Null => Held(i) /\ jobs'[i].content = jobs[i].content
      BY <1>2, <1>7 DEF Expire, Purge, Held, TypeOK, Row
    <2>2. UNCHANGED <<pc, batch, existing, targets>>
      BY <1>7 DEF Expire, Purge
    <2>3. QED
      BY <1>1, <1>2, <2>1, <2>2, MatchesOutlive
  <1>8. CASE UNCHANGED vars
    BY <1>1, <1>2, <1>8, MatchesOutlive DEF vars, tables, Held
  <1>9. QED
    BY <1>1, <1>3, <1>4, <1>5, <1>6, <1>7, <1>8 DEF Next, Commit, Abort

LEMMA BoardAlways ==
  ASSUME OneLoad
  PROVE  Spec => []BoardInv
  <1>1. BoardInv /\ [Next]_vars => BoardInv'
    BY NextLoad, NextReported, NextMatches DEF BoardInv
  <1>2. QED
    BY <1>1, InitBoard, PTL DEF Spec

\* Where a commit leaves the postings whose id is unbound.
LEMMA Places ==
  ASSUME BoardInv, NEW w \in Loaders, Commit(w),
         NEW new \in [Fresh(w) -> JobIds \ issued], NEW last, Write(w, new, last),
         NEW k \in DOMAIN batch[w], sources[batch[w][k].id] = Null
  PROVE  LET i == batch[w][k].id IN
         \/ k \notin ToInsert(w) /\ Purging /\ reported[i] # Null /\ sources'[i] = Null
         \/ /\ k \in Merges(w) /\ sources'[i] = targets[w][k]
            /\ targets[w][k] \in JobIds /\ Held(targets[w][k]) /\ targets[w][k] \in issued
         \/ k \in Fresh(w) /\ sources'[i] = new[k] /\ new[k] \in JobIds \ issued
  <1>1. TypeOK /\ BatchesAreDistinct /\ KnownStayBound /\ HeldAreIssued /\ BoundWereReported
    BY DEF BoardInv, LoadInv, TablesInv
  <1>2. batch[w][k].id \in ExternalIds
    BY <1>1, PostingOfBatch DEF Posting
  <1>3. CASE k \notin ToInsert(w)
    <2>1. existing[w][k] # Null
      BY <1>3 DEF ToInsert
    <2>2. Purging /\ reported[batch[w][k].id] # Null
      BY <1>1, <2>1 DEF KnownStayBound, BoundWereReported
    <2>3. ~\E l \in ToInsert(w) : batch[w][l].id = batch[w][k].id
      BY <1>1, <1>3 DEF BatchesAreDistinct, ToInsert
    <2>4. sources'[batch[w][k].id] = Null
      BY <1>2, <2>3 DEF Write, Bind
    <2>5. QED
      BY <1>3, <2>2, <2>4
  <1>4. CASE k \in ToInsert(w)
    <2>1. sources'[batch[w][k].id] = Target(w, new, k)
      BY <1>1, <1>4, Bound
    <2>2. CASE k \in Fresh(w)
      BY <2>1, <2>2 DEF Target
    <2>3. CASE k \notin Fresh(w)
      <3>1. k \in Merges(w) /\ targets[w][k] \in JobIds
        BY <1>1, <1>4, <2>3 DEF Merges, Fresh, TypeOK
      <3>2. Held(targets[w][k])
        BY <3>1 DEF Commit
      <3>3. QED
        BY <1>1, <2>1, <2>3, <3>1, <3>2 DEF Target, HeldAreIssued
    <2>4. QED
      BY <2>2, <2>3
  <1>5. QED
    BY <1>3, <1>4

\* A batch as its ids, in order.
Ids(w) == [k \in DOMAIN batch[w] |-> batch[w][k].id]

\* What a load updates a job with is what edits it at the commit.
LEMMA UpdatesAreEdits ==
  ASSUME BoardInv, NEW w \in Loaders, NEW j \in JobIds, NEW o, o = Ids(w),
         \A k \in DOMAIN batch[w] : reported'[o[k]] = batch[w][k]
  PROVE  Updates(w, j) = Board!Edits(o, j)
  <1>1. TypeOK /\ ReadsAreFresh
    BY DEF BoardInv, LoadInv, TablesInv
  <1>2. ASSUME NEW k \in DOMAIN batch[w]
        PROVE  k \in Updates(w, j) <=> sources[batch[w][k].id] = j /\ jobs[j].content # batch[w][k].content
    <2> DEFINE e == existing[w][k]
    <2>1. /\ e = Null => sources[batch[w][k].id] = Null
          /\ e # Null => /\ sources[batch[w][k].id] = IF Held(e.job) THEN e.job ELSE Null
                         /\ Held(e.job) => jobs[e.job].content = e.content
      BY <1>1 DEF ReadsAreFresh
    <2>2. j # Null
      BY JobLoaderAssumption
    <2>3. k \in Updates(w, j) <=> e # Null /\ e.content # batch[w][k].content /\ e.job = j /\ Held(j)
      BY DEF Updates, Changed, ToInsert
    <2> HIDE DEF e
    <2>4. QED
      BY <2>1, <2>2, <2>3
  <1>3. DOMAIN o = DOMAIN batch[w] /\ \A k \in DOMAIN batch[w] : o[k] = batch[w][k].id
    BY DEF Ids
  <1>4. QED
    BY <1>2, <1>3 DEF Board!Edits, Board!Content, Updates, Changed

\* A commit is the abstract load of its ids.
LEMMA CommitIsLoad ==
  ASSUME BoardInv, NEW w \in Loaders, Commit(w), NEW o, o = Ids(w)
  PROVE  Board!Load(o)
  <1> DEFINE b == batch[w]
  <1>1. /\ TypeOK /\ BatchesAreDistinct /\ HeldAreIssued /\ SourcesAreHeld /\ ReadsAreFresh
        /\ MatchesAreFresh
    BY DEF BoardInv, LoadInv, TablesInv
  <1>2. PICK new \in [Fresh(w) -> JobIds \ issued], last \in [JobIds -> DOMAIN batch[w]] :
          /\ \A k, l \in Fresh(w) : new[k] = new[l] => k = l
          /\ \A j \in JobIds :
               IF Updates(w, j) = {} THEN last[j] = 1
               ELSE last[j] \in Updates(w, j) /\ \A k \in Updates(w, j) : k <= last[j]
          /\ Write(w, new, last)
    BY DEF Commit
  <1>3. /\ jobs' \in [JobIds -> Row \cup {Null}]
        /\ sources' \in [ExternalIds -> JobIds \cup {Null}]
        /\ reported' \in [ExternalIds -> Posting \cup {Null}]
    BY <1>1, <1>2, WriteType
  <1>4. \A k \in DOMAIN b : /\ b[k] \in Posting /\ b[k] # Null /\ b[k].id \in ExternalIds
                            /\ k \in Nat
    <2>1. \A k \in DOMAIN b : b[k] \in Posting /\ k \in Nat
      BY <1>1, PostingOfBatch, BatchDomain DEF TypeOK
    <2>2. QED
      BY <2>1, JobLoaderAssumption DEF Posting
  <1>5. DOMAIN o = DOMAIN b /\ \A k \in DOMAIN b : o[k] = b[k].id
    BY DEF Ids
  <1>6. /\ \A k \in DOMAIN b : reported'[o[k]] = b[k] /\ Board!Content(o, k) = b[k].content
        /\ \A i \in ExternalIds : (\A k \in DOMAIN o : o[k] # i) => reported'[i] = reported[i]
    <2>1. /\ \A k \in DOMAIN b : reported'[b[k].id] = b[k]
          /\ \A i \in ExternalIds : (\A k \in DOMAIN b : b[k].id # i) => reported'[i] = reported[i]
      BY <1>1, <1>2, Reported
    <2>2. QED
      BY <1>5, <2>1 DEF Board!Content
  <1>7. ToInsert(w) \subseteq Board!New(o) /\ Board!New(o) \subseteq DOMAIN b
    BY <1>1, <1>5 DEF ReadsAreFresh, ToInsert, Board!New
  <1>8. \A i \in ExternalIds :
          sources[i] # Null \/ (\A k \in DOMAIN o : o[k] # i) => sources'[i] = sources[i]
    BY <1>2, <1>5 DEF Write, Bind, ToInsert
  <1>9. ASSUME NEW k \in Board!New(o)
        PROVE  \/ k \notin ToInsert(w) /\ Purging /\ reported[o[k]] # Null /\ Board!Place(o, k) = Null
               \/ /\ k \in Merges(w) /\ Board!Place(o, k) = targets[w][k]
                  /\ targets[w][k] \in JobIds /\ Held(targets[w][k]) /\ targets[w][k] \in issued
               \/ k \in Fresh(w) /\ Board!Place(o, k) = new[k] /\ new[k] \in JobIds \ issued
    <2>1. k \in DOMAIN b /\ o[k] = b[k].id /\ sources[b[k].id] = Null
      BY <1>5, <1>9 DEF Board!New
    <2>2. Board!Place(o, k) = sources'[b[k].id]
      BY <2>1 DEF Board!Place
    <2>3. QED
      BY <1>2, <2>1, <2>2, Places
  <1>10. \A k \in Fresh(w) : k \in Board!New(o) /\ Board!Place(o, k) = new[k] /\ new[k] # Null
    <2>1. ASSUME NEW k \in Fresh(w)
          PROVE  k \in ToInsert(w) /\ k \notin Merges(w) /\ new[k] # Null
      BY <2>1, JobLoaderAssumption DEF Fresh, Merges
    <2>2. QED
      BY <1>7, <1>9, <2>1
  <1>11. ASSUME NEW k \in Board!New(o)
         PROVE  Board!Lost(o, k) \/ Board!Joins(o, k) \/ Board!Becomes(o, k)
    <2>1. k \in DOMAIN b /\ Board!Content(o, k) = b[k].content
      BY <1>6, <1>7
    <2>2. CASE k \notin ToInsert(w) /\ Purging /\ reported[o[k]] # Null /\ Board!Place(o, k) = Null
      BY <2>2 DEF Board!Lost
    <2>3. CASE /\ k \in Merges(w) /\ Board!Place(o, k) = targets[w][k]
               /\ targets[w][k] \in JobIds /\ Held(targets[w][k])
      <3>1. LET shown == jobs[targets[w][k]].content
            IN  SameUrl(shown, b[k].content) \/ SameText(shown, b[k].content)
        BY <1>1, <2>3, JobLoaderAssumption DEF MatchesAreFresh, Merges
      <3>2. QED
        BY <2>1, <2>3, <3>1
        DEF Board!Joins, Board!Held, Held, Board!SameUrl, Board!SameText, SameUrl, SameText
    <2>4. CASE k \in Fresh(w) /\ Board!Place(o, k) = new[k] /\ new[k] \in JobIds \ issued
      <3>1. k \in ToInsert(w) /\ targets[w][k] = Null /\ pc[w] = "writing"
        BY <2>4 DEF Fresh, Commit
      <3>2. ASSUME NEW l \in Board!New(o), Board!Place(o, l) = Board!Place(o, k)
            PROVE  l = k
        <4>1. l \in Fresh(w) /\ Board!Place(o, l) = new[l]
          BY <1>9, <1>10, <2>4, <3>2
        <4>2. QED
          BY <1>2, <2>4, <3>2, <4>1
      <3>3. ASSUME NEW j \in JobIds, Held(j)
            PROVE  /\ SameUrl(jobs[j].content, b[k].content) =>
                        \E l \in ToInsert(w) : l > k /\ SameUrl(b[l].content, b[k].content)
                   /\ SameText(jobs[j].content, b[k].content) =>
                        \E l \in ToInsert(w) : l > k /\ SameText(b[l].content, b[k].content)
        BY <1>1, <3>1, <3>3 DEF MatchesAreFresh
      <3>4. \A l \in ToInsert(w) : l \in Board!New(o) /\ Board!Content(o, l) = b[l].content
        BY <1>6, <1>7
      <3>5. QED
        BY <2>1, <2>4, <3>2, <3>3, <3>4
        DEF Board!Becomes, Board!Held, Held, Board!SameUrl, Board!SameText, SameUrl, SameText
    <2>5. QED
      BY <1>9, <2>2, <2>3, <2>4
  <1>12. issued' = issued \cup {Board!Place(o, k) : k \in {k \in Board!New(o) : Board!Place(o, k) # Null}}
    <2>1. issued' = issued \cup {new[k] : k \in Fresh(w)}
      BY <1>2 DEF Write
    <2>2. \A k \in Board!New(o) : Board!Place(o, k) # Null =>
            Board!Place(o, k) \in issued \/ \E l \in Fresh(w) : Board!Place(o, k) = new[l]
      BY <1>9
    <2>3. QED
      BY <1>10, <2>1, <2>2
  <1>13. ASSUME NEW j \in JobIds
         PROVE  IF Board!Says(o, j) = {} THEN jobs'[j] = jobs[j]
                ELSE Board!ShowsLast(o, Board!Says(o, j), j)
    <2>1. \A k \in DOMAIN b :
            Shown(w, k) = [content |-> Board!Content(o, k), status |-> reported'[o[k]].status]
      BY <1>6 DEF Shown
    <2>2. CASE j \in issued
      <3>1. Board!Says(o, j) = Updates(w, j)
        BY <1>6, <2>2, UpdatesAreEdits DEF Board!Says
      <3>2. ~Created(w, new, j)
        BY <2>2 DEF Created
      <3>3. jobs'[j] = IF Updates(w, j) # {} THEN Shown(w, last[j]) ELSE jobs[j]
        BY <1>2, <3>2 DEF Write
      <3>4. Updates(w, j) # {} => last[j] \in Updates(w, j) /\ \A l \in Updates(w, j) : l <= last[j]
        BY <1>2
      <3>5. QED
        BY <2>1, <3>1, <3>3, <3>4 DEF Board!ShowsLast
    <2>3. CASE j \notin issued
      <3>1. Updates(w, j) = {}
        BY <1>1, <2>3 DEF Updates, HeldAreIssued
      <3>2. Board!Says(o, j) = {k \in Fresh(w) : new[k] = j}
        <4>1. Board!Says(o, j) = {k \in Board!New(o) : Board!Place(o, k) = j}
          BY <2>3 DEF Board!Says
        <4>2. \A k \in Board!New(o) : Board!Place(o, k) = j => k \in Fresh(w)
          BY <1>9, <2>3, JobLoaderAssumption
        <4>3. QED
          BY <1>10, <4>1, <4>2
      <3>3. CASE Created(w, new, j)
        <4>1. PICK k \in Fresh(w) : new[k] = j
          BY <3>3 DEF Created
        <4>2. \A l \in Fresh(w) : new[l] = j => l = k
          BY <1>2, <4>1
        <4>3. (CHOOSE l \in Fresh(w) : new[l] = j) = k
          BY <4>1, <4>2
        <4>4. k \in DOMAIN b /\ k <= k
          BY <1>4 DEF Fresh, ToInsert
        <4>5. jobs'[j] = [content |-> Board!Content(o, k), status |-> reported'[o[k]].status]
          BY <1>2, <2>1, <3>3, <4>3, <4>4 DEF Write
        <4>6. Board!Says(o, j) = {k}
          <5>1. {l \in Fresh(w) : new[l] = j} = {k}
            BY <4>1, <4>2
          <5>2. QED
            BY <3>2, <5>1
        <4>7. QED
          BY <4>4, <4>5, <4>6 DEF Board!ShowsLast
      <3>4. CASE ~Created(w, new, j)
        <4>1. Board!Says(o, j) = {}
          BY <3>2, <3>4 DEF Created
        <4>2. jobs'[j] = jobs[j]
          BY <1>2, <3>1, <3>4 DEF Write
        <4>3. QED
          BY <4>1, <4>2
      <3>5. QED
        BY <3>3, <3>4
    <2>4. QED
      BY <2>2, <2>3
  <1>14. \A k \in DOMAIN o : reported'[o[k]] # Null /\ reported'[o[k]].id = o[k]
    BY <1>4, <1>5, <1>6
  <1>15. QED
    BY <1>3, <1>6, <1>8, <1>11, <1>12, <1>13, <1>14
    DEF Board!Load, Board!Row, Board!Posting, Board!Status, Row, Posting

\* While loads do not overlap, a load has the effect of one step at its commit: each of its
\* postings edits, joins or becomes a job as the board stands at that moment, and the
\* retention and the purge that ran since its reads make no other difference.
THEOREM BoardRefinement ==
  ASSUME OneLoad
  PROVE  Spec => ImplementsBoard
  <1>1. Init => Board!BoardInit
    BY DEF Init, Board!BoardInit
  <1>2. ASSUME BoardInv, [Next]_vars
        PROVE  [Board!BoardNext]_(Board!boardVars)
    <2>1. TypeOK /\ BatchesAreDistinct
      BY <1>2 DEF BoardInv, LoadInv, TablesInv
    <2>2. ASSUME NEW w \in Loaders, Commit(w) PROVE Board!BoardNext
      <3>1. PICK o : o = Ids(w)
        OBVIOUS
      <3>2. Board!Load(o)
        BY <1>2, <2>2, <3>1, CommitIsLoad
      <3>3. PICK n \in 0..MaxBatch : batch[w] \in [1..n -> Posting] /\ DOMAIN batch[w] = 1..n
        BY <2>1, BatchDomain DEF TypeOK
      <3>4. o \in [1..n -> ExternalIds]
        BY <3>1, <3>3 DEF Ids, Posting
      <3>5. \A k, l \in 1..n : o[k] = o[l] => k = l
        BY <2>1, <3>1, <3>3 DEF BatchesAreDistinct, Ids
      <3>6. QED
        BY <3>2, <3>4, <3>5 DEF Board!BoardNext
    <2>3. ASSUME NEW j \in JobIds, Expire(j) PROVE Board!BoardNext
      BY <2>3 DEF Expire, Board!BoardNext, Board!Expire, Board!Held, Held
    <2>4. ASSUME NEW j \in JobIds, Purge(j) PROVE Board!BoardNext
      BY <2>4 DEF Purge, Board!BoardNext, Board!Purge, Board!Held, Held
    <2>5. CASE UNCHANGED <<tables, reported>>
      BY <2>5 DEF tables, Board!boardVars
    <2>6. QED
      BY <1>2, <2>2, <2>3, <2>4, <2>5
      DEF Next, FindExisting, MatchUrls, MatchFingerprints, Abort, vars
  <1>3. QED
    BY <1>1, <1>2, BoardAlways, PTL DEF Spec, ImplementsBoard, Board!BoardSpec
===============================================================================
