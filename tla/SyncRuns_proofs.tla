---------------------------- MODULE SyncRuns_proofs ----------------------------
(***************************************************************************)
(* Theorems of SyncRuns, for every number of processes, files, batches,    *)
(* revisions and runs.                                                     *)
(***************************************************************************)
EXTENDS SyncRuns, TLAPS

TypedOK == TypeOK /\ ProcessesOK

\* A typed row keeps sync_files typed.
LEMMA RowUpdate ==
  ASSUME NEW f \in [RunId -> [Paths -> FileRow]], NEW r \in RunId, NEW p \in Paths,
         NEW x \in FileRow
  PROVE  [f EXCEPT ![r][p] = x] \in [RunId -> [Paths -> FileRow]]
  OBVIOUS

\* An update changes one row.
LEMMA RowAt ==
  ASSUME NEW f \in [RunId -> [Paths -> FileRow]], NEW r \in RunId, NEW p \in Paths, NEW x,
         NEW g, g = [f EXCEPT ![r][p] = x]
  PROVE  /\ g[r][p] = x
         /\ \A s \in RunId, q \in Paths : s # r \/ q # p => g[s][q] = f[s][q]
  OBVIOUS

LEMMA RowTyped ==
  ASSUME NEW f \in [RunId -> [Paths -> FileRow]], NEW r \in RunId, NEW p \in Paths
  PROVE  f[r][p] \in FileRow
  OBVIOUS

\* The updates of a row that checkpoint_file and finish_file make.
LEMMA RowChange ==
  ASSUME NEW x \in FileRow, NEW c \in Nat, NEW t \in {"RUNNING", "SUCCEEDED", "FAILED"}
  PROVE  /\ [x EXCEPT !.claimed = c] \in FileRow
         /\ [x EXCEPT !.status = t, !.claimed = c] \in FileRow
  BY DEF FileRow

\* A process that is gone has nothing left to be wrong.
LEMMA ExitIsOK ==
  ASSUME TypeOK, ProcessesOK, NEW w \in Workers, Exit(w), UNCHANGED remote
  PROVE  ProcessesOK'
<1>1. ASSUME NEW v \in Workers, v # w PROVE ProcessOK(v)'
  BY <1>1 DEF TypeOK, ProcessesOK, ProcessOK, Exit, Live, InRun
<1>2. ProcessOK(w)'
  <2>1. pc'[w] = "idle" /\ todo'[w] = {} /\ \A p \in Paths : listing'[w][p] = 0
    BY DEF TypeOK, Exit, Nothing
  <2>2. \A p \in Paths : remote'[p] >= 0
    BY SyncRunsAssumption DEF TypeOK
  <2>3. QED
    BY <2>1, <2>2 DEF ProcessOK, Live, InRun
<1>3. QED
  BY <1>1, <1>2 DEF ProcessesOK

LEMMA Typed == Spec => []TypedOK
<1> USE SyncRunsAssumption DEF Live, InRun
<1>1. Init => TypedOK
  BY DEF Init, TypedOK, TypeOK, ProcessesOK, ProcessOK, RunId, Revision, FileRow, NoFileRow, Content, Nothing
<1>2. TypedOK /\ [Next]_vars => TypeOK'
  <2> SUFFICES ASSUME TypeOK, ProcessesOK, [Next]_vars PROVE TypeOK'
    BY DEF TypedOK
  <2> USE DEF RunId, Active, Terminal, Nothing, TypeOK, database, local
  <2>1. ASSUME NEW p \in Paths, Publish(p) PROVE TypeOK'
    BY <2>1 DEF Publish
  <2>2. ASSUME NEW r \in RunId, Age(r) PROVE TypeOK'
    BY <2>2 DEF Age
  <2>3. CASE ReclaimOnly
    BY <2>3 DEF ReclaimOnly, Reclaimed
  <2>4. ASSUME NEW w \in Workers, Invoke(w) PROVE TypeOK'
    BY <2>4 DEF Invoke, Reclaimed
  <2>5. ASSUME NEW w \in Workers, StartRun(w) PROVE TypeOK'
    BY <2>5 DEF StartRun
  <2>6. ASSUME NEW w \in Workers, StartRefused(w) PROVE TypeOK'
    BY <2>6 DEF StartRefused
  <2>7. ASSUME NEW w \in Workers, Discover(w) PROVE TypeOK'
    BY <2>7 DEF Discover
  <2>8. ASSUME NEW w \in Workers, Plan(w) PROVE TypeOK'
    BY <2>8 DEF Plan, Newest, Pending
  <2>9. ASSUME NEW w \in Workers, StartFile(w) PROVE TypeOK'
    <3> SUFFICES ASSUME NEW p \in todo[w],
                        file' = [file EXCEPT ![w] = p],
                        todo' = [todo EXCEPT ![w] = @ \ {p}],
                        syncFiles' = [syncFiles EXCEPT ![run[w]][p] =
                          [status |-> "RUNNING", etag |-> listing[w][p], claimed |-> 0]]
                 PROVE  TypeOK'
      BY <2>9 DEF StartFile
    <3>1. run[w] \in RunId /\ p \in Paths
      BY <2>9 DEF StartFile, ProcessesOK, ProcessOK
    <3>2. [status |-> "RUNNING", etag |-> listing[w][p], claimed |-> 0] \in FileRow
      BY <3>1 DEF FileRow
    <3>3. syncFiles' \in [RunId -> [Paths -> FileRow]]
      BY <3>1, <3>2, RowUpdate
    <3>4. QED
      BY <2>9, <3>1, <3>3 DEF StartFile
  <2>10. ASSUME NEW w \in Workers, OpenFile(w) PROVE TypeOK'
    BY <2>10 DEF OpenFile, ProcessesOK, ProcessOK
  <2>11. ASSUME NEW w \in Workers, LoadBatch(w) PROVE TypeOK'
    <3>1. /\ run[w] \in RunId /\ file[w] \in Paths
          /\ rev[w] \in Revision /\ committed[w] + 1 \in 1..Batches
      BY <2>11 DEF LoadBatch, ProcessesOK, ProcessOK, Revision
    <3>2. [syncFiles[run[w]][file[w]] EXCEPT !.claimed = committed[w] + 1] \in FileRow
      <4>1. syncFiles[run[w]][file[w]] \in FileRow
        BY <3>1, RowTyped
      <4>2. committed[w] \in Nat /\ committed[w] + 1 \in Nat
        OBVIOUS
      <4>3. QED
        BY <4>1, <4>2, RowChange
    <3>3. syncFiles' \in [RunId -> [Paths -> FileRow]]
      BY <2>11, <3>1, <3>2, RowUpdate DEF LoadBatch
    <3>4. loaded' \subseteq Content
      BY <2>11, <3>1 DEF LoadBatch, Content
    <3>5. QED
      BY <2>11, <3>3, <3>4 DEF LoadBatch
  <2>12. ASSUME NEW w \in Workers, FinishFile(w) PROVE TypeOK'
    <3>1. run[w] \in RunId /\ file[w] \in Paths
      BY <2>12 DEF FinishFile, ProcessesOK, ProcessOK
    <3>2. [syncFiles[run[w]][file[w]] EXCEPT !.status = "SUCCEEDED", !.claimed = committed[w]]
            \in FileRow
      <4>1. syncFiles[run[w]][file[w]] \in FileRow
        BY <3>1, RowTyped
      <4>2. committed[w] \in Nat /\ committed[w] + 1 \in Nat
        OBVIOUS
      <4>3. QED
        BY <4>1, <4>2, RowChange
    <3>3. syncFiles' \in [RunId -> [Paths -> FileRow]]
      BY <2>12, <3>1, <3>2, RowUpdate DEF FinishFile
    <3>4. QED
      BY <2>12, <3>3 DEF FinishFile
  <2>13. ASSUME NEW w \in Workers, FinishFileConflict(w) PROVE TypeOK'
    BY <2>13 DEF FinishFileConflict
  <2>14. ASSUME NEW w \in Workers, FailFile(w) PROVE TypeOK'
    <3>1. run[w] \in RunId /\ file[w] \in Paths
      BY <2>14 DEF FailFile, ProcessesOK, ProcessOK
    <3>2. [syncFiles[run[w]][file[w]] EXCEPT !.status = "FAILED", !.claimed = committed[w]]
            \in FileRow
      <4>1. syncFiles[run[w]][file[w]] \in FileRow
        BY <3>1, RowTyped
      <4>2. committed[w] \in Nat /\ committed[w] + 1 \in Nat
        OBVIOUS
      <4>3. QED
        BY <4>1, <4>2, RowChange
    <3>3. syncFiles' \in [RunId -> [Paths -> FileRow]]
      BY <2>14, <3>1, <3>2, RowUpdate DEF FailFile
    <3>4. QED
      BY <2>14, <3>3 DEF FailFile
  <2>15. ASSUME NEW w \in Workers, RunDone(w) PROVE TypeOK'
    BY <2>15 DEF RunDone
  <2>16. ASSUME NEW w \in Workers, FinishRun(w) PROVE TypeOK'
    <3>1. syncRuns' \in [RunId -> {"NONE"} \cup Active \cup Terminal]
      BY <2>16 DEF FinishRun
    <3>2. UNCHANGED <<remote, old, syncFiles, loaded>> /\ Exit(w)
      BY <2>16 DEF FinishRun
    <3>3. QED
      BY <3>1, <3>2, SMTT(30) DEF Exit
  <2>17. ASSUME NEW w \in Workers, FinishRunConflict(w) PROVE TypeOK'
    BY <2>17 DEF FinishRunConflict, Exit
  <2>18. ASSUME NEW w \in Workers, LoadFails(w) PROVE TypeOK'
    BY <2>18, SMTT(30) DEF LoadFails
  <2>19. ASSUME NEW w \in Workers, FetchFails(w) PROVE TypeOK'
    BY <2>19 DEF FetchFails
  <2>20. ASSUME NEW w \in Workers, RunFails(w) PROVE TypeOK'
    BY <2>20 DEF RunFails
  <2>21. ASSUME NEW w \in Workers, Interrupt(w) PROVE TypeOK'
    BY <2>21 DEF Interrupt
  <2>22. ASSUME NEW w \in Workers, Crash(w) PROVE TypeOK'
    BY <2>22 DEF Crash, Exit
  <2>23. CASE UNCHANGED vars
    BY <2>23 DEF vars
  <2>24. QED
    BY <2>1, <2>2, <2>3, <2>4, <2>5, <2>6, <2>7, <2>8, <2>9, <2>10, <2>11, <2>12, <2>13, <2>14, <2>15, <2>16, <2>17, <2>18, <2>19, <2>20, <2>21, <2>22, <2>23 DEF Next, Work, Fault
<1>3. TypedOK /\ [Next]_vars => ProcessesOK'
  <2> SUFFICES ASSUME TypeOK, ProcessesOK, [Next]_vars PROVE ProcessesOK'
    BY DEF TypedOK
  <2> USE DEF ProcessesOK, ProcessOK, TypeOK, database, local
  <2>1. ASSUME NEW p \in Paths, Publish(p) PROVE ProcessesOK'
    BY <2>1 DEF Publish
  <2>2. ASSUME NEW r \in RunId, Age(r) PROVE ProcessesOK'
    BY <2>2 DEF Age
  <2>3. CASE ReclaimOnly
    BY <2>3 DEF ReclaimOnly, Reclaimed
  <2>4. ASSUME NEW w \in Workers, Invoke(w) PROVE ProcessesOK'
    BY <2>4 DEF Invoke, Reclaimed
  <2>5. ASSUME NEW w \in Workers, StartRun(w) PROVE ProcessesOK'
    BY <2>5 DEF StartRun
  <2>6. ASSUME NEW w \in Workers, StartRefused(w) PROVE ProcessesOK'
    BY <2>6 DEF StartRefused
  <2>7. ASSUME NEW w \in Workers, Discover(w) PROVE ProcessesOK'
    BY <2>7 DEF Discover
  <2>8. ASSUME NEW w \in Workers, Plan(w) PROVE ProcessesOK'
    BY <2>8 DEF Plan, Newest, Pending
  <2>9. ASSUME NEW w \in Workers, StartFile(w) PROVE ProcessesOK'
    BY <2>9 DEF StartFile
  <2>10. ASSUME NEW w \in Workers, OpenFile(w) PROVE ProcessesOK'
    <3>1. \A v \in Workers : v # w => ProcessOK(v)'
      BY <2>10 DEF OpenFile
    <3>2. ProcessOK(w)'
      <4>1. pc[w] = "opening" /\ pc'[w] = "loading"
        BY <2>10 DEF OpenFile
      <4>2. file'[w] = file[w] /\ listing' = listing /\ todo' = todo /\ run' = run /\ remote' = remote
        BY <2>10 DEF OpenFile
      <4>3. rev'[w] = remote[file[w]] /\ committed'[w] = 0
        BY <2>10 DEF OpenFile
      <4>4. file[w] \in Paths /\ run[w] \in RunId
        BY <4>1
      <4>5. \A p \in Paths : listing'[w][p] <= remote'[p]
        BY <4>2
      <4>6. \A p \in todo'[w] : listing'[w][p] > 0
        BY <4>1, <4>2
      <4>7. file'[w] \in Paths /\ listing'[w][file'[w]] > 0
        BY <4>1, <4>2
      <4>8. listing'[w][file'[w]] <= rev'[w]
        BY <4>2, <4>3, <4>4, <4>5
      <4>9. committed'[w] <= Batches
        BY <4>3, SyncRunsAssumption
      <4>10. QED
        BY <4>1, <4>2, <4>4, <4>5, <4>6, <4>7, <4>8, <4>9
    <3>3. QED
      BY <3>1, <3>2
  <2>11. ASSUME NEW w \in Workers, LoadBatch(w) PROVE ProcessesOK'
    BY <2>11 DEF LoadBatch
  <2>12. ASSUME NEW w \in Workers, FinishFile(w) PROVE ProcessesOK'
    BY <2>12 DEF FinishFile
  <2>13. ASSUME NEW w \in Workers, FinishFileConflict(w) PROVE ProcessesOK'
    BY <2>13 DEF FinishFileConflict
  <2>14. ASSUME NEW w \in Workers, FailFile(w) PROVE ProcessesOK'
    BY <2>14 DEF FailFile
  <2>15. ASSUME NEW w \in Workers, RunDone(w) PROVE ProcessesOK'
    BY <2>15 DEF RunDone
  <2>16. ASSUME NEW w \in Workers, FinishRun(w) PROVE ProcessesOK'
    <3>1. UNCHANGED remote /\ Exit(w)
      BY <2>16 DEF FinishRun
    <3>2. QED
      BY <3>1, ExitIsOK
  <2>17. ASSUME NEW w \in Workers, FinishRunConflict(w) PROVE ProcessesOK'
    <3>1. UNCHANGED remote /\ Exit(w)
      BY <2>17 DEF FinishRunConflict
    <3>2. QED
      BY <3>1, ExitIsOK
  <2>18. ASSUME NEW w \in Workers, LoadFails(w) PROVE ProcessesOK'
    BY <2>18 DEF LoadFails
  <2>19. ASSUME NEW w \in Workers, FetchFails(w) PROVE ProcessesOK'
    BY <2>19 DEF FetchFails
  <2>20. ASSUME NEW w \in Workers, RunFails(w) PROVE ProcessesOK'
    BY <2>20 DEF RunFails
  <2>21. ASSUME NEW w \in Workers, Interrupt(w) PROVE ProcessesOK'
    BY <2>21 DEF Interrupt
  <2>22. ASSUME NEW w \in Workers, Crash(w) PROVE ProcessesOK'
    <3>1. UNCHANGED remote /\ Exit(w)
      BY <2>22 DEF Crash
    <3>2. QED
      BY <3>1, ExitIsOK
  <2>23. CASE UNCHANGED vars
    BY <2>23 DEF vars
  <2>24. QED
    BY <2>1, <2>2, <2>3, <2>4, <2>5, <2>6, <2>7, <2>8, <2>9, <2>10, <2>11, <2>12, <2>13, <2>14, <2>15, <2>16, <2>17, <2>18, <2>19, <2>20, <2>21, <2>22, <2>23 DEF Next, Work, Fault
<1>4. QED
  BY <1>1, <1>2, <1>3, PTL DEF Spec, TypedOK

\* Every variable keeps its type, in every interleaving of any number of processes.
THEOREM TypeCorrect == Spec => []TypeOK
<1>1. TypedOK => TypeOK
  BY DEF TypedOK
<1>2. QED
  BY <1>1, Typed, PTL

-------------------------------------------------------------------------------
\* Run ids are not shared.
LEMMA Owned == Spec => []RunsAreOwned
<1> USE SyncRunsAssumption DEF RunsAreOwned, Live, InRun
<1>1. Init => RunsAreOwned
  BY DEF Init
<1>2. TypedOK /\ RunsAreOwned /\ [Next]_vars => RunsAreOwned'
  <2> SUFFICES ASSUME TypeOK, ProcessesOK, RunsAreOwned, [Next]_vars PROVE RunsAreOwned'
    BY DEF TypedOK
  <2> USE DEF TypeOK, ProcessesOK, ProcessOK, database, local
  <2>1. ASSUME NEW p \in Paths, Publish(p) PROVE RunsAreOwned'
    BY <2>1 DEF Publish
  <2>2. ASSUME NEW r \in RunId, Age(r) PROVE RunsAreOwned'
    BY <2>2 DEF Age
  <2>3. CASE ReclaimOnly
    BY <2>3 DEF ReclaimOnly, Reclaimed
  <2>4. ASSUME NEW w \in Workers, Invoke(w) PROVE RunsAreOwned'
    BY <2>4 DEF Invoke, Reclaimed
  <2>5. ASSUME NEW w \in Workers, StartRun(w) PROVE RunsAreOwned'
    BY <2>5 DEF StartRun
  <2>6. ASSUME NEW w \in Workers, StartRefused(w) PROVE RunsAreOwned'
    BY <2>6 DEF StartRefused
  <2>7. ASSUME NEW w \in Workers, Discover(w) PROVE RunsAreOwned'
    BY <2>7 DEF Discover
  <2>8. ASSUME NEW w \in Workers, Plan(w) PROVE RunsAreOwned'
    BY <2>8 DEF Plan, Newest, Pending
  <2>9. ASSUME NEW w \in Workers, StartFile(w) PROVE RunsAreOwned'
    BY <2>9 DEF StartFile
  <2>10. ASSUME NEW w \in Workers, OpenFile(w) PROVE RunsAreOwned'
    BY <2>10 DEF OpenFile
  <2>11. ASSUME NEW w \in Workers, LoadBatch(w) PROVE RunsAreOwned'
    BY <2>11 DEF LoadBatch
  <2>12. ASSUME NEW w \in Workers, FinishFile(w) PROVE RunsAreOwned'
    BY <2>12 DEF FinishFile
  <2>13. ASSUME NEW w \in Workers, FinishFileConflict(w) PROVE RunsAreOwned'
    BY <2>13 DEF FinishFileConflict
  <2>14. ASSUME NEW w \in Workers, FailFile(w) PROVE RunsAreOwned'
    BY <2>14 DEF FailFile
  <2>15. ASSUME NEW w \in Workers, RunDone(w) PROVE RunsAreOwned'
    BY <2>15 DEF RunDone
  <2>16. ASSUME NEW w \in Workers, FinishRun(w) PROVE RunsAreOwned'
    BY <2>16 DEF FinishRun, Exit
  <2>17. ASSUME NEW w \in Workers, FinishRunConflict(w) PROVE RunsAreOwned'
    BY <2>17 DEF FinishRunConflict, Exit
  <2>18. ASSUME NEW w \in Workers, LoadFails(w) PROVE RunsAreOwned'
    BY <2>18 DEF LoadFails
  <2>19. ASSUME NEW w \in Workers, FetchFails(w) PROVE RunsAreOwned'
    BY <2>19 DEF FetchFails
  <2>20. ASSUME NEW w \in Workers, RunFails(w) PROVE RunsAreOwned'
    BY <2>20 DEF RunFails
  <2>21. ASSUME NEW w \in Workers, Interrupt(w) PROVE RunsAreOwned'
    BY <2>21 DEF Interrupt
  <2>22. ASSUME NEW w \in Workers, Crash(w) PROVE RunsAreOwned'
    BY <2>22 DEF Crash, Exit
  <2>23. CASE UNCHANGED vars
    BY <2>23 DEF vars
  <2>24. QED
    BY <2>1, <2>2, <2>3, <2>4, <2>5, <2>6, <2>7, <2>8, <2>9, <2>10, <2>11, <2>12, <2>13, <2>14, <2>15, <2>16, <2>17, <2>18, <2>19, <2>20, <2>21, <2>22, <2>23 DEF Next, Work, Fault
<1>3. QED
  BY <1>1, <1>2, Typed, PTL DEF Spec

-------------------------------------------------------------------------------
\* Counted batches are stored.
LEMMA Counted == Spec => []CountedIsLoaded
<1> USE SyncRunsAssumption DEF CountedIsLoaded, Live, InRun
<1>1. Init => CountedIsLoaded
  BY DEF Init
<1>2. TypedOK /\ RunsAreOwned /\ CountedIsLoaded /\ [Next]_vars => CountedIsLoaded'
  <2> SUFFICES ASSUME TypeOK, ProcessesOK, RunsAreOwned, CountedIsLoaded, [Next]_vars
               PROVE  CountedIsLoaded'
    BY DEF TypedOK
  <2> USE DEF TypeOK, ProcessesOK, ProcessOK, database, local
  <2>1. ASSUME NEW p \in Paths, Publish(p) PROVE CountedIsLoaded'
    BY <2>1 DEF Publish
  <2>2. ASSUME NEW r \in RunId, Age(r) PROVE CountedIsLoaded'
    BY <2>2 DEF Age
  <2>3. CASE ReclaimOnly
    BY <2>3 DEF ReclaimOnly, Reclaimed
  <2>4. ASSUME NEW w \in Workers, Invoke(w) PROVE CountedIsLoaded'
    BY <2>4 DEF Invoke, Reclaimed
  <2>5. ASSUME NEW w \in Workers, StartRun(w) PROVE CountedIsLoaded'
    BY <2>5 DEF StartRun
  <2>6. ASSUME NEW w \in Workers, StartRefused(w) PROVE CountedIsLoaded'
    BY <2>6 DEF StartRefused
  <2>7. ASSUME NEW w \in Workers, Discover(w) PROVE CountedIsLoaded'
    BY <2>7 DEF Discover
  <2>8. ASSUME NEW w \in Workers, Plan(w) PROVE CountedIsLoaded'
    BY <2>8 DEF Plan, Newest, Pending
  <2>9. ASSUME NEW w \in Workers, StartFile(w) PROVE CountedIsLoaded'
    <3> SUFFICES ASSUME NEW p \in todo[w],
                        file' = [file EXCEPT ![w] = p],
                        syncFiles' = [syncFiles EXCEPT ![run[w]][p] =
                          [status |-> "RUNNING", etag |-> listing[w][p], claimed |-> 0]]
                 PROVE  CountedIsLoaded'
      BY <2>9 DEF StartFile
    <3>1. run[w] \in RunId /\ p \in Paths /\ Live(w)
      BY <2>9 DEF StartFile
    <3>3. /\ syncFiles'[run[w]][p] = [status |-> "RUNNING", etag |-> listing[w][p], claimed |-> 0]
          /\ \A r \in RunId, q \in Paths :
               r # run[w] \/ q # p => syncFiles'[r][q] = syncFiles[r][q]
      BY <3>1, RowAt
    <3>4. ASSUME NEW v \in Workers, v # w, pc[v] \in {"opening", "loading", "failing"}
          PROVE  syncFiles'[run[v]][file[v]] = syncFiles[run[v]][file[v]]
      BY <3>1, <3>3, <3>4 DEF RunsAreOwned
    <3>5. pc'[w] = "opening" /\ file'[w] = p /\ UNCHANGED <<run, listing, loaded, rev>>
      BY <2>9 DEF StartFile
    <3>6. \A v \in Workers : v # w =>
            /\ pc'[v] = pc[v] /\ file'[v] = file[v] /\ committed'[v] = committed[v]
      BY <2>9 DEF StartFile
    <3>7. QED
      BY <3>3, <3>4, <3>5, <3>6
  <2>10. ASSUME NEW w \in Workers, OpenFile(w) PROVE CountedIsLoaded'
    BY <2>10 DEF OpenFile
  <2>11. ASSUME NEW w \in Workers, LoadBatch(w) PROVE CountedIsLoaded'
    <3>1. run[w] \in RunId /\ file[w] \in Paths /\ Live(w)
      BY <2>11 DEF LoadBatch
    <3>2. syncFiles' = [syncFiles EXCEPT ![run[w]][file[w]] = [syncFiles[run[w]][file[w]] EXCEPT !.claimed = committed[w] + 1]]
      BY <2>11 DEF LoadBatch
    <3>3. /\ syncFiles'[run[w]][file[w]] = [syncFiles[run[w]][file[w]] EXCEPT !.claimed = committed[w] + 1]
          /\ \A r \in RunId, q \in Paths :
               r # run[w] \/ q # file[w] => syncFiles'[r][q] = syncFiles[r][q]
      BY <3>1, <3>2, RowAt, ZenonT(40)
    <3>4. ASSUME NEW v \in Workers, v # w, pc[v] \in {"opening", "loading", "failing"}
          PROVE  syncFiles'[run[v]][file[v]] = syncFiles[run[v]][file[v]]
      BY <3>1, <3>3, <3>4 DEF RunsAreOwned
    <3>5. /\ UNCHANGED <<pc, run, listing, file, rev>> /\ pc[w] = "loading"
          /\ loaded' = loaded \cup {<<file[w], rev[w], committed[w] + 1>>}
          /\ committed' = [committed EXCEPT ![w] = @ + 1]
      BY <2>11 DEF LoadBatch
    <3>6. /\ syncFiles'[run[w]][file[w]].status = syncFiles[run[w]][file[w]].status
          /\ syncFiles'[run[w]][file[w]].etag = syncFiles[run[w]][file[w]].etag
      <4>1. syncFiles[run[w]][file[w]] \in FileRow
        BY <3>1, RowTyped
      <4>2. QED
        BY <3>3, <4>1 DEF FileRow
    <3>7. \A b \in 1..committed'[w] : b \in 1..committed[w] \/ b = committed[w] + 1
      <4>1. committed'[w] = committed[w] + 1 /\ committed[w] \in Nat
        BY <3>5
      <4>2. QED
        BY <4>1
    <3>8. \A b \in 1..committed'[w] : <<file[w], rev[w], b>> \in loaded'
      BY <3>5, <3>7
    <3>9. ASSUME NEW v \in Workers, v # w
          PROVE  committed'[v] = committed[v]
      BY <3>5, <3>9
    <3>10. QED
      BY <3>4, <3>5, <3>6, <3>8, <3>9
  <2>12. ASSUME NEW w \in Workers, FinishFile(w) PROVE CountedIsLoaded'
    <3>1. run[w] \in RunId /\ file[w] \in Paths /\ Live(w)
      BY <2>12 DEF FinishFile
    <3>2. syncFiles' = [syncFiles EXCEPT ![run[w]][file[w]] = [syncFiles[run[w]][file[w]] EXCEPT !.status = "SUCCEEDED", !.claimed = committed[w]]]
      BY <2>12 DEF FinishFile
    <3>3. /\ syncFiles'[run[w]][file[w]] = [syncFiles[run[w]][file[w]] EXCEPT !.status = "SUCCEEDED", !.claimed = committed[w]]
          /\ \A r \in RunId, q \in Paths :
               r # run[w] \/ q # file[w] => syncFiles'[r][q] = syncFiles[r][q]
      BY <3>1, <3>2, RowAt, ZenonT(40)
    <3>4. ASSUME NEW v \in Workers, v # w, pc[v] \in {"opening", "loading", "failing"}
          PROVE  syncFiles'[run[v]][file[v]] = syncFiles[run[v]][file[v]]
      BY <3>1, <3>3, <3>4 DEF RunsAreOwned
    <3>5. /\ UNCHANGED <<run, listing, file, rev, committed, loaded>>
          /\ pc' = [pc EXCEPT ![w] = "next"]
      BY <2>12 DEF FinishFile
    <3>6. pc'[w] = "next" /\ \A v \in Workers : v # w => pc'[v] = pc[v]
      BY <3>5
    <3>7. ASSUME NEW v \in Workers, pc'[v] \in {"opening", "loading", "failing"}
          PROVE  /\ syncFiles'[run'[v]][file'[v]].status = "RUNNING"
                 /\ syncFiles'[run'[v]][file'[v]].etag = listing'[v][file'[v]]
      <4>1. v # w /\ pc[v] \in {"opening", "loading", "failing"}
        BY <3>6, <3>7
      <4>2. syncFiles'[run[v]][file[v]] = syncFiles[run[v]][file[v]]
        BY <3>4, <4>1
      <4>3. QED
        BY <3>5, <4>1, <4>2
    <3>8. ASSUME NEW v \in Workers, pc'[v] = "loading"
          PROVE  \A b \in 1..committed'[v] : <<file'[v], rev'[v], b>> \in loaded'
      <4>1. pc[v] = "loading"
        BY <3>6, <3>8
      <4>2. QED
        BY <3>5, <4>1
    <3>9. QED
      BY <3>7, <3>8
  <2>13. ASSUME NEW w \in Workers, FinishFileConflict(w) PROVE CountedIsLoaded'
    BY <2>13 DEF FinishFileConflict
  <2>14. ASSUME NEW w \in Workers, FailFile(w) PROVE CountedIsLoaded'
    <3>1. run[w] \in RunId /\ file[w] \in Paths /\ Live(w)
      BY <2>14 DEF FailFile
    <3>2. syncFiles' = [syncFiles EXCEPT ![run[w]][file[w]] = [syncFiles[run[w]][file[w]] EXCEPT !.status = "FAILED", !.claimed = committed[w]]]
      BY <2>14 DEF FailFile
    <3>3. /\ syncFiles'[run[w]][file[w]] = [syncFiles[run[w]][file[w]] EXCEPT !.status = "FAILED", !.claimed = committed[w]]
          /\ \A r \in RunId, q \in Paths :
               r # run[w] \/ q # file[w] => syncFiles'[r][q] = syncFiles[r][q]
      BY <3>1, <3>2, RowAt, ZenonT(40)
    <3>4. ASSUME NEW v \in Workers, v # w, pc[v] \in {"opening", "loading", "failing"}
          PROVE  syncFiles'[run[v]][file[v]] = syncFiles[run[v]][file[v]]
      BY <3>1, <3>3, <3>4 DEF RunsAreOwned
    <3>5. /\ UNCHANGED <<run, listing, file, rev, committed, loaded>>
          /\ pc' = [pc EXCEPT ![w] = "closing"]
      BY <2>14 DEF FailFile
    <3>6. pc'[w] = "closing" /\ \A v \in Workers : v # w => pc'[v] = pc[v]
      BY <3>5
    <3>7. ASSUME NEW v \in Workers, pc'[v] \in {"opening", "loading", "failing"}
          PROVE  /\ syncFiles'[run'[v]][file'[v]].status = "RUNNING"
                 /\ syncFiles'[run'[v]][file'[v]].etag = listing'[v][file'[v]]
      <4>1. v # w /\ pc[v] \in {"opening", "loading", "failing"}
        BY <3>6, <3>7
      <4>2. syncFiles'[run[v]][file[v]] = syncFiles[run[v]][file[v]]
        BY <3>4, <4>1
      <4>3. QED
        BY <3>5, <4>1, <4>2
    <3>8. ASSUME NEW v \in Workers, pc'[v] = "loading"
          PROVE  \A b \in 1..committed'[v] : <<file'[v], rev'[v], b>> \in loaded'
      <4>1. pc[v] = "loading"
        BY <3>6, <3>8
      <4>2. QED
        BY <3>5, <4>1
    <3>9. QED
      BY <3>7, <3>8
  <2>15. ASSUME NEW w \in Workers, RunDone(w) PROVE CountedIsLoaded'
    BY <2>15 DEF RunDone
  <2>16. ASSUME NEW w \in Workers, FinishRun(w) PROVE CountedIsLoaded'
    BY <2>16 DEF FinishRun, Exit
  <2>17. ASSUME NEW w \in Workers, FinishRunConflict(w) PROVE CountedIsLoaded'
    BY <2>17 DEF FinishRunConflict, Exit
  <2>18. ASSUME NEW w \in Workers, LoadFails(w) PROVE CountedIsLoaded'
    BY <2>18 DEF LoadFails
  <2>19. ASSUME NEW w \in Workers, FetchFails(w) PROVE CountedIsLoaded'
    BY <2>19 DEF FetchFails
  <2>20. ASSUME NEW w \in Workers, RunFails(w) PROVE CountedIsLoaded'
    BY <2>20 DEF RunFails
  <2>21. ASSUME NEW w \in Workers, Interrupt(w) PROVE CountedIsLoaded'
    BY <2>21 DEF Interrupt
  <2>22. ASSUME NEW w \in Workers, Crash(w) PROVE CountedIsLoaded'
    BY <2>22 DEF Crash, Exit
  <2>23. CASE UNCHANGED vars
    BY <2>23 DEF vars
  <2>24. QED
    BY <2>1, <2>2, <2>3, <2>4, <2>5, <2>6, <2>7, <2>8, <2>9, <2>10, <2>11, <2>12, <2>13, <2>14, <2>15, <2>16, <2>17, <2>18, <2>19, <2>20, <2>21, <2>22, <2>23 DEF Next, Work, Fault
<1>3. QED
  BY <1>1, <1>2, Typed, Owned, PTL DEF Spec

-------------------------------------------------------------------------------
\* How a step may change the row of a run and a path.
RowChanges(r, p) ==
  \/ /\ syncFiles'[r][p].status = syncFiles[r][p].status
     /\ syncFiles'[r][p].etag = syncFiles[r][p].etag
  \/ /\ syncFiles'[r][p].status = "RUNNING"
     /\ \E w \in Workers : /\ StartFile(w) /\ r = run[w] /\ p \in todo[w] /\ file'[w] = p
                           /\ syncFiles'[r][p].etag = listing[w][p]
  \/ /\ syncFiles'[r][p].status = "SUCCEEDED"
     /\ syncFiles'[r][p].etag = syncFiles[r][p].etag
     /\ \E w \in Workers : FinishFile(w) /\ r = run[w] /\ p = file[w]
  \/ /\ syncFiles'[r][p].status = "FAILED"
     /\ syncFiles'[r][p].etag = syncFiles[r][p].etag
     /\ \E w \in Workers : FailFile(w) /\ r = run[w] /\ p = file[w]

LEMMA RowFrame ==
  ASSUME TypedOK, [Next]_vars, NEW r \in RunId, NEW p \in Paths
  PROVE  RowChanges(r, p)
<1>1. TypeOK /\ ProcessesOK
  BY DEF TypedOK
<1> USE SyncRunsAssumption DEF TypeOK, ProcessesOK, ProcessOK, Live, InRun, database, local
<1>2. RowChanges(r, p)
  <2>1. ASSUME NEW pp \in Paths, Publish(pp) PROVE RowChanges(r, p)
    BY <2>1, <1>1 DEF Publish, RowChanges
  <2>2. ASSUME NEW rr \in RunId, Age(rr) PROVE RowChanges(r, p)
    BY <2>2, <1>1 DEF Age, RowChanges
  <2>3. CASE ReclaimOnly
    BY <2>3, <1>1 DEF ReclaimOnly, Reclaimed, RowChanges
  <2>4. ASSUME NEW w \in Workers, Invoke(w) PROVE RowChanges(r, p)
    BY <2>4, <1>1 DEF Invoke, Reclaimed, RowChanges
  <2>5. ASSUME NEW w \in Workers, StartRun(w) PROVE RowChanges(r, p)
    BY <2>5, <1>1 DEF StartRun, RowChanges
  <2>6. ASSUME NEW w \in Workers, StartRefused(w) PROVE RowChanges(r, p)
    BY <2>6, <1>1 DEF StartRefused, RowChanges
  <2>7. ASSUME NEW w \in Workers, Discover(w) PROVE RowChanges(r, p)
    BY <2>7, <1>1 DEF Discover, RowChanges
  <2>8. ASSUME NEW w \in Workers, Plan(w) PROVE RowChanges(r, p)
    BY <2>8, <1>1 DEF Plan, Newest, Pending, RowChanges
  <2>9. ASSUME NEW w \in Workers, StartFile(w) PROVE RowChanges(r, p)
    <3>1. PICK q \in todo[w] :
            /\ file' = [file EXCEPT ![w] = q]
            /\ syncFiles' = [syncFiles EXCEPT ![run[w]][q] =
                 [status |-> "RUNNING", etag |-> listing[w][q], claimed |-> 0]]
      BY <2>9, <1>1 DEF StartFile
    <3>2. run[w] \in RunId /\ q \in Paths /\ file'[w] = q
      BY <2>9, <3>1, <1>1 DEF StartFile
    <3>3. CASE r = run[w] /\ p = q
      <4>1. syncFiles'[r][p] = [status |-> "RUNNING", etag |-> listing[w][q], claimed |-> 0]
        BY <3>1, <3>2, <3>3, RowAt, <1>1
      <4>2. syncFiles'[r][p].status = "RUNNING" /\ syncFiles'[r][p].etag = listing[w][p]
        BY <3>3, <4>1
      <4>3. QED
        BY <2>9, <3>2, <3>3, <4>2 DEF RowChanges
    <3>4. CASE r # run[w] \/ p # q
      BY <3>1, <3>2, <3>4, RowAt, <1>1 DEF RowChanges
    <3>5. QED
      BY <3>3, <3>4
  <2>10. ASSUME NEW w \in Workers, OpenFile(w) PROVE RowChanges(r, p)
    BY <2>10, <1>1 DEF OpenFile, RowChanges
  <2>11. ASSUME NEW w \in Workers, LoadBatch(w) PROVE RowChanges(r, p)
    <3>1. run[w] \in RunId /\ file[w] \in Paths
      BY <2>11, <1>1 DEF LoadBatch
    <3>2. syncFiles' = [syncFiles EXCEPT ![run[w]][file[w]] = [syncFiles[run[w]][file[w]] EXCEPT !.claimed = committed[w] + 1]]
      BY <2>11, <1>1 DEF LoadBatch
    <3>3. CASE r = run[w] /\ p = file[w]
      <4>1. syncFiles'[r][p] = [syncFiles[run[w]][file[w]] EXCEPT !.claimed = committed[w] + 1] /\ syncFiles[r][p] \in FileRow
        BY <3>1, <3>2, <3>3, RowAt, RowTyped, <1>1
      <4>2. syncFiles'[r][p].etag = syncFiles[r][p].etag /\ syncFiles'[r][p].status = syncFiles[r][p].status
        BY <3>3, <4>1 DEF FileRow
      <4>3. QED
        BY <2>11, <3>3, <4>2 DEF RowChanges
    <3>4. CASE r # run[w] \/ p # file[w]
      BY <3>1, <3>2, <3>4, RowAt, <1>1 DEF RowChanges
    <3>5. QED
      BY <3>3, <3>4
  <2>12. ASSUME NEW w \in Workers, FinishFile(w) PROVE RowChanges(r, p)
    <3>1. run[w] \in RunId /\ file[w] \in Paths
      BY <2>12, <1>1 DEF FinishFile
    <3>2. syncFiles' = [syncFiles EXCEPT ![run[w]][file[w]] = [syncFiles[run[w]][file[w]] EXCEPT !.status = "SUCCEEDED", !.claimed = committed[w]]]
      BY <2>12, <1>1 DEF FinishFile
    <3>3. CASE r = run[w] /\ p = file[w]
      <4>1. syncFiles'[r][p] = [syncFiles[run[w]][file[w]] EXCEPT !.status = "SUCCEEDED", !.claimed = committed[w]] /\ syncFiles[r][p] \in FileRow
        BY <3>1, <3>2, <3>3, RowAt, RowTyped, <1>1
      <4>2. syncFiles'[r][p].etag = syncFiles[r][p].etag /\ syncFiles'[r][p].status = "SUCCEEDED"
        BY <3>3, <4>1 DEF FileRow
      <4>3. QED
        BY <2>12, <3>3, <4>2 DEF RowChanges
    <3>4. CASE r # run[w] \/ p # file[w]
      BY <3>1, <3>2, <3>4, RowAt, <1>1 DEF RowChanges
    <3>5. QED
      BY <3>3, <3>4
  <2>13. ASSUME NEW w \in Workers, FinishFileConflict(w) PROVE RowChanges(r, p)
    BY <2>13, <1>1 DEF FinishFileConflict, RowChanges
  <2>14. ASSUME NEW w \in Workers, FailFile(w) PROVE RowChanges(r, p)
    <3>1. run[w] \in RunId /\ file[w] \in Paths
      BY <2>14, <1>1 DEF FailFile
    <3>2. syncFiles' = [syncFiles EXCEPT ![run[w]][file[w]] = [syncFiles[run[w]][file[w]] EXCEPT !.status = "FAILED", !.claimed = committed[w]]]
      BY <2>14, <1>1 DEF FailFile
    <3>3. CASE r = run[w] /\ p = file[w]
      <4>1. syncFiles'[r][p] = [syncFiles[run[w]][file[w]] EXCEPT !.status = "FAILED", !.claimed = committed[w]] /\ syncFiles[r][p] \in FileRow
        BY <3>1, <3>2, <3>3, RowAt, RowTyped, <1>1
      <4>2. syncFiles'[r][p].etag = syncFiles[r][p].etag /\ syncFiles'[r][p].status = "FAILED"
        BY <3>3, <4>1 DEF FileRow
      <4>3. QED
        BY <2>14, <3>3, <4>2 DEF RowChanges
    <3>4. CASE r # run[w] \/ p # file[w]
      BY <3>1, <3>2, <3>4, RowAt, <1>1 DEF RowChanges
    <3>5. QED
      BY <3>3, <3>4
  <2>15. ASSUME NEW w \in Workers, RunDone(w) PROVE RowChanges(r, p)
    BY <2>15, <1>1 DEF RunDone, RowChanges
  <2>16. ASSUME NEW w \in Workers, FinishRun(w) PROVE RowChanges(r, p)
    BY <2>16, <1>1 DEF FinishRun, Exit, RowChanges
  <2>17. ASSUME NEW w \in Workers, FinishRunConflict(w) PROVE RowChanges(r, p)
    BY <2>17, <1>1 DEF FinishRunConflict, Exit, RowChanges
  <2>18. ASSUME NEW w \in Workers, LoadFails(w) PROVE RowChanges(r, p)
    BY <2>18, <1>1 DEF LoadFails, RowChanges
  <2>19. ASSUME NEW w \in Workers, FetchFails(w) PROVE RowChanges(r, p)
    BY <2>19, <1>1 DEF FetchFails, RowChanges
  <2>20. ASSUME NEW w \in Workers, RunFails(w) PROVE RowChanges(r, p)
    BY <2>20, <1>1 DEF RunFails, RowChanges
  <2>21. ASSUME NEW w \in Workers, Interrupt(w) PROVE RowChanges(r, p)
    BY <2>21, <1>1 DEF Interrupt, RowChanges
  <2>22. ASSUME NEW w \in Workers, Crash(w) PROVE RowChanges(r, p)
    BY <2>22, <1>1 DEF Crash, Exit, RowChanges
  <2>23. CASE UNCHANGED vars
    BY <2>23, <1>1 DEF vars, RowChanges
  <2>24. QED
    BY <2>1, <2>2, <2>3, <2>4, <2>5, <2>6, <2>7, <2>8, <2>9, <2>10, <2>11, <2>12, <2>13, <2>14, <2>15, <2>16, <2>17, <2>18, <2>19, <2>20, <2>21, <2>22, <2>23 DEF Next, Work, Fault
<1>3. QED
  BY <1>2

-------------------------------------------------------------------------------
\* Rows appear only when a file is started.
LEMMA Unstarted == Spec => []UnstartedHaveNoRow
<1> USE SyncRunsAssumption DEF Live, InRun
<1>1. Init => UnstartedHaveNoRow
  BY DEF Init, UnstartedHaveNoRow, NoFileRow
<1>2. TypedOK /\ RunsAreOwned /\ UnstartedHaveNoRow /\ [Next]_vars => UnstartedHaveNoRow'
  <2> SUFFICES ASSUME TypeOK, ProcessesOK, RunsAreOwned, UnstartedHaveNoRow, [Next]_vars
               PROVE  UnstartedHaveNoRow'
    BY DEF TypedOK
  <2> USE DEF TypeOK, ProcessesOK, ProcessOK, RunsAreOwned, UnstartedHaveNoRow, database, local
  <2>1. ASSUME NEW pp \in Paths, Publish(pp) PROVE UnstartedHaveNoRow'
    BY <2>1 DEF Publish
  <2>2. ASSUME NEW rr \in RunId, Age(rr) PROVE UnstartedHaveNoRow'
    BY <2>2 DEF Age
  <2>3. CASE ReclaimOnly
    BY <2>3 DEF ReclaimOnly, Reclaimed
  <2>4. ASSUME NEW w \in Workers, Invoke(w) PROVE UnstartedHaveNoRow'
    BY <2>4 DEF Invoke, Reclaimed
  <2>5. ASSUME NEW w \in Workers, StartRun(w) PROVE UnstartedHaveNoRow'
    BY <2>5 DEF StartRun
  <2>6. ASSUME NEW w \in Workers, StartRefused(w) PROVE UnstartedHaveNoRow'
    BY <2>6 DEF StartRefused
  <2>7. ASSUME NEW w \in Workers, Discover(w) PROVE UnstartedHaveNoRow'
    BY <2>7 DEF Discover
  <2>8. ASSUME NEW w \in Workers, Plan(w) PROVE UnstartedHaveNoRow'
    BY <2>8 DEF Plan, Newest, Pending
  <2>9. ASSUME NEW w \in Workers, StartFile(w) PROVE UnstartedHaveNoRow'
    BY <2>9 DEF StartFile
  <2>10. ASSUME NEW w \in Workers, OpenFile(w) PROVE UnstartedHaveNoRow'
    BY <2>10 DEF OpenFile
  <2>11. ASSUME NEW w \in Workers, LoadBatch(w) PROVE UnstartedHaveNoRow'
    BY <2>11 DEF LoadBatch
  <2>12. ASSUME NEW w \in Workers, FinishFile(w) PROVE UnstartedHaveNoRow'
    BY <2>12 DEF FinishFile
  <2>13. ASSUME NEW w \in Workers, FinishFileConflict(w) PROVE UnstartedHaveNoRow'
    BY <2>13 DEF FinishFileConflict
  <2>14. ASSUME NEW w \in Workers, FailFile(w) PROVE UnstartedHaveNoRow'
    BY <2>14 DEF FailFile
  <2>15. ASSUME NEW w \in Workers, RunDone(w) PROVE UnstartedHaveNoRow'
    BY <2>15 DEF RunDone
  <2>16. ASSUME NEW w \in Workers, FinishRun(w) PROVE UnstartedHaveNoRow'
    BY <2>16 DEF FinishRun, Exit
  <2>17. ASSUME NEW w \in Workers, FinishRunConflict(w) PROVE UnstartedHaveNoRow'
    BY <2>17 DEF FinishRunConflict, Exit
  <2>18. ASSUME NEW w \in Workers, LoadFails(w) PROVE UnstartedHaveNoRow'
    BY <2>18 DEF LoadFails
  <2>19. ASSUME NEW w \in Workers, FetchFails(w) PROVE UnstartedHaveNoRow'
    BY <2>19 DEF FetchFails
  <2>20. ASSUME NEW w \in Workers, RunFails(w) PROVE UnstartedHaveNoRow'
    BY <2>20 DEF RunFails
  <2>21. ASSUME NEW w \in Workers, Interrupt(w) PROVE UnstartedHaveNoRow'
    BY <2>21 DEF Interrupt
  <2>22. ASSUME NEW w \in Workers, Crash(w) PROVE UnstartedHaveNoRow'
    BY <2>22 DEF Crash, Exit
  <2>23. CASE UNCHANGED vars
    BY <2>23 DEF vars
  <2>24. QED
    BY <2>1, <2>2, <2>3, <2>4, <2>5, <2>6, <2>7, <2>8, <2>9, <2>10, <2>11, <2>12, <2>13, <2>14, <2>15, <2>16, <2>17, <2>18, <2>19, <2>20, <2>21, <2>22, <2>23 DEF Next, Work, Fault
<1>3. QED
  BY <1>1, <1>2, Typed, Owned, PTL DEF Spec

\* What the jobs table holds stays.
LEMMA LoadedGrows == ASSUME [Next]_vars PROVE loaded \subseteq loaded'
<1> USE DEF database, local
<1>1. ASSUME NEW pp \in Paths, Publish(pp) PROVE loaded \subseteq loaded'
  BY <1>1 DEF Publish
<1>2. ASSUME NEW rr \in RunId, Age(rr) PROVE loaded \subseteq loaded'
  BY <1>2 DEF Age
<1>3. CASE ReclaimOnly
  BY <1>3 DEF ReclaimOnly, Reclaimed
<1>4. ASSUME NEW w \in Workers, Invoke(w) PROVE loaded \subseteq loaded'
  BY <1>4 DEF Invoke, Reclaimed
<1>5. ASSUME NEW w \in Workers, StartRun(w) PROVE loaded \subseteq loaded'
  BY <1>5 DEF StartRun
<1>6. ASSUME NEW w \in Workers, StartRefused(w) PROVE loaded \subseteq loaded'
  BY <1>6 DEF StartRefused
<1>7. ASSUME NEW w \in Workers, Discover(w) PROVE loaded \subseteq loaded'
  BY <1>7 DEF Discover
<1>8. ASSUME NEW w \in Workers, Plan(w) PROVE loaded \subseteq loaded'
  BY <1>8 DEF Plan, Newest, Pending
<1>9. ASSUME NEW w \in Workers, StartFile(w) PROVE loaded \subseteq loaded'
  BY <1>9 DEF StartFile
<1>10. ASSUME NEW w \in Workers, OpenFile(w) PROVE loaded \subseteq loaded'
  BY <1>10 DEF OpenFile
<1>11. ASSUME NEW w \in Workers, LoadBatch(w) PROVE loaded \subseteq loaded'
  BY <1>11 DEF LoadBatch
<1>12. ASSUME NEW w \in Workers, FinishFile(w) PROVE loaded \subseteq loaded'
  BY <1>12 DEF FinishFile
<1>13. ASSUME NEW w \in Workers, FinishFileConflict(w) PROVE loaded \subseteq loaded'
  BY <1>13 DEF FinishFileConflict
<1>14. ASSUME NEW w \in Workers, FailFile(w) PROVE loaded \subseteq loaded'
  BY <1>14 DEF FailFile
<1>15. ASSUME NEW w \in Workers, RunDone(w) PROVE loaded \subseteq loaded'
  BY <1>15 DEF RunDone
<1>16. ASSUME NEW w \in Workers, FinishRun(w) PROVE loaded \subseteq loaded'
  BY <1>16 DEF FinishRun, Exit
<1>17. ASSUME NEW w \in Workers, FinishRunConflict(w) PROVE loaded \subseteq loaded'
  BY <1>17 DEF FinishRunConflict, Exit
<1>18. ASSUME NEW w \in Workers, LoadFails(w) PROVE loaded \subseteq loaded'
  BY <1>18 DEF LoadFails
<1>19. ASSUME NEW w \in Workers, FetchFails(w) PROVE loaded \subseteq loaded'
  BY <1>19 DEF FetchFails
<1>20. ASSUME NEW w \in Workers, RunFails(w) PROVE loaded \subseteq loaded'
  BY <1>20 DEF RunFails
<1>21. ASSUME NEW w \in Workers, Interrupt(w) PROVE loaded \subseteq loaded'
  BY <1>21 DEF Interrupt
<1>22. ASSUME NEW w \in Workers, Crash(w) PROVE loaded \subseteq loaded'
  BY <1>22 DEF Crash, Exit
<1>23. CASE UNCHANGED vars
  BY <1>23 DEF vars
<1>24. QED
  BY <1>1, <1>2, <1>3, <1>4, <1>5, <1>6, <1>7, <1>8, <1>9, <1>10, <1>11, <1>12, <1>13, <1>14, <1>15, <1>16, <1>17, <1>18, <1>19, <1>20, <1>21, <1>22, <1>23 DEF Next, Work, Fault

\* A file recorded as SUCCEEDED is in the jobs table, for any number of overlapping,
\* failing and crashing processes (sync.py 290-311 skips such files for good).
THEOREM SucceededLoaded == Spec => []SucceededFilesAreLoaded
<1>1. Init => SucceededFilesAreLoaded
  BY DEF Init, SucceededFilesAreLoaded, NoFileRow
<1>2. TypedOK /\ CountedIsLoaded /\ SucceededFilesAreLoaded /\ [Next]_vars
        => SucceededFilesAreLoaded'
  <2> SUFFICES ASSUME TypedOK, CountedIsLoaded, SucceededFilesAreLoaded, [Next]_vars,
                      NEW r \in RunId, NEW p \in Paths, syncFiles'[r][p].status = "SUCCEEDED"
               PROVE  \E v \in Revision : /\ v >= syncFiles'[r][p].etag
                                          /\ \A b \in 1..Batches : <<p, v, b>> \in loaded'
    BY DEF SucceededFilesAreLoaded
  <2>1. loaded \subseteq loaded'
    BY LoadedGrows
  <2>2. CASE syncFiles[r][p].status = "SUCCEEDED" /\ syncFiles'[r][p].etag = syncFiles[r][p].etag
    BY <2>1, <2>2 DEF SucceededFilesAreLoaded
  <2>3. CASE /\ syncFiles'[r][p].etag = syncFiles[r][p].etag
             /\ \E w \in Workers : FinishFile(w) /\ r = run[w] /\ p = file[w]
    <3>1. PICK w \in Workers : FinishFile(w) /\ r = run[w] /\ p = file[w]
      BY <2>3
    <3>2. pc[w] = "loading" /\ committed[w] = Batches
      BY <3>1 DEF FinishFile
    <3>3. syncFiles[r][p].etag = listing[w][p] /\ \A b \in 1..Batches : <<p, rev[w], b>> \in loaded
      BY <3>1, <3>2 DEF CountedIsLoaded
    <3>4. rev[w] \in Revision /\ rev[w] >= listing[w][p]
      BY <3>1, <3>2, SyncRunsAssumption
         DEF TypedOK, TypeOK, ProcessesOK, ProcessOK, Live, InRun, Revision
    <3>5. QED
      BY <2>1, <2>3, <3>3, <3>4
  <2>4. QED
    BY <2>2, <2>3, RowFrame DEF RowChanges
<1>3. QED
  BY <1>1, <1>2, Typed, Counted, PTL DEF Spec

-------------------------------------------------------------------------------
\* The steps that write sync_files.
LEMMA RowWriters ==
  ASSUME [Next]_vars
  PROVE  \/ UNCHANGED syncFiles
         \/ \E w \in Workers : StartFile(w) \/ LoadBatch(w) \/ FinishFile(w) \/ FailFile(w)
  BY DEF Next, Work, Fault, vars, database, local, Publish, Age, ReclaimOnly, Invoke, StartRun,
         StartRefused, Discover, Plan, OpenFile, FinishFileConflict, RunDone, FinishRun,
         FinishRunConflict, LoadFails, FetchFails, RunFails, Interrupt, Crash

\* What a row claims is stored, in one version of its file.
Covered(row, p, content) ==
  row.status \in {"RUNNING", "SUCCEEDED"} =>
    \E v \in Revision \cup {0} : \A b \in 1..row.claimed : <<p, v, b>> \in content

\* A checkpoint never claims a batch that the jobs table does not hold, for any number of
\* overlapping, failing and crashing processes (process.py: "never claim rows that were not
\* written").
THEOREM CheckpointsCovered == Spec => []CheckpointsAreCovered
<1>1. Init => CheckpointsAreCovered
  BY DEF Init, CheckpointsAreCovered, NoFileRow
<1>2. TypedOK /\ CountedIsLoaded /\ CheckpointsAreCovered /\ [Next]_vars
        => CheckpointsAreCovered'
  <2> SUFFICES ASSUME TypeOK, ProcessesOK, CountedIsLoaded, CheckpointsAreCovered, [Next]_vars,
                      NEW r \in RunId, NEW p \in Paths
               PROVE  Covered(syncFiles'[r][p], p, loaded')
    BY DEF TypedOK, CheckpointsAreCovered, Covered
  <2>1. loaded \subseteq loaded'
    BY LoadedGrows
  <2>2. Covered(syncFiles[r][p], p, loaded')
    BY <2>1 DEF CheckpointsAreCovered, Covered
  <2>3. CASE syncFiles'[r][p] = syncFiles[r][p]
    BY <2>2, <2>3
  <2>4. ASSUME NEW w \in Workers, Live(w), file[w] \in Paths, pc[w] = "loading"
        PROVE  /\ run[w] \in RunId /\ rev[w] \in Revision \cup {0} /\ committed[w] \in Nat
               /\ \A b \in 1..committed[w] : <<file[w], rev[w], b>> \in loaded
    BY <2>4, SyncRunsAssumption DEF TypeOK, ProcessesOK, ProcessOK, CountedIsLoaded, Revision
  <2>5. ASSUME NEW w \in Workers, StartFile(w) PROVE Covered(syncFiles'[r][p], p, loaded')
    <3>1. PICK q \in todo[w] :
            syncFiles' = [syncFiles EXCEPT ![run[w]][q] =
              [status |-> "RUNNING", etag |-> listing[w][q], claimed |-> 0]]
      BY <2>5 DEF StartFile
    <3>2. run[w] \in RunId /\ q \in Paths
      BY <2>5, <3>1 DEF StartFile, TypeOK, ProcessesOK, ProcessOK, Live, InRun
    <3>3. CASE r = run[w] /\ p = q
      <4>1. syncFiles'[r][p].claimed = 0
        BY <3>1, <3>2, <3>3, RowAt DEF TypeOK
      <4>2. QED
        BY <4>1 DEF Covered
    <3>4. QED
      BY <2>3, <3>1, <3>2, <3>3, RowAt DEF TypeOK
  <2>6. ASSUME NEW w \in Workers, LoadBatch(w) PROVE Covered(syncFiles'[r][p], p, loaded')
    <3>1. pc[w] = "loading" /\ Live(w) /\ file[w] \in Paths /\ run[w] \in RunId
      BY <2>6 DEF LoadBatch, ProcessesOK, ProcessOK, Live, InRun
    <3>2. syncFiles' = [syncFiles EXCEPT ![run[w]][file[w]] =
            [syncFiles[run[w]][file[w]] EXCEPT !.claimed = committed[w] + 1]]
      BY <2>6 DEF LoadBatch
    <3>3. CASE r = run[w] /\ p = file[w]
      <4>1. syncFiles'[r][p].claimed = committed[w] + 1
        <5>1. syncFiles'[r][p] = [syncFiles[r][p] EXCEPT !.claimed = committed[w] + 1]
          BY <3>1, <3>2, <3>3, RowAt DEF TypeOK
        <5>2. syncFiles[r][p] \in FileRow
          BY RowTyped DEF TypeOK
        <5>3. QED
          BY <5>1, <5>2 DEF FileRow
      <4>2. \A b \in 1..committed[w] : <<p, rev[w], b>> \in loaded
        BY <2>4, <3>1, <3>3
      <4>3. loaded' = loaded \cup {<<p, rev[w], committed[w] + 1>>}
        BY <2>6, <3>3 DEF LoadBatch
      <4>4. committed[w] \in Nat /\ rev[w] \in Revision \cup {0}
        BY <2>4, <3>1
      <4>5. \A b \in 1..(committed[w] + 1) : <<p, rev[w], b>> \in loaded'
        <5>1. \A b \in 1..(committed[w] + 1) : b \in 1..committed[w] \/ b = committed[w] + 1
          BY <4>4
        <5>2. QED
          BY <4>2, <4>3, <5>1
      <4>6. QED
        BY <4>1, <4>4, <4>5 DEF Covered
    <3>4. QED
      BY <2>3, <3>1, <3>2, <3>3, RowAt DEF TypeOK
  <2>7. ASSUME NEW w \in Workers, FinishFile(w) PROVE Covered(syncFiles'[r][p], p, loaded')
    <3>1. pc[w] = "loading" /\ Live(w) /\ file[w] \in Paths /\ run[w] \in RunId
      BY <2>7 DEF FinishFile, ProcessesOK, ProcessOK, Live, InRun
    <3>2. syncFiles' = [syncFiles EXCEPT ![run[w]][file[w]] =
            [syncFiles[run[w]][file[w]] EXCEPT !.status = "SUCCEEDED", !.claimed = committed[w]]]
      BY <2>7 DEF FinishFile
    <3>3. CASE r = run[w] /\ p = file[w]
      <4>1. syncFiles'[r][p].claimed = committed[w]
        <5>1. syncFiles'[r][p] =
                [syncFiles[r][p] EXCEPT !.status = "SUCCEEDED", !.claimed = committed[w]]
          BY <3>1, <3>2, <3>3, RowAt DEF TypeOK
        <5>2. syncFiles[r][p] \in FileRow
          BY RowTyped DEF TypeOK
        <5>3. QED
          BY <5>1, <5>2 DEF FileRow
      <4>2. QED
        BY <2>1, <2>4, <3>1, <3>3, <4>1 DEF Covered
    <3>4. QED
      BY <2>3, <3>1, <3>2, <3>3, RowAt DEF TypeOK
  <2>8. ASSUME NEW w \in Workers, FailFile(w) PROVE Covered(syncFiles'[r][p], p, loaded')
    <3>1. file[w] \in Paths /\ run[w] \in RunId
      BY <2>8 DEF FailFile, ProcessesOK, ProcessOK, Live, InRun
    <3>2. syncFiles' = [syncFiles EXCEPT ![run[w]][file[w]] =
            [syncFiles[run[w]][file[w]] EXCEPT !.status = "FAILED", !.claimed = committed[w]]]
      BY <2>8 DEF FailFile
    <3>3. CASE r = run[w] /\ p = file[w]
      <4>1. syncFiles'[r][p] =
              [syncFiles[r][p] EXCEPT !.status = "FAILED", !.claimed = committed[w]]
        BY <3>1, <3>2, <3>3, RowAt DEF TypeOK
      <4>2. syncFiles[r][p] \in FileRow
        BY RowTyped DEF TypeOK
      <4>3. syncFiles'[r][p].status = "FAILED"
        BY <4>1, <4>2 DEF FileRow
      <4>4. QED
        BY <4>3 DEF Covered
    <3>4. QED
      BY <2>3, <3>1, <3>2, <3>3, RowAt DEF TypeOK
  <2>9. QED
    BY <2>3, <2>5, <2>6, <2>7, <2>8, RowWriters
<1>3. QED
  BY <1>1, <1>2, Typed, Counted, PTL DEF Spec

-------------------------------------------------------------------------------
\* What keeps a failed file out of a run that reports success.
Clean == FailuresStopTheRun /\ SucceededRunsHaveNoFailure

\* The live processes that do not step keep their runs to themselves.
LEMMA CleanStep ==
  ASSUME TypeOK, ProcessesOK, RunsAreOwned, UnstartedHaveNoRow, CountedIsLoaded, Clean,
         [Next]_vars
  PROVE  Clean'
<1> USE SyncRunsAssumption DEF Live, InRun, Active, Terminal
<1> DEFINE Fits(v) ==
      /\ Live(v) => syncRuns[run[v]] # "SUCCEEDED"
      /\ pc[v] \in {"discovering", "planning", "next"} => NoneFailed(run[v], {})
      /\ pc[v] \in {"opening", "loading"} => NoneFailed(run[v], {file[v]})
      /\ pc[v] = "closing" /\ outcome[v] = "SUCCEEDED" => NoneFailed(run[v], {})
<1>a. /\ \A v \in Workers : Fits(v)
      /\ \A r \in RunId : syncRuns[r] = "SUCCEEDED" => NoneFailed(r, {})
  BY DEF Clean, FailuresStopTheRun, SucceededRunsHaveNoFailure, NoneFailed
<1> DEFINE Goal == /\ \A v \in Workers : Fits(v)'
                   /\ \A r \in RunId : syncRuns'[r] = "SUCCEEDED" => NoneFailed(r, {})'
<1>b. SUFFICES Goal
  BY DEF Clean, FailuresStopTheRun, SucceededRunsHaveNoFailure, NoneFailed
<1>1. ASSUME NEW p \in Paths, Publish(p) PROVE Goal
  BY <1>1, <1>a DEF TypeOK, database, local, NoneFailed, Publish
<1>2. ASSUME NEW rr \in RunId, Age(rr) PROVE Goal
  BY <1>2, <1>a DEF TypeOK, database, local, NoneFailed, Age
<1>3. CASE ReclaimOnly
  BY <1>3, <1>a
     DEF TypeOK, database, local, NoneFailed, ReclaimOnly, Reclaimed, ActiveRuns, ProcessesOK,
                 ProcessOK, RunsAreOwned
<1>4. ASSUME NEW w \in Workers, Invoke(w) PROVE Goal
  BY <1>4, <1>a
     DEF TypeOK, database, local, NoneFailed, Invoke, Reclaimed, ActiveRuns, ProcessesOK,
                 ProcessOK, RunsAreOwned
<1>5. ASSUME NEW w \in Workers, StartRun(w) PROVE Goal
  BY <1>5, <1>a
     DEF TypeOK, database, local, NoneFailed, StartRun, UnstartedHaveNoRow, RunsAreOwned
<1>6. ASSUME NEW w \in Workers, StartRefused(w) PROVE Goal
  BY <1>6, <1>a DEF TypeOK, database, local, NoneFailed, StartRefused
<1>7. ASSUME NEW w \in Workers, Discover(w) PROVE Goal
  BY <1>7, <1>a DEF TypeOK, database, local, NoneFailed, Discover
<1>8. ASSUME NEW w \in Workers, Plan(w) PROVE Goal
  BY <1>8, <1>a DEF TypeOK, database, local, NoneFailed, Plan
<1>9. ASSUME NEW w \in Workers, OpenFile(w) PROVE Goal
  BY <1>9, <1>a DEF TypeOK, database, local, NoneFailed, OpenFile
<1>10. ASSUME NEW w \in Workers, FinishFileConflict(w) PROVE Goal
  BY <1>10, <1>a DEF TypeOK, database, local, NoneFailed, FinishFileConflict
<1>11. ASSUME NEW w \in Workers, RunDone(w) PROVE Goal
  BY <1>11, <1>a DEF TypeOK, database, local, NoneFailed, RunDone
<1>12. ASSUME NEW w \in Workers, LoadFails(w) PROVE Goal
  BY <1>12, <1>a DEF TypeOK, database, local, NoneFailed, LoadFails
<1>13. ASSUME NEW w \in Workers, FetchFails(w) PROVE Goal
  BY <1>13, <1>a DEF TypeOK, database, local, NoneFailed, FetchFails
<1>14. ASSUME NEW w \in Workers, RunFails(w) PROVE Goal
  BY <1>14, <1>a DEF TypeOK, database, local, NoneFailed, RunFails
<1>15. ASSUME NEW w \in Workers, Interrupt(w) PROVE Goal
  BY <1>15, <1>a DEF TypeOK, database, local, NoneFailed, Interrupt
<1>16. ASSUME NEW w \in Workers, FinishRun(w) PROVE Goal
  BY <1>16, <1>a
     DEF TypeOK, database, local, NoneFailed, FinishRun, Exit, RunsAreOwned, ProcessesOK, ProcessOK
<1>17. ASSUME NEW w \in Workers, FinishRunConflict(w) PROVE Goal
  BY <1>17, <1>a
     DEF TypeOK, database, local, NoneFailed, FinishRunConflict, Exit, RunsAreOwned, ProcessesOK, ProcessOK
<1>18. ASSUME NEW w \in Workers, Crash(w) PROVE Goal
  BY <1>18, <1>a
     DEF TypeOK, database, local, NoneFailed, Crash, Exit, RunsAreOwned, ProcessesOK, ProcessOK
<1>c. ASSUME NEW w \in Workers, Live(w)
      PROVE  /\ run[w] \in RunId /\ syncRuns[run[w]] # "SUCCEEDED"
             /\ \A v \in Workers : v # w /\ Live(v) => run[v] \in RunId /\ run[v] # run[w]
  BY <1>c, <1>a DEF TypeOK, ProcessesOK, ProcessOK, RunsAreOwned
<1>19. ASSUME NEW w \in Workers, StartFile(w) PROVE Goal
  <2>1. Live(w) /\ run[w] \in RunId
    BY <1>19, <1>c DEF StartFile
  <2>2. PICK p \in Paths :
          /\ file' = [file EXCEPT ![w] = p]
          /\ syncFiles' = [syncFiles EXCEPT ![run[w]][p] =
               [status |-> "RUNNING", etag |-> listing[w][p], claimed |-> 0]]
    BY <1>19 DEF StartFile, TypeOK
  <2>3. \A s \in RunId, q \in Paths :
          s # run[w] \/ q # p => syncFiles'[s][q] = syncFiles[s][q]
    BY <2>1, <2>2, RowAt DEF TypeOK
  <2>4. \A v \in Workers : v # w => /\ pc'[v] = pc[v] /\ run'[v] = run[v] /\ file'[v] = file[v]
                                   /\ outcome'[v] = outcome[v]
    BY <1>19 DEF StartFile, TypeOK, local
  <2>5. syncRuns' = syncRuns /\ run' = run
    BY <1>19 DEF StartFile, local
  <2>6. ASSUME NEW v \in Workers, v # w PROVE Fits(v)'
    <3>1. CASE Live(v)
      <4>1. run[v] \in RunId /\ run[v] # run[w]
        BY <1>c, <2>1, <2>6, <3>1
      <4>2. \A q \in Paths : syncFiles'[run[v]][q] = syncFiles[run[v]][q]
        BY <2>3, <4>1
      <4>3. Fits(v)
        BY <1>a
      <4>4. QED
        BY <2>4, <2>5, <2>6, <4>2, <4>3 DEF NoneFailed
    <3>2. CASE ~Live(v)
      BY <2>4, <2>6, <3>2
    <3>3. QED
      BY <3>1, <3>2
  <2>7. \A r \in RunId : syncRuns'[r] = "SUCCEEDED" => NoneFailed(r, {})'
    BY <1>a, <1>c, <2>1, <2>3, <2>5 DEF NoneFailed
  <2>8. Fits(w)'
    <3>1. pc[w] = "next" /\ pc'[w] = "opening" /\ file'[w] = p
      BY <1>19, <2>2 DEF StartFile, TypeOK
    <3>2. QED
      BY <1>a, <1>c, <2>1, <2>3, <2>5, <3>1 DEF NoneFailed
  <2>9. QED
    BY <2>6, <2>7, <2>8
<1>20. ASSUME NEW w \in Workers, LoadBatch(w) PROVE Goal
  <2>1. Live(w) /\ run[w] \in RunId
    BY <1>20, <1>c DEF LoadBatch
  <2>2. /\ file[w] \in Paths
        /\ syncFiles' = [syncFiles EXCEPT ![run[w]][file[w]] =
             [syncFiles[run[w]][file[w]] EXCEPT !.claimed = committed[w] + 1]]
    BY <1>20 DEF LoadBatch, ProcessesOK, ProcessOK
  <2>3. \A s \in RunId, q \in Paths :
          s # run[w] \/ q # file[w] => syncFiles'[s][q] = syncFiles[s][q]
    BY <2>1, <2>2, RowAt DEF TypeOK
  <2>4. \A v \in Workers : v # w => /\ pc'[v] = pc[v] /\ run'[v] = run[v] /\ file'[v] = file[v]
                                   /\ outcome'[v] = outcome[v]
    BY <1>20 DEF LoadBatch, TypeOK, local
  <2>5. syncRuns' = syncRuns /\ run' = run
    BY <1>20 DEF LoadBatch, local
  <2>6. ASSUME NEW v \in Workers, v # w PROVE Fits(v)'
    BY <1>a, <1>c, <2>1, <2>3, <2>4, <2>5, <2>6 DEF NoneFailed
  <2>7. \A r \in RunId : syncRuns'[r] = "SUCCEEDED" => NoneFailed(r, {})'
    BY <1>a, <1>c, <2>1, <2>3, <2>5 DEF NoneFailed
  <2>8. Fits(w)'
    <3>1. pc[w] = "loading" /\ pc'[w] = "loading" /\ file'[w] = file[w]
      BY <1>20 DEF LoadBatch
    <3>2. QED
      BY <1>a, <1>c, <2>1, <2>3, <2>5, <3>1 DEF NoneFailed
  <2>9. QED
    BY <2>6, <2>7, <2>8
<1>21. ASSUME NEW w \in Workers, FinishFile(w) PROVE Goal
  <2>1. Live(w) /\ run[w] \in RunId
    BY <1>21, <1>c DEF FinishFile
  <2>2. /\ file[w] \in Paths
        /\ syncFiles' = [syncFiles EXCEPT ![run[w]][file[w]] =
             [syncFiles[run[w]][file[w]] EXCEPT !.status = "SUCCEEDED", !.claimed = committed[w]]]
    BY <1>21 DEF FinishFile, ProcessesOK, ProcessOK
  <2>3. \A s \in RunId, q \in Paths :
          s # run[w] \/ q # file[w] => syncFiles'[s][q] = syncFiles[s][q]
    BY <2>1, <2>2, RowAt DEF TypeOK
  <2>4. \A v \in Workers : v # w => /\ pc'[v] = pc[v] /\ run'[v] = run[v] /\ file'[v] = file[v]
                                   /\ outcome'[v] = outcome[v]
    BY <1>21 DEF FinishFile, TypeOK, local
  <2>5. syncRuns' = syncRuns /\ run' = run
    BY <1>21 DEF FinishFile, local
  <2>6. ASSUME NEW v \in Workers, v # w PROVE Fits(v)'
    BY <1>a, <1>c, <2>1, <2>3, <2>4, <2>5, <2>6 DEF NoneFailed
  <2>7. \A r \in RunId : syncRuns'[r] = "SUCCEEDED" => NoneFailed(r, {})'
    BY <1>a, <1>c, <2>1, <2>3, <2>5 DEF NoneFailed
  <2>8. Fits(w)'
    <3>1. pc[w] = "loading" /\ pc'[w] = "next"
      BY <1>21 DEF FinishFile, TypeOK
    <3>2. syncFiles'[run[w]][file[w]].status = "SUCCEEDED"
      <4>1. syncFiles'[run[w]][file[w]] =
              [syncFiles[run[w]][file[w]] EXCEPT !.status = "SUCCEEDED", !.claimed = committed[w]]
        BY <2>1, <2>2, RowAt DEF TypeOK
      <4>2. syncFiles[run[w]][file[w]] \in FileRow
        BY <2>1, <2>2, RowTyped DEF TypeOK
      <4>3. QED
        BY <4>1, <4>2 DEF FileRow
    <3>3. QED
      BY <1>a, <1>c, <2>1, <2>3, <2>5, <3>1, <3>2 DEF NoneFailed
  <2>9. QED
    BY <2>6, <2>7, <2>8
<1>22. ASSUME NEW w \in Workers, FailFile(w) PROVE Goal
  <2>1. Live(w) /\ run[w] \in RunId
    BY <1>22, <1>c DEF FailFile
  <2>2. /\ file[w] \in Paths
        /\ syncFiles' = [syncFiles EXCEPT ![run[w]][file[w]] =
             [syncFiles[run[w]][file[w]] EXCEPT !.status = "FAILED", !.claimed = committed[w]]]
    BY <1>22 DEF FailFile, ProcessesOK, ProcessOK
  <2>3. \A s \in RunId, q \in Paths :
          s # run[w] \/ q # file[w] => syncFiles'[s][q] = syncFiles[s][q]
    BY <2>1, <2>2, RowAt DEF TypeOK
  <2>4. \A v \in Workers : v # w => /\ pc'[v] = pc[v] /\ run'[v] = run[v] /\ file'[v] = file[v]
                                   /\ outcome'[v] = outcome[v]
    BY <1>22 DEF FailFile, TypeOK, local
  <2>5. syncRuns' = syncRuns /\ run' = run
    BY <1>22 DEF FailFile, local
  <2>6. ASSUME NEW v \in Workers, v # w PROVE Fits(v)'
    BY <1>a, <1>c, <2>1, <2>3, <2>4, <2>5, <2>6 DEF NoneFailed
  <2>7. \A r \in RunId : syncRuns'[r] = "SUCCEEDED" => NoneFailed(r, {})'
    BY <1>a, <1>c, <2>1, <2>3, <2>5 DEF NoneFailed
  <2>8. Fits(w)'
    <3>1. pc'[w] = "closing" /\ outcome'[w] = "FAILED"
      BY <1>22 DEF FailFile, TypeOK
    <3>2. QED
      BY <1>c, <2>1, <2>5, <3>1
  <2>9. QED
    BY <2>6, <2>7, <2>8
<1>23. CASE UNCHANGED vars
  BY <1>23, <1>a DEF vars, TypeOK, database, local, NoneFailed
<1>. QED
  BY <1>b, <1>1, <1>2, <1>3, <1>4, <1>5, <1>6, <1>7, <1>8, <1>9, <1>10, <1>11, <1>12, <1>13, <1>14, <1>15, <1>16, <1>17, <1>18, <1>19, <1>20, <1>21, <1>22, <1>23
     DEF Next, Work, Fault

\* A run reports SUCCEEDED only if every file it started did, although an interrupt, a
\* reclaim and a late finish_run may each write its status.
THEOREM SucceededClean == Spec => []SucceededRunsHaveNoFailure
<1>1. Init => Clean
  BY DEF Init, Clean, FailuresStopTheRun, SucceededRunsHaveNoFailure, NoneFailed, Live, InRun,
         NoFileRow
<1>2. /\ TypedOK /\ RunsAreOwned /\ UnstartedHaveNoRow /\ CountedIsLoaded /\ Clean /\ [Next]_vars
      => Clean'
  BY CleanStep DEF TypedOK
<1>3. Clean => SucceededRunsHaveNoFailure
  BY DEF Clean
<1>4. QED
  BY <1>1, <1>2, <1>3, Typed, Owned, Unstarted, Counted, PTL DEF Spec

-------------------------------------------------------------------------------
(* Under the window assumption *)

Exclusive == LockIsHeld /\ LiveRunsHoldTheLock /\ WorkersExclude /\ OneActiveRun

LEMMA ExclusiveStep ==
  ASSUME ~LiveRunsMayAge, TypedOK, RunsAreOwned, Exclusive, [Next]_vars
  PROVE  Exclusive'
<1>1. TypeOK /\ ProcessesOK
  BY DEF TypedOK
<1> USE <1>1, SyncRunsAssumption
        DEF TypeOK, ProcessesOK, ProcessOK, Live, InRun, RunsAreOwned, Exclusive, LockIsHeld,
            LiveRunsHoldTheLock, WorkersExclude, OneActiveRun, ActiveRuns, Active, Terminal,
            database, local
<1>2. Exclusive'
  <2>1. ASSUME NEW pp \in Paths, Publish(pp) PROVE Exclusive'
    BY <2>1 DEF Publish
  <2>2. ASSUME NEW rr \in RunId, Age(rr) PROVE Exclusive'
    BY <2>2 DEF Age
  <2>3. CASE ReclaimOnly
    BY <2>3 DEF ReclaimOnly, Reclaimed
  <2>4. ASSUME NEW w \in Workers, Invoke(w) PROVE Exclusive'
    BY <2>4 DEF Invoke, Reclaimed
  <2>5. ASSUME NEW w \in Workers, StartRun(w) PROVE Exclusive'
    BY <2>5 DEF StartRun
  <2>6. ASSUME NEW w \in Workers, StartRefused(w) PROVE Exclusive'
    BY <2>6 DEF StartRefused
  <2>7. ASSUME NEW w \in Workers, Discover(w) PROVE Exclusive'
    BY <2>7 DEF Discover
  <2>8. ASSUME NEW w \in Workers, Plan(w) PROVE Exclusive'
    BY <2>8 DEF Plan, Newest, Pending
  <2>9. ASSUME NEW w \in Workers, StartFile(w) PROVE Exclusive'
    BY <2>9 DEF StartFile
  <2>10. ASSUME NEW w \in Workers, OpenFile(w) PROVE Exclusive'
    BY <2>10 DEF OpenFile
  <2>11. ASSUME NEW w \in Workers, LoadBatch(w) PROVE Exclusive'
    BY <2>11 DEF LoadBatch
  <2>12. ASSUME NEW w \in Workers, FinishFile(w) PROVE Exclusive'
    BY <2>12 DEF FinishFile
  <2>13. ASSUME NEW w \in Workers, FinishFileConflict(w) PROVE Exclusive'
    BY <2>13 DEF FinishFileConflict
  <2>14. ASSUME NEW w \in Workers, FailFile(w) PROVE Exclusive'
    BY <2>14 DEF FailFile
  <2>15. ASSUME NEW w \in Workers, RunDone(w) PROVE Exclusive'
    BY <2>15 DEF RunDone
  <2>16. ASSUME NEW w \in Workers, FinishRun(w) PROVE Exclusive'
    BY <2>16 DEF FinishRun, Exit
  <2>17. ASSUME NEW w \in Workers, FinishRunConflict(w) PROVE Exclusive'
    BY <2>17 DEF FinishRunConflict, Exit
  <2>18. ASSUME NEW w \in Workers, LoadFails(w) PROVE Exclusive'
    BY <2>18 DEF LoadFails
  <2>19. ASSUME NEW w \in Workers, FetchFails(w) PROVE Exclusive'
    BY <2>19 DEF FetchFails
  <2>20. ASSUME NEW w \in Workers, RunFails(w) PROVE Exclusive'
    BY <2>20 DEF RunFails
  <2>21. ASSUME NEW w \in Workers, Interrupt(w) PROVE Exclusive'
    BY <2>21 DEF Interrupt
  <2>22. ASSUME NEW w \in Workers, Crash(w) PROVE Exclusive'
    BY <2>22 DEF Crash, Exit
  <2>23. CASE UNCHANGED vars
    BY <2>23 DEF vars
  <2>24. QED
    BY <2>1, <2>2, <2>3, <2>4, <2>5, <2>6, <2>7, <2>8, <2>9, <2>10, <2>11, <2>12, <2>13, <2>14, <2>15, <2>16, <2>17, <2>18, <2>19, <2>20, <2>21, <2>22, <2>23
       DEF Next, Work, Fault
<1>3. QED
  BY <1>2

\* Two processes are never inside a run at once, the row of a live process is RUNNING, and
\* one row at most is active, whatever is killed, interrupted and reclaimed (sync.py
\* 144-257 with the index of 0001_initial_schema.py 516-520).
THEOREM Exclusion ==
  ASSUME ~LiveRunsMayAge
  PROVE  Spec => [](WorkersExclude /\ LiveRunsHoldTheLock /\ OneActiveRun)
<1>1. Init => Exclusive
  BY DEF Init, Exclusive, LockIsHeld, LiveRunsHoldTheLock, WorkersExclude, OneActiveRun, Live,
         InRun, Active
<1>2. TypedOK /\ RunsAreOwned /\ Exclusive /\ [Next]_vars => Exclusive'
  BY ExclusiveStep
<1>3. Exclusive => WorkersExclude /\ LiveRunsHoldTheLock /\ OneActiveRun
  BY DEF Exclusive
<1>4. QED
  BY <1>1, <1>2, <1>3, Typed, Owned, PTL DEF Spec

-------------------------------------------------------------------------------
(* What is done stays done, and is done once *)

LEMMA CompletedFrame ==
  ASSUME TypedOK, CountedIsLoaded, [Next]_vars, NEW p \in Paths, NEW e, Completed(p, e)'
  PROVE  Completed(p, e) \/ \E w \in Workers : FinishFile(w) /\ p = file[w] /\ e = listing[w][p]
<1>1. PICK r \in RunId : syncFiles'[r][p].status = "SUCCEEDED" /\ syncFiles'[r][p].etag = e
  BY DEF Completed
<1>2. CASE syncFiles[r][p].status = "SUCCEEDED" /\ syncFiles[r][p].etag = e
  BY <1>2 DEF Completed
<1>3. CASE /\ syncFiles'[r][p].etag = syncFiles[r][p].etag
           /\ \E w \in Workers : FinishFile(w) /\ r = run[w] /\ p = file[w]
  <2>1. PICK w \in Workers : FinishFile(w) /\ r = run[w] /\ p = file[w]
    BY <1>3
  <2>2. syncFiles[r][p].etag = listing[w][p]
    BY <2>1 DEF FinishFile, CountedIsLoaded
  <2>3. QED
    BY <1>1, <1>3, <2>1, <2>2
<1>4. QED
  BY <1>1, <1>2, <1>3, RowFrame DEF RowChanges

LEMMA CompletedStays ==
  ASSUME TypedOK, CountedIsLoaded, UnstartedHaveNoRow, [Next]_vars, NEW p \in Paths, NEW e,
         Completed(p, e)
  PROVE  Completed(p, e)'
<1>1. PICK r \in RunId : syncFiles[r][p].status = "SUCCEEDED" /\ syncFiles[r][p].etag = e
  BY DEF Completed
<1>2. ASSUME NEW w \in Workers, StartFile(w), r = run[w], p \in todo[w] PROVE FALSE
  BY <1>1, <1>2 DEF StartFile, UnstartedHaveNoRow
<1>3. ASSUME NEW w \in Workers, FinishFile(w) \/ FailFile(w), r = run[w], p = file[w] PROVE FALSE
  BY <1>1, <1>3 DEF FinishFile, FailFile, CountedIsLoaded
<1>4. syncFiles'[r][p].status = "SUCCEEDED" /\ syncFiles'[r][p].etag = e
  BY <1>1, <1>2, <1>3, RowFrame DEF RowChanges
<1>5. QED
  BY <1>4 DEF Completed

\* A step that finishes no file completes no version.
LEMMA NothingCompleted ==
  ASSUME TypedOK, CountedIsLoaded, [Next]_vars, \A w \in Workers : ~FinishFile(w)
  PROVE  \A p \in Paths : \A e : Completed(p, e)' => Completed(p, e)
  BY CompletedFrame

LeftOK(w) ==
  /\ pc[w] \in {"next", "opening", "loading"} =>
       \A p \in todo[w] : ~Completed(p, listing[w][p])
  /\ pc[w] \in {"opening", "loading"} => ~Completed(file[w], listing[w][file[w]])

\* The filter that Plan read stays right until the run is over: only the process inside
\* the run completes anything.
LEMMA LeftStep ==
  ASSUME TypedOK, RunsAreOwned, CountedIsLoaded, UnstartedHaveNoRow, WorkersExclude,
         NothingLeftIsDone, [Next]_vars
  PROVE  NothingLeftIsDone'
<1> SUFFICES ASSUME NEW v \in Workers PROVE LeftOK(v)'
  BY DEF NothingLeftIsDone, LeftOK
<1>1. TypeOK /\ ProcessesOK /\ LeftOK(v)
  BY DEF TypedOK, NothingLeftIsDone, LeftOK
<1>2. CASE \E w \in Workers : FinishFile(w)
  <2>1. PICK w \in Workers : FinishFile(w)
    BY <1>2
  <2>2. ASSUME NEW u \in Workers, FinishFile(u) PROVE u = w
    BY <2>1, <2>2 DEF FinishFile, WorkersExclude, Live, InRun
  <2>3. /\ pc[w] = "loading" /\ pc' = [pc EXCEPT ![w] = "next"]
        /\ UNCHANGED <<todo, listing, file>>
    BY <2>1 DEF FinishFile, local
  <2>4. CASE v # w
    BY <1>1, <2>3, <2>4 DEF WorkersExclude, Live, InRun, LeftOK, TypeOK
  <2>5. CASE v = w
    <3> SUFFICES ASSUME NEW p \in todo[w], NEW e, e = listing[w][p], Completed(p, e)'
                 PROVE  FALSE
      BY <1>1, <2>3, <2>5 DEF LeftOK, TypeOK
    <3>1. p \in Paths /\ ~Completed(p, e) /\ p # file[w]
      BY <1>1, <2>3, <2>5 DEF LeftOK, TypeOK, UnstartedHaveNoRow
    <3>2. PICK u \in Workers : FinishFile(u) /\ p = file[u]
      BY <3>1, CompletedFrame
    <3>3. QED
      BY <2>2, <3>1, <3>2
  <2>6. QED
    BY <2>4, <2>5
<1>3. CASE \A w \in Workers : ~FinishFile(w)
  <2>a. \A p \in Paths : \A e : Completed(p, e)' => Completed(p, e)
    BY <1>3, NothingCompleted
  <2> USE <1>1 DEF LeftOK, TypeOK, ProcessesOK, ProcessOK, Live, InRun, database, local
  <2>1. ASSUME NEW pp \in Paths, Publish(pp) PROVE LeftOK(v)'
    BY <2>1, <2>a DEF Publish
  <2>2. ASSUME NEW rr \in RunId, Age(rr) PROVE LeftOK(v)'
    BY <2>2, <2>a DEF Age
  <2>3. CASE ReclaimOnly
    BY <2>3, <2>a DEF ReclaimOnly, Reclaimed
  <2>4. ASSUME NEW w \in Workers, Invoke(w) PROVE LeftOK(v)'
    BY <2>4, <2>a DEF Invoke, Reclaimed
  <2>5. ASSUME NEW w \in Workers, StartRun(w) PROVE LeftOK(v)'
    BY <2>5, <2>a DEF StartRun
  <2>6. ASSUME NEW w \in Workers, StartRefused(w) PROVE LeftOK(v)'
    BY <2>6, <2>a DEF StartRefused
  <2>7. ASSUME NEW w \in Workers, Discover(w) PROVE LeftOK(v)'
    BY <2>7, <2>a DEF Discover
  <2>8. ASSUME NEW w \in Workers, Plan(w) PROVE LeftOK(v)'
    BY <2>8, <2>a DEF Plan, Newest, Pending
  <2>9. ASSUME NEW w \in Workers, StartFile(w) PROVE LeftOK(v)'
    BY <2>9, <2>a DEF StartFile
  <2>10. ASSUME NEW w \in Workers, OpenFile(w) PROVE LeftOK(v)'
    BY <2>10, <2>a DEF OpenFile
  <2>11. ASSUME NEW w \in Workers, LoadBatch(w) PROVE LeftOK(v)'
    BY <2>11, <2>a DEF LoadBatch
  <2>12. ASSUME NEW w \in Workers, FinishFile(w) PROVE LeftOK(v)'
    BY <2>12, <2>a DEF FinishFile
  <2>13. ASSUME NEW w \in Workers, FinishFileConflict(w) PROVE LeftOK(v)'
    BY <2>13, <2>a DEF FinishFileConflict
  <2>14. ASSUME NEW w \in Workers, FailFile(w) PROVE LeftOK(v)'
    BY <2>14, <2>a DEF FailFile
  <2>15. ASSUME NEW w \in Workers, RunDone(w) PROVE LeftOK(v)'
    BY <2>15, <2>a DEF RunDone
  <2>16. ASSUME NEW w \in Workers, FinishRun(w) PROVE LeftOK(v)'
    BY <2>16, <2>a DEF FinishRun, Exit
  <2>17. ASSUME NEW w \in Workers, FinishRunConflict(w) PROVE LeftOK(v)'
    BY <2>17, <2>a DEF FinishRunConflict, Exit
  <2>18. ASSUME NEW w \in Workers, LoadFails(w) PROVE LeftOK(v)'
    BY <2>18, <2>a DEF LoadFails
  <2>19. ASSUME NEW w \in Workers, FetchFails(w) PROVE LeftOK(v)'
    BY <2>19, <2>a DEF FetchFails
  <2>20. ASSUME NEW w \in Workers, RunFails(w) PROVE LeftOK(v)'
    BY <2>20, <2>a DEF RunFails
  <2>21. ASSUME NEW w \in Workers, Interrupt(w) PROVE LeftOK(v)'
    BY <2>21, <2>a DEF Interrupt
  <2>22. ASSUME NEW w \in Workers, Crash(w) PROVE LeftOK(v)'
    BY <2>22, <2>a DEF Crash, Exit
  <2>23. CASE UNCHANGED vars
    BY <2>23, <2>a DEF vars
  <2>24. QED
    BY <2>1, <2>2, <2>3, <2>4, <2>5, <2>6, <2>7, <2>8, <2>9, <2>10, <2>11, <2>12, <2>13, <2>14, <2>15, <2>16, <2>17, <2>18, <2>19, <2>20, <2>21, <2>22, <2>23
       DEF Next, Work, Fault
<1>4. QED
  BY <1>2, <1>3

\* The inductive invariant under the window assumption.
THEOREM LockInvariant == ASSUME ~LiveRunsMayAge PROVE Spec => []LockInv
<1>1. Init => Exclusive /\ NothingLeftIsDone
  BY DEF Init, Exclusive, LockIsHeld, LiveRunsHoldTheLock, WorkersExclude, OneActiveRun, Live,
         InRun, Active, NothingLeftIsDone
<1>2. /\ TypedOK /\ RunsAreOwned /\ CountedIsLoaded /\ UnstartedHaveNoRow
      /\ Exclusive /\ NothingLeftIsDone /\ [Next]_vars
      => (Exclusive /\ NothingLeftIsDone)'
  <2> SUFFICES ASSUME TypedOK, RunsAreOwned, CountedIsLoaded, UnstartedHaveNoRow,
                      Exclusive, NothingLeftIsDone, [Next]_vars
               PROVE  Exclusive' /\ NothingLeftIsDone'
    OBVIOUS
  <2>1. WorkersExclude
    BY DEF Exclusive
  <2>2. QED
    BY <2>1, ExclusiveStep, LeftStep
<1>3. /\ TypedOK /\ RunsAreOwned /\ CountedIsLoaded /\ UnstartedHaveNoRow
      /\ SucceededFilesAreLoaded /\ Exclusive /\ NothingLeftIsDone
      => LockInv
  BY DEF LockInv, TablesInv, TypedOK, Exclusive
<1>4. QED
  BY <1>1, <1>2, <1>3, Typed, Owned, Counted, Unstarted, SucceededLoaded, PTL DEF Spec

\* A run that ended, reclaimed or finished, keeps its status: the only unguarded update of
\* a row, finish_run's (sync.py 195-224), meets a row that is still RUNNING.
THEOREM EndedStay == ASSUME ~LiveRunsMayAge PROVE Spec => EndedRunsStay
<1>1. LockInv /\ [Next]_vars
        => [\A r \in RunId : syncRuns[r] \in Terminal => syncRuns'[r] = syncRuns[r]]_vars
  <2> SUFFICES ASSUME LockInv, [Next]_vars, NEW r \in RunId, syncRuns[r] \in Terminal
               PROVE  syncRuns'[r] = syncRuns[r]
    OBVIOUS
  <2>a. TypeOK /\ LiveRunsHoldTheLock /\ ProcessesOK
    BY DEF LockInv, TablesInv
  <2> USE <2>a DEF TypeOK, LiveRunsHoldTheLock, Live, InRun, Terminal, Active, ActiveRuns,
                   database, local
  <2>1. ASSUME NEW pp \in Paths, Publish(pp) PROVE syncRuns'[r] = syncRuns[r]
    BY <2>1 DEF Publish
  <2>2. ASSUME NEW rr \in RunId, Age(rr) PROVE syncRuns'[r] = syncRuns[r]
    BY <2>2 DEF Age
  <2>3. CASE ReclaimOnly
    BY <2>3 DEF ReclaimOnly, Reclaimed
  <2>4. ASSUME NEW w \in Workers, Invoke(w) PROVE syncRuns'[r] = syncRuns[r]
    BY <2>4 DEF Invoke, Reclaimed
  <2>5. ASSUME NEW w \in Workers, StartRun(w) PROVE syncRuns'[r] = syncRuns[r]
    BY <2>5 DEF StartRun
  <2>6. ASSUME NEW w \in Workers, StartRefused(w) PROVE syncRuns'[r] = syncRuns[r]
    BY <2>6 DEF StartRefused
  <2>7. ASSUME NEW w \in Workers, Discover(w) PROVE syncRuns'[r] = syncRuns[r]
    BY <2>7 DEF Discover
  <2>8. ASSUME NEW w \in Workers, Plan(w) PROVE syncRuns'[r] = syncRuns[r]
    BY <2>8 DEF Plan, Newest, Pending
  <2>9. ASSUME NEW w \in Workers, StartFile(w) PROVE syncRuns'[r] = syncRuns[r]
    BY <2>9 DEF StartFile
  <2>10. ASSUME NEW w \in Workers, OpenFile(w) PROVE syncRuns'[r] = syncRuns[r]
    BY <2>10 DEF OpenFile
  <2>11. ASSUME NEW w \in Workers, LoadBatch(w) PROVE syncRuns'[r] = syncRuns[r]
    BY <2>11 DEF LoadBatch
  <2>12. ASSUME NEW w \in Workers, FinishFile(w) PROVE syncRuns'[r] = syncRuns[r]
    BY <2>12 DEF FinishFile
  <2>13. ASSUME NEW w \in Workers, FinishFileConflict(w) PROVE syncRuns'[r] = syncRuns[r]
    BY <2>13 DEF FinishFileConflict
  <2>14. ASSUME NEW w \in Workers, FailFile(w) PROVE syncRuns'[r] = syncRuns[r]
    BY <2>14 DEF FailFile
  <2>15. ASSUME NEW w \in Workers, RunDone(w) PROVE syncRuns'[r] = syncRuns[r]
    BY <2>15 DEF RunDone
  <2>16. ASSUME NEW w \in Workers, FinishRun(w) PROVE syncRuns'[r] = syncRuns[r]
    BY <2>16 DEF FinishRun, Exit
  <2>17. ASSUME NEW w \in Workers, FinishRunConflict(w) PROVE syncRuns'[r] = syncRuns[r]
    BY <2>17 DEF FinishRunConflict, Exit
  <2>18. ASSUME NEW w \in Workers, LoadFails(w) PROVE syncRuns'[r] = syncRuns[r]
    BY <2>18 DEF LoadFails
  <2>19. ASSUME NEW w \in Workers, FetchFails(w) PROVE syncRuns'[r] = syncRuns[r]
    BY <2>19 DEF FetchFails
  <2>20. ASSUME NEW w \in Workers, RunFails(w) PROVE syncRuns'[r] = syncRuns[r]
    BY <2>20 DEF RunFails
  <2>21. ASSUME NEW w \in Workers, Interrupt(w) PROVE syncRuns'[r] = syncRuns[r]
    BY <2>21 DEF Interrupt
  <2>22. ASSUME NEW w \in Workers, Crash(w) PROVE syncRuns'[r] = syncRuns[r]
    BY <2>22 DEF Crash, Exit
  <2>23. CASE UNCHANGED vars
    BY <2>23 DEF vars
  <2>24. QED
    BY <2>1, <2>2, <2>3, <2>4, <2>5, <2>6, <2>7, <2>8, <2>9, <2>10, <2>11, <2>12, <2>13, <2>14, <2>15, <2>16, <2>17, <2>18, <2>19, <2>20, <2>21, <2>22, <2>23
       DEF Next, Work, Fault
<1>2. Spec => []LockInv
  BY LockInvariant
<1>3. QED
  BY <1>1, <1>2, PTL DEF Spec, EndedRunsStay

\* No process starts a version of a file that is already SUCCEEDED (sync.py 313-334 is read
\* once per run, before the files ahead of it are processed).
THEOREM IngestedOnce == ASSUME ~LiveRunsMayAge PROVE Spec => NothingIsIngestedTwice
<1>1. LockInv /\ [Next]_vars
        => [\A w \in Workers : pc[w] = "next" /\ pc'[w] = "opening" =>
              ~Completed(file'[w], listing[w][file'[w]])]_vars
  <2> SUFFICES ASSUME LockInv, [Next]_vars, NEW v \in Workers,
                      pc[v] = "next", pc'[v] = "opening"
               PROVE  ~Completed(file'[v], listing[v][file'[v]])
    OBVIOUS
  <2>a. TypeOK /\ NothingLeftIsDone
    BY DEF LockInv, TablesInv
  <2> DEFINE Goal == ~Completed(file'[v], listing[v][file'[v]])
  <2> USE <2>a DEF TypeOK, NothingLeftIsDone, database, local
  <2>1. ASSUME NEW pp \in Paths, Publish(pp) PROVE Goal
    BY <2>1 DEF Publish
  <2>2. ASSUME NEW rr \in RunId, Age(rr) PROVE Goal
    BY <2>2 DEF Age
  <2>3. CASE ReclaimOnly
    BY <2>3 DEF ReclaimOnly, Reclaimed
  <2>4. ASSUME NEW w \in Workers, Invoke(w) PROVE Goal
    BY <2>4 DEF Invoke, Reclaimed
  <2>5. ASSUME NEW w \in Workers, StartRun(w) PROVE Goal
    BY <2>5 DEF StartRun
  <2>6. ASSUME NEW w \in Workers, StartRefused(w) PROVE Goal
    BY <2>6 DEF StartRefused
  <2>7. ASSUME NEW w \in Workers, Discover(w) PROVE Goal
    BY <2>7 DEF Discover
  <2>8. ASSUME NEW w \in Workers, Plan(w) PROVE Goal
    BY <2>8 DEF Plan, Newest, Pending
  <2>9. ASSUME NEW w \in Workers, StartFile(w) PROVE Goal
    BY <2>9 DEF StartFile
  <2>10. ASSUME NEW w \in Workers, OpenFile(w) PROVE Goal
    BY <2>10 DEF OpenFile
  <2>11. ASSUME NEW w \in Workers, LoadBatch(w) PROVE Goal
    BY <2>11 DEF LoadBatch
  <2>12. ASSUME NEW w \in Workers, FinishFile(w) PROVE Goal
    BY <2>12 DEF FinishFile
  <2>13. ASSUME NEW w \in Workers, FinishFileConflict(w) PROVE Goal
    BY <2>13 DEF FinishFileConflict
  <2>14. ASSUME NEW w \in Workers, FailFile(w) PROVE Goal
    BY <2>14 DEF FailFile
  <2>15. ASSUME NEW w \in Workers, RunDone(w) PROVE Goal
    BY <2>15 DEF RunDone
  <2>16. ASSUME NEW w \in Workers, FinishRun(w) PROVE Goal
    BY <2>16 DEF FinishRun, Exit
  <2>17. ASSUME NEW w \in Workers, FinishRunConflict(w) PROVE Goal
    BY <2>17 DEF FinishRunConflict, Exit
  <2>18. ASSUME NEW w \in Workers, LoadFails(w) PROVE Goal
    BY <2>18 DEF LoadFails
  <2>19. ASSUME NEW w \in Workers, FetchFails(w) PROVE Goal
    BY <2>19 DEF FetchFails
  <2>20. ASSUME NEW w \in Workers, RunFails(w) PROVE Goal
    BY <2>20 DEF RunFails
  <2>21. ASSUME NEW w \in Workers, Interrupt(w) PROVE Goal
    BY <2>21 DEF Interrupt
  <2>22. ASSUME NEW w \in Workers, Crash(w) PROVE Goal
    BY <2>22 DEF Crash, Exit
  <2>23. CASE UNCHANGED vars
    BY <2>23 DEF vars
  <2>24. QED
    BY <2>1, <2>2, <2>3, <2>4, <2>5, <2>6, <2>7, <2>8, <2>9, <2>10, <2>11, <2>12, <2>13, <2>14, <2>15, <2>16, <2>17, <2>18, <2>19, <2>20, <2>21, <2>22, <2>23
       DEF Next, Work, Fault
<1>2. Spec => []LockInv
  BY LockInvariant
<1>3. QED
  BY <1>1, <1>2, PTL DEF Spec, NothingIsIngestedTwice

-------------------------------------------------------------------------------
(* The ledger *)

\* How a step moves the lock or the jobs table.
LockMove ==
  \/ ActiveRuns' = ActiveRuns /\ loaded' = loaded
  \/ ActiveRuns = {} /\ (\E h \in RunId : ActiveRuns' = {h}) /\ loaded' = loaded
  \/ ActiveRuns # {} /\ ActiveRuns' = {} /\ loaded' = loaded
  \/ /\ ActiveRuns # {} /\ ActiveRuns' = ActiveRuns
     /\ \E p \in Paths, v \in Revision, b \in 1..Batches : loaded' = loaded \cup {<<p, v, b>>}

LEMMA LockMoves == ASSUME LockInv, [Next]_vars PROVE LockMove
<1>1. LockMove
  <2>a. TypeOK /\ ProcessesOK /\ LiveRunsHoldTheLock /\ OneActiveRun
    BY DEF LockInv, TablesInv
  <2>1. ASSUME NEW pp \in Paths, Publish(pp) PROVE LockMove
    BY <2>1 DEF Publish, LockMove, ActiveRuns, database, local
  <2>2. ASSUME NEW rr \in RunId, Age(rr) PROVE LockMove
    BY <2>2 DEF Age, LockMove, ActiveRuns, database, local
  <2>3. CASE ReclaimOnly
    <3>1. syncRuns' = Reclaimed /\ UNCHANGED loaded
      BY <2>3 DEF ReclaimOnly
    <3>2. ActiveRuns' = ActiveRuns \ old
      BY <3>1, <2>a DEF Reclaimed, ActiveRuns, Active, TypeOK
    <3>3. ActiveRuns' = ActiveRuns \/ (ActiveRuns # {} /\ ActiveRuns' = {})
      BY <3>2, <2>a DEF OneActiveRun, ActiveRuns, Active
    <3>4. QED
      BY <3>1, <3>3 DEF LockMove
  <2>4. ASSUME NEW w \in Workers, Invoke(w) PROVE LockMove
    <3>1. syncRuns' = Reclaimed /\ UNCHANGED loaded
      BY <2>4 DEF Invoke
    <3>2. ActiveRuns' = ActiveRuns \ old
      BY <3>1, <2>a DEF Reclaimed, ActiveRuns, Active, TypeOK
    <3>3. ActiveRuns' = ActiveRuns \/ (ActiveRuns # {} /\ ActiveRuns' = {})
      BY <3>2, <2>a DEF OneActiveRun, ActiveRuns, Active
    <3>4. QED
      BY <3>1, <3>3 DEF LockMove
  <2>5. ASSUME NEW w \in Workers, StartRun(w) PROVE LockMove
    <3>1. ActiveRuns = {} /\ UNCHANGED loaded
      BY <2>5 DEF StartRun
    <3>2. PICK h \in RunId : syncRuns' = [syncRuns EXCEPT ![h] = "RUNNING"]
      BY <2>5 DEF StartRun
    <3>3. ActiveRuns' = {h}
      BY <3>1, <3>2, <2>a DEF ActiveRuns, Active, TypeOK
    <3>4. QED
      BY <3>1, <3>3 DEF LockMove
  <2>6. ASSUME NEW w \in Workers, StartRefused(w) PROVE LockMove
    BY <2>6 DEF StartRefused, LockMove, ActiveRuns, database, local
  <2>7. ASSUME NEW w \in Workers, Discover(w) PROVE LockMove
    BY <2>7 DEF Discover, LockMove, ActiveRuns, database, local
  <2>8. ASSUME NEW w \in Workers, Plan(w) PROVE LockMove
    BY <2>8 DEF Plan, Newest, Pending, LockMove, ActiveRuns, database, local
  <2>9. ASSUME NEW w \in Workers, StartFile(w) PROVE LockMove
    BY <2>9 DEF StartFile, LockMove, ActiveRuns, database, local
  <2>10. ASSUME NEW w \in Workers, OpenFile(w) PROVE LockMove
    BY <2>10 DEF OpenFile, LockMove, ActiveRuns, database, local
  <2>11. ASSUME NEW w \in Workers, LoadBatch(w) PROVE LockMove
    <3>1. /\ file[w] \in Paths /\ rev[w] \in Revision /\ committed[w] + 1 \in 1..Batches
          /\ UNCHANGED syncRuns
          /\ loaded' = loaded \cup {<<file[w], rev[w], committed[w] + 1>>}
      BY <2>11, <2>a, SyncRunsAssumption
         DEF LoadBatch, TypeOK, ProcessesOK, ProcessOK, Live, InRun, Revision
    <3>2. run[w] \in ActiveRuns
      BY <2>11, <2>a DEF LoadBatch, LiveRunsHoldTheLock, ProcessesOK, ProcessOK, Live, InRun,
                     ActiveRuns, Active
    <3>3. QED
      BY <3>1, <3>2 DEF LockMove, ActiveRuns
  <2>12. ASSUME NEW w \in Workers, FinishFile(w) PROVE LockMove
    BY <2>12 DEF FinishFile, LockMove, ActiveRuns, database, local
  <2>13. ASSUME NEW w \in Workers, FinishFileConflict(w) PROVE LockMove
    BY <2>13 DEF FinishFileConflict, LockMove, ActiveRuns, database, local
  <2>14. ASSUME NEW w \in Workers, FailFile(w) PROVE LockMove
    BY <2>14 DEF FailFile, LockMove, ActiveRuns, database, local
  <2>15. ASSUME NEW w \in Workers, RunDone(w) PROVE LockMove
    BY <2>15 DEF RunDone, LockMove, ActiveRuns, database, local
  <2>16. ASSUME NEW w \in Workers, FinishRun(w) PROVE LockMove
    <3>1. UNCHANGED loaded /\ pc[w] = "closing"
          /\ syncRuns' = [syncRuns EXCEPT ![run[w]] = outcome[w]]
      BY <2>16 DEF FinishRun
    <3>2. run[w] \in RunId /\ ActiveRuns = {run[w]}
      BY <3>1, <2>a DEF ActiveRuns, Active, Live, InRun, LiveRunsHoldTheLock, OneActiveRun,
                        ProcessesOK, ProcessOK
    <3>3. ActiveRuns' = IF outcome[w] \in Active THEN {run[w]} ELSE {}
      BY <3>1, <3>2, <2>a DEF ActiveRuns, Active, TypeOK
    <3>4. QED
      BY <3>1, <3>2, <3>3 DEF LockMove
  <2>17. ASSUME NEW w \in Workers, FinishRunConflict(w) PROVE LockMove
    BY <2>17 DEF FinishRunConflict, Exit, LockMove, ActiveRuns, database, local
  <2>18. ASSUME NEW w \in Workers, LoadFails(w) PROVE LockMove
    BY <2>18 DEF LoadFails, LockMove, ActiveRuns, database, local
  <2>19. ASSUME NEW w \in Workers, FetchFails(w) PROVE LockMove
    BY <2>19 DEF FetchFails, LockMove, ActiveRuns, database, local
  <2>20. ASSUME NEW w \in Workers, RunFails(w) PROVE LockMove
    BY <2>20 DEF RunFails, LockMove, ActiveRuns, database, local
  <2>21. ASSUME NEW w \in Workers, Interrupt(w) PROVE LockMove
    BY <2>21 DEF Interrupt, LockMove, ActiveRuns, database, local
  <2>22. ASSUME NEW w \in Workers, Crash(w) PROVE LockMove
    BY <2>22 DEF Crash, Exit, LockMove, ActiveRuns, database, local
  <2>23. CASE UNCHANGED vars
    BY <2>23 DEF vars, LockMove, ActiveRuns, database, local
  <2>24. QED
    BY <2>1, <2>2, <2>3, <2>4, <2>5, <2>6, <2>7, <2>8, <2>9, <2>10, <2>11, <2>12, <2>13, <2>14, <2>15, <2>16, <2>17, <2>18, <2>19, <2>20, <2>21, <2>22, <2>23
       DEF Next, Work, Fault
<1>2. QED
  BY <1>1

\* A step that finishes no file leaves what is certified as it is.
LEMMA CertifiedSame ==
  ASSUME LockInv, [Next]_vars, \A w \in Workers : ~FinishFile(w)
  PROVE  Certified' = Certified
<1>1. TypedOK /\ CountedIsLoaded /\ UnstartedHaveNoRow
  BY DEF LockInv, TablesInv, TypedOK
<1>2. \A p \in Paths : \A e : Completed(p, e)' => Completed(p, e)
  BY <1>1, NothingCompleted
<1>3. \A p \in Paths : \A e : Completed(p, e) => Completed(p, e)'
  BY <1>1, CompletedStays
<1>4. \A pe \in Paths \X Revision : Completed(pe[1], pe[2])' <=> Completed(pe[1], pe[2])
  BY <1>2, <1>3
<1>5. QED
  BY <1>4 DEF Certified

\* The file that is finished is certified, for the first time and over whole content.
LEMMA CertifiedOne ==
  ASSUME LockInv, [Next]_vars, NEW w \in Workers, FinishFile(w)
  PROVE  Ledger!Certify
<1> SUFFICES ASSUME NEW p, p = file[w], NEW e, e = listing[w][p] PROVE Ledger!Certify
  OBVIOUS
<1>1. TypedOK /\ CountedIsLoaded /\ UnstartedHaveNoRow /\ TypeOK /\ ProcessesOK
      /\ WorkersExclude /\ LiveRunsHoldTheLock
  BY DEF LockInv, TablesInv, TypedOK
<1>2. pc[w] = "loading" /\ committed[w] = Batches /\ ~Completed(p, e)
      /\ UNCHANGED <<syncRuns, loaded>>
  BY DEF FinishFile
<1>3. p \in Paths /\ e \in Revision /\ rev[w] \in Revision /\ rev[w] >= e
  <2>1. p \in Paths /\ e > 0 /\ e <= rev[w]
    BY <1>1, <1>2 DEF ProcessesOK, ProcessOK
  <2>2. e \in 0..MaxRevision /\ rev[w] \in 0..MaxRevision
    BY <1>1, <2>1 DEF TypeOK
  <2>3. QED
    BY <2>1, <2>2, SyncRunsAssumption DEF Revision
<1>4. \A b \in 1..Batches : <<p, rev[w], b>> \in loaded
  BY <1>1, <1>2 DEF CountedIsLoaded
<1>5. run[w] \in ActiveRuns
  BY <1>1, <1>2 DEF LiveRunsHoldTheLock, ProcessesOK, ProcessOK, Live, InRun, ActiveRuns, Active
<1>6. <<p, e>> \notin Certified
  BY <1>2 DEF Certified
<1>7. Certified' = Certified \cup {<<p, e>>}
  <2>1. ASSUME NEW q \in Paths, NEW f, Completed(q, f)' PROVE Completed(q, f) \/ (q = p /\ f = e)
    <3>1. ASSUME NEW u \in Workers, FinishFile(u) PROVE u = w
      BY <1>1, <1>2, <3>1 DEF FinishFile, WorkersExclude, Live, InRun
    <3>2. QED
      BY <1>1, <2>1, <3>1, CompletedFrame
  <2>2. \A q \in Paths : \A f : Completed(q, f) => Completed(q, f)'
    BY <1>1, CompletedStays
  <2>3. Completed(p, e)'
    <3>1. run[w] \in RunId /\ syncFiles[run[w]][p] \in FileRow /\ syncFiles[run[w]][p].etag = e
      BY <1>1, <1>2, <1>3, RowTyped
         DEF ProcessesOK, ProcessOK, Live, InRun, TypeOK, CountedIsLoaded
    <3>2. syncFiles'[run[w]][p] =
            [syncFiles[run[w]][p] EXCEPT !.status = "SUCCEEDED", !.claimed = committed[w]]
      BY <1>1, <1>3, <3>1, RowAt, ZenonT(40) DEF FinishFile, TypeOK
    <3>3. syncFiles'[run[w]][p].status = "SUCCEEDED" /\ syncFiles'[run[w]][p].etag = e
      BY <3>1, <3>2 DEF FileRow
    <3>4. QED
      BY <3>1, <3>3 DEF Completed
  <2>4. \A pe \in Paths \X Revision :
          Completed(pe[1], pe[2])' <=> Completed(pe[1], pe[2]) \/ pe = <<p, e>>
    BY <2>1, <2>2, <2>3
  <2>5. QED
    BY <1>3, <2>4 DEF Certified
<1>8. ActiveRuns' = ActiveRuns
  BY <1>2 DEF ActiveRuns
<1>9. QED
  BY <1>2, <1>3, <1>4, <1>5, <1>6, <1>7, <1>8 DEF Ledger!Certify, Ledger!Whole

\* The tables implement the ledger: every write of content and every SUCCEEDED happens
\* under the lock, a version is certified once, and nothing certified is lost.
THEOREM Refinement == ASSUME ~LiveRunsMayAge PROVE Spec => ImplementsLedger
<1>1. Init => Ledger!LedgerInit
  BY DEF Init, Ledger!LedgerInit, ActiveRuns, Active, Certified, Completed, NoFileRow
<1>2. LockInv /\ [Next]_vars => [Ledger!LedgerNext]_(Ledger!ledgerVars)
  <2> SUFFICES ASSUME LockInv, [Next]_vars PROVE [Ledger!LedgerNext]_(Ledger!ledgerVars)
    OBVIOUS
  <2>1. CASE \E w \in Workers : FinishFile(w)
    BY <2>1, CertifiedOne DEF Ledger!LedgerNext
  <2>2. CASE \A w \in Workers : ~FinishFile(w)
    <3>1. Certified' = Certified
      BY <2>2, CertifiedSame
    <3>2. LockMove
      BY LockMoves
    <3>3. QED
      BY <3>1, <3>2 DEF LockMove, Ledger!LedgerNext, Ledger!Acquire, Ledger!Release,
                        Ledger!Store, Ledger!ledgerVars
  <2>3. QED
    BY <2>1, <2>2
<1>3. Spec => []LockInv
  BY LockInvariant
<1>4. QED
  BY <1>1, <1>2, <1>3, PTL DEF Spec, ImplementsLedger, Ledger!LedgerSpec

===============================================================================
