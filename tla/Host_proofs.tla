------------------------------ MODULE Host_proofs ------------------------------
(***************************************************************************)
(* Proofs about what runs on the host: retention, purges and backups, of   *)
(* which RetentionInv is inductive, and the scripts that deploy and roll   *)
(* back, of which DeployInv is.  The two share no variable.                *)
(***************************************************************************)
EXTENDS Retention, Deploy, TLAPS

(***************************************************************************)
(* Retention, purges and backups                                           *)
(***************************************************************************)

LEMMA InitRetention == Init => RetentionInv
  BY RetentionAssumption
  DEF Init, RetentionInv, TypeOK, DumpsHoldTheOlder, GateBounds, GuardsHold, ChosenAreOld, Stored,
      Scripts

\* The instants that a posting may carry are instants.
LEMMA DatesType == TypeOK => \A at \in Dates : at \in Int \cup {NoDate}
  BY RetentionAssumption DEF Dates, TypeOK

LEMMA GateTime == Gate * Day \in Nat /\ (KeepDays + 1) * Day \in Nat /\ (KeepDays + 1) * Day >= Day
  <1>1. KeepDays * Day \in Nat /\ (KeepDays + 1) * Day = KeepDays * Day + Day
    BY RetentionAssumption, Z3
  <1>2. Gate * Day \in Nat
    BY RetentionAssumption, Z3
  <1>3. QED
    BY <1>1, <1>2, RetentionAssumption

\* What the files of the directory become when a backup ends.
LEMMA DumpsEnd ==
  ASSUME RetentionInv, BackupFails \/ BackupUnreadable \/ BackupDone
  PROVE  /\ \A e \in dumps' : \E d \in dumps : e.at = d.at /\ e.jobs = d.jobs /\ e \in Dump
         /\ \A d \in dumps : Recent(d) /\ d.state # "writing" => d \in dumps'
         /\ UNCHANGED <<now, windows, jobs, events, pc, batch>>
  <1>1. TypeOK /\ DumpsHoldTheOlder
    BY DEF RetentionInv
  <1>2. \A state \in {"readable", "unreadable"} : \A e \in WrittenAs(state) :
          \E d \in dumps : e.at = d.at /\ e.jobs = d.jobs /\ e \in Dump
    BY <1>1 DEF WrittenAs, TypeOK, Dump
  <1>3. \A d \in Finished : d \in dumps /\ d \in Dump
    BY <1>1 DEF Finished, TypeOK
  <1>4. dumps' \subseteq Finished \cup WrittenAs("readable") \cup WrittenAs("unreadable")
    BY DEF BackupFails, BackupUnreadable, BackupDone
  <1>5. ASSUME NEW d \in dumps, Recent(d), d.state # "writing" PROVE d \in dumps'
    <2>1. d \in Finished
      BY <1>5 DEF Finished
    <2>2. ~Expired(d)
      <3>1. now \in Int /\ d.at \in Int /\ Day \in Int
        BY <1>1, RetentionAssumption DEF TypeOK, Dump
      <3>2. QED
        BY <1>5, <3>1, GateTime DEF Recent, Expired
    <2>3. QED
      BY <2>1, <2>2 DEF BackupFails, BackupUnreadable, BackupDone
  <1>6. QED
    BY <1>2, <1>3, <1>4, <1>5 DEF BackupFails, BackupUnreadable, BackupDone

LEMMA NextType == RetentionInv /\ [Next]_vars => TypeOK'
  <1> SUFFICES ASSUME RetentionInv, [Next]_vars PROVE TypeOK'
    OBVIOUS
  <1>0. TypeOK
    BY DEF RetentionInv
  <1> USE DEF TypeOK
  <1>1. CASE Tick
    <2>1. now + 1 \in Start..MaxNow
      BY <1>0, <1>1, RetentionAssumption DEF Tick
    <2>2. QED
      BY <1>0, <1>1, <2>1 DEF Tick, windows, jobs, batch
  <1>2. CASE BackupStart
    <2>1. [at |-> now, state |-> "writing", jobs |-> Stored] \in Dump
      BY <1>0 DEF Dump, Stored
    <2>2. QED
      BY <1>0, <1>2, <2>1 DEF BackupStart, windows, jobs, batch
  <1>3. CASE BackupFails \/ BackupUnreadable \/ BackupDone
    <2>1. dumps' \subseteq Dump
      BY <1>3, DumpsEnd
    <2>2. QED
      BY <1>0, <1>3, <2>1, DumpsEnd DEF windows, jobs, batch
  <1>4. ASSUME NEW j \in Jobs, Insert(j) \/ Update(j) PROVE TypeOK'
    BY <1>0, <1>4, DatesType DEF Insert, Update, windows, jobs, batch
  <1>5. CASE ExpireStart \/ PurgeStart
    BY <1>0, <1>5 DEF ExpireStart, PurgeStart, Scripts, windows, jobs, batch
  <1>6. CASE Sweep
    BY <1>0, <1>6 DEF Sweep, Scripts, windows, jobs, batch
  <1>7. ASSUME NEW s \in Scripts, PickBatch(s) \/ WriteBatch(s) PROVE TypeOK'
    <2>1. CASE PickBatch(s)
      <3>1. Matching(s) \subseteq Jobs
        BY DEF Matching, Stored
      <3>. QED  BY <1>0, <2>1, <3>1 DEF PickBatch, Scripts, windows, jobs
    <2>2. CASE WriteBatch(s)
      BY <1>0, <2>2 DEF WriteBatch, NextAfter, Scripts, windows
    <2>. QED  BY <1>7, <2>1, <2>2
  <1>8. ASSUME NEW s \in Scripts, WorkDone(s) \/ Die(s) PROVE TypeOK'
    BY <1>0, <1>8 DEF WorkDone, NextAfter, Die, Scripts, windows, jobs, batch
  <1>9. CASE UNCHANGED vars
    BY <1>0, <1>9 DEF vars, windows, jobs, batch
  <1>10. QED
    BY <1>1, <1>2, <1>3, <1>4, <1>5, <1>6, <1>7, <1>8, <1>9 DEF Next, Backup

LEMMA NextDumps == RetentionInv /\ [Next]_vars => DumpsHoldTheOlder'
  <1> SUFFICES ASSUME RetentionInv, [Next]_vars PROVE DumpsHoldTheOlder'
    OBVIOUS
  <1>0. TypeOK /\ DumpsHoldTheOlder
    BY DEF RetentionInv
  <1>1. CASE Tick
    BY <1>0, <1>1 DEF Tick, TypeOK, Dump, DumpsHoldTheOlder, Stored, jobs
  <1>2. CASE BackupStart
    BY <1>0, <1>2 DEF BackupStart, TypeOK, DumpsHoldTheOlder, Stored, jobs
  <1>3. CASE BackupFails \/ BackupUnreadable \/ BackupDone
    BY <1>0, <1>3, DumpsEnd DEF DumpsHoldTheOlder, Stored, jobs
  <1>4. ASSUME NEW j \in Jobs, Insert(j) PROVE DumpsHoldTheOlder'
    <2>1. \A k \in Stored' : (k \in Stored /\ seen'[k] = seen[k]) \/ (k = j /\ seen'[k] = now)
      BY <1>0, <1>4 DEF Insert, Stored, TypeOK
    <2>2. \A d \in dumps : ~(now < d.at)
      BY <1>0 DEF DumpsHoldTheOlder, TypeOK, Dump
    <2>3. QED
      BY <1>0, <1>4, <2>1, <2>2 DEF DumpsHoldTheOlder, Insert
  <1>5. ASSUME NEW j \in Jobs, Update(j) PROVE DumpsHoldTheOlder'
    <2>1. Stored' \subseteq Stored
      BY <1>0, <1>5 DEF Update, Stored, TypeOK
    <2>2. QED
      BY <1>0, <1>5, <2>1 DEF DumpsHoldTheOlder, Update
  <1>6. CASE ExpireStart \/ PurgeStart \/ Sweep
    BY <1>0, <1>6 DEF ExpireStart, PurgeStart, Sweep, DumpsHoldTheOlder, Stored, jobs
  <1>7. ASSUME NEW s \in Scripts, PickBatch(s) \/ WriteBatch(s) PROVE DumpsHoldTheOlder'
    <2>1. Stored' \subseteq Stored
      BY <1>0, <1>7 DEF PickBatch, WriteBatch, Stored, TypeOK, jobs
    <2>2. QED
      BY <1>0, <1>7, <2>1 DEF DumpsHoldTheOlder, PickBatch, WriteBatch, jobs
  <1>8. ASSUME NEW s \in Scripts, WorkDone(s) \/ Die(s) PROVE DumpsHoldTheOlder'
    BY <1>0, <1>8 DEF WorkDone, Die, DumpsHoldTheOlder, Stored, jobs
  <1>9. CASE UNCHANGED vars
    BY <1>0, <1>9 DEF vars, DumpsHoldTheOlder, Stored, jobs
  <1>10. QED
    BY <1>1, <1>2, <1>3, <1>4, <1>5, <1>6, <1>7, <1>8, <1>9 DEF Next, Backup

LEMMA NextGate == RetentionInv /\ [Next]_vars => GateBounds'
  <1> SUFFICES ASSUME RetentionInv, [Next]_vars PROVE GateBounds'
    OBVIOUS
  <1>0. TypeOK /\ GateBounds /\ now \in Int /\ Gate * Day \in Nat /\ NoDate \notin Int
    BY GateTime, RetentionAssumption DEF RetentionInv, TypeOK
  <1>1. CASE Tick
    BY <1>0, <1>1 DEF Tick, TypeOK, GateBounds, Stored, jobs
  <1>2. CASE BackupStart \/ BackupFails \/ BackupUnreadable \/ BackupDone
    BY <1>0, <1>2 DEF BackupStart, BackupFails, BackupUnreadable, BackupDone, GateBounds, Stored, jobs
  <1>3. ASSUME NEW j \in Jobs, Insert(j) \/ Update(j) PROVE GateBounds'
    <2>1. now' = now /\ seen'[j] \in Int /\ seen'[j] <= now
      BY <1>0, <1>3, RetentionAssumption DEF Insert, Update, TypeOK, GateBounds
    <2>2. posted'[j] \in Int \cup {NoDate} /\ PassesGate(posted'[j])
      BY <1>0, <1>3, DatesType DEF Insert, Update, TypeOK
    <2>3. Gate > 0 /\ posted'[j] # NoDate => posted'[j] >= seen'[j] - Gate * Day
      BY <1>0, <2>1, <2>2, RetentionAssumption DEF PassesGate
    <2>4. \A k \in Stored' : k # j => k \in Stored /\ seen'[k] = seen[k] /\ posted'[k] = posted[k]
      BY <1>0, <1>3 DEF Insert, Update, TypeOK, Stored
    <2>5. QED
      BY <1>0, <2>1, <2>3, <2>4 DEF GateBounds
  <1>4. CASE ExpireStart \/ PurgeStart \/ Sweep
    BY <1>0, <1>4 DEF ExpireStart, PurgeStart, Sweep, GateBounds, Stored, jobs
  <1>5. ASSUME NEW s \in Scripts, PickBatch(s) \/ WriteBatch(s) PROVE GateBounds'
    <2>1. Stored' \subseteq Stored
      BY <1>0, <1>5 DEF PickBatch, WriteBatch, Stored, TypeOK, jobs
    <2>2. QED
      BY <1>0, <1>5, <2>1 DEF GateBounds, PickBatch, WriteBatch, jobs
  <1>6. ASSUME NEW s \in Scripts, WorkDone(s) \/ Die(s) PROVE GateBounds'
    BY <1>0, <1>6 DEF WorkDone, Die, GateBounds, Stored, jobs
  <1>7. CASE UNCHANGED vars
    BY <1>0, <1>7 DEF vars, GateBounds, Stored, jobs
  <1>8. QED
    BY <1>1, <1>2, <1>3, <1>4, <1>5, <1>6, <1>7 DEF Next, Backup

LEMMA NextGuards == RetentionInv /\ [Next]_vars => GuardsHold'
  <1> SUFFICES ASSUME RetentionInv, [Next]_vars PROVE GuardsHold'
    OBVIOUS
  <1>0. TypeOK /\ GuardsHold
    BY DEF RetentionInv
  <1> USE DEF GuardsHold, WindowsFit, Recent
  <1>1. CASE Tick
    BY <1>0, <1>1 DEF Tick, TypeOK, Scripts
  <1>2. CASE BackupStart
    BY <1>0, <1>2 DEF BackupStart, windows
  <1>3. CASE BackupFails \/ BackupUnreadable \/ BackupDone
    BY <1>0, <1>3, DumpsEnd DEF windows
  <1>4. ASSUME NEW j \in Jobs, Insert(j) \/ Update(j) PROVE GuardsHold'
    BY <1>0, <1>4 DEF Insert, Update, windows
  <1>5. CASE ExpireStart
    BY <1>0, <1>5 DEF ExpireStart, TypeOK, windows
  <1>6. CASE PurgeStart
    BY <1>0, <1>6 DEF PurgeStart, Writing, windows
  <1>7. CASE Sweep
    BY <1>0, <1>7 DEF Sweep, TypeOK, Scripts
  <1>8. ASSUME NEW s \in Scripts, PickBatch(s) \/ WriteBatch(s) PROVE GuardsHold'
    <2>1. /\ pc'["purge"] \in {"working", "writing"} => pc["purge"] \in {"working", "writing"}
          /\ UNCHANGED <<now, retention, purgeAfter, dumps>>
      BY <1>0, <1>8 DEF PickBatch, WriteBatch, NextAfter, TypeOK, Scripts, windows
    <2>. QED  BY <1>0, <2>1
  <1>9. ASSUME NEW s \in Scripts, WorkDone(s) \/ Die(s) PROVE GuardsHold'
    <2>1. pc'["purge"] \in {"working", "writing"} => pc["purge"] \in {"working", "writing"}
      BY <1>0, <1>9 DEF WorkDone, NextAfter, Die, TypeOK, Scripts
    <2>2. UNCHANGED <<now, retention, purgeAfter, dumps>>
      BY <1>9 DEF WorkDone, Die, windows
    <2>3. QED
      BY <1>0, <2>1, <2>2
  <1>10. CASE UNCHANGED vars
    BY <1>0, <1>10 DEF vars, windows
  <1>11. QED
    BY <1>1, <1>2, <1>3, <1>4, <1>5, <1>6, <1>7, <1>8, <1>9, <1>10 DEF Next, Backup

\* A longer window reaches further back, by at least a day.
LEMMA LongerWindow ==
  ASSUME NEW m \in Nat, NEW n \in Nat, m < n
  PROVE  m * Day \in Nat /\ n * Day \in Nat /\ n * Day >= m * Day + Day
  <1>1. PICK k \in Nat : n = m + 1 + k
    <2>1. n - (m + 1) \in Nat /\ n = m + 1 + (n - (m + 1))
      OBVIOUS
    <2>2. QED
      BY <2>1
  <1>2. (m + 1 + k) * Day = m * Day + Day + k * Day
    BY RetentionAssumption, Z3
  <1>3. m * Day \in Nat /\ n * Day \in Nat /\ k * Day \in Nat
    BY RetentionAssumption, Z3
  <1>4. QED
    BY <1>1, <1>2, <1>3, RetentionAssumption

LEMMA BestType == TypeOK => \A j \in Jobs : Best(j) \in Int
  BY RetentionAssumption DEF Best, TypeOK

\* Out of a window that is longer than the gate, a job was first seen before the last day.
LEMMA OutIsOld ==
  ASSUME TypeOK, GateBounds, NEW j \in Stored, OutOf(j, purgeAfter), 0 < Gate, Gate < purgeAfter
  PROVE  seen[j] < now - Day
  <1>1. /\ j \in Jobs /\ purgeAfter \in Nat /\ now \in Int /\ Best(j) \in Int /\ seen[j] \in Int
        /\ posted[j] \in Int \cup {NoDate}
    BY BestType, RetentionAssumption DEF TypeOK, Stored
  <1>2. Best(j) < now - purgeAfter * Day
    BY DEF OutOf
  <1>3. purgeAfter * Day \in Nat /\ Gate * Day \in Nat /\ purgeAfter * Day >= Gate * Day + Day
    BY <1>1, LongerWindow, RetentionAssumption
  <1>4. CASE posted[j] = NoDate
    BY <1>1, <1>2, <1>3, <1>4, RetentionAssumption DEF Best
  <1>5. CASE posted[j] # NoDate
    <2>1. posted[j] >= seen[j] - Gate * Day
      BY <1>5 DEF GateBounds
    <2>. QED  BY <1>1, <1>2, <1>3, <1>5, <2>1, RetentionAssumption DEF Best
  <1>. QED  BY <1>4, <1>5

LEMMA NextChosen == RetentionInv /\ [Next]_vars => ChosenAreOld'
  <1> SUFFICES ASSUME RetentionInv, [Next]_vars PROVE ChosenAreOld'
    OBVIOUS
  <1>0. TypeOK /\ ChosenAreOld /\ GateBounds /\ \A k \in chosen["purge"] : k \in Jobs
    BY DEF RetentionInv, TypeOK, Scripts
  <1> USE DEF ChosenAreOld
  <1>1. CASE Tick
    BY <1>0, <1>1 DEF Tick, batch, Scripts
  <1>2. CASE BackupStart \/ ExpireStart \/ PurgeStart \/ Sweep
    <2>1. /\ UNCHANGED <<now, windows, jobs, batch>>
          /\ pc["purge"] = "writing" => pc'["purge"] = "writing"
      BY <1>0, <1>2 DEF BackupStart, ExpireStart, PurgeStart, Sweep, TypeOK, Scripts
    <2>. QED  BY <1>0, <2>1 DEF OutOf, Best, Stored, windows, jobs, batch
  <1>3. CASE BackupFails \/ BackupUnreadable \/ BackupDone
    BY <1>0, <1>3, DumpsEnd DEF OutOf, Best, Stored, windows, jobs, batch
  <1>4. ASSUME NEW j \in Jobs, Insert(j) PROVE ChosenAreOld'
    <2>1. j \notin chosen["purge"]
      BY <1>0, <1>4 DEF Insert, Stored
    <2>2. \A k \in Jobs : k # j => status'[k] = status[k] /\ posted'[k] = posted[k] /\ seen'[k] = seen[k]
      BY <1>0, <1>4 DEF Insert, TypeOK
    <2>. QED  BY <1>0, <1>4, <2>1, <2>2 DEF Insert, OutOf, Best, Stored, windows, batch
  <1>5. ASSUME NEW j \in Jobs, Update(j) PROVE ChosenAreOld'
    <2>1. \A k \in Jobs : k # j => status'[k] = status[k] /\ posted'[k] = posted[k]
      BY <1>0, <1>5 DEF Update, TypeOK
    <2>2. \A k \in Stored : k \in Stored'
      BY <1>0, <1>5 DEF Update, Stored, TypeOK
    <2>3. \A k \in chosen["purge"] : k \notin overtaken' => k # j /\ k \notin overtaken
      BY <1>5 DEF Update
    <2>. QED  BY <1>0, <1>5, <2>1, <2>2, <2>3 DEF Update, OutOf, Best, windows
  <1>6. ASSUME NEW s \in Scripts, PickBatch(s) PROVE ChosenAreOld'
    <2>1. UNCHANGED <<now, windows, jobs, overtaken>>
      BY <1>6 DEF PickBatch
    <2>2. CASE s = "expire"
      BY <1>0, <1>6, <2>1, <2>2 DEF PickBatch, OutOf, Best, Stored, TypeOK, Scripts, windows, jobs
    <2>3. CASE s = "purge"
      <3>1. chosen'["purge"] \subseteq Matching("purge") /\ pc'["purge"] = "writing"
        BY <1>0, <1>6, <2>3 DEF PickBatch, TypeOK, Scripts
      <3>2. \A k \in Matching("purge") : k \in Stored /\ OutOf(k, purgeAfter)
        BY DEF Matching, Days
      <3>3. \A k \in Matching("purge") : 0 < Gate /\ Gate < purgeAfter => seen[k] < now - Day
        BY <1>0, <3>2, OutIsOld
      <3>. QED  BY <2>1, <3>1, <3>2, <3>3 DEF OutOf, Best, Stored, windows, jobs
    <2>. QED  BY <2>2, <2>3 DEF Scripts
  <1>7. ASSUME NEW s \in Scripts, WriteBatch(s) PROVE ChosenAreOld'
    <2>1. CASE s = "purge"
      BY <1>0, <1>7, <2>1 DEF WriteBatch, TypeOK, Scripts
    <2>2. CASE s = "expire"
      <3>1. \A k \in Stored : k \in Stored'
        BY <1>0, <1>7, <2>2 DEF WriteBatch, Stored, TypeOK
      <3>2. /\ chosen'["purge"] = chosen["purge"] /\ pc'["purge"] = pc["purge"]
            /\ UNCHANGED <<now, windows, posted, seen, overtaken>>
        BY <1>0, <1>7, <2>2 DEF WriteBatch, TypeOK, Scripts
      <3>. QED  BY <1>0, <3>1, <3>2 DEF OutOf, Best, windows
    <2>. QED  BY <2>1, <2>2 DEF Scripts
  <1>8. ASSUME NEW s \in Scripts, WorkDone(s) PROVE ChosenAreOld'
    <2>1. pc["purge"] = "writing" => pc'["purge"] = "writing"
      BY <1>0, <1>8 DEF WorkDone, TypeOK, Scripts
    <2>. QED  BY <1>0, <1>8, <2>1 DEF WorkDone, OutOf, Best, Stored, windows, jobs, batch
  <1>9. ASSUME NEW s \in Scripts, Die(s) PROVE ChosenAreOld'
    <2>1. CASE s = "purge"
      BY <1>0, <1>9, <2>1 DEF Die, TypeOK, Scripts
    <2>2. CASE s = "expire"
      BY <1>0, <1>9, <2>2 DEF Die, TypeOK, Scripts, OutOf, Best, Stored, windows, jobs
    <2>. QED  BY <2>1, <2>2 DEF Scripts
  <1>10. CASE UNCHANGED vars
    BY <1>0, <1>10 DEF vars, OutOf, Best, Stored, windows, jobs, batch
  <1>11. QED
    BY <1>1, <1>2, <1>3, <1>4, <1>5, <1>6, <1>7, <1>8, <1>9, <1>10 DEF Next, Backup

\* RetentionInv holds of every state of every behaviour.
THEOREM RetentionSound == Spec => []RetentionInv
  <1>1. RetentionInv /\ [Next]_vars => RetentionInv'
    BY NextType, NextDumps, NextGate, NextGuards, NextChosen DEF RetentionInv
  <1>2. QED
    BY InitRetention, <1>1, PTL DEF Spec

THEOREM TypeCorrect == Spec => []TypeOK
  BY RetentionSound, PTL DEF RetentionInv

-------------------------------------------------------------------------------
(* What a purge does *)

\* Only a batch of a purge deletes, and only what its statement has found.
LEMMA PurgedInWindow ==
  ASSUME RetentionInv, [Next]_vars, NEW j \in Jobs, Purged(j)
  PROVE  j \in chosen["purge"] /\ pc["purge"] = "writing"
  <1>0. TypeOK /\ status[j] \in {"ACTIVE", "EXPIRED"} /\ status'[j] = "purged"
    BY DEF RetentionInv, Purged
  <1>1. ~UNCHANGED status
    BY <1>0
  <1>2. ASSUME NEW k \in Jobs, Insert(k) \/ Update(k) PROVE FALSE
    BY <1>0, <1>2 DEF Insert, Update, TypeOK
  <1>3. PICK s \in Scripts : WriteBatch(s)
    BY <1>1, <1>2 DEF Next, Backup, Tick, BackupStart, BackupFails, BackupUnreadable, BackupDone,
                      ExpireStart, PurgeStart, Sweep, PickBatch, WorkDone, Die, jobs, vars
  <1>4. s # "expire" /\ j \in chosen[s]
    BY <1>0, <1>3 DEF WriteBatch
  <1>5. s = "purge"
    BY <1>4 DEF Scripts
  <1>6. QED
    BY <1>3, <1>4, <1>5 DEF WriteBatch

\* purge-old-jobs.sh never deletes what the retention window still shows, but for what a load wrote
\* after the purge's statement had found it.
THEOREM ShownStay == Spec => ShownJobsStay
  <1>1. ASSUME RetentionInv, [Next]_vars, NEW j \in Jobs, Purged(j), retention > 0, j \notin overtaken
        PROVE  OutOf(j, retention)
    <2>1. retention \in Nat /\ purgeAfter \in Nat /\ now \in Int /\ Best(j) \in Int
      BY <1>1, BestType, RetentionAssumption DEF RetentionInv, TypeOK
    <2>2. retention < purgeAfter
      BY <1>1, <2>1, PurgedInWindow DEF RetentionInv, GuardsHold, WindowsFit
    <2>3. Best(j) < now - purgeAfter * Day
      BY <1>1, PurgedInWindow DEF RetentionInv, ChosenAreOld, OutOf
    <2>4. QED
      BY <2>1, <2>2, <2>3, LongerWindow, RetentionAssumption DEF OutOf
  <1>2. RetentionInv /\ [Next]_vars =>
          [\A j \in Jobs : Purged(j) /\ retention > 0 /\ j \notin overtaken => OutOf(j, retention)]_vars
    BY <1>1
  <1>3. QED
    BY RetentionSound, <1>2, PTL DEF Spec, ShownJobsStay

\* A purge by the unit deletes nothing that the dump it relies on does not hold, if the gate
\* is smaller than the window: a job out of the window was first seen before the dump.
THEOREM DeletedDumped == Spec => DeletedIsDumped
  <1>1. ASSUME RetentionInv, [Next]_vars, NEW j \in Jobs, Purged(j),
               0 < Gate, Gate < purgeAfter, ~ByHand
        PROVE  \E d \in dumps : now - d.at < Day /\ d.state # "writing" /\ j \in d.jobs
    <2>1. now \in Int /\ seen[j] \in Int
      BY <1>1, RetentionAssumption DEF RetentionInv, TypeOK
    <2>2. /\ j \in Stored
          /\ \E d \in dumps : Recent(d) /\ d.state # "writing"
      BY <1>1, PurgedInWindow DEF RetentionInv, GuardsHold, ChosenAreOld
    <2>4. seen[j] < now - Day
      BY <1>1, PurgedInWindow DEF RetentionInv, ChosenAreOld
    <2>5. PICK d \in dumps : Recent(d) /\ d.state # "writing"
      BY <2>2
    <2>6. d.at \in Int /\ seen[j] < d.at
      BY <1>1, <2>1, <2>4, <2>5, RetentionAssumption DEF Recent, RetentionInv, TypeOK, Dump
    <2>7. QED
      BY <1>1, <2>2, <2>5, <2>6 DEF RetentionInv, DumpsHoldTheOlder, Recent
  <1>2. RetentionInv /\ [Next]_vars =>
          [\A j \in Jobs : Purged(j) /\ 0 < Gate /\ Gate < purgeAfter /\ ~ByHand =>
             \E d \in dumps : now - d.at < Day /\ d.state # "writing" /\ j \in d.jobs]_vars
    BY <1>1
  <1>3. QED
    BY RetentionSound, <1>2, PTL DEF Spec, DeletedIsDumped

-------------------------------------------------------------------------------
(* What a backup leaves *)

\* backup.sh prunes only after it has added a dump that it could read back.
THEOREM ReadableRemain == Spec => ReadableDumpsRemain
  <1>1. ASSUME RetentionInv, [Next]_vars, Readable # {} PROVE Readable' # {}
    <2>0. TypeOK
      BY <1>1 DEF RetentionInv
    <2>1. CASE BackupDone
      <3>1. PICK d \in dumps : d.state = "writing"
        BY <2>1 DEF BackupDone, Writing
      <3>2. [d EXCEPT !.state = "readable"] \in dumps'
        BY <2>1, <3>1 DEF BackupDone, WrittenAs, Finished
      <3>3. [d EXCEPT !.state = "readable"].state = "readable"
        BY <2>0, <3>1 DEF TypeOK, Dump
      <3>4. QED
        BY <3>2, <3>3 DEF Readable
    <2>2. CASE ~BackupDone
      <3>1. Readable \subseteq dumps'
        BY <1>1, <2>2 DEF Readable, Finished, Next, Backup, Tick, BackupStart, BackupFails,
             BackupUnreadable, Insert, Update, ExpireStart, PurgeStart, Sweep, PickBatch, WriteBatch,
             WorkDone, Die, vars
      <3>2. QED
        BY <1>1, <3>1 DEF Readable
    <2>3. QED
      BY <2>1, <2>2
  <1>2. RetentionInv /\ [Next]_vars => [Readable # {} => Readable' # {}]_vars
    BY <1>1
  <1>3. QED
    BY RetentionSound, <1>2, PTL DEF Spec, ReadableDumpsRemain

(***************************************************************************)
(* Deploying and rolling back                                              *)
(***************************************************************************)

\* The commits published are commits, and one is named by those up to it.
LEMMA Published ==
  ASSUME DeployTypes
  PROVE  /\ tip \in Nat /\ tip >= 1 /\ tip \in 1..tip
         /\ \A r \in 1..tip : r \in Releases /\ r \in Nat /\ r <= tip
         /\ \A r \in Releases, part \in Parts : last[r][part] \in Releases
         /\ tip \in Releases /\ (tip < MaxRelease => tip + 1 \in Releases)
         /\ tip + 1 \notin 1..tip /\ 1..tip \subseteq 1..(tip + 1) /\ NoImages \notin 1..tip
         /\ schema \in Nat /\ \A r \in 1..tip : last[r]["schema"] \in Nat
<1>1. tip \in 1..MaxRelease /\ MaxRelease \in Nat
  BY DeployAssumption DEF DeployTypes, Releases
<1>2. last \in [Releases -> [Parts -> Releases]]
  BY DEF DeployTypes
<1>3. \A r \in Releases, part \in Parts : last[r][part] \in Releases
  BY <1>2
<1>4. schema \in Nat /\ \A r \in 1..tip : last[r]["schema"] \in Nat
  <2>1. \A r \in 1..tip : r \in Releases
    BY <1>1 DEF Releases
  <2>2. \A r \in 1..tip : last[r]["schema"] \in Releases
    BY <1>3, <2>1 DEF Parts
  <2>3. schema \in Releases
    BY DEF DeployTypes
  <2>4. \A x \in Releases : x \in Nat
    BY <1>1 DEF Releases
  <2>. QED  BY <2>2, <2>3, <2>4
<1>. QED  BY <1>1, <1>3, <1>4 DEF Releases, NoImages

LEMMA DeployTypesStep == DeployTypes /\ HistoryIsLinear /\ [DeployNext]_deployVars => DeployTypes'
<1> SUFFICES ASSUME DeployTypes, HistoryIsLinear, [DeployNext]_deployVars PROVE DeployTypes'
  OBVIOUS
<1>p. /\ tip \in Nat /\ tip >= 1 /\ tip \in 1..tip /\ tip \in Releases
      /\ \A r \in 1..tip : r \in Releases /\ r \in Nat /\ r <= tip
      /\ \A r \in Releases, part \in Parts : last[r][part] \in Releases
      /\ tip < MaxRelease => tip + 1 \in Releases
      /\ tip + 1 \notin 1..tip /\ 1..tip \subseteq 1..(tip + 1)
  BY Published
<1>q. \A r \in 1..tip : last[r]["image"] \in 1..tip
  BY <1>p DEF HistoryIsLinear
<1> USE DeployAssumption
    DEF DeployTypes, Releases, Steps, Parts, repo, images, host, script, history, deployVars
<1>0. /\ \A r \in 1..tip : last[r]["image"] \in 1..tip
      /\ \A part \in Parts : last[head][part] \in Releases
      /\ Composed \in 1..tip /\ Ingest \in 1..tip
  <2>2. \A part \in Parts : last[head][part] \in Releases
    BY <1>p
  <2>. QED  BY <1>q, <2>2 DEF Composed, Ingest
<1>1. CASE Push
  <2>1. PICK changed \in SUBSET Parts :
          last' = [last EXCEPT ![tip + 1] =
                     [part \in Parts |-> IF part \in changed THEN tip + 1 ELSE last[tip][part]]]
    BY <1>1 DEF Push
  <2>0. tip < MaxRelease /\ tip' = tip + 1
    BY <1>1 DEF Push
  <2>2. tip + 1 \in Releases /\ tip \in Releases /\ 1..tip \subseteq 1..(tip + 1)
    BY <2>0, <1>p, Zenon
  <2>3. [part \in Parts |-> IF part \in changed THEN tip + 1 ELSE last[tip][part]]
           \in [Parts -> Releases]
    BY <2>2, <1>p
  <2>4. last' \in [Releases -> [Parts -> Releases]]
    BY <2>1, <2>3
  <2>. QED  BY <1>1, <2>0, <2>2, <2>4 DEF Push
<1>2. CASE Rollback
  BY <1>2 DEF Rollback
<1>3. ASSUME NEW r \in Releases, Begin(r) PROVE DeployTypes'
  BY <1>3 DEF Begin
<1>4. CASE Checkout \/ MovePin
  BY <1>0, <1>4 DEF Checkout, MovePin
<1>5. CASE GetImages
  BY <1>0, <1>5 DEF GetImages
<1>6. CASE Migrate
  <2>1. last[Ingest]["schema"] \in Releases
    BY <1>0, <1>p
  <2>. QED  BY <1>6, <2>1 DEF Migrate
<1>7. CASE Up
  BY <1>0, <1>7 DEF Up
<1>8. CASE Healthy
  BY <1>8 DEF Healthy
<1>9. CASE Reinstall
  BY <1>0, <1>9 DEF Reinstall
<1>10. CASE Unhealthy
  BY <1>10 DEF Unhealthy
<1>11. CASE Undo
  BY <1>11 DEF Undo, UndoTo
<1>12. CASE UndoFails
  BY <1>12 DEF UndoFails, UndoTo
<1>13. CASE ImagesFail
  BY <1>0, <1>13 DEF ImagesFail, Stop, Migrations
<1>14. CASE MigrateFails
  <2>1. schema' \in Releases
    BY <1>p, <1>14 DEF MigrateFails
  <2>. QED  BY <1>14, <2>1 DEF MigrateFails, Stop, Migrations
<1>15. CASE UpFails
  BY <1>0, <1>15 DEF UpFails, Stop, Migrations
<1>16. CASE Killed
  BY <1>16 DEF Killed, Stop, Migrations
<1>17. CASE IngestByHand
  <2>1. last[head]["schema"] \in Releases
    BY <1>0
  <2>. QED  BY <1>0, <1>17, <2>1 DEF IngestByHand
<1>18. CASE UNCHANGED deployVars
  BY <1>18
<1>. QED
  BY <1>1, <1>2, <1>3, <1>4, <1>5, <1>6, <1>7, <1>8, <1>9, <1>10, <1>11, <1>12, <1>13, <1>14,
     <1>15, <1>16, <1>17, <1>18 DEF DeployNext

\* A push adds a commit and leaves the older ones as they are; nothing else touches them.
LEMMA PushAdds ==
  ASSUME DeployTypes, HistoryIsLinear, Push
  PROVE  /\ tip' = tip + 1 /\ \A r \in 1..tip : last'[r] = last[r]
         /\ last'[tip']["image"] \in {tip', last[tip]["image"]}
         /\ last'[tip']["schema"] \in {tip', last[tip]["schema"]}
         /\ last'[tip']["schema"] = tip' => last'[tip']["image"] = tip'
<1>p. /\ tip \in Nat /\ tip >= 1 /\ tip \in 1..tip /\ tip \in Releases
      /\ \A r \in 1..tip : r \in Releases /\ r \in Nat /\ r <= tip
      /\ \A r \in Releases, part \in Parts : last[r][part] \in Releases
      /\ tip < MaxRelease => tip + 1 \in Releases
      /\ tip + 1 \notin 1..tip /\ 1..tip \subseteq 1..(tip + 1)
  BY Published
<1> USE DEF DeployTypes, Parts
<1>1. PICK changed \in SUBSET Parts :
        /\ "schema" \in changed => "image" \in changed
        /\ last' = [last EXCEPT ![tip + 1] =
                     [part \in Parts |-> IF part \in changed THEN tip + 1 ELSE last[tip][part]]]
  BY DEF Push
<1>0. tip < MaxRelease /\ tip' = tip + 1
  BY DEF Push
<1>2. tip + 1 \in Releases /\ tip' = tip + 1 /\ tip \in 1..tip /\ tip + 1 \notin 1..tip
  BY <1>0, <1>p, Zenon
<1>3. \A part \in Parts :
        last'[tip'][part] = IF part \in changed THEN tip + 1 ELSE last[tip][part]
  BY <1>1, <1>2
<1>4. \A r \in 1..tip : last'[r] = last[r]
  <2>1. \A r \in 1..tip : r \in Releases /\ r # tip + 1
    BY <1>2, <1>p
  <2>2. last \in [Releases -> [Parts -> Releases]]
    OBVIOUS
  <2>. QED  BY <1>1, <2>1, <2>2
<1>5. last[tip]["schema"] # tip'
  <2>1. last[tip]["schema"] \in 1..tip
    BY <1>2 DEF HistoryIsLinear
  <2>. QED  BY <1>2, <2>1
<1>6. last'[tip']["schema"] = tip' => last'[tip']["image"] = tip'
  BY <1>1, <1>2, <1>3, <1>5
<1>. QED  BY <1>1, <1>2, <1>3, <1>4, <1>6

LEMMA OthersKeepHistory ==
  ASSUME [DeployNext]_deployVars, ~Push
  PROVE  UNCHANGED repo
BY DEF DeployNext, deployVars, repo, Rollback, IngestByHand, Begin, Checkout, MovePin, GetImages, Migrate, Up,
       Healthy, Reinstall, Unhealthy, Undo, UndoFails, UndoTo, ImagesFail, MigrateFails, UpFails, Killed, Stop

LEMMA LinearStep == DeployTypes /\ HistoryIsLinear /\ [DeployNext]_deployVars => HistoryIsLinear'
<1> SUFFICES ASSUME DeployTypes, HistoryIsLinear, [DeployNext]_deployVars PROVE HistoryIsLinear'
  OBVIOUS
<1>1. CASE ~Push
  BY <1>1, OthersKeepHistory DEF repo, HistoryIsLinear
<1>2. CASE Push
  <2> DEFINE n == tip + 1
  <2>1. tip \in Nat /\ tip >= 1 /\ tip' = n /\ n \in 1..tip' /\ tip \in 1..tip
    BY <1>2, PushAdds, Published
  <2>2. \A r \in 1..tip' : r \in 1..tip \/ r = n
    BY <2>1
  <2>3. \A r \in 1..tip : last'[r] = last[r]
    BY <1>2, PushAdds
  <2>4. /\ last'[n]["image"] \in {n, last[tip]["image"]}
        /\ last'[n]["schema"] \in {n, last[tip]["schema"]}
        /\ last'[n]["schema"] = n => last'[n]["image"] = n
    BY <1>2, <2>1, PushAdds
  <2>5. ASSUME NEW r \in 1..tip
        PROVE  /\ {last'[r]["image"], last'[r]["schema"]} \subseteq 1..r
               /\ last'[last'[r]["image"]]["schema"] = last'[r]["schema"]
               /\ \A q \in 1..r : last'[q]["schema"] <= last'[r]["schema"]
    <3>1. last[r]["image"] \in 1..tip /\ \A q \in 1..r : q \in 1..tip
      BY <2>1 DEF HistoryIsLinear
    <3>. QED  BY <2>3, <3>1 DEF HistoryIsLinear
  <2>6. last[tip]["image"] \in 1..tip /\ last[tip]["schema"] \in 1..tip
    BY <2>1 DEF HistoryIsLinear
  <2>7. {last'[n]["image"], last'[n]["schema"]} \subseteq 1..n
    BY <2>1, <2>4, <2>6
  <2>8. last'[last'[n]["image"]]["schema"] = last'[n]["schema"]
    <3>1. CASE last'[n]["image"] = n
      BY <3>1
    <3>2. CASE last'[n]["image"] = last[tip]["image"] /\ last'[n]["schema"] = last[tip]["schema"]
      BY <2>1, <2>3, <2>6, <3>2 DEF HistoryIsLinear
    <3>. QED  BY <2>4, <3>1, <3>2
  <2>9. ASSUME NEW q \in 1..n PROVE last'[q]["schema"] <= last'[n]["schema"]
    <3>1. CASE q = n
      BY <2>1, <2>4, <2>6, <3>1
    <3>2. CASE q \in 1..tip
      <4>1. last'[q]["schema"] \in 1..q /\ last[q]["schema"] <= last[tip]["schema"]
        BY <2>1, <2>3, <3>2 DEF HistoryIsLinear
      <4>. QED  BY <2>1, <2>3, <2>4, <2>6, <3>2, <4>1
    <3>. QED  BY <2>1, <2>2, <3>1, <3>2
  <2>. QED  BY <2>1, <2>2, <2>5, <2>7, <2>8, <2>9 DEF HistoryIsLinear
<1>. QED  BY <1>1, <1>2

\* What a push leaves as it was.
LEMMA PushKeeps ==
  ASSUME DeployTypes, HistoryIsLinear, Push
  PROVE  /\ \A r \in 1..tip : last'[r] = last[r]
         /\ UNCHANGED <<pinned, host, step, script, exit, history>>
  BY PushAdds DEF Push

LEMMA FollowsStep ==
  DeployTypes /\ HistoryIsLinear /\ HostFollowsTheTree /\ [DeployNext]_deployVars
    => HostFollowsTheTree'
<1> SUFFICES ASSUME DeployTypes, HistoryIsLinear, HostFollowsTheTree, [DeployNext]_deployVars
             PROVE  HostFollowsTheTree'
  OBVIOUS
<1>0. /\ head \in 1..tip /\ current \in 1..tip /\ image \in 1..tip /\ pinned \in BOOLEAN
      /\ image # NoImages
  BY Published DEF DeployTypes
<1> USE DEF HostFollowsTheTree, Composed, repo, images, host, script, history, deployVars
<1>1. CASE Push
  BY <1>0, <1>1, PushKeeps
<1>2. CASE Rollback
  BY <1>0, <1>2 DEF Rollback
<1>3. ASSUME NEW r \in Releases, Begin(r) PROVE HostFollowsTheTree'
  BY <1>0, <1>3 DEF Begin
<1>4. CASE Checkout \/ MovePin
  BY <1>0, <1>4 DEF Checkout, MovePin
<1>5. CASE GetImages
  BY <1>0, <1>5 DEF GetImages
<1>6. CASE Migrate
  BY <1>0, <1>6 DEF Migrate
<1>7. CASE Up
  BY <1>0, <1>7 DEF Up
<1>8. CASE Healthy
  BY <1>0, <1>8 DEF Healthy
<1>9. CASE Reinstall
  BY <1>0, <1>9 DEF Reinstall
<1>10. CASE Unhealthy
  BY <1>0, <1>10 DEF Unhealthy
<1>11. CASE Undo
  BY <1>0, <1>11 DEF Undo, UndoTo
<1>12. CASE UndoFails
  BY <1>0, <1>12 DEF UndoFails, UndoTo
<1>13. CASE ImagesFail
  BY <1>0, <1>13 DEF ImagesFail, Stop
<1>14. CASE MigrateFails
  BY <1>0, <1>14 DEF MigrateFails, Stop
<1>15. CASE UpFails
  BY <1>0, <1>15 DEF UpFails, Stop
<1>16. CASE Killed
  BY <1>0, <1>16 DEF Killed, Stop
<1>17. CASE IngestByHand
  BY <1>0, <1>17 DEF IngestByHand
<1>18. CASE UNCHANGED deployVars
  BY <1>18
<1>. QED
  BY <1>1, <1>2, <1>3, <1>4, <1>5, <1>6, <1>7, <1>8, <1>9, <1>10, <1>11, <1>12,
     <1>13, <1>14, <1>15, <1>16, <1>17, <1>18 DEF DeployNext

LEMMA TellsStep ==
  DeployInv /\ [DeployNext]_deployVars => ExitsTellTheTruth' /\ UnitsHavePassed'
<1> SUFFICES ASSUME DeployInv, [DeployNext]_deployVars
             PROVE  ExitsTellTheTruth' /\ UnitsHavePassed'
  OBVIOUS
<1>0. /\ head \in 1..tip /\ current \in 1..tip /\ image \in 1..tip /\ pinned \in BOOLEAN
      /\ image # NoImages /\ NoImages \notin 1..tip /\ passed \subseteq 1..tip
      /\ HistoryIsLinear /\ HostFollowsTheTree /\ DeployTypes /\ ExitsTellTheTruth /\ UnitsHavePassed
  <2>1. DeployTypes
    BY DEF DeployInv
  <2>. QED  BY <2>1, Published DEF DeployTypes, DeployInv
<1>00. last[current]["image"] \in 1..tip /\ last[current]["image"] # NoImages
  BY <1>0, Published DEF HistoryIsLinear, NoImages
<1> USE DEF HostFollowsTheTree, Composed, ExitsTellTheTruth, UnitsHavePassed, repo, images, host, script, history, deployVars
<1>1. CASE Push
  <2>1. /\ \A r \in 1..tip : last'[r] = last[r]
        /\ UNCHANGED <<pinned, host, step, script, exit, history>>
    BY <1>0, <1>1, PushKeeps
  <2>2. ExitsTellTheTruth'
    BY <1>0, <2>1
  <2>3. UnitsHavePassed'
    BY <1>0, <2>1
  <2>. QED  BY <2>2, <2>3
<1>2. CASE Rollback
  BY <1>0, <1>00, <1>2 DEF Rollback
<1>3. ASSUME NEW r \in Releases, Begin(r) PROVE (ExitsTellTheTruth /\ UnitsHavePassed)'
  BY <1>0, <1>00, <1>3 DEF Begin
<1>4. CASE Checkout \/ MovePin
  BY <1>0, <1>00, <1>4 DEF Checkout, MovePin
<1>5. CASE GetImages
  BY <1>0, <1>00, <1>5 DEF GetImages
<1>6. CASE Migrate
  BY <1>0, <1>00, <1>6 DEF Migrate
<1>7. CASE Up
  BY <1>0, <1>00, <1>7 DEF Up
<1>8. CASE Healthy
  BY <1>0, <1>00, <1>8 DEF Healthy
<1>9. CASE Reinstall
  BY <1>0, <1>00, <1>9 DEF Reinstall
<1>10. CASE Unhealthy
  BY <1>0, <1>00, <1>10 DEF Unhealthy
<1>11. CASE Undo
  BY <1>0, <1>00, <1>11 DEF Undo, UndoTo
<1>12. CASE UndoFails
  BY <1>0, <1>00, <1>12 DEF UndoFails, UndoTo
<1>13. CASE ImagesFail
  BY <1>0, <1>00, <1>13 DEF ImagesFail, Stop
<1>14. CASE MigrateFails
  BY <1>0, <1>00, <1>14 DEF MigrateFails, Stop
<1>15. CASE UpFails
  BY <1>0, <1>00, <1>15 DEF UpFails, Stop
<1>16. CASE Killed
  BY <1>0, <1>00, <1>16 DEF Killed, Stop
<1>17. CASE IngestByHand
  BY <1>0, <1>00, <1>17 DEF IngestByHand
<1>18. CASE UNCHANGED deployVars
  BY <1>0, <1>18
<1>. QED
  BY <1>1, <1>2, <1>3, <1>4, <1>5, <1>6, <1>7, <1>8, <1>9, <1>10, <1>11, <1>12,
     <1>13, <1>14, <1>15, <1>16, <1>17, <1>18 DEF DeployNext

\* What a step that leaves the history of commits alone may apply stays applied: no step takes
\* a migration back.
LEMMA AppliedStays ==
  ASSUME DeployTypes, HistoryIsLinear, [DeployNext]_deployVars
  PROVE  \A r \in 1..tip : Applied(r) => Applied(r)'
<1>0. \A r \in 1..tip : last[r]["schema"] \in Nat
  BY Published
<1>1. CASE Push
  BY <1>1, PushKeeps DEF Applied, host
<1>2. CASE ~Push
  <2>1. UNCHANGED last
    BY <1>2, OthersKeepHistory DEF repo
  <2>2. schema \in Nat /\ last[Ingest]["schema"] \in Nat /\ last[head]["schema"] \in Nat
    BY <1>0, Published DEF DeployTypes, Ingest
  <2>3. schema' = schema \/ (schema <= schema' /\ schema' \in Nat)
    <3>1. CASE Migrate
      BY <2>2, <3>1 DEF Migrate
    <3>2. CASE MigrateFails
      BY <1>0, <2>2, <3>2 DEF MigrateFails
    <3>4. CASE IngestByHand
      BY <2>2, <3>4 DEF IngestByHand
    <3>3. CASE ~Migrate /\ ~MigrateFails /\ ~IngestByHand
      BY <1>2, <3>3
      DEF DeployNext, deployVars, host, repo, Rollback, Begin, Checkout, MovePin, GetImages, Up,
          Healthy, Reinstall, Unhealthy, Undo, UndoFails, UndoTo, ImagesFail, UpFails, Killed
    <3>. QED  BY <3>1, <3>2, <3>3, <3>4
  <2>. QED  BY <1>0, <2>1, <2>2, <2>3 DEF Applied
<1>. QED  BY <1>1, <1>2

LEMMA FirstStep ==
  DeployTypes /\ HistoryIsLinear /\ HostFollowsTheTree /\ MigrationsComeFirst
    /\ [DeployNext]_deployVars => MigrationsComeFirst'
<1> SUFFICES ASSUME DeployTypes, HistoryIsLinear, HostFollowsTheTree, MigrationsComeFirst,
                    [DeployNext]_deployVars, ~owed'
             PROVE  MigrationsComeFirst'
  BY DEF MigrationsComeFirst
<1>p. /\ {head, pin, image, worker, running, current, target, previous} \subseteq 1..tip
      /\ {spare, workerSpare} \subseteq 1..tip \cup {NoImages} /\ pinned \in BOOLEAN
      /\ schema \in Nat /\ (\A r \in 1..tip : last[r]["schema"] \in Nat)
      /\ \A r \in 1..tip : r \in Nat
      /\ NoImages \notin 1..tip
  BY Published DEF DeployTypes
<1>s. \A r \in 1..tip : Applied(r) => Applied(r)'
  BY AppliedStays
<1>q. \A r \in 1..tip : /\ last[r]["image"] \in 1..tip
                         /\ last[last[r]["image"]]["schema"] = last[r]["schema"]
  BY <1>p, Published DEF HistoryIsLinear
<1>b. last[head]["image"] \in 1..tip /\ (Applied(head) => Applied(last[head]["image"]))
  BY <1>p, <1>q DEF Applied
<1>o. ~owed
  BY DEF DeployNext, deployVars, history, Push, Rollback, IngestByHand, Begin, Checkout, MovePin, GetImages,
         Migrate, Up, Healthy, Reinstall, Unhealthy, Undo, UndoFails, UndoTo, ImagesFail, MigrateFails, UpFails,
         Killed, Stop
<1>m. /\ Applied(running) /\ (spare # NoImages => Applied(spare))
      /\ Applied(worker) /\ (workerSpare # NoImages => Applied(workerSpare))
      /\ (step \in {"pin", "images", "schema"} /\ Migrations) \/ (Applied(head) /\ Applied(pin))
      /\ pinned \/ Applied(pin)
      /\ (step = "schema" /\ ~pinned) \/ Applied(image)
      /\ step = "schema" => Migrations
      /\ step # "idle" => Applied(current) /\ Applied(previous)
  BY <1>o DEF MigrationsComeFirst
<1>1. CASE Push
  <2>1. /\ \A r \in 1..tip : last'[r] = last[r]
        /\ UNCHANGED <<pinned, host, step, script, exit, history>>
    BY <1>1, PushKeeps
  <2>2. Migrations' = Migrations
    BY <1>p, <2>1 DEF Migrations, script
  <2>. QED  BY <1>p, <1>s, <1>m, <2>1, <2>2 DEF MigrationsComeFirst, images, host, script
<1> SUFFICES ASSUME ~Push PROVE MigrationsComeFirst'
  BY <1>1
<1>l. UNCHANGED repo
  BY OthersKeepHistory
<1> USE <1>p, <1>s, <1>m, <1>b DEF MigrationsComeFirst, repo, images, host, script, history
<1>2. CASE Rollback
  BY <1>2, <1>l DEF Rollback, Migrations
<1>3. ASSUME NEW r \in Releases, Begin(r) PROVE MigrationsComeFirst'
  BY <1>3, <1>l DEF Begin, Migrations
<1>4. CASE Checkout
  <2>1. head = current /\ Applied(head) /\ Applied(current)
    BY <1>4 DEF Checkout, HostFollowsTheTree
  <2>2. Migrations' = Migrations
    BY <1>4, <1>l DEF Checkout, Migrations
  <2>3. head' \in 1..tip /\ (Migrations \/ last[head']["schema"] <= last[current]["schema"])
    <3>1. head' \in {current, target}
      BY <1>4, <2>1 DEF Checkout
    <3>2. current \in 1..tip /\ target \in 1..tip
      BY <1>p
    <3>3. Migrations \/ last[target]["schema"] <= last[current]["schema"]
      BY <3>2, <1>p DEF Migrations
    <3>. QED  BY <3>1, <3>2, <3>3, <1>p
  <2>4. Migrations \/ Applied(head')
    BY <2>1, <2>3 DEF Applied
  <2>. QED  BY <2>2, <2>4, <1>4, <1>l DEF Checkout, Applied
<1>18. CASE MovePin
  <2>1. Migrations' = Migrations
    BY <1>18, <1>l DEF MovePin, Migrations
  <2>2. step = "pin" /\ schema' = schema /\ pin' = IF pinned THEN last[head]["image"] ELSE pin
    BY <1>18 DEF MovePin
  <2>3. Migrations \/ (Applied(head)' /\ Applied(pin)')
    BY <2>2, <1>18, <1>l DEF MovePin, Applied
  <2>. QED  BY <2>1, <2>3, <1>18, <1>l DEF MovePin
<1>19. CASE IngestByHand
  <2>1. Applied(head) /\ Applied(last[head]["image"]) /\ step = "idle"
    BY <1>19 DEF IngestByHand
  <2>2. /\ UNCHANGED <<last, head, pin, image, spare, workerSpare, running, step, script, pinned>>
        /\ worker' = last[head]["image"]
    BY <1>19, <1>l DEF IngestByHand
  <2>3. Applied(worker)'
    BY <2>1, <2>2, <1>q DEF Applied
  <2>. QED  BY <2>1, <2>2, <2>3
<1>5. CASE GetImages
  BY <1>5, <1>l DEF GetImages, Migrations
<1>6. CASE Migrate
  <2>1. /\ Composed = last[head]["image"] /\ step' = "start"
        /\ UNCHANGED <<last, head, pin, images, running, current, target, previous, pinned>>
        /\ owed' = (owed \/ schema' < last[head]["schema"])
    BY <1>6, <1>l DEF Migrate, HostFollowsTheTree
  <2>5. schema' \in Nat /\ last[head]["schema"] \in Nat
    BY <1>6 DEF Migrate, Ingest
  <2>2. Applied(head)' /\ Applied(last[head]["image"])'
    <3>0. ~(schema' < last[head]["schema"])
      BY <2>1, Zenon
    <3>1. last[head]["schema"] <= schema'
      BY <2>5, <3>0
    <3>2. last[last[head]["image"]]["schema"] = last[head]["schema"]
      BY <1>q
    <3>. QED  BY <2>1, <3>1, <3>2 DEF Applied
  <2>3. Applied(pin)' /\ Applied(image)'
    BY <2>1, <2>2, <1>6 DEF Composed, Migrate
  <2>. QED  BY <2>1, <2>2, <2>3, <1>6 DEF Migrate
<1>7. CASE Up
  BY <1>7, <1>l DEF Up, Migrations, Composed
<1>8. CASE Healthy
  BY <1>8, <1>l DEF Healthy, Migrations
<1>9. CASE Reinstall
  BY <1>9, <1>l DEF Reinstall, Migrations
<1>10. CASE Unhealthy
  BY <1>10, <1>l DEF Unhealthy, Migrations
<1>11. CASE Undo
  BY <1>11, <1>l DEF Undo, UndoTo, Migrations
<1>12. CASE UndoFails
  BY <1>12, <1>l DEF UndoFails, UndoTo, Migrations
<1>13. CASE ImagesFail
  BY <1>13, <1>l DEF ImagesFail, Stop, Migrations
<1>14. CASE MigrateFails
  BY <1>14, <1>l DEF MigrateFails, Stop, Migrations
<1>15. CASE UpFails
  BY <1>15, <1>l DEF UpFails, Stop, Migrations, Composed
<1>16. CASE Killed
  BY <1>16, <1>l DEF Killed, Stop, Migrations
<1>17. CASE UNCHANGED deployVars
  BY <1>17 DEF deployVars, Migrations
<1>. QED
  BY <1>2, <1>3, <1>4, <1>5, <1>6, <1>7, <1>8, <1>9, <1>10, <1>11, <1>12, <1>13, <1>14, <1>15, <1>16, <1>17,
     <1>18, <1>19 DEF DeployNext

LEMMA DeployInit_inv == DeployInit => DeployInv
<1> SUFFICES ASSUME DeployInit PROVE DeployInv
  OBVIOUS
<1>1. 1 \in Releases /\ 1..1 = {1}
  BY DeployAssumption DEF Releases
<1>2. \A r \in Releases, part \in Parts : last[r][part] = 1
  BY DEF DeployInit
<1>3. /\ last[1]["image"] = 1 /\ last[1]["schema"] = 1 /\ last[1]["units"] = 1
  BY <1>1, <1>2 DEF Parts
<1>4. DeployTypes
  BY <1>1 DEF DeployInit, DeployTypes, Steps, NoImages
<1>5. HistoryIsLinear
  BY <1>1, <1>3 DEF DeployInit, HistoryIsLinear
<1>6. HostFollowsTheTree /\ ExitsTellTheTruth /\ UnitsHavePassed
  BY <1>3 DEF DeployInit, HostFollowsTheTree, ExitsTellTheTruth, UnitsHavePassed, Composed
<1>7. MigrationsComeFirst
  BY <1>3 DEF DeployInit, MigrationsComeFirst, Applied, NoImages
<1>. QED  BY <1>4, <1>5, <1>6, <1>7 DEF DeployInv

\* Whatever is deployed, in whatever order and however it ends: DeployInv is inductive.
THEOREM HostSound == DeploySpec => []DeployInv
<1>1. DeployInv /\ [DeployNext]_deployVars => DeployInv'
  BY DeployTypesStep, LinearStep, FollowsStep, FirstStep, TellsStep DEF DeployInv
<1>. QED  BY DeployInit_inv, <1>1, PTL DEF DeploySpec

\* What deploy.sh says when it ends is so, for every history of commits.
THEOREM ExitsTrue == DeploySpec => []ExitsTellTheTruth
<1>1. DeployInv => ExitsTellTheTruth
  BY DEF DeployInv
<1>. QED  BY <1>1, HostSound, PTL

\* Until a deploy stops before its migrations, the containers have theirs.
THEOREM SchemaAhead == DeploySpec => []SchemaCovers
<1>1. DeployInv => SchemaCovers
  BY DEF DeployInv, MigrationsComeFirst, SchemaCovers, Composed, Ingest
<1>. QED  BY <1>1, HostSound, PTL

\* The units on the host are of a release that passed the gate.
THEOREM UnitsPassed == DeploySpec => []UnitsHavePassed
<1>1. DeployInv => UnitsHavePassed
  BY DEF DeployInv
<1>. QED  BY <1>1, HostSound, PTL
===============================================================================
