---------------------------- MODULE Schedule_proofs ----------------------------
(* Proofs about the passes of daily.sh: ScheduleInv is inductive. *)
EXTENDS Schedule, TLAPS

LEMMA InitSchedule == Init => ScheduleInv
  BY ScheduleAssumption
  DEF Init, ScheduleInv, TypeOK, IngestsHoldTheLock, WaitersMayRetry, PlansAreFresh, Dates, Version

\* Where a pass goes when it ends, and when an attempt ends.
LEMMA EndType ==
  ASSUME TypeOK, NEW p \in Passes, NEW how \in {"finished", "skipped", "refused", "failed"},
         End(p, how)
  PROVE  /\ pc' = [pc EXCEPT ![p] = "idle"] /\ plan' = [plan EXCEPT ![p] = {}]
         /\ pc' \in [Passes -> {"idle", "guarding", "ready", "ingesting", "waiting", "retaining"}]
         /\ plan' \in [Passes -> SUBSET Version]
         /\ verdict' \in {"none", "finished", "skipped", "refused", "failed"}
         /\ UNCHANGED <<files, due, attempt, expired>>
  BY DEF End, TypeOK

LEMMA GoesOnType ==
  ASSUME TypeOK, NEW p \in Passes, GoesOn(p)
  PROVE  /\ \/ pc' = [pc EXCEPT ![p] = "idle"]
            \/ pc' = [pc EXCEPT ![p] = "waiting"] /\ attempt[p] < Attempts
         /\ plan' = [plan EXCEPT ![p] = {}]
         /\ pc' \in [Passes -> {"idle", "guarding", "ready", "ingesting", "waiting", "retaining"}]
         /\ plan' \in [Passes -> SUBSET Version]
         /\ verdict' \in {"none", "finished", "skipped", "refused", "failed"}
         /\ UNCHANGED <<files, due, attempt, expired>>
  <1>1. CASE attempt[p] >= Attempts
    BY <1>1, EndType DEF GoesOn
  <1>2. CASE ~(attempt[p] >= Attempts)
    BY <1>2, ScheduleAssumption DEF GoesOn, TypeOK
  <1>3. QED
    BY <1>1, <1>2

\* What an ingest selects is listed and not ingested.
LEMMA SelectedIsPending ==
  ASSUME TypeOK, NEW p \in Passes, NEW d \in Selected(p)
  PROVE  d \in Dates /\ <<d, published[d]>> \in Version \ done
  BY DEF Selected, Newest, Pending, Listed, Ingested, Version, TypeOK

\* One step per action; the actions that end an attempt share the two lemmas above.
LEMMA NextSchedule == ScheduleInv /\ [Next]_vars => ScheduleInv'
  <1> SUFFICES ASSUME ScheduleInv, [Next]_vars PROVE ScheduleInv'
    OBVIOUS
  <1>0. TypeOK /\ IngestsHoldTheLock /\ WaitersMayRetry /\ PlansAreFresh
    BY DEF ScheduleInv
  <1> USE DEF ScheduleInv, TypeOK, IngestsHoldTheLock, WaitersMayRetry, PlansAreFresh
  <1>1. CASE Publish
    <2>1. PICK d \in 1..today :
            published[d] < MaxRevision /\ published' = [published EXCEPT ![d] = @ + 1]
      BY <1>1 DEF Publish
    <2>2. d \in Dates /\ published[d] + 1 \in 0..MaxRevision
      BY <1>0, <2>1, ScheduleAssumption DEF Dates
    <2>3. published' \in [Dates -> 0..MaxRevision]
      BY <1>0, <2>1, <2>2
    <2>4. UNCHANGED <<today, done, due, lock, pc, attempt, plan, expired, verdict>>
      BY <1>1 DEF Publish, progress
    <2>5. QED
      BY <1>0, <2>3, <2>4
  <1>2. CASE NextDay
    <2>1. today + 1 \in Dates
      BY <1>0, <1>2, ScheduleAssumption DEF NextDay, Dates
    <2>2. /\ UNCHANGED <<published, done, lock, pc, attempt, plan, expired>>
          /\ today' = today + 1 /\ due' = TRUE /\ verdict' = "none"
      BY <1>2 DEF NextDay, progress
    <2>3. QED
      BY <1>0, <2>1, <2>2
  <1>3. CASE Age
    BY <1>0, <1>3 DEF Age, Corpse, files, progress
  <1>4. ASSUME NEW p \in Passes, Begin(p) \/ BeginWithoutReclaim(p) PROVE ScheduleInv'
    <2>1. lock' = lock \/ (lock = "abandoned" /\ lock' = "free")
      BY <1>4 DEF Begin, BeginWithoutReclaim, Reclaimed
    <2>2. AfterReclaim(p) \in {"ready", "guarding"}
      BY DEF AfterReclaim
    <2>3. 1 \in 1..Attempts
      BY ScheduleAssumption
    <2>4. "abandoned" \notin Passes
      BY ScheduleAssumption
    <2>5. QED
      BY <1>0, <1>4, <2>1, <2>2, <2>3, <2>4 DEF Begin, BeginWithoutReclaim, files
  <1>5. ASSUME NEW p \in Passes, NEW how \in {"finished", "skipped", "refused", "failed"},
               End(p, how), pc[p] # "ingesting", lock' = lock
        PROVE  ScheduleInv'
    BY <1>0, <1>5, EndType DEF files
  <1>6. ASSUME NEW p \in Passes, GuardSkips(p) \/ Refused(p) \/ RetainFails(p)
        PROVE  ScheduleInv'
    BY <1>5, <1>6 DEF GuardSkips, Refused, RetainFails
  <1>7. ASSUME NEW p \in Passes, GuardPasses(p) PROVE ScheduleInv'
    BY <1>0, <1>7 DEF GuardPasses, files
  <1>8. ASSUME NEW p \in Passes, Start(p) PROVE ScheduleInv'
    <2>1. {<<d, published[d]>> : d \in Selected(p)} \in SUBSET (Version \ done)
      BY <1>0, SelectedIsPending
    <2>2. \A q \in Passes : pc[q] # "ingesting"
      BY <1>0, <1>8 DEF Start, Held
    <2>3. QED
      BY <1>0, <1>8, <2>1, <2>2 DEF Start, files
  <1>9. ASSUME NEW p \in Passes, Load(p) PROVE ScheduleInv'
    <2>1. \A q \in Passes \ {p} : plan[q] = {} /\ pc[q] # "ingesting"
      BY <1>0, <1>9 DEF Load
    <2>2. QED
      BY <1>0, <1>9, <2>1 DEF Load
  <1>10. ASSUME NEW p \in Passes, Loaded(p) PROVE ScheduleInv'
    <2>1. CASE p = "daily"
      BY <1>0, <1>10, <2>1 DEF Loaded, files
    <2>2. CASE p # "daily"
      BY <1>0, <1>10, <2>2, EndType DEF Loaded, files
    <2>3. QED
      BY <2>1, <2>2
  <1>11. ASSUME NEW p \in Passes, GoesOn(p),
                \/ pc[p] = "ready" /\ UNCHANGED lock
                \/ pc[p] = "ingesting" /\ (lock' = "free" \/ UNCHANGED lock)
         PROVE  ScheduleInv'
    BY <1>0, <1>11, GoesOnType DEF files
  <1>12. ASSUME NEW p \in Passes, Fails(p) \/ Exhausted(p) PROVE ScheduleInv'
    BY <1>11, <1>12 DEF Fails, Exhausted
  <1>13. ASSUME NEW p \in Passes, Killed(p) PROVE ScheduleInv'
    <2>1. CASE GoesOn(p)
      BY <1>11, <1>13, <2>1 DEF Killed
    <2>2. CASE End(p, "failed")
      BY <1>0, <1>13, <2>2, EndType DEF Killed, files
    <2>3. QED
      BY <1>13, <2>1, <2>2 DEF Killed
  <1>14. ASSUME NEW p \in Passes, Retry(p) PROVE ScheduleInv'
    <2>1. attempt[p] + 1 \in 1..Attempts
      BY <1>0, <1>14, ScheduleAssumption DEF Retry
    <2>2. QED
      BY <1>0, <1>14, <2>1 DEF Retry, files
  <1>15. ASSUME NEW p \in Passes, Retain(p) PROVE ScheduleInv'
    BY <1>0, <1>15 DEF Retain, files, Dates
  <1>16. CASE UNCHANGED vars
    BY <1>0, <1>16 DEF vars, files, progress
  <1>17. QED
    BY <1>1, <1>2, <1>3, <1>4, <1>6, <1>7, <1>8, <1>9, <1>10, <1>12, <1>13, <1>14, <1>15, <1>16
    DEF Next, Work, Fault

-------------------------------------------------------------------------------

\* ScheduleInv always holds, for any number of days, versions and attempts.
THEOREM ScheduleSound == Spec => []ScheduleInv
  <1>1. QED
    BY InitSchedule, NextSchedule, PTL DEF Spec

\* The variables of daily.sh and of the tables keep their types.
THEOREM TypeCorrect == Spec => []TypeOK
  <1>1. ScheduleInv => TypeOK
    BY DEF ScheduleInv
  <1>2. QED
    BY <1>1, ScheduleSound, PTL

\* daily.sh: "a second attempt skips what already succeeded": no ingest reads a version that
\* another pass has ingested since.
THEOREM PlansStayFresh == Spec => []PlansAreFresh
  <1>1. ScheduleInv => PlansAreFresh
    BY DEF ScheduleInv
  <1>2. QED
    BY <1>1, ScheduleSound, PTL
===============================================================================
