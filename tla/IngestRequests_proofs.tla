------------------------- MODULE IngestRequests_proofs -------------------------
(* Proofs about the queue of ingest requests: QueueInv is inductive. *)
EXTENDS IngestRequests, TLAPS

LEMMA InitQueue == Init => QueueInv
  BY IngestRequestsAssumption
  DEF Init, QueueInv, TypeOK, RunnersFit, QueueFits, SucceededIsFetched, SecondOnlyByRace,
      OneInFlight, InFlight, Terminal

LEMMA InFlightIsNoTerminal == InFlight \cap Terminal = {} /\ "NONE" \notin InFlight \cup Terminal
  BY DEF InFlight, Terminal

LEMMA StatusType == \A code \in {0, 1, 3} : Status(code) \in Terminal
  BY DEF Status, Terminal

LEMMA NextType == QueueInv /\ [Next]_vars => TypeOK'
  <1> SUFFICES ASSUME QueueInv, [Next]_vars PROVE TypeOK'
    OBVIOUS
  <1>1. TypeOK /\ RunnersFit
    BY DEF QueueInv
  <1>2. ASSUME NEW c \in Callers, RequestIngest(c) PROVE TypeOK'
    BY <1>1, <1>2 DEF TypeOK, RequestIngest, table, runner
  <1>3. ASSUME NEW c \in Callers, Insert(c) PROVE TypeOK'
    BY <1>1, <1>3 DEF TypeOK, Insert, runner, InFlight
  <1>4. ASSUME NEW c \in Callers, GiveUp(c) PROVE TypeOK'
    BY <1>1, <1>4 DEF TypeOK, GiveUp, table, runner
  <1>5. ASSUME NEW i \in RequestId, Age(i) \/ Cool(i) PROVE TypeOK'
    BY <1>1, <1>5 DEF TypeOK, Age, Cool, api, runner
  <1>6. CASE OtherStarts \/ OtherEnds
    BY <1>1, <1>6 DEF TypeOK, OtherStarts, OtherEnds, table, api, runner
  <1>7. ASSUME NEW r \in Runners, Reclaim(r) PROVE TypeOK'
    BY <1>1, <1>7 DEF TypeOK, Reclaim, Abandoned, api, Terminal
  <1>8. ASSUME NEW r \in Runners, Pick(r) PROVE TypeOK'
    BY <1>1, <1>8 DEF TypeOK, Pick, table, api
  <1>9. ASSUME NEW r \in Runners, Exit(r)
        PROVE  /\ pc' \in [Runners -> {"idle", "picking", "claiming", "launching", "running", "finishing"}]
               /\ req' \in [Runners -> RequestId \cup {0}]
               /\ exit' \in [Runners -> {0, 1, 3}]
    BY <1>1, <1>9 DEF TypeOK, Exit
  <1>10. ASSUME NEW r \in Runners, NothingQueued(r) PROVE TypeOK'
    BY <1>1, <1>9, <1>10 DEF TypeOK, NothingQueued, table, api
  <1>11. ASSUME NEW r \in Runners, Claim(r) PROVE TypeOK'
    BY <1>1, <1>11 DEF TypeOK, Claim, api, InFlight
  <1>12. ASSUME NEW r \in Runners, Launch(r) PROVE TypeOK'
    BY <1>1, <1>12 DEF TypeOK, Launch, table, api
  <1>13. ASSUME NEW r \in Runners, RunEnds(r) PROVE TypeOK'
    BY <1>1, <1>13 DEF TypeOK, RunEnds, RunnersFit, table, api
  <1>14. ASSUME NEW r \in Runners, Finish(r) PROVE TypeOK'
    <2>1. Status(exit[r]) \in Terminal /\ req[r] \in RequestId
      BY <1>1, <1>14, StatusType DEF TypeOK, RunnersFit, Finish
    <2>2. QED
      BY <1>1, <1>9, <1>14, <2>1 DEF TypeOK, Finish, api
  <1>15. ASSUME NEW r \in Runners, Die(r) PROVE TypeOK'
    BY <1>1, <1>9, <1>15 DEF TypeOK, Die, table, api
  <1>16. CASE UNCHANGED vars
    BY <1>1, <1>16 DEF TypeOK, vars, table, api, runner
  <1>17. QED
    BY <1>2, <1>3, <1>4, <1>5, <1>6, <1>7, <1>8, <1>10, <1>11, <1>12, <1>13, <1>14, <1>15, <1>16
    DEF Next, Work

\* What a step may do to the status of a request.
LEMMA StatusSteps ==
  ASSUME QueueInv, [Next]_vars, NEW i \in RequestId
  PROVE  \/ requests'[i] = requests[i]
         \/ requests[i] = "NONE" /\ requests'[i] = "QUEUED" /\ \E c \in Callers : Insert(c)
         \/ requests[i] = "QUEUED" /\ requests'[i] = "RUNNING"
         \/ requests[i] = "RUNNING" /\ requests'[i] = "FAILED"
         \/ /\ requests[i] \notin {"NONE", "QUEUED"} /\ requests'[i] \in Terminal
            /\ \E r \in Runners : pc[r] = "finishing" /\ req[r] = i /\ requests'[i] = Status(exit[r])
  <1>1. TypeOK /\ RunnersFit
    BY DEF QueueInv
  <1>2. ASSUME NEW c \in Callers, Insert(c), requests'[i] # requests[i]
        PROVE  requests[i] = "NONE" /\ requests'[i] = "QUEUED"
    BY <1>1, <1>2 DEF Insert, TypeOK
  <1>3. ASSUME NEW r \in Runners, Reclaim(r), requests'[i] # requests[i]
        PROVE  requests[i] = "RUNNING" /\ requests'[i] = "FAILED"
    BY <1>1, <1>3 DEF Reclaim, Abandoned
  <1>4. ASSUME NEW r \in Runners, Claim(r), requests'[i] # requests[i]
        PROVE  requests[i] = "QUEUED" /\ requests'[i] = "RUNNING"
    BY <1>1, <1>4 DEF Claim, Claimable, TypeOK
  <1>5. ASSUME NEW r \in Runners, Finish(r), requests'[i] # requests[i]
        PROVE  /\ requests[i] \notin {"NONE", "QUEUED"} /\ requests'[i] \in Terminal
               /\ pc[r] = "finishing" /\ req[r] = i /\ requests'[i] = Status(exit[r])
    <2>1. req[r] = i /\ requests'[i] = Status(exit[r]) /\ pc[r] = "finishing"
      BY <1>1, <1>5 DEF Finish, TypeOK
    <2>2. requests[i] \notin {"NONE", "QUEUED"}
      BY <1>1, <2>1 DEF RunnersFit
    <2>3. QED
      BY <1>1, <2>1, <2>2, StatusType DEF TypeOK
  <1>6. ASSUME requests'[i] # requests[i]
        PROVE  \/ \E c \in Callers : Insert(c)
               \/ \E r \in Runners : Reclaim(r) \/ Claim(r) \/ Finish(r)
    BY <1>6 DEF Next, Work, RequestIngest, GiveUp, Age, Cool, OtherStarts, OtherEnds, Pick,
                NothingQueued, Launch, RunEnds, Die, table, vars
  <1>7. QED
    BY <1>2, <1>3, <1>4, <1>5, <1>6

LEMMA NextRunners == QueueInv /\ [Next]_vars => RunnersFit'
  <1> SUFFICES ASSUME QueueInv, [Next]_vars, NEW r \in Runners
               PROVE  /\ pc'[r] \in {"claiming", "launching", "running", "finishing"} =>
                           req'[r] \in RequestId /\ requests'[req'[r]] # "NONE"
                      /\ pc'[r] \in {"launching", "running", "finishing"} => requests'[req'[r]] # "QUEUED"
                      /\ pc'[r] = "finishing" /\ exit'[r] = 0 => req'[r] \in fetched'
    BY DEF RunnersFit
  <1>1. TypeOK /\ RunnersFit
    BY DEF QueueInv
  <1>2. \A i \in RequestId :
          /\ requests[i] # "NONE" => requests'[i] # "NONE"
          /\ requests[i] \notin {"NONE", "QUEUED"} => requests'[i] # "QUEUED"
    BY StatusSteps, InFlightIsNoTerminal DEF InFlight, Terminal
  <1>3. fetched \subseteq fetched'
    BY DEF Next, Work, RequestIngest, Insert, GiveUp, Age, Cool, OtherStarts, OtherEnds, Reclaim,
           Pick, NothingQueued, Claim, Launch, RunEnds, Finish, Die, vars
  <1>4. CASE pc'[r] = pc[r] /\ req'[r] = req[r] /\ exit'[r] = exit[r]
    BY <1>1, <1>2, <1>3, <1>4 DEF RunnersFit
  <1>5. CASE pc'[r] \in {"idle", "picking"}
    BY <1>5
  <1>6. CASE Pick(r)
    BY <1>1, <1>6 DEF Pick, TypeOK, table
  <1>7. CASE Claim(r)
    BY <1>1, <1>2, <1>7 DEF Claim, Claimable, RunnersFit, TypeOK
  <1>8. CASE Launch(r)
    BY <1>1, <1>2, <1>8 DEF Launch, RunnersFit, TypeOK
  <1>9. CASE RunEnds(r)
    BY <1>1, <1>2, <1>9 DEF RunEnds, RunnersFit, TypeOK
  <1>10. ASSUME NEW s \in Runners, s # r, Reclaim(s) \/ Work(s) \/ Die(s)
         PROVE  pc'[r] = pc[r] /\ req'[r] = req[r] /\ exit'[r] = exit[r]
    BY <1>1, <1>10 DEF TypeOK, Work, Reclaim, Pick, NothingQueued, Claim, Launch, RunEnds, Finish,
                       Die, Exit
  <1>11. CASE Reclaim(r) \/ NothingQueued(r) \/ Finish(r) \/ Die(r)
    BY <1>1, <1>5, <1>11 DEF TypeOK, Reclaim, NothingQueued, Finish, Die, Exit
  <1>12. CASE UNCHANGED runner
    BY <1>4, <1>12 DEF runner
  <1>13. QED
    BY <1>4, <1>6, <1>7, <1>8, <1>9, <1>10, <1>11, <1>12
    DEF Next, Work, RequestIngest, Insert, GiveUp, Age, Cool, OtherStarts, OtherEnds, vars

LEMMA NextQueueFits == QueueInv /\ [Next]_vars => QueueFits'
  <1> SUFFICES ASSUME QueueInv, [Next]_vars PROVE QueueFits'
    OBVIOUS
  <1>1. TypeOK /\ QueueFits
    BY DEF QueueInv
  <1>2. CASE \E c \in Callers : RequestIngest(c)
    <2>1. PICK c \in Callers : RequestIngest(c)
      BY <1>2
    <2>2. requests' = requests
      BY <2>1 DEF RequestIngest, table
    <2>3. ASSUME ~raced' PROVE ~raced /\ \A d \in Callers : caller'[d] = "inserting" => d = c
      BY <1>1, <2>1, <2>3 DEF RequestIngest, TypeOK
    <2>4. ASSUME ~raced, NEW i \in RequestId PROVE requests[i] \notin InFlight
      BY <1>1, <2>1, <2>4, InFlightIsNoTerminal DEF RequestIngest, Latest, Busy, QueueFits
    <2>5. QED
      BY <1>1, <2>2, <2>3, <2>4 DEF QueueFits
  <1>3. CASE \E c \in Callers : Insert(c)
    <2>1. PICK c \in Callers, n \in RequestId :
            /\ caller[c] = "inserting" /\ requests[n] = "NONE"
            /\ \A k \in RequestId : k < n => requests[k] # "NONE"
            /\ requests' = [requests EXCEPT ![n] = "QUEUED"]
            /\ caller' = [caller EXCEPT ![c] = "idle"] /\ raced' = raced
      BY <1>3 DEF Insert
    <2>2. \A i \in RequestId : requests'[i] = IF i = n THEN "QUEUED" ELSE requests[i]
      BY <1>1, <2>1 DEF TypeOK
    <2>3. \A d \in Callers : caller'[d] = "inserting" => caller[d] = "inserting" /\ d # c
      BY <1>1, <2>1 DEF TypeOK
    <2>4. \A k \in RequestId : requests[k] # "NONE" => k < n
      BY <1>1, <2>1 DEF QueueFits, RequestId
    <2>5. \A i, k \in RequestId : k < i /\ requests'[i] # "NONE" => requests'[k] # "NONE"
      BY <1>1, <2>1, <2>2 DEF QueueFits
    <2>6. ASSUME ~raced
          PROVE  /\ \A d \in Callers : caller'[d] # "inserting"
                 /\ \A i \in RequestId : i # n => requests'[i] \notin InFlight
      BY <1>1, <2>1, <2>2, <2>3, <2>6 DEF QueueFits
    <2>7. ASSUME ~raced, NEW i \in RequestId, NEW k \in RequestId,
                 requests'[i] \in InFlight, requests'[k] # "NONE"
          PROVE  k <= i
      BY <2>2, <2>4, <2>6, <2>7 DEF RequestId
    <2>8. QED
      BY <2>1, <2>5, <2>6, <2>7 DEF QueueFits
  <1>4. CASE ~(\E c \in Callers : Insert(c) \/ RequestIngest(c))
    <2>1. /\ raced' = raced
          /\ \A c \in Callers : caller'[c] = "inserting" => caller[c] = "inserting"
      BY <1>1, <1>4
      DEF Next, Work, GiveUp, Age, Cool, OtherStarts, OtherEnds, Reclaim, Pick, NothingQueued,
          Claim, Launch, RunEnds, Finish, Die, api, vars, TypeOK
    <2>2. \A i \in RequestId :
            /\ requests'[i] = "NONE" <=> requests[i] = "NONE"
            /\ requests'[i] \in InFlight => requests[i] \in InFlight
      BY <1>4, StatusSteps DEF InFlight, Terminal
    <2>3. \A i, k \in RequestId : k < i /\ requests'[i] # "NONE" => requests'[k] # "NONE"
      BY <1>1, <2>2 DEF QueueFits
    <2>4. QED
      BY <1>1, <2>1, <2>2, <2>3 DEF QueueFits
  <1>5. QED
    BY <1>2, <1>3, <1>4

LEMMA NextAnswers == QueueInv /\ [Next]_vars => SucceededIsFetched' /\ SecondOnlyByRace'
  <1> SUFFICES ASSUME QueueInv, [Next]_vars PROVE SucceededIsFetched' /\ SecondOnlyByRace'
    OBVIOUS
  <1>1. ASSUME NEW i \in RequestId, requests'[i] = "SUCCEEDED" PROVE i \in fetched'
    <2>1. fetched \subseteq fetched'
      BY DEF Next, Work, RequestIngest, Insert, GiveUp, Age, Cool, OtherStarts, OtherEnds, Reclaim,
             Pick, NothingQueued, Claim, Launch, RunEnds, Finish, Die, vars
    <2>2. CASE requests[i] = "SUCCEEDED"
      BY <2>1, <2>2 DEF QueueInv, SucceededIsFetched
    <2>3. CASE requests[i] # "SUCCEEDED"
      <3>1. PICK r \in Runners :
              pc[r] = "finishing" /\ req[r] = i /\ requests'[i] = Status(exit[r])
        BY <1>1, <2>3, StatusSteps
      <3>2. exit[r] = 0
        BY <1>1, <3>1 DEF Status, QueueInv, TypeOK
      <3>3. QED
        BY <2>1, <3>1, <3>2 DEF QueueInv, RunnersFit
    <2>4. QED
      BY <2>2, <2>3
  <1>2. ASSUME QueueFits', ~raced', NEW i \in RequestId, NEW k \in RequestId,
               requests'[i] \in InFlight, requests'[k] \in InFlight
        PROVE  i = k
    <2>1. requests'[i] # "NONE" /\ requests'[k] # "NONE"
      BY <1>2, InFlightIsNoTerminal
    <2>2. k <= i /\ i <= k
      BY <1>2, <2>1 DEF QueueFits
    <2>3. QED
      BY <2>2 DEF RequestId
  <1>3. QED
    BY <1>1, <1>2, NextQueueFits DEF SucceededIsFetched, SecondOnlyByRace, OneInFlight

LEMMA QueueAlways == Spec => []QueueInv
  <1>1. QueueInv /\ [Next]_vars => QueueInv'
    BY NextType, NextRunners, NextQueueFits, NextAnswers DEF QueueInv
  <1>2. QED
    BY <1>1, InitQueue, PTL DEF Spec

\* The queue and its runners keep their types.
THEOREM TypeCorrect == Spec => []TypeOK
  <1>1. QueueInv => TypeOK
    BY DEF QueueInv
  <1>2. QED
    BY <1>1, QueueAlways, PTL

\* A request that says SUCCEEDED was fetched, however many runners overlap and die.
THEOREM SucceededFetched == Spec => []SucceededIsFetched
  <1>1. QueueInv => SucceededIsFetched
    BY DEF QueueInv
  <1>2. QED
    BY <1>1, QueueAlways, PTL

\* Only handlers that overlap put two requests in flight, for any number of requests.
THEOREM SecondNeedsARace == Spec => []SecondOnlyByRace
  <1>1. QueueInv => SecondOnlyByRace
    BY DEF QueueInv
  <1>2. QED
    BY <1>1, QueueAlways, PTL

\* An answered request is never taken up again, however late a runner is.
THEOREM AnsweredStay == Spec => AnsweredStayAnswered
  <1>1. QueueInv /\ [Next]_vars =>
          [\A i \in RequestId : requests[i] \in Terminal => requests'[i] \in Terminal]_vars
    BY StatusSteps DEF Terminal
  <1>2. QED
    BY <1>1, QueueAlways, PTL DEF Spec, AnsweredStayAnswered
===============================================================================
