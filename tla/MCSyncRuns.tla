------------------------------ MODULE MCSyncRuns ------------------------------
(* Instances of SyncRuns for TLC. *)
EXTENDS SyncRuns, TLC

CONSTANTS w1, w2

Symmetry == Permutations({w1, w2})

\* The bound MaxRuns must not end the timers' passes in the liveness runs: the id of an
\* ended run in which no file succeeded, which no query reads and no process writes any
\* more, is used again.
Recycle(r) ==
  /\ syncRuns[r] \in Terminal
  /\ \A p \in Paths : syncFiles[r][p].status # "SUCCEEDED"
  /\ \A w \in Workers : Live(w) => run[w] # r
  /\ syncRuns' = [syncRuns EXCEPT ![r] = "NONE"]
  /\ old' = old \ {r}
  /\ syncFiles' = [syncFiles EXCEPT ![r] = [p \in Paths |-> NoFileRow]]
  /\ UNCHANGED <<remote, loaded, pc, local>>

RecyclingNext == Next \/ \E r \in RunId : Recycle(r)

RecyclingSpec ==
  /\ Init /\ [][RecyclingNext]_vars
  /\ Fairness /\ \A r \in RunId : WF_vars(Recycle(r))
===============================================================================
