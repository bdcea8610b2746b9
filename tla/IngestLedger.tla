----------------------------- MODULE IngestLedger -----------------------------
(***************************************************************************)
(* What the ingestion of one source promises, without processes, tables or *)
(* failures: one holder at a time writes content, and a version of a file  *)
(* is certified as ingested at most once, by the holder, when a revision   *)
(* at least as new is wholly stored.  Nothing stored or certified is lost. *)
(***************************************************************************)
EXTENDS Integers

CONSTANTS Holders, Paths, Revision, Batches

VARIABLES
  holder,      \* the runs that hold the source's lock
  store,       \* <<path, revision, batch>> in the jobs table
  certified    \* <<path, version>> never to be fetched again

ledgerVars == <<holder, store, certified>>

Whole(p, v) == \A b \in 1..Batches : <<p, v, b>> \in store

LedgerInit == holder = {} /\ store = {} /\ certified = {}

Acquire ==
  /\ holder = {}
  /\ \E h \in Holders : holder' = {h}
  /\ UNCHANGED <<store, certified>>

Release ==
  /\ holder # {}
  /\ holder' = {}
  /\ UNCHANGED <<store, certified>>

Store ==
  /\ holder # {}
  /\ \E p \in Paths, v \in Revision, b \in 1..Batches : store' = store \cup {<<p, v, b>>}
  /\ UNCHANGED <<holder, certified>>

Certify ==
  /\ holder # {}
  /\ \E p \in Paths, e \in Revision :
       /\ <<p, e>> \notin certified
       /\ \E v \in Revision : v >= e /\ Whole(p, v)
       /\ certified' = certified \cup {<<p, e>>}
  /\ UNCHANGED <<holder, store>>

LedgerNext == Acquire \/ Release \/ Store \/ Certify

LedgerSpec == LedgerInit /\ [][LedgerNext]_ledgerVars
===============================================================================
