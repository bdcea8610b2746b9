------------------------------ MODULE MCJobLoader ------------------------------
(* Values for model-checking JobLoader. *)
EXTENDS JobLoader, TLC

CONSTANTS a, b, j1, j2, j3, l1, l2, u1, f1, f2

\* Content 2 edits content 1 under the same URL; content 3 repeats content 1 without a URL.
MCUrl == <<u1, u1, Null>>
MCFingerprint == <<f1, f2, f1>>

Symmetry == Permutations(JobIds) \cup Permutations(ExternalIds) \cup Permutations(Loaders)
===============================================================================
