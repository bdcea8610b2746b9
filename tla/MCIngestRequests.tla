--------------------------- MODULE MCIngestRequests ---------------------------
(* Instances of IngestRequests for TLC. *)
EXTENDS IngestRequests

CONSTANTS c1, c2, timer, hand
===============================================================================
