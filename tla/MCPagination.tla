---------------------------- MODULE MCPagination ----------------------------
(* Instances of Pagination for TLC. *)
EXTENDS Pagination

\* A date of two, or none; the salary runs against the date, the ranks tie.
MCRows == {[posted_at_desc |-> p, first_seen_desc |-> f, salary_desc |-> Null, relevance |-> 1]
            : p \in {1, 2, Null}, f \in {1}}
           \cup {[posted_at_desc |-> 1, first_seen_desc |-> 2, salary_desc |-> 2, relevance |-> 1]}
===============================================================================
