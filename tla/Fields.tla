-------------------------------- MODULE Fields --------------------------------
(* A field of a record that may be missing. *)

None == "None"

\* `a or b'.
Or(a, b) == IF a # None THEN a ELSE b
===============================================================================
