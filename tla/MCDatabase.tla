----------------------------- MODULE MCDatabase -----------------------------
EXTENDS DatabaseInit

CONSTANTS category, severity

(* The columns of alerts that an older version lacks. *)
MCColumnsOf == [table \in Tables |-> {category, severity}]
=============================================================================
