----------------------------- MODULE MCRunStore -----------------------------
(* Processes and their tasks' slugs for RunStore. *)
EXTENDS RunStore

CONSTANTS p1, p2, p3

\* Two tasks that make one slug, and one of its own.
TaskSlugs == [p \in Proc |-> IF p = p3 THEN "other" ELSE "same"]
=============================================================================
