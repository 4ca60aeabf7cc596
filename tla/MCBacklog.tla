----------------------------- MODULE MCBacklog -----------------------------
(* A graph of tickets for Backlog, and how its invocations may be started. *)
EXTENDS Backlog

\* 1 needs 3, against the order of ids; 2 needs 1 and 4, which its author has
\* done already.
Chain     == [t \in Ticket |-> CASE t = 1 -> {3} [] t = 2 -> {1, 4} [] OTHER -> {}]
Satisfied == [t \in Ticket |-> IF t = 4 THEN "done" ELSE "pending"]
AllGates  == GateMode
SomeDry   == BOOLEAN
=============================================================================
