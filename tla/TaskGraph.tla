----------------------------- MODULE TaskGraph -----------------------------
(***************************************************************************)
(* What the execution engine promises about a plan, without batches,       *)
(* files, goroutines or saves: subtasks are worked on in dependency order, *)
(* never together with one they conflict with, one at a time unless the    *)
(* configuration wants more, and then at most as many as it says; what is  *)
(* settled stays settled; work that is let go unsettled can only be        *)
(* rewound and started again.  Scheduler implements it.                    *)
(***************************************************************************)
EXTENDS Integers, FiniteSets

CONSTANTS Subtask, Deps, Parallel, MaxParallel, Conflict(_, _)

VARIABLES
  stage,   \* stage[s]: "todo", "active", "done" or "failed"
  held     \* the subtasks being worked on now

Stage == {"todo", "active", "done", "failed"}

GraphTypeOK == stage \in [Subtask -> Stage] /\ held \in SUBSET Subtask

GraphInit == stage = [s \in Subtask |-> "todo"] /\ held = {}

Startable(s) == stage[s] = "todo" /\ \A d \in Deps[s] : stage[d] = "done"

Start(s) ==
  /\ Startable(s)
  /\ held # {} => Parallel /\ Cardinality(held) < MaxParallel
  /\ \A t \in held : ~ Conflict(s, t)
  /\ stage' = [stage EXCEPT ![s] = "active"] /\ held' = held \cup {s}

Settle(s) ==
  /\ s \in held
  /\ \E end \in {"done", "failed"} : stage' = [stage EXCEPT ![s] = end]
  /\ held' = held \ {s}

\* s is let go without an outcome: it stays active until rewound.
LetGo(s) == s \in held /\ held' = held \ {s} /\ UNCHANGED stage

\* Everything stops at once.  A start or an outcome that was being recorded
\* may turn out to have been recorded.
Halt ==
  /\ held' = {}
  /\ stage' \in [Subtask -> Stage]
  /\ \A s \in Subtask :
       \/ stage'[s] = stage[s]
       \/ stage[s] = "active" /\ stage'[s] \in {"done", "failed"}
       \/ Startable(s) /\ stage'[s] = "active"

Rewind ==
  /\ held = {} /\ UNCHANGED held
  /\ stage' = [s \in Subtask |-> IF stage[s] = "active" THEN "todo" ELSE stage[s]]

GraphNext ==
  \/ \E s \in Subtask : Start(s) \/ Settle(s) \/ LetGo(s)
  \/ Halt \/ Rewind

GraphSpec == GraphInit /\ [][GraphNext]_<<stage, held>>

=============================================================================
