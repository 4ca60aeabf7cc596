------------------------------ MODULE RunState ------------------------------
(***************************************************************************)
(* The durable state of one run (internal/run): the status enumerations    *)
(* and the record that run.yaml holds.  A process works on a copy of the   *)
(* record in memory; Store.Save writes the whole copy over run.yaml        *)
(* (temporary file, then rename), so the file always holds one complete    *)
(* record.                                                                 *)
(*                                                                         *)
(* Abstracted: names, times, task text, findings (only "are there any      *)
(* unresolved ones" is kept).  The subtask list of a plan is the constant  *)
(* Subtask; `planned' says whether the run holds it yet.                   *)
(***************************************************************************)
EXTENDS Integers

CONSTANT Subtask      \* the subtasks of the plan (docs/subtasks.yaml)

RunStatus == {"created", "planning", "planned", "executing", "seniorReview",
              "paused", "completed", "failed", "aborted"}

SubtaskStatus == {"pending", "implementing", "reviewing", "blocked",
                  "done", "failed"}

SeniorReviewStatus == {"pending", "running", "done", "skipped"}

\* Status.IsTerminal: nothing more is requested of such a run by stop/review.
IsTerminalRun(status) == status \in {"completed", "failed", "aborted"}

\* SubtaskStatus.IsTerminal
IsTerminal(status) == status \in {"done", "failed"}

\* Mutant of IsInterrupted: whatever was touched restarts.
IsInterrupted_Touched(status) == status \notin {"pending", "blocked", "failed"}

\* SubtaskStatus.IsInterrupted: the step restarts on resume.
IsInterrupted(status) == status \in {"implementing", "reviewing"}

Run == [ status     : RunStatus,
         planned    : BOOLEAN,                    \* len(Subtasks) > 0
         st         : [Subtask -> SubtaskStatus], \* Subtask.Status
         loops      : [Subtask -> Nat],           \* Subtask.Loops
         open       : [Subtask -> BOOLEAN],       \* Subtask.Unresolved non-empty
         senior     : SeniorReviewStatus,         \* SeniorReview.Status
         rounds     : Nat,                        \* SeniorReview.Rounds
         seniorOpen : BOOLEAN ]                   \* SeniorReview.Unresolved non-empty

\* What Store.Create persists: no subtasks, nothing reviewed.
CreatedRun ==
  [ status     |-> "created",
    planned    |-> FALSE,
    st         |-> [s \in Subtask |-> "pending"],
    loops      |-> [s \in Subtask |-> 0],
    open       |-> [s \in Subtask |-> FALSE],
    senior     |-> "pending",
    rounds     |-> 0,
    seniorOpen |-> FALSE ]

\* What a freshly planned run holds: ParseSubtasks seeds every subtask pending.
PlannedRun == [CreatedRun EXCEPT !.status = "planned", !.planned = TRUE]

\* resetInterrupted: rewind the subtasks an interruption cut off; Loops stays.
ResetInterrupted(run) ==
  [run EXCEPT !.st = [s \in Subtask |-> IF IsInterrupted(run.st[s])
                                        THEN "pending" ELSE run.st[s]]]

=============================================================================
