---------------------------- MODULE RunLifecycle ----------------------------
(***************************************************************************)
(* One run from `aixecutor run' or `plan' to its end: the orchestrator     *)
(* (orchestrator.go), the planner, the senior-review phase and the         *)
(* commands that resume and amend a run, around the execution engine of    *)
(* Scheduler.  Each process is one invocation of the program; at most one  *)
(* drives the run at a time (the code does not enforce this, see README).  *)
(*                                                                         *)
(* An amended plan has the same subtask ids as the plan it replaces.       *)
(* `work' is what the working tree holds of the agents' edits.             *)
(***************************************************************************)
EXTENDS Scheduler

CONSTANTS
  Autostart,        \* pipeline.autostartExecution
  SeniorEnabled,    \* pipeline.seniorReview.enabled
  SeniorMaxLoops    \* pipeline.seniorReview.maxLoops, -1 = unlimited

ASSUME LifecycleAssumption ==
  Autostart \in BOOLEAN /\ SeniorEnabled \in BOOLEAN /\ SeniorMaxLoops \in Int

VARIABLES
  op,      \* where the process that drives the run is
  cmd,     \* the command this process was started as
  work     \* the subtasks whose edits are in the working tree

allVars == <<vars, op, cmd, work>>

Op == {"down", "drive", "plan", "planner", "gate", "enterRun", "running",
       "toSenior", "senior", "seniorDry", "seniorLoop", "seniorReviewing",
       "seniorRemediating", "complete", "classify", "end",
       "amendRestore", "amendReload", "amendReset", "amendClear"}

Cmd == {"run", "plan", "resume", "amend"}

LifecycleTypeOK == TypeOK /\ op \in Op /\ cmd \in Cmd /\ work \in SUBSET Subtask

\* What a step of the orchestrator between two engine runs leaves alone.
aside == <<progVars, givenVars, requests, cmd, work>>

\* A save by the orchestrator: go on to ok, or to bad with the change unsaved.
Persist(run, ok, bad) ==
  \/ Saved(run) /\ op' = ok
  \/ SaveFails(run) /\ op' = bad

-----------------------------------------------------------------------------
(* drive and driveFrom.                                                    *)

\* Mutant of phaseAfterAbort: planned is taken for executed.
phaseAfterAbort_SkipsExecution ==
  IF mem.planned THEN "senior" ELSE "plan"

\* phaseAfterAbort: an aborted run no longer names its phase.
phaseAfterAbort ==
  IF mem.senior \in {"running", "done"} THEN "senior"
  ELSE IF mem.planned THEN "enterRun" ELSE "plan"

\* drive: pick the phase; a paused run loses both markers, an aborted one only
\* the stop marker.
Drive ==
  /\ op = "drive"
  /\ \/ /\ mem.status \in {"completed", "failed"}
        /\ op' = "end" /\ UNCHANGED markerVars
     \/ /\ mem.status = "paused"
        /\ op' = "enterRun" /\ pauseReq' = FALSE /\ stopReq' = FALSE
     \/ /\ mem.status = "aborted"
        /\ op' = phaseAfterAbort /\ stopReq' = FALSE /\ UNCHANGED pauseReq
     \/ /\ mem.status \in {"created", "planning", "planned", "executing", "seniorReview"}
        /\ op' = CASE mem.status \in {"created", "planning"} -> "plan"
                   [] mem.status = "planned"                 -> "gate"
                   [] mem.status = "executing"               -> "enterRun"
                   [] OTHER                                  -> "senior"
        /\ UNCHANGED markerVars
  /\ UNCHANGED <<mem, disk, faults, progVars, dry, requests, cmd, work>>

\* Where a phase error goes: `plan' returns it, the others classify it.
OnError == IF cmd = "plan" THEN "end" ELSE "classify"

\* Planner.Plan marks the run planning, then invokes the agent.
StartPlanning ==
  /\ op = "plan"
  /\ Persist([mem EXCEPT !.status = "planning"], "planner", OnError)
  /\ UNCHANGED aside

\* The planner's bundle validates, after at most one re-prompt: the subtasks
\* and the status are saved together.
PlanReady ==
  /\ op = "planner"
  /\ Persist([mem EXCEPT !.status = "planned", !.planned = TRUE,
                         !.st     = [s \in Subtask |-> "pending"],
                         !.loops  = [s \in Subtask |-> 0],
                         !.open   = [s \in Subtask |-> FALSE]],
             IF cmd = "plan" THEN "end" ELSE "gate", OnError)
  /\ UNCHANGED aside

\* The summary, the agent or both attempts to validate fail.  A dry run asks no
\* agent: as in ExecutorReturns, only a cancelled context fails it.
PlanErrs ==
  /\ op = "planner" /\ op' = OnError
  /\ ~ dry \/ interrupted
  /\ UNCHANGED <<noOwner, aside>>

\* The autostart gate stops a first run only; a resume goes on.
Gate ==
  /\ op = "gate"
  /\ IF cmd = "run" /\ ~ Autostart
     THEN op' = "end" /\ UNCHANGED noOwner
     ELSE Persist([mem EXCEPT !.status = "executing"], "enterRun", "classify")
  /\ UNCHANGED aside

\* runExecution: Scheduler.Run starts with its owner and its watcher.
EnterRun ==
  /\ op = "enterRun" /\ op' = "running"
  /\ pc' = "begin" /\ watcher' = "polling"
  /\ UNCHANGED <<noOwner, batch, wpc, result, interrupted, stopFired,
                 givenVars, requests, cmd, work>>

\* Mutant of RunReturned: a finished execution is not advanced.
RunReturned_Stops ==
  /\ op = "running" /\ pc = "returned"
  /\ op' = IF result \in {"nil", "paused"} THEN "end" ELSE "classify"
  /\ UNCHANGED <<noOwner, aside>>

\* Scheduler.Run has returned: go on, leave a paused run alone, or classify.
RunReturned ==
  /\ op = "running" /\ pc = "returned"
  /\ op' = CASE result = "nil"    -> "toSenior"
             [] result = "paused" -> "end"
             [] OTHER             -> "classify"
  /\ UNCHANGED <<noOwner, aside>>

ToSenior ==
  /\ op = "toSenior"
  /\ Persist([mem EXCEPT !.status = "seniorReview"], "senior", "classify")
  /\ UNCHANGED aside

Complete ==
  /\ op = "complete"
  /\ Persist([mem EXCEPT !.status = "completed"], "end", "classify")
  /\ UNCHANGED aside

\* Mutant of Classify: a terminal status is written over.
Classify_Overwrites ==
  /\ op = "classify" /\ op' = "end"
  /\ LET run == [mem EXCEPT !.status = IF interrupted \/ result = "canceled"
                                       THEN "aborted" ELSE "failed"]
     IN  Saved(run) \/ SaveFails(run)
  /\ UNCHANGED aside

\* classify: a cancellation (the process was signalled, or the error says the
\* engine was cancelled) aborts, anything else fails; a status already terminal
\* in memory is left alone, and a failing save only changes the message.
Classify ==
  /\ op = "classify" /\ op' = "end"
  /\ LET run == [mem EXCEPT !.status = IF interrupted \/ result = "canceled"
                                       THEN "aborted" ELSE "failed"]
     IN  IF IsTerminalRun(mem.status) THEN UNCHANGED noOwner
         ELSE Saved(run) \/ SaveFails(run)
  /\ UNCHANGED aside

-----------------------------------------------------------------------------
(* seniorReviewPhase.Run                                                   *)

\* Mutant of SeniorEnter: a dry run is reviewed like any other.
SeniorEnter_NoDryRun ==
  /\ op = "senior"
  /\ IF ~ SeniorEnabled
     THEN Persist([mem EXCEPT !.senior = "skipped"], "complete", "classify")
     ELSE Persist([mem EXCEPT !.status = "seniorReview", !.senior = "running"],
                  "seniorLoop", "classify")
  /\ UNCHANGED aside

SeniorEnter ==
  /\ op = "senior"
  /\ \/ /\ ~ SeniorEnabled
        /\ Persist([mem EXCEPT !.senior = "skipped"], "complete", "classify")
     \/ /\ SeniorEnabled /\ mem.senior = "done"
        /\ op' = "complete" /\ UNCHANGED noOwner
     \/ /\ SeniorEnabled /\ mem.senior # "done"
        /\ Persist([mem EXCEPT !.status = "seniorReview", !.senior = "running"],
                   IF dry THEN "seniorDry" ELSE "seniorLoop", "classify")
  /\ UNCHANGED aside

\* The end of the phase: approved (or a dry run) clears the findings, a spent
\* budget reports them.
SeniorDone(unresolved) ==
  Persist([mem EXCEPT !.senior = "done", !.seniorOpen = unresolved],
          "complete", "classify")

SeniorDryRun ==
  /\ op = "seniorDry" /\ SeniorDone(FALSE)
  /\ UNCHANGED aside

SeniorLoop ==
  /\ op = "seniorLoop"
  /\ op' = IF interrupted THEN "classify" ELSE "seniorReviewing"
  /\ UNCHANGED <<noOwner, aside>>

seniorBudgetSpent == SeniorMaxLoops >= 0 /\ mem.rounds >= SeniorMaxLoops

SeniorApproves ==
  /\ op = "seniorReviewing" /\ SeniorDone(FALSE)
  /\ UNCHANGED aside

SeniorReports ==
  /\ op = "seniorReviewing" /\ seniorBudgetSpent
  /\ \E flagged \in BOOLEAN : SeniorDone(flagged)
  /\ UNCHANGED aside

SeniorRemediates ==
  /\ op = "seniorReviewing" /\ ~ seniorBudgetSpent
  /\ SeniorMaxLoops >= 0 \/ mem.rounds < LoopCap
  /\ Persist([mem EXCEPT !.rounds = @ + 1], "seniorRemediating", "classify")
  /\ UNCHANGED aside

\* The diff, the reviewer, the report or the remediation fails; or the
\* remediation returns and the loop goes round.
SeniorErrs ==
  /\ op \in {"seniorReviewing", "seniorRemediating"} /\ op' = "classify"
  /\ UNCHANGED <<noOwner, aside>>

SeniorRemediated ==
  /\ op = "seniorRemediating" /\ op' = "seniorLoop"
  /\ UNCHANGED <<noOwner, aside>>

SeniorStep == \/ SeniorEnter \/ SeniorDryRun \/ SeniorLoop \/ SeniorApproves
              \/ SeniorReports \/ SeniorRemediates \/ SeniorErrs \/ SeniorRemediated

-----------------------------------------------------------------------------
(* Orchestrator.Amend: revert the tree, re-read the plan, reset, restart.  *)

\* RestoreTree works file by file: an error leaves it half way.
AmendRestore ==
  /\ op = "amendRestore"
  /\ \/ work' = {} /\ op' = "amendReload"
     \/ work' \in SUBSET work /\ op' = "end"
  /\ UNCHANGED <<noOwner, progVars, givenVars, requests, cmd>>

\* The edited docs/subtasks.yaml parses and validates, or the command ends.
AmendReload ==
  /\ op = "amendReload"
  /\ op' \in {"amendReset", "end"}
  /\ UNCHANGED <<noOwner, aside>>

AmendReset ==
  /\ op = "amendReset"
  /\ Persist([mem EXCEPT !.status = "executing",
                         !.st     = [s \in Subtask |-> "pending"],
                         !.loops  = [s \in Subtask |-> 0],
                         !.open   = [s \in Subtask |-> FALSE],
                         !.senior = "pending", !.rounds = 0, !.seniorOpen = FALSE],
             "amendClear", "end")
  /\ UNCHANGED aside

AmendClear ==
  /\ op = "amendClear" /\ op' = "enterRun"
  /\ pauseReq' = FALSE /\ stopReq' = FALSE
  /\ UNCHANGED <<noOwner, progVars, dry, requests, cmd, work>>

AmendStep == AmendRestore \/ AmendReload \/ AmendReset \/ AmendClear

-----------------------------------------------------------------------------
(* The engine inside the process.                                          *)

\* An executor pass that returns has left its edits in the tree; a placeholder
\* makes none.
EngineWork(s) ==
  /\ WorkerStep(s)
  /\ work' = IF wpc[s] = "executing" /\ wpc'[s] = "review" /\ ~ dry
            THEN work \cup {s} ELSE work
  /\ UNCHANGED <<op, cmd>>

EngineMain  == MainStep /\ UNCHANGED <<op, cmd, work>>
EngineWatch == WatcherStep /\ UNCHANGED <<op, cmd, work>>

EngineStep == EngineMain \/ EngineWatch \/ \E s \in Subtask : EngineWork(s)

-----------------------------------------------------------------------------
(* The process and the user.                                               *)

ProcessStep == \/ Drive \/ StartPlanning \/ PlanReady \/ PlanErrs \/ Gate
               \/ EnterRun \/ RunReturned \/ ToSenior \/ Complete \/ Classify
               \/ SeniorStep \/ AmendStep

ProcessCrash ==
  /\ op # "down" /\ faults < MaxFaults /\ faults' = faults + 1
  /\ ProcessGone
  /\ op' = "down" /\ UNCHANGED <<cmd, work>>

ProcessExit ==
  /\ op = "end" /\ op' = "down"
  /\ ProcessGone
  /\ UNCHANGED <<faults, cmd, work>>

\* A signal cancels the context of the whole process; `plan' installs no
\* handler, so there it is a crash.
ProcessSignal ==
  /\ op # "down" /\ cmd # "plan" /\ ~ interrupted /\ Requestable
  /\ interrupted' = TRUE
  /\ UNCHANGED <<mem, disk, pc, batch, wpc, result, watcher, stopFired,
                 givenVars, faults, op, cmd, work>>

Request == (RequestStop \/ RequestPause) /\ UNCHANGED <<op, cmd, work>>

\* `aixecutor resume': refused on a completed and on a failed run.
Resume ==
  /\ op = "down" /\ disk.status \notin {"completed", "failed"}
  /\ op' = "drive" /\ cmd' = "resume" /\ mem' = disk /\ dry' \in DryModes
  /\ UNCHANGED <<disk, faults, progVars, markerVars, requests, work>>

\* `aixecutor amend --confirm': only on a paused run; each use counts as one of
\* the user's requests.
Amend ==
  /\ op = "down" /\ disk.status = "paused" /\ Requestable
  /\ op' = "amendRestore" /\ cmd' = "amend" /\ mem' = disk
  /\ dry' \in DryModes
  /\ UNCHANGED <<disk, faults, progVars, markerVars, work>>

\* `run' or `plan' has just created the run.
LifecycleInit ==
  /\ mem = CreatedRun /\ disk = CreatedRun
  /\ pc = "down" /\ batch = {} /\ wpc = [s \in Subtask |-> "idle"]
  /\ result = "none" /\ watcher = "off"
  /\ dry \in DryModes /\ interrupted = FALSE /\ stopFired = FALSE
  /\ pauseReq = FALSE /\ stopReq = FALSE
  /\ faults = 0 /\ requests = 0
  /\ \/ cmd = "run" /\ op = "drive"
     \/ cmd = "plan" /\ op = "plan"
  /\ work = {}

LifecycleNext == \/ ProcessStep \/ EngineStep \/ ProcessCrash \/ ProcessExit
                 \/ ProcessSignal \/ Request \/ Resume \/ Amend

\* As in Scheduler: goroutines keep running, agents return (role timeouts).
LifecycleFairness ==
  /\ WF_allVars(ProcessStep) /\ WF_allVars(EngineMain) /\ WF_allVars(EngineWatch)
  /\ \A s \in Subtask : WF_allVars(EngineWork(s))

LifecycleSpec == LifecycleInit /\ [][LifecycleNext]_allVars /\ LifecycleFairness

\* A user who resumes whatever may be resumed (see UserResumes).
LifecycleResumed == LifecycleSpec /\ WF_allVars(Resume) /\ WF_allVars(ProcessExit)

-----------------------------------------------------------------------------
(* Properties.                                                             *)

\* A completed run has every subtask done and has been through the senior
\* review the configuration asks for, whatever interrupted it on the way; it is
\* left with open findings only once its whole budget, which neither a crash, a
\* failed save nor a resume resets, is spent.
CompletedMeansReviewed ==
  disk.status = "completed" =>
    /\ \A s \in Subtask : disk.st[s] = "done"
    /\ disk.senior = IF SeniorEnabled THEN "done" ELSE "skipped"
    /\ SeniorMaxLoops >= 0 => disk.rounds <= SeniorMaxLoops
    /\ disk.seniorOpen => disk.rounds = SeniorMaxLoops

\* The whole-change review starts, and is resumed, only when every subtask is
\* done in run.yaml (seniorReviewPhase.Run leaves this to its caller).
SeniorAfterSubtasks ==
  disk.senior \in {"running", "done"} \/ op \in {"seniorLoop", "seniorReviewing"} =>
    \A s \in Subtask : disk.st[s] = "done"

\* No phase is entered, and no verdict given, ahead of the one before it, from
\* whatever phase a resume takes the run to be in.
PhasesInOrder == CompletedMeansReviewed /\ SeniorAfterSubtasks

\* What is settled stays: no resume, crash or late save touches a completed or
\* failed run, and only an amend takes a done subtask back.
SettledStays ==
  /\ disk.status \in {"completed", "failed"} => disk' = disk
  /\ op # "amendReset" =>
       \A s \in Subtask :
         disk.st[s] = "done" /\ wpc[s] \notin {"failing", "broken", "canceled"} =>
           disk'.st[s] = "done"

\* A plan is made once: with subtasks in run.yaml, no resume plans again (it
\* would reset their progress), not even when the status names no phase.
PlannedStays == disk.planned => disk'.planned /\ disk'.status # "planning"

\* The record in run.yaml only moves forward.
NeverBackwards == [][SettledStays /\ PlannedStays]_allVars

\* Under finitely many faults and requests, a run that is resumed whenever it
\* stops short of a verdict reaches one.
RunReachesVerdict == <>(disk.status \in {"completed", "failed"})

\* Unless the machine fails a save, a dry process fails no run and no subtask,
\* however it is stopped, paused or signalled, and whatever run it resumes: no
\* phase parses the placeholder for a verdict or takes it for an error.
DryRunFailsNothing ==
  [][dry /\ faults' = 0 =>
       /\ \A s \in Subtask : disk'.st[s] = "failed" => disk.st[s] = "failed"
       /\ disk'.status = "failed" =>
            disk.status = "failed" \/ \E s \in Subtask : disk.st[s] = "failed"]_allVars

\* A completed run left the work of its subtasks in the working tree.  Violated
\* by the code: an amend that fails after its revert leaves the run paused,
\* with subtasks done whose work is gone, and resume redoes none of them.
CompletedHasWork == disk.status = "completed" => work = Subtask

=============================================================================
