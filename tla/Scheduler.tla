----------------------------- MODULE Scheduler -----------------------------
(***************************************************************************)
(* The execution engine (internal/pipeline: scheduler.go, state_actor.go,  *)
(* executor.go, review_subtask.go, loop.go): Scheduler.Run drives the      *)
(* subtask DAG in batches, one worker goroutine per subtask of a batch,    *)
(* with the run-state owner serialising every change and save, a watcher   *)
(* goroutine for the stop marker, and a pause check at batch boundaries.   *)
(*                                                                         *)
(* One process drives the run at a time.  It may be killed at any point    *)
(* (Crash) and a new one started from run.yaml (Invoke).  What surrounds   *)
(* Run in that process (the orchestrator) is the subject of RunLifecycle,  *)
(* which extends this module; here Invoke stands for any caller.           *)
(*                                                                         *)
(* Bounds: MaxFaults limits crashes and failing saves together,            *)
(* MaxRequests limits stop, pause and signal requests together, LoopCap    *)
(* limits remediation only where the configuration does not (maxLoops -1). *)
(***************************************************************************)
EXTENDS RunState, FiniteSets

CONSTANTS
  Deps,             \* Deps[s]: the subtasks s depends on
  Position,         \* Position[s]: place of s in the declaration order
  Overlap,          \* pairs whose declared files are not provably disjoint
  Isolation,        \* pipeline.execution.isolation
  Parallel,         \* pipeline.execution.parallel
  MaxParallel,      \* pipeline.execution.maxParallel
  ReviewEnabled,    \* pipeline.subtaskReview.enabled
  MaxLoops,         \* pipeline.subtaskReview.maxLoops, -1 = unlimited
  DryModes,         \* what processes may be started as: with --dry-run or without
  LoopCap,          \* bound: rejections of one subtask when MaxLoops = -1
  MaxFaults,        \* bound: crashes and failed saves
  MaxRequests       \* bound: stop requests, pause requests and signals

ASSUME DepsAssumption     == Deps \in [Subtask -> SUBSET Subtask]
ASSUME PositionAssumption ==
  /\ Position \in [Subtask -> Nat]
  /\ \A s, t \in Subtask : Position[s] = Position[t] => s = t
\* globsOverlap compares the two prefixes segment by segment: it is symmetric.
ASSUME OverlapAssumption  ==
  /\ Overlap \subseteq Subtask \X Subtask
  /\ \A s, t \in Subtask : <<s, t>> \in Overlap => <<t, s>> \in Overlap
ASSUME ConfigAssumption   ==
  /\ IsFiniteSet(Subtask)
  /\ Isolation \in {"", "non-overlapping", "worktree", "none"}
  /\ Parallel \in BOOLEAN /\ MaxParallel \in Int
  /\ ReviewEnabled \in BOOLEAN /\ MaxLoops \in Int /\ DryModes \subseteq BOOLEAN
  /\ LoopCap \in Nat /\ MaxFaults \in Nat /\ MaxRequests \in Nat

VARIABLES
  mem,         \* the run record the owner goroutine holds
  disk,        \* run.yaml
  pc,          \* where Scheduler.Run is
  batch,       \* the subtasks of the batch being run
  wpc,         \* wpc[s]: where the worker of s is
  result,      \* what Run returned
  watcher,     \* the stop watcher: "off", "polling", "cleared"
  dry,         \* the process was started with --dry-run
  interrupted, \* the caller's context was cancelled (signal)
  stopFired,   \* the watcher cancelled runCtx
  pauseReq,    \* the pause marker of the control channel exists
  stopReq,     \* the stop marker of the control channel exists
  faults, requests  \* counters for the bounds

progVars   == <<pc, batch, wpc, result, watcher, interrupted, stopFired>>
markerVars == <<pauseReq, stopReq>>
givenVars  == <<dry, markerVars>>    \* given to Run from outside
vars == <<mem, disk, progVars, givenVars, faults, requests>>

-----------------------------------------------------------------------------

\* "returned" keeps the caller's process alive after Run; "down" is no process.
RunPC    == {"down", "begin", "top", "decide", "join", "ackPause", "returned"}
WorkerPC == {"idle", "spawned", "executing", "review", "reviewing",
             "remediating", "failing", "finished", "canceled", "broken"}
Result   == {"none", "nil", "paused", "failed", "canceled", "error"}

\* A worker holds a semaphore slot from acquiring it until executeSubtask ends.
Holding == {"executing", "review", "reviewing", "remediating", "failing"}
Ended   == {"finished", "canceled", "broken"}

Holders == {s \in Subtask : wpc[s] \in Holding}

TypeOK ==
  /\ mem \in Run /\ disk \in Run
  /\ pc \in RunPC /\ batch \in SUBSET Subtask
  /\ wpc \in [Subtask -> WorkerPC] /\ result \in Result
  /\ watcher \in {"off", "polling", "cleared"}
  /\ dry \in BOOLEAN /\ interrupted \in BOOLEAN /\ stopFired \in BOOLEAN
  /\ pauseReq \in BOOLEAN /\ stopReq \in BOOLEAN
  /\ faults \in Nat /\ requests \in Nat

\* runCtx.Err() # nil inside Run: a signal, or the watcher's cancel.
Canceled == interrupted \/ stopFired

-----------------------------------------------------------------------------
(* The owner goroutine: a message changes the record in memory, then saves *)
(* the whole record.  A failing save leaves the change in memory only.     *)

Saved(run) ==
  /\ mem' = run /\ disk' = run
  /\ UNCHANGED faults

SaveFails(run) ==
  /\ faults < MaxFaults
  /\ mem' = run /\ faults' = faults + 1
  /\ UNCHANGED disk

\* Mutant of Ready: a failed dependency counts as met.
Ready_TerminalDeps == {s \in Subtask : /\ mem.st[s] = "pending"
                                       /\ \A d \in Deps[s] : IsTerminal(mem.st[d])}

\* ready(): pending, with every dependency done.
Ready == {s \in Subtask : /\ mem.st[s] = "pending"
                          /\ \A d \in Deps[s] : mem.st[d] = "done"}

effectiveMaxParallel == IF Parallel /\ MaxParallel >= 1 THEN MaxParallel ELSE 1

ChecksOverlap == Isolation \in {"non-overlapping", ""}

Conflict(s, t) == ChecksOverlap /\ <<s, t>> \in Overlap

\* Mutant of IsPicked: only the head of the batch is compared with.
IsPicked_HeadOnly(chosen) ==
  /\ chosen \in SUBSET Ready
  /\ \A s \in Ready :
       LET before == {t \in chosen : Position[t] < Position[s]}
       IN  s \in chosen <=> Cardinality(before) < effectiveMaxParallel

\* pickConcurrent: a greedy pass over the ready subtasks in declaration order;
\* one joins iff the cap is not reached and nothing chosen before it conflicts.
IsPicked(chosen) ==
  /\ chosen \in SUBSET Ready
  /\ \A s \in Ready :
       LET before == {t \in chosen : Position[t] < Position[s]}
       IN  s \in chosen <=> /\ Cardinality(before) < effectiveMaxParallel
                            /\ \A t \in before : ~ Conflict(s, t)

AllTerminal == \A s \in Subtask : IsTerminal(mem.st[s])
SomeFailed  == \E s \in Subtask : mem.st[s] = "failed"

\* Mutant of reachedMaxLoops: off by one.
reachedMaxLoops_Late(n) == MaxLoops >= 0 /\ n > MaxLoops

reachedMaxLoops(n) == MaxLoops >= 0 /\ n >= MaxLoops

-----------------------------------------------------------------------------
(* Scheduler.Run                                                           *)

Return(r) == pc' = "returned" /\ result' = r

\* beginExecuting, after the owner and the watcher have been started.
Begin ==
  /\ pc = "begin"
  /\ LET run == [ResetInterrupted(mem) EXCEPT !.status = "executing"]
     IN  \/ Saved(run) /\ pc' = "top" /\ UNCHANGED result
         \/ SaveFails(run) /\ Return("error")
  /\ UNCHANGED <<batch, wpc, watcher, interrupted, stopFired, givenVars, requests>>

\* The head of the loop: the context check is separate from what follows it,
\* so a signal or the watcher can cancel in between.
LoopTop ==
  /\ pc = "top"
  /\ IF Canceled THEN Return("canceled")
     ELSE pc' = "decide" /\ UNCHANGED result
  /\ UNCHANGED <<mem, disk, batch, wpc, watcher, interrupted, stopFired,
                 givenVars, faults, requests>>

\* finalize: every subtask is terminal.
Finalize ==
  /\ pc = "decide" /\ AllTerminal
  /\ IF SomeFailed
     THEN LET run == [mem EXCEPT !.status = "failed"]
          IN  \/ Saved(run) /\ Return("failed")
              \/ SaveFails(run) /\ Return("error")
     ELSE Return("nil") /\ UNCHANGED <<mem, disk, faults>>
  /\ UNCHANGED <<batch, wpc, watcher, interrupted, stopFired, givenVars, requests>>

\* Mutant of PauseAtBoundary: the marker is checked before completion is.
PauseAtBoundary_First ==
  /\ pc = "decide" /\ pauseReq
  /\ LET run == [mem EXCEPT !.status = "paused"]
     IN  \/ Saved(run) /\ pc' = "ackPause" /\ UNCHANGED result
         \/ SaveFails(run) /\ Return("error")
  /\ UNCHANGED <<batch, wpc, watcher, interrupted, stopFired, givenVars, requests>>

\* pauseAtBoundary: persist `paused', then clear the marker (two steps).
PauseAtBoundary ==
  /\ pc = "decide" /\ ~ AllTerminal /\ pauseReq
  /\ LET run == [mem EXCEPT !.status = "paused"]
     IN  \/ Saved(run) /\ pc' = "ackPause" /\ UNCHANGED result
         \/ SaveFails(run) /\ Return("error")
  /\ UNCHANGED <<batch, wpc, watcher, interrupted, stopFired, givenVars, requests>>

\* Mutant of AckPause: the marker is left for the next run to find.
AckPause_KeepsMarker ==
  /\ pc = "ackPause" /\ Return("paused")
  /\ UNCHANGED <<mem, disk, batch, wpc, watcher, interrupted, stopFired,
                 givenVars, faults, requests>>

AckPause ==
  /\ pc = "ackPause"
  /\ pauseReq' = FALSE /\ Return("paused")
  /\ UNCHANGED <<mem, disk, batch, wpc, watcher, interrupted, stopFired,
                 dry, stopReq, faults, requests>>

\* deadlock: work remains, nothing is ready, nothing is running.  The save of
\* the failed status is best effort.
Deadlock ==
  /\ pc = "decide" /\ ~ AllTerminal /\ ~ pauseReq /\ Ready = {}
  /\ LET run == [mem EXCEPT !.status = "failed"] IN Saved(run) \/ SaveFails(run)
  /\ Return("failed")
  /\ UNCHANGED <<batch, wpc, watcher, interrupted, stopFired, givenVars, requests>>

\* selectBatch, then runBatch spawns one goroutine per chosen subtask.
SpawnBatch ==
  /\ pc = "decide" /\ ~ AllTerminal /\ ~ pauseReq /\ Ready # {}
  /\ \E chosen \in SUBSET Ready :
       /\ IsPicked(chosen)
       /\ batch' = chosen
       /\ wpc' = [s \in Subtask |-> IF s \in chosen THEN "spawned" ELSE "idle"]
  /\ pc' = "join"
  /\ UNCHANGED <<mem, disk, result, watcher, interrupted, stopFired, givenVars,
                 faults, requests>>

\* Mutant of JoinBatch: an owner error of a worker is dropped.
JoinBatch_DropsOwnerError ==
  /\ pc = "join" /\ \A s \in batch : wpc[s] \in Ended
  /\ IF \E s \in batch : wpc[s] = "canceled" THEN Return("canceled")
     ELSE pc' = "top" /\ UNCHANGED result
  /\ batch' = {}
  /\ UNCHANGED <<mem, disk, wpc, watcher, interrupted, stopFired, givenVars,
                 faults, requests>>

\* runBatch: wg.Wait, then errors.Join over the workers' errors.
JoinBatch ==
  /\ pc = "join" /\ \A s \in batch : wpc[s] \in Ended
  /\ IF \E s \in batch : wpc[s] = "canceled" THEN Return("canceled")
     ELSE IF \E s \in batch : wpc[s] = "broken" THEN Return("error")
     ELSE pc' = "top" /\ UNCHANGED result
  /\ batch' = {}
  /\ UNCHANGED <<mem, disk, wpc, watcher, interrupted, stopFired, givenVars,
                 faults, requests>>

MainStep == Begin \/ LoopTop \/ Finalize \/ PauseAtBoundary \/ AckPause
              \/ Deadlock \/ SpawnBatch \/ JoinBatch

-----------------------------------------------------------------------------
(* The worker of one subtask: runBatch's goroutine, executeSubtask,        *)
(* runExecutor and the review hook.                                        *)

At(s, p) == pc = "join" /\ s \in batch /\ wpc[s] = p
Goto(s, p) == wpc' = [wpc EXCEPT ![s] = p]

\* A commit through the owner: go to ok when it persisted, to bad when not.
Commit(s, run, ok, bad) ==
  \/ Saved(run) /\ Goto(s, ok)
  \/ SaveFails(run) /\ Goto(s, bad)

SetSt(s, status) == [mem EXCEPT !.st[s] = status]

mainAndCtx == <<pc, batch, result, watcher, interrupted, stopFired,
                givenVars, requests>>
noOwner    == <<mem, disk, faults>>

\* select between a free slot and a cancelled context; with a slot,
\* executeSubtask marks the subtask implementing before any work.
StartSubtask(s) ==
  /\ At(s, "spawned")
  /\ \/ /\ Cardinality(Holders) < effectiveMaxParallel
        /\ Commit(s, SetSt(s, "implementing"), "executing", "broken")
     \/ Canceled /\ Goto(s, "canceled") /\ UNCHANGED noOwner
  /\ UNCHANGED mainAndCtx

\* runExecutor returns.  Under --dry-run the harness is a placeholder that
\* succeeds; a cancelled context makes a call fail or comes too late for it.
ExecutorReturns(s) ==
  /\ At(s, "executing")
  /\ \/ Goto(s, "review")
     \/ (~ dry \/ Canceled) /\ Goto(s, "failing")
  /\ UNCHANGED <<noOwner, mainAndCtx>>

\* The head of the hook and of its loop.
EnterReview(s) ==
  /\ At(s, "review")
  /\ \/ /\ ~ ReviewEnabled
        /\ Commit(s, SetSt(s, "done"), "finished", "failing")
     \/ /\ ReviewEnabled /\ dry
        /\ Commit(s, [SetSt(s, "done") EXCEPT !.open[s] = FALSE],
                  "finished", "failing")
     \/ /\ ReviewEnabled /\ ~ dry /\ Canceled
        /\ Goto(s, "failing") /\ UNCHANGED noOwner
     \/ /\ ReviewEnabled /\ ~ dry /\ ~ Canceled
        /\ Commit(s, SetSt(s, "reviewing"), "reviewing", "failing")
  /\ UNCHANGED mainAndCtx

\* The verdict after at most one re-ask: approved.
Approve(s) ==
  /\ At(s, "reviewing")
  /\ Commit(s, [SetSt(s, "done") EXCEPT !.open[s] = FALSE], "finished", "failing")
  /\ UNCHANGED mainAndCtx

\* Not approved and the budget is spent: done, flagged with the open findings (a
\* verdict may withhold its approval and name none).
ProceedFlagged(s) ==
  /\ At(s, "reviewing") /\ reachedMaxLoops(mem.loops[s])
  /\ \E flagged \in BOOLEAN :
       Commit(s, [SetSt(s, "done") EXCEPT !.open[s] = flagged], "finished", "failing")
  /\ UNCHANGED mainAndCtx

\* Not approved with budget left: count the cycle, then remediate.
Remediate(s) ==
  /\ At(s, "reviewing") /\ ~ reachedMaxLoops(mem.loops[s])
  /\ MaxLoops >= 0 \/ mem.loops[s] < LoopCap
  /\ Commit(s, [SetSt(s, "implementing") EXCEPT !.loops[s] = @ + 1],
            "remediating", "failing")
  /\ UNCHANGED mainAndCtx

\* The reviewer call fails, or is malformed twice.
ReviewErrs(s) ==
  /\ At(s, "reviewing")
  /\ Goto(s, "failing")
  /\ UNCHANGED <<noOwner, mainAndCtx>>

\* runExecutor with findings returns: loop back to the review, or an error.
RemediationReturns(s) ==
  /\ At(s, "remediating")
  /\ Goto(s, "review") \/ Goto(s, "failing")
  /\ UNCHANGED <<noOwner, mainAndCtx>>

\* executeSubtask's error branches: a cancelled context is fatal and leaves the
\* subtask re-runnable; anything else is recorded as the subtask's failure.
SettleError(s) ==
  /\ At(s, "failing")
  /\ IF Canceled THEN Goto(s, "canceled") /\ UNCHANGED noOwner
     ELSE Commit(s, SetSt(s, "failed"), "finished", "broken")
  /\ UNCHANGED mainAndCtx

\* Steps that wait for an agent process, and steps that do not.
AgentStep(s) == \/ ExecutorReturns(s) \/ RemediationReturns(s) \/ Approve(s)
                \/ ProceedFlagged(s) \/ Remediate(s) \/ ReviewErrs(s)
OwnStep(s)   == StartSubtask(s) \/ EnterReview(s) \/ SettleError(s)

WorkerStep(s) == AgentStep(s) \/ OwnStep(s)

-----------------------------------------------------------------------------
(* The stop watcher.  It acknowledges the marker first and cancels second; *)
(* once Run has returned, its select may still take a pending tick.        *)

WatcherClears ==
  /\ watcher = "polling" /\ stopReq
  /\ stopReq' = FALSE /\ watcher' = "cleared"
  /\ UNCHANGED <<mem, disk, pc, batch, wpc, result, interrupted, stopFired,
                 dry, pauseReq, faults, requests>>

\* Mutant of WatcherCancels: the marker is acknowledged and nothing is cancelled.
WatcherCancels_OnlyAcks ==
  /\ watcher = "cleared" /\ watcher' = "off"
  /\ UNCHANGED <<mem, disk, pc, batch, wpc, result, interrupted, stopFired,
                 givenVars, faults, requests>>

WatcherCancels ==
  /\ watcher = "cleared"
  /\ stopFired' = TRUE /\ watcher' = "off"
  /\ UNCHANGED <<mem, disk, pc, batch, wpc, result, interrupted,
                 givenVars, faults, requests>>

\* runCtx is done: cancelled by a signal or by Run's deferred cancel.
WatcherExits ==
  /\ watcher = "polling" /\ (interrupted \/ pc = "returned")
  /\ watcher' = "off"
  /\ UNCHANGED <<mem, disk, pc, batch, wpc, result, interrupted, stopFired,
                 givenVars, faults, requests>>

WatcherStep == WatcherClears \/ WatcherCancels \/ WatcherExits

-----------------------------------------------------------------------------
(* The environment: the caller, the user and the machine.                  *)

\* The process is gone: only run.yaml and the markers survive.
ProcessGone ==
  /\ pc' = "down" /\ mem' = disk
  /\ batch' = {} /\ wpc' = [s \in Subtask |-> "idle"]
  /\ result' = "none" /\ watcher' = "off"
  /\ interrupted' = FALSE /\ stopFired' = FALSE /\ dry' = FALSE
  /\ UNCHANGED <<disk, markerVars, requests>>

Crash ==
  /\ pc # "down" /\ faults < MaxFaults
  /\ faults' = faults + 1
  /\ ProcessGone

Requestable == requests < MaxRequests /\ requests' = requests + 1

\* SIGINT or SIGTERM cancels the context the caller passed to Run.
Signal ==
  /\ pc # "down" /\ ~ interrupted /\ Requestable
  /\ interrupted' = TRUE
  /\ UNCHANGED <<mem, disk, pc, batch, wpc, result, watcher, stopFired,
                 givenVars, faults>>

\* `aixecutor stop': refused on a terminal run.
RequestStop ==
  /\ ~ IsTerminalRun(disk.status) /\ ~ stopReq /\ Requestable
  /\ stopReq' = TRUE
  /\ UNCHANGED <<mem, disk, progVars, dry, pauseReq, faults>>

\* `aixecutor review': refused on a terminal run and on a paused one.
RequestPause ==
  /\ ~ IsTerminalRun(disk.status) /\ disk.status # "paused"
  /\ ~ pauseReq /\ Requestable
  /\ pauseReq' = TRUE
  /\ UNCHANGED <<mem, disk, progVars, dry, stopReq, faults>>

UserStep == Signal \/ RequestStop \/ RequestPause

\* Any caller that loads a run it may drive and calls Run on it.
Invoke ==
  /\ pc = "down" /\ disk.status \notin {"completed", "failed"}
  /\ mem' = disk /\ pc' = "begin" /\ watcher' = "polling"
  /\ dry' \in DryModes
  /\ UNCHANGED <<disk, batch, wpc, result, interrupted, stopFired, markerVars,
                 faults, requests>>

\* The caller exits after Run has returned.
Exit == pc = "returned" /\ ProcessGone /\ UNCHANGED faults

-----------------------------------------------------------------------------

Init ==
  /\ mem = PlannedRun /\ disk = PlannedRun
  /\ pc = "down" /\ batch = {} /\ wpc = [s \in Subtask |-> "idle"]
  /\ result = "none" /\ watcher = "off"
  /\ interrupted = FALSE /\ stopFired = FALSE /\ dry = FALSE
  /\ pauseReq = FALSE /\ stopReq = FALSE
  /\ faults = 0 /\ requests = 0

RunStep == MainStep \/ WatcherStep \/ \E s \in Subtask : WorkerStep(s)

Next == RunStep \/ UserStep \/ Crash \/ Invoke \/ Exit

\* Goroutines keep running, and a cancelled context ends the agents.
Fairness ==
  /\ WF_vars(MainStep) /\ WF_vars(WatcherStep)
  /\ \A s \in Subtask : /\ WF_vars(OwnStep(s))
                        /\ WF_vars(Canceled /\ AgentStep(s))

Spec == Init /\ [][Next]_vars /\ Fairness

\* Agents end by themselves: each call has a timeout (Invocation: CallReturns).
AgentsReturn == \A s \in Subtask : WF_vars(AgentStep(s))

\* A user who resumes whatever may be resumed.  Nothing in the code does: this
\* is the assumption under which a run, however often interrupted, settles.
UserResumes == WF_vars(Invoke) /\ WF_vars(Exit)

-----------------------------------------------------------------------------
(* The abstract view.  From its error branch until the process ends, the   *)
(* outcome of a worker's subtask is open, whatever run.yaml says at the    *)
(* moment: a sibling's save writes the whole record, with the changes      *)
(* whose own save failed.                                                  *)

stageOf(s) ==
  CASE wpc[s] = "failing"  -> "active"
    [] wpc[s] = "canceled" -> IF mem.st[s] = "pending" THEN "todo" ELSE "active"
    [] wpc[s] = "broken"   -> IF mem.st[s] = "implementing" THEN "todo" ELSE "active"
    [] OTHER -> CASE disk.st[s] \in {"pending", "blocked"} -> "todo"
                  [] IsInterrupted(disk.st[s])             -> "active"
                  [] OTHER                                 -> disk.st[s]

Graph == INSTANCE TaskGraph WITH
           stage <- [s \in Subtask |-> stageOf(s)],
           held  <- Holders

\* Every step of the engine, saves failing and crashes included, is a step of
\* the dependency-ordered, conflict-free, bounded execution TaskGraph allows.
ImplementsGraph == Graph!GraphSpec

-----------------------------------------------------------------------------
(* Properties.                                                             *)

\* Two subtasks whose declared files may meet are never worked on together
\* under non-overlapping isolation (state_actor.go pickConcurrent).
NoConflictInFlight ==
  \A s, t \in Holders : s # t => ~ Conflict(s, t)

\* Two subtasks are worked on together only if the configuration asks for
\* parallel work, and never more than maxParallel of them (pickConcurrent's cap
\* and runBatch's semaphore).
BoundedParallelism ==
  Cardinality(Holders) > 1 => Parallel /\ Cardinality(Holders) <= MaxParallel

\* A subtask is worked on only when each of its dependencies is done in
\* run.yaml, not just in memory: a crash cannot take a dependency back.
DepsDurablyDone ==
  \A s \in Holders : \A d \in Deps[s] : disk.st[d] = "done"

\* Run decides (batch, pause, finish) only on state that is in run.yaml, even
\* when saves fail: a failed save always ends in a returned error.
DecidesOnDurableState == pc \in {"top", "decide"} => mem = disk

\* run.yaml says `paused' only at a boundary: no worker is running, none is
\* recorded mid-step, and work remains (run/state.go StatusPaused).
PausedIsBoundary ==
  disk.status = "paused" =>
    /\ Holders = {}
    /\ \A s \in Subtask : ~ IsInterrupted(disk.st[s])
    /\ \E s \in Subtask : ~ IsTerminal(disk.st[s])

\* A subtask is done with open findings only after its whole remediation
\* budget, crashes and resumes included, and the budget is never overrun.
FlaggedOnlyAtBudget ==
  MaxLoops >= 0 =>
    \A s \in Subtask : /\ disk.loops[s] <= MaxLoops
                       /\ disk.open[s] => disk.loops[s] = MaxLoops

\* Once a subtask is done in run.yaml and its worker is past its error branch,
\* it stays done with the same loops and findings: never redone by a later
\* batch, a resume or a crash.
DoneIsFinal ==
  [][\A s \in Subtask :
       disk.st[s] = "done" /\ wpc[s] \notin {"failing", "broken", "canceled"} =>
         /\ disk'.st[s] = "done"
         /\ disk'.loops[s] = disk.loops[s] /\ disk'.open[s] = disk.open[s]]_vars

\* Under finitely many faults and requests, a run that is resumed each time
\* settles: every subtask done, or the run failed.  Each resume makes progress.
ResumedRunSettles ==
  AgentsReturn /\ UserResumes =>
    <>(disk.status = "failed" \/ \A s \in Subtask : disk.st[s] = "done")

\* A stop marker seen while subtasks are in flight ends this Run even if every
\* agent hangs.
StopUnwinds == (stopReq /\ pc = "join") ~> pc \in {"returned", "down"}

\* The documented outcome of stop: the Run whose watcher took the marker ends
\* cancelled, which the caller persists as aborted.  Violated by the code.
ConsumedStopCancels ==
  stopFired /\ pc = "returned" => result \notin {"nil", "paused"}

=============================================================================
