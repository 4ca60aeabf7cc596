---------------------------- MODULE WorkingTree ----------------------------
(***************************************************************************)
(* The files a run works on: the passes of the executor over them, with    *)
(* the snapshots, the diff and the detection of undeclared edits around    *)
(* each call, the worktrees of isolation `worktree' and the revert of      *)
(* `amend' (pipeline/executor.go, pipeline/undeclared.go, internal/git).   *)
(* When a pass may start is Scheduler's subject, what becomes of the run   *)
(* RunLifecycle's; here a process merely executes, ends or restores.       *)
(***************************************************************************)
EXTENDS Naturals, FiniteSets

CONSTANTS
  Subtask,        \* the subtasks of the plan
  Path,           \* the paths of the repository, but those an exclusion drops and
                  \* those with a `[' or `]' in their name
  Plans,          \* the plans to consider: per subtask, the paths its `files' stand for
  Tracked,        \* paths in git's index
  Head,           \* the tree of the checked-out commit
  Start,          \* the user's tree when the run was created
  IgnoreFile,     \* the path of .gitignore
  StartIgnored,   \* what it ignores as it is at the start
  EditedIgnored,  \* what it ignores once an agent has changed it
  Absent, User,   \* marks of no file and of the user's uncommitted edit
  Isolations,     \* the values of execution.isolation to consider
  Reviewings,     \* whether there are subtask reviews: the values to consider
  MaxPasses,      \* bound: passes, of all subtasks
  MaxEdits,       \* bound: paths an agent changes in one pass
  MaxFaults,      \* bound: cancellations, crashes and failing calls
  MaxAmends       \* bound: amends

\* A file is the set of the edits it carries: the user's uncommitted one and
\* those of the executor's passes.
Mark == 1 .. MaxPasses
File == SUBSET ({User} \cup Mark)
NoFile == {Absent}
Tree == [Path -> File \cup {NoFile}]
NoTree == <<>>

ASSUME TreeAssumption ==
  /\ IsFiniteSet(Subtask) /\ IsFiniteSet(Path)
  /\ Plans \subseteq [Subtask -> SUBSET Path]
  /\ Tracked \subseteq Path /\ IgnoreFile \in Path
  /\ StartIgnored \subseteq Path /\ EditedIgnored \subseteq Path
  /\ Head \in Tree /\ Start \in Tree
  /\ Absent \notin {User} \cup Mark /\ NoTree \notin Tree
  /\ Isolations \subseteq {"non-overlapping", "worktree", "none"}
  /\ Reviewings \subseteq BOOLEAN
  /\ {MaxPasses, MaxEdits, MaxFaults, MaxAmends} \subseteq Nat

VARIABLES
  isolation,   \* the configured isolation
  declared,    \* the plan
  process,     \* "executing", "paused", "ended" (in any other way) or "restoring"
  reviewing,   \* its review hook reviews: enabled, and this is no dry run
  cancelled,   \* the context of the executing process is cancelled
  main,        \* the files in the user's tree
  worktree,    \* per subtask, the worktree of that name on disk, or NoTree
  stage,       \* per subtask, what its worker does next
  pass,        \* per subtask, what its worker holds of the pass and its review
  undeclared,  \* per subtask, the undeclared edits in run.yaml
  doomed,      \* the paths the revert still has to remove
  copies,      \* the paths the revert still has to copy back
  passes, faults, amends,
  owed,        \* history: per subtask, the edits nobody declared which the
               \* detection had the chance to see
  rulesChanged \* history: .gitignore had been changed when the amend began

passVars == <<stage, passes, pass, undeclared, owed>>
treeVars == <<main, worktree>>
restoreVars == <<doomed, copies, amends, rulesChanged>>
config == <<isolation, declared>>
vars == <<config, process, reviewing, cancelled, faults, passVars, treeVars, restoreVars>>

-----------------------------------------------------------------------------
(* Trees, snapshots and differences.                                       *)

Present(t) == {p \in Path : t[p] # NoFile}

\* `git ls-files' with `--others --exclude-standard', without what is gone.
IgnoredIn(t) == IF t[IgnoreFile] = Start[IgnoreFile] THEN StartIgnored
                                                     ELSE EditedIgnored
Listed(t) == {p \in Present(t) : p \in Tracked \/ p \notin IgnoredIn(t)}

\* A copy (or the fingerprints) of the paths S of a tree.
Snapshot(t, S) == [p \in Path |-> IF p \in S THEN t[p] ELSE NoFile]
Diff(t, u)     == {p \in Path : t[p] # u[p]}

Baseline == Snapshot(Start, Listed(Start))
FullDiff == Diff(Baseline, Snapshot(main, Listed(main)))

DeclaredByAny == UNION {declared[s] : s \in Subtask}

WorkDir(s) == IF isolation = "worktree" THEN worktree[s] ELSE main

InFlight(s) == stage[s] \notin {"pending", "done", "failed"}

Fault == faults < MaxFaults /\ faults' = faults + 1

\* A call fails: git's because of the cancelled context, any for a reason of
\* its own.
GitFails == \/ cancelled /\ UNCHANGED faults
            \/ Fault

-----------------------------------------------------------------------------
(* One pass of the executor: runExecutor.                                  *)

\* What a worker holds: the number of the pass, the snapshots and fingerprints
\* (NoTree is none), the diff of the pass, the paths still to copy out of the
\* worktree; and, as history, the paths its agent changed and those that agents
\* of subtasks which do not declare them changed meanwhile.
Idle == [no |-> 0, before |-> NoTree, manifest |-> NoTree, after |-> NoTree,
         patch |-> {}, landing |-> {}, touched |-> {}, strayed |-> {}]

StageIs(s, here) == process = "executing" /\ stage[s] = here
MoveTo(s, there) == stage' = [stage EXCEPT ![s] = there]

\* The deferred removal of the worktree runs git under the context of the pass.
RemoveWorktree(s) == worktree' = [worktree EXCEPT ![s] = IF cancelled THEN @ ELSE NoTree]

\* The returns of a pass, without and with an error.
Return(s) == MoveTo(s, "review") /\ RemoveWorktree(s)

\* Mutant of Abandon: a pass that fails leaves its worktree.
Abandon_LeavesWorktree(s) ==
  /\ MoveTo(s, IF cancelled THEN "cut" ELSE "failed") /\ UNCHANGED worktree
  /\ pass' = [pass EXCEPT ![s] = Idle]

Abandon(s) ==
  /\ MoveTo(s, IF cancelled THEN "cut" ELSE "failed") /\ RemoveWorktree(s)
  /\ pass' = [pass EXCEPT ![s] = Idle]

\* What no step of a pass touches, and what only some do.
PassKeeps == UNCHANGED <<config, process, reviewing, cancelled, passes, restoreVars>>
Records   == <<undeclared, owed>>

Disjoint(s, t) == declared[s] \cap declared[t] = {}

FirstStep(s) == IF isolation = "worktree" THEN "provision" ELSE "before"

\* A worker starts on its subtask, or on the findings of the review.
Begin(s) ==
  /\ process = "executing" /\ ~cancelled /\ passes < MaxPasses
  /\ \/ /\ stage[s] = "pending"
        /\ isolation = "non-overlapping" =>
             \A t \in Subtask \ {s} : InFlight(t) => Disjoint(s, t)
     \/ stage[s] = "judge"
  /\ MoveTo(s, FirstStep(s))
  /\ passes' = passes + 1
  /\ pass'   = [pass EXCEPT ![s] = [Idle EXCEPT !.no = passes']]
  /\ UNCHANGED <<config, process, reviewing, cancelled, faults, treeVars, restoreVars,
                 Records>>

\* `git worktree add' checks out HEAD in a new directory; one that is there
\* already makes it fail, and the cleanup then removes that.
Provision(s) ==
  /\ StageIs(s, "provision")
  /\ \/ /\ ~cancelled /\ worktree[s] = NoTree
        /\ worktree' = [worktree EXCEPT ![s] = Head]
        /\ MoveTo(s, "before")
        /\ UNCHANGED <<faults, pass>>
     \/ ~cancelled /\ worktree[s] # NoTree /\ Abandon(s) /\ UNCHANGED faults
     \/ GitFails /\ Abandon(s)
  /\ PassKeeps /\ UNCHANGED <<main, Records>>

\* expandFiles and SnapshotPaths.
SnapshotBefore(s) ==
  /\ StageIs(s, "before")
  /\ \/ /\ pass' = [pass EXCEPT ![s].before = Snapshot(WorkDir(s), declared[s])]
        /\ MoveTo(s, "manifest")
        /\ UNCHANGED <<faults, worktree>>
     \/ Fault /\ Abandon(s)
  /\ PassKeeps /\ UNCHANGED <<main, Records>>

\* The fingerprints before the call; without them the detection is off.
ManifestBefore(s) ==
  /\ StageIs(s, "manifest")
  /\ \/ /\ ~cancelled
        /\ pass' = [pass EXCEPT ![s].manifest = Snapshot(WorkDir(s), Listed(WorkDir(s)))]
        /\ UNCHANGED faults
     \/ GitFails /\ UNCHANGED pass
  /\ MoveTo(s, "agent")
  /\ PassKeeps /\ UNCHANGED <<treeVars, Records>>

\* The agent changes, creates or deletes one file, declared or not.
AgentEdits(s, p) ==
  /\ StageIs(s, "agent")
  /\ p \notin pass[s].touched /\ Cardinality(pass[s].touched) < MaxEdits
  /\ \E file \in {NoFile, (WorkDir(s)[p] \ NoFile) \cup {pass[s].no}} :
       /\ file # WorkDir(s)[p]
       /\ IF isolation = "worktree"
            THEN worktree' = [worktree EXCEPT ![s][p] = file] /\ UNCHANGED main
            ELSE main' = [main EXCEPT ![p] = file] /\ UNCHANGED worktree
  /\ pass' = [t \in Subtask |->
       CASE t = s -> [pass[s] EXCEPT !.touched = @ \cup {p}]
         [] t # s /\ InFlight(t) /\ p \notin declared[s] /\ isolation # "worktree" ->
              [pass[t] EXCEPT !.strayed = @ \cup {p}]
         [] OTHER -> pass[t]]
  /\ PassKeeps /\ UNCHANGED <<faults, stage, Records>>

AgentReturns(s) ==
  /\ StageIs(s, "agent")
  /\ \/ /\ MoveTo(s, IF pass[s].manifest = NoTree THEN "after" ELSE "record")
        /\ UNCHANGED <<worktree, pass>>
     \/ Abandon(s)
  /\ PassKeeps /\ UNCHANGED <<main, faults, Records>>

\* Mutant of Merged: the last pass's edits replace the record.
Merged_Clobbers(prior, next) == next

\* mergeUndeclared.
Merged(prior, next) == prior \cup next

\* recordUndeclaredEdits: best effort, over all passes.
RecordUndeclared(s) ==
  /\ StageIs(s, "record")
  /\ \/ /\ ~cancelled
        /\ LET now == Snapshot(WorkDir(s), Listed(WorkDir(s)))
               was == pass[s].manifest
           IN  /\ undeclared' = [undeclared EXCEPT ![s] =
                                   Merged(@, Diff(was, now) \ DeclaredByAny)]
               /\ owed' = [owed EXCEPT ![s] = @ \cup
                    {p \in pass[s].touched \ (DeclaredByAny \cup pass[s].strayed) :
                       was[p] # NoFile \/ now[p] # NoFile}]
        /\ UNCHANGED faults
     \/ GitFails /\ UNCHANGED Records
  /\ MoveTo(s, "after")
  /\ PassKeeps /\ UNCHANGED <<treeVars, pass>>

SnapshotAfter(s) ==
  /\ StageIs(s, "after")
  /\ \/ /\ pass' = [pass EXCEPT ![s].after = Snapshot(WorkDir(s), declared[s])]
        /\ MoveTo(s, "diff")
        /\ UNCHANGED <<faults, worktree>>
     \/ Fault /\ Abandon(s)
  /\ PassKeeps /\ UNCHANGED <<main, Records>>

\* What reconcileChangedFiles copies: never a deletion.
ToLand(old, new) == Diff(old, new) \cap Present(new)

\* DiffTrees, persistDiff and persistExecution.
PersistDiff(s) ==
  /\ StageIs(s, "diff")
  /\ \/ /\ ~cancelled
        /\ pass' = [pass EXCEPT
                      ![s].patch = Diff(pass[s].before, pass[s].after),
                      ![s].landing = ToLand(pass[s].before, pass[s].after)]
        /\ IF isolation = "worktree" THEN MoveTo(s, "reconcile") /\ UNCHANGED worktree
                                     ELSE Return(s)
        /\ UNCHANGED faults
     \/ GitFails /\ Abandon(s)
  /\ PassKeeps /\ UNCHANGED <<main, Records>>

\* reconcileChangedFiles: whole files, one after the other.
Reconcile(s) ==
  /\ StageIs(s, "reconcile")
  /\ \/ /\ \E p \in pass[s].landing :
             /\ main' = [main EXCEPT ![p] = pass[s].after[p]]
             /\ pass' = [pass EXCEPT ![s].landing = @ \ {p}]
        /\ UNCHANGED <<stage, worktree, faults>>
     \/ pass[s].landing = {} /\ Return(s) /\ UNCHANGED <<main, pass, faults>>
     \/ pass[s].landing # {} /\ Fault /\ Abandon(s) /\ UNCHANGED main
  /\ PassKeeps /\ UNCHANGED Records

\* What ends the work on a subtask: it is settled, or an error ends it, which is
\* taken for the context's once that is cancelled.
Settle(s) == MoveTo(s, "done") /\ pass' = [pass EXCEPT ![s] = Idle]
FailReview(s) ==
  MoveTo(s, IF cancelled THEN "cut" ELSE "failed") /\ pass' = [pass EXCEPT ![s] = Idle]

\* The review hook.  If it has nothing to review it settles the subtask without a
\* look at the context.
Review(s) ==
  /\ StageIs(s, "review")
  /\ \/ reviewing /\ ~cancelled /\ MoveTo(s, "judge") /\ UNCHANGED pass
     \/ ~reviewing /\ Settle(s)
     \/ FailReview(s)
  /\ PassKeeps /\ UNCHANGED <<faults, treeVars, Records>>

\* A verdict ends the loop, also if the context is cancelled by then; or there is
\* none.  That it asks for another pass is Begin.
Judge(s) ==
  /\ StageIs(s, "judge")
  /\ Settle(s) \/ FailReview(s)
  /\ PassKeeps /\ UNCHANGED <<faults, treeVars, Records>>

Work(s) ==
  \/ Begin(s) \/ Provision(s) \/ SnapshotBefore(s) \/ ManifestBefore(s)
  \/ \E p \in Path : AgentEdits(s, p)
  \/ AgentReturns(s) \/ RecordUndeclared(s) \/ SnapshotAfter(s) \/ PersistDiff(s)
  \/ Reconcile(s) \/ Review(s) \/ Judge(s)

-----------------------------------------------------------------------------
(* The process, and the revert of an amend.                                *)

Cancel ==
  /\ process = "executing" /\ ~cancelled /\ Fault
  /\ cancelled' = TRUE
  /\ UNCHANGED <<config, process, reviewing, passVars, treeVars, restoreVars>>

\* The process is gone; a resume rewinds subtasks cut short.
End ==
  /\ cancelled' = FALSE
  /\ stage' = [s \in Subtask |-> IF InFlight(s) THEN "pending" ELSE stage[s]]
  /\ pass'  = [s \in Subtask |-> Idle]
  /\ doomed' = {} /\ copies' = {}
  /\ UNCHANGED <<config, reviewing, passes, Records, treeVars, amends, rulesChanged>>

\* At the boundary of a batch, while subtasks are left, the run may pause; else
\* it ends.
RunEnds ==
  /\ process = "executing"
  /\ \A s \in Subtask : stage[s] \in {"pending", "done", "failed", "cut"}
  /\ \/ ~cancelled /\ (\E s \in Subtask : stage[s] = "pending") /\ process' = "paused"
     \/ process' = "ended"
  /\ End /\ UNCHANGED faults

\* The process dies, or the revert meets an error: the run is still paused.
Crash ==
  /\ process \in {"executing", "restoring"} /\ Fault
  /\ process' = IF process = "restoring" THEN "paused" ELSE "ended"
  /\ End

\* A new process, for which the reviews may be switched on or off, as may dry runs.
Resume ==
  /\ process \in {"paused", "ended"}
  /\ process' = "executing" /\ reviewing' \in Reviewings
  /\ UNCHANGED <<config, cancelled, faults, passVars, treeVars, restoreVars>>

\* Mutant of Additions: untracked files are not listed.
Additions_Tracked == (Listed(main) \cap Tracked) \ Present(Baseline)

Additions == Listed(main) \ Present(Baseline)

\* RestoreTree lists the tree as it is and compares it with the baseline.
Amend ==
  /\ process = "paused" /\ amends < MaxAmends
  /\ process' = "restoring"
  /\ doomed' = Additions
  /\ copies' = Present(Baseline)
  /\ rulesChanged' = (rulesChanged \/ main[IgnoreFile] # Start[IgnoreFile])
  /\ UNCHANGED <<config, reviewing, cancelled, faults, amends, passVars, treeVars>>

RemoveAdded ==
  /\ process = "restoring"
  /\ \E p \in doomed : main' = [main EXCEPT ![p] = NoFile] /\ doomed' = doomed \ {p}
  /\ UNCHANGED <<config, process, reviewing, cancelled, faults, passVars, worktree,
                 copies, amends, rulesChanged>>

CopyBack ==
  /\ process = "restoring" /\ doomed = {}
  /\ \E p \in copies : main' = [main EXCEPT ![p] = Baseline[p]] /\ copies' = copies \ {p}
  /\ UNCHANGED <<config, process, reviewing, cancelled, faults, passVars, worktree,
                 doomed, amends, rulesChanged>>

Restored == process = "restoring" /\ doomed = {} /\ copies = {}

\* The plan starts over with fresh subtasks, in the process that amends.
Restart ==
  /\ Restored
  /\ process' = "executing" /\ reviewing' \in Reviewings
  /\ stage'  = [s \in Subtask |-> "pending"]
  /\ undeclared' = [s \in Subtask |-> {}] /\ owed' = undeclared'
  /\ rulesChanged' = FALSE /\ amends' = amends + 1
  /\ UNCHANGED <<config, cancelled, faults, passes, pass, treeVars, doomed, copies>>

Init ==
  /\ isolation \in Isolations /\ declared \in Plans
  /\ process = "executing" /\ reviewing \in Reviewings
  /\ cancelled = FALSE /\ faults = 0
  /\ main = Start /\ worktree = [s \in Subtask |-> NoTree]
  /\ stage = [s \in Subtask |-> "pending"] /\ passes = 0
  /\ pass = [s \in Subtask |-> Idle]
  /\ undeclared = [s \in Subtask |-> {}] /\ owed = undeclared
  /\ doomed = {} /\ copies = {} /\ amends = 0 /\ rulesChanged = FALSE

Next ==
  \/ \E s \in Subtask : Work(s)
  \/ Cancel \/ RunEnds \/ Crash \/ Resume
  \/ Amend \/ RemoveAdded \/ CopyBack \/ Restart

Spec == Init /\ [][Next]_vars
-----------------------------------------------------------------------------
(* Properties.                                                             *)

Stages == {"pending", "provision", "before", "manifest", "agent", "record", "after",
           "diff", "reconcile", "review", "judge", "cut", "done", "failed"}
InPass == {"before", "manifest", "agent", "record", "after", "diff", "reconcile"}

\* Types; and a pass under way in a worktree has that worktree.
TypeOK ==
  /\ isolation \in Isolations /\ declared \in Plans
  /\ process \in {"executing", "paused", "ended", "restoring"}
  /\ reviewing \in Reviewings /\ cancelled \in BOOLEAN /\ rulesChanged \in BOOLEAN
  /\ faults \in 0 .. MaxFaults /\ amends \in 0 .. MaxAmends
  /\ main \in Tree /\ worktree \in [Subtask -> Tree \cup {NoTree}]
  /\ stage \in [Subtask -> Stages] /\ passes \in 0 .. MaxPasses
  /\ pass \in [Subtask -> [
       no : 0 .. MaxPasses, before : Tree \cup {NoTree}, manifest : Tree \cup {NoTree},
       after : Tree \cup {NoTree}, patch : SUBSET Path, landing : SUBSET Path,
       touched : SUBSET Path, strayed : SUBSET Path]]
  /\ {undeclared, owed} \subseteq [Subtask -> SUBSET Path]
  /\ doomed \subseteq Path /\ copies \subseteq Path
  /\ isolation = "worktree" =>
       \A s \in Subtask : stage[s] \in InPass => worktree[s] \in Tree

\* The reviewer has the diff of a pass before it.
UnderReview(s) == process = "executing" /\ stage[s] \in {"review", "judge"}

\* What a reviewer is shown as the work of a subtask was done by its own agent,
\* or by one that left the files of its own subtask: concurrent subtasks that
\* keep to theirs do not leak into each other's diff.
PatchIsOwn ==
  isolation # "none" =>
    \A s \in Subtask : UnderReview(s) => pass[s].patch \subseteq pass[s].touched \cup pass[s].strayed

\* No edit passes unseen: an agent's changes to declared files are in the diff
\* under review, those to files nobody declares on the subtask's record, over
\* all its passes, interrupted ones included.
EditsAccounted ==
  isolation # "none" =>
    \A s \in Subtask : UnderReview(s) =>
      /\ pass[s].touched \cap declared[s] \subseteq pass[s].patch \cup pass[s].strayed
      /\ owed[s] \subseteq undeclared[s]

\* The diff before a reviewer holds all its subtask did, and nothing else.
DiffsAccount == PatchIsOwn /\ EditsAccounted

\* No worktree outlives the work on its subtask, however the passes end, but where
\* the process dies or its context is cancelled: then it stays with a subtask that
\* is to be run again, and else only if the hook settles without a review what
\* the cancellation has left.
WorktreeGoes(s) ==
  InFlight(s) /\ ~InFlight(s)' /\ worktree'[s] # NoTree =>
    \/ stage'[s] = "pending" /\ (cancelled \/ faults' # faults)
    \/ stage'[s] = "done" /\ cancelled /\ ~reviewing

WorktreesGoWithPass == [][\A s \in Subtask : WorktreeGoes(s)]_vars

\* The revert of an amend, also one repeated after it broke off, brings back
\* every file of the baseline and, unless an agent had changed what is ignored,
\* leaves nothing for the full diff to show.
AmendUndoes ==
  Restored => /\ \A p \in Present(Baseline) : main[p] = Start[p]
              /\ ~rulesChanged => FullDiff = {}

\* Copying a worktree's files back keeps the edits of earlier passes that the
\* tree reflects.  Violated by the code: each pass starts from HEAD, without
\* them, and its files replace the tree's.
LandingKeepsEdits ==
  [][process = "executing" /\ isolation = "worktree" =>
       \A p \in Path : main[p] \cap Mark \subseteq main'[p]]_vars
=============================================================================
